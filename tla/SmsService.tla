------------------------------ MODULE SmsService ------------------------------
(***************************************************************************)
(* The SMS service, sms_receive.c: two threads and one GSM modem.          *)
(*                                                                         *)
(*   - read_msg lists the messages on the SIM, reads them one by one,      *)
(*     answers and deletes them (the Rd... actions);                       *)
(*   - send_daily sends the day's air quality to each registered number    *)
(*     (the Day... actions).                                               *)
(*                                                                         *)
(* A command is written to the modem and, a second later, whatever it has  *)
(* answered is read into the shared buffer respond; threads hold the       *)
(* semaphore mutex meanwhile. The modem and the SIM are not part of the    *)
(* source: they are modelled from how it uses them. An answer may come too *)
(* late to be read with its command, the modem may refuse a command, and   *)
(* the write may fail. If what is read holds both OK and ERROR, the thread *)
(* reads on for ever.                                                      *)
(***************************************************************************)
EXTENDS Integers, Sequences

CONSTANTS
    Phone,      \* the registered phone numbers
    Stranger,   \* a number that is not registered
    Nobody,     \* what parse_msg makes of a response without a message
    SimSize,    \* number of indices of the SIM
    WideIndex,  \* the first index of two digits, 10
    MaxTrouble  \* bound on late answers, refused commands and failed writes

ASSUME SmsAssumption ==
    /\ Stranger \notin Phone /\ Nobody \notin Phone \cup {Stranger}
    /\ SimSize \in Nat /\ WideIndex \in Nat /\ MaxTrouble \in Nat
    /\ WideIndex <= SimSize

VARIABLES
    sim,        \* the messages on the SIM
    modemTo,    \* number an SMS is being entered for, or Nobody
    modemText,  \* what was entered for it
    line,       \* answers of the modem that were not read with their command
    respond,    \* what was read after the last command
    reading,    \* the loop of SMS_SendWriteCommand goes on reading
    mutex,      \* the semaphore
    rdPc, i,    \* read_msg: where it is, its index
    rdMsg,      \* cmd_and_pNum, the message it is answering
    rdText,     \* msg, the answer
    dayPc,      \* send_daily: where it is
    dayLeft,    \* the numbers it has still to send to, the current one included
    sent,       \* history: the SMS that was sent last
    trouble     \* history: how many writes failed, answers were late or refusals

modemVars == <<sim, modemTo, modemText, line, sent>>
rdVars    == <<rdPc, i, rdMsg, rdText>>
dayVars   == <<dayPc, dayLeft>>
vars      == <<modemVars, respond, reading, mutex, rdVars, dayVars, trouble>>

Index   == 0 .. SimSize - 1
\* A message as the answer to it tells it apart: the text is "ALL", another one of
\* three characters, or one of another length, with the word ERROR in it or without. A
\* stranger's text makes no other difference.
Message == [from : Phone, cmd : {"ALL", "three", "other", "error"}]
               \cup [from : {Stranger}, cmd : {"other", "error"}]
Empty   == [from |-> Nobody, cmd |-> "none"]
Answers == {"no node", "syntax", "not registered", "data"}

\* Answers of the modem: "ok 16" is a command of nine characters and OK, 16 together,
\* "ok" is one of another length, "no list" one of 20; "error list" is a list with a text
\* that has the word ERROR; "echo" is what is not executed as a command, sent back.
Reply(kind, m) == [kind |-> kind, msg |-> m]
Replies == {Reply(k, Empty) : k \in {"ok", "ok 16", "list", "error list", "no list",
                                     "echo", "error"}}
               \cup {Reply("message", m) : m \in Message}
HasOk(reply)    == reply.kind \notin {"echo", "error"}
HasError(reply) == reply.kind \in {"error", "error list"} \/ reply.msg.cmd = "error"

\* The steps of send_sms.
Sending == {"format", "number", "text", "end"}
RdPc  == {"wait", "mode", "list", "listed", "read", "test", "delete", "sleep"} \cup Sending
DayPc == {"sleep", "wait"} \cup Sending

Init ==
    /\ sim = [k \in Index |-> Empty]
    /\ modemTo = Nobody /\ modemText = {} /\ line = <<>> /\ respond = <<>>
    /\ reading = FALSE
    /\ mutex = 1
    /\ rdPc = "wait" /\ i = 0 /\ rdMsg = Empty /\ rdText = "no node"
    /\ dayPc = "sleep" /\ dayLeft = {}
    /\ sent = [to |-> Nobody, text |-> {}] /\ trouble = 0
------------------------------------------------------------------------------
(* The modem. *)

\* A message arrives at the lowest index that is free.
Arrive(m) ==
    \E k \in Index :
        /\ sim[k] = Empty /\ \A j \in 0 .. k - 1 : sim[j] # Empty
        /\ sim' = [sim EXCEPT ![k] = m]
        /\ UNCHANGED <<modemTo, modemText, line, sent, respond, reading, mutex, rdVars,
                       dayVars, trouble>>

\* While an SMS is entered everything but its end is taken for its text.
Entering == modemTo # Nobody
Enter(t) == modemText' = modemText \cup {t} /\ UNCHANGED <<sim, modemTo, sent>>

Plain == IF Entering THEN Enter("command") ELSE UNCHANGED <<sim, modemTo, modemText, sent>>

Delete(k) ==
    IF Entering THEN Enter("command")
    ELSE /\ sim' = [j \in Index |-> IF j = k THEN Empty ELSE sim[j]]
         /\ UNCHANGED <<modemTo, modemText, sent>>

\* Without a number there is nobody to enter an SMS for.
Number(n) ==
    IF Entering THEN Enter("command")
    ELSE modemTo' = n /\ UNCHANGED <<sim, modemText, sent>>

Text(t) == IF Entering THEN Enter(t) ELSE UNCHANGED <<sim, modemTo, modemText, sent>>

End ==
    IF Entering
    THEN /\ sent' = [to |-> modemTo, text |-> modemText]
         /\ modemTo' = Nobody /\ modemText' = {}
         /\ UNCHANGED sim
    ELSE UNCHANGED <<sim, modemTo, modemText, sent>>

Echo    == Reply("echo", Empty)
Refusal == Reply("error", Empty)

EndReply == IF Entering THEN Reply("ok", Empty) ELSE Echo
NumberReply(n) == IF n = Nobody /\ ~Entering THEN Refusal ELSE Echo

ListReply ==
    IF Entering THEN Echo
    ELSE Reply(CASE \A k \in Index : sim[k] = Empty       -> "no list"
                 [] \E k \in Index : sim[k].cmd = "error" -> "error list"
                 [] OTHER                                  -> "list", Empty)

\* The answer repeats the command, so its length depends on the digits of the index.
\* Indices past the SIM have none of the messages either.
Done(k) == IF Entering THEN Echo ELSE Reply(IF k < WideIndex THEN "ok 16" ELSE "ok", Empty)
ReadReply(k) ==
    IF ~Entering /\ k \in Index /\ sim[k] # Empty THEN Reply("message", sim[k]) ELSE Done(k)

\* The modem refuses a command; an SMS whose end it refuses is not sent.
Refuse(Ends) ==
    /\ Entering => Ends
    /\ modemTo' = Nobody /\ modemText' = {}
    /\ UNCHANGED <<sim, sent>>

Trouble == trouble < MaxTrouble /\ trouble' = trouble + 1

\* Variation of ReadsOn: one of the two words is enough.
ReadsOnEither(answers) ==
    \/ \E k \in 1 .. Len(answers) : HasOk(answers[k])
    \/ \E k \in 1 .. Len(answers) : HasError(answers[k])

\* The condition of the loop that reads the answer. What was read stays in its buffer,
\* so if the condition is true once it is true for ever.
ReadsOn(answers) ==
    /\ \E k \in 1 .. Len(answers) : HasOk(answers[k])
    /\ \E k \in 1 .. Len(answers) : HasError(answers[k])

Read(answers) ==
    IF ReadsOn(answers) THEN reading' = TRUE /\ UNCHANGED respond
    ELSE respond' = answers /\ UNCHANGED reading

\* SMS_SendWriteCommand: the modem executes the command or refuses it, and answers in
\* time or too late; if the write fails, respond keeps the answer to another command.
Command(Execute, reply, Ends) ==
    /\ ~reading
    /\ \/ Execute /\ Read(Append(line, reply)) /\ line' = <<>> /\ UNCHANGED trouble
       \/ Execute /\ Read(line) /\ line' = <<reply>> /\ Trouble
       \/ Refuse(Ends) /\ Read(Append(line, Refusal)) /\ line' = <<>> /\ Trouble
       \/ Trouble /\ UNCHANGED <<modemVars, respond, reading>>

\* Where a thread is when it was at pc and has given a command.
Past(pc, next) == IF reading' THEN pc ELSE next

\* send_sms: its commands, one step each, from pc to next; AT and AT+CMGF=1, which
\* do the same to the modem, are one.
SendSms(pc, next, to, text) ==
    \/ pc = "format" /\ Command(Plain, Done(0), FALSE) /\ next = Past(pc, "number")
    \/ pc = "number" /\ Command(Number(to), NumberReply(to), FALSE) /\ next = Past(pc, "text")
    \/ pc = "text"   /\ Command(Text(text), Echo, FALSE) /\ next = Past(pc, "end")
------------------------------------------------------------------------------
(* read_msg *)

RdGoto(pc) == rdPc' = pc /\ UNCHANGED <<i, rdMsg, rdText>>

RdWait ==
    /\ rdPc = "wait" /\ mutex > 0
    /\ mutex' = mutex - 1
    /\ RdGoto("mode")
    /\ UNCHANGED <<modemVars, respond, reading, dayVars, trouble>>

RdMode ==
    /\ rdPc = "mode"
    /\ Command(Plain, Done(0), FALSE)
    /\ RdGoto(Past(rdPc, "list"))
    /\ UNCHANGED <<mutex, dayVars>>

RdList ==
    /\ rdPc = "list"
    /\ Command(Plain, ListReply, FALSE)
    /\ RdGoto(Past(rdPc, "listed"))
    /\ UNCHANGED <<mutex, dayVars>>

\* Variation of RdListed: the "goto" is left out.
RdListedOn ==
    /\ rdPc = "listed"
    /\ RdGoto("read")
    /\ mutex' = IF respond = <<Reply("no list", Empty)>> THEN mutex + 1 ELSE mutex
    /\ UNCHANGED <<modemVars, respond, reading, dayVars, trouble>>

\* A response of 20 characters is the command and OK: no message. Otherwise the
\* loop over the indices starts.
RdListed ==
    /\ rdPc = "listed"
    /\ IF respond = <<Reply("no list", Empty)>>
       THEN RdGoto("sleep") /\ mutex' = mutex + 1
       ELSE RdGoto("read") /\ UNCHANGED mutex
    /\ UNCHANGED <<modemVars, respond, reading, dayVars, trouble>>

RdRead ==
    /\ rdPc = "read"
    /\ Command(Plain, ReadReply(i), FALSE)
    /\ RdGoto(Past(rdPc, "test"))
    /\ UNCHANGED <<mutex, dayVars>>

\* parse_msg: number and command from the first answer that has fields; a list has
\* its fields elsewhere.
Fields == {k \in 1 .. Len(respond) : respond[k].kind \in {"message", "list"}}
Parsed == IF Fields = {} THEN Empty
          ELSE respond[CHOOSE k \in Fields : \A j \in Fields : k <= j].msg

\* get_data_by_phone_num: "unknown" for addr -1, "absent" for addr 0.
Found(m) == IF m.from \in Phone THEN {"node", "absent"} ELSE {"unknown"}

\* send_data_with_received_msg.
Answer(addr, cmd) ==
    CASE addr = "absent" /\ cmd = "ALL"  -> "no node"
      [] addr # "unknown" /\ cmd \in {"other", "error"} -> "syntax"
      [] addr = "unknown" -> "not registered"
      [] OTHER -> "data"

RdAnswer ==
    /\ rdPc' = "format"
    /\ rdMsg' = Parsed
    /\ \E a \in Found(Parsed) : rdText' = Answer(a, Parsed.cmd)
    /\ UNCHANGED <<i, mutex>>

RdTestTo(pc, first, post, Last) ==
    /\ rdPc = "test"
    /\ IF Last
       THEN /\ rdPc' = pc /\ i' = first /\ mutex' = mutex + post
            /\ UNCHANGED <<rdMsg, rdText>>
       ELSE RdAnswer
    /\ UNCHANGED <<modemVars, respond, reading, dayVars, trouble>>

\* Variations of RdTest: the index is not reset, the loop does not end, a response
\* without fields ends it.
RdTestOn    == RdTestTo("sleep", i, 1, respond = <<Reply("ok 16", Empty)>>)
RdTestPolls == RdTestTo("read", 0, 0, respond = <<Reply("ok 16", Empty)>>)
RdTestField == RdTestTo("sleep", 0, 1, Fields = {})

\* A response of 16 characters ends the loop; any other one is answered.
RdTest == RdTestTo("sleep", 0, 1, respond = <<Reply("ok 16", Empty)>>)

RdSend ==
    /\ rdPc \in Sending
    /\ \/ SendSms(rdPc, rdPc', rdMsg.from, rdText)
       \/ rdPc = "end" /\ Command(End, EndReply, TRUE) /\ rdPc' = Past(rdPc, "delete")
    /\ UNCHANGED <<i, rdMsg, rdText, mutex, dayVars>>

\* Bound: indices past the SIM are not told apart.
Counted == IF i < SimSize THEN i + 1 ELSE i

RdDeleted ==
    IF reading' THEN UNCHANGED rdVars
    ELSE rdPc' = "read" /\ i' = Counted /\ rdMsg' = Empty /\ rdText' = "no node"

\* Variation of RdDelete: the index is counted up first.
RdDeleteNext ==
    /\ rdPc = "delete"
    /\ Command(Delete(i + 1), Done(i + 1), FALSE)
    /\ RdDeleted
    /\ UNCHANGED <<mutex, dayVars>>

RdDelete ==
    /\ rdPc = "delete"
    /\ Command(Delete(i), Done(i), FALSE)
    /\ RdDeleted
    /\ UNCHANGED <<mutex, dayVars>>

RdSleep ==
    /\ rdPc = "sleep"
    /\ RdGoto("wait")
    /\ UNCHANGED <<modemVars, respond, reading, mutex, dayVars, trouble>>

RdStep == \/ RdWait \/ RdMode \/ RdList \/ RdListed \/ RdRead \/ RdTest \/ RdSend
          \/ RdDelete \/ RdSleep
------------------------------------------------------------------------------
(* send_daily *)

\* The hour has come; the file of numbers and nodes is read. Without numbers the loop
\* over them does nothing.
DayBegin ==
    /\ dayPc = "sleep" /\ Phone # {}
    /\ dayLeft' = Phone /\ dayPc' = "wait"
    /\ UNCHANGED <<modemVars, respond, reading, mutex, rdVars, trouble>>

\* Variation of DayWait: without the semaphore.
DayWaitNot ==
    /\ dayPc = "wait"
    /\ dayPc' = "format"
    /\ UNCHANGED <<modemVars, respond, reading, mutex, rdVars, dayLeft, trouble>>

DayWait ==
    /\ dayPc = "wait" /\ mutex > 0
    /\ mutex' = mutex - 1
    /\ dayPc' = "format"
    /\ UNCHANGED <<modemVars, respond, reading, rdVars, dayLeft, trouble>>

\* The numbers are sent to in the file's order, whatever it is.
DayNumber == CHOOSE n \in dayLeft : TRUE

DaySent ==
    IF reading' THEN UNCHANGED <<mutex, dayVars>>
    ELSE /\ mutex' = mutex + 1
         /\ dayLeft' = dayLeft \ {DayNumber}
         /\ dayPc' = IF dayLeft' = {} THEN "sleep" ELSE "wait"

DaySend ==
    /\ dayPc \in Sending
    /\ \/ /\ SendSms(dayPc, dayPc', DayNumber, "daily")
          /\ UNCHANGED <<mutex, dayLeft>>
       \/ /\ dayPc = "end" /\ Command(End, EndReply, TRUE)
          /\ DaySent
    /\ UNCHANGED rdVars

DayStep == DayWait \/ DaySend
------------------------------------------------------------------------------
\* The loop goes round again: every word it looks for is in its buffer already.
ReadAgain == reading /\ UNCHANGED vars

Next == \/ \E m \in Message : Arrive(m)
        \/ RdStep
        \/ DayBegin
        \/ DayStep
        \/ ReadAgain

Spec == Init /\ [][Next]_vars

\* The threads are scheduled. read_msg sleeps for three seconds after it has posted
\* the semaphore, send_daily for one: a thread that waits for it gets it.
FairSpec == Spec /\ WF_vars(RdStep) /\ SF_vars(RdWait) /\ WF_vars(DayStep) /\ SF_vars(DayWait)
------------------------------------------------------------------------------
(* Properties. *)

\* Every variable holds a value the code can give it.
TypeOK ==
    /\ sim \in [Index -> Message \cup {Empty}]
    /\ modemTo \in Phone \cup {Stranger, Nobody}
    /\ modemText \subseteq Answers \cup {"daily", "command"}
    /\ line \in Seq(Replies) /\ Len(line) <= 1
    /\ respond \in Seq(Replies) /\ Len(respond) <= 2 /\ reading \in BOOLEAN
    /\ mutex \in {0, 1}
    /\ rdPc \in RdPc /\ i \in 0 .. SimSize
    /\ rdMsg \in Message \cup {Empty} /\ rdText \in Answers
    /\ dayPc \in DayPc /\ dayLeft \subseteq Phone
    /\ sent.to \in Phone \cup {Stranger, Nobody} /\ trouble \in 0 .. MaxTrouble

\* An SMS has one text, and goes to the number the text was composed for: the two
\* threads do not come between each other's commands.
OneText ==
    sent.to # Nobody /\ trouble = 0 =>
        \E t \in Answers \cup {"daily"} :
            /\ sent.text = {t}
            /\ sent.to = Stranger <=> t = "not registered"

\* The indices have one digit.
Narrow == i < WideIndex

\* A message is deleted after it was answered, and the answer fits it.
AnsweredDelete ==
    \A k \in Index :
        sim[k] # Empty /\ sim'[k] = Empty /\ Narrow /\ trouble' = 0 =>
            /\ sent.to = sim[k].from
            /\ \E a \in Found(sim[k]) : sent.text = {Answer(a, sim[k].cmd)}
DeletedWhenAnswered == [][AnsweredDelete]_vars

\* No text has the word ERROR in it.
NoErrorText == \A k \in Index : sim[k].cmd # "error"

\* Every index is free again and again: messages are answered as long as the modem
\* keeps up, whatever arrives but a text with the word ERROR in it.
MessagesAnswered ==
    [](Narrow /\ NoErrorText /\ trouble = 0) => \A k \in Index : []<>(sim[k] = Empty)

\* send_daily is not kept from the modem for ever, a late answer, a refused command or
\* a failed write included. A second trouble could bring a late OK and an ERROR
\* together, as a text with the word ERROR does: read_msg then reads for ever and keeps
\* the semaphore.
DailySent ==
    [](Narrow /\ NoErrorText /\ trouble <= 1) => (dayPc = "wait" ~> dayPc \in Sending)

\* The only ways into the loop that does not end: a text with the word ERROR, two
\* answers that went wrong, or an index of two digits.
EndlessCause == reading => ~NoErrorText \/ trouble > 1 \/ ~Narrow

\* An SMS whose end the modem did not get is ended by a later one: the answers to
\* read_msg's commands, taken for a message, make it send another.
EntryEnds == [](NoErrorText /\ trouble <= 1) => (Entering ~> ~Entering)

\* The comments "Read all message" on the listing and "Threre is no message at all"
\* on the end of the loop: messages are answered after a write has failed, too.
ReadAll == [](Narrow /\ NoErrorText) => \A k \in Index : []<>(sim[k] = Empty)

\* The comment behind the loop, "sleep 3s before handle another message": with a
\* modem that keeps up and texts without the word ERROR, read_msg comes to this sleep
\* again and again.
SleepsBetween == [](NoErrorText /\ trouble = 0) => []<>(rdPc = "sleep")
==============================================================================
