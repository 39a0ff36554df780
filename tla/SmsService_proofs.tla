--------------------------- MODULE SmsService_proofs ---------------------------
(***************************************************************************)
(* Proofs about SmsService, for every set of numbers and size of the SIM:  *)
(* the semaphore keeps the two threads apart, so that an SMS has one text  *)
(* and a message is deleted after its answer was sent.                     *)
(***************************************************************************)
EXTENDS SmsService, TLAPS

RdHolds  == rdPc \notin {"wait", "sleep"}
DayHolds == dayPc \in Sending

\* The semaphore, and what each thread is composing an SMS from.
ThreadsOK ==
    /\ mutex = IF RdHolds \/ DayHolds THEN 0 ELSE 1
    /\ ~(RdHolds /\ DayHolds)
    /\ dayPc # "sleep" => dayLeft # {}
    /\ rdPc \in Sending => \E a \in Found(rdMsg) : rdText = Answer(a, rdMsg.cmd)

\* While every answer has come in time, and is not read on for ever, an SMS is entered by the holder of the
\* semaphore, between its number and its end, and is for the number it was composed
\* for.
HolderEnters ==
    /\ line = <<>>
    /\ rdPc \in {"text", "end"} => modemTo = rdMsg.from
    /\ dayPc \in {"text", "end"} => modemTo = DayNumber
    /\ rdPc \notin {"text", "end"} /\ dayPc \notin {"text", "end"} => modemTo = Nobody
    /\ rdPc = "end" => modemText = IF modemTo = Nobody THEN {} ELSE {rdText}
    /\ dayPc = "end" => modemText = {"daily"}
    /\ rdPc # "end" /\ dayPc # "end" => modemText = {}

EntryOK == trouble = 0 /\ ~reading => HolderEnters

\* The message at read_msg's index is the one it is answering.
AnswersIt ==
    /\ rdPc = "test" => \/ respond = <<Reply("ok 16", Empty)>>
                        \/ sim[i] # Empty /\ respond = <<Reply("message", sim[i])>>
    /\ rdPc \in Sending \cup {"delete"} => sim[i] # Empty /\ sim[i] = rdMsg
    /\ rdPc = "delete" =>
           /\ sent.to = rdMsg.from
           /\ \E a \in Found(rdMsg) : sent.text = {Answer(a, rdMsg.cmd)}

AnswerOK == trouble = 0 /\ ~reading /\ Narrow => AnswersIt

SmsInv == TypeOK /\ ThreadsOK /\ EntryOK /\ AnswerOK /\ OneText

\* TypeOK by what changes together.
SimTyped  == /\ sim \in [Index -> Message \cup {Empty}]
             /\ modemTo \in Phone \cup {Stranger, Nobody}
             /\ modemText \subseteq Answers \cup {"daily", "command"}
             /\ sent.to \in Phone \cup {Stranger, Nobody}
ReadTyped == /\ line \in Seq(Replies) /\ Len(line) <= 1
             /\ respond \in Seq(Replies) /\ Len(respond) <= 2
             /\ reading \in BOOLEAN /\ trouble \in 0 .. MaxTrouble
RdTyped   == /\ mutex \in {0, 1} /\ rdPc \in RdPc /\ i \in 0 .. SimSize
             /\ rdMsg \in Message \cup {Empty} /\ rdText \in Answers
DayTyped  == dayPc \in DayPc /\ dayLeft \subseteq Phone

simVars == <<sim, modemTo, modemText, sent>>

LEMMA TypeParts == TypeOK <=> SimTyped /\ ReadTyped /\ RdTyped /\ DayTyped
    BY DEF TypeOK, SimTyped, ReadTyped, RdTyped, DayTyped

\* parse_msg takes a message out of the response, or nothing.
LEMMA ParsedTyped ==
    ASSUME ReadTyped
    PROVE  Parsed \in Message \cup {Empty}
<1>1. CASE Fields = {}
    BY <1>1 DEF Parsed
<1>2. CASE Fields # {}
    <2>1. \A k \in Fields : k \in {1, 2} /\ k \in 1 .. Len(respond)
        BY DEF ReadTyped, Fields
    <2>2. \E k \in Fields : \A j \in Fields : k <= j
        <3>1. CASE 1 \in Fields
            BY <2>1, <3>1
        <3>2. CASE 1 \notin Fields
            BY <1>2, <2>1, <3>2
        <3>. QED
            BY <3>1, <3>2
    <2>3. PICK k \in Fields : Parsed = respond[k].msg
        BY <1>2, <2>2 DEF Parsed
    <2>4. respond[k] \in Replies
        BY <2>1, <2>3 DEF ReadTyped
    <2>5. \A r \in Replies : r.msg \in Message \cup {Empty}
        <3> SUFFICES ASSUME NEW r \in Replies PROVE r.msg \in Message \cup {Empty}
            OBVIOUS
        <3>1. CASE \E kind : r = Reply(kind, Empty)
            BY <3>1 DEF Reply
        <3>2. CASE \E m \in Message : r = Reply("message", m)
            BY <3>2 DEF Reply
        <3>. QED
            BY <3>1, <3>2 DEF Replies
    <2>. QED
        BY <2>3, <2>4, <2>5
<1>. QED
    BY <1>1, <1>2

\* Every message has an answer, and it says "not registered" to strangers only.
LEMMA AnswerTyped ==
    ASSUME NEW m \in Message \cup {Empty}
    PROVE  /\ Found(m) # {}
           /\ \A a \in Found(m) : Answer(a, m.cmd) \in Answers
           /\ \A a \in Found(m) : m.from \in Phone => Answer(a, m.cmd) # "not registered"
           /\ \A a \in Found(m) : m.from \notin Phone => Answer(a, m.cmd) = "not registered"
    BY DEF Message, Empty, Found, Answer, Answers

LEMMA FromTyped ==
    ASSUME NEW m \in Message \cup {Empty}
    PROVE  m.from \in Phone \cup {Stranger, Nobody}
    BY DEF Message, Empty

\* The number send_daily is at.
LEMMA DayNumberTyped ==
    ASSUME DayTyped, dayLeft # {}
    PROVE  DayNumber \in Phone /\ DayNumber \in dayLeft
    BY DEF DayNumber, DayTyped

\* What the modem answers.
LEMMA RepliesTyped ==
    ASSUME SimTyped, NEW k
    PROVE  /\ Echo \in Replies /\ Refusal \in Replies /\ EndReply \in Replies
           /\ NumberReply(k) \in Replies /\ Done(k) \in Replies /\ ListReply \in Replies
           /\ ReadReply(k) \in Replies
<1>1. /\ Echo \in Replies /\ Refusal \in Replies /\ EndReply \in Replies
      /\ NumberReply(k) \in Replies /\ Done(k) \in Replies
    BY DEF Echo, Refusal, EndReply, NumberReply, Done, Replies, Reply
<1>3. ListReply \in Replies
    BY DEF ListReply, Echo, Replies, Reply
<1>2. ReadReply(k) \in Replies
    <2>1. CASE ~Entering /\ k \in Index /\ sim[k] # Empty
        <3>1. sim[k] \in Message
            BY <2>1 DEF SimTyped
        <3>. QED
            BY <2>1, <3>1 DEF ReadReply, Replies, Reply
    <2>2. CASE ~(~Entering /\ k \in Index /\ sim[k] # Empty)
        <3>1. ReadReply(k) = Done(k)
            BY <2>2 DEF ReadReply
        <3>. QED
            BY <1>1, <3>1
    <2>. QED
        BY <2>1, <2>2
<1>. QED
    BY <1>1, <1>2, <1>3

\* A command: what comes to be read of it.
Heard(reply) == \/ Read(Append(line, reply)) /\ line' = <<>> /\ UNCHANGED trouble
                \/ Read(line) /\ line' = <<reply>> /\ Trouble
                \/ Read(Append(line, Refusal)) /\ line' = <<>> /\ Trouble
                \/ Trouble /\ UNCHANGED <<respond, line, reading>>

LEMMA HeardTyped ==
    ASSUME SmsAssumption, SimTyped, ReadTyped, NEW reply \in Replies, Heard(reply)
    PROVE  ReadTyped'
<1> USE DEF ReadTyped
<1>1. trouble' \in 0 .. MaxTrouble
    BY DEF SmsAssumption, Heard, Trouble
<1>2. ASSUME NEW answers \in Seq(Replies), Len(answers) <= 2, Read(answers)
      PROVE  respond' \in Seq(Replies) /\ Len(respond') <= 2 /\ reading' \in BOOLEAN
    BY <1>2 DEF Read
<1>3. ASSUME NEW r \in Replies, Read(Append(line, r)) /\ line' = <<>>
      PROVE  ReadTyped'
    <2>1. Append(line, r) \in Seq(Replies) /\ Len(Append(line, r)) <= 2
        OBVIOUS
    <2>2. respond' \in Seq(Replies) /\ Len(respond') <= 2 /\ reading' \in BOOLEAN
        BY <1>2, <1>3, <2>1
    <2>3. line' \in Seq(Replies) /\ Len(line') <= 1
        BY <1>3
    <2>. QED
        BY <1>1, <2>2, <2>3
<1>4. CASE Read(line) /\ line' = <<reply>>
    BY <1>1, <1>2, <1>4
<1>5. CASE UNCHANGED <<respond, line, reading>>
    BY <1>1, <1>5
<1>6. Refusal \in Replies
    BY RepliesTyped
<1>. QED
    BY <1>3, <1>4, <1>5, <1>6 DEF Heard

\* What the modem makes of it.
Refused == modemTo' = Nobody /\ modemText' = {} /\ UNCHANGED <<sim, sent>>

LEMMA ExecuteTyped ==
    ASSUME SimTyped, NEW k, NEW n \in Phone \cup {Stranger, Nobody},
           NEW t \in Answers \cup {"daily"},
           \/ Plain \/ Delete(k) \/ Number(n) \/ Text(t) \/ End \/ Refused
           \/ UNCHANGED simVars
    PROVE  SimTyped'
<1> USE DEF Enter, Entering
<1>1. CASE Plain
    BY <1>1 DEF Plain, SimTyped
<1>2. CASE Delete(k)
    BY <1>2 DEF Delete, SimTyped
<1>3. CASE Number(n)
    BY <1>3 DEF Number, SimTyped
<1>4. CASE Text(t)
    BY <1>4 DEF Text, SimTyped
<1>5. CASE End
    BY <1>5 DEF End, SimTyped
<1>6. CASE UNCHANGED simVars
    BY <1>6 DEF simVars, SimTyped
<1>7. CASE Refused
    BY <1>7 DEF Refused, SimTyped
<1>. QED
    BY <1>1, <1>2, <1>3, <1>4, <1>5, <1>6, <1>7

\* Every step keeps the types.
LEMMA TypeStep ==
    ASSUME SmsAssumption, TypeOK, ThreadsOK, [Next]_vars
    PROVE  TypeOK'
<1> USE DEF modemVars, rdVars, dayVars, simVars, RdGoto
<1> SUFFICES SimTyped' /\ ReadTyped' /\ RdTyped' /\ DayTyped'
    BY DEF TypeOK, SimTyped, ReadTyped, RdTyped, DayTyped
<1>1. SimTyped /\ ReadTyped /\ RdTyped /\ DayTyped
    BY TypeParts
<1>0. rdPc \notin {"wait", "sleep"} \/ dayPc \in Sending => mutex = 0
    BY DEF ThreadsOK, RdHolds, DayHolds
<1>2. CASE \E m \in Message : Arrive(m)
    <2>1. SimTyped'
        BY <1>1, <1>2 DEF Arrive, SimTyped
    <2>. QED
        BY <1>1, <1>2, <2>1 DEF Arrive, ReadTyped, RdTyped, DayTyped
<1>3. CASE RdWait
    <2>1. SimTyped' /\ ReadTyped'
        BY <1>1, <1>3 DEF RdWait, SimTyped, ReadTyped
    <2>2. RdTyped' /\ DayTyped'
        BY <1>1, <1>0, <1>3 DEF RdWait, RdTyped, DayTyped, RdPc, DayPc, Sending
    <2>. QED
        BY <2>1, <2>2
<1>5. CASE RdSleep
    <2>1. SimTyped' /\ ReadTyped'
        BY <1>1, <1>5 DEF RdSleep, SimTyped, ReadTyped
    <2>2. RdTyped' /\ DayTyped'
        BY <1>1, <1>0, <1>5 DEF RdSleep, RdTyped, DayTyped, RdPc, DayPc, Sending
    <2>. QED
        BY <2>1, <2>2
<1>6. CASE DayBegin
    <2>1. SimTyped' /\ ReadTyped'
        BY <1>1, <1>6 DEF DayBegin, SimTyped, ReadTyped
    <2>2. RdTyped' /\ DayTyped'
        BY <1>1, <1>0, <1>6 DEF DayBegin, RdTyped, DayTyped, RdPc, DayPc, Sending
    <2>. QED
        BY <2>1, <2>2
<1>7. CASE DayWait
    <2>1. SimTyped' /\ ReadTyped'
        BY <1>1, <1>7 DEF DayWait, SimTyped, ReadTyped
    <2>2. RdTyped' /\ DayTyped'
        BY <1>1, <1>0, <1>7 DEF DayWait, RdTyped, DayTyped, RdPc, DayPc, Sending
    <2>. QED
        BY <2>1, <2>2
<1>4. CASE RdListed
    <2>1. SimTyped' /\ ReadTyped' /\ DayTyped'
        BY <1>1, <1>4 DEF RdListed, SimTyped, ReadTyped, DayTyped
    <2>2. /\ rdPc = "listed" /\ mutex = 0
          /\ rdPc' \in {"sleep", "read"} /\ mutex' \in {mutex, mutex + 1}
          /\ UNCHANGED <<i, rdMsg, rdText>>
        BY <1>0, <1>4 DEF RdListed
    <2>3. RdTyped'
        BY <1>1, <2>2 DEF RdTyped, RdPc
    <2>. QED
        BY <2>1, <2>3
<1>8. CASE RdMode
    <2>1. (Plain \/ Refused \/ UNCHANGED simVars) /\ Heard(Done(0))
        BY <1>8 DEF RdMode, Command, Heard, Refuse, Refused
    <2>2. SimTyped' /\ ReadTyped'
        BY <1>1, <2>1, ExecuteTyped, HeardTyped, RepliesTyped
    <2>3. RdTyped' /\ DayTyped'
        BY <1>1, <1>8 DEF RdMode, Past, RdTyped, DayTyped, RdPc, DayPc, Sending
    <2>. QED
        BY <2>2, <2>3
<1>9. CASE RdList
    <2>1. (Plain \/ Refused \/ UNCHANGED simVars) /\ Heard(ListReply)
        BY <1>9 DEF RdList, Command, Heard, Refuse, Refused
    <2>2. SimTyped' /\ ReadTyped'
        BY <1>1, <2>1, ExecuteTyped, HeardTyped, RepliesTyped
    <2>3. RdTyped' /\ DayTyped'
        BY <1>1, <1>9 DEF RdList, Past, RdTyped, DayTyped, RdPc, DayPc, Sending
    <2>. QED
        BY <2>2, <2>3
<1>10. CASE RdRead
    <2>1. (Plain \/ Refused \/ UNCHANGED simVars) /\ Heard(ReadReply(i))
        BY <1>10 DEF RdRead, Command, Heard, Refuse, Refused
    <2>2. SimTyped' /\ ReadTyped'
        BY <1>1, <2>1, ExecuteTyped, HeardTyped, RepliesTyped
    <2>3. RdTyped' /\ DayTyped'
        BY <1>1, <1>10 DEF RdRead, Past, RdTyped, DayTyped, RdPc, DayPc, Sending
    <2>. QED
        BY <2>2, <2>3
<1>11. CASE RdDelete
    <2>1. (Delete(i) \/ Refused \/ UNCHANGED simVars) /\ Heard(Done(i))
        BY <1>11 DEF RdDelete, Command, Heard, Refuse, Refused
    <2>2. SimTyped' /\ ReadTyped' /\ DayTyped'
        BY <1>1, <1>11, <2>1, ExecuteTyped, HeardTyped, RepliesTyped DEF RdDelete, DayTyped
    <2>3. \/ UNCHANGED <<rdVars, mutex>>
          \/ /\ rdPc' = "read" /\ i' = Counted /\ rdMsg' = Empty /\ rdText' = "no node"
             /\ UNCHANGED mutex
        BY <1>11 DEF RdDelete, RdDeleted
    <2>4. Counted \in 0 .. SimSize
        BY <1>1 DEF RdTyped, SmsAssumption, Counted
    <2>5. RdTyped'
        BY <1>1, <2>3, <2>4 DEF RdTyped, RdPc, Answers
    <2>. QED
        BY <2>2, <2>5
<1>12. CASE RdTest
    <2>1. SimTyped' /\ ReadTyped' /\ DayTyped'
        BY <1>1, <1>12 DEF RdTest, RdTestTo, SimTyped, ReadTyped, DayTyped
    <2>2. RdTyped'
        <3>1. CASE RdAnswer
            <4>1. /\ rdPc' = "format" /\ rdMsg' = Parsed /\ UNCHANGED <<i, mutex>>
                  /\ \E a \in Found(Parsed) : rdText' = Answer(a, Parsed.cmd)
                BY <3>1 DEF RdAnswer
            <4>2. rdMsg' \in Message \cup {Empty} /\ rdText' \in Answers
                BY <1>1, <4>1, ParsedTyped, AnswerTyped
            <4>. QED
                BY <1>1, <4>1, <4>2 DEF RdTyped, RdPc, Sending
        <3>2. CASE ~RdAnswer
            <4>1. /\ rdPc = "test" /\ mutex = 0 /\ rdPc' = "sleep" /\ i' = 0 /\ mutex' = mutex + 1
                  /\ UNCHANGED <<rdMsg, rdText>>
                BY <1>0, <1>12, <3>2 DEF RdTest, RdTestTo
            <4>. QED
                BY <1>1, <4>1 DEF RdTyped, RdPc, SmsAssumption
        <3>. QED
            BY <3>1, <3>2
    <2>. QED
        BY <2>1, <2>2
<1>13. CASE RdSend
    <2>1. /\ Plain \/ Number(rdMsg.from) \/ Text(rdText) \/ End \/ Refused \/ UNCHANGED simVars
          /\ \E r \in {Done(0), NumberReply(rdMsg.from), Echo, EndReply} : Heard(r)
          /\ rdPc' \in {rdPc, "number", "text", "end", "delete"}
          /\ UNCHANGED <<i, rdMsg, rdText, mutex, dayPc, dayLeft>>
        BY <1>13 DEF RdSend, SendSms, Past, Command, Heard, Refuse, Refused
    <2>2. rdMsg.from \in Phone \cup {Stranger, Nobody} /\ rdText \in Answers
        BY <1>1, FromTyped DEF RdTyped
    <2>3. SimTyped' /\ ReadTyped'
        BY <1>1, <2>1, <2>2, ExecuteTyped, HeardTyped, RepliesTyped
    <2>4. RdTyped' /\ DayTyped'
        BY <1>1, <2>1 DEF RdTyped, DayTyped, RdPc, Sending
    <2>. QED
        BY <2>3, <2>4
<1>14. CASE DaySend
    <2>1. /\ Plain \/ Number(DayNumber) \/ Text("daily") \/ End \/ Refused \/ UNCHANGED simVars
          /\ \E r \in {Done(0), NumberReply(DayNumber), Echo, EndReply} : Heard(r)
          /\ dayPc' \in {dayPc, "number", "text", "end", "sleep", "wait"} /\ dayLeft' \subseteq dayLeft
          /\ mutex' \in {mutex, mutex + 1} /\ (mutex' # mutex => dayPc = "end")
          /\ UNCHANGED rdVars
        BY <1>14 DEF DaySend, DaySent, SendSms, Past, Command, Heard, Refuse, Refused
    <2>2. DayNumber \in Phone
        BY <1>1, <1>14, DayNumberTyped DEF ThreadsOK, DaySend, Sending
    <2>3. SimTyped' /\ ReadTyped'
        BY <1>1, <2>1, <2>2, ExecuteTyped, HeardTyped, RepliesTyped
    <2>4. mutex' \in {0, 1}
        BY <1>1, <1>0, <2>1 DEF Sending, RdTyped
    <2>5. RdTyped' /\ DayTyped'
        BY <1>1, <2>1, <2>4 DEF RdTyped, DayTyped, DayPc, Sending
    <2>. QED
        BY <2>3, <2>5
<1>15. CASE ReadAgain \/ UNCHANGED vars
    BY <1>1, <1>15 DEF ReadAgain, vars, SimTyped, ReadTyped, RdTyped, DayTyped
<1>. QED
    BY <1>2, <1>3, <1>4, <1>5, <1>6, <1>7, <1>8, <1>9, <1>10, <1>11, <1>12, <1>13, <1>14, <1>15
       DEF Next, RdStep, DayStep

\* The semaphore is taken by one thread at a time, and read_msg composes an answer to
\* the message it has read.
LEMMA ThreadsStep ==
    ASSUME TypeOK, ThreadsOK, [Next]_vars
    PROVE  ThreadsOK'
<1> USE DEF rdVars, dayVars, RdGoto
<1>1. /\ mutex = IF RdHolds \/ DayHolds THEN 0 ELSE 1
      /\ ~(RdHolds /\ DayHolds)
      /\ dayPc # "sleep" => dayLeft # {}
      /\ rdPc \in Sending => \E a \in Found(rdMsg) : rdText = Answer(a, rdMsg.cmd)
    BY DEF ThreadsOK
<1>2. CASE UNCHANGED <<mutex, rdPc, rdMsg, rdText, dayPc, dayLeft>>
    BY <1>1, <1>2 DEF ThreadsOK, RdHolds, DayHolds
<1>3. CASE \/ RdMode \/ RdList \/ RdRead \/ RdDelete \/ RdSend
    <2>1. /\ RdHolds /\ RdHolds' /\ UNCHANGED <<mutex, dayPc, dayLeft>>
          /\ rdPc' \in Sending => rdPc \in Sending /\ UNCHANGED <<rdMsg, rdText>>
        BY <1>3 DEF RdMode, RdList, RdRead, RdDelete, RdDeleted, RdSend, SendSms, Past, RdHolds,
                   Sending
    <2>. QED
        BY <1>1, <2>1 DEF ThreadsOK, DayHolds
<1>4. CASE RdWait \/ RdListed \/ RdSleep
    <2>1. /\ rdPc' \in {"mode", "read", "sleep", "wait"} /\ UNCHANGED <<dayPc, dayLeft>>
          /\ \/ mutex > 0 /\ mutex' = mutex - 1 /\ ~RdHolds /\ RdHolds'
             \/ mutex' = mutex + 1 /\ RdHolds /\ ~RdHolds'
             \/ mutex' = mutex /\ (RdHolds' <=> RdHolds)
        BY <1>4 DEF RdWait, RdListed, RdSleep, RdHolds
    <2>. QED
        BY <1>1, <2>1 DEF ThreadsOK, DayHolds, Sending
<1>5. CASE RdTest
    <2>1. CASE RdAnswer
        <3>1. /\ RdHolds /\ RdHolds' /\ UNCHANGED <<mutex, dayPc, dayLeft>>
              /\ \E a \in Found(rdMsg') : rdText' = Answer(a, (rdMsg').cmd)
            BY <1>5, <2>1 DEF RdTest, RdTestTo, RdAnswer, RdHolds
        <3>. QED
            BY <1>1, <3>1 DEF ThreadsOK, DayHolds, Found
    <2>2. CASE ~RdAnswer
        <3>1. RdHolds /\ rdPc' = "sleep" /\ mutex' = mutex + 1 /\ UNCHANGED <<dayPc, dayLeft>>
            BY <1>5, <2>2 DEF RdTest, RdTestTo, RdHolds
        <3>. QED
            BY <1>1, <3>1 DEF ThreadsOK, RdHolds, DayHolds, Sending
    <2>. QED
        BY <2>1, <2>2
<1>6. CASE DayBegin \/ DayWait
    <2>1. /\ UNCHANGED <<rdPc, rdMsg, rdText>> /\ dayLeft' # {} /\ ~DayHolds
          /\ \/ dayPc' = "wait" /\ UNCHANGED mutex
             \/ dayPc' = "format" /\ mutex > 0 /\ mutex' = mutex - 1
        BY <1>1, <1>6 DEF DayBegin, DayWait, DayHolds, Sending
    <2>. QED
        BY <1>1, <2>1 DEF ThreadsOK, RdHolds, DayHolds, Sending
<1>7. CASE DaySend
    <2>1. /\ UNCHANGED <<rdPc, rdMsg, rdText>> /\ DayHolds
          /\ \/ dayPc' \in {dayPc, "number", "text", "end"} /\ UNCHANGED <<mutex, dayLeft>>
             \/ /\ dayPc' = IF dayLeft' = {} THEN "sleep" ELSE "wait"
                /\ mutex' = mutex + 1
        BY <1>7 DEF DaySend, DaySent, SendSms, Past, DayHolds
    <2>. QED
        BY <1>1, <2>1 DEF ThreadsOK, RdHolds, DayHolds, Sending
<1>8. ASSUME NEW m \in Message, Arrive(m) PROVE UNCHANGED <<mutex, rdPc, rdMsg, rdText, dayPc, dayLeft>>
    BY <1>8 DEF Arrive
<1>9. ASSUME ReadAgain \/ UNCHANGED vars
      PROVE  UNCHANGED <<mutex, rdPc, rdMsg, rdText, dayPc, dayLeft>>
    BY <1>9 DEF ReadAgain, vars
<1>. QED
    BY <1>2, <1>3, <1>4, <1>5, <1>6, <1>7, <1>8, <1>9 DEF Next, RdStep, DayStep

\* Troubles are counted, and a thread that reads on does so for ever.
LEMMA TroubleStep ==
    ASSUME SmsAssumption, TypeOK, [Next]_vars
    PROVE  /\ trouble' = 0 => trouble = 0
           /\ reading => reading'
<1>1. trouble \in Nat
    BY DEF TypeOK, SmsAssumption
<1>2. /\ UNCHANGED trouble \/ Trouble
      /\ UNCHANGED reading \/ ~reading
    BY DEF Next, RdStep, DayStep, Arrive, RdWait, RdMode, RdList, RdListed, RdRead, RdTest, RdTestTo,
           RdSend, RdDelete, RdSleep, DayBegin, DayWait, DaySend, SendSms, Command, ReadAgain, vars
<1>. QED
    BY <1>1, <1>2 DEF Trouble

\* With a modem that keeps up nobody else comes between the number of an SMS and its end.
LEMMA EntryStep ==
    ASSUME SmsAssumption, TypeOK, ThreadsOK, EntryOK, [Next]_vars
    PROVE  EntryOK'
<1> USE DEF rdVars, dayVars, modemVars, RdGoto, Entering, Enter
<1> SUFFICES ASSUME trouble' = 0, ~reading'
             PROVE  HolderEnters'
    BY DEF EntryOK
<1>0. trouble = 0 /\ ~reading /\ HolderEnters
    BY TroubleStep DEF EntryOK
<1>1. ~(RdHolds /\ DayHolds) /\ ~Trouble
    BY <1>0 DEF ThreadsOK, Trouble
<1>2. ASSUME NEW m \in Message, Arrive(m) PROVE HolderEnters'
    BY <1>0, <1>2 DEF Arrive, HolderEnters, DayNumber
<1>3. CASE RdWait \/ RdListed \/ RdSleep \/ RdTest
    <2>1. /\ UNCHANGED <<modemVars, dayVars>>
          /\ rdPc \notin {"text", "end"} /\ rdPc' \notin {"text", "end"}
        BY <1>3 DEF RdWait, RdListed, RdSleep, RdTest, RdTestTo, RdAnswer
    <2>. QED
        BY <1>0, <2>1 DEF HolderEnters, DayNumber
<1>4. CASE DayBegin \/ DayWait
    <2>1. /\ UNCHANGED <<modemVars, rdVars>>
          /\ dayPc \notin {"text", "end"} /\ dayPc' \notin {"text", "end"}
        BY <1>4 DEF DayBegin, DayWait
    <2>. QED
        BY <1>0, <2>1 DEF HolderEnters
<1>5. CASE RdMode \/ RdList \/ RdRead \/ RdDelete
    <2>1. /\ Plain \/ Delete(i)
          /\ line' = <<>> /\ UNCHANGED dayVars
          /\ rdPc \notin {"text", "end"} /\ rdPc' \notin {"text", "end"} /\ RdHolds
        BY <1>1, <1>5 DEF RdMode, RdList, RdRead, RdDelete, RdDeleted, Command, Past, RdHolds
    <2>2. dayPc \notin {"text", "end"}
        BY <1>1, <2>1 DEF DayHolds, Sending
    <2>3. modemTo = Nobody /\ UNCHANGED <<modemTo, modemText>>
        BY <1>0, <2>1, <2>2 DEF HolderEnters, Plain, Delete
    <2>. QED
        BY <1>0, <2>1, <2>2, <2>3 DEF HolderEnters
<1>6. CASE RdSend
    <2>1. /\ line' = <<>> /\ UNCHANGED <<dayVars, rdMsg, rdText>> /\ dayPc \notin {"text", "end"}
          /\ \/ rdPc = "format" /\ rdPc' = "number" /\ Plain
             \/ rdPc = "number" /\ rdPc' = "text"   /\ Number(rdMsg.from)
             \/ rdPc = "text"   /\ rdPc' = "end"    /\ Text(rdText)
             \/ rdPc = "end"    /\ rdPc' = "delete" /\ End
        BY <1>1, <1>6 DEF RdSend, SendSms, Command, Past, RdHolds, DayHolds, Sending
    <2>2. CASE rdPc = "format" /\ rdPc' = "number" /\ Plain
        BY <1>0, <2>1, <2>2 DEF HolderEnters, Plain
    <2>3. CASE rdPc = "number" /\ rdPc' = "text" /\ Number(rdMsg.from)
        BY <1>0, <2>1, <2>3 DEF HolderEnters, Number
    <2>4. CASE rdPc = "text" /\ rdPc' = "end" /\ Text(rdText)
        BY <1>0, <2>1, <2>4 DEF HolderEnters, Text
    <2>5. CASE rdPc = "end" /\ rdPc' = "delete" /\ End
        BY <1>0, <2>1, <2>5 DEF HolderEnters, End
    <2>. QED
        BY <2>1, <2>2, <2>3, <2>4, <2>5
<1>7. CASE DaySend
    <2>1. /\ line' = <<>> /\ UNCHANGED rdVars /\ rdPc \notin {"text", "end"}
          /\ \/ dayPc = "format" /\ dayPc' = "number" /\ Plain /\ UNCHANGED dayLeft
             \/ dayPc = "number" /\ dayPc' = "text"   /\ Number(DayNumber) /\ UNCHANGED dayLeft
             \/ dayPc = "text"   /\ dayPc' = "end"    /\ Text("daily") /\ UNCHANGED dayLeft
             \/ dayPc = "end"    /\ dayPc' \in {"sleep", "wait"} /\ End
        BY <1>1, <1>7 DEF DaySend, DaySent, SendSms, Command, Past, RdHolds, DayHolds
    <2>2. DayNumber # Nobody
        BY <1>7, TypeParts, DayNumberTyped DEF ThreadsOK, DaySend, Sending, SmsAssumption
    <2>3. CASE dayPc = "format" /\ dayPc' = "number" /\ Plain
        BY <1>0, <2>1, <2>3 DEF HolderEnters, Plain
    <2>4. CASE dayPc = "number" /\ dayPc' = "text" /\ Number(DayNumber) /\ UNCHANGED dayLeft
        BY <1>0, <2>1, <2>4 DEF HolderEnters, Number, DayNumber
    <2>5. CASE dayPc = "text" /\ dayPc' = "end" /\ Text("daily") /\ UNCHANGED dayLeft
        BY <1>0, <2>1, <2>2, <2>5 DEF HolderEnters, Text, DayNumber
    <2>6. CASE dayPc = "end" /\ dayPc' \in {"sleep", "wait"} /\ End
        BY <1>0, <2>1, <2>2, <2>6 DEF HolderEnters, End
    <2>. QED
        BY <2>1, <2>3, <2>4, <2>5, <2>6
<1>8. CASE ReadAgain \/ UNCHANGED vars
    BY <1>0, <1>8 DEF ReadAgain, vars, HolderEnters, DayNumber
<1>. QED
    BY <1>2, <1>3, <1>4, <1>5, <1>6, <1>7, <1>8 DEF Next, RdStep, DayStep

\* A response that is one message is parsed to this message.
LEMMA ParsedMessage ==
    ASSUME NEW m, respond = <<Reply("message", m)>>
    PROVE  Parsed = m
<1>1. Len(respond) = 1 /\ respond[1] = Reply("message", m)
    OBVIOUS
<1>2. respond[1].kind = "message" /\ respond[1].msg = m
    BY <1>1 DEF Reply
<1>3. Fields = {1}
    BY <1>1, <1>2 DEF Fields
<1>4. (CHOOSE k \in Fields : \A j \in Fields : k <= j) = 1
    BY <1>3
<1>. QED
    BY <1>2, <1>3, <1>4 DEF Parsed

\* Nothing but a message that arrives is written to an index of the SIM by the others,
\* and only to one that is free.
LEMMA AnswerStep ==
    ASSUME SmsAssumption, TypeOK, ThreadsOK, EntryOK, AnswerOK, [Next]_vars
    PROVE  AnswerOK'
<1> USE DEF rdVars, dayVars, modemVars, RdGoto, Entering, Enter
<1> SUFFICES ASSUME trouble' = 0, ~reading', Narrow'
             PROVE  AnswersIt'
    BY DEF AnswerOK
<1>0. trouble = 0 /\ ~reading /\ HolderEnters /\ (Narrow => AnswersIt)
    BY TroubleStep DEF EntryOK, AnswerOK
<1>1. ~(RdHolds /\ DayHolds) /\ ~Trouble
    BY <1>0 DEF ThreadsOK, Trouble
<1>2. ASSUME NEW m \in Message, Arrive(m) PROVE AnswersIt'
    <2>1. /\ UNCHANGED <<rdVars, respond, sent>> /\ Narrow
          /\ \A k : sim[k] # Empty /\ k \in Index => sim'[k] = sim[k]
        BY <1>2 DEF Arrive, TypeOK, Narrow
    <2>2. rdPc \in {"test", "delete"} \cup Sending => i \in Index
        BY <1>2, <2>1 DEF Narrow, TypeOK, SmsAssumption, Index
    <2>. QED
        BY <1>0, <2>1, <2>2 DEF AnswersIt, Sending
<1>3. CASE RdWait \/ RdMode \/ RdList \/ RdListed \/ RdSleep \/ RdDelete
    <2>1. rdPc' \notin {"test", "delete"} \cup Sending
        BY <1>3 DEF RdWait, RdMode, RdList, RdListed, RdSleep, RdDelete,
                   RdDeleted, Past, Sending
    <2>. QED
        BY <2>1 DEF AnswersIt
<1>4. CASE RdRead
    <2>1. /\ rdPc = "read" /\ rdPc' = "test" /\ UNCHANGED i /\ Plain
          /\ respond' = Append(line, ReadReply(i))
        BY <1>1, <1>4 DEF RdRead, Command, Read, Past
    <2>2. modemTo = Nobody /\ line = <<>>
        BY <1>0, <1>1, <2>1 DEF HolderEnters, RdHolds, DayHolds, Sending
    <2>3. respond' = <<ReadReply(i)>> /\ UNCHANGED sim
        BY <2>1, <2>2 DEF Plain
    <2>4. i \in Index /\ i < WideIndex
        BY <2>1 DEF Narrow, TypeOK, SmsAssumption, Index
    <2>5. ReadReply(i) = IF sim[i] # Empty THEN Reply("message", sim[i]) ELSE Reply("ok 16", Empty)
        BY <2>2, <2>4 DEF ReadReply, Done
    <2>. QED
        BY <2>1, <2>3, <2>5 DEF AnswersIt, Sending
<1>5. CASE RdTest
    <2>1. CASE respond = <<Reply("ok 16", Empty)>>
        <3>1. rdPc' = "sleep"
            BY <1>5, <2>1 DEF RdTest, RdTestTo
        <3>. QED
            BY <3>1 DEF AnswersIt, Sending
    <2>2. CASE respond # <<Reply("ok 16", Empty)>>
        <3>1. /\ rdPc = "test" /\ rdPc' = "format" /\ rdMsg' = Parsed
              /\ UNCHANGED <<i, sim>>
            BY <1>5, <2>2 DEF RdTest, RdTestTo, RdAnswer
        <3>2. sim[i] # Empty /\ respond = <<Reply("message", sim[i])>>
            BY <1>0, <2>2, <3>1 DEF AnswersIt, Narrow
        <3>3. Parsed = sim[i]
            BY <3>2, ParsedMessage
        <3>. QED
            BY <3>1, <3>2, <3>3 DEF AnswersIt, Sending
    <2>. QED
        BY <2>1, <2>2
<1>6. CASE RdSend
    <2>1. /\ rdPc \in Sending /\ UNCHANGED <<i, rdMsg, rdText>> /\ Narrow
          /\ \/ rdPc' \in Sending /\ (Plain \/ Number(rdMsg.from) \/ Text(rdText))
             \/ rdPc = "end" /\ rdPc' = "delete" /\ End
        BY <1>1, <1>6 DEF RdSend, SendSms, Command, Past, Sending, Narrow
    <2>2. sim[i] # Empty /\ sim[i] = rdMsg /\ UNCHANGED sim
        BY <1>0, <2>1 DEF AnswersIt, Plain, Number, Text, End
    <2>3. CASE rdPc' \in Sending
        BY <2>1, <2>2, <2>3 DEF AnswersIt, Sending
    <2>4. CASE rdPc = "end" /\ rdPc' = "delete" /\ End
        <3>1. rdMsg.from # Nobody
            BY <2>2 DEF TypeOK, Message, SmsAssumption
        <3>2. sent' = [to |-> rdMsg.from, text |-> {rdText}]
            BY <1>0, <2>4, <3>1 DEF HolderEnters, End
        <3>3. \E a \in Found(rdMsg) : rdText = Answer(a, rdMsg.cmd)
            BY <2>1 DEF ThreadsOK
        <3>4. /\ sent'.to = rdMsg'.from
              /\ \E a \in Found(rdMsg') : sent'.text = {Answer(a, (rdMsg').cmd)}
            BY <2>1, <3>2, <3>3 DEF Found
        <3>. QED
            BY <2>1, <2>2, <2>4, <3>4 DEF AnswersIt, Sending
    <2>. QED
        BY <2>1, <2>3, <2>4
<1>7. CASE DayBegin \/ DayWait
    <2>1. UNCHANGED <<rdVars, modemVars, respond>> /\ Narrow
        BY <1>7 DEF DayBegin, DayWait, Narrow
    <2>. QED
        BY <1>0, <2>1 DEF AnswersIt, Found
<1>8. CASE DaySend
    <2>1. rdPc' \in {"wait", "sleep"}
        BY <1>1, <1>8 DEF DaySend, RdHolds, DayHolds
    <2>. QED
        BY <2>1 DEF AnswersIt, Sending
<1>9. CASE ReadAgain \/ UNCHANGED vars
    <2>1. UNCHANGED <<rdVars, modemVars, respond>> /\ Narrow
        BY <1>9 DEF ReadAgain, vars, Narrow
    <2>. QED
        BY <1>0, <2>1 DEF AnswersIt, Found
<1>. QED
    BY <1>2, <1>3, <1>4, <1>5, <1>6, <1>7, <1>8, <1>9 DEF Next, RdStep, DayStep

\* The SMS that is sent is the one that was entered.
LEMMA OneTextStep ==
    ASSUME SmsAssumption, TypeOK, ThreadsOK, EntryOK, OneText, [Next]_vars
    PROVE  OneText'
<1> USE DEF rdVars, dayVars, modemVars, RdGoto, Entering, Enter
<1>1. SUFFICES ASSUME trouble' = 0, sent' # sent
               PROVE  OneText'
    BY TroubleStep DEF OneText
<1>2. trouble = 0 /\ ~Trouble /\ (~reading => HolderEnters)
    BY TroubleStep, <1>1 DEF EntryOK, Trouble
<1>3. CASE RdSend
    <2>1. rdPc = "end" /\ End /\ HolderEnters
        BY <1>1, <1>2, <1>3 DEF RdSend, SendSms, Command, Plain, Number, Text
    <2>2. sent' = [to |-> rdMsg.from, text |-> {rdText}] /\ rdMsg.from # Nobody
        BY <1>1, <1>2, <2>1 DEF HolderEnters, End
    <2>3. \E a \in Found(rdMsg) : rdText = Answer(a, rdMsg.cmd)
        BY <2>1 DEF ThreadsOK, Sending
    <2>4. rdMsg \in Message \cup {Empty} /\ rdMsg.from \in Phone \cup {Stranger}
        BY <2>2, FromTyped DEF TypeOK
    <2>5. rdText \in Answers /\ (rdMsg.from = Stranger <=> rdText = "not registered")
        BY <2>3, <2>4, AnswerTyped DEF SmsAssumption
    <2>. QED
        BY <2>2, <2>5 DEF OneText
<1>4. CASE DaySend
    <2>1. dayPc = "end" /\ End /\ HolderEnters
        BY <1>1, <1>2, <1>4 DEF DaySend, SendSms, Command, Plain, Number, Text
    <2>2. DayNumber \in Phone
        BY <2>1, TypeParts, DayNumberTyped DEF ThreadsOK
    <2>3. sent' = [to |-> DayNumber, text |-> {"daily"}]
        BY <1>1, <1>2, <2>1 DEF HolderEnters, End
    <2>4. DayNumber # Stranger /\ "daily" # "not registered"
        BY <2>2 DEF SmsAssumption
    <2>5. "daily" \in Answers \cup {"daily"} /\ sent'.text = {"daily"} /\ sent'.to # Stranger
        BY <2>3, <2>4
    <2>. QED
        BY <2>4, <2>5 DEF OneText
<1>5. CASE RdMode \/ RdList \/ RdRead \/ RdDelete
    BY <1>1, <1>2, <1>5 DEF RdMode, RdList, RdRead, RdDelete, Command, Plain, Delete
<1>6. CASE RdWait \/ RdListed \/ RdTest \/ RdSleep \/ DayBegin \/ DayWait
    BY <1>1, <1>6 DEF RdWait, RdListed, RdTest, RdTestTo, RdSleep, DayBegin, DayWait
<1>7. ASSUME NEW m \in Message, Arrive(m) PROVE OneText'
    BY <1>1, <1>7 DEF Arrive
<1>8. CASE ReadAgain \/ UNCHANGED vars
    BY <1>1, <1>8 DEF ReadAgain, vars
<1>. QED
    BY <1>3, <1>4, <1>5, <1>6, <1>7, <1>8 DEF Next, RdStep, DayStep

\* Nothing is entered or answered at first.
LEMMA SmsInit ==
    ASSUME SmsAssumption, Init
    PROVE  SmsInv
<1>1. SimTyped
    BY DEF Init, SimTyped
<1>2. ReadTyped
    <2>1. line = <<>> /\ respond = <<>> /\ trouble = 0 /\ MaxTrouble \in Nat
        BY DEF Init, SmsAssumption
    <2>2. reading \in BOOLEAN
        BY DEF Init
    <2>. QED
        BY <2>1, <2>2 DEF ReadTyped
<1>3. RdTyped /\ DayTyped
    <2>1. mutex = 1 /\ i = 0 /\ SimSize \in Nat
        BY DEF Init, SmsAssumption
    <2>2. rdPc = "wait" /\ rdMsg = Empty /\ rdText = "no node" /\ dayPc = "sleep" /\ dayLeft = {}
        BY DEF Init
    <2>3. mutex \in {0, 1} /\ i \in 0 .. SimSize
        BY <2>1
    <2>. QED
        BY <2>2, <2>3 DEF RdTyped, DayTyped, RdPc, DayPc, Answers
<1>4. ThreadsOK
    BY DEF Init, ThreadsOK, RdHolds, DayHolds, Sending
<1>5. EntryOK /\ AnswerOK /\ OneText
    BY DEF Init, EntryOK, HolderEnters, AnswerOK, AnswersIt, Sending, OneText
<1>. QED
    BY <1>1, <1>2, <1>3, <1>4, <1>5, TypeParts DEF SmsInv

LEMMA SmsStep ==
    ASSUME SmsAssumption, SmsInv, [Next]_vars
    PROVE  SmsInv'
    BY TypeStep, ThreadsStep, EntryStep, AnswerStep, OneTextStep DEF SmsInv

LEMMA SmsInvariant == Spec => []SmsInv
    BY SmsInit, SmsStep, SmsAssumption, PTL DEF Spec

\* A step that frees an index of the SIM is the deletion of the message answered.
LEMMA DeleteStep ==
    ASSUME SmsAssumption, SmsInv, [Next]_vars
    PROVE  AnsweredDelete
<1> USE DEF modemVars, Entering, Enter
<1> SUFFICES ASSUME NEW k \in Index, sim[k] # Empty, sim'[k] = Empty, Narrow, trouble' = 0
             PROVE  /\ sent.to = sim[k].from
                    /\ \E a \in Found(sim[k]) : sent.text = {Answer(a, sim[k].cmd)}
    BY DEF AnsweredDelete
<1>1. trouble = 0 /\ (~reading => AnswersIt)
    BY TroubleStep DEF SmsInv, EntryOK, AnswerOK
<1>2. ASSUME NEW m \in Message, Arrive(m) PROVE FALSE
    BY <1>2 DEF Arrive, SmsInv, TypeOK
<1>3. CASE RdDelete
    <2>1. rdPc = "delete" /\ AnswersIt /\ (Delete(i) \/ Refused \/ UNCHANGED sim)
        BY <1>1, <1>3 DEF RdDelete, Command, Refuse, Refused
    <2>2. k = i
        BY <2>1 DEF Delete, Refused, SmsInv, TypeOK
    <2>. QED
        BY <1>1, <2>1, <2>2 DEF AnswersIt
<1>4. CASE RdMode \/ RdList \/ RdRead
    BY <1>4 DEF RdMode, RdList, RdRead, Command, Plain, Refuse
<1>5. CASE RdSend \/ DaySend
    BY <1>5 DEF RdSend, DaySend, SendSms, Command, Plain, Number, Text, End, Refuse
<1>6. CASE RdWait \/ RdListed \/ RdTest \/ RdSleep \/ DayBegin \/ DayWait \/ ReadAgain
             \/ UNCHANGED vars
    BY <1>6 DEF RdWait, RdListed, RdTest, RdTestTo, RdSleep, DayBegin, DayWait, ReadAgain, vars
<1>. QED
    BY <1>2, <1>3, <1>4, <1>5, <1>6 DEF Next, RdStep, DayStep

\* TypeOK of SmsService for every set of numbers, size of the SIM and number of
\* troubles: above all, the semaphore mutex is never above 1.
THEOREM SmsTypeCorrect == Spec => []TypeOK
<1>1. SmsInv => TypeOK
    BY DEF SmsInv
<1>. QED
    BY <1>1, SmsInvariant, PTL

\* OneText of SmsService for every set of numbers and size of the SIM: as long as the
\* modem keeps up, an SMS has one text, composed for the number it goes to.
THEOREM SmsHasOneText == Spec => []OneText
<1>1. SmsInv => OneText
    BY DEF SmsInv
<1>. QED
    BY <1>1, SmsInvariant, PTL

\* DeletedWhenAnswered of SmsService for every set of numbers and size of the SIM: as
\* long as the modem keeps up and indices have one digit, a message is deleted after
\* an answer that fits it was sent to its number.
THEOREM DeletedOnlyAnswered == Spec => DeletedWhenAnswered
<1>1. SmsInv /\ [Next]_vars => [AnsweredDelete]_vars
    BY DeleteStep, SmsAssumption
<1>. QED
    BY <1>1, SmsInvariant, PTL DEF Spec, DeletedWhenAnswered
================================================================================
