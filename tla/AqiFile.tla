------------------------------- MODULE AqiFile -------------------------------
(***************************************************************************)
(* /tmp/aqi_and_concentration.json, the file through which the gateway     *)
(* hands its nodes' air quality to the SMS and the client programs.        *)
(*                                                                         *)
(*   - cal_and_write_to_file creates the file and writes each node's       *)
(*     record into it, one node at a time (the Cal... actions);            *)
(*   - check_error_node deletes the entry of a silent node, then removes   *)
(*     the node from the table (the Chk... actions);                       *)
(*   - thread_up adds nodes to the table (UpAdd);                          *)
(*   - the process may be killed and started again (Crash).                *)
(*                                                                         *)
(* Both writers read the whole file, change their copy, truncate the file  *)
(* and write the copy back; cal_and_write_to_file takes no lock. The steps *)
(* inside a removal from the table, and inside an addition to it, are those *)
(* of NodeTable; each is one step here.                                     *)
(***************************************************************************)
EXTENDS Integers

CONSTANTS
    Node,      \* node addresses
    NoNode,    \* nodeAddr of a slot nothing was ever written to
    MaxNode,   \* MAX_NUMBER_NODE
    MaxCrash   \* bound: crashes of the gateway's process

ASSUME FileAssumption ==
    /\ NoNode \notin Node
    /\ MaxNode \in Nat \ {0}
    /\ MaxCrash \in Nat

VARIABLES
    nodeAddr,         \* nodeAddr of each slot of gBufferNode
    bufferNodeIndex,  \* number of slots in use
    fileState,        \* "absent", "empty" (truncated) or "json"
    entry,            \* what the file says of each node, see Entries
    calPc, calI,      \* cal_and_write_to_file: where it is, its loop index
    calRead,          \* how many fields of tmpDataJson are read
    calAddr,          \* tmpDataJson.addr
    calFrom,          \* the nodes whose data is in tmpDataJson
    calCopy,          \* the parsed file, changed
    chkPc, chkI,      \* check_error_node: where it is, its loop index
    chkCopy,          \* the parsed file, changed
    crashes,          \* number of crashes so far
    leftover,         \* history: nodes with an entry when the process started
    torn,             \* history: whether a crash has left the file truncated
    overlap           \* history: whether a removal has overlapped a write

tableVars == <<nodeAddr, bufferNodeIndex>>
fileVars  == <<fileState, entry>>
calVars   == <<calPc, calI, calRead, calAddr, calFrom, calCopy>>
chkVars   == <<chkPc, chkI, chkCopy>>
runVars   == <<crashes, leftover, torn>>
vars      == <<tableVars, fileVars, calVars, chkVars, runVars, overlap>>

Index == 0 .. MaxNode - 1

\* entry[n] is the set of nodes whose data is in the record with address n; {} if
\* the file has no record with that address. Copies of the file have this form too.
Entries  == [Node -> SUBSET Node]
NoEntry  == [n \in Node |-> {}]
InFile(n) == entry[n] # {}

CalPc == {"start", "create", "fill", "sleep", "loop", "read", "parse", "truncate", "write"}
ChkPc == {"sleep", "loop", "parse", "truncate", "write", "remove"}

\* The fields of tmpDataJson in the order they are computed: two that go into aqi,
\* addr, pm2_5 and co.
Fields    == 5
AddrField == 3

\* cal_and_write_to_file is between its test of i and the end of write_to_json_file.
Writing  == calPc \in {"read", "parse", "truncate", "write"}
\* check_error_node is between its test of a node's age and the end of its removal.
Removing == chkPc \in {"parse", "truncate", "write", "remove"}

NoteRace == overlap' = IF Writing' /\ Removing' THEN "seen" ELSE overlap
RaceFree == overlap = "none"

Init ==
    /\ nodeAddr = [i \in Index |-> NoNode] /\ bufferNodeIndex = 0
    /\ fileState = "absent" /\ entry = NoEntry
    /\ calPc = "start" /\ calI = 0 /\ calRead = 0
    /\ calAddr = NoNode /\ calFrom = {} /\ calCopy = NoEntry
    /\ chkPc = "sleep" /\ chkI = 0 /\ chkCopy = NoEntry
    /\ crashes = 0 /\ leftover = {} /\ torn = "no"
    /\ overlap = "none"

Listed(n) == \E i \in 0 .. bufferNodeIndex - 1 : nodeAddr[i] = n
------------------------------------------------------------------------------
(* thread_up *)

\* The first frame of a node takes a slot.
UpAdd(n) ==
    /\ ~Listed(n) /\ bufferNodeIndex < MaxNode
    /\ nodeAddr' = [nodeAddr EXCEPT ![bufferNodeIndex] = n]
    /\ bufferNodeIndex' = bufferNodeIndex + 1
    /\ UNCHANGED <<fileVars, calVars, chkVars, runVars, overlap>>
------------------------------------------------------------------------------
(* cal_and_write_to_file, with creat_file and write_to_json_file *)

\* The thread goes on at the next index: its record and its copy are dead.
CalNext(pc, i) ==
    /\ calPc' = pc /\ calI' = i /\ calRead' = 0
    /\ calAddr' = NoNode /\ calFrom' = {} /\ calCopy' = NoEntry
CalGoto(pc) == calPc' = pc /\ UNCHANGED <<calI, calRead, calAddr, calFrom, calCopy>>

\* access(FILE_NAME, F_OK): a truncated file is there too.
CalStart ==
    /\ calPc = "start"
    /\ CalGoto(IF fileState = "absent" THEN "create" ELSE "sleep")
    /\ UNCHANGED <<tableVars, fileVars, chkVars, runVars>>
    /\ NoteRace

\* creat_file: fopen(FILE_NAME, "w"), then the empty list of nodes.
CalCreate ==
    /\ calPc = "create"
    /\ fileState' = "empty" /\ entry' = NoEntry
    /\ CalGoto("fill")
    /\ UNCHANGED <<tableVars, chkVars, runVars>>
    /\ NoteRace

CalFill ==
    /\ calPc = "fill"
    /\ fileState' = "json" /\ entry' = NoEntry
    /\ CalGoto("sleep")
    /\ UNCHANGED <<tableVars, chkVars, runVars>>
    /\ NoteRace

CalWake ==
    /\ calPc = "sleep"
    /\ CalNext("loop", 0)
    /\ UNCHANGED <<tableVars, fileVars, chkVars, runVars>>
    /\ NoteRace

\* Variation: the loop runs over the whole array.
CalLoopAll ==
    /\ calPc = "loop"
    /\ IF calI < MaxNode THEN CalGoto("read") ELSE CalNext("sleep", 0)
    /\ UNCHANGED <<tableVars, fileVars, chkVars, runVars>>
    /\ NoteRace

CalLoop ==
    /\ calPc = "loop"
    /\ IF calI < bufferNodeIndex THEN CalGoto("read") ELSE CalNext("sleep", 0)
    /\ UNCHANGED <<tableVars, fileVars, chkVars, runVars>>
    /\ NoteRace

\* Variation: the address is taken from the first slot.
CalReadFirst ==
    /\ calPc = "read"
    /\ calRead' = calRead + 1
    /\ calFrom' = calFrom \cup {nodeAddr[calI]}
    /\ calAddr' = IF calRead' = AddrField THEN nodeAddr[0] ELSE calAddr
    /\ calPc' = IF calRead' = Fields THEN "parse" ELSE "read"
    /\ UNCHANGED <<tableVars, fileVars, calI, calCopy, chkVars, runVars>>
    /\ NoteRace

\* Each field is read from gBufferNode[i] on its own.
CalRead ==
    /\ calPc = "read"
    /\ calRead' = calRead + 1
    /\ calFrom' = calFrom \cup {nodeAddr[calI]}
    /\ calAddr' = IF calRead' = AddrField THEN nodeAddr[calI] ELSE calAddr
    /\ calPc' = IF calRead' = Fields THEN "parse" ELSE "read"
    /\ UNCHANGED <<tableVars, fileVars, calI, calCopy, chkVars, runVars>>
    /\ NoteRace

\* The file is parsed; the record replaces the one with its address or is appended.
\* A file that is not JSON gives a NULL root: nothing is serialized.
CalParse ==
    /\ calPc = "parse"
    /\ IF fileState = "json"
       THEN /\ calCopy' = [entry EXCEPT ![calAddr] = calFrom]
            /\ calPc' = "truncate"
            /\ UNCHANGED <<calI, calRead, calAddr, calFrom>>
       ELSE CalNext("loop", calI + 1)
    /\ UNCHANGED <<tableVars, fileVars, chkVars, runVars>>
    /\ NoteRace

\* json_serialize_to_file_pretty: fopen(filename, "w"), then one write.
CalTruncate ==
    /\ calPc = "truncate"
    /\ fileState' = "empty" /\ entry' = NoEntry
    /\ CalGoto("write")
    /\ UNCHANGED <<tableVars, chkVars, runVars>>
    /\ NoteRace

\* Variation: the copy stays in memory.
CalWriteLost ==
    /\ calPc = "write"
    /\ CalNext("loop", calI + 1)
    /\ UNCHANGED <<tableVars, fileVars, chkVars, runVars>>
    /\ NoteRace

CalWrite ==
    /\ calPc = "write"
    /\ fileState' = "json" /\ entry' = calCopy
    /\ CalNext("loop", calI + 1)
    /\ UNCHANGED <<tableVars, chkVars, runVars>>
    /\ NoteRace

CalStep == \/ CalStart \/ CalCreate \/ CalFill \/ CalWake \/ CalLoop \/ CalRead
           \/ CalParse \/ CalTruncate \/ CalWrite
------------------------------------------------------------------------------
(* check_error_node, with delete_node_in_file_json and remove_node_in_gBuffer *)

ChkNext(pc, i) == chkPc' = pc /\ chkI' = i /\ chkCopy' = NoEntry
ChkGoto(pc)    == chkPc' = pc /\ UNCHANGED <<chkI, chkCopy>>

ChkWake ==
    /\ chkPc = "sleep"
    /\ ChkGoto("loop")
    /\ UNCHANGED <<tableVars, fileVars, calVars, runVars>>
    /\ NoteRace

\* A node is silent or not; ages are NodeTable's.
ChkLoop ==
    /\ chkPc = "loop"
    /\ IF chkI < bufferNodeIndex
       THEN \/ ChkGoto("parse")
            \/ ChkNext("loop", chkI + 1)
       ELSE ChkNext("sleep", 0)
    /\ UNCHANGED <<tableVars, fileVars, calVars, runVars>>
    /\ NoteRace

\* Variation: the entry is left in the copy.
ChkParseKeeps ==
    /\ chkPc = "parse"
    /\ IF fileState = "json" /\ InFile(nodeAddr[chkI])
       THEN /\ chkCopy' = entry
            /\ chkPc' = "truncate"
            /\ UNCHANGED chkI
       ELSE ChkGoto("remove")
    /\ UNCHANGED <<tableVars, fileVars, calVars, runVars>>
    /\ NoteRace

\* The file is parsed and the node's entry taken out; a file without it, or that
\* is not JSON, is left alone.
ChkParse ==
    /\ chkPc = "parse"
    /\ IF fileState = "json" /\ InFile(nodeAddr[chkI])
       THEN /\ chkCopy' = [entry EXCEPT ![nodeAddr[chkI]] = {}]
            /\ chkPc' = "truncate"
            /\ UNCHANGED chkI
       ELSE ChkGoto("remove")
    /\ UNCHANGED <<tableVars, fileVars, calVars, runVars>>
    /\ NoteRace

ChkTruncate ==
    /\ chkPc = "truncate"
    /\ fileState' = "empty" /\ entry' = NoEntry
    /\ ChkGoto("write")
    /\ UNCHANGED <<tableVars, calVars, runVars>>
    /\ NoteRace

\* Variation: a write that fails goes unnoticed.
ChkWriteLost ==
    /\ chkPc = "write"
    /\ ChkGoto("remove")
    /\ UNCHANGED <<tableVars, fileVars, calVars, runVars>>
    /\ NoteRace

ChkWrite ==
    /\ chkPc = "write"
    /\ fileState' = "json" /\ entry' = chkCopy
    /\ ChkGoto("remove")
    /\ UNCHANGED <<tableVars, calVars, runVars>>
    /\ NoteRace

\* remove_node_in_gBuffer, then the sweep's next index. The last slot keeps its
\* contents.
ChkRemove ==
    /\ chkPc = "remove"
    /\ nodeAddr' = [i \in Index |-> IF i \in chkI .. bufferNodeIndex - 2
                                    THEN nodeAddr[i + 1] ELSE nodeAddr[i]]
    /\ bufferNodeIndex' = bufferNodeIndex - 1
    /\ leftover' = leftover \ {nodeAddr[chkI]}
    /\ ChkNext("loop", chkI + 1)
    /\ UNCHANGED <<fileVars, calVars, crashes, torn>>
    /\ NoteRace

ChkStep == \/ ChkWake \/ ChkLoop \/ ChkParse \/ ChkTruncate \/ ChkWrite \/ ChkRemove
------------------------------------------------------------------------------
\* The process dies and is started again: its memory is lost, the file stays.
Crash ==
    /\ crashes < MaxCrash
    /\ crashes' = crashes + 1
    /\ nodeAddr' = [i \in Index |-> NoNode] /\ bufferNodeIndex' = 0
    /\ CalNext("start", 0)
    /\ ChkNext("sleep", 0)
    /\ leftover' = {n \in Node : InFile(n)}
    /\ torn' = IF fileState = "empty" THEN "yes" ELSE torn
    /\ UNCHANGED <<fileVars, overlap>>

Next == \/ \E n \in Node : UpAdd(n)
        \/ CalStep
        \/ ChkStep
        \/ Crash

Spec == Init /\ [][Next]_vars

\* The threads are scheduled.
FairSpec == Spec /\ WF_vars(CalStep) /\ WF_vars(ChkStep)
------------------------------------------------------------------------------
(* Properties. *)

\* Every variable holds a value the code can give it.
TypeOK ==
    /\ nodeAddr \in [Index -> Node \cup {NoNode}] /\ bufferNodeIndex \in 0 .. MaxNode
    /\ fileState \in {"absent", "empty", "json"} /\ entry \in Entries
    /\ calPc \in CalPc /\ calI \in 0 .. MaxNode /\ calRead \in 0 .. Fields
    /\ calAddr \in Node \cup {NoNode} /\ calFrom \in SUBSET Node /\ calCopy \in Entries
    /\ chkPc \in ChkPc /\ chkI \in 0 .. MaxNode /\ chkCopy \in Entries
    /\ crashes \in 0 .. MaxCrash /\ leftover \in SUBSET Node
    /\ torn \in {"no", "yes"} /\ overlap \in {"none", "seen"}

\* Whoever opens the file finds JSON in it, except while a writer is between its
\* truncation and its write; a crash in that window leaves it truncated for good.
ReadableOutsideWrites ==
    fileState = "empty" => \/ calPc \in {"fill", "write"}
                           \/ chkPc = "write"
                           \/ torn = "yes"

\* An entry is of a node in the table, or was there before the last start: a
\* silent node's entry goes with it, unless its removal overlapped a write.
EntryHasNode ==
    RaceFree => \A n \in Node : InFile(n) => Listed(n) \/ n \in leftover

\* A record gives one node's address with that node's values.
RecordOfOneNode ==
    RaceFree => \A n \in Node : entry[n] \subseteq {n}

\* A node that stays in the table comes to stay in the file whenever the file is
\* JSON, which it is again and again, if removals end and no crash has left the
\* file truncated: lost updates are made good.
FileCatchesUp ==
    \A n \in Node : <>[](Listed(n) /\ ~Removing /\ torn = "no") =>
                       []<>InFile(n) /\ <>[](fileState = "json" => InFile(n))

\* The comment on a silent node's removal, "Ghi vao file, xoa trong file json va
\* trong buffer": deleted from the JSON file and from the buffer. The file has no
\* entry of a node that is not in the table.
DeletedFromBoth == \A n \in Node : InFile(n) => Listed(n)
==============================================================================
