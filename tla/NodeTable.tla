------------------------------ MODULE NodeTable ------------------------------
(***************************************************************************)
(* The gateway's table of sensor nodes: gBufferNode and bufferNodeIndex of *)
(* mgw_controller.c, as two threads of the gateway use them with no lock    *)
(* between them.                                                            *)
(*                                                                          *)
(*   - thread_up runs update_to_node for each frame it has acknowledged     *)
(*     (the Up... actions);                                                 *)
(*   - check_error_node sweeps the table, reports the nodes that are silent *)
(*     and removes them (the Chk... actions).                               *)
(*                                                                          *)
(* Each access to the shared table or to its length is a step of its own;   *)
(* bufferNodeIndex++ and bufferNodeIndex-- are a load and a store, as the   *)
(* compiler emits them for a plain int.                                     *)
(***************************************************************************)
EXTENDS Integers

CONSTANTS
    Node,      \* node addresses, the low byte of DevAddr
    NoNode,    \* nodeAddr of a slot nothing was ever written to (zero memory)
    MaxNode,   \* MAX_NUMBER_NODE
    Samples,   \* NUMBER_SAMPLE_PER_HOUR
    MaxErr,    \* MAX_ERROR_TIMEOUT, in ticks
    MaxLag     \* bound: ticks that pass while one sweep runs

ASSUME TableAssumption ==
    /\ NoNode \notin Node
    /\ MaxNode \in Nat \ {0}
    /\ Samples \in Nat \ {0}
    /\ MaxErr \in Nat
    /\ MaxLag \in Nat

VARIABLES
    slot,             \* gBufferNode
    bufferNodeIndex,  \* number of slots in use
    upPc, upNode,     \* thread_up: where it is, sender of macMsgData
    upI,              \* check_node_addr's i, then the slot it stores to
    upTmp,            \* bufferNodeIndex as loaded by bufferNodeIndex++
    upCase,           \* the branch update_to_node took
    stored,           \* history: the slots this call has written its sample to
    chkPc, chkI,      \* check_error_node: where it is, its loop index
    chkLag,           \* ticks since the sweep read the time
    told, deleted,    \* addresses echoed to the report file, deleted from JSON
    chkAddr, chkK,    \* remove_node_in_gBuffer: argument, i and then j
    chkTmp,           \* bufferNodeIndex as loaded by bufferNodeIndex--
    overlap           \* history: whether a removal has overlapped an update

upVars  == <<upPc, upNode, upI, upTmp, upCase, stored>>
chkVars == <<chkPc, chkI, chkLag, told, deleted, chkAddr, chkK, chkTmp>>
vars    == <<slot, bufferNodeIndex, upVars, chkVars, overlap>>

Index   == 0 .. MaxNode - 1

\* Ages count up to AgeCap: beyond it every sweep finds the slot silent.
AgeCap  == MaxErr + MaxLag + 1

\* What the table's users tell apart in a data_of_node_t: whose slot it is, how
\* many samples the current hour holds, which nodes' samples the slot has been
\* given since it was initialised, and the ticks since timeStamp was written.
SlotType == [nodeAddr : Node \cup {NoNode}, pm25Index : 0 .. Samples,
             from : SUBSET Node, age : 0 .. AgeCap]

UpPc  == {"idle", "scan", "full", "setaddr", "reset", "sample", "stamp", "hour",
          "load", "inc", "overrun"}
ChkPc == {"sleep", "loop", "diff", "tell", "delete", "call", "find", "shift",
          "load", "dec"}

\* thread_up is inside update_to_node, holding an index or a pointer into the table.
UpBusy   == upPc # "idle"
\* check_error_node is moving slots or the length.
Shifting == chkPc \in {"shift", "load", "dec"}

\* overlap records that the two were ever inside these windows together.
NoteRace == overlap' = IF UpBusy' /\ Shifting' THEN "seen" ELSE overlap
RaceFree == overlap = "none"

Init ==
    /\ slot = [i \in Index |-> [nodeAddr |-> NoNode, pm25Index |-> 0,
                                from |-> {}, age |-> 0]]
    /\ bufferNodeIndex = 0
    /\ upPc = "idle" /\ upNode = NoNode /\ upI = 0 /\ upTmp = 0 /\ upCase = "known"
    /\ stored = {}
    /\ chkPc = "sleep" /\ chkI = 0 /\ chkLag = 0
    /\ told = NoNode /\ deleted = NoNode
    /\ chkAddr = NoNode /\ chkK = 0 /\ chkTmp = 0
    /\ overlap = "none"
------------------------------------------------------------------------------
(* thread_up: update_to_node, with check_node_addr and store_new_data. *)

\* A call returns: its locals are gone.
UpReturn == /\ upPc' = "idle" /\ upNode' = NoNode /\ upI' = 0 /\ upTmp' = 0 /\ upCase' = "known"
            /\ stored' = {}
UpGoto(pc) == upPc' = pc /\ UNCHANGED <<upNode, upI, upTmp, upCase, stored>>

\* An acknowledged frame of node n is passed to update_to_node.
UpReceive(n) ==
    /\ upPc = "idle"
    /\ upPc' = "scan" /\ upNode' = n /\ upI' = 0 /\ upCase' = "known"
    /\ UNCHANGED <<slot, bufferNodeIndex, upTmp, stored, chkVars>>
    /\ NoteRace

\* Variation: the scan leaves out the last slot.
UpScanShort ==
    /\ upPc = "scan"
    /\ IF upI + 1 < bufferNodeIndex
       THEN IF slot[upI].nodeAddr = upNode
            THEN UpGoto("sample")
            ELSE upI' = upI + 1 /\ UNCHANGED <<upPc, upNode, upTmp, upCase, stored>>
       ELSE UpGoto("full")
    /\ UNCHANGED <<slot, bufferNodeIndex, chkVars>>
    /\ NoteRace

\* Variation: the branch for a known node is left out.
UpScanKnown ==
    /\ upPc = "scan"
    /\ IF upI < bufferNodeIndex
       THEN IF slot[upI].nodeAddr = upNode
            THEN UpReturn
            ELSE upI' = upI + 1 /\ UNCHANGED <<upPc, upNode, upTmp, upCase, stored>>
       ELSE UpGoto("full")
    /\ UNCHANGED <<slot, bufferNodeIndex, chkVars>>
    /\ NoteRace

\* One iteration of check_node_addr.
UpScan ==
    /\ upPc = "scan"
    /\ IF upI < bufferNodeIndex
       THEN IF slot[upI].nodeAddr = upNode
            THEN UpGoto("sample")
            ELSE upI' = upI + 1 /\ UNCHANGED <<upPc, upNode, upTmp, upCase, stored>>
       ELSE UpGoto("full")
    /\ UNCHANGED <<slot, bufferNodeIndex, chkVars>>
    /\ NoteRace

\* Variation: the test for a full table is missing.
UpFullUnchecked ==
    /\ upPc = "full"
    /\ upPc' = "setaddr" /\ upCase' = "new"
    /\ UNCHANGED <<slot, bufferNodeIndex, upNode, upI, upTmp, stored, chkVars>>
    /\ NoteRace

\* An unknown node: "Buffer is full" or the branch that initialises a slot.
UpFull ==
    /\ upPc = "full"
    /\ IF bufferNodeIndex = MaxNode
       THEN UpReturn
       ELSE upPc' = "setaddr" /\ upCase' = "new" /\ UNCHANGED <<upNode, upI, upTmp, stored>>
    /\ UNCHANGED <<slot, bufferNodeIndex, chkVars>>
    /\ NoteRace

UpSetAddr ==
    /\ upPc = "setaddr"
    /\ slot' = [slot EXCEPT ![bufferNodeIndex].nodeAddr = upNode]
    /\ UpGoto("reset")
    /\ UNCHANGED <<bufferNodeIndex, chkVars>>
    /\ NoteRace

\* Variation: the counters of the slot's last owner stay.
UpResetKeeps ==
    /\ upPc = "reset"
    /\ upI' = bufferNodeIndex
    /\ upPc' = "sample"
    /\ UNCHANGED <<slot, bufferNodeIndex, upNode, upTmp, upCase, stored, chkVars>>
    /\ NoteRace

\* The counters are zeroed, which forgets the slot's old samples, and the
\* slot's address is taken for store_new_data.
UpReset ==
    /\ upPc = "reset"
    /\ slot' = [slot EXCEPT ![bufferNodeIndex].pm25Index = 0,
                            ![bufferNodeIndex].from = {}]
    /\ upI' = bufferNodeIndex
    /\ upPc' = "sample"
    /\ UNCHANGED <<bufferNodeIndex, upNode, upTmp, upCase, stored, chkVars>>
    /\ NoteRace

\* store_new_data writes the sample at pm25Index and increments the index. An
\* index past the hour's last sample writes outside the array: what follows is
\* not explored.
UpSample ==
    /\ upPc = "sample"
    /\ IF slot[upI].pm25Index < Samples
       THEN /\ slot' = [slot EXCEPT ![upI].from = @ \cup {upNode},
                                    ![upI].pm25Index = @ + 1]
            /\ stored' = stored \cup {upI} /\ upPc' = "stamp"
       ELSE upPc' = "overrun" /\ UNCHANGED <<slot, stored>>
    /\ UNCHANGED <<bufferNodeIndex, upNode, upI, upTmp, upCase, chkVars>>
    /\ NoteRace

UpStamp ==
    /\ upPc = "stamp"
    /\ slot' = [slot EXCEPT ![upI].age = 0]
    /\ UpGoto("hour")
    /\ UNCHANGED <<bufferNodeIndex, chkVars>>
    /\ NoteRace

\* Variation: the length is incremented for a known node too.
UpHourCounts ==
    /\ upPc = "hour"
    /\ slot' = [slot EXCEPT ![upI].pm25Index = IF @ = Samples THEN 0 ELSE @]
    /\ UpGoto("load")
    /\ UNCHANGED <<bufferNodeIndex, chkVars>>
    /\ NoteRace

\* A complete hour is averaged and the sample index starts over.
UpHour ==
    /\ upPc = "hour"
    /\ slot' = [slot EXCEPT ![upI].pm25Index = IF @ = Samples THEN 0 ELSE @]
    /\ IF upCase = "new" THEN UpGoto("load") ELSE UpReturn
    /\ UNCHANGED <<bufferNodeIndex, chkVars>>
    /\ NoteRace

\* bufferNodeIndex++: the load and the store.
UpLoad ==
    /\ upPc = "load"
    /\ upTmp' = bufferNodeIndex
    /\ upPc' = "inc"
    /\ UNCHANGED <<slot, bufferNodeIndex, upNode, upI, upCase, stored, chkVars>>
    /\ NoteRace

UpInc ==
    /\ upPc = "inc"
    /\ bufferNodeIndex' = upTmp + 1
    /\ UpReturn
    /\ UNCHANGED <<slot, chkVars>>
    /\ NoteRace

UpStep == \/ UpScan \/ UpFull \/ UpSetAddr \/ UpReset \/ UpSample \/ UpStamp
          \/ UpHour \/ UpLoad \/ UpInc
------------------------------------------------------------------------------
(* check_error_node, with remove_node_in_gBuffer. *)

\* The sweep turns to its next index; what it held about the last one is gone.
ChkAdvance ==
    /\ chkPc' = "loop" /\ chkI' = chkI + 1
    /\ told' = NoNode /\ deleted' = NoNode /\ chkAddr' = NoNode
    /\ chkK' = 0 /\ chkTmp' = 0

\* The sweep reads the time once, before its loop.
ChkBegin ==
    /\ chkPc = "sleep"
    /\ chkPc' = "loop" /\ chkI' = 0 /\ chkLag' = 0
    /\ UNCHANGED <<slot, bufferNodeIndex, upVars, told, deleted, chkAddr, chkK, chkTmp>>
    /\ NoteRace

ChkLoop ==
    /\ chkPc = "loop"
    /\ IF chkI < bufferNodeIndex
       THEN chkPc' = "diff" /\ UNCHANGED <<chkI, chkLag>>
       ELSE chkPc' = "sleep" /\ chkI' = 0 /\ chkLag' = 0
    /\ UNCHANGED <<slot, bufferNodeIndex, upVars, told, deleted, chkAddr, chkK, chkTmp>>
    /\ NoteRace

\* diff = timeStamp - gBufferNode[i].timeStamp, compared with MAX_ERROR_TIMEOUT.
ChkDiff ==
    /\ chkPc = "diff"
    /\ IF slot[chkI].age - chkLag > MaxErr
       THEN chkPc' = "tell" /\ UNCHANGED <<chkI, told, deleted, chkAddr, chkK, chkTmp>>
       ELSE ChkAdvance
    /\ UNCHANGED <<slot, bufferNodeIndex, upVars, chkLag>>
    /\ NoteRace

\* The address is read anew for the report, the JSON file and the table.
ChkTell ==
    /\ chkPc = "tell"
    /\ told' = slot[chkI].nodeAddr
    /\ chkPc' = "delete"
    /\ UNCHANGED <<slot, bufferNodeIndex, upVars, chkI, chkLag, deleted, chkAddr,
                   chkK, chkTmp>>
    /\ NoteRace

ChkDelete ==
    /\ chkPc = "delete"
    /\ deleted' = slot[chkI].nodeAddr
    /\ chkPc' = "call"
    /\ UNCHANGED <<slot, bufferNodeIndex, upVars, chkI, chkLag, told, chkAddr,
                   chkK, chkTmp>>
    /\ NoteRace

ChkCall ==
    /\ chkPc = "call"
    /\ chkAddr' = slot[chkI].nodeAddr
    /\ chkK' = 0
    /\ chkPc' = "find"
    /\ UNCHANGED <<slot, bufferNodeIndex, upVars, chkI, chkLag, told, deleted, chkTmp>>
    /\ NoteRace

\* One iteration of the search; the loop of the sweep goes on at the next index,
\* whether the search ends without a match or a slot was removed.
ChkFind ==
    /\ chkPc = "find"
    /\ IF chkK < bufferNodeIndex
       THEN /\ IF slot[chkK].nodeAddr = chkAddr
               THEN chkPc' = "shift" /\ UNCHANGED chkK
               ELSE chkK' = chkK + 1 /\ UNCHANGED chkPc
            /\ UNCHANGED <<chkI, told, deleted, chkAddr, chkTmp>>
       ELSE ChkAdvance
    /\ UNCHANGED <<slot, bufferNodeIndex, upVars, chkLag>>
    /\ NoteRace

\* Variations: the last slot is not moved; the slots move and the length stays.
ChkShiftShort ==
    /\ chkPc = "shift"
    /\ IF chkK < bufferNodeIndex - 2
       THEN /\ slot' = [slot EXCEPT ![chkK] = slot[chkK + 1]]
            /\ chkK' = chkK + 1
            /\ UNCHANGED chkPc
       ELSE /\ chkPc' = "load"
            /\ UNCHANGED <<slot, chkK>>
    /\ UNCHANGED <<bufferNodeIndex, upVars, chkI, chkLag, told, deleted, chkAddr, chkTmp>>
    /\ NoteRace

ChkShiftOnly ==
    /\ chkPc = "shift"
    /\ IF chkK < bufferNodeIndex - 1
       THEN /\ slot' = [slot EXCEPT ![chkK] = slot[chkK + 1]]
            /\ chkK' = chkK + 1
            /\ UNCHANGED <<chkPc, chkI, told, deleted, chkAddr, chkTmp>>
       ELSE /\ ChkAdvance
            /\ UNCHANGED slot
    /\ UNCHANGED <<bufferNodeIndex, upVars, chkLag>>
    /\ NoteRace

\* One iteration of gBufferNode[j] = gBufferNode[j+1].
ChkShift ==
    /\ chkPc = "shift"
    /\ IF chkK < bufferNodeIndex - 1
       THEN /\ slot' = [slot EXCEPT ![chkK] = slot[chkK + 1]]
            /\ chkK' = chkK + 1
            /\ UNCHANGED chkPc
       ELSE /\ chkPc' = "load"
            /\ UNCHANGED <<slot, chkK>>
    /\ UNCHANGED <<bufferNodeIndex, upVars, chkI, chkLag, told, deleted, chkAddr, chkTmp>>
    /\ NoteRace

\* bufferNodeIndex--: the load and the store.
ChkLoad ==
    /\ chkPc = "load"
    /\ chkTmp' = bufferNodeIndex
    /\ chkPc' = "dec"
    /\ UNCHANGED <<slot, bufferNodeIndex, upVars, chkI, chkLag, told, deleted,
                   chkAddr, chkK>>
    /\ NoteRace

ChkDec ==
    /\ chkPc = "dec"
    /\ bufferNodeIndex' = chkTmp - 1
    /\ ChkAdvance
    /\ UNCHANGED <<slot, upVars, chkLag>>
    /\ NoteRace

ChkStep == \/ ChkBegin \/ ChkLoop \/ ChkDiff \/ ChkTell \/ ChkDelete \/ ChkCall
           \/ ChkFind \/ ChkShift \/ ChkLoad \/ ChkDec
------------------------------------------------------------------------------
\* Time passes; a sweep takes at most MaxLag ticks.
Older(a) == IF a < AgeCap THEN a + 1 ELSE a

Tick ==
    /\ IF chkPc = "sleep" THEN UNCHANGED chkLag
       ELSE chkLag < MaxLag /\ chkLag' = chkLag + 1
    /\ slot' = [i \in Index |-> [slot[i] EXCEPT !.age = Older(@)]]
    /\ UNCHANGED <<bufferNodeIndex, upVars, chkPc, chkI, told, deleted, chkAddr,
                   chkK, chkTmp, overlap>>

Next == \/ \E n \in Node : UpReceive(n)
        \/ UpStep
        \/ ChkStep
        \/ Tick

Spec == Init /\ [][Next]_vars

\* Both threads are scheduled, and time passes.
FairSpec == /\ Spec
            /\ WF_vars(UpStep)
            /\ WF_vars(ChkStep)
            /\ WF_vars(Tick)
------------------------------------------------------------------------------
(* Properties. *)

\* Every variable holds a value the code can give it; in particular the length
\* stays within the array although both threads change it without a lock.
TypeOK ==
    /\ slot \in [Index -> SlotType]
    /\ bufferNodeIndex \in 0 .. MaxNode
    /\ upPc \in UpPc /\ upNode \in Node \cup {NoNode}
    /\ upI \in 0 .. MaxNode /\ upTmp \in 0 .. MaxNode /\ upCase \in {"known", "new"}
    /\ stored \subseteq Index
    /\ chkPc \in ChkPc /\ chkI \in 0 .. MaxNode /\ chkLag \in 0 .. MaxLag
    /\ told \in Node \cup {NoNode} /\ deleted \in Node \cup {NoNode}
    /\ chkAddr \in Node \cup {NoNode} /\ chkK \in 0 .. MaxNode
    /\ chkTmp \in 0 .. MaxNode
    /\ overlap \in {"none", "seen"}

\* Neither thread touches a slot outside gBufferNode, whatever the other one does
\* to the length in between, and store_new_data leaves pm_data_now only after a
\* removal moved a slot during an update.
AccessInBounds ==
    /\ upPc \in {"setaddr", "reset"} => bufferNodeIndex \in Index
    /\ upPc \in {"sample", "stamp", "hour"} => upI \in Index
    /\ chkPc \in {"diff", "tell", "delete", "call"} => chkI \in Index
    /\ chkPc = "shift" /\ chkK < bufferNodeIndex - 1 => chkK + 1 \in Index
    /\ upPc = "overrun" => ~RaceFree

\* The slots in use; the one that a removal is overwriting does not count.
LiveSlot == { i \in 0 .. bufferNodeIndex - 1 : ~(Shifting /\ i = chkK) }

\* A node has one slot, unless a removal has overlapped an update.
UniqueAddresses ==
    RaceFree => \A i, j \in LiveSlot : slot[i].nodeAddr = slot[j].nodeAddr => i = j

\* A node's slot holds that node's samples and no others, unless a removal has
\* overlapped an update.
OwnSamples ==
    RaceFree => \A i \in LiveSlot : slot[i].from = {slot[i].nodeAddr}

Listed(n) == \E i \in LiveSlot : slot[i].nodeAddr = n

\* A node leaves the table only by the removal of the node that this sweep has
\* reported and deleted from the JSON file: a removal takes nobody else with it.
LeaveReported ==
    \A n \in Node : Listed(n) /\ ~Listed(n)' /\ RaceFree' => told = n /\ deleted = n
OnlyReportedLeave == [][LeaveReported]_vars

\* When update_to_node returns, it has written the sample of this frame to one slot,
\* which is in use, its sender's, and still holds it; or to none, because all slots
\* belong to other nodes: a frame that was acknowledged is dropped for no other reason.
ReturnStored ==
    UpBusy /\ ~UpBusy' /\ RaceFree' =>
        \/ \E i \in LiveSlot' :
              stored = {i} /\ slot'[i].nodeAddr = upNode /\ upNode \in slot'[i].from
        \/ stored = {} /\ bufferNodeIndex = MaxNode /\ ~Listed(upNode)
FrameStoredOrTableFull == [][ReturnStored]_vars

\* A node that stops sending is eventually out of the table for good.
SilentNodeLeaves ==
    []RaceFree => \A n \in Node : <>[](upNode # n) => <>[]~Listed(n)

\* update_to_node's branch for a new node is for the first frame of a node: the
\* comment on its condition, "If this is firt time node send pkg to smgw".
FirstTimeNode == upPc = "setaddr" => ~Listed(upNode)
==============================================================================
