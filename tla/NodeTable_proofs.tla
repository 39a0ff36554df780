--------------------------- MODULE NodeTable_proofs ---------------------------
(***************************************************************************)
(* Proofs about NodeTable, for every number of nodes, slots and samples.   *)
(***************************************************************************)
EXTENDS NodeTable, TLAPS

USE TableAssumption DEF Index

\* What the bounds rest on: between the test for a full table and the store of
\* bufferNodeIndex++ only the sweep changes the length, and it only lowers it; the
\* sweep holds an index that was in use, and lowers a length it saw above zero.
Bounds ==
    /\ upPc # "idle" => upNode \in Node
    /\ upPc \in {"scan", "full"} => upCase = "known"
    /\ upPc \in {"setaddr", "reset", "load", "inc"} => upCase = "new"
    /\ upCase = "new" /\ upPc # "inc" => bufferNodeIndex < MaxNode
    /\ upPc = "inc" => upTmp < MaxNode
    /\ upPc \in {"sample", "stamp", "hour"} => upI < MaxNode
    /\ chkPc \notin {"sleep", "loop"} => chkI < MaxNode
    /\ chkPc \in {"shift", "load"} => bufferNodeIndex > 0
    /\ chkPc = "dec" => chkTmp > 0
    /\ stored = IF upPc \in {"stamp", "hour", "load", "inc"} THEN {upI} ELSE {}

TypeInv == TypeOK /\ Bounds

\* The bounds hold initially.
LEMMA InitType == Init => TypeInv
<1> SUFFICES ASSUME Init PROVE TypeInv
    OBVIOUS
<1>1. [nodeAddr |-> NoNode, pm25Index |-> 0, from |-> {}, age |-> 0] \in SlotType
    BY DEF SlotType, AgeCap
<1>2. slot \in [Index -> SlotType]
    BY <1>1 DEF Init
<1>3. TypeOK
    <2>1. /\ bufferNodeIndex \in 0 .. MaxNode /\ upI \in 0 .. MaxNode /\ upTmp \in 0 .. MaxNode
          /\ chkI \in 0 .. MaxNode /\ chkLag \in 0 .. MaxLag /\ chkK \in 0 .. MaxNode
          /\ chkTmp \in 0 .. MaxNode
        BY DEF Init
    <2>2. /\ upPc \in UpPc /\ upCase \in {"known", "new"} /\ chkPc \in ChkPc
          /\ overlap \in {"none", "seen"} /\ stored \subseteq Index
        BY DEF Init, UpPc, ChkPc
    <2>3. {upNode, told, deleted, chkAddr} \subseteq Node \cup {NoNode}
        BY DEF Init
    <2>. QED
        BY <1>2, <2>1, <2>2, <2>3 DEF TypeOK
<1>4. Bounds
    BY DEF Init, Bounds
<1>. QED
    BY <1>3, <1>4 DEF TypeInv

\* The table keeps its type when one field of a slot is given a value of the
\* field's type.
LEMMA SlotAddr ==
    ASSUME NEW s \in [Index -> SlotType], NEW k \in Index, NEW n \in Node
    PROVE  [s EXCEPT ![k].nodeAddr = n] \in [Index -> SlotType]
BY DEF SlotType

\* The same of the sample index.
LEMMA SlotIndex ==
    ASSUME NEW s \in [Index -> SlotType], NEW k \in Index, NEW p \in 0 .. Samples
    PROVE  [s EXCEPT ![k].pm25Index = p] \in [Index -> SlotType]
BY DEF SlotType

\* The same of the nodes whose samples the slot was given.
LEMMA SlotFrom ==
    ASSUME NEW s \in [Index -> SlotType], NEW k \in Index, NEW f \in SUBSET Node
    PROVE  [s EXCEPT ![k].from = f] \in [Index -> SlotType]
BY DEF SlotType

\* The same of the age.
LEMMA SlotAge ==
    ASSUME NEW s \in [Index -> SlotType], NEW k \in Index, NEW a \in 0 .. AgeCap
    PROVE  [s EXCEPT ![k].age = a] \in [Index -> SlotType]
BY DEF SlotType

\* The steps of update_to_node that write to the table keep its type.
LEMMA SetAddrSlots ==
    ASSUME slot \in [Index -> SlotType], bufferNodeIndex \in Index, upNode \in Node,
           UpSetAddr
    PROVE  slot' \in [Index -> SlotType]
BY SlotAddr DEF UpSetAddr

\* The reset of a slot's counters.
LEMMA ResetSlots ==
    ASSUME slot \in [Index -> SlotType], bufferNodeIndex \in Index, UpReset
    PROVE  slot' \in [Index -> SlotType]
<1> DEFINE t == [slot EXCEPT ![bufferNodeIndex].pm25Index = 0]
<1>1. t \in [Index -> SlotType]
    BY SlotIndex
<1>2. [t EXCEPT ![bufferNodeIndex].from = {}] \in [Index -> SlotType]
    <2> HIDE DEF t
    <2>. QED
        BY <1>1, SlotFrom
<1>. QED
    BY <1>2 DEF UpReset

\* A sample written below the end of pm_data_now.
LEMMA SampleSlots ==
    ASSUME NEW s \in [Index -> SlotType], NEW k \in Index, NEW n \in Node,
           s[k].pm25Index < Samples
    PROVE  [s EXCEPT ![k].from = @ \cup {n}, ![k].pm25Index = @ + 1] \in [Index -> SlotType]
<1> DEFINE t == [s EXCEPT ![k].from = s[k].from \cup {n}]
<1>1. s[k].from \cup {n} \in SUBSET Node /\ s[k].pm25Index + 1 \in 0 .. Samples
    BY DEF SlotType
<1>2. t \in [Index -> SlotType]
    BY <1>1, SlotFrom
<1>3. t[k].pm25Index = s[k].pm25Index
    BY DEF SlotType
<1>4. [t EXCEPT ![k].pm25Index = s[k].pm25Index + 1] \in [Index -> SlotType]
    <2> HIDE DEF t
    <2>. QED
        BY <1>1, <1>2, SlotIndex
<1>. QED
    BY <1>3, <1>4

\* The time stamp of a slot.
LEMMA StampSlots ==
    ASSUME slot \in [Index -> SlotType], upI \in Index, UpStamp
    PROVE  slot' \in [Index -> SlotType]
<1>1. 0 \in 0 .. AgeCap
    BY DEF AgeCap
<1>2. slot' = [slot EXCEPT ![upI].age = 0]
    BY DEF UpStamp
<1>. QED
    BY <1>1, <1>2, SlotAge

\* The end of an hour.
LEMMA HourSlots ==
    ASSUME slot \in [Index -> SlotType], upI \in Index, UpHour
    PROVE  slot' \in [Index -> SlotType]
<1> DEFINE p == IF slot[upI].pm25Index = Samples THEN 0 ELSE slot[upI].pm25Index
<1>1. p \in 0 .. Samples
    BY DEF SlotType
<1>2. slot' = [slot EXCEPT ![upI].pm25Index = p]
    BY DEF UpHour
<1>. HIDE DEF p
<1>. QED
    BY <1>1, <1>2, SlotIndex

\* The passing of time.
LEMMA TickSlots ==
    ASSUME slot \in [Index -> SlotType], Tick
    PROVE  slot' \in [Index -> SlotType]
<1>1. ASSUME NEW i \in Index
      PROVE  [slot[i] EXCEPT !.age = Older(@)] \in SlotType
    <2>1. Older(slot[i].age) \in 0 .. AgeCap
        BY DEF SlotType, Older, AgeCap
    <2>. QED
        BY <2>1 DEF SlotType
<1>. QED
    BY <1>1 DEF Tick

\* No step of thread_up leaves the types or the bounds.
LEMMA UpReceiveType ==
    ASSUME TypeInv, NEW n \in Node, UpReceive(n)
    PROVE  TypeInv'
BY DEF TypeInv, TypeOK, Bounds, UpReceive, NoteRace, UpBusy, Shifting, UpPc, chkVars

LEMMA UpStepType ==
    ASSUME TypeInv, UpStep
    PROVE  TypeInv'
<1> USE DEF TypeInv, TypeOK, Bounds, chkVars, NoteRace, UpBusy, Shifting, UpGoto, UpReturn
<1>1. CASE UpScan
    BY <1>1 DEF UpScan, UpPc
<1>2. CASE UpFull
    BY <1>2 DEF UpFull, UpPc
<1>3. CASE UpSetAddr
    <2>1. slot' \in [Index -> SlotType]
        <3>1. slot \in [Index -> SlotType] /\ bufferNodeIndex \in Index /\ upNode \in Node
            BY <1>3 DEF UpSetAddr
        <3>. QED
            BY ONLY <3>1, <1>3, SetAddrSlots
    <2>. QED
        BY <1>3, <2>1 DEF UpSetAddr, UpPc
<1>4. CASE UpReset
    <2>1. slot' \in [Index -> SlotType]
        <3>1. slot \in [Index -> SlotType] /\ bufferNodeIndex \in Index
            BY <1>4 DEF UpReset
        <3>. QED
            BY ONLY <3>1, <1>4, ResetSlots
    <2>. QED
        BY <1>4, <2>1 DEF UpReset, UpPc
<1>5. CASE UpSample
    <2>1. slot' \in [Index -> SlotType]
        <3>1. slot \in [Index -> SlotType] /\ upI \in Index /\ upNode \in Node
            BY <1>5 DEF UpSample
        <3>2. CASE slot[upI].pm25Index < Samples
            <4>1. slot' = [slot EXCEPT ![upI].from = @ \cup {upNode},
                                       ![upI].pm25Index = @ + 1]
                BY <1>5, <3>2 DEF UpSample
            <4>. QED
                BY ONLY <3>1, <3>2, <4>1, SampleSlots
        <3>3. CASE ~(slot[upI].pm25Index < Samples)
            BY <1>5, <3>3 DEF UpSample
        <3>. QED
            BY ONLY <3>2, <3>3
    <2>. QED
        BY <1>5, <2>1 DEF UpSample, UpPc
<1>6. CASE UpStamp
    <2>1. slot' \in [Index -> SlotType]
        <3>1. slot \in [Index -> SlotType] /\ upI \in Index
            BY <1>6 DEF UpStamp
        <3>. QED
            BY ONLY <3>1, <1>6, StampSlots
    <2>. QED
        BY <1>6, <2>1 DEF UpStamp, UpPc
<1>7. CASE UpHour
    <2>1. slot' \in [Index -> SlotType]
        <3>1. slot \in [Index -> SlotType] /\ upI \in Index
            BY <1>7 DEF UpHour
        <3>. QED
            BY ONLY <3>1, <1>7, HourSlots
    <2>. QED
        BY <1>7, <2>1 DEF UpHour, UpPc
<1>8. CASE UpLoad
    BY <1>8 DEF UpLoad, UpPc
<1>9. CASE UpInc
    BY <1>9 DEF UpInc, UpPc
<1>. QED
    BY <1>1, <1>2, <1>3, <1>4, <1>5, <1>6, <1>7, <1>8, <1>9 DEF UpStep

\* No step of check_error_node leaves the types or the bounds.
LEMMA ChkStepType ==
    ASSUME TypeInv, ChkStep
    PROVE  TypeInv'
<1> USE DEF TypeInv, TypeOK, Bounds, upVars, NoteRace, UpBusy, Shifting, ChkAdvance, ChkPc
<1>1. CASE ChkBegin
    BY <1>1 DEF ChkBegin
<1>2. CASE ChkLoop
    BY <1>2 DEF ChkLoop
<1>3. CASE ChkDiff
    BY <1>3 DEF ChkDiff
<1>4. CASE ChkTell
    BY <1>4 DEF ChkTell, SlotType
<1>5. CASE ChkDelete
    BY <1>5 DEF ChkDelete, SlotType
<1>6. CASE ChkCall
    BY <1>6 DEF ChkCall, SlotType
<1>7. CASE ChkFind
    BY <1>7 DEF ChkFind
<1>8. CASE ChkShift
    <2>1. slot' \in [Index -> SlotType]
        <3>1. slot \in [Index -> SlotType] /\ bufferNodeIndex \in 0 .. MaxNode
              /\ chkK \in 0 .. MaxNode
            BY <1>8
        <3>. QED
            BY ONLY <3>1, <1>8, TableAssumption DEF ChkShift, Index
    <2>. QED
        BY <1>8, <2>1 DEF ChkShift
<1>9. CASE ChkLoad
    BY <1>9 DEF ChkLoad
<1>10. CASE ChkDec
    BY <1>10 DEF ChkDec
<1>. QED
    BY <1>1, <1>2, <1>3, <1>4, <1>5, <1>6, <1>7, <1>8, <1>9, <1>10 DEF ChkStep

\* Nor does the passing of time.
LEMMA TickType ==
    ASSUME TypeInv, Tick
    PROVE  TypeInv'
<1>1. slot' \in [Index -> SlotType]
    BY TickSlots DEF TypeInv, TypeOK
<1>2. chkLag' \in 0 .. MaxLag
    BY DEF Tick, TypeInv, TypeOK
<1>. QED
    BY <1>1, <1>2 DEF Tick, TypeInv, TypeOK, Bounds, upVars

\* The length stays within the array and every variable keeps its type: TypeOK
\* holds in every reachable state, and so do the bounds above.
THEOREM TypeCorrect == Spec => [](TypeOK /\ Bounds)
<1>1. Init => TypeInv
    BY InitType
<1>2. TypeInv /\ [Next]_vars => TypeInv'
    <2> SUFFICES ASSUME TypeInv, [Next]_vars
                 PROVE  TypeInv'
        OBVIOUS
    <2>1. ASSUME NEW n \in Node, UpReceive(n)
          PROVE  TypeInv'
        BY <2>1, UpReceiveType
    <2>2. CASE UpStep
        BY <2>2, UpStepType
    <2>3. CASE ChkStep
        BY <2>3, ChkStepType
    <2>4. CASE Tick
        BY <2>4, TickType
    <2>5. CASE UNCHANGED vars
        BY <2>5 DEF TypeInv, TypeOK, Bounds, vars, upVars, chkVars
    <2>. QED
        BY <2>1, <2>2, <2>3, <2>4, <2>5 DEF Next
<1>. QED
    BY <1>1, <1>2, PTL DEF Spec, TypeInv
------------------------------------------------------------------------------
(***************************************************************************)
(* What holds as long as no removal has overlapped an update.              *)
(***************************************************************************)
Excluded == ~(UpBusy /\ Shifting)

\* While update_to_node looks for upNode or adds it, the slots it has passed
\* belong to other nodes.
Searched ==
    /\ upPc = "scan" => /\ upI <= bufferNodeIndex
                        /\ \A i \in 0 .. upI - 1 : slot[i].nodeAddr # upNode
    /\ upPc = "full" \/ (UpBusy /\ upCase = "new") =>
           \A i \in 0 .. bufferNodeIndex - 1 : slot[i].nodeAddr # upNode

\* The slot past the end that is being filled for upNode.
Filling ==
    /\ upPc = "reset" => slot[bufferNodeIndex].nodeAddr = upNode
    /\ UpBusy /\ upCase = "new" /\ upPc \notin {"setaddr", "reset"} =>
           /\ upI = bufferNodeIndex
           /\ slot[upI].nodeAddr = upNode
           /\ upPc = "sample" => slot[upI].from = {} /\ slot[upI].pm25Index = 0
           /\ upPc # "sample" => slot[upI].from = {upNode}
           /\ upPc \in {"load", "inc"} => slot[upI].pm25Index < Samples
    /\ upPc = "inc" => upTmp = bufferNodeIndex

\* The slot of a known node stays where it was found.
Updating ==
    upPc \in {"sample", "stamp", "hour"} /\ upCase = "known" =>
        upI < bufferNodeIndex /\ slot[upI].nodeAddr = upNode

\* The hole a removal moves towards the end.
Removing ==
    /\ Shifting => chkK < bufferNodeIndex
    /\ chkPc \in {"load", "dec"} => chkK = bufferNodeIndex - 1
    /\ chkPc = "dec" => chkTmp = bufferNodeIndex

\* The three readings of the silent node's address agree.
Reported ==
    /\ chkPc \in {"diff", "tell", "delete", "call"} => chkI < bufferNodeIndex
    /\ chkPc = "delete" => told = slot[chkI].nodeAddr
    /\ chkPc = "call" => told = slot[chkI].nodeAddr /\ deleted = slot[chkI].nodeAddr
    /\ chkPc = "find" \/ Shifting => told = chkAddr /\ deleted = chkAddr

\* A slot in use has room for a sample, except between a sample and the end of
\* its hour.
RoomLeft ==
    /\ upPc # "overrun"
    /\ \A i \in LiveSlot : \/ slot[i].pm25Index < Samples
                           \/ upPc \in {"stamp", "hour"} /\ i = upI

OneSlot == \A i, j \in LiveSlot : slot[i].nodeAddr = slot[j].nodeAddr => i = j
OwnOnly == \A i \in LiveSlot : slot[i].from = {slot[i].nodeAddr}

Quiet == /\ Excluded /\ Searched /\ Filling /\ Updating /\ Removing /\ Reported
         /\ RoomLeft /\ OneSlot /\ OwnOnly

RaceInv == TypeInv /\ (RaceFree => Quiet)

\* A frame that thread_up takes up keeps all of it, unless an overlap begins.
LEMMA UpReceiveQuiet ==
    ASSUME TypeInv, Quiet, RaceFree', NEW n \in Node, UpReceive(n)
    PROVE  Quiet'
BY DEF UpReceive, TypeInv, TypeOK, Bounds, Quiet, Excluded, Searched, Filling, Updating,
       Removing, Reported, RoomLeft, OneSlot, OwnOnly, LiveSlot, RaceFree, NoteRace,
       UpBusy, Shifting, UpPc, chkVars

\* The steps of update_to_node keep it.
LEMMA UpStepQuiet ==
    ASSUME TypeInv, Quiet, RaceFree', UpStep
    PROVE  Quiet'
<1> USE DEF TypeInv, TypeOK, Bounds, Quiet, Excluded, Searched, Filling, Updating,
            Removing, Reported, RoomLeft, OneSlot, OwnOnly, LiveSlot, RaceFree,
            NoteRace, UpBusy, Shifting, UpGoto, UpReturn, chkVars
<1>1. CASE UpScan
    BY <1>1 DEF UpScan, UpPc
<1>2. CASE UpFull
    BY <1>2 DEF UpFull, UpPc
<1>3. CASE UpSetAddr
    <2>1. /\ \A i \in Index \ {bufferNodeIndex} : slot'[i] = slot[i]
          /\ slot'[bufferNodeIndex].nodeAddr = upNode
        BY <1>3 DEF UpSetAddr, SlotType
    <2>2. /\ bufferNodeIndex \in Index
          /\ upPc = "setaddr" /\ upPc' = "reset" /\ upCase = "new"
          /\ UNCHANGED upI
          /\ UNCHANGED <<bufferNodeIndex, upNode, upTmp, upCase, chkVars>>
        BY <1>3 DEF UpSetAddr
    <2>3. ~Shifting /\ ~Shifting'
        BY <2>2
    <2>4. LiveSlot' = LiveSlot /\ LiveSlot \subseteq Index
        BY <2>2, <2>3
    <2>5. RoomLeft'
        BY <2>1, <2>2, <2>4
    <2>6. (OneSlot /\ OwnOnly)'
        BY <2>1, <2>2, <2>4
    <2>7. (Filling /\ Updating)'
        BY <2>1, <2>2
    <2>8. (Excluded /\ Searched /\ Removing /\ Reported)'
        BY <2>1, <2>2, <2>3
    <2>. QED
        BY <2>5, <2>6, <2>7, <2>8
<1>4. CASE UpReset
    <2>1. /\ \A i \in Index \ {bufferNodeIndex} : slot'[i] = slot[i]
          /\ slot'[bufferNodeIndex].nodeAddr = slot[bufferNodeIndex].nodeAddr
          /\ slot'[bufferNodeIndex].pm25Index = 0
          /\ slot'[bufferNodeIndex].from = {}
        BY <1>4 DEF UpReset, SlotType
    <2>2. /\ bufferNodeIndex \in Index
          /\ upPc = "reset" /\ upPc' = "sample" /\ upCase = "new"
          /\ upI' = bufferNodeIndex
          /\ UNCHANGED <<bufferNodeIndex, upNode, upTmp, upCase, chkVars>>
        BY <1>4 DEF UpReset
    <2>3. ~Shifting /\ ~Shifting'
        BY <2>2
    <2>4. LiveSlot' = LiveSlot /\ \A i \in LiveSlot : slot'[i] = slot[i]
        BY <2>1, <2>2, <2>3
    <2>5. (RoomLeft /\ OneSlot /\ OwnOnly)'
        BY <2>2, <2>4
    <2>6. Filling'
        BY <2>1, <2>2
    <2>7. (Excluded /\ Searched /\ Updating /\ Removing /\ Reported)'
        BY <2>1, <2>2, <2>3
    <2>. QED
        BY <2>5, <2>6, <2>7
<1>5. CASE UpSample
    <2>0. upI \in Index /\ slot[upI].pm25Index < Samples
        BY <1>5 DEF UpSample
    <2>1. /\ \A i \in Index \ {upI} : slot'[i] = slot[i]
          /\ slot'[upI].nodeAddr = slot[upI].nodeAddr
          /\ slot'[upI].from = slot[upI].from \cup {upNode}
        BY <1>5, <2>0 DEF UpSample, SlotType
    <2>2. /\ upI \in Index
          /\ upPc = "sample" /\ upPc' = "stamp"
          /\ UNCHANGED upI
          /\ UNCHANGED <<bufferNodeIndex, upNode, upTmp, upCase, chkVars>>
        BY <1>5, <2>0 DEF UpSample
    <2>3. ~Shifting /\ ~Shifting'
        BY <2>2
    <2>4. LiveSlot' = LiveSlot /\ LiveSlot \subseteq Index
        BY <2>2, <2>3
    <2>5. RoomLeft'
        BY <2>1, <2>2, <2>4
    <2>6. (OneSlot /\ OwnOnly)'
        BY <2>1, <2>2, <2>4
    <2>7. (Filling /\ Updating)'
        BY <2>1, <2>2
    <2>8. (Excluded /\ Searched /\ Removing /\ Reported)'
        BY <2>1, <2>2, <2>3
    <2>. QED
        BY <2>5, <2>6, <2>7, <2>8
<1>6. CASE UpStamp
    <2>1. /\ \A i \in Index \ {upI} : slot'[i] = slot[i]
          /\ slot'[upI].nodeAddr = slot[upI].nodeAddr
          /\ slot'[upI].pm25Index = slot[upI].pm25Index
          /\ slot'[upI].from = slot[upI].from
        BY <1>6 DEF UpStamp, SlotType
    <2>2. /\ upI \in Index
          /\ upPc = "stamp" /\ upPc' = "hour"
          /\ UNCHANGED upI
          /\ UNCHANGED <<bufferNodeIndex, upNode, upTmp, upCase, chkVars>>
        BY <1>6 DEF UpStamp
    <2>3. ~Shifting /\ ~Shifting'
        BY <2>2
    <2>4. LiveSlot' = LiveSlot /\ LiveSlot \subseteq Index
        BY <2>2, <2>3
    <2>5. RoomLeft'
        BY <2>1, <2>2, <2>4
    <2>6. (OneSlot /\ OwnOnly)'
        BY <2>1, <2>2, <2>4
    <2>7. (Filling /\ Updating)'
        BY <2>1, <2>2
    <2>8. (Excluded /\ Searched /\ Removing /\ Reported)'
        BY <2>1, <2>2, <2>3
    <2>. QED
        BY <2>5, <2>6, <2>7, <2>8
<1>7. CASE UpHour
    <2>1. /\ \A i \in Index \ {upI} : slot'[i] = slot[i]
          /\ slot'[upI].nodeAddr = slot[upI].nodeAddr
          /\ slot'[upI].from = slot[upI].from
          /\ slot'[upI].pm25Index < Samples
        BY <1>7 DEF UpHour, SlotType
    <2>2. /\ upI \in Index
          /\ upPc = "hour"
          /\ upCase = "new" => upPc' = "load" /\ UNCHANGED <<upNode, upI, upTmp, upCase>>
          /\ upCase = "known" => upPc' = "idle"
          /\ UNCHANGED <<bufferNodeIndex, chkVars>>
        BY <1>7 DEF UpHour
    <2>3. ~Shifting /\ ~Shifting'
        BY <2>2
    <2>4. LiveSlot' = LiveSlot /\ LiveSlot \subseteq Index
        BY <2>2, <2>3
    <2>5. RoomLeft'
        BY <2>1, <2>2, <2>4
    <2>6. (OneSlot /\ OwnOnly)'
        BY <2>1, <2>2, <2>4
    <2>7. (Filling /\ Updating)'
        BY <2>1, <2>2
    <2>8. (Excluded /\ Searched /\ Removing /\ Reported)'
        BY <2>1, <2>2, <2>3
    <2>. QED
        BY <2>5, <2>6, <2>7, <2>8
<1>8. CASE UpLoad
    BY <1>8 DEF UpLoad, UpPc
<1>9. CASE UpInc
    BY <1>9 DEF UpInc, UpPc
<1>. QED
    BY <1>1, <1>2, <1>3, <1>4, <1>5, <1>6, <1>7, <1>8, <1>9 DEF UpStep

\* So does check_error_node.
LEMMA ChkStepQuiet ==
    ASSUME TypeInv, Quiet, RaceFree', ChkStep
    PROVE  Quiet'
<1> USE DEF TypeInv, TypeOK, Bounds, Quiet, Excluded, Searched, Filling, Updating,
            Removing, Reported, RoomLeft, OneSlot, OwnOnly, LiveSlot, RaceFree,
            NoteRace, UpBusy, Shifting, ChkAdvance, upVars, ChkPc
<1>1. CASE ChkBegin
    BY <1>1 DEF ChkBegin
<1>2. CASE ChkLoop
    BY <1>2 DEF ChkLoop
<1>3. CASE ChkDiff
    BY <1>3 DEF ChkDiff
<1>4. CASE ChkTell
    BY <1>4 DEF ChkTell, SlotType
<1>5. CASE ChkDelete
    BY <1>5 DEF ChkDelete, SlotType
<1>6. CASE ChkCall
    BY <1>6 DEF ChkCall, SlotType
<1>7. CASE ChkFind
    BY <1>7 DEF ChkFind
<1>8. CASE ChkShift
    BY <1>8 DEF ChkShift
<1>9. CASE ChkLoad
    BY <1>9 DEF ChkLoad
<1>10. CASE ChkDec
    BY <1>10 DEF ChkDec
<1>. QED
    BY <1>1, <1>2, <1>3, <1>4, <1>5, <1>6, <1>7, <1>8, <1>9, <1>10 DEF ChkStep

\* Time changes nothing but ages.
LEMMA TickQuiet ==
    ASSUME TypeInv, Quiet, RaceFree', Tick
    PROVE  Quiet'
<1>1. \A i \in Index : /\ slot'[i].nodeAddr = slot[i].nodeAddr
                       /\ slot'[i].pm25Index = slot[i].pm25Index
                       /\ slot'[i].from = slot[i].from
    BY DEF Tick, TypeInv, TypeOK, SlotType
<1>2. UNCHANGED <<bufferNodeIndex, upVars, chkPc, chkI, told, deleted, chkAddr, chkK, chkTmp>>
    BY DEF Tick
<1>3. /\ bufferNodeIndex \in 0 .. MaxNode /\ upI \in 0 .. MaxNode /\ chkI \in 0 .. MaxNode
      /\ Bounds
    BY DEF TypeInv, TypeOK
<1>4. LiveSlot' = LiveSlot /\ LiveSlot \subseteq Index
    BY <1>2, <1>3 DEF LiveSlot, Shifting
<1>5. (Excluded /\ Removing)'
    BY <1>2 DEF Quiet, Excluded, Removing, UpBusy, Shifting, upVars
<1>6. Searched'
    BY <1>1, <1>2, <1>3 DEF Quiet, Searched, UpBusy, upVars
<1>7. Filling'
    BY <1>1, <1>2, <1>3 DEF Quiet, Filling, UpBusy, upVars, Bounds
<1>8. Updating'
    BY <1>1, <1>2, <1>3 DEF Quiet, Updating, upVars
<1>9. Reported'
    BY <1>1, <1>2, <1>3 DEF Quiet, Reported, Shifting
<1>10. (RoomLeft /\ OneSlot /\ OwnOnly)'
    BY <1>1, <1>2, <1>4 DEF Quiet, RoomLeft, OneSlot, OwnOnly, upVars
<1>. QED
    BY <1>5, <1>6, <1>7, <1>8, <1>9, <1>10 DEF Quiet

\* An overlap once noted is never forgotten.
LEMMA RaceNoted == [Next]_vars /\ RaceFree' => RaceFree
<1> USE DEF RaceFree, NoteRace
<1> SUFFICES ASSUME [Next]_vars, RaceFree'
             PROVE  RaceFree
    OBVIOUS
<1>1. ASSUME NEW n \in Node, UpReceive(n)
      PROVE  RaceFree
    BY <1>1 DEF UpReceive
<1>2. CASE UpStep
    BY <1>2 DEF UpStep, UpScan, UpFull, UpSetAddr, UpReset, UpSample, UpStamp, UpHour,
                UpLoad, UpInc
<1>3. CASE ChkStep
    BY <1>3 DEF ChkStep, ChkBegin, ChkLoop, ChkDiff, ChkTell, ChkDelete, ChkCall, ChkFind,
                ChkShift, ChkLoad, ChkDec
<1>4. CASE Tick
    BY <1>4 DEF Tick
<1>5. CASE UNCHANGED vars
    BY <1>5 DEF vars
<1>. QED
    BY <1>1, <1>2, <1>3, <1>4, <1>5 DEF Next

\* The invariant of the table: types and bounds always, and Quiet until a removal
\* overlaps an update.
LEMMA RaceInvariant == Spec => []RaceInv
<1>1. Init => RaceInv
    <2> SUFFICES ASSUME Init PROVE Quiet
        BY InitType DEF RaceInv
    <2>. QED
        BY DEF Init, Quiet, Excluded, Searched, Filling, Updating, Removing, Reported,
           RoomLeft, OneSlot, OwnOnly, LiveSlot, UpBusy, Shifting
<1>2. RaceInv /\ TypeInv' /\ [Next]_vars => RaceInv'
    <2> SUFFICES ASSUME TypeInv, TypeInv', Quiet, RaceFree', [Next]_vars
                 PROVE  Quiet'
        BY RaceNoted DEF RaceInv
    <2>1. ASSUME NEW n \in Node, UpReceive(n)
          PROVE  Quiet'
        BY <2>1, UpReceiveQuiet
    <2>2. CASE UpStep
        BY <2>2, UpStepQuiet
    <2>3. CASE ChkStep
        BY <2>3, ChkStepQuiet
    <2>4. CASE Tick
        BY <2>4, TickQuiet
    <2>5. CASE UNCHANGED vars
        BY <2>5 DEF Quiet, Excluded, Searched, Filling, Updating, Removing, Reported,
           RoomLeft, OneSlot, OwnOnly, LiveSlot, UpBusy, Shifting, vars, upVars, chkVars
    <2>. QED
        BY <2>1, <2>2, <2>3, <2>4, <2>5 DEF Next
<1>3. Spec => []TypeInv
    BY TypeCorrect DEF TypeInv
<1>. QED
    BY <1>1, <1>2, <1>3, PTL DEF Spec

\* Neither thread indexes outside gBufferNode, and no sample is written outside
\* pm_data_now before a removal has overlapped an update.
THEOREM InBounds == Spec => []AccessInBounds
<1>1. RaceInv => AccessInBounds
    BY DEF RaceInv, TypeInv, TypeOK, Bounds, Quiet, RoomLeft, AccessInBounds
<1>. QED
    BY <1>1, RaceInvariant, PTL

\* No node has two slots before a removal has overlapped an update.
THEOREM OneSlotPerNode == Spec => []UniqueAddresses
<1>1. RaceInv => UniqueAddresses
    BY DEF RaceInv, Quiet, OneSlot, UniqueAddresses
<1>. QED
    BY <1>1, RaceInvariant, PTL

\* Nor does a slot hold another node's samples.
THEOREM SamplesAreOwn == Spec => []OwnSamples
<1>1. RaceInv => OwnSamples
    BY DEF RaceInv, Quiet, OwnOnly, OwnSamples
<1>. QED
    BY <1>1, RaceInvariant, PTL

\* What the end of update_to_node leaves behind.
LEMMA UpStepStores ==
    ASSUME TypeInv, Quiet, RaceFree', UpStep, UpBusy, ~UpBusy'
    PROVE  \/ \E i \in LiveSlot' :
                 stored = {i} /\ slot'[i].nodeAddr = upNode /\ upNode \in slot'[i].from
           \/ stored = {} /\ bufferNodeIndex = MaxNode /\ ~Listed(upNode)
<1> USE DEF UpBusy, UpReturn, UpGoto
<1>1. CASE UpFull
    BY <1>1 DEF UpFull, TypeInv, Bounds, Quiet, Searched, Listed, LiveSlot
<1>2. CASE UpHour
    <2>1. /\ slot'[upI].nodeAddr = slot[upI].nodeAddr
          /\ slot'[upI].from = slot[upI].from
        BY <1>2 DEF UpHour, TypeInv, TypeOK, Bounds, SlotType
    <2>2. upPc = "hour" /\ upCase = "known" /\ UNCHANGED <<bufferNodeIndex, chkVars>>
        BY <1>2 DEF UpHour, TypeInv, TypeOK
    <2>3. ~Shifting /\ ~Shifting'
        BY <2>2 DEF Quiet, Excluded, Shifting, chkVars
    <2>4. upI \in LiveSlot /\ slot[upI].nodeAddr = upNode /\ slot[upI].from = {upNode}
        BY <2>2, <2>3 DEF Quiet, Updating, OwnOnly, LiveSlot, TypeInv, TypeOK
    <2>5. upI \in LiveSlot'
        BY <2>2, <2>3, <2>4 DEF LiveSlot
    <2>6. stored = {upI}
        BY <2>2 DEF TypeInv, Bounds
    <2>. QED
        BY <2>1, <2>4, <2>5, <2>6
<1>3. CASE UpInc
    <2>1. upPc = "inc" /\ upCase = "new" /\ UNCHANGED <<slot, chkVars>>
        BY <1>3 DEF UpInc, TypeInv, Bounds
    <2>2. ~Shifting'
        BY <2>1 DEF Quiet, Excluded, Shifting, chkVars
    <2>3. bufferNodeIndex' = bufferNodeIndex + 1 /\ upI = bufferNodeIndex
        BY <1>3, <2>1 DEF UpInc, Quiet, Filling
    <2>4. upI \in LiveSlot'
        BY <2>2, <2>3 DEF LiveSlot, TypeInv, TypeOK
    <2>5. slot[upI].nodeAddr = upNode /\ slot[upI].from = {upNode}
        BY <2>1 DEF Quiet, Filling
    <2>6. stored = {upI}
        BY <2>1, <1>3 DEF UpInc, TypeInv, Bounds
    <2>. QED
        BY <2>1, <2>4, <2>5, <2>6
<1>. QED
    BY <1>1, <1>2, <1>3 DEF UpStep, UpScan, UpSetAddr, UpReset, UpSample, UpStamp, UpLoad

\* FrameStoredOrTableFull of NodeTable for every number of nodes, slots and samples:
\* each call writes the sample of its own frame, once and to its sender's slot, or the
\* table is full of other nodes.
THEOREM FrameKept == Spec => FrameStoredOrTableFull
<1>1. RaceInv /\ [Next]_vars => ReturnStored
    <2> SUFFICES ASSUME TypeInv, Quiet, [Next]_vars, UpBusy, ~UpBusy', RaceFree'
                 PROVE  \/ \E i \in LiveSlot' : /\ stored = {i} /\ slot'[i].nodeAddr = upNode
                                              /\ upNode \in slot'[i].from
                        \/ stored = {} /\ bufferNodeIndex = MaxNode /\ ~Listed(upNode)
        BY RaceNoted DEF RaceInv, ReturnStored
    <2>1. UpStep
        <3>1. ~(\E n \in Node : UpReceive(n))
            BY DEF UpReceive, UpBusy
        <3>2. ~ChkStep
            BY DEF UpBusy, ChkStep, ChkBegin, ChkLoop, ChkDiff, ChkTell, ChkDelete, ChkCall,
               ChkFind, ChkShift, ChkLoad, ChkDec, upVars
        <3>3. ~Tick /\ ~UNCHANGED vars
            BY DEF UpBusy, Tick, upVars, vars
        <3>. QED
            BY <3>1, <3>2, <3>3 DEF Next
    <2>. QED
        BY <2>1, UpStepStores
<1>. QED
    BY <1>1, RaceInvariant, PTL DEF Spec, FrameStoredOrTableFull

\* A sample finds room in its slot.
LEMMA NoOverrun ==
    ASSUME TypeInv, Quiet, UpSample
    PROVE  upI \in Index /\ slot[upI].pm25Index < Samples
<1>1. upPc = "sample" /\ upI \in Index
    BY DEF UpSample, TypeInv, TypeOK, Bounds
<1>2. CASE upCase = "new"
    BY <1>1, <1>2 DEF Quiet, Filling, UpBusy
<1>3. CASE upCase = "known"
    <2>1. ~Shifting
        BY <1>1 DEF Quiet, Excluded, UpBusy
    <2>2. upI < bufferNodeIndex
        BY <1>1, <1>3 DEF Quiet, Updating
    <2>3. upI \in LiveSlot
        BY <1>1, <2>1, <2>2 DEF LiveSlot, TypeInv, TypeOK
    <2>. QED
        BY <1>1, <2>3 DEF Quiet, RoomLeft
<1>. QED
    BY <1>2, <1>3 DEF TypeInv, TypeOK

\* A step that unlists a node is the one that opens the hole at its slot.
LEMMA StepUnlists ==
    ASSUME TypeInv, Quiet, RaceFree', [Next]_vars, NEW n \in Node, Listed(n), ~Listed(n)'
    PROVE  told = n /\ deleted = n
<1> PICK k \in LiveSlot : slot[k].nodeAddr = n
    BY DEF Listed
<1>0. k \in Index /\ k < bufferNodeIndex /\ bufferNodeIndex \in Nat
    BY DEF LiveSlot, TypeInv, TypeOK
<1>1. ~(k \in LiveSlot' /\ slot'[k].nodeAddr = n)
    BY DEF Listed
<1>2. CASE \E m \in Node : UpReceive(m)
    BY <1>1, <1>2 DEF UpReceive, LiveSlot, Shifting, chkVars
<1>3. CASE UpStep
    <2>1. UNCHANGED chkVars /\ (bufferNodeIndex' = bufferNodeIndex
                                \/ bufferNodeIndex' = bufferNodeIndex + 1)
        BY <1>3 DEF UpStep, UpScan, UpFull, UpSetAddr, UpReset, UpSample, UpStamp, UpHour,
           UpLoad, UpInc, Quiet, Filling, TypeInv, TypeOK
    <2>2. k \in LiveSlot'
        <3>1. k \in 0 .. bufferNodeIndex' - 1
            BY <1>0, <2>1 DEF chkVars
        <3>2. ~(Shifting' /\ k = chkK')
            BY <2>1 DEF LiveSlot, Shifting, chkVars
        <3>. QED
            BY <3>1, <3>2 DEF LiveSlot
    <2>3. slot'[k].nodeAddr = slot[k].nodeAddr
        <3>1. CASE UpSetAddr
            BY <1>0, <3>1 DEF UpSetAddr, TypeInv, TypeOK
        <3>2. CASE UpReset
            BY <1>0, <3>2 DEF UpReset, TypeInv, TypeOK, SlotType
        <3>3. CASE UpSample
            <4>1. upI \in Index /\ slot[upI].pm25Index < Samples
                BY <3>3, NoOverrun
            <4>2. slot' = [slot EXCEPT ![upI].from = @ \cup {upNode}, ![upI].pm25Index = @ + 1]
                BY <3>3, <4>1 DEF UpSample
            <4>3. slot \in [Index -> SlotType]
                BY DEF TypeInv, TypeOK
            <4>. QED
                BY <1>0, <4>1, <4>2, <4>3 DEF SlotType
        <3>4. CASE UpStamp
            BY <1>0, <3>4 DEF UpStamp, TypeInv, TypeOK, SlotType
        <3>5. CASE UpHour
            BY <1>0, <3>5 DEF UpHour, TypeInv, TypeOK, SlotType
        <3>6. CASE UNCHANGED slot
            BY <3>6
        <3>. QED
            BY <1>3, <3>1, <3>2, <3>3, <3>4, <3>5, <3>6
            DEF UpStep, UpScan, UpFull, UpLoad, UpInc
    <2>. QED
        BY <1>1, <2>2, <2>3
<1>4. CASE ChkStep
    <2>1. CASE ChkFind
        <3>1. UNCHANGED <<slot, bufferNodeIndex>>
            BY <2>1 DEF ChkFind
        <3>2. k = chkK' /\ chkPc' = "shift"
            BY <1>1, <2>1, <3>1 DEF ChkFind, ChkAdvance, LiveSlot, Shifting
        <3>. QED
            BY <2>1, <3>1, <3>2 DEF ChkFind, ChkAdvance, Quiet, Reported
    <2>2. CASE ChkShift
        <3>1. k \in LiveSlot' \/ (k = chkK + 1 /\ k = chkK')
            BY <1>0, <2>2 DEF ChkShift, LiveSlot, Shifting, TypeInv, TypeOK
        <3>2. CASE k \in LiveSlot'
            <4>1. k # chkK
                BY <1>0, <2>2 DEF ChkShift, LiveSlot, Shifting
            <4>. QED
                BY <1>0, <1>1, <2>2, <3>2, <4>1 DEF ChkShift, TypeInv, TypeOK
        <3>3. CASE k = chkK + 1 /\ k = chkK'
            <4>1. chkK \in LiveSlot' /\ slot'[chkK] = slot[k]
                BY <1>0, <2>2, <3>3 DEF ChkShift, LiveSlot, Shifting, TypeInv, TypeOK
            <4>. QED
                BY <4>1 DEF Listed
        <3>. QED
            BY <3>1, <3>2, <3>3
    <2>3. CASE ChkLoad
        BY <1>1, <2>3 DEF ChkLoad, LiveSlot, Shifting
    <2>4. CASE ChkDec
        BY <1>0, <1>1, <2>4 DEF ChkDec, ChkAdvance, LiveSlot, Shifting, Quiet, Removing, TypeInv,
           TypeOK
    <2>5. CASE ChkBegin \/ ChkLoop \/ ChkDiff \/ ChkTell \/ ChkDelete \/ ChkCall
        BY <1>1, <2>5 DEF ChkBegin, ChkLoop, ChkDiff, ChkTell, ChkDelete, ChkCall,
           ChkAdvance, LiveSlot, Shifting
    <2>. QED
        BY <1>4, <2>1, <2>2, <2>3, <2>4, <2>5 DEF ChkStep
<1>5. CASE Tick
    BY <1>0, <1>1, <1>5 DEF Tick, LiveSlot, Shifting, TypeInv, TypeOK, SlotType
<1>6. CASE UNCHANGED vars
    BY <1>1, <1>6 DEF vars, chkVars, LiveSlot, Shifting
<1>. QED
    BY <1>2, <1>3, <1>4, <1>5, <1>6 DEF Next

\* A removal takes no node out of the table but the one that this sweep has
\* reported and deleted from the JSON file.
THEOREM NobodyElseLeaves == Spec => OnlyReportedLeave
<1>1. RaceInv /\ [Next]_vars => LeaveReported
    BY StepUnlists, RaceNoted DEF RaceInv, LeaveReported
<1>. QED
    BY <1>1, RaceInvariant, PTL DEF Spec, OnlyReportedLeave
==============================================================================
