----------------------------- MODULE AqiFile_proofs -----------------------------
(***************************************************************************)
(* Proofs about AqiFile, for every set of nodes, size of the table and     *)
(* number of crashes: the air quality file is readable outside the writes, *)
(* and as long as no removal overlaps a write, each of its records is one  *)
(* node's and that node is known.                                          *)
(***************************************************************************)
EXTENDS AqiFile, TLAPS

\* The slots in use hold addresses, and each thread's index is of such a slot; a
\* slot once used never loses its address, only to another one.
PlaceOK ==
    /\ \A i \in 0 .. bufferNodeIndex - 1 : nodeAddr[i] \in Node
    /\ ~Writing => calRead = 0 /\ calFrom = {}
    /\ Writing => calI < MaxNode /\ nodeAddr[calI] \in Node
    /\ calPc = "read" => calRead < Fields
    /\ Writing /\ calRead >= AddrField => calAddr \in Node
    /\ calPc \in {"parse", "truncate", "write"} => calRead = Fields
    /\ Removing => chkI < bufferNodeIndex
    /\ fileState # "json" => entry = NoEntry

\* The entries e are of known nodes, and each is its own node's.
Sound(e) == /\ \A n \in Node : e[n] # {} => Listed(n) \/ n \in leftover
            /\ \A n \in Node : e[n] \subseteq {n}

\* Nothing moves under a writer, and the copies are as good as the file.
Quiet ==
    /\ ~(Writing /\ Removing)
    /\ Writing => /\ calI < bufferNodeIndex
                  /\ calFrom \subseteq {nodeAddr[calI]}
                  /\ calRead >= AddrField => calAddr = nodeAddr[calI]
    /\ Sound(entry)
    /\ calPc \in {"truncate", "write"} => Sound(calCopy)
    /\ chkPc \in {"truncate", "write"} => Sound(chkCopy) /\ chkCopy[nodeAddr[chkI]] = {}
    /\ chkPc = "remove" => entry[nodeAddr[chkI]] = {}

FileInv == TypeOK /\ PlaceOK /\ ReadableOutsideWrites /\ (RaceFree => Quiet)

USE DEF Index, Fields, AddrField, tableVars, fileVars, calVars, chkVars, runVars,
        CalNext, CalGoto, ChkNext, ChkGoto, Writing, Removing, NoEntry

\* An empty table and no file.
LEMMA FileInit ==
    ASSUME FileAssumption, Init
    PROVE  FileInv
<1>1. TypeOK
    BY DEF FileAssumption, Init, TypeOK, Entries, CalPc, ChkPc
<1>2. PlaceOK /\ ReadableOutsideWrites
    BY DEF FileAssumption, Init, PlaceOK, ReadableOutsideWrites
<1>3. Quiet
    BY DEF Init, Quiet, Sound
<1>. QED
    BY <1>1, <1>2, <1>3 DEF FileInv

\* A frame of a new node takes the slot behind those in use.
LEMMA AddTyped ==
    ASSUME FileAssumption, TypeOK, PlaceOK, NEW n \in Node, UpAdd(n)
    PROVE  TypeOK' /\ PlaceOK'
    BY DEF UpAdd, TypeOK, PlaceOK, FileAssumption

\* cal_and_write_to_file reads only slots that hold an address.
LEMMA CalTyped ==
    ASSUME FileAssumption, TypeOK, PlaceOK, CalStep
    PROVE  TypeOK' /\ PlaceOK'
<1> USE DEF TypeOK, PlaceOK, Entries, NoteRace, FileAssumption, CalPc
<1>1. CASE CalStart
    BY <1>1 DEF CalStart
<1>2. CASE CalCreate
    BY <1>2 DEF CalCreate
<1>3. CASE CalFill
    BY <1>3 DEF CalFill
<1>4. CASE CalWake
    BY <1>4 DEF CalWake
<1>5. CASE CalLoop
    BY <1>5 DEF CalLoop
<1>6. CASE CalRead
    BY <1>6 DEF CalRead
<1>7. CASE CalParse
    BY <1>7 DEF CalParse
<1>8. CASE CalTruncate
    BY <1>8 DEF CalTruncate
<1>9. CASE CalWrite
    BY <1>9 DEF CalWrite
<1>. QED
    BY <1>1, <1>2, <1>3, <1>4, <1>5, <1>6, <1>7, <1>8, <1>9 DEF CalStep

\* check_error_node removes a slot in use; the others keep their addresses.
LEMMA ChkTyped ==
    ASSUME FileAssumption, TypeOK, PlaceOK, ChkStep
    PROVE  TypeOK' /\ PlaceOK'
<1> USE DEF TypeOK, PlaceOK, Entries, NoteRace, FileAssumption, ChkPc
<1>1. CASE ChkWake
    BY <1>1 DEF ChkWake
<1>2. CASE ChkLoop
    BY <1>2 DEF ChkLoop
<1>3. CASE ChkParse
    BY <1>3 DEF ChkParse
<1>4. CASE ChkTruncate
    BY <1>4 DEF ChkTruncate
<1>5. CASE ChkWrite
    BY <1>5 DEF ChkWrite
<1>6. CASE ChkRemove
    BY <1>6 DEF ChkRemove
<1>. QED
    BY <1>1, <1>2, <1>3, <1>4, <1>5, <1>6 DEF ChkStep

\* The process starts with an empty table.
LEMMA CrashTyped ==
    ASSUME FileAssumption, TypeOK, PlaceOK, Crash
    PROVE  TypeOK' /\ PlaceOK'
    BY DEF Crash, TypeOK, PlaceOK, Entries, CalPc, ChkPc, FileAssumption

\* Every step that truncates the file comes to the place from which it is written.
LEMMA ReadableStep ==
    ASSUME ReadableOutsideWrites, [Next]_vars
    PROVE  ReadableOutsideWrites'
<1>1. CASE \E n \in Node : UpAdd(n)
    BY <1>1 DEF UpAdd, ReadableOutsideWrites
<1>2. CASE CalStep
    BY <1>2 DEF CalStep, CalStart, CalCreate, CalFill, CalWake, CalLoop, CalRead, CalParse,
                CalTruncate, CalWrite, ReadableOutsideWrites
<1>3. CASE ChkStep
    BY <1>3 DEF ChkStep, ChkWake, ChkLoop, ChkParse, ChkTruncate, ChkWrite, ChkRemove,
                ReadableOutsideWrites
<1>4. CASE Crash
    BY <1>4 DEF Crash, ReadableOutsideWrites
<1>5. CASE UNCHANGED vars
    BY <1>5 DEF vars, ReadableOutsideWrites
<1>. QED
    BY <1>1, <1>2, <1>3, <1>4, <1>5 DEF Next

\* A new node is listed, and nobody reads the slot it takes.
LEMMA AddQuiet ==
    ASSUME FileAssumption, TypeOK, PlaceOK, Quiet, NEW n \in Node, UpAdd(n)
    PROVE  Quiet'
<1>1. \A m : Listed(m) => Listed(m)'
    BY DEF UpAdd, Listed, TypeOK, FileAssumption
<1>. QED
    BY <1>1 DEF UpAdd, Quiet, Sound, TypeOK, PlaceOK, FileAssumption

\* cal_and_write_to_file while nothing is removed: the address it writes is that of
\* its data, and is listed.
LEMMA CalQuiet ==
    ASSUME FileAssumption, TypeOK, PlaceOK, Quiet, CalStep, RaceFree'
    PROVE  Quiet'
<1> USE DEF RaceFree, NoteRace
<1>0. ASSUME UNCHANGED tableVars PROVE \A m : Listed(m)' <=> Listed(m)
    BY <1>0 DEF Listed
<1>1. CASE CalStart
    BY <1>1, <1>0 DEF CalStart, Quiet, Sound, TypeOK, PlaceOK, Entries
<1>2. CASE CalCreate
    BY <1>2, <1>0 DEF CalCreate, Quiet, Sound, TypeOK, PlaceOK, Entries
<1>3. CASE CalFill
    BY <1>3, <1>0 DEF CalFill, Quiet, Sound, TypeOK, PlaceOK, Entries
<1>4. CASE CalWake
    BY <1>4, <1>0 DEF CalWake, Quiet, Sound, TypeOK, PlaceOK, Entries
<1>5. CASE CalLoop
    BY <1>5, <1>0 DEF CalLoop, Quiet, Sound, TypeOK, PlaceOK, Entries
<1>6. CASE CalRead
    BY <1>6, <1>0 DEF CalRead, Quiet, Sound, TypeOK, PlaceOK, Entries
<1>7. CASE CalParse
    <2>1. CASE fileState = "json"
        <3>1. /\ calPc' = "truncate" /\ calCopy' = [entry EXCEPT ![calAddr] = calFrom]
              /\ UNCHANGED <<nodeAddr, bufferNodeIndex, entry, leftover, calI, calRead, calAddr,
                             calFrom, chkPc>>
            BY <1>7, <2>1 DEF CalParse
        <3>2. /\ calAddr = nodeAddr[calI] /\ calFrom \subseteq {calAddr} /\ Listed(calAddr)
              /\ calAddr \in Node /\ calI < bufferNodeIndex /\ ~Removing
            BY <1>7 DEF CalParse, Quiet, TypeOK, PlaceOK, Listed
        <3>3. \A m \in Node : calCopy'[m] = IF m = calAddr THEN calFrom ELSE entry[m]
            BY <3>1 DEF TypeOK, Entries
        <3>4. Sound(entry)' /\ Sound(calCopy)'
            BY <1>0, <3>1, <3>2, <3>3 DEF Quiet, Sound
        <3>. QED
            BY <3>1, <3>2, <3>4 DEF Quiet
    <2>2. CASE fileState # "json"
        BY <1>7, <1>0, <2>2 DEF CalParse, Quiet, Sound
    <2>. QED
        BY <2>1, <2>2
<1>8. CASE CalTruncate
    BY <1>8, <1>0 DEF CalTruncate, Quiet, Sound, TypeOK, PlaceOK, Entries
<1>9. CASE CalWrite
    BY <1>9, <1>0 DEF CalWrite, Quiet, Sound, TypeOK, PlaceOK, Entries
<1>. QED
    BY <1>1, <1>2, <1>3, <1>4, <1>5, <1>6, <1>7, <1>8, <1>9 DEF CalStep

\* check_error_node while nothing is written: the node's entry is gone before it is.
LEMMA ChkQuiet ==
    ASSUME FileAssumption, TypeOK, PlaceOK, Quiet, ChkStep, RaceFree'
    PROVE  Quiet'
<1> USE DEF RaceFree, NoteRace
<1>0. ASSUME UNCHANGED tableVars PROVE \A m : Listed(m)' <=> Listed(m)
    BY <1>0 DEF Listed
<1>1. CASE ChkWake
    BY <1>1, <1>0 DEF ChkWake, Quiet, Sound, TypeOK, PlaceOK, Entries
<1>2. CASE ChkLoop
    BY <1>2, <1>0 DEF ChkLoop, Quiet, Sound, TypeOK, PlaceOK, Entries
<1>3. CASE ChkParse
    <2>1. nodeAddr[chkI] \in Node /\ ~Writing /\ ~Writing' /\ Sound(entry) /\ Sound(entry)'
        BY <1>3, <1>0 DEF ChkParse, Quiet, Sound, TypeOK, PlaceOK
    <2>2. CASE fileState = "json" /\ InFile(nodeAddr[chkI])
        <3>1. /\ chkPc' = "truncate" /\ chkCopy' = [entry EXCEPT ![nodeAddr[chkI]] = {}]
              /\ UNCHANGED <<nodeAddr, bufferNodeIndex, entry, leftover, chkI>>
            BY <1>3, <2>2 DEF ChkParse
        <3>2. \A m \in Node : chkCopy'[m] = IF m = nodeAddr[chkI] THEN {} ELSE entry[m]
            BY <3>1 DEF TypeOK, Entries
        <3>3. Sound(chkCopy)'
            BY <1>0, <2>1, <3>1, <3>2 DEF Sound
        <3>. QED
            BY <2>1, <3>1, <3>2, <3>3 DEF Quiet
    <2>3. CASE ~(fileState = "json" /\ InFile(nodeAddr[chkI]))
        <3>1. /\ chkPc' = "remove" /\ UNCHANGED <<nodeAddr, entry, chkI>>
              /\ entry[nodeAddr[chkI]] = {}
            BY <1>3, <2>1, <2>3 DEF ChkParse, InFile, PlaceOK
        <3>. QED
            BY <2>1, <3>1 DEF Quiet
    <2>. QED
        BY <2>2, <2>3
<1>4. CASE ChkTruncate
    BY <1>4, <1>0 DEF ChkTruncate, Quiet, Sound, TypeOK, PlaceOK, Entries
<1>5. CASE ChkWrite
    BY <1>5, <1>0 DEF ChkWrite, Quiet, Sound, TypeOK, PlaceOK, Entries
<1>6. CASE ChkRemove
    <2>1. /\ chkPc = "remove" /\ chkI \in 0 .. bufferNodeIndex - 1
          /\ entry[nodeAddr[chkI]] = {} /\ ~Writing /\ ~Writing'
        BY <1>6 DEF ChkRemove, Quiet, TypeOK, PlaceOK
    <2>2. ASSUME NEW m \in Node, Listed(m) \/ m \in leftover, m # nodeAddr[chkI]
          PROVE  Listed(m)' \/ m \in leftover'
        <3>1. CASE m \in leftover
            BY <1>6, <2>2, <3>1 DEF ChkRemove
        <3>2. CASE Listed(m)
            <4>1. PICK j \in 0 .. bufferNodeIndex - 1 : nodeAddr[j] = m
                BY <3>2 DEF Listed
            <4>2. CASE j < chkI
                BY <1>6, <2>1, <4>1, <4>2 DEF ChkRemove, Listed, TypeOK, FileAssumption
            <4>3. CASE j > chkI
                <5>1. j - 1 \in 0 .. bufferNodeIndex' - 1 /\ nodeAddr'[j - 1] = m
                    BY <1>6, <2>1, <4>1, <4>3 DEF ChkRemove, TypeOK, FileAssumption
                <5>. QED
                    BY <5>1 DEF Listed
            <4>. QED
                BY <2>1, <2>2, <4>1, <4>2, <4>3
        <3>. QED
            BY <2>2, <3>1, <3>2
    <2>3. Sound(entry)'
        BY <1>6, <2>1, <2>2 DEF ChkRemove, Quiet, Sound, TypeOK
    <2>. QED
        BY <1>6, <2>1, <2>3 DEF ChkRemove, Quiet
<1>. QED
    BY <1>1, <1>2, <1>3, <1>4, <1>5, <1>6 DEF ChkStep

\* The entries found at the start are those left over.
LEMMA CrashQuiet ==
    ASSUME TypeOK, PlaceOK, Quiet, Crash
    PROVE  Quiet'
    BY DEF Crash, Quiet, Sound, InFile

\* Every step keeps the invariant.
LEMMA FileStep ==
    ASSUME FileAssumption, FileInv, [Next]_vars
    PROVE  FileInv'
<1>1. RaceFree' => RaceFree
    BY DEF RaceFree, Next, CalStep, ChkStep, UpAdd, Crash, vars, NoteRace, CalStart, CalCreate,
           CalFill, CalWake, CalLoop, CalRead, CalParse, CalTruncate, CalWrite, ChkWake,
           ChkLoop, ChkParse, ChkTruncate, ChkWrite, ChkRemove
<1>2. TypeOK' /\ PlaceOK'
    <2>1. CASE UNCHANGED vars
        BY <2>1 DEF FileInv, vars, TypeOK, PlaceOK
    <2>. QED
        BY <2>1, AddTyped, CalTyped, ChkTyped, CrashTyped DEF FileInv, Next
<1>3. RaceFree' => Quiet'
    <2>1. CASE UNCHANGED vars
        BY <1>1, <2>1 DEF FileInv, vars, Quiet, Sound, Listed
    <2>. QED
        BY <1>1, <2>1, AddQuiet, CalQuiet, ChkQuiet, CrashQuiet DEF FileInv, Next
<1>. QED
    BY <1>2, <1>3, ReadableStep DEF FileInv

LEMMA FileInvariant == Spec => []FileInv
    BY FileInit, FileStep, FileAssumption, PTL DEF Spec

\* TypeOK of AqiFile for every table and number of crashes: above all, no thread
\* takes data from a slot nothing was ever written to.
THEOREM FileTypeCorrect == Spec => []TypeOK
<1>1. FileInv => TypeOK
    BY DEF FileInv
<1>. QED
    BY <1>1, FileInvariant, PTL

\* ReadableOutsideWrites of AqiFile for every table and number of crashes: who opens
\* the file finds JSON except between a truncation and its write, or after a crash
\* there.
THEOREM FileReadable == Spec => []ReadableOutsideWrites
<1>1. FileInv => ReadableOutsideWrites
    BY DEF FileInv
<1>. QED
    BY <1>1, FileInvariant, PTL

\* EntryHasNode of AqiFile for every table and number of crashes: as long as no
\* removal overlaps a write, an entry is of a known node.
THEOREM EntriesHaveNodes == Spec => []EntryHasNode
<1>1. FileInv => EntryHasNode
    BY DEF FileInv, EntryHasNode, Quiet, Sound, InFile
<1>. QED
    BY <1>1, FileInvariant, PTL

\* RecordOfOneNode of AqiFile for every table and number of crashes: as long as no
\* removal overlaps a write, a record gives one node's address with its own values.
THEOREM RecordsOfOneNode == Spec => []RecordOfOneNode
<1>1. FileInv => RecordOfOneNode
    BY DEF FileInv, RecordOfOneNode, Quiet, Sound
<1>. QED
    BY <1>1, FileInvariant, PTL
=================================================================================
