# TLA+ models of the air quality system

The repository holds the programs of an air quality network: sensor nodes that
measure PM2.5 and CO and send them over LoRa, a gateway (SMGW) that collects them,
computes an air quality index (AQI) per node and writes it to a file, and two
programs beside the gateway that answer SMS and exchange files with a server. This
directory holds TLA+ models of its concurrent and distributed parts, the TLC
configurations that check them, and TLAPS proofs about them.

Line numbers without a path are lines of `src/SMGW/MGW_Controller/mgw_controller.c`.

## 1. Inventory

The repository has no tests, and its README is a title; the code and its comments
are the reference.

| Component | State | Operations | Interacts with |
|---|---|---|---|
| Node program, `Node/User_Code/Services/LoRa/LoRa_Services.c`, `Node/Src/main.c` | `lps` (TX, RX, SLEEP), `retry`, `u8Count`, frame counter in EEPROM | boot and sample, transmit, standby and wake-up by reset, listen for the acknowledgement, retry | radio driver; gateway over the air |
| LoRa MAC frames, `LoRaMac_Node.c`, 537-662 | `macMsgData`, reused for each frame | set up, serialise, parse | node and gateway |
| Radio driver, `sx127x.c` | cached `State`, the chip's mode, IRQ flags and FIFO | change of mode, send, receive, channel activity detection | node program; chip over SPI |
| Detector UART `app.c`, circular buffer, job scheduler, GPS driver | small buffers and queues | interrupt callbacks, push and pop, set, clear and run jobs | not started by the application in this version |
| Gateway: receiver `thread_up`, 1411-1664 | concentrator's packets, `macMsgData`, `exit_sig`, `quit_sig` | fetch a batch, check, acknowledge, hand over to the table | concentrator (libloragw), node table |
| Gateway: node table, 129-176, 211-226, 345-432, 516-531, 1710-1735 | `gBufferNode[2]`, `bufferNodeIndex` | `update_to_node` (thread_up), sweep and removal (`check_error_node`), reads (`cal_and_write_to_file`) | shared memory between three threads |
| Gateway: AQI, 180-391 | twelve hourly means per node | mean, AQI of CO, nowcast and AQI of PM2.5 | node table |
| Gateway: file, 439-514, 1669-1705 | `/tmp/aqi_and_concentration.json` | create, write a record, delete an entry | two gateway threads write, SMS and client programs read |
| SMS service, `sms_receive.c` | modem, response buffer, a semaphore | answer messages, send the daily SMS | modem over a serial port, the JSON files |
| Client and server, `client_SMGW.c`, `server_Laptop.c` | address last sent, files | address handshake, file transfers on inotify events and once a day | each other over TCP, the JSON files |
| `ntp.c` | none | one request, set the date | |
| Prototypes and older copies (`mgw_controller_original.c`, `backup.c`, `Json_workspace/`, `sms.c`, `parse_msg.c`, `brige_program.c`) | | superseded | |
| Generated and vendored code (`Node/Drivers`, `Node/MDK-ARM`, `Node/Inc`, most of `Node/Src`) | | | |

Which behaviours are hard, and what makes each component correct:

- **Node table.** Two threads change the table and its length without a lock, and
  `mx_concent`, which one of them holds, guards the concentrator only. `bufferNodeIndex`
  is a plain `int`. Correct means: no access outside the array under any
  interleaving; a node has one slot; a slot holds its node's samples only; an
  acknowledged frame is stored unless the table is full of other nodes; only the node
  that was reported leaves; a silent node does leave.
- **File.** Both writers read, change and rewrite the whole file and only one of them
  takes a lock; the file is truncated before it is written; it survives the process.
  Correct means: readable except inside a rewrite; a record is one node's; entries
  belong to nodes in the table; updates that are lost are made good.
- **Link.** Frames and acknowledgements are lost and repeated, counters wrap, the node is
  reset after nearly every transmission, the gateway acknowledges at least a second
  before it stores, a bad packet ends a batch or the thread. Correct means: a counter
  is given up only for a frame the gateway took; counters are stored in order; the
  gateway goes on storing.
- **SMS.** Two threads write to one modem, five commands to an SMS, and read whatever it has
  answered a second later, again and again while it holds both OK and ERROR; answers come
  late, commands are refused and writes fail. Correct means: SMS do not mix; a message is
  deleted after its answer; messages are answered; neither thread keeps the other from the
  modem.
- **Radio driver.** The driver does not set a mode it believes the chip is in, the chip changes
  its mode and its flags by itself, and a transfer may fail at any point, upon which the function
  returns. Correct means: the cached state is the chip's; `STD_OK` of a function means what
  its name says; a call returns.
- **Frames.** One message structure is used for every frame, so a short frame leaves the rest of the
  frame before in it. Correct means: what is read is what was written; an acknowledgement is for the
  node whose frame it answers.
- **AQI.** `thread_up` moves the window of twelve hours while another thread computes from it, and
  reads past it. Correct means: the window is the history; the index is that of the history unless a
  store came between; a store that comes between does not make it leave its bounds; what was measured as
  PM2.5 is averaged and rated as PM2.5.
- **Client and server.** Each connects to the other, both may end and start, and every
  connection to one of the ports counts as an acknowledgement and truncates a file. Correct means: the
  client is acknowledged only if the server knows its address, and in the end; the file has the
  list's lines in order; a list that changes while it is being sent is sent again.

The hazards, line by line, are in `PROJECT.json`.

## 2. Modules

| Module | Models | Status |
|---|---|---|
| `NodeTable` | node table, `update_to_node` against `check_error_node` | checked, proved in `NodeTable_proofs` |
| `AqiFile` | the JSON file, its two writers, crashes | checked, proved in `AqiFile_proofs` |
| `Delivery` | abstract: what an increment of the frame counter promises | implemented by `LoRaLink` |
| `LoRaLink` | node program, air, `thread_up`, signals, restarts | checked, proved in `LoRaLink_proofs` |
| `LoRaMacFrame` | set up, serialise and parse a frame, in a message that is kept | operators; proved in `LoRaMacFrame_proofs` |
| `AirQuality` | a packet's way from `macMsgData` to the window, and the index computed from it | checked, proved in `AirQuality_proofs` |
| `Sx127x` | the radio driver against the chip | checked, proved in `Sx127x_proofs` |
| `SmsService` | `sms_receive.c`: `read_msg`, `send_daily`, semaphore, modem | checked, proved in `SmsService_proofs` |
| `ClientServer` | address handshake and list of users, ends and starts of both programs | checked, proved in `ClientServer_proofs` |

`NodeTable` and `AqiFile` share the table. `AqiFile` takes an addition to the table and
a removal from it as one step each, since `NodeTable` looks inside them, and looks
instead inside the writes to the file, which are instantaneous in `NodeTable`. `LoRaLink`
ends where `update_to_node` begins (`GwStore`), which is where `NodeTable` starts
(`UpReceive`). `AirQuality` extends `LoRaMacFrame` and looks at the values that `NodeTable` takes for
sets of nodes and `LoRaLink` for counters. `Sx127x` looks inside what is one outcome in
`LoRaLink`: a `Sx127x_SendData` that reports success or not.

Names in the modules are those of the code where there is one: `slot` is `gBufferNode`,
actions `Up...` are `update_to_node` or `thread_up`, `Chk...` are `check_error_node`, `Cal...` are
`cal_and_write_to_file`, `Gw...` are `thread_up`, `Node...` are `LoRa_MainProcess`.
Operators under a comment that begins with "Variation" are wrong on purpose: each
is an action with a plausible mistake in it and no part of the specification. Put in
place of the action they precede, they make the property named for them in
`PROJECT.json` fail, which is how we know that the property can fail.

### NodeTable

One action per access to shared memory; `bufferNodeIndex++` and `--` are a load and a
store (`UpLoad`/`UpInc`, `ChkLoad`/`ChkDec`), as the compiler emits them for a plain
`int`. A C data race is undefined behaviour; what we take as its possible outcomes are
the interleavings of these loads and stores. The copy of a slot by
`gBufferNode[j] = gBufferNode[j+1]` is one step.

Sample values are abstracted to the set of nodes whose samples a slot was given since
its counters were last reset (`from`); time stamps to ages in ticks, where
`MaxErr` ticks stand for `MAX_ERROR_TIMEOUT`. `upPc = "overrun"` is the state in which
`store_new_data` is about to write past `pm_data_now`: the model stops that thread there.
`stored` is a history variable: the slots the call under way has written its sample to. It
tells this frame's sample from earlier ones of the same node, which `from` does not, and is
what `FrameStoredOrTableFull` speaks of.

`overlap` is a history variable: it becomes `"seen"` once `check_error_node` was moving
slots, or the length, while `thread_up` was inside `update_to_node`. The properties that
are false after such a race have `RaceFree` (`overlap = "none"`) as their premise; those
that hold in spite of it (`TypeOK`, the index bounds of `AccessInBounds`) do not. The
run `node_table_first` shows the race, and that it is reachable.

### AqiFile

`entry[n]` is the set of nodes whose data the record with address `n` holds. A record is
read from the table one field at a time (five reads, `Fields`), the copy is changed, and
the file goes through `"empty"` on its way back to `"json"`. `access()` and `fopen` do
not tell an empty file from a good one; a parse of an empty file gives a NULL root,
with which parson serialises nothing, so that the rewrite does not take place. Which node is
silent is a free choice here (`ChkLoop`). `Crash` may come between any two steps; `torn`
records that one has left the file empty, `leftover` which entries were there when
the process started. `overlap` plays the part it has in `NodeTable`, for the windows
"from the test of `i` to the end of the rewrite" and "from the test of the age to the end
of the removal".

### LoRaLink and Delivery

A node's `"standby"` is the call of `HAL_PWR_EnterSTANDBYMode` at the end of the TX case
(`LoRa_Services.c:528`). From standby the node wakes by a reset (`NodeWake`): `retry`,
`u8Count` and `lps` start over, the counter is read from EEPROM again. The call returns only
if an interrupt is pending (`NodeStay`), and only then does the node listen. `OnAir` lets the
transmission arrive, arrive garbled, or get lost, and lets `Sx127x_SendData` report either
outcome. `GwAck` delivers an acknowledgement only to a node in RX.

`rxFifo` (packets in the concentrator) and the air are not code of the repository; they are
modelled from how `thread_up` and the node use them, and are marked external in
`PROJECT.json`, as are the file system's truncation, time and the supervisor that
restarts the process.

`Delivery` says that a counter goes on only when its frame was taken. The refinement
mapping counts a frame as taken when it was stored (`fresh = "handed"`), when the gateway
holds it between acknowledgement and `update_to_node` (`HoldsNew`), and when the
process died holding it (`"lost"`): the code acknowledges first and stores after
`wait_ms(delay)`, so more cannot be promised. `InOrder` says the same with `dropped` as its
exception.

### SmsService

`Rd...` actions are `read_msg`, `Day...` are `send_daily`. A command is one step
(`Command`): it is written, the modem executes or refuses it, and what was answered is read
into `respond`. An answer that comes too late waits in `line` and is read with the next
one; a refused command answers ERROR and does nothing, or gives up the SMS it was to end; if
the write fails `respond` keeps what it held. `trouble` counts the three and `MaxTrouble`
bounds them. AT and AT+CMGF=1, which do the same to the modem, are one step of `SendSms`.

The loop that reads the answer (`sms_receive.c:72-77`) goes round again while its buffer
holds both OK and ERROR (`ReadsOn`), and nothing takes either word out of it again. `reading` is
this loop: both threads hold the semaphore while they give a command, so once it is true the
other one waits for ever. A message with the word ERROR
in its text is enough, as AT+CMGL and AT+CMGR return it with a final OK; so is a late OK
in front of an ERROR. The properties of progress therefore have `NoErrorText` and a bound on
`trouble` as premises, and `EndlessCause` says that nothing else leads there. With two troubles
`DailySent` is false; the comments promise nothing of it, so no run shows it.

The modem and the SIM are external: an SMS is being entered from AT+CMGS to 0x1A, and
until then every command is taken for text (`Entering`) and only sent back (`Echo`). The code recognises responses
by their length, so an answer carries its length class: 20 for AT+CMGL without a
message, 16 for a command of nine characters that answers OK only. AT+CMGR=i for a free index
of one digit is one of these, and so are AT+CMGF=1 and AT+CMGD=i. `WideIndex` stands
for 10, the first index that makes them longer. `parse_msg` leaves its result
without a value if the response has no fields; what is read then is `Nobody`, no number
anyone has.

### LoRaMacFrame and AirQuality

`LoRaMacFrame` has the functions of `LoRaMac_Node.c` and of the gateway (537-662) as operators
from a message to a message. What a function leaves alone is in the result as it was in the
argument, and a function that returns early leaves what it had written so far.
`DevAddr` is its four bytes, since TLC has no words of 32 bits. The node's
`LoRaMac_SetUpACKMessage` has no caller and is left out.

`AirQuality` takes every frame of the instance, in any order, through one `macMsgData`:
the actions `Up...` parse it, acknowledge it, store its two numbers and end an hour, one
access to shared memory per step. `Cal...` are `cal_aqi_co`, `cal_aqi_pm25` and `cal_aqi`,
which read the same memory without a lock: the passes over the window are loops of one step per
element, and a store that comes between two of them sets `overlap`. At most
one does: a store takes a packet, and packets are a second apart.

Data: a number in the text of a payload is one byte; GP2Y's value is not negative (`main.c`
replaces negative values by 0), MQ135's may be; quotients are exact. `NUMBER_SAMPLE_PER_HOUR` is 1,
so `pm_data_now[0]` is both the mean of the hour and what follows `buff_12_h` in memory: the move
of the window reads it in place of the thirteenth element and then overwrites what it has read.
An index whose class was never set (`i` without a value, or the class behind the last) may be
any number of `Junk`.

The node prints dust (PM2.5) first and gas (CO) second, and `parse_pkg` reads CO first.
`StoredIsSent` does not judge this: it says that the two numbers stored are the two of this frame, whichever
is which. `SamplesKeepTheirKind` says which is which, by the comments on both sides, and
`air_quality_swap` shows that it is false from the first frame on.

The test at 306 compares a sum of three hours with each of them, under the comment that two of
three are zero (303). The code's test is `Missing`; what the comment says is `TwoZero`, and
`AqiOfHistory` uses that one. They differ where two hours cancel out, 40 and -40 say (`Cancel`), which the property leaves
open: the code then takes the two for zero. That this can be, as MQ135's value may be negative, is a
disagreement with the comment which the lemma `MissingHours` of the proofs states
(`Missing(h) <=> TwoZero(h) \/ Cancel(h)`); no run is spent on it.

What the model makes visible, without being a disagreement with anything the repository
says: with a weight below one half the weighted mean gives the *oldest* hour the
greatest weight, with the other branch the newest; a foreign packet of up to four bytes behind a
node's frame is taken for a repetition of that frame, and acknowledged and stored as one.

### Sx127x

Each SPI transfer that a property can tell from its neighbours is a step of its own, and may fail
(`STD_NOT_OK`), upon which the function returns where it stands; registers that no other step
reads (modem, power, frequency, network) are one step. Between any two steps the chip may finish a
transmission or a detection, or receive a packet. `State` is `settings.State`; `SetMode` writes
nothing if `State` is the mode wanted, and sets it only after both transfers of a mode with a
DIO mapping.

The chip is external, as its data sheet's part in the code has it: TX and CAD end in standby,
flags stay until they are cleared, the FIFO holds what was written last. History variables say what
a call's result is compared with: `sent`, `arrived` and `cadSaw` are what the chip did in
this call, and `clean` says whether an earlier transmission was over and had left no `TX_DONE`.
It may have: the driver does not clear the flag before a transmission, and that is the exception
of `SentWhenOk`.

### ClientServer

The threads are `sock_send_ip` and `sock_receive_link` with `write_file` on the gateway,
`sock_receive_ip` and `sock_send_file_user` on the server. A connection is a record: what is
in it that has not been read, and whether its sender still has it open. `ipQ` and `inbox` are the
connections to the two ports that were not accepted yet, the head being the one that is read.
Either program may end at any step and start again, the client with another address; what a
program held in memory is then gone, and its connections are closed.

What the model keeps because a property depends on it: any connection to port 7001 counts as the
acknowledgement and truncates the file, before it is known which of the two it is; the buffer of
`sock_receive_ip` is not cleared, so that a short address read over a long one is followed by the
rest of it (`Garbled`); an acknowledgement may be missed, for what the client's buffer held behind
it; a line may come in two parts, after which the following ones may print as nothing
(`skew`); `serverAddr` is set again only after a list has been sent; a socket once connected and kept
fails every later connect.

`send_file` takes the lines out of the stream's buffer, which `fgets` fills from the file, as it is
by then, before the lines in `Refill`; a tenth of a second passes with each line, and the
list may be written in between (`NextLine`). A list that is sent may thus be of two versions, and
`FileInOrder` says exactly where: only where the buffer was filled again.

What it does not: the list is written in one step, its versions have the same number of lines
and lines of the same length, and a buffer holds whole lines, so that a mixed list is one of whole
lines; `accept`, the status and `fopen` are one step, as are connect and write of an
acknowledgement; a full backlog makes a connect fail. The daily file of indices and the file of
silent nodes go the other way, over other ports and to other files, and are not modelled.

## 3. Runs

| Run | Instance | Distinct states | Shows |
|---|---|---|---|
| `node_table` | 3 nodes, 2 slots, 1 sample per hour, `MaxErr` 1, `MaxLag` 1 | 693,506 | bounds under every interleaving; one slot per node, own samples, frames kept, only reported nodes leave, silent nodes leave, without a race |
| `node_table_first` | 2 nodes, 2 slots | stops at the violation | a listed node is taken for a new one |
| `aqi_file` | 2 nodes, 2 slots, 1 crash | 101,066 | readability, ownership of records and entries, lost updates made good |
| `aqi_file_deleted` | 2 nodes, no crash | stops at the violation | a deleted entry comes back |
| `lora_link` | 1 node, 3 counters, batches of 2, 3 kinds of stray packet | 1,287,300 | refinement of `Delivery`, counters in order, the gateway goes on storing |
| `air_quality` | 2 nodes, 2 counters, 3 values of PM2.5 and of CO, windows of 3 hours, 4 kinds of foreign packet | 1,119,375 | what is stored is what was sent, acknowledgements reach their node, the window is the history, the index is that of the history and its mean stays in bounds |
| `sx127x` | 2 payloads, 2 failed transfers, 2 packets per call | 199,731 | `State` is the chip's, what `STD_OK` of sending, receiving and waiting for the channel means, that calls return |
| `client_server` | a long and a short address, 3 versions of a list of 2 lines with a buffer of one, 2 starts of each program, 2 waiting connections | 1,049,720 | who is acknowledged is known, the file has its lines in order and versions mix only where the buffer was filled again, the client is acknowledged in the end, a new list arrives |
| `air_quality_swap` | 2 nodes, 1 value each | stops at the violation | dust is stored as CO and CO as PM2.5 |
| `sms_service` | 1 number and a stranger, 6 kinds of message, 3 indices of one digit, 1 late answer, refused command or failed write | 806,508 | SMS do not mix, deleted when answered, what leads into the endless reading, all answered without it, an entry that was not ended is ended, both threads get the modem |
| `sms_gap` | 2 indices, 1 failed write | stops at the violation | messages behind a gap are not answered |
| `sms_wide_index` | 1 index of one digit, 1 of two | 9,551 | the loop over the indices does not end |

Bounds and why they are enough:

- `MaxNode = 2` and `Samples = 1` are the values of the code (`MAX_NUMBER_NODE`,
  `NUMBER_SAMPLE_PER_HOUR`). Three nodes are one more than fit, so that the table is full,
  a node is turned away, and freed slots change owners.
- Ages stop at `AgeCap = MaxErr + MaxLag + 1`, beyond which a sweep finds every slot
  silent. `MaxLag` bounds the ticks within one sweep: a frame may be newer than the
  time the sweep has read.
- One crash is enough for the file: a crash loses all memory, and the second one meets
  the same kinds of file as the first. Without a crash in `aqi_file_deleted` the violation is due
  to the two writers alone.
- Three counter values tell the frame before the current one, the current one and the
  next apart, and wrap within a run. Two packets per batch give one packet before and
  one after a bad one. One node: nodes share the gateway's single thread and the
  concentrator, and each has its own counter; a frame of another node takes up the place in
  a batch that a stray packet takes up here. What this leaves out is acknowledging one
  node's frame while another's is waiting.
- Three indices give a message before, at and after the one that is being handled, and one
  trouble can come at any command. `OneText`, `DeletedWhenAnswered` and `MessagesAnswered` are
  about runs without a trouble: after one they are false (`sms_gap`, or an SMS whose end was
  lost). `DailySent` and `EntryEnds` hold with one. With two, a late OK and an ERROR may meet and
  the reading not end; `EndlessCause` is checked with two troubles as well, on two indices (403,201
  states) and on three (3.1 million), which are too long to be repeated each time. Beyond the first
  index of two digits everything but `OneText` and `EntryEnds` is given up (`Narrow`), for
  the reason `sms_wide_index` shows. `send_daily` finds one number per day; it waits for the
  semaphore anew for each.
- Three hours give the move of the window an element at its beginning, in its middle and at its end,
  and the weights three different powers; a window of twelve differs in their number. The values lie in
  different classes of the index, below the first and above the last one among them; two
  counters, 1 and 512, differ in both bytes.
- One failed transfer leaves the driver and the chip apart, the second one comes in the attempt to
  bring them together again. Two packets are one that is being read and one that arrives meanwhile.
- Two starts give each program an end and a life after it, in which the other still has what it knew;
  the last start does not end. Three versions are the first one, one that is being sent and one that is
  made meanwhile. Two lines are a line before and one after a step of the other program, and with
  `Refill = {1, 2}` each of them is read from the file when it is sent. A run with lists of three lines and
  `Refill = {1, 3}` (1.78 million states), where the buffer holds two lines, passes as well; it is too
  long to be repeated each time.
- Deadlock is checked in every passing run but `air_quality`: there a malformed packet ends
  `thread_up`, as in the code, and nothing is computed any more.

Fairness. Safety runs use `Spec` without any. `FairSpec` adds weak fairness of each
thread's steps, which is what a preemptive scheduler gives to threads that take no lock
they could wait for for ever (`mx_concent` is held only across calls that return).
`NodeTable` adds weak fairness of `Tick`: time passes. `LoRaLink` assumes fairness of the
gateway only, including that `lgw_status` eventually reports `TX_FREE`; nothing is assumed
of the air or of the node. The exceptions are premises inside the properties: frames
that reach the concentrator again and again, a process that stays up, batches without a
bad packet (`KeepsStoring`); no race (`SilentNodeLeaves`); removals that end and no torn file
(`FileCatchesUp`).

`SmsService` adds strong fairness of the two `sem_wait`: a thread that posts the semaphore
sleeps before it waits again, three seconds in `read_msg` and one in `send_daily`, and
`sem_post` wakes the one that waits.

`Sx127x` assumes weak fairness of the driver and of the end of a detection, and strong fairness
of the timeout of `Sx127x_Wait4FreeChannel` (`WaitTimeout`): the tick counter goes on, so the loop
sees it past the timeout in the end. A transmission need not end, a packet need not come.
`ClientServer` assumes weak fairness of each of the four threads and nothing of what comes from
outside. `AirQuality` has safety properties only.

`SmsService` has no fairness for `ReadAgain`, which changes nothing. The premises inside its
properties, besides those above, are texts without the word ERROR (`NoErrorText`), indices of one digit
(`Narrow`) and the bound on `trouble`.

What the violated runs say, in full, is in the `findings` of `PROJECT.json`. Two disagreements
with a comment are in the models and have no run. `exit_sig` and `quit_sig` are commented to terminate the
application (66, 67): after a signal `thread_up` returns (`Signal`, `GwEnd`), but `main` stays in
its endless loop (1401) and the two other threads never read the flags. And the test for missing
hours (306) takes two hours that cancel out for zero, against its comment (303).

## 4. Proofs

All theorems hold for every value of the constants that satisfies the module's named assumption,
and TLC evaluates those assumptions in the runs.

| Module | Theorem | Statement |
|---|---|---|
| `NodeTable_proofs` | `TypeCorrect` | `Spec => [](TypeOK /\ Bounds)` |
| | `InBounds` | `Spec => []AccessInBounds` |
| | `OneSlotPerNode` | `Spec => []UniqueAddresses` |
| | `SamplesAreOwn` | `Spec => []OwnSamples` |
| | `FrameKept` | `Spec => FrameStoredOrTableFull` |
| | `NobodyElseLeaves` | `Spec => OnlyReportedLeave` |
| `AqiFile_proofs` | `FileTypeCorrect` | `Spec => []TypeOK` |
| | `FileReadable` | `Spec => []ReadableOutsideWrites` |
| | `EntriesHaveNodes` | `Spec => []EntryHasNode` |
| | `RecordsOfOneNode` | `Spec => []RecordOfOneNode` |
| `LoRaLink_proofs` | `LinkTypeCorrect` | `Spec => []TypeOK` |
| | `CountersInOrder` | `Spec => InOrder` |
| | `LinkDelivers` | `Spec => Delivers`, the refinement of `Delivery` |
| `LoRaMacFrame_proofs` | `DataRoundTrip` | the gateway reads from a frame what the node wrote |
| | `AckRoundTrip` | the node reads from an acknowledgement what the gateway wrote |
| `AirQuality_proofs` | `TypeCorrect` | `Spec => []TypeOK` |
| | `OnlySentIsStored` | `Spec => []StoredIsSent` |
| | `AckIsForTheSender` | `Spec => []AckReachesSender` |
| | `WindowHoldsHistory` | `Spec => []WindowIsHistory` |
| | `NowcastWithinBounds` | `Spec => []NowcastBounded` |
| | `IndexIsOfHistory` | `Spec => []AqiOfHistory` |
| `Sx127x_proofs` | `RadioTypeCorrect` | `Spec => []TypeOK` |
| | `StateIsTheChips` | `Spec => []StateAgrees` |
| | `SuccessMeansSent` | `Spec => []SentWhenOk` |
| | `ReceivedIsFresh` | `Spec => []FreshAndWhole` |
| | `SuccessMeansFree` | `Spec => []FreeWhenOk` |
| `SmsService_proofs` | `SmsTypeCorrect` | `Spec => []TypeOK` |
| | `SmsHasOneText` | `Spec => []OneText` |
| | `DeletedOnlyAnswered` | `Spec => DeletedWhenAnswered` |
| `ClientServer_proofs` | `ServiceTypeCorrect` | `Spec => []TypeOK` |
| | `KnownToServer` | `Spec => []KnownWhenOk` |
| | `FileKeepsOrder` | `Spec => []FileInOrder` |
| | `ShortListOfOneVersion` | with `Refill = {1}`, the lines of the file are of one version |

**NodeTable.** Two layers.
*With races:* `TypeOK` is not inductive: `bufferNodeIndex' = upTmp + 1` may exceed the
array unless the loaded value is known to be below `MaxNode`, and the two lost updates must
not add up. `TypeInv` adds what each program counter knows of the loaded values, of
the indices and of the slot the sample was written to (`stored`), in a form that survives whatever the other thread does to the length in
the meantime. This is where the bounds of `AccessInBounds` come from.
*Without races:* `RaceInv == TypeInv /\ (RaceFree => Quiet)`. `Quiet` is a conjunction
of named parts: the two windows exclude each other (`Excluded`); a search has passed only
slots of other nodes (`Searched`); what the slot being filled holds at each step
(`Filling`, `Updating`); what the slots hold while one is being removed (`Removing`); that the
address being removed is the reported one (`Reported`); that a new node still has room
(`RoomLeft`); and the two invariants themselves (`OneSlot`, `OwnOnly`). `overlap` never goes
back to `"none"`, so a step that ends without a race began without one. The action
properties follow from `RaceInv` in the first state of the step.

**AqiFile.** `FileInv == TypeOK /\ PlaceOK /\ ReadableOutsideWrites /\ (RaceFree => Quiet)`, in the
same two layers. `PlaceOK` says what each place of a writer knows whatever the other
does: the slot it reads is in use, and a file that is not JSON has no entries. `Quiet` adds that
nothing moves under a writer and that the copies both writers hold are as sound as
the file is, which is why writing one back keeps it sound.

**LoRaLink.** The packets that wait, the rest of the batch first and then the concentrator's, are one
queue (`At`, `Size`): every step drops packets at its head or adds one at its end (`Moves`).
`NodeInv(n)` has three parts. `Ordered`: the packets of `n` in the queue have its counter or the
one before, and those come first. `HeardOK`: when `n` has heard its counter acknowledged, nothing
older waits, and the frame was handed over, is held, or was lost with the process. `LastOK`: the counter
stored last is at most one behind what waits, or two while the one between is held. `Ordered` is why the
counter's wrap does no harm however small `CntMod` is: a packet two counters old cannot be waiting.
`InOrder` and the step simulation follow; `StepMaps` maps the two acknowledging steps to
`Take`, `NodeAccept` to `Advance` and everything else, crashes included, to a stutter.

**LoRaMacFrame.** For every address, counter and payload that fits, for messages with any sizes of
`Buffer` and `FRMPayload` (`Room`: a full payload fits behind the header), and whatever both held before.
The bytes come back by `x = 256 * (x \div 256) + x % 256` for each word. `ParseShape` says what the
parser makes of *any* bytes, well formed or not; `AirQuality_proofs` uses it for foreign packets.

**AirQuality.** The inductive invariant grows with what is asked of it, and each part uses the
ones before.

- `FrameOK`: `macMsgData` and `ack_msg` are messages whatever came before, and where a packet
  has been accepted they hold what the round trips of `LoRaMacFrame_proofs` say (`StoredIsSent`,
  `AckReachesSender`). The foreign packets are parsed byte by byte (`ForeignArrives`).
- `WInv` follows the move of the window element by element: those before the loop's index have been
  moved (`Moved`), those from it on have not (`Kept`). The values are left open here.
- `SlotOK` and `CalOK`: the types of the samples and of the calculation. The index stays within the
  table because the line through a class stays between the class's ends (`IndexOf`).
- `LatestOK` and `MeanOK`, for `NowcastBounded`: `Reach` is the set of hours that a
  calculation may have read. It may grow while the calculation runs and never loses one (`ReachGrows`),
  since at most one store comes between its reads. After `i` elements the weighted sum lies between
  every lower and every upper bound of `Reach`, times the share of the weights so far (`Within`).
  The mean of a window that was moved under the reader is thus still a mean of `Reach`.
- `AqiOK`, for `AqiOfHistory`: while no store has touched the calculation, `cmin` and `cmax` are the
  extremes of the elements read (`Extremes`), `up` and `down` the partial sums of the same terms as those of
  `RefNowcast` (`Summed`), and the index is what the tables make of them (`Outcome`).

Powers and sums are recursive functions. That such a function exists and obeys its equation
(`Recursion`, from which `PowerStep` and `SumStep`) is itself proved here, by induction over the *set* of the
numbers for which it holds (`NatSet`, from the well-foundedness of `<` on the naturals): the library's
induction theorems take an operator as parameter and cannot be used.

`AirAssumption` says that the values of `Dust` and `GasAbove` have a greatest element each, which
an ADC of 12 bits gives: `Sent` takes one pair, the greatest, for the numbers of other nodes.

**Sx127x.** `RadioInv`: which modes each function sets and where it goes on (`RouteOK`);
where the chip is known to be in the mode of `State`, which is everywhere until a transfer fails and
wherever the call has set the mode itself (`AgreeOK`); and, per function, what the flags say of
what the chip has done in this call (`SendOK`, `ReceiveOK`, `WaitOK`). `ReturnInv` follows at each return.

**SmsService.** `SmsInv`: the semaphore is 0 exactly while one thread is between its wait and its post,
and both never are (`ThreadsOK`, failures included); without a late answer, a refused command or a failed
write the holder is the one whose number and text the modem has (`EntryOK`), and the message at the
index is the one being answered (`AnswerOK`).

**ClientServer.** `ServiceInv`: an address the server has in a buffer was read by it, and a
waiting connection is to the client's present address, so that whatever sets the status to OK comes from a
server that knows it (`KnownOK`); at most one connection of a list is open (`InboxOK`); the cells
waiting in it are lines in their order that come before the next one to be sent (`ConnOK`), and what
was printed comes before what waits (`PrintedOK`).

Only model-checked are the liveness properties (`SilentNodeLeaves`, `FileCatchesUp`, `KeepsStoring`,
`MessagesAnswered`, `DailySent`, `EntryEnds`, `Returns`, `Acknowledged`, `ListArrives`), since
liveness under fairness and `ENABLED` are out of the prover's reach here, and the invariant
`EndlessCause`. Every other invariant, every action
property and the refinement that a passing run checks is stated by a theorem. No module declares a
`RECURSIVE` operator.

## 5. Not modelled

- *Detector board.* `detector_board` uses `hlpuart1`, which is never initialised: `main.c:106`
  initialises USART1 only. `HAL_UART_Receive_IT` (`LoRa_Services.c:418`) refuses, the callback with
  the unbounded index never runs, and the readers of its buffer are commented out.
- *Job scheduler, circular buffer, GPS.* Not started, not used, and not compiled in, in this version.
- *Rest of the node.* ADC and RTC set-up are straight lines without state; the temperature
  sensor's formula has no caller.
- *Daily and error files of client and server.* The same transfer as that of the list, the other way,
  with one connection per day.
- *Configuration and logs* are read once and written only. `FILE_ERROR_NODE` is appended to
  by `echo` and not read by the gateway; `NodeTable` keeps of it the address that was
  reported (`told`).
- `ntp.c` sends one request and sets the date. Prototypes and older copies are superseded.
- *Generated and vendored code*: ST's HAL and CMSIS are by far the largest part of the
  repository's lines, and not its own logic. Where the program depends on them, or on libraries that
  are not here (parson, libloragw), they are modelled from its use of them and marked external in
  `PROJECT.json`.

What is left to do: the two other transfers of client and server; a composition of `NodeTable` and
`AqiFile`, without the abstraction each makes of the other.

## 6. Running

    tlc -config NodeTable.cfg NodeTable.tla
    tlc -config AqiFile.cfg AqiFile.tla
    tlc -config LoRaLink.cfg LoRaLink.tla
    tlc -config AirQuality.cfg AirQuality.tla
    tlc -config Sx127x.cfg Sx127x.tla
    tlc -config SmsService.cfg SmsService.tla
    tlc -config ClientServer.cfg ClientServer.tla

and likewise for `NodeTableFirst.cfg`, `AqiFileDeleted.cfg`, `AirQualitySwap.cfg`
(of `AirQuality.tla`), `SmsServiceGap.cfg` and `SmsServiceWide.cfg`, which are expected to end in a violation.

    for m in *_proofs.tla; do tlapm $m; done
