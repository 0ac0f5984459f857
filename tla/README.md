# TLA+ models of canopen

Specifications of the Python package in `src/canopen`, the TLC
configurations that check them on small instances, and proofs that hold for all
instances. `PROJECT.json` maps every definition to the lines it models and
lists the runs, the findings, the hazards and the theorems.

Contents: [the system](#the-system), [inventory](#inventory),
[modules](#modules), [SDO transfers](#sdo-transfers), [NMT](#nmt),
[block transfers](#block-transfers), [network and nodes](#network-and-nodes),
[emergency messages](#emergency-messages), [LSS](#lss), [PDO](#pdo),
[drives](#drives), [runs](#runs), [proofs](#proofs),
[what the code does that its documentation does not say](#findings),
[what is left out](#what-is-not-modelled), [plan](#plan).

## The system

`canopen` is a CANopen master and a simple slave in one library. Everything
happens in a handful of threads:

- the application's threads, which call methods that send and then wait;
- one notifier thread per bus, python-can's. It calls `Network.notify` for each
  received frame and so runs every `on_...` method, including the whole SDO
  server and the command handler of a local node;
- one timer thread per periodic message (heartbeat, SYNC, PDO).

A request and its answer meet in a `queue.Queue` (SDO, LSS) or under a
`threading.Condition` (NMT, EMCY, PDO). Nothing else is locked: shared attributes are
read and written as they come. The bus delivers frames of one identifier in
order and may lose them; a send may raise `CanError`.

## Inventory

| component | state | operations | talks to | correct when | hard because of |
|---|---|---|---|---|---|
| SDO client, `sdo/client.py` | queue of responses; per stream: position, toggle bit, done | upload, download, abort, request with timeout and repetition | server, by frames; notifier fills the queue | a call that returns has moved one whole value of the object it named; every call ends | lost and late answers, repeated requests, close() after a failure |
| Block streams, `sdo/client.py` | sequence number, block size, CRC, current block | read, write, retransmit, close | a server device | the value that is read or stored is the value that was there or was written | retransmission, nested in a write that is itself a retransmission |
| SDO server, `sdo/server.py` | index, buffer, toggle bit of the only transfer; last error | one handler per request | `get_data`, `set_data` of the local node | stores whole values only, where the request said | transfer state outlives the transfer; local writes between segments |
| Local node, `node/local.py` | data store, callbacks | get_data, set_data, associate, remove | NMT slave, by a write callback | access rights, lengths and defaults are respected | applications and server share the store |
| Remote node, `node/remote.py` | SDO channels, NMT, EMCY, PDO objects | associate, remove, add_sdo, load_configuration | subscriptions of the network | what is associated is subscribed, what is removed is not | several channels, PDO subscriptions of their own |
| Network, `network.py` | subscribers, nodes, bus, notifier, scanner | subscribe, unsubscribe, notify, send, periodic tasks | everything | each subscriber gets each message once | notify walks lists that others change |
| NMT, `nmt.py` | assumed and received state of a node; heartbeat task of a slave | on_heartbeat, on_command, waits, state setter | frames 0 and 0x700 + node | heartbeat tells the state; master learns it; waits report what came | three threads of a slave; several waiters; state read outside the lock |
| EMCY, `emcy.py` | log, active errors | on_emcy, wait, reset | frames 0x80 + node | an awaited error that comes is reported | reset and wait in two threads |
| PDO, `pdo/base.py` | data, mapping, task, reception flag of a map | on_message, wait, start/stop/update, read/save, bit fields | SDO, frames | a variable reads what was written to it and disturbs no other | flag shared by waiters; configuration that fails half-way |
| LSS, `lss.py` | queue of responses | switch, inquire, configure, fast scan | frames 0x7E4, 0x7E5 | an answer belongs to its request; the scan finds a node that exists | late answers |
| DS402, `profiles/p402.py` | cached TPDO values | state and mode setters, homing | PDO, SDO | the drive passes only through states on the way to the target | status word changes while it is decoded |
| SYNC, TIME, `sync.py`, `timestamp.py` | periodic task | start, stop, transmit | network | at most one task runs | same as the heartbeat task |
| Object dictionary, EDS/EPF, variables | definitions of objects | encode, decode, import, export | all of the above | decode inverts encode | widths and signs |

## Modules

| module | models | extends |
|---|---|---|
| `SdoChannel` | SDO frames, the two COB-IDs, losses, failing sends | |
| `SdoServer` | `SdoServer.on_request` with its handlers; `get_data`, `set_data` | `SdoChannel` |
| `SdoClient` | `upload`, `download`, the raw streams, `request_response` | `SdoChannel` |
| `SdoTransfer` | both on one bus with two applications; properties | `SdoClient`, `SdoServer` |
| `AtomicObjects` | abstract: access to an object is one atomic action | |
| `SdoTransferProofs` | theorems: types, one request at a time, the ends agree, values are moved whole, objects hold starts of values, late answers do not mix values, each step is one of `AtomicObjects` or none | `SdoTransfer` |
| `NmtBase`, `NmtMaster`, `NmtSlave` | tables and frames; remote node's side; local node's side | |
| `Nmt` | a master and a slave on one bus; properties | `NmtMaster`, `NmtSlave` |
| `NmtProofs` | theorems about `Nmt` | `Nmt` |
| `BlockChannel`, `BlockUpload`, `BlockDownload` | frames; the two block streams | |
| `BlockServer` | external: a device that serves block transfers | `BlockChannel` |
| `BlockTransfer` | a transfer in either direction; properties | the three above |
| `BlockProofs` | theorems about `BlockTransfer` | `BlockTransfer` |
| `Network` | `Network`: callbacks, notify, bus and notifier; SYNC | |
| `NetworkNodes` | nodes that are added, replaced and removed; properties | `Network` |
| `NetworkProofs` | theorems about `NetworkNodes` | `NetworkNodes` |
| `Emcy` | `EmcyConsumer` and what arrives; properties | |
| `EmcyProofs` | theorems about `Emcy` | `Emcy` |
| `Lss` | `LssMaster`; external: the slaves; properties | |
| `LssProofs` | theorems about `Lss` | `Lss` |
| `Pdo` | a `PdoMap` in use, `PdoVariable`; properties | |
| `PdoSetup` | `PdoMap.read` and `save`; external: a device; properties | `Pdo` |
| `PdoProofs` | theorems about `PdoSetup` | `PdoSetup` |
| `Drive402` | `BaseNode402.state`, `reset_from_fault`; external: a drive; properties | |
| `Drive402Proofs` | theorems about `Drive402` | `Drive402` |
| `MC...` | small instances for TLC of the module behind `MC` | |

A definition named "Mutant" in its comment is a bug that somebody could make in
the definition below it. It is not part of the specification; putting it in place of
the real definition breaks the property that `PROJECT.json` pairs it with.

## SDO transfers

A frame is a record whose `kind` is the command specifier. Index and sub-index
are one object; a value is a sequence of bytes. `SegLen` and `ExpLen` stand for
7 and 4 bytes.

**Server.** `on_request` runs in the notifier thread, one frame at a time, so
each handler is one atomic action, with its answer. `srvIndex`, `srvBuffer`,
`srvToggle` are `_index`, `_buffer`, `_toggle`. A handler whose answer cannot be sent
has changed its state already, and `on_request` answers with an abort instead, or with
nothing if that cannot be sent either (`SendResponse`); `abort()` packs `_index`, so before the first transfer nothing is
sent (`AbortTransfer`). An abort from the client is recorded and changes
nothing else, which the code's own transfers depend on later.

**Client.** One application thread, in `pc`: `idle` between calls, `io` between
two calls of the raw stream's methods, `send` about to send a request, `wait` in
`queue.get`. The notifier appends to `responses`. `request_response` empties the
queue before the first attempt only. The guard of each action that takes a
response is the code's comparison of it, and every mismatch has the code's
reaction: abort and raise, or raise only. When a method raises, the stream is closed
all the same, by the `with` statement or by the finalizer of a stream whose
`__init__` raised; for a segmented download this sends one more, empty, last
segment (`Raise`, `CloseStream`). In the model the finalizer's segment goes before whatever the caller does about the exception;
CPython may run the finalizer only when the caller has handled it.

**Composition.** `Prompt` says that no answer takes longer than
`RESPONSE_TIMEOUT`; a wait then times out only if a frame was lost. Without it
a wait may time out at any moment. Two applications: the client's makes one call
after another, the server's writes objects at any time. Two history
variables say which values an object had during the call and what the server
stored during it.

**What must hold.** Promptly answered, a returned upload is one value the object had
during the call (`UploadReadsOneValue`), although the server's application may
replace the value between two segments; a returned download was stored whole
(`DownloadStored`); between
exchanges the two ends agree on object, toggle bit and position (`InStep`);
at most one request is unanswered (`OneOutstanding`); reading stores nothing
(`UploadStoresNothing`); what the server refuses raises in the client
(`RefusedDownloadRaises`). Answered late, the answers of one abandoned call are still not
mixed with those of the next (`UploadNeverMixes`, of a call and at most one before it, without repeated requests),
and while no frame is lost and no send fails no object comes to hold bytes of two values
(`StoreHoldsPrefixes`). Always, calls end (`CallsEnd`).
Without losses, the whole implements `AtomicObjects`: the refinement mapping
takes the server's action as the moment of access, and the value picked up is what
the client has, plus what is in flight, plus what is left in the server's buffer.

## NMT

**Master.** `mState`, `mReceived` are `_state` and `_state_received`.
`on_heartbeat` holds the lock for its whole body and is one action. A waiter
clears and waits under the lock; what it reads after the wake-up it reads without
it, so that is a step of its own. Time is a flag per waiter: the time it may
spend is over, or not yet.

**Slave.** Its methods run in two threads without a lock: every access to a shared
attribute is a step (`thread[t].pc` names the next one): reading the state,
updating the message, stopping a task, forgetting it, starting a new one,
storing it. `running` and `payload` are python-can's tasks. `Overlap` says whether
both threads may be inside at the same time. `unsent` is history: the last change of the
state ended in the exception of a boot-up message that could not be sent, and the
heartbeat was not updated any more.

**What must hold.** Between two calls the heartbeat message holds the state
(`HeartbeatTellsState`, but for `unsent`) and no task runs that the slave cannot stop
(`NoStrayTask`), when the threads take turns; a wait that returns saw a message
that came after it began and a lone waiter misses no heartbeat (`WaitsReportTruly`);
waits end (`WaitsEnd`); once nobody sends commands
any more the master comes to show the slave's state (`MasterLearnsState`).

## Block transfers

The library's server refuses block requests, so the other end is a device,
modelled from what the client expects and what `test/test_sdo.py` records. The
value is the sequence of its segments and a CRC is the sequence it was computed
over, so that the CRC is an ideal one. `trouble` records what went wrong:
losses, late answers, failing sends, refusals; all together are
limited by `MaxTrouble`.

`BlockUpload` follows `read`, `_retransmit`, `_ack_block`, `_end_upload`, `close`.
`BlockDownload` follows `write`, `send`, `_block_ack`, `_retransmit`, `close`; because `_retransmit`
calls `write`, which may call `_retransmit`, the pending writes are a stack
(`todo`). The value fits the buffer of the `BufferedWriter`, which then writes
all of it in `close()`.

**What must hold.** With a CRC an upload that returns is whole
(`CheckedUploadIsWhole`); a download is stored whole or not at all, and `ok`
means stored (`DownloadStoresWhole`); one lost segment whose loss shows is
repaired (`OneGapIsRepaired`); every transfer ends (`TransfersEnd`), however
retransmissions nest.

## Network and nodes

A subscription is a pair of a CAN ID and a callback; a callback is its owner and its
service. `notify` walks a list that others may shorten or lengthen meanwhile, so
each callback it calls is a step (`walk` is the position of Python's list iterator, in
the live list), a callback may raise, and what was subscribed when the frame came is
kept as history. The application is one thread; a call of it is a list of
instructions (`pending`: remove, unsubscribe, list, associate, subscribe ...), done one at a time, so that
frames are handed out between any two. An instruction that raises ends the call.
Buses are numbered, so that a notifier can be told to read an old one.

**What must hold.** Between two calls a node's services listen where it belongs and nowhere else
(`SubscribedWhereAtHome`), a network lists its own nodes, but for those it refused
(`ListsItsNodes`); a frame reaches each subscriber once, but for one lost call for each
callback that is removed during the walk (`EachIsCalledOnce`). After `connect()` a live thread reads the
present bus until it dies or `disconnect()` is called (`ConnectedMeansReading`): `linked` is the history of
that, `on` between the two and `broken` from the death of a notifier to the next `disconnect()`, since `connect()` keeps a dead
notifier and the bus stays unread. What makes the property worth checking is `disconnect()`: on a dead notifier it
raises, and must forget it all the same for the next `connect()` to start another.

## Emergency messages

`on_emcy` holds the lock and changes `active` and `log` one after the other;
`reset` takes no lock and does the same. A wait is four steps: it remembers the size of the
log, waits, compares the size, reads the last entry. History: what was logged during each
wait, whether it was reset.

**What must hold.** A wait returns a new message with the awaited code, or
nothing after its time (`WaitsTellTheTruth`); active errors are those since the last
error reset, unless `reset` met a message halfway (`ActiveAreUnreset`); waits end
(`EmcyWaitsEnd`).

## LSS

A call of the master is a list of messages that it sends one after the other, and for some
takes a response. Slaves are external, as CiA 305 has them; each of them answers for itself and has its own
order of answers. A number is the set of the positions of its ones, an identity a few
such numbers. The queue is emptied before each message. Where the code sleeps before a message (`slow`), late answers
usually arrive in time to be dropped with it; but a fast scan sleeps 10 ms and a selection 0.2 s, a slave may take 0.5 s, so that the
sleep may be over before all answers have come (`Overtakes`, history `late`).

**What must hold.** A scan returns the identity of a slave and leaves this slave, alone,
selected (`FoundIsSelected`), as long as every answer to one of its messages comes before the sleep behind it is over; otherwise it may
return an identity that no slave has (`FoundIsASlave`, a finding). With no loss it finds the lowest identity that takes part (`ScanFindsLowest`);
the other calls report what is so (`ReportsAreTrue`), unless an answer to an earlier call of the
same kind is still under way as they begin (`unmistakable` is the history of that): nothing tells
it from the new one.

## PDO

A message is the set of the positions of its ones; a variable lies at an offset, has
a length, and is taken from a window of the size of its type (`Window`, `Field`, `Merged`).
`on_message` holds the lock and is one action; a wait begins under the lock and reads
`is_received` and `timestamp` after it was released (`EndWait`), while another one may begin.

`read` and `save` are lists of SDO transfers, done one at a time (`app.todo`), each of
which is done, refused, or gets no answer (whether or not the device got the request). `on_message` sets `period`
with the second reception, and `start` raises without one.
The device is external: it accepts writes in any order (*lax*); or changes a mapping only
while the PDO is invalid and the count is 0 (*strict*, as CiA 301 demands); or has a read-only
count (*fixed*), for which the code fills the map with dummies. COB-ID, transmission type
and one timer stand for all parameters.

**What must hold.** A wait returns the time stamp of a message that came during it, and
nothing only after its time or if another thread took the flag away
(`PdoWaitsTellTheTruth`; that this happens is the finding `NoneMeansTimeout`); a variable reads as it was written, whatever is written beside it, and
the periodic message carries it (`ReadsAsWritten`, for fields that are `Sound` and values that fit and are not the most negative
number, of which `NegativesAreRead`, a finding, speaks); after `read` or
`save` returned, map and device agree, offsets included (`AgreeAfterSuccess`); a PDO that is valid on the
device has the whole old setup or the whole new one (`OnlyWholeSetups`).

## Drives

A status word has the seven bits that `SW_MASK` looks at. The `state` property reads it anew
for each mask (`call.mask` counts them) and each read may see another one; the setter reads the state anew for
each decision. Words arrive by a periodic TPDO, by one on events, or by SDO (`way`). `check_statusword` waits for a
TPDO that `is_periodic` (`WaitForTpdo`, then `Received` or, with a `RuntimeError`, `TimedOut`), else it uploads the word (`Uploaded`). A TPDO on events
becomes periodic for the code with its second reception (`heard`), since `PdoMap.on_message` then sets a period; from then on
the wait is for a message that only news would send. The drive
obeys the command it has, when it likes, and may change its state on its own (`MaxMoves`).

**What must hold.** A request to come down takes the drive no higher than one step beyond the
target (`OneStepTooFar`); on a calm drive that is heard the setter gets to its target and raises
nothing but, with a TPDO on events that was received twice, the `RuntimeError` of a wait in vain (`CalmCallsSucceed`);
calls end (`DriveCallsEnd`). That such a TPDO is awaited at all, and that the command `DISABLE VOLTAGE` switches power
on, are findings (`EventsAreNotAwaited`, `VoltageIsDisabled`).

## Runs

Runs marked *finding* look for a counterexample to a sentence of the code's comments or
documentation and find it (see the findings); all others pass.

| run | instance | question |
|---|---|---|
| `SdoPrompt` | 2 objects, values of 1, 3, 5 bytes, 2 calls, 2 losses, 2 failed sends, 1 local write, `MaxRetries` 2 | one whole value, in step, one request at a time, calls end |
| `SdoLate` | late answers, 2 calls, no losses, 1 failed send, `MaxRetries` 1 | one abandoned call spoils no value of the next |
| `SdoAtomic` | no losses; a 2-byte number without a value, a read-only object, a missing one; values of 0, 1, 2, 5 bytes | refinement of `AtomicObjects`, liveness included; what is refused raises |
| `SdoWrongObject` | 1 loss | *finding* |
| `NmtNode` | four scenarios: commands of two masters, of the slave's application, writes of 0x1017, 1 or 2 waiters, 1 failed send | heartbeat, tasks, master's knowledge, waits |
| `BlockRepair` | 5 segments, blocks of up to 3, 3 troubles, with and without CRC | whole values, repair, end |
| `BlockSilent` | no CRC, 1 trouble | *finding* |
| `NetworkNodes` | 2 networks, 2 remote nodes with one id, 1 local node; three scenarios | subscriptions, delivery, buses |
| `EmcyWaits` | 3 messages of 2 codes or error reset, 2 waiters or 1 and a reset | waits, active errors |
| `LssCalls` | 2 slaves, identities of 2 parts of 2 bits, 3 calls, 1 lost answer | scan, selection, reports |
| `PdoMaps` | a signed and an unsigned variable, bytes of 2 bits; writes, waits, or two calls with one failure on three kinds of devices | waits, bit fields, whole setups |
| `Drive402Calls` | any number of calls, 1 move of the drive's own, three ways to see the status word | steps on the way, success, end |

**Bounds.** Every bound is a constant of that name, or a field of `Budgets` whose
elements are scenarios: TLC checks all of them in one run.

- *Lengths.* With `SegLen` 2 and `ExpLen` 1, values of 1 to 5 bytes are expedited,
  one full segment, two and three segments, with full and partial last
  segments; both values of the toggle bit occur twice. Longer values repeat this.
- *Calls.* Two calls: what one transfer leaves behind meets the next. State left by the
  first call is overwritten or reused by the second. A third one finds nothing new while answers
  are prompt; on a late bus it does (see the findings), and `UploadNeverMixes` speaks of two calls without repetitions. Three
  for LSS, where a selection goes before a call and late answers come behind it.
- *Losses.* Two, so that a repeated request may be lost as well, and the abort
  behind it. Two failed sends: with `MaxRetries` 2 a request of the client then finally fails, or the server neither
  answers nor aborts. Late answers and losses are not combined: a late answer is worse than a
  lost one.
- *Objects.* Two without a fixed size in `SdoPrompt`; kinds of objects in
  `SdoAtomic`. These runs are apart for a reason, see the findings.
- *Blocks.* Two regular blocks; retransmission moves the limits and makes more.
  Three troubles suffice for a retransmission in a retransmission and an answer that is late
  on top.
- *NMT.* Two waiters, since it takes two to steal a message; two tasks at a
  time; one frame under way before a timer adds
  another (`MaxInFlight`), because timers would flood the bus otherwise.
- *Network.* Two nodes of one id meet in both networks; three calls add, replace and remove.
  One frame is enough for a walk, two with buses that come and go.
- *LSS.* Two slaves: one that answers and one that disturbs. Two bits and two parts have
  every branch of the scan, once more for the wrap-around from the last part to the first.
- *PDO.* Bytes of two bits: fields of one, two and three bits, at an offset and across bytes.
  Three entries hold two variables and a dummy. Two calls: one that fails, and one that
  finds what it left.
- *Drives.* States and commands are finite, calls unbounded. One move of the drive's own puts it
  into any state at any point of a call; more moves repeat this.
- `CHECK_DEADLOCK FALSE`: with all calls made and nothing under way, the
  systems really stop. A caller of a drive never runs out of calls, so `Drive402Calls` checks deadlock.

**Fairness.** Weak fairness of the application's thread, the notifier and the
server: threads are scheduled and `queue.get(timeout)` returns. Time passes. A running
periodic task sends again and again: strong fairness, since a full
bus disables the timer for moments only. Drives obey a command at last and are heard at last.
Nothing is assumed about applications
beginning calls, or about the bus losing or not losing frames: the bounds make
troubles finite, as real ones are taken to be.

## Proofs

The theorems hold for all dictionaries, values, lengths, retries, numbers of threads, nodes and
slaves, and bounds that meet the named assumptions of the modules. TLC has checked each
invariant below on the instance of the component's run as well. Where a theorem needs more than the
assumptions it says so in its statement: `Prompt`, `~Overlap`, `RefusedOnce`, `Calm`; each of them is a
value of the constants that a run has, and without it a finding below breaks the property.

**SDO, types and exchanges** (`SdoTransferProofs`).

- `TypeCorrect`: `Spec => []TypeOK`, on prompt and late buses alike. `TypeOK`
  is inductive as it stands. The work is in the frames: what a handler decodes has the
  type of what a constructor built (`RequestFields`, `ResponseFields`), and a
  segment cut from a buffer or a value is a sequence of bytes again.
- `OneAtATime`: `Prompt /\ Spec => []OneOutstanding`.
- `ReadingIsSafe`: `Prompt /\ Spec => []UploadStoresNothing`.

The last two share `IInv == TypeOK /\ Exchange /\ OnlyUploads`. `OneOutstanding` alone does not survive the next
`SendRequest`: `Exchange` adds that nothing is unhandled, on its way or unread unless
the client waits (`Quiet`). `UploadStoresNothing` says nothing of requests that are yet to be
handled: `OnlyUploads` adds that, during an upload, the current request and all
unhandled ones are upload requests. It needs `Exchange`, or a segment of the last download could
still be under way when an upload starts. Both need `Prompt`: a timeout then
finds both directions empty (`TimeoutPossible`). On a late bus both properties fail.

**SDO, values** (`SdoTransferProofs` too, all with `Prompt`).

- `EndsAgree`: `InStep`.
- `UploadIsOneValue`: `UploadReadsOneValue`.
- `DownloadIsStored`, `RefusalRaises`: `DownloadStored` and `RefusedDownloadRaises`, if `RefusedOnce`: nothing is repeated or
  no object has a fixed size. Else a refused last segment that is repeated is appended twice (findings).

`ValueInv` follows a call from phase to phase; a phase is the request being exchanged (`UploadInit`, `UploadSeg`,
`DownloadInit`, ...). It says what the server holds *before and after* it has handled the request, and which
answers may be under way: for an upload, that the bytes read, those in the answer and those left in the server's buffer make up a value the
object had during the call (`Left`); for a download, that the buffer is the value up to the position of the stream
or up to the end of the segment (`Untaken`, `Taken`). The toggle bit tells the two apart, which is the reason that a repeated
segment is neither skipped nor stored twice. The assumption `NoCallAssumption` keeps the marker of "no call" out of the calls.

**SDO, what objects hold** (`SdoTransferProofs`), prompt or late.

- `ObjectsHoldStarts`: `StoreHoldsPrefixes`, if `RefusedOnce`.

`SessionInv` speaks of the whole queue to the server, since calls may be given up while their requests are still under way. A
*session* says which bytes of which value the server has, or that nothing will be appended to what it has. Each frame leads from one session to the
next (`Follows`): a first request begins one, a segment is the next one of its session, or it is repeated and its toggle bit
is the old one. The server's state is that of the session before the first frame (`InSession`), the client asks in the session behind the last
one (`Asks`). So a step of the client appends a link (`LinkedAppend`) and a step of the server takes one (`LinkedTail`). A lost frame breaks the
chain, and so does `close()` after a first request that could not be sent, which is why the property excepts both.

**SDO, what late answers do** (`SdoTransferProofs`), prompt or late, whatever is lost.

- `UploadsDoNotMix`: `UploadNeverMixes`.

`LateInv` speaks of the calls that the property covers: the first one, and an upload with one call before it (`Covered`). Before the first call
everything is empty (`IsNew`). As requests are sent once, the first call has one frame under way at a time (`OneAtOnce`), so what it leaves for the
second is that of its last exchange, or that and the requests of `close()`: an abort, the empty last segment. From there on the queues only thin out
(`Thinned`), except for what the second call adds behind. Hence two facts about order (`Ordered`): no segment request, and no answer to one, comes behind the first
request of an upload, or the answer to it, that the upload could take for its own; and whoever is given such an answer finds the server at the start of a value.
While segments are read (`ReadsInv`), the bytes read and those that the server still has make up the start of a value, with the bytes of the answer between them
if one is under way; the toggle bits say which. `WritesInv` says of a first download that what
it leaves behind is the start of its value. The property speaks of `MaxRetries = 1` and of two calls because with a repetition or a third call none of this holds (findings).

**SDO, refinement** (`SdoTransferProofs`).

- `TransfersAreAtomic`: `Calm /\ Spec => Atomic!Init /\ [][Atomic!Next]_(Atomic!vars)`, where `Calm` says that answers come in time and
  nothing is lost. It is the safety part of the property `ImplementsAtomicObjects` that `SdoAtomic` checks.

`CalmInv` adds to `ValueInv` that a call's request is either still to be handled or has been answered (`Progress`), and in that case by
the answer that fits (`Fits`). `Stages` derives from it in which phase `AtomicObjects` then is and which answer it holds; each action
is then shown to lead from a stage to the next or to the same. The abstract step is the server's: taking over the
first upload request, or the last segment.

**NMT** (`NmtProofs`).

- `NmtTypesHold`: `TypeOK`; no unknown command code becomes a state.
- `NmtWaitsAreTrue`: `WaitsReportTruly`, for any number of waiters. `WaitInv` adds that what is in `_state_received` came during the
  wait of everyone who waits (`ReceivedIsHeard`, since each of them cleared it) and that nobody clears what a lone waiter for a
  heartbeat has not seen (`NothingLost`).
- `HeartbeatIsTrue`, `NoTaskIsLost`: `HeartbeatTellsState` and `NoStrayTask`, if `~Overlap`. `TaskInv` says for each place a
  thread may be at inside a method which tasks run and what they tell (`Stage`). With `Overlap` both properties fail (findings).

**Block transfers** (`BlockProofs`), for any number of segments, any block sizes and any number of troubles:

- `BlockTypesHold`: `TypeOK`, from `BlockInv`: what the server counts never exceeds the segments there are (`ServerInv`), and a block is
  never longer than the position of the stream, so that a retransmission does not go back behind the start (`DownloadInv`).
- `CheckedUploadsAreWhole`: `CheckedUploadIsWhole`. The CRC under way is always the one of the value (`TrueResponses`), and a stream
  whose CRC agreed has the value (`UploadInv`). The sequence numbers are not needed, which is why the theorem holds although the
  resynchronisation may read wrongly (findings).
- `DownloadsAreWhole`: `DownloadStoresWhole`, from `WholeInv`. The writes under way, those of nested `_retransmit`s included, are together
  what is left of the value (`WritesLeft` in `StreamInv`). While the server receives, client and server count from the same place
  (`SamePlace`): a segment whose number is the next one is the next one of the value (`Fitting`), and a lost segment leaves the others
  without effect. The segment that ends a block is the last one under way (`EndsLast`), so a block is answered once and its answer
  says how far the server is (`Answered`). That there is one transfer only (`OnceInv`) and that its first request is handled
  before anything else is sent (`InitInv`) excludes that the server starts again in between.
- `GapsAreRepaired`: `OneGapIsRepaired`. `RepairInv` says, as long as nothing went wrong or one segment was lost, in which stage a transfer is
  and what it has by then; there are nine stages of an upload (`Uploading`) and ten of a download (`Downloading`), and every action leads from a
  stage to a stage. What is under way is a run of the value's next segments, possibly behind those that were given up (`Comes`). A lost segment
  leads from `ReadsBlock` to `MissesSegment`, from there to `AsksAgain` once another one shows the gap, and back; or from `WritesBlock` to
  `SegmentMissed`, `GapAnswered` and back. A second loss is not a stage, and in no stage does a call wait in vain. That the
  whole value is stored follows from `DownloadsAreWhole`.

**Network and nodes** (`NetworkProofs`), one invariant, `Inv`:

- `NetworkTypesHold`: `TypeOK`.
- `ConnectedIsRead`: `ConnectedMeansReading`, from `BusInv`: a notifier reads the present bus or none; a dead one is kept only while
  the connection is broken, and while it is not there is a bus and a notifier that reads it. So `disconnect()` has to forget a notifier whatever it raises.
- `AllAreCalled`: `EachIsCalledOnce`. `WalkInv` counts: the callbacks that the walk has not called and will not come to
  (`Missed`) are no more than the removals during it; without a removal those called are the list's first ones. It needs that no callback
  is in a list twice (`NoDoubles`).
- `ListenWhereAtHome`, `ListedAreAtHome`: `SubscribedWhereAtHome`, `ListsItsNodes`. Both are about states between calls, so the invariant speaks of
  the instructions that a call has left: their order and which of them must follow (`ProgramInv`), that a callback
  listens, or will be made to, or its node is leaving (`ListenInv`), that a node is listed at home unless the next instruction changes
  this (`ListingInv`).

**Emergency messages** (`EmcyProofs`).

- `EmcyWaitsAreTrue`: `WaitsTellTheTruth`, for any number of threads.
  The invariant adds to it that whatever lies in the log behind the size that a waiting thread remembers
  came during its wait, or, once the log was reset, all of it (`NewCame`); and that a
  thread that is awake before its time has such an entry (`HasNew`). A reader of the last entry
  therefore finds a new one, or a log that was reset.
- `ActiveIsTrue`: `ActiveAreUnreset`; `ActiveInv` says the same of the moment between the change of `active` and that of the log.

**LSS** (`LssProofs`), for any number of slaves and identities of any shape, one invariant, `Inv`:

- `ScanFindsASlave`: `FoundIsSelected`. `PartsInv`: the slaves that take part and agree with all parts that are found have come
  as far as the scan, and no other has. `AnswersInv`: as long as no sleep was over too early (`~call.late`), an answer that the scan reads is one to its
  last message, from a slave whom that message fits. Without this condition the statement fails (findings).
- `TheLowestIsFound`: `ScanFindsLowest`. `LowestInv` is the argument of a binary search: as far as the bits are known, every slave agrees with
  the number found (`MayBeFound`) or is higher (`LeftBehind`), and one agrees. If nothing is lost or late, no answer means
  that the message fits nobody (`AllAnswer`); so the bit is one for all who are left (`OneBitMore`), and with the last bit those who agree are
  equal (`AllCompared`).
- `LssReportsAreTrue`: `ReportsAreTrue`. `SelectInv` follows a selection part by part, `ReportInv` says that what comes is true.

**PDO** (`PdoProofs`).

- `ReceptionIsTrue`: `PdoWaitsTellTheTruth` of `PdoSetup`, for any number of
  threads and whatever `read` and `save` do. The invariant adds that a flag that is set was set after
  every wait began that is not over (`FlagIsNew`), and that a thread that is awake
  has the flag, or its time is up, or another wait began (`WokenForAReason`).
- `SetupsAreWhole`: `OnlyWholeSetups`, and `SuccessIsAgreement`: `AgreeAfterSuccess`, for any size of the mapping array, any
  contents of the device, any lengths and any number of calls, refusals and losses, from one invariant, `SetupInv`. `SaveInv` follows a save through its stages
  (`SaveStages`): the PDO is invalid from the first write on, the parameters that were set are written or left to be written (`SetOrLeft`),
  then the entries are there up to the one that is next (`WrittenUpTo`), and when the PDO is made valid the whole mapping is
  (`WholeMap`). What the save intends is the same all the time, dummies or not, and one write puts it into effect (`SaveWrites`); so a
  transfer may fail anywhere. `ReadStage` says the same of a read: the map is what the first entries are. `MapInv` makes the
  offsets right: without its dummies the map is packed. `Real` and `TotalBefore` are recursive functions: that they satisfy their equations, and what they
  yield for one entry more, is proved by `SetInduction`, which is induction stated for a set of numbers, without an operator as parameter.

- `WritesAreRead`: `ReadsAsWritten`, for any objects, types, messages and number of variables. The invariant, `MessageInv`, adds
  that variables with a length lie one behind the other (`LayoutInv`), that what is remembered as written fits its variable (`WrittenInv`), and
  that the task has the data (`SentInv`). Under it are lemmas about bits: a field is its part of the window (`FieldOfWindow`),
  a new window differs in the field only (`BitsMerged`), and bytes that a window writes back change no bit outside of it
  (`BitsWritten`); so a write is read (`FieldIsRead`), and does not reach a field that lies apart.

**Drives** (`Drive402Proofs`), for any ways in which status words arrive and any number of moves of the drive's own, one invariant, `CallsInv`:

- `DriveIsNotOvershot`: `OneStepTooFar`. `LevelInv` bounds, besides the drive itself, where the command that it has takes it and where
  the next one will: that one was chosen for the state that was read then, and may be carried out in another.
- `CalmCallsAreDone`: `CalmCallsSucceed`. `CalmInv` says of a calm drive that it is at rest whenever the caller decides (`AtRest`), and while
  the caller waits, on its way to the next state and not seen there before (`UnderWay`). That the masks are tried one after the other, each on a word
  that is read anew, does no harm then, since no mask that fits is passed over (`MaskInv`) and a status word fits the mask of one state
  only (`OtherWord`). The call raises in one place only, when a wait for a TPDO on events has timed out (`TimedOutKeeps`). Under it are lemmas about the tables: from each state there is a command for the next state to each target that can be
  asked for (`NextIsCommanded`), and the drive obeys it (`CommandIsObeyed`).

The assumptions `NoneAssumption` and `CommandAssumption` keep the marker of "no state, no command" apart from both.

**Only model-checked.** Liveness (`CallsEnd`, `WaitsEnd`, `MasterLearnsState`, `TransfersEnd`, `EmcyWaitsEnd`, `DriveCallsEnd`,
and the fairness part of `ImplementsAtomicObjects`), which is out of the prover's reach. Every invariant and action property of the
passing runs is the subject of a theorem.

## Findings

With a run each:

- `SdoWrongObject`: if the first request of a segmented `download` is lost, closing the
  stream sends an empty last segment, which the server stores in the object of the
  transfer before (`client.py:437`, `server.py:164`).
- `BlockSilent`: without a CRC a block upload returns without one of its
  segments after a single late answer (`client.py:534`).

Definitions of the modules that state what a comment or docstring says and that do not hold; as an `INVARIANT` of
the configuration named, TLC refutes each of them in seconds:

| definition | configuration | quoted from | what happens |
|---|---|---|---|
| `BlockTransfer!LostIsSentAgain` | `BlockRepair` | `client.py:765` | a loss in the last block of a block download is not repaired: `_retransmit` calls `write`, which refuses to send after the last segment (`client.py:697`, `client.py:794`) |
| `Nmt!BootupEndsWait` | `NmtNode` | `nmt.py:162` | a boot-up message that a heartbeat follows at once is not reported (`nmt.py:171`) |
| `Nmt!HeartbeatTellsState` | `NmtNode`, `Overlap = TRUE` | `doc/nmt.rst:18` | two threads that change the slave's state or its heartbeat leave an older state in the heartbeat, for good (`nmt.py:273`) |
| `Nmt!NoStrayTask` | `NmtNode`, `Overlap = TRUE` | `nmt.py:265` | two threads that start the heartbeat leave a task that no one can stop (`nmt.py:258`) |
| `Emcy!AwaitedIsSeen` | `EmcyWaits` | `emcy.py:66` | of two messages between two looks of a waiter only the last is compared with the awaited code (`emcy.py:80`) |
| `Lss!FoundIsASlave` | `LssCalls` | `lss.py:249` | a fast scan sleeps 10 ms behind a message; an answer that takes longer, when another slave has answered in time, is read as the answer to a later bit and as the confirmation, and the scan returns an identity of no slave (`lss.py:269`) |
| `Pdo!NoneMeansTimeout` | `PdoMaps` | `pdo/base.py:599` | a thread that a PDO has woken returns None in time, if another one has begun to wait and cleared the flag (`pdo/base.py:604`) |
| `Pdo!NegativesAreRead` | `PdoMaps` | `pdo/base.py:635` | the most negative number of a bit field is read as positive (`pdo/base.py:636`, `<` for `<=`) |
| `Drive402!EventsAreNotAwaited` | `Drive402Calls` | `p402.py:482` | `check_statusword` takes a TPDO on events for a periodic one after its second reception, waits for it and raises; `reset_from_fault` does so on every such drive, as its status word does not change before the command that comes behind the wait (`p402.py:493`, `pdo/base.py:337`) |
| `Drive402!VoltageIsDisabled` | `Drive402Calls` | `p402.py:536` | `DISABLE VOLTAGE` as a target leads up to operation and ends in `ValueError` (`p402.py:568`) |

Seen in the models and the code:

- A download that fails in the middle makes a server of this library store the part
  it has, because of the empty last segment of `close()`; the abort sent before it
  resets nothing (`server.py:120`).
- An answer that comes late is taken for the answer to a later request of the
  same kind; the object in the response of a download is not compared
  (`client.py:397`), so a refused download may return.
- Two uploads that are abandoned on a late bus let a third one return bytes of two values: the
  late answers of the second begin like a transfer of their own, and the queue is emptied only
  once, before the first of them is there (`client.py:88`). With `MAX_RETRIES` above 1
  one abandoned upload is enough: the request it repeated and that for a segment are answered one after
  the other, which the next upload takes for its own transfer, and its own first request then makes
  the server begin another value. `SdoLate` shows the one with `MaxCalls = 3`, the other
  with `MaxRetries = 2`, and `UploadNeverMixes` without the conjuncts that except them.
- If a late bus also loses requests, answers to abandoned calls stand in for those of requests that
  never arrived, and an object comes to hold bytes from the middle of a value. It does as well, on any bus, if the first request of a segmented
  download cannot be sent after an upload was abandoned: `close()`'s empty last segment then stores what the upload left in the server's
  buffer (`client.py:437`). `StoreHoldsPrefixes` excepts both.
- `MAX_RETRIES` counts attempts, not repetitions (`client.py:25`, `client.py:96`): with the
  default 1 nothing is repeated. With 0 the loops do not end; the models assume
  a positive value.
- With `MAX_RETRIES` above 1, a numeric object and a segmented download: the server
  refuses a short last segment but keeps it in its buffer and does not flip the toggle bit; if the
  abort is lost, the repeated segment doubles it and may reach the object's size
  (`server.py:164-176`). `SdoPrompt`, which repeats, has objects without fixed size.
- `BlockUploadStream` calls `self.abort`, which it does not have (`client.py:589`):
  the call ends with `AttributeError`.
- In a block download, a retransmission that runs into the next block counts segments twice in the CRC, and the server
  refuses (`client.py:738`).
- A boot-up message that cannot be sent raises out of the state's setter, after the state has
  changed and before the heartbeat is updated: the heartbeat goes on telling the old state
  (`nmt.py:226-228`).
- Of two threads that wait for the same node's heartbeat, one may clear what the
  other has not read yet (`nmt.py:157`).
- A reset command leaves a slave in INITIALISING: it sends no boot-up message and does not go on to
  PRE-OPERATIONAL, as `doc/nmt.rst:21-23` says devices do. Setting the state does.
- The broadcast example at `doc/nmt.rst:47` does not update the states of the nodes of
  the network that sends it; with a heartbeat, they are updated.
- Network: unsubscribing a callback while a frame is handed out can cost another one its call
  (`network.py:251`). A node that belongs to another network is listed before it is
  refused (`network.py:275`), and the node it replaces is gone. A node whose CAN ID was unsubscribed as a whole raises when it is
  removed, and stays listed. PDO callbacks stay behind when a node is removed (`node/remote.py:68`). The client that `add_sdo` returns is
  subscribed but gets no network to send on (`node/remote.py:96`). After the notifier's thread died, a second
  `connect()` without `disconnect()` leaves the bus unread.
- EMCY: a wait may take several times its timeout (`emcy.py:75`); `reset` in the middle of a wait can
  raise `IndexError`.
- LSS: `send_switch_state_selective` is documented to return False without a response
  but raises `LssError`; the identification calls are documented to return True or False and return None.
  With several selected slaves, the second answer is taken for the answer to the next request of its kind,
  unless there was a delay before it; so is the late answer to a call that gave up: the queue is emptied
  before a message, and an answer is compared by its command specifier alone (`lss.py:376-389`).
- PDO: an object that the dictionary does not have is left out by `read` with a warning, and all variables behind it
  are misplaced (`pdo/base.py:535`); `AgreeAfterSuccess` excepts it. A `save` that fails leaves the PDO disabled on the device
  and enabled in the map (`pdo/base.py:425`); a `read` that fails leaves a mixed map. `read`, `save` and `add_variable` put
  a new empty message under a periodic task that runs on with the old one. A value that does not fit a field overwrites its neighbours (`pdo/base.py:671`). A field of whole bytes
  that is shorter than its type is read and written in the length of the type (`pdo/base.py:641`). A
  signed field that does not end with its type's window cannot always be written.
- DS402: if the drive reaches the target between two reads of the setter, the setter commands the next
  state towards operation (`p402.py:568`); after other moves it raises `ValueError`, as it does when a word that changes
  during a read fits none of the masks (`p402.py:543`). `tpdo_values` start at 0, which is NOT READY: the first command then disables the voltage of a drive that may run. With a TPDO on events
  that has been received once at most, the status word that `check_statusword` reads by SDO is dropped: the setter goes on with the last TPDO. The setter looks at its deadline only
  after a step that was not confirmed.

## What is not modelled

- Expedited and segmented transfers: open streams used directly, text mode, several
  streams on one client at the same time, several threads on one client, read and write
  callbacks of a local node, and which exception is raised.
- Block transfers: unknown sizes, values larger than the `BufferedWriter`'s
  buffer, more than one transfer, a real CRC (an ideal one takes its place), requests repeated
  because of `MAX_RETRIES`.
- NMT: heartbeat callbacks, node guarding.
- Network and nodes: sending single messages, the scanner's search, periodic tasks in general,
  loading and storing configurations of a remote node, TIME.
- EMCY: callbacks, the description of codes.
- PDO: callbacks, single transmissions, remote requests and inhibit times, `from_od`, export, look-up by name or
  number; mapping arrays that are `SdoArray`s, whose entries `save` does not write once the count
  is 0; entries that are read-only; maps longer than the array. Writing a variable and saving the map are not
  combined in one scenario.
- DS402: operation modes, homing, set-up of the PDOs.
- Object dictionary, EDS and EPF files, conversions of variables, formatting, examples: no protocol state.

## Plan

Done: SDO and block transfers, NMT, network and nodes, EMCY, LSS, PDO, drives. Left, in order:

1. Operation modes and homing of drives, on top of `Drive402`.
2. SDO with two calling threads; block requests to the library's server.
3. Integer encodings of the object dictionary as operators over bounded inputs.
