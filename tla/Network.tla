-------------------------------- MODULE Network --------------------------------
(***************************************************************************)
(* Network (network.py): who listens to which CAN ID, the thread that      *)
(* hands a frame to one listener after the other, the scanner, the bus and *)
(* its notifier, and the periodic SYNC message.                            *)
(*                                                                         *)
(* notify walks the list in subscribers itself, by position, while other   *)
(* threads append to it and remove from it.  A list that has been taken    *)
(* out of the dictionary stays with the walk that is in it.                *)
(***************************************************************************)
EXTENDS Naturals, Sequences, SequencesExt

CONSTANTS
  Nets,      \* Network objects
  Nodes,     \* node objects
  Ids,       \* node ids in use
  NoCan,     \* no CAN ID: the walk is over
  NoNet,     \* a node without network
  MaxBuses   \* bound: buses that are opened

ASSUME NetworkAssumption ==
  /\ Ids \subseteq 1..127
  /\ NoNet \notin Nets \cup Nodes
  /\ MaxBuses \in Nat \ {0}

VARIABLES
  subscribers,  \* subscribers: the callbacks of each CAN ID, none for no entry
  walk,         \* notify: the frame that is being handed out
  found,        \* NodeScanner.nodes
  bus,          \* bus: number of the network's bus, 0 for None
  opened,       \* buses that the network has had so far
  notifier,     \* notifier: the bus it reads, 0 for None, and whether it has died
  syncTask,     \* SyncProducer._task: the bus it was started on, 0 for None
  syncRunning   \* SYNC messages that the bus repeats

netVars == <<subscribers, walk, found>>
busVars == <<bus, opened, notifier, syncTask, syncRunning>>

Services == {"heartbeat", "emcy", "response", "request", "pdo", "extra"}

\* COB-IDs: a service of a node, NMT commands (0), LSS answers.
CanIds == [svc : Services, id : Ids] \cup [svc : {"command", "lss"}, id : {0}]

Callbacks == [owner : Nodes \cup Nets, svc : Services \cup {"command", "lss"}]

\* Callbacks that raise when the frame is shorter than they expect.
Fragile == {"heartbeat", "emcy", "request", "command"}

\* Frames of these services tell the scanner that a node is there.
Scanned == {"heartbeat", "response", "emcy", "pdo"}

IdleWalk ==
  [can |-> NoCan, short |-> FALSE, pos |-> 0, detached |-> FALSE, kept |-> <<>>,
   called |-> <<>>, expected |-> {}, removals |-> 0]

NetworkTypeOK ==
  /\ subscribers \in [Nets -> [CanIds -> Seq(Callbacks)]]
  /\ DOMAIN walk = Nets
  /\ \A net \in Nets :
       /\ walk[net].can \in CanIds \cup {NoCan}
       /\ walk[net].short \in BOOLEAN /\ walk[net].detached \in BOOLEAN
       /\ walk[net].pos \in Nat /\ walk[net].removals \in Nat
       /\ walk[net].kept \in Seq(Callbacks) /\ walk[net].called \in Seq(Callbacks)
       /\ walk[net].expected \subseteq Callbacks
  /\ found \in [Nets -> Seq(Ids)]
  /\ bus \in [Nets -> 0..MaxBuses] /\ opened \in [Nets -> 0..MaxBuses]
  /\ notifier \in [Nets -> [bus : 0..MaxBuses, dead : BOOLEAN]]
  /\ syncTask \in [Nets -> 0..MaxBuses] /\ syncRunning \in [Nets -> Nat]

LssAnswers == [svc |-> "lss", id |-> 0]

NetworkInit ==
  /\ subscribers = [net \in Nets |-> [can \in CanIds |->
       IF can = LssAnswers THEN <<[owner |-> net, svc |-> "lss"]>> ELSE <<>>]]
  /\ walk = [net \in Nets |-> IdleWalk]
  /\ found = [net \in Nets |-> <<>>]
  /\ syncTask = [net \in Nets |-> 0]
  /\ syncRunning = [net \in Nets |-> 0]

-----------------------------------------------------------------------------
\* Mutant: a callback that is there already is appended once more.
AppendAlways(net, can, cb) ==
  subscribers' = [subscribers EXCEPT ![net][can] = Append(@, cb)]

\* subscribe
Subscribe(net, can, cb) ==
  subscribers' = [subscribers EXCEPT
    ![net][can] = IF Contains(@, cb) THEN @ ELSE Append(@, cb)]

\* The walk through a list from which a callback goes; when it was the last one
\* the entry is deleted and a later subscription starts a new list.
WalkWithout(w, can, rest) ==
  IF w.can # can \/ w.detached THEN w
  ELSE [w EXCEPT !.removals = @ + 1, !.detached = rest = <<>>]

\* unsubscribe one callback; ValueError and KeyError are the caller's business.
Unsubscribe(net, can, cb) ==
  LET rest == RemoveFirst(subscribers[net][can], cb) IN
  /\ subscribers' = [subscribers EXCEPT ![net][can] = rest]
  /\ walk' = [walk EXCEPT ![net] = WalkWithout(@, can, rest)]

\* unsubscribe all of them: the entry goes, a walk keeps the list.
UnsubscribeAll(net, can) ==
  /\ subscribers[net][can] # <<>>
  /\ subscribers' = [subscribers EXCEPT ![net][can] = <<>>]
  /\ walk' = [walk EXCEPT ![net] =
       IF @.can # can \/ @.detached THEN @
       ELSE [@ EXCEPT !.detached = TRUE, !.kept = subscribers[net][can]]]
  /\ UNCHANGED <<found, busVars>>

-----------------------------------------------------------------------------
\* The notifier thread of a network.
Alive(net) == bus[net] # 0 /\ notifier[net] = [bus |-> bus[net], dead |-> FALSE]

\* MessageListener.on_message_received and notify up to the loop.
Receive(net, can, short) ==
  /\ Alive(net) /\ walk[net].can = NoCan
  /\ walk' = [walk EXCEPT ![net] =
       [IdleWalk EXCEPT !.can = can, !.short = short,
                        !.expected = ToSet(subscribers[net][can])]]
  /\ UNCHANGED <<subscribers, found, busVars>>

Walked(net) ==
  IF walk[net].detached THEN walk[net].kept ELSE subscribers[net][walk[net].can]

InLoop(net) == walk[net].can # NoCan /\ walk[net].pos < Len(Walked(net))
AtEnd(net) == walk[net].can # NoCan /\ walk[net].pos >= Len(Walked(net))

Called(w, cb) == [w EXCEPT !.pos = @ + 1, !.called = Append(@, cb)]

\* A callback that raises ends the walk: the exception is logged, the scanner
\* and the callbacks behind do not see the frame.
CallNext(net) ==
  /\ InLoop(net)
  /\ LET cb == Walked(net)[walk[net].pos + 1] IN
     walk' = [walk EXCEPT ![net] =
       IF @.short /\ cb.svc \in Fragile THEN IdleWalk ELSE Called(@, cb)]
  /\ UNCHANGED <<subscribers, found, busVars>>

\* Mutant: any frame tells, with the low seven bits of its CAN ID.
AnyTells(can) == can.svc \in Services \cup {"command", "lss"}

Tells(can) == can.svc \in Scanned

\* NodeScanner.on_message_received
EndWalk(net) ==
  /\ AtEnd(net)
  /\ LET can == walk[net].can IN
     found' = [found EXCEPT ![net] =
       IF Tells(can) /\ ~Contains(@, can.id) THEN Append(@, can.id) ELSE @]
  /\ walk' = [walk EXCEPT ![net] = IdleWalk]
  /\ UNCHANGED <<subscribers, busVars>>

Reset(net) ==
  /\ found' = [found EXCEPT ![net] = <<>>]
  /\ UNCHANGED <<subscribers, walk, busVars>>

-----------------------------------------------------------------------------
\* connect opens a bus and a notifier where there is none.
Connect(net) ==
  LET number == IF bus[net] = 0 THEN opened[net] + 1 ELSE bus[net] IN
  /\ number <= MaxBuses
  /\ bus' = [bus EXCEPT ![net] = number]
  /\ opened' = [opened EXCEPT ![net] = IF number > @ THEN number ELSE @]
  /\ notifier' = [notifier EXCEPT
       ![net] = IF @.bus = 0 THEN [bus |-> number, dead |-> FALSE] ELSE @]
  /\ UNCHANGED <<netVars, syncTask, syncRunning>>

\* The receiving thread ends in an exception, or the bus has been shut down.
NotifierDies(net) ==
  /\ Alive(net) /\ walk[net].can = NoCan
  /\ notifier' = [notifier EXCEPT ![net].dead = TRUE]
  /\ UNCHANGED <<netVars, bus, opened, syncTask, syncRunning>>

\* Mutant: when check() raises, the notifier is not released.
DisconnectUnguarded(net) ==
  /\ bus' = [bus EXCEPT ![net] = 0]
  /\ notifier' = [notifier EXCEPT
       ![net] = IF @.dead THEN @ ELSE [bus |-> 0, dead |-> FALSE]]
  /\ syncRunning' = [syncRunning EXCEPT ![net] = 0]
  /\ UNCHANGED <<netVars, opened, syncTask>>

\* disconnect: check() may raise, the notifier is released all the same.  The
\* bus stops its periodic messages itself, SyncProducer keeps its task.
Disconnect(net) ==
  /\ bus' = [bus EXCEPT ![net] = 0]
  /\ notifier' = [notifier EXCEPT ![net] = [bus |-> 0, dead |-> FALSE]]
  /\ syncRunning' = [syncRunning EXCEPT ![net] = 0]
  /\ UNCHANGED <<netVars, opened, syncTask>>

\* SyncProducer.start raises while there is a task, or without a bus.
SyncStart(net) ==
  /\ syncTask[net] = 0 /\ bus[net] # 0
  /\ syncTask' = [syncTask EXCEPT ![net] = bus[net]]
  /\ syncRunning' = [syncRunning EXCEPT ![net] = @ + 1]
  /\ UNCHANGED <<netVars, bus, opened, notifier>>

SyncStop(net) ==
  /\ syncTask' = [syncTask EXCEPT ![net] = 0]
  /\ syncRunning' = [syncRunning EXCEPT
       ![net] = IF syncTask[net] # 0 /\ syncTask[net] = bus[net] THEN @ - 1 ELSE @]
  /\ UNCHANGED <<netVars, bus, opened, notifier>>

=============================================================================
