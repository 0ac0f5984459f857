-------------------------------- MODULE PdoSetup --------------------------------
(***************************************************************************)
(* PdoMap.read and PdoMap.save (pdo/base.py): the parameters of one PDO are *)
(* copied from a device and to it, one SDO transfer after the other, each  *)
(* of which may fail, while messages of that PDO arrive.                   *)
(***************************************************************************)
EXTENDS Pdo

CONSTANTS
  Slots,      \* entries of the mapping array of the device
  CobIds,     \* COB-IDs
  Known,      \* objects that the object dictionary of the node has
  Kinds,      \* kinds of device, see Accepts
  Lengths,    \* lengths in bits that the application maps
  Contents    \* what a device may map: sequences of [obj, len]

ASSUME SetupAssumption ==
  /\ Slots \in Nat \ {0} /\ Known \subseteq Objects
  /\ Kinds \subseteq {"lax", "strict", "fixed"}
  /\ \A c \in Contents : c \in Seq([obj : Objects, len : Nat]) /\ Len(c) <= Slots
  /\ Lengths \subseteq Nat

VARIABLES
  device, \* the PDO's parameters on the device
  kind,   \* the kind of device
  app     \* the application's read or save

vars == <<map, length, data, conf, subscribed, task, received, stamp, period, waiter, written, left,
          device, kind, app>>

Empty == [obj |-> None, len |-> 0]
Slot == 1 .. Slots

\* todo: the transfers that are left.  stale and good are history: the map was
\* changed since, or the call failed; what the application wants in effect.
Idle == [op |-> "none", outcome |-> "none", todo |-> <<>>, stale |-> TRUE, good |-> {}]

\* Mapped variables without the dummy entries.  This and TotalBefore are recursive
\* functions, which the provers can expand, and no SelectSeq or fold.
Real(entries) ==
  LET upTo[k \in 0 .. Len(entries)] ==
        IF k = 0 THEN <<>>
        ELSE IF entries[k].len # 0 THEN Append(upTo[k - 1], entries[k])
        ELSE upTo[k - 1]
  IN upTo[Len(entries)]

Setup(d) == [cob |-> d.cob, trans |-> d.trans, timer |-> d.timer,
             map |-> Real(SubSeq(d.entries, 1, d.count))]

\* Offsets follow from the lengths before.
TotalBefore(m, k) ==
  LET total[j \in 0 .. Len(m)] == IF j = 0 THEN 0 ELSE total[j - 1] + m[j].len
  IN total[k - 1]

Placed(m) == [k \in DOMAIN m |-> [obj |-> m[k].obj, len |-> m[k].len, offset |-> TotalBefore(m, k)]]

InEffect == IF device.valid THEN {Setup(device)} ELSE {}

\* A PDO that is in use: what the device has has been read.  Or one of which
\* nothing is known yet.
Init ==
  /\ left \in Budgets
  /\ kind \in Kinds
  /\ \E content \in Contents, cob \in CobIds, valid \in BOOLEAN, trans \in {"sync", "event"} :
       device = [cob |-> cob, valid |-> valid, trans |-> trans, timer |-> 1,
                 count |-> IF kind = "fixed" THEN Slots ELSE Len(content),
                 entries |-> [k \in Slot |-> IF k <= Len(content) THEN content[k] ELSE Empty]]
  /\ IF left.calls = 0
     THEN /\ map = Placed(Setup(device).map)
          /\ conf = [cob |-> device.cob, enabled |-> device.valid, trans |-> device.trans, timer |-> None]
          /\ subscribed = IF device.valid THEN {device.cob} ELSE {}
     ELSE /\ map = <<>>
          /\ conf = [cob |-> None, enabled |-> FALSE, trans |-> None, timer |-> None]
          /\ subscribed = {}
  /\ length = TotalBefore(map, Len(map) + 1)
  /\ data = {} /\ task = [on |-> FALSE, data |-> {}]
  /\ received = FALSE /\ stamp = 0 /\ period = FALSE
  /\ waiter = [w \in Waiters |-> [pc |-> "idle", result |-> None, since |-> 0,
                                  expired |-> TRUE, passed |-> FALSE]]
  /\ written = Unwritten(map)
  /\ app = [Idle EXCEPT !.good = InEffect]

-----------------------------------------------------------------------------
\* The application changes the map: clear, add_variable, and the attributes.
Edit ==
  /\ app.op = "none" /\ left.edits > 0
  /\ left' = [left EXCEPT !.edits = @ - 1]
  /\ app' = [app EXCEPT !.stale = TRUE]
  /\ UNCHANGED <<subscribed, task, received, stamp, period, waiter, device, kind>>

\* The history of a map that has changed.
Forget == written' = Unwritten(map')

Clear == Edit /\ map' = <<>> /\ length' = 0 /\ UNCHANGED <<data, conf>> /\ Forget

\* Mutant: the offset is taken after the length was added.
AddedBehind(obj, len) ==
  /\ map' = IF obj \in Known THEN Append(map, [obj |-> obj, len |-> len, offset |-> length + len])
            ELSE map
  /\ length' = IF obj \in Known THEN length + len ELSE length
  /\ data' = Cleared

\* An object that the dictionary does not have is left out with a warning.
Added(obj, len) ==
  /\ map' = IF obj \in Known THEN Append(map, [obj |-> obj, len |-> len, offset |-> length]) ELSE map
  /\ length' = IF obj \in Known THEN length + len ELSE length
  /\ data' = Cleared

AddVariable(obj, len) == Edit /\ Len(map) < Slots /\ Added(obj, len) /\ UNCHANGED conf /\ Forget

\* subscribe, on what conf has become; the application may call it itself.
Subscribe == subscribed' = IF conf'.enabled THEN subscribed \cup {conf'.cob} ELSE subscribed

SubscribeUnread ==
  /\ app.op = "none" /\ conf.cob # None /\ conf.enabled /\ conf.cob \notin subscribed
  /\ UNCHANGED <<map, length, conf, dataVars, device, kind, app, left>> /\ Subscribe

Configure(new) == Edit /\ conf # new /\ conf' = new /\ UNCHANGED <<map, length, data>> /\ Forget

-----------------------------------------------------------------------------
\* SDO transfers as the device sees them.  A strict device refuses to change the
\* mapping of a PDO that is valid; a fixed one has a read-only count.
Write(what, value) == [what |-> what, slot |-> 0, value |-> value]
WriteEntry(k, entry) == [what |-> "entry", slot |-> k, value |-> entry]
ReadOf(what, k) == [what |-> what, slot |-> k, value |-> None]

ReadOnly(t) == kind = "fixed" /\ t.what \in {"zero", "count"}

Accepts(t) ==
  /\ ~ReadOnly(t)
  /\ t.what \in {"zero", "count"} => t.value <= Slots /\ (kind = "strict" => ~device.valid)
  /\ t.what = "entry" => /\ kind # "lax" => ~device.valid
                         /\ kind = "strict" => device.count = 0

Written(t) ==
  CASE t.what = "disable" -> [device EXCEPT !.cob = t.value, !.valid = FALSE]
    [] t.what = "enable" -> [device EXCEPT !.cob = t.value, !.valid = TRUE]
    [] t.what = "trans" -> [device EXCEPT !.trans = t.value]
    [] t.what = "timer" -> [device EXCEPT !.timer = t.value]
    [] t.what \in {"zero", "count"} -> [device EXCEPT !.count = t.value]
    [] t.what = "entry" -> [device EXCEPT !.entries[t.slot] = t.value]
    [] OTHER -> device

\* Mutant: the PDO stays valid while it is changed.
FirstWriteKeeps == IF conf.enabled THEN Write("enable", conf.cob) ELSE Write("disable", conf.cob)

FirstWrite == Write("disable", conf.cob)

\* _set_com_record: parameters that were never set are left alone.
WriteIfSet(what, value) == IF value = None THEN <<>> ELSE <<Write(what, value)>>
ParameterWrites == WriteIfSet("trans", conf.trans) \o WriteIfSet("timer", conf.timer)

Entries(m) == [k \in DOMAIN m |-> [obj |-> m[k].obj, len |-> m[k].len]]
EntryWrites(m) == [k \in DOMAIN m |-> WriteEntry(k, Entries(m)[k])] \o <<Write("count", Len(m))>>

\* _fill_map: dummy entries up to the length that the array has.
Filled(n) == map \o [k \in 1 .. n - Len(map) |-> [obj |-> None, len |-> 0, offset |-> 0]]

\* What a save is to put in effect.
Intended ==
  [cob |-> conf.cob,
   trans |-> IF conf.trans = None THEN device.trans ELSE conf.trans,
   timer |-> IF conf.timer = None THEN device.timer ELSE conf.timer,
   map |-> Real(Entries(map))]

-----------------------------------------------------------------------------
Begin(op, todo, good) ==
  /\ app.op = "none" /\ left.calls > 0
  /\ left' = [left EXCEPT !.calls = @ - 1]
  /\ app' = [op |-> op, outcome |-> "running", todo |-> todo, stale |-> TRUE, good |-> good]
  /\ UNCHANGED <<confVars, dataVars, device, kind>>

\* save does nothing for a PDO without a COB-ID.
Save ==
  /\ conf.cob # None
  /\ Begin("save", <<FirstWrite>> \o ParameterWrites \o <<Write("zero", 0)>>,
           InEffect \cup {Intended})

Read == Begin("read", <<ReadOf("cob", 0), ReadOf("trans", 0)>>, app.good)

Transfer == Head(app.todo)
Left(todo) == app' = [app EXCEPT !.todo = todo]
Ended == app' = [app EXCEPT !.op = "none", !.todo = <<>>, !.outcome = app.op, !.stale = FALSE]
Raises == app' = [app EXCEPT !.op = "none", !.todo = <<>>, !.outcome = "raised"]

\* save, after a transfer that succeeded.
SaveGoesOn ==
  /\ device' = Written(Transfer)
  /\ IF Transfer.what = "size" THEN map' = Filled(device.count) ELSE UNCHANGED map
  /\ IF Transfer.what = "count" THEN data' = Cleared ELSE UNCHANGED data
  /\ CASE Transfer.what \in {"zero", "size"} -> Left(EntryWrites(map'))
       [] Transfer.what = "count" /\ conf.enabled -> Left(<<Write("enable", conf.cob)>>)
       [] Len(app.todo) > 1 -> Left(Tail(app.todo))
       [] OTHER -> Ended
  /\ UNCHANGED <<length, conf>>
  /\ IF Transfer.what = "enable" THEN Subscribe ELSE UNCHANGED subscribed

\* After an abort: it goes on behind both writes of the count, if the last one
\* was refused for being read-only.
SaveIsRefused(readOnly) ==
  /\ CASE Transfer.what = "zero" -> Left(<<ReadOf("size", 0)>>) /\ UNCHANGED data
       [] Transfer.what = "count" /\ readOnly ->
            /\ data' = Cleared
            /\ IF conf.enabled THEN Left(<<Write("enable", conf.cob)>>) ELSE Ended
       [] OTHER -> Raises /\ UNCHANGED data
  /\ UNCHANGED <<confVars, device>>

\* read, which ends when nothing is left to be read.
ReadOn(todo) ==
  IF todo = <<>> THEN Ended /\ Subscribe ELSE Left(todo) /\ UNCHANGED subscribed

CountNext == map' = <<>> /\ length' = 0 /\ ReadOn(<<ReadOf("count", 0)>>)

ReadGoesOn ==
  /\ CASE Transfer.what = "cob" ->
            /\ conf' = [conf EXCEPT !.cob = device.cob, !.enabled = device.valid]
            /\ ReadOn(Tail(app.todo)) /\ UNCHANGED <<map, length, data>>
       [] Transfer.what = "trans" /\ device.trans = "event" ->
            /\ conf' = [conf EXCEPT !.trans = "event"]
            /\ ReadOn(<<ReadOf("timer", 0)>>) /\ UNCHANGED <<map, length, data>>
       [] Transfer.what = "trans" /\ device.trans # "event" ->
            conf' = [conf EXCEPT !.trans = device.trans] /\ CountNext /\ UNCHANGED data
       [] Transfer.what = "timer" ->
            conf' = [conf EXCEPT !.timer = device.timer] /\ CountNext /\ UNCHANGED data
       [] Transfer.what = "count" ->
            /\ UNCHANGED <<map, length, data, conf>>
            /\ ReadOn([k \in 1 .. device.count |-> ReadOf("entry", k)])
       [] Transfer.what = "entry" ->
            LET entry == device.entries[Transfer.slot]
            IN /\ IF entry.len # 0 THEN Added(entry.obj, entry.len)
                  ELSE UNCHANGED <<map, length, data>>
               /\ UNCHANGED conf /\ ReadOn(Tail(app.todo))
  /\ UNCHANGED device

\* After an abort: optional parameters may be missing.
ReadIsRefused ==
  /\ IF Transfer.what = "timer" THEN CountNext /\ UNCHANGED <<conf, data>>
     ELSE Raises /\ UNCHANGED <<confVars, data>>
  /\ UNCHANGED device

-----------------------------------------------------------------------------
Goes == app.op # "none" /\ UNCHANGED <<task, received, stamp, period, waiter, kind>>
Fails == left.failures > 0 /\ left' = [left EXCEPT !.failures = @ - 1]

Succeeds ==
  /\ Goes /\ UNCHANGED left
  /\ \/ app.op = "save" /\ Accepts(Transfer) /\ SaveGoesOn
     \/ app.op = "read" /\ ReadGoesOn
  /\ Forget

\* The device refuses the transfer, for its own reasons or for some other.
IsRefused ==
  /\ Goes
  /\ IF app.op = "save" /\ ~Accepts(Transfer) THEN UNCHANGED left ELSE Fails
  /\ \/ app.op = "save" /\ SaveIsRefused(ReadOnly(Transfer))
     \/ app.op = "read" /\ ReadIsRefused
  /\ Forget

\* No answer, from a device that may have got the request.
IsLost ==
  /\ Goes /\ Fails /\ Raises /\ UNCHANGED <<confVars, data>>
  /\ \/ UNCHANGED device
     \/ app.op = "save" /\ Accepts(Transfer) /\ device' = Written(Transfer)
  /\ Forget

\* The device sends the PDO.
DeviceSends ==
  /\ device.valid /\ left.sends > 0
  /\ left' = [left EXCEPT !.sends = @ - 1]
  /\ \E content \in Messages : OnMessage(device.cob, content)
  /\ UNCHANGED <<device, kind, app>>

Confs == [cob : CobIds, enabled : BOOLEAN, trans : {"sync", "event"}, timer : {None, 2}]

Uses ==
  /\ \/ \E k \in DOMAIN map : \E value \in Fitting(map[k]) : SetVariable(k, value)
     \/ StartTask
     \/ StopTask
     \/ \E w \in Waiters : BeginWait(w) \/ WaitTimesOut(w) \/ EndWait(w)
  /\ UNCHANGED <<device, kind, app>>

Next ==
  \/ Uses \/ DeviceSends
  \/ Clear \/ (\E obj \in Objects, len \in Lengths : AddVariable(obj, len))
  \/ \E new \in Confs : Configure(new)
  \/ SubscribeUnread \/ Save \/ Read
  \/ Succeeds \/ IsRefused \/ IsLost

Spec == Init /\ [][Next]_vars

-----------------------------------------------------------------------------
\* After a read or a save that did not raise, and before the map is changed, the
\* map is what the device has: COB-ID, whether it is valid, the parameters, and
\* the variables at the places where the device puts them, however the device
\* treats its count and whatever was refused or lost in calls before; and a map
\* that is enabled is subscribed.  Except behind an object that the dictionary
\* does not have: what is mapped after it is misplaced.
AgreeAfterSuccess ==
  app.op = "none" /\ ~app.stale =>
    /\ conf.cob = device.cob /\ conf.enabled = device.valid
    /\ conf.trans \in {None, device.trans}
    /\ app.outcome = "save" => conf.timer \in {None, device.timer}
    /\ (\A k \in DOMAIN Setup(device).map : Setup(device).map[k].obj \in Known) =>
         Real(map) = Placed(Setup(device).map)
    /\ conf.enabled => conf.cob \in subscribed

\* A PDO that is valid on the device has the whole setup that it had before a
\* save, or the whole one that is saved: never a part of a mapping, though the
\* mapping is written entry by entry and each transfer may fail.
OnlyWholeSetups == device.valid => Setup(device) \in app.good

=============================================================================
