----------------------------------- MODULE Pdo -----------------------------------
(***************************************************************************)
(* PdoMap and PdoVariable (pdo/base.py) while a PDO is used: messages      *)
(* arrive in the notifier thread, threads wait for them, the application   *)
(* writes variables into the message and has it sent periodically.         *)
(*                                                                         *)
(* A message, or a value of a variable, is the set of the positions of its *)
(* ones; a negative value has ones up to the last bit of its type.         *)
(***************************************************************************)
EXTENDS Naturals, Sequences, FiniteSets

CONSTANTS
  Byte,       \* bits in a byte (8 in the code)
  Objects,    \* variables of the object dictionary that can be mapped
  Size,       \* bits of the type of each, whole bytes
  Signed,     \* those with a signed type
  Messages,   \* contents of messages that the device sends
  Waiters,    \* threads that call wait_for_reception
  None,       \* no COB-ID, no parameter
  Budgets     \* bounds: scenarios and what each allows

ASSUME PdoAssumption ==
  /\ Byte \in Nat \ {0}
  /\ Size \in [Objects -> {n * Byte : n \in 1 .. 4}]
  /\ Signed \subseteq Objects
  /\ None \notin Nat

VARIABLES
  map,        \* map: variables with their length and offset in bits
  length,     \* length
  data,       \* data
  conf,       \* cob_id, enabled, trans_type and the timers
  subscribed, \* COB-IDs at which the network calls on_message
  task,       \* _task: whether it runs, and what it sends
  received,   \* is_received
  stamp,      \* timestamp: how many messages have been received
  period,     \* whether the period is set: is_periodic then, whatever the type
  waiter,     \* the wait that each thread is in, or has done last
  written,    \* history: what was written to each variable of the message
  left        \* what the bounds still allow

dataVars == <<data, task, received, stamp, period, waiter, written>>
confVars == <<map, length, conf, subscribed>>

\* _update_data_size: a new message of the right size, all bits 0.
Cleared == {}
Unwritten(m) == [k \in DOMAIN m |-> None]

-----------------------------------------------------------------------------
\* PdoVariable.  A variable that does not begin and end with a byte is taken from
\* a window of the size of its type that begins with a byte.
First(var) == (var.offset \div Byte) * Byte
Shift(var) == var.offset % Byte
Packed(var) == Shift(var) # 0 \/ var.len % Byte # 0

Window(var) == {b - First(var) : b \in data \cap (First(var) .. First(var) + Size[var.obj] - 1)}

\* The field is shifted down; a number above half of its range is negative.
Field(var) == {b - Shift(var) : b \in Window(var) \cap (Shift(var) .. Shift(var) + var.len - 1)}

GetData(var) ==
  IF ~Packed(var) THEN Window(var)
  ELSE IF var.obj \in Signed /\ var.len - 1 \in Field(var) /\ Field(var) # {var.len - 1}
  THEN Field(var) \cup (var.len .. Size[var.obj] - 1)
  ELSE Field(var)

\* Mutant: old ones stay where the new value has a zero.
MergedOver(var, value) ==
  Window(var) \cup ({b + Shift(var) : b \in value} \cap (0 .. Size[var.obj] - 1))

\* The new value replaces the field, and is not cut to its length.
Merged(var, value) ==
  (Window(var) \ (Shift(var) .. Shift(var) + var.len - 1))
    \cup ({b + Shift(var) : b \in value} \cap (0 .. Size[var.obj] - 1))

NewWindow(var, value) == IF Packed(var) THEN Merged(var, value) ELSE value

WithValue(var, value) ==
  (data \ (First(var) .. First(var) + Size[var.obj] - 1))
    \cup {b + First(var) : b \in NewWindow(var, value)}

\* Values that fit the length of the variable.
Negative(var, value) == var.obj \in Signed /\ var.len - 1 \in value
Fitting(var) ==
  {IF Negative(var, low) THEN low \cup (var.len .. Size[var.obj] - 1) ELSE low :
     low \in SUBSET (0 .. var.len - 1)}

\* set_data with the update of the periodic message.
SetVariable(k, value) ==
  /\ left.writes > 0 /\ map[k].len > 0
  /\ left' = [left EXCEPT !.writes = @ - 1]
  /\ data' = WithValue(map[k], value)
  /\ task' = IF task.on THEN [task EXCEPT !.data = data'] ELSE task
  /\ written' = [written EXCEPT ![k] = value]
  /\ UNCHANGED <<confVars, received, stamp, period, waiter>>

-----------------------------------------------------------------------------
\* start, with or without a period, which raises if there is none or no COB-ID; it
\* stops a task that runs before.  And stop.
StartTask ==
  /\ left.tasks > 0
  /\ left' = [left EXCEPT !.tasks = @ - 1]
  /\ \E given \in BOOLEAN : period' = (given \/ period)
  /\ task' = IF period' /\ conf.cob # None THEN [on |-> TRUE, data |-> data]
             ELSE [on |-> FALSE, data |-> Cleared]
  /\ UNCHANGED <<confVars, data, received, stamp, waiter, written>>

StopTask ==
  /\ task.on
  /\ task' = [on |-> FALSE, data |-> Cleared]
  /\ UNCHANGED <<confVars, data, received, stamp, period, waiter, written, left>>

\* on_message, with the lock held from beginning to end.  While the map is sent
\* itself its messages are ignored.  The second message sets the period.
OnMessage(cob, content) ==
  /\ cob \in subscribed /\ cob = conf.cob /\ ~task.on
  /\ data' = content
  /\ received' = TRUE
  /\ stamp' = stamp + 1
  /\ period' = (period \/ stamp > 0)
  /\ written' = Unwritten(map)
  /\ waiter' = [w \in Waiters |->
       IF waiter[w].pc = "waiting" THEN [waiter[w] EXCEPT !.pc = "woken"] ELSE waiter[w]]
  /\ UNCHANGED <<confVars, task>>

\* wait_for_reception: the flag is cleared, with the lock held until it waits.
\* since and passed are history: the messages before, and waits that began meanwhile.
BeginWait(w) ==
  /\ waiter[w].pc = "idle" /\ left.waits > 0
  /\ left' = [left EXCEPT !.waits = @ - 1]
  /\ received' = FALSE
  /\ waiter' = [v \in Waiters |->
       IF v = w THEN [pc |-> "waiting", result |-> None, since |-> stamp,
                      expired |-> FALSE, passed |-> FALSE]
       ELSE [waiter[v] EXCEPT !.passed = TRUE]]
  /\ UNCHANGED <<confVars, data, task, stamp, period, written>>

WaitTimesOut(w) ==
  /\ waiter[w].pc = "waiting"
  /\ waiter' = [waiter EXCEPT ![w].pc = "woken", ![w].expired = TRUE]
  /\ UNCHANGED <<confVars, data, task, received, stamp, period, written, left>>

\* Mutant: the time stamp is returned whatever woke the thread.
StampAlways == stamp

StampIfReceived == IF received THEN stamp ELSE None

\* After the lock was released: the flag, then the time stamp.  (In one step: a
\* message between the two reads only makes the time stamp a later one.)
EndWait(w) ==
  /\ waiter[w].pc = "woken"
  /\ waiter' = [waiter EXCEPT ![w].pc = "idle", ![w].result = StampIfReceived]
  /\ UNCHANGED <<confVars, data, task, received, stamp, period, written, left>>

-----------------------------------------------------------------------------
\* wait_for_reception returns the time stamp of a message that arrived while it
\* waited; it returns None only if none arrived until its time was up, or if
\* another thread began to wait behind it and took the flag away.
PdoWaitsTellTheTruth ==
  \A w \in Waiters : waiter[w].pc = "idle" =>
    /\ waiter[w].result # None => waiter[w].result > waiter[w].since
    /\ waiter[w].result = None => waiter[w].expired \/ waiter[w].passed

\* A field that lies in the window of its type, at its end if the type is signed,
\* and that has the whole type if it has whole bytes.
Sound(var) ==
  /\ Shift(var) + var.len <= Size[var.obj]
  /\ var.obj \in Signed => Shift(var) + var.len = Size[var.obj]
  /\ Packed(var) \/ var.len = Size[var.obj]
  /\ First(var) + Size[var.obj] <= ((length + Byte - 1) \div Byte) * Byte

\* A variable reads as it was last written, whatever was written to those around
\* it, and the periodic message carries it.  Except the most negative number,
\* which get_data takes for a positive one.
ReadsAsWritten ==
  \A k \in DOMAIN map :
    written[k] # None /\ (\A j \in DOMAIN map : map[j].len = 0 \/ Sound(map[j])) =>
      /\ Field(map[k]) = written[k] \cap (0 .. map[k].len - 1)
      /\ Field(map[k]) # {map[k].len - 1} => GetData(map[k]) = written[k]
      /\ task.on => task.data = data

\* ":return: Timestamp of message received or None if timeout" (wait_for_reception):
\* None is for waits whose time was up.  Or whose flag another wait has cleared; this does
\* not hold (README, findings).
NoneMeansTimeout ==
  \A w \in Waiters : waiter[w].pc = "idle" /\ waiter[w].result = None => waiter[w].expired

\* "if the data is negative prepend signedness" (get_data): also the most negative
\* number reads as it was written.  It does not; this does not hold (README, findings).
NegativesAreRead ==
  \A k \in DOMAIN map :
    /\ written[k] # None /\ map[k].obj \in Signed
    /\ \A j \in DOMAIN map : map[j].len = 0 \/ Sound(map[j])
    => GetData(map[k]) = written[k]

=============================================================================
