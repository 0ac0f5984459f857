--------------------------------- MODULE Nmt ---------------------------------
(***************************************************************************)
(* A remote node's NmtMaster and the NmtSlave of the local node it stands  *)
(* for, on one bus, with other masters that send commands too.             *)
(***************************************************************************)
EXTENDS NmtMaster, NmtSlave

CONSTANTS
  Overlap,  \* the slave's threads may be inside its methods at the same time
  Budgets   \* bounds: the scenarios, each with what may happen in it

\* commands on the bus, commands of the slave's own application, writes of object
\* 0x1017, sends that raise CanError, and waits of each of the master's threads
BudgetsOf(N) ==
  [commands : N, calls : N, writes : N, failures : N, waits : [Waiters -> N]]

ASSUME BoundAssumption ==
  /\ Overlap \in BOOLEAN
  /\ Budgets \subseteq BudgetsOf(Nat)

VARIABLES
  left       \* what the bounds still allow

vars == <<toSlave, toMaster, masterVars, slaveVars, left>>

TypeOK ==
  /\ MasterTypeOK
  /\ SlaveTypeOK
  /\ left \in BudgetsOf(Nat)

Init ==
  /\ toSlave = <<>>
  /\ toMaster = <<>>
  /\ MasterInit
  /\ SlaveInit
  /\ left \in Budgets

-----------------------------------------------------------------------------
Spend(what) ==
  /\ left[what] > 0
  /\ left' = [left EXCEPT ![what] = @ - 1]

MasterCommands(code) ==
  /\ \/ Spend("commands") /\ SendCommand(code)
     \/ Spend("failures") /\ SendCommandFails(code)
  /\ UNCHANGED slaveVars

\* The network's own NmtMaster(0) or network.send_message: the frame is not
\* received by the network that sends it.
Broadcast(code) ==
  /\ Spend("commands")
  /\ toSlave' = Append(toSlave, [kind |-> "command", code |-> code, node |-> 0])
  /\ UNCHANGED <<toMaster, masterVars, slaveVars>>

\* A command of another master, which both ends receive.
OtherMasterCommands(code, node) ==
  /\ Spend("commands")
  /\ LET frame == [kind |-> "command", code |-> code, node |-> node] IN
       /\ toSlave' = Append(toSlave, frame)
       /\ toMaster' = Append(toMaster, frame)
  /\ UNCHANGED <<masterVars, slaveVars>>

WriteHeartbeatTime(time) ==
  /\ HasObject
  /\ Spend("writes")
  /\ toSlave' = Append(toSlave, [kind |-> "write", time |-> time])
  /\ UNCHANGED <<toMaster, masterVars, slaveVars>>

Wait(w, kind) ==
  /\ left.waits[w] > 0
  /\ left' = [left EXCEPT !.waits[w] = @ - 1]
  /\ BeginWait(w, kind)
  /\ UNCHANGED slaveVars

AppCommand(code) ==
  /\ Spend("calls")
  /\ SlaveCommand(code)
  /\ Overlap \/ In("notifier", "idle")
  /\ UNCHANGED masterVars

MasterNotifier ==
  /\ OnHeartbeat \/ OnMasterCommand
  /\ UNCHANGED <<slaveVars, left>>

SlaveNotifier ==
  /\ \/ /\ OnCommand \/ OnWrite
        /\ Overlap \/ In("app", "idle")
     \/ HeartbeatStep("notifier")
  /\ UNCHANGED <<masterVars, left>>

SlaveApp == AppStep /\ UNCHANGED <<masterVars, left>>

SlaveSendFails ==
  /\ Spend("failures")
  /\ SendBootupFails
  /\ UNCHANGED masterVars

MasterApp(w) == WaiterStep(w) /\ UNCHANGED <<slaveVars, left>>

TimePasses(w) == Expire(w) /\ UNCHANGED <<slaveVars, left>>

Timer(k) == SendHeartbeat(k) /\ UNCHANGED <<masterVars, left>>

Next ==
  \/ \E code \in Codes : MasterCommands(code) \/ Broadcast(code) \/ AppCommand(code)
  \/ \E code \in Codes, node \in {0, NodeId, OtherId} : OtherMasterCommands(code, node)
  \/ \E time \in {0, 1} : WriteHeartbeatTime(time)
  \/ \E w \in Waiters, kind \in {"heartbeat", "bootup"} : Wait(w, kind)
  \/ MasterNotifier \/ SlaveNotifier \/ SlaveApp \/ SlaveSendFails
  \/ \E w \in Waiters : MasterApp(w) \/ TimePasses(w)
  \/ \E k \in Tasks : Timer(k)

\* The notifier threads and the applications run, time passes, and the timer
\* of a running task fires again and again.
Fairness ==
  /\ WF_vars(MasterNotifier)
  /\ WF_vars(SlaveNotifier)
  /\ WF_vars(SlaveApp)
  /\ \A w \in Waiters : WF_vars(MasterApp(w)) /\ WF_vars(TimePasses(w))
  /\ \A k \in Tasks : SF_vars(Timer(k))

Spec == Init /\ [][Next]_vars /\ Fairness

-----------------------------------------------------------------------------
SlaveIdle == \A t \in Threads : In(t, "idle")

\* "The data part of the frame contains a byte indicating the node status"
\* (doc/nmt.rst): between two calls the slave's message holds its state, but
\* for a slave whose last boot-up message could not be sent: send_command raised
\* before it came to update_heartbeat.
HeartbeatTellsState ==
  SlaveIdle /\ sendTask # NoTask /\ ~unsent => payload[sendTask] = sState

\* Between two calls the only message that is sent is the one that the slave can
\* update and stop: start_heartbeat loses no task.
NoStrayTask == SlaveIdle => running = {sendTask} \ {NoTask}

Finished(w, kind, outcome) ==
  At(w, "idle") /\ waiter[w].kind = kind /\ waiter[w].outcome = outcome

Alone(w) == \A v \in Waiters \ {w} : waiter[v].outcome = "none"

\* A wait that returns has seen what it waited for: a heartbeat or boot-up
\* message that came after the wait began, whoever else waits or sends commands
\* (_state_received is cleared under the lock before each wait).  The wait for a
\* heartbeat of a thread that nobody else has waited beside fails only when none
\* came, not even a boot-up message, whose state is 0.
WaitsReportTruly ==
  \A w \in Waiters :
    /\ Finished(w, "heartbeat", "ok") => heard[w] # {}
    /\ Finished(w, "bootup", "ok") => INITIALISING \in heard[w]
    /\ Finished(w, "heartbeat", "failed") /\ Alone(w) => heard[w] = {}

\* Each wait ends, with a message or with an error.
WaitsEnd ==
  \A w \in Waiters : ~At(w, "idle") ~> At(w, "idle")

\* "If the node transmits heartbeat messages, the state attribute gets
\* automatically updated with current state" (doc/nmt.rst): when nobody sends
\* commands any more, the master comes to show the state of a slave whose
\* heartbeat runs, and goes on showing it; again but for a slave whose boot-up
\* message could not be sent.
MasterLearnsState ==
  <>[](sendTask # NoTask /\ ~unsent => mState = Shown(sState))

\* "Wait until a boot-up message is received" (wait_for_bootup): a thread that nobody
\* else has waited beside does not wait again once one has come in time.  It does if a
\* heartbeat follows; this does not hold (README, findings).
BootupEndsWait ==
  \A w \in Waiters :
    At(w, "waiting") /\ ~waiter[w].expired /\ waiter[w].kind = "bootup" /\ Alone(w) =>
      INITIALISING \notin heard[w]

=============================================================================
