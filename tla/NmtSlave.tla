------------------------------ MODULE NmtSlave ------------------------------
(***************************************************************************)
(* NmtSlave: the NMT state of a local node and its heartbeat.              *)
(*                                                                         *)
(* Two threads run its methods: the notifier, for commands and for writes  *)
(* of object 0x1017, and the application, which sets the state.  There is  *)
(* no lock, so every access to a shared attribute is a step of its own.  A *)
(* third thread, python-can's, sends the message of each running task.     *)
(***************************************************************************)
EXTENDS NmtBase

CONSTANTS
  NoTask,    \* None in _send_task
  MaxTasks,  \* bound: periodic tasks that exist at a time
  HasObject  \* object 0x1017 exists in the node's dictionary

ASSUME SlaveAssumption ==
  /\ MaxTasks \in Nat \ {0}
  /\ NoTask \notin 1..MaxTasks
  /\ HasObject \in BOOLEAN

Threads == {"app", "notifier"}
Tasks == 1..MaxTasks

VARIABLES
  sState,    \* _state
  sendTask,  \* _send_task
  running,   \* tasks that python-can sends
  payload,   \* the state in the message of each task
  hbTime,    \* stored value of object 0x1017: off (0) or on (1)
  thread,    \* what each thread does next, and its local variables
  unsent     \* history: the last change of the state ended with a boot-up
             \* message that could not be sent

slaveVars == <<sState, sendTask, running, payload, hbTime, thread, unsent>>

\* code: of the command.  old: old_state.  time: the heartbeat time to start
\* with.  task, state: what was read before an update, or the task just started.
ThreadStates ==
  [pc : {"idle", "set", "bootup", "transition", "check", "load", "update",
         "stop", "halt", "forget", "start", "assign", "store"},
   code : Codes \cup {0}, old : States, time : {0, 1},
   task : Tasks \cup {NoTask}, state : States]

IdleThread ==
  [pc |-> "idle", code |-> 0, old |-> INITIALISING, time |-> 0,
   task |-> NoTask, state |-> INITIALISING]

SlaveTypeOK ==
  /\ toSlave \in Seq(Commands \cup Writes)
  /\ sState \in States
  /\ sendTask \in Tasks \cup {NoTask}
  /\ running \subseteq Tasks
  /\ payload \in [Tasks -> States]
  /\ hbTime \in {0, 1}
  /\ thread \in [Threads -> ThreadStates]
  /\ unsent \in BOOLEAN

SlaveInit ==
  /\ sState = INITIALISING
  /\ sendTask = NoTask
  /\ running = {}
  /\ payload = [k \in Tasks |-> INITIALISING]
  /\ hbTime \in {0, 1}
  /\ HasObject \/ hbTime = 0
  /\ thread = [t \in Threads |-> IdleThread]
  /\ unsent = FALSE

In(t, pc) == thread[t].pc = pc
Goto(t, pc) == thread' = [thread EXCEPT ![t].pc = pc]
Done(t) == thread' = [thread EXCEPT ![t] = IdleThread]

-----------------------------------------------------------------------------
\* Mutant: the message of the heartbeat is not updated.
OnCommandKeepsPayload ==
  /\ In("notifier", "idle")
  /\ toSlave # <<>> /\ Head(toSlave).kind = "command"
  /\ toSlave' = Tail(toSlave)
  /\ sState' = Commanded(sState, Head(toSlave))
  /\ unsent' = FALSE
  /\ UNCHANGED <<toMaster, sendTask, running, payload, hbTime, thread>>

\* The notifier takes the next frame: on_command and on_write.
OnCommand ==
  /\ In("notifier", "idle")
  /\ toSlave # <<>> /\ Head(toSlave).kind = "command"
  /\ toSlave' = Tail(toSlave)
  /\ sState' = Commanded(sState, Head(toSlave))
  /\ Goto("notifier", "check")
  /\ unsent' = FALSE
  /\ UNCHANGED <<toMaster, sendTask, running, payload, hbTime>>

OnWrite ==
  /\ HasObject
  /\ In("notifier", "idle")
  /\ toSlave # <<>> /\ Head(toSlave).kind = "write"
  /\ toSlave' = Tail(toSlave)
  /\ thread' = [thread EXCEPT !["notifier"] =
       [IdleThread EXCEPT !.pc = "stop", !.time = Head(toSlave).time]]
  /\ UNCHANGED <<toMaster, sState, sendTask, running, payload, hbTime, unsent>>

\* The application sets the state: send_command.
SlaveCommand(code) ==
  /\ In("app", "idle")
  /\ thread' = [thread EXCEPT !["app"] =
       [IdleThread EXCEPT !.pc = "set", !.code = code, !.old = sState]]
  /\ UNCHANGED <<toSlave, toMaster, sState, sendTask, running, payload, hbTime, unsent>>

SetState ==
  /\ In("app", "set")
  /\ sState' = Assumed(sState, thread["app"].code)
  /\ Goto("app", "bootup")
  /\ unsent' = FALSE
  /\ UNCHANGED <<toSlave, toMaster, sendTask, running, payload, hbTime>>

SendBootup ==
  /\ In("app", "bootup")
  /\ IF sState = INITIALISING
     THEN toMaster' = Append(toMaster, [kind |-> "heartbeat", state |-> INITIALISING])
     ELSE UNCHANGED toMaster
  /\ Goto("app", "transition")
  /\ UNCHANGED <<toSlave, sState, sendTask, running, payload, hbTime, unsent>>

\* send_message raised: the heartbeat is not updated either.
SendBootupFails ==
  /\ In("app", "bootup")
  /\ sState = INITIALISING
  /\ Done("app")
  /\ unsent' = TRUE
  /\ UNCHANGED <<toSlave, toMaster, sState, sendTask, running, payload, hbTime>>

\* Leaving INITIALISING for PRE-OPERATIONAL starts the heartbeat.  Without object
\* 0x1017 that is all; with one that has no value the read raises out of the
\* setter (SdoAbortedError is no KeyError), and leaves the same state behind.
BootsUp == thread["app"].old = INITIALISING /\ sState = PRE_OPERATIONAL

Transition ==
  /\ In("app", "transition")
  /\ CASE ~BootsUp -> Goto("app", "check")
       [] BootsUp /\ ~HasObject -> Done("app")
       [] OTHER -> thread' = [thread EXCEPT !["app"].pc = "stop", !["app"].time = hbTime]
  /\ UNCHANGED <<toSlave, toMaster, sState, sendTask, running, payload, hbTime, unsent>>

-----------------------------------------------------------------------------
\* update_heartbeat.  A task that vanishes after the check is an AttributeError.
CheckTask(t) ==
  /\ In(t, "check")
  /\ IF sendTask = NoTask THEN Done(t) ELSE Goto(t, "load")
  /\ UNCHANGED <<toSlave, toMaster, sState, sendTask, running, payload, hbTime, unsent>>

LoadTask(t) ==
  /\ In(t, "load")
  /\ IF sendTask = NoTask THEN Done(t)
     ELSE thread' = [thread EXCEPT ![t].pc = "update", ![t].task = sendTask,
                                   ![t].state = sState]
  /\ UNCHANGED <<toSlave, toMaster, sState, sendTask, running, payload, hbTime, unsent>>

UpdateTask(t) ==
  /\ In(t, "update")
  /\ payload' = [payload EXCEPT ![thread[t].task] = thread[t].state]
  /\ Done(t)
  /\ UNCHANGED <<toSlave, toMaster, sState, sendTask, running, hbTime, unsent>>

-----------------------------------------------------------------------------
\* Mutant: the old task is not stopped.
CheckStopNever(t) ==
  /\ In(t, "stop")
  /\ Goto(t, "start")
  /\ UNCHANGED <<toSlave, toMaster, sState, sendTask, running, payload, hbTime, unsent>>

\* stop_heartbeat, then the rest of start_heartbeat.
CheckStop(t) ==
  /\ In(t, "stop")
  /\ Goto(t, IF sendTask = NoTask THEN "start" ELSE "halt")
  /\ UNCHANGED <<toSlave, toMaster, sState, sendTask, running, payload, hbTime, unsent>>

HaltTask(t) ==
  /\ In(t, "halt")
  /\ running' = running \ {sendTask}
  /\ IF sendTask = NoTask THEN Done(t) ELSE Goto(t, "forget")
  /\ UNCHANGED <<toSlave, toMaster, sState, sendTask, payload, hbTime, unsent>>

ForgetTask(t) ==
  /\ In(t, "forget")
  /\ sendTask' = NoTask
  /\ Goto(t, "start")
  /\ UNCHANGED <<toSlave, toMaster, sState, running, payload, hbTime, unsent>>

StartTask(t) ==
  /\ In(t, "start")
  /\ IF thread[t].time = 0
     THEN Goto(t, "store") /\ UNCHANGED <<running, payload>>
     ELSE LET InUse == running \cup {sendTask} \cup {thread[u].task : u \in Threads}
              k == CHOOSE i \in Tasks : i \notin InUse
          IN /\ Tasks \ InUse # {}
             /\ running' = running \cup {k}
             /\ payload' = [payload EXCEPT ![k] = sState]
             /\ thread' = [thread EXCEPT ![t].pc = "assign", ![t].task = k]
  /\ UNCHANGED <<toSlave, toMaster, sState, sendTask, hbTime, unsent>>

AssignTask(t) ==
  /\ In(t, "assign")
  /\ sendTask' = thread[t].task
  /\ Goto(t, "store")
  /\ UNCHANGED <<toSlave, toMaster, sState, running, payload, hbTime, unsent>>

\* After the write callback LocalNode.set_data stores the value.
StoreTime(t) ==
  /\ In(t, "store")
  /\ hbTime' = IF t = "notifier" THEN thread[t].time ELSE hbTime
  /\ Done(t)
  /\ UNCHANGED <<toSlave, toMaster, sState, sendTask, running, payload, unsent>>

HeartbeatStep(t) ==
  \/ CheckTask(t) \/ LoadTask(t) \/ UpdateTask(t)
  \/ CheckStop(t) \/ HaltTask(t) \/ ForgetTask(t)
  \/ StartTask(t) \/ AssignTask(t) \/ StoreTime(t)

AppStep == SetState \/ SendBootup \/ Transition \/ HeartbeatStep("app")

-----------------------------------------------------------------------------
\* The timer of a task sends its message.
SendHeartbeat(k) ==
  /\ k \in running
  /\ Len(toMaster) < MaxInFlight
  /\ toMaster' = Append(toMaster, [kind |-> "heartbeat", state |-> payload[k]])
  /\ UNCHANGED <<toSlave, slaveVars>>

=============================================================================
