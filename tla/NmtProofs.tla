------------------------------- MODULE NmtProofs -------------------------------
(***************************************************************************)
(* NMT, for any commands, any number of waiting threads and any bounds:    *)
(* the types, what waits report, and what the slave's heartbeat tells when *)
(* the slave's two threads take turns.                                     *)
(***************************************************************************)
EXTENDS Nmt, TLAPS

(***************************************************************************)
(* Types, one lemma per kind of step.                                      *)
(***************************************************************************)
Frames == Seq(Commands \cup Heartbeats)

LEMMA StatesOfTables ==
  /\ \A state \in States, frame \in Commands : Commanded(state, frame) \in States
  /\ \A state \in States, code \in Codes : Assumed(state, code) \in States
  /\ \A state \in States : Shown(state) \in States
<1>1. DOMAIN CommandToState = {1, 2, 80, 96, 128, 129, 130}
  BY DEF CommandToState
<1>2. \A code \in DOMAIN CommandToState : CommandToState[code] \in States
  BY DEF CommandToState, States, INITIALISING, STOPPED, OPERATIONAL, PRE_OPERATIONAL
<1>3. Commands = [kind : {"command"}, code : Codes, node : {0, NodeId, OtherId}]
  BY DEF Commands
<1>4. PRE_OPERATIONAL \in States
  BY DEF States
<1> QED BY <1>2, <1>4 DEF Commanded, Assumed, Shown

\* What a thread of the master does next, after a change of a few fields.
LEMMA WaiterFields ==
  ASSUME NEW r \in WaiterStates
  PROVE  /\ \A pc \in {"idle", "loop", "waiting", "woken", "returning"} :
              [r EXCEPT !.pc = pc] \in WaiterStates
         /\ \A late \in BOOLEAN : [r EXCEPT !.pc = "waiting", !.late = late] \in WaiterStates
         /\ [r EXCEPT !.expired = TRUE] \in WaiterStates
         /\ \A outcome \in {"ok", "failed"}, result \in States \cup {None} :
              [r EXCEPT !.pc = "idle", !.outcome = outcome, !.result = result,
                        !.expired = FALSE, !.late = FALSE] \in WaiterStates
BY DEF WaiterStates

LEMMA EndWaitTypes ==
  ASSUME waiter \in [Waiters -> WaiterStates], NEW w \in Waiters,
         NEW outcome \in {"ok", "failed"}, NEW result \in States \cup {None},
         EndWait(w, outcome, result)
  PROVE  waiter' \in [Waiters -> WaiterStates]
<1>1. waiter[w] \in WaiterStates
  OBVIOUS
<1> QED BY <1>1, WaiterFields DEF EndWait

LEMMA NmtInitTypes == Init => TypeOK
<1> SUFFICES ASSUME Init PROVE TypeOK
  OBVIOUS
<1>1. INITIALISING \in States
  BY DEF States
<1>2. MasterTypeOK
  <2>1. toMaster \in Seq(Commands \cup Heartbeats)
    BY DEF Init
  <2> QED BY <1>1, <2>1 DEF Init, MasterInit, MasterTypeOK, WaiterStates
<1>3. SlaveTypeOK
  <2>1. toSlave \in Seq(Commands \cup Writes)
    BY DEF Init
  <2>2. IdleThread \in ThreadStates
    BY <1>1 DEF IdleThread, ThreadStates
  <2>3. thread \in [Threads -> ThreadStates]
    BY <2>2 DEF Init, SlaveInit
  <2> QED BY <1>1, <2>1, <2>3 DEF Init, SlaveInit, SlaveTypeOK
<1>4. left \in BudgetsOf(Nat)
  BY BoundAssumption DEF Init
<1> QED BY <1>2, <1>3, <1>4 DEF TypeOK

LEMMA SpendTypes ==
  ASSUME left \in BudgetsOf(Nat), NEW what \in {"commands", "calls", "writes", "failures"},
         Spend(what)
  PROVE  left' \in BudgetsOf(Nat)
BY DEF BudgetsOf, Spend

LEMMA MasterNotifierTypes ==
  ASSUME TypeOK, OnHeartbeat \/ OnMasterCommand
  PROVE  MasterTypeOK' /\ UNCHANGED toSlave
<1> USE DEF TypeOK, MasterTypeOK
<1>1. CASE OnHeartbeat
  <2>1. /\ Head(toMaster) \in Commands \cup Heartbeats
        /\ Tail(toMaster) \in Seq(Commands \cup Heartbeats)
        /\ Head(toMaster).kind = "heartbeat"
    BY <1>1 DEF OnHeartbeat
  <2>2. Head(toMaster).state \in States
    BY <2>1 DEF Commands, Heartbeats
  <2>3. waiter' \in [Waiters -> WaiterStates]
    <3>1. \A w \in Waiters : [waiter[w] EXCEPT !.pc = "woken"] \in WaiterStates
      BY WaiterFields
    <3> QED BY <1>1, <3>1 DEF OnHeartbeat
  <2>4. heard' \in [Waiters -> SUBSET States]
    BY <1>1, <2>2 DEF OnHeartbeat
  <2> QED BY <1>1, <2>1, <2>2, <2>3, <2>4, StatesOfTables DEF OnHeartbeat
<1>2. CASE OnMasterCommand
  <2>1. /\ Head(toMaster) \in Commands \cup Heartbeats
        /\ Tail(toMaster) \in Seq(Commands \cup Heartbeats)
        /\ Head(toMaster).kind = "command"
    BY <1>2 DEF OnMasterCommand
  <2>2. Head(toMaster) \in Commands
    BY <2>1 DEF Commands, Heartbeats
  <2> QED BY <1>2, <2>1, <2>2, StatesOfTables DEF OnMasterCommand
<1> QED BY <1>1, <1>2

LEMMA WaiterTypes ==
  ASSUME TypeOK, NEW w \in Waiters, WaiterStep(w) \/ Expire(w)
  PROVE  MasterTypeOK' /\ UNCHANGED <<toSlave, toMaster, heard, mState>>
<1> USE DEF TypeOK, MasterTypeOK
<1>0. waiter[w] \in WaiterStates
  OBVIOUS
<1>1. CASE ClearAndWait(w)
  <2>1. waiter[w].expired \in BOOLEAN
    BY <1>0 DEF WaiterStates
  <2>2. waiter' = [waiter EXCEPT ![w] = [waiter[w] EXCEPT !.pc = "waiting", !.late = waiter[w].expired]]
    BY <1>1 DEF ClearAndWait
  <2>3. waiter' \in [Waiters -> WaiterStates]
    BY <1>0, <2>1, <2>2, WaiterFields
  <2> QED BY <1>1, <2>3 DEF ClearAndWait, ForgetReceived
<1>2. CASE Expire(w)
  BY <1>0, <1>2, WaiterFields DEF Expire
<1>3. CASE WaitTimesOut(w)
  BY <1>0, <1>3, WaiterFields DEF WaitTimesOut
<1>4. CASE CheckHeartbeat(w)
  <2>1. waiter' \in [Waiters -> WaiterStates]
    <3>1. CASE EndWait(w, "failed", None)
      BY <3>1, EndWaitTypes
    <3>2. CASE waiter' = [waiter EXCEPT ![w].pc = "returning"]
      BY <1>0, <3>2, WaiterFields
    <3> QED BY <1>4, <3>1, <3>2 DEF CheckHeartbeat
  <2> QED BY <1>4, <2>1 DEF CheckHeartbeat
<1>5. CASE ReturnState(w)
  <2>1. waiter' \in [Waiters -> WaiterStates]
    BY <1>5, EndWaitTypes DEF ReturnState
  <2> QED BY <1>5, <2>1 DEF ReturnState
<1>6. CASE CheckBootup(w)
  <2>1. waiter' \in [Waiters -> WaiterStates]
    <3>1. CASE EndWait(w, "failed", None)
      BY <3>1, EndWaitTypes
    <3>2. CASE EndWait(w, "ok", None)
      BY <3>2, EndWaitTypes
    <3>3. CASE waiter' = [waiter EXCEPT ![w].pc = "loop"]
      BY <1>0, <3>3, WaiterFields
    <3> QED BY <1>6, <3>1, <3>2, <3>3 DEF CheckBootup
  <2> QED BY <1>6, <2>1 DEF CheckBootup
<1> QED BY <1>1, <1>2, <1>3, <1>4, <1>5, <1>6 DEF WaiterStep, TypeOK

\* What a thread of the slave does next.
LEMMA ThreadFields ==
  ASSUME NEW r \in ThreadStates
  PROVE  /\ IdleThread \in ThreadStates
         /\ \A pc \in {"idle", "bootup", "transition", "check", "load", "stop", "halt",
                       "forget", "start", "store"} : [r EXCEPT !.pc = pc] \in ThreadStates
         /\ \A pc \in {"update", "assign"}, task \in Tasks :
              /\ [r EXCEPT !.pc = pc, !.task = task] \in ThreadStates
              /\ \A state \in States :
                   [r EXCEPT !.pc = pc, !.task = task, !.state = state] \in ThreadStates
         /\ \A time \in {0, 1} :
              /\ [r EXCEPT !.pc = "stop", !.time = time] \in ThreadStates
              /\ [IdleThread EXCEPT !.pc = "stop", !.time = time] \in ThreadStates
         /\ \A code \in Codes, old \in States :
              [IdleThread EXCEPT !.pc = "set", !.code = code, !.old = old] \in ThreadStates
<1>1. IdleThread \in ThreadStates
  BY DEF ThreadStates, IdleThread, States
<1>2. \A pc \in {"idle", "bootup", "transition", "check", "load", "stop", "halt",
                  "forget", "start", "store"} : [r EXCEPT !.pc = pc] \in ThreadStates
  BY DEF ThreadStates
<1>3. ASSUME NEW pc \in {"update", "assign"}, NEW task \in Tasks
      PROVE  /\ [r EXCEPT !.pc = pc, !.task = task] \in ThreadStates
             /\ \A state \in States :
                  [r EXCEPT !.pc = pc, !.task = task, !.state = state] \in ThreadStates
  BY DEF ThreadStates
<1>4. ASSUME NEW time \in {0, 1}
      PROVE  /\ [r EXCEPT !.pc = "stop", !.time = time] \in ThreadStates
             /\ [IdleThread EXCEPT !.pc = "stop", !.time = time] \in ThreadStates
  <2> HIDE DEF IdleThread
  <2> QED BY <1>1 DEF ThreadStates
<1>5. ASSUME NEW code \in Codes, NEW old \in States
      PROVE  [IdleThread EXCEPT !.pc = "set", !.code = code, !.old = old] \in ThreadStates
  <2> HIDE DEF IdleThread
  <2> QED BY <1>1, ZenonT(30) DEF ThreadStates
<1> QED BY <1>1, <1>2, <1>3, <1>4, <1>5

\* The thread t's record after Goto and Done.
LEMMA GotoTypes ==
  ASSUME TypeOK, NEW t \in Threads,
         NEW pc \in {"idle", "bootup", "transition", "check", "load", "stop", "halt",
                     "forget", "start", "store"},
         Goto(t, pc) \/ Done(t)
  PROVE  thread' \in [Threads -> ThreadStates]
<1>1. thread[t] \in ThreadStates /\ thread \in [Threads -> ThreadStates]
  BY DEF TypeOK, SlaveTypeOK
<1> QED BY ZenonT(60), <1>1, ThreadFields DEF Goto, Done

LEMMA SlaveFrameTypes ==
  ASSUME TypeOK, OnCommand \/ OnWrite
  PROVE  SlaveTypeOK' /\ UNCHANGED toMaster
<1> USE DEF TypeOK, SlaveTypeOK
<1>1. "notifier" \in Threads
  BY DEF Threads
<1>2. CASE OnCommand
  <2>1. /\ Head(toSlave) \in Commands \cup Writes
        /\ Tail(toSlave) \in Seq(Commands \cup Writes)
        /\ Head(toSlave).kind = "command"
    BY <1>2 DEF OnCommand
  <2>2. Head(toSlave) \in Commands
    BY <2>1 DEF Commands, Writes
  <2>3. thread' \in [Threads -> ThreadStates]
    BY <1>1, <1>2, GotoTypes DEF OnCommand
  <2> QED BY <1>2, <2>1, <2>2, <2>3, StatesOfTables DEF OnCommand
<1>3. CASE OnWrite
  <2>1. /\ Head(toSlave) \in Commands \cup Writes
        /\ Tail(toSlave) \in Seq(Commands \cup Writes)
        /\ Head(toSlave).kind = "write"
    BY <1>3 DEF OnWrite
  <2>2. Head(toSlave).time \in {0, 1}
    BY <2>1 DEF Commands, Writes
  <2>3. thread' \in [Threads -> ThreadStates]
    BY <1>1, <1>3, <2>2, ThreadFields DEF OnWrite
  <2> QED BY <1>3, <2>1, <2>3 DEF OnWrite
<1> QED BY <1>2, <1>3

LEMMA SlaveCallTypes ==
  ASSUME TypeOK,
         \/ SetState \/ SendBootup \/ SendBootupFails \/ Transition
         \/ \E code \in Codes : SlaveCommand(code)
  PROVE  SlaveTypeOK' /\ toMaster' \in Frames
<1> USE DEF TypeOK, SlaveTypeOK
<1>0. /\ "app" \in Threads /\ thread["app"] \in ThreadStates
      /\ toMaster \in Frames
  BY DEF Threads, MasterTypeOK, Frames
<1>1. CASE SetState
  <2>1. thread' \in [Threads -> ThreadStates]
    BY <1>0, <1>1, GotoTypes DEF SetState
  <2>2. thread["app"].code \in Codes \cup {0}
    BY <1>0 DEF ThreadStates
  <2>3. Assumed(sState, thread["app"].code) \in States
    <3>1. Assumed(sState, 0) = sState
      BY DEF Assumed, CommandToState
    <3> QED BY <2>2, <3>1, StatesOfTables
  <2> QED BY <1>0, <1>1, <2>1, <2>3 DEF SetState
<1>2. CASE SendBootup
  <2>1. [kind |-> "heartbeat", state |-> INITIALISING] \in Commands \cup Heartbeats
    BY DEF Heartbeats, States
  <2>2. toMaster' \in Frames
    BY SMTT(30), <1>0, <1>2, <2>1 DEF SendBootup, Frames
  <2>3. thread' \in [Threads -> ThreadStates]
    BY <1>0, <1>2, GotoTypes DEF SendBootup
  <2> QED BY <1>2, <2>2, <2>3 DEF SendBootup
<1>3. CASE SendBootupFails
  <2>1. thread' \in [Threads -> ThreadStates]
    BY <1>0, <1>3, GotoTypes DEF SendBootupFails
  <2> QED BY <1>0, <1>3, <2>1 DEF SendBootupFails
<1>4. CASE Transition
  <2>1. thread' \in [Threads -> ThreadStates]
    <3>1. CASE Goto("app", "check") \/ Done("app")
      BY <1>0, <3>1, GotoTypes
    <3>2. CASE thread' = [thread EXCEPT !["app"].pc = "stop", !["app"].time = hbTime]
      <4>1. thread' = [thread EXCEPT !["app"] = [thread["app"] EXCEPT !.pc = "stop", !.time = hbTime]]
        BY <1>0, <3>2
      <4> QED BY <1>0, <4>1, ThreadFields
    <3> QED BY <1>4, <3>1, <3>2 DEF Transition
  <2> QED BY <1>0, <1>4, <2>1 DEF Transition
<1>5. ASSUME NEW code \in Codes, SlaveCommand(code)
      PROVE  SlaveTypeOK' /\ toMaster' \in Frames
  <2>1. thread' \in [Threads -> ThreadStates]
    BY <1>0, <1>5, ThreadFields DEF SlaveCommand
  <2> QED BY <1>0, <1>5, <2>1 DEF SlaveCommand
<1> QED BY <1>1, <1>2, <1>3, <1>4, <1>5

\* The new task is none that exists.
LEMMA NewTask ==
  ASSUME NEW S, Tasks \ S # {}
  PROVE  (CHOOSE i \in Tasks : i \notin S) \in Tasks \ S
OBVIOUS

LEMMA HeartbeatTypes ==
  ASSUME TypeOK, NEW t \in Threads, HeartbeatStep(t)
  PROVE  SlaveTypeOK' /\ UNCHANGED toMaster
<1> USE DEF TypeOK, SlaveTypeOK
<1>0. /\ thread[t] \in ThreadStates
      /\ thread[t].task \in Tasks \cup {NoTask} /\ thread[t].state \in States
      /\ thread[t].time \in {0, 1}
  BY DEF ThreadStates
<1>1. CASE CheckTask(t)
  <2>1. thread' \in [Threads -> ThreadStates]
    BY <1>1, GotoTypes DEF CheckTask
  <2> QED BY <1>1, <2>1 DEF CheckTask
<1>2. CASE LoadTask(t)
  <2>1. thread' \in [Threads -> ThreadStates]
    <3>1. CASE sendTask = NoTask
      BY <1>2, <3>1, GotoTypes DEF LoadTask
    <3>2. CASE sendTask # NoTask
      <4>1. thread' = [thread EXCEPT ![t] =
              [thread[t] EXCEPT !.pc = "update", !.task = sendTask, !.state = sState]]
        BY <1>2, <3>2 DEF LoadTask
      <4> QED BY <1>0, <3>2, <4>1, ThreadFields
    <3> QED BY <3>1, <3>2
  <2> QED BY <1>2, <2>1 DEF LoadTask
<1>3. CASE UpdateTask(t)
  <2>1. thread' \in [Threads -> ThreadStates]
    BY <1>3, GotoTypes DEF UpdateTask
  <2>2. payload' \in [Tasks -> States]
    BY <1>0, <1>3 DEF UpdateTask
  <2> QED BY <1>3, <2>1, <2>2 DEF UpdateTask
<1>4. CASE CheckStop(t)
  <2>1. thread' \in [Threads -> ThreadStates]
    BY <1>4, GotoTypes DEF CheckStop
  <2> QED BY <1>4, <2>1 DEF CheckStop
<1>5. CASE HaltTask(t)
  <2>1. thread' \in [Threads -> ThreadStates]
    BY <1>5, GotoTypes DEF HaltTask
  <2> QED BY <1>5, <2>1 DEF HaltTask
<1>6. CASE ForgetTask(t)
  <2>1. thread' \in [Threads -> ThreadStates]
    BY <1>6, GotoTypes DEF ForgetTask
  <2> QED BY <1>6, <2>1 DEF ForgetTask
<1>7. CASE StartTask(t)
  <2>1. CASE thread[t].time = 0
    <3>1. thread' \in [Threads -> ThreadStates]
      BY <1>7, <2>1, GotoTypes DEF StartTask
    <3> QED BY <1>7, <2>1, <3>1 DEF StartTask
  <2>2. CASE thread[t].time # 0
    <3> DEFINE InUse == running \cup {sendTask} \cup {thread[u].task : u \in Threads}
               k == CHOOSE i \in Tasks : i \notin InUse
    <3>1. /\ Tasks \ InUse # {}
          /\ running' = running \cup {k}
          /\ payload' = [payload EXCEPT ![k] = sState]
          /\ thread' = [thread EXCEPT ![t].pc = "assign", ![t].task = k]
      BY <1>7, <2>2 DEF StartTask
    <3>2. k \in Tasks
      BY <3>1, NewTask
    <3> HIDE DEF k
    <3>3. thread' = [thread EXCEPT ![t] = [thread[t] EXCEPT !.pc = "assign", !.task = k]]
      BY <3>1
    <3>4. thread' \in [Threads -> ThreadStates]
      BY <1>0, <3>2, <3>3, ThreadFields
    <3>5. payload' \in [Tasks -> States]
      BY <3>1, <3>2
    <3> QED BY <1>7, <3>1, <3>2, <3>4, <3>5 DEF StartTask
  <2> QED BY <2>1, <2>2
<1>8. CASE AssignTask(t)
  <2>1. thread' \in [Threads -> ThreadStates]
    BY <1>8, GotoTypes DEF AssignTask
  <2> QED BY <1>0, <1>8, <2>1 DEF AssignTask
<1>9. CASE StoreTime(t)
  <2>1. thread' \in [Threads -> ThreadStates]
    BY <1>9, GotoTypes DEF StoreTime
  <2> QED BY <1>0, <1>9, <2>1 DEF StoreTime
<1> QED BY <1>1, <1>2, <1>3, <1>4, <1>5, <1>6, <1>7, <1>8, <1>9 DEF HeartbeatStep

LEMMA MasterSendTypes ==
  ASSUME TypeOK,
         \/ \E code \in Codes : SendCommand(code) \/ SendCommandFails(code)
         \/ \E w \in Waiters, kind \in {"heartbeat", "bootup"} : BeginWait(w, kind)
  PROVE  MasterTypeOK' /\ toSlave' \in Seq(Commands \cup Writes)
<1> USE DEF TypeOK, MasterTypeOK, SlaveTypeOK
<1>1. ASSUME NEW code \in Codes, SendCommand(code) \/ SendCommandFails(code)
      PROVE  MasterTypeOK' /\ toSlave' \in Seq(Commands \cup Writes)
  <2> DEFINE frame == [kind |-> "command", code |-> code, node |-> NodeId]
  <2>1. toSlave' = toSlave \/ toSlave' = Append(toSlave, frame)
    BY <1>1 DEF SendCommand, SendCommandFails
  <2>2. frame \in Commands
    BY DEF Commands
  <2> HIDE DEF frame
  <2>3. Append(toSlave, frame) \in Seq(Commands \cup Writes)
    BY <2>2
  <2>4. toSlave' \in Seq(Commands \cup Writes)
    BY <2>1, <2>3
  <2> QED BY <1>1, <2>4, StatesOfTables DEF SendCommand, SendCommandFails
<1>2. ASSUME NEW w \in Waiters, NEW kind \in {"heartbeat", "bootup"}, BeginWait(w, kind)
      PROVE  MasterTypeOK' /\ toSlave' \in Seq(Commands \cup Writes)
  <2>1. [pc |-> "waiting", kind |-> kind, expired |-> FALSE, late |-> FALSE,
         outcome |-> "running", result |-> None] \in WaiterStates
    BY DEF WaiterStates
  <2> QED BY <1>2, <2>1 DEF BeginWait, ForgetReceived
<1> QED BY <1>1, <1>2

\* Frames that come from elsewhere.
LEMMA BusTypes ==
  ASSUME TypeOK,
         \/ \E code \in Codes : Broadcast(code)
         \/ \E code \in Codes, node \in {0, NodeId, OtherId} : OtherMasterCommands(code, node)
         \/ \E time \in {0, 1} : WriteHeartbeatTime(time)
  PROVE  TypeOK'
<1> USE DEF TypeOK, MasterTypeOK, SlaveTypeOK
<1>1. ASSUME NEW code \in Codes, NEW node \in {0, NodeId, OtherId}
      PROVE  [kind |-> "command", code |-> code, node |-> node] \in Commands
  BY DEF Commands
<1>2. ASSUME NEW code \in Codes, Broadcast(code)
      PROVE  TypeOK'
  <2> DEFINE frame == [kind |-> "command", code |-> code, node |-> 0]
  <2>0. frame \in Commands /\ toSlave' = Append(toSlave, frame)
    BY <1>1, <1>2 DEF Broadcast
  <2> HIDE DEF frame
  <2>1. toSlave' \in Seq(Commands \cup Writes)
    BY <2>0
  <2> QED BY <1>2, <2>1, SpendTypes DEF Broadcast, masterVars, slaveVars
<1>3. ASSUME NEW code \in Codes, NEW node \in {0, NodeId, OtherId}, OtherMasterCommands(code, node)
      PROVE  TypeOK'
  <2> DEFINE frame == [kind |-> "command", code |-> code, node |-> node]
  <2>1. frame \in Commands
    BY <1>1
  <2>2. toSlave' = Append(toSlave, frame) /\ toMaster' = Append(toMaster, frame)
    BY <1>3 DEF OtherMasterCommands
  <2> HIDE DEF frame
  <2>3. toSlave' \in Seq(Commands \cup Writes) /\ toMaster' \in Seq(Commands \cup Heartbeats)
    BY <2>1, <2>2
  <2> QED BY <1>3, <2>3, SpendTypes DEF OtherMasterCommands, masterVars, slaveVars
<1>4. ASSUME NEW time \in {0, 1}, WriteHeartbeatTime(time)
      PROVE  TypeOK'
  <2> DEFINE frame == [kind |-> "write", time |-> time]
  <2>1. frame \in Writes /\ toSlave' = Append(toSlave, frame)
    BY <1>4 DEF Writes, WriteHeartbeatTime
  <2> HIDE DEF frame
  <2>2. toSlave' \in Seq(Commands \cup Writes)
    BY <2>1
  <2> QED BY <1>4, <2>2, SpendTypes DEF WriteHeartbeatTime, masterVars, slaveVars
<1> QED BY <1>2, <1>3, <1>4

LEMMA TimerTypes ==
  ASSUME TypeOK, NEW k \in Tasks, SendHeartbeat(k)
  PROVE  toMaster' \in Frames /\ UNCHANGED <<toSlave, slaveVars>>
<1>1. toMaster \in Frames /\ payload[k] \in States
  BY DEF TypeOK, MasterTypeOK, SlaveTypeOK, Frames
<1>2. [kind |-> "heartbeat", state |-> payload[k]] \in Commands \cup Heartbeats
  BY <1>1 DEF Heartbeats
<1> QED BY <1>1, <1>2 DEF SendHeartbeat, Frames

LEMMA NmtNextTypes == TypeOK /\ [Next]_vars => TypeOK'
<1> SUFFICES ASSUME TypeOK, [Next]_vars PROVE TypeOK'
  OBVIOUS
<1> USE DEF TypeOK
<1>0. MasterTypeOK /\ SlaveTypeOK /\ left \in BudgetsOf(Nat)
  OBVIOUS
<1>1. ASSUME NEW code \in Codes, MasterCommands(code)
      PROVE  TypeOK'
  <2>1. SendCommand(code) \/ SendCommandFails(code)
    BY <1>1 DEF MasterCommands
  <2>2. MasterTypeOK' /\ toSlave' \in Seq(Commands \cup Writes)
    BY <2>1, MasterSendTypes
  <2>3. left' \in BudgetsOf(Nat)
    BY <1>1, SpendTypes DEF MasterCommands
  <2> QED BY <1>1, <2>2, <2>3 DEF MasterCommands, SlaveTypeOK, slaveVars
<1>2. ASSUME NEW code \in Codes, AppCommand(code)
      PROVE  TypeOK'
  <2>1. SlaveTypeOK' /\ toMaster' \in Frames
    BY <1>2, SlaveCallTypes DEF AppCommand
  <2>2. left' \in BudgetsOf(Nat)
    BY <1>2, SpendTypes DEF AppCommand
  <2> QED BY <1>2, <2>1, <2>2 DEF AppCommand, MasterTypeOK, masterVars, Frames
<1>3. ASSUME NEW w \in Waiters, NEW kind \in {"heartbeat", "bootup"}, Wait(w, kind)
      PROVE  TypeOK'
  <2>1. MasterTypeOK' /\ toSlave' \in Seq(Commands \cup Writes)
    BY <1>3, MasterSendTypes DEF Wait
  <2>2. left' \in BudgetsOf(Nat)
    <3>1. /\ left.waits \in [Waiters -> Nat] /\ left.waits[w] \in Nat /\ left.waits[w] > 0
          /\ left' = [left EXCEPT !.waits[w] = @ - 1]
      BY <1>3 DEF Wait, BudgetsOf
    <3>2. [left.waits EXCEPT ![w] = @ - 1] \in [Waiters -> Nat]
      BY <3>1
    <3> QED BY <3>1, <3>2 DEF BudgetsOf
  <2> QED BY <1>3, <2>1, <2>2 DEF Wait, SlaveTypeOK, slaveVars
<1>4. CASE MasterNotifier
  <2>1. MasterTypeOK' /\ UNCHANGED toSlave
    BY <1>4, MasterNotifierTypes DEF MasterNotifier
  <2> QED BY <1>4, <2>1 DEF MasterNotifier, SlaveTypeOK, slaveVars
<1>5. CASE SlaveNotifier
  <2>1. SlaveTypeOK' /\ UNCHANGED toMaster
    BY <1>5, SlaveFrameTypes, HeartbeatTypes DEF SlaveNotifier, Threads
  <2> QED BY <1>5, <2>1 DEF SlaveNotifier, MasterTypeOK, masterVars
<1>6. CASE SlaveApp
  <2>1. SlaveTypeOK' /\ toMaster' \in Frames
    <3>1. CASE HeartbeatStep("app")
      BY <3>1, HeartbeatTypes DEF Threads, MasterTypeOK, Frames
    <3> QED BY <1>6, <3>1, SlaveCallTypes DEF SlaveApp, AppStep
  <2> QED BY <1>6, <2>1 DEF SlaveApp, MasterTypeOK, masterVars, Frames
<1>7. CASE SlaveSendFails
  <2>1. SlaveTypeOK' /\ toMaster' \in Frames
    BY <1>7, SlaveCallTypes DEF SlaveSendFails
  <2>2. left' \in BudgetsOf(Nat)
    BY <1>7, SpendTypes DEF SlaveSendFails
  <2> QED BY <1>7, <2>1, <2>2 DEF SlaveSendFails, MasterTypeOK, masterVars, Frames
<1>8. ASSUME NEW w \in Waiters, MasterApp(w) \/ TimePasses(w)
      PROVE  TypeOK'
  <2>1. WaiterStep(w) \/ Expire(w)
    BY <1>8 DEF MasterApp, TimePasses
  <2>2. MasterTypeOK' /\ UNCHANGED <<toSlave, toMaster, heard, mState>>
    BY <2>1, WaiterTypes
  <2> QED BY <1>8, <2>2 DEF MasterApp, TimePasses, SlaveTypeOK, slaveVars
<1>9. ASSUME NEW k \in Tasks, Timer(k)
      PROVE  TypeOK'
  <2>1. toMaster' \in Frames /\ UNCHANGED <<toSlave, slaveVars>>
    BY <1>9, TimerTypes DEF Timer
  <2> QED BY <1>9, <2>1 DEF Timer, MasterTypeOK, masterVars, SlaveTypeOK, slaveVars, Frames
<1>10. CASE UNCHANGED vars
  BY <1>10 DEF vars, masterVars, slaveVars, MasterTypeOK, SlaveTypeOK
<1> QED BY <1>1, <1>2, <1>3, <1>4, <1>5, <1>6, <1>7, <1>8, <1>9, <1>10, BusTypes DEF Next

\* Every state, frame and local variable has its type, whatever commands, writes
\* and waits there are: a command code that the library does not know never
\* becomes a state (on_command, send_command), and every heartbeat has a state.
THEOREM NmtTypesHold == Spec => []TypeOK
<1> QED BY NmtInitTypes, NmtNextTypes, PTL DEF Spec

(***************************************************************************)
(* What waits report.                                                      *)
(***************************************************************************)
\* A thread that is in its wait is counted as such in the history.
InWait == \A w \in Waiters : waiter[w].outcome = "running" <=> ~At(w, "idle")

\* What is in _state_received came during the wait of all who are in one, since
\* each of them cleared it as it began.
ReceivedIsHeard ==
  \A w \in Waiters : ~At(w, "idle") /\ mReceived # None => mReceived \in heard[w]

\* A thread that is about to return the state has found that something came.
ReturnsWhatCame == \A w \in Waiters : At(w, "returning") => heard[w] # {}

\* Nobody clears what has come for a thread that waits for a heartbeat alone.
NothingLost ==
  \A w \in Waiters :
    Alone(w) /\ ~At(w, "idle") /\ waiter[w].kind = "heartbeat" /\ mReceived = None
      => heard[w] = {}

\* Only wait_for_bootup has rounds, only wait_for_heartbeat returns a state.
KindsFit ==
  \A w \in Waiters : /\ At(w, "loop") => waiter[w].kind = "bootup"
                     /\ At(w, "returning") => waiter[w].kind = "heartbeat"

WaitInv ==
  InWait /\ ReceivedIsHeard /\ ReturnsWhatCame /\ NothingLost /\ KindsFit /\ WaitsReportTruly

LEMMA WaitsInit == Init => WaitInv
BY DEF Init, MasterInit, WaitInv, InWait, ReceivedIsHeard, ReturnsWhatCame, NothingLost,
       KindsFit, WaitsReportTruly, Finished, At

LEMMA HeartbeatKeepsWaits ==
  ASSUME TypeOK, WaitInv, OnHeartbeat
  PROVE  WaitInv'
<1> DEFINE state == Head(toMaster).state
<1>1. /\ mReceived' = state
      /\ waiter' = [w \in Waiters |->
           IF At(w, "waiting") THEN [waiter[w] EXCEPT !.pc = "woken"] ELSE waiter[w]]
      /\ heard' = [w \in Waiters |->
           IF waiter[w].outcome = "running" THEN heard[w] \cup {state} ELSE heard[w]]
  BY DEF OnHeartbeat
<1>2. waiter \in [Waiters -> WaiterStates] /\ heard \in [Waiters -> SUBSET States]
  BY DEF TypeOK, MasterTypeOK
<1>3. state # None
  <2>1. Head(toMaster) \in Commands \cup Heartbeats /\ Head(toMaster).kind = "heartbeat"
    BY DEF TypeOK, MasterTypeOK, OnHeartbeat
  <2> QED BY <2>1, NoneAssumption DEF Commands, Heartbeats
<1> HIDE DEF state
<1>4. ASSUME NEW w \in Waiters
      PROVE  /\ waiter'[w].outcome = waiter[w].outcome /\ waiter'[w].kind = waiter[w].kind
             /\ At(w, "idle")' <=> At(w, "idle")
             /\ At(w, "returning")' <=> At(w, "returning")
             /\ At(w, "loop")' <=> At(w, "loop")
             /\ heard[w] \subseteq heard'[w]
             /\ At(w, "idle") => heard'[w] = heard[w]
             /\ ~At(w, "idle") => state \in heard'[w]
  BY <1>1, <1>2 DEF At, WaiterStates, WaitInv, InWait
<1>5. InWait' /\ ReturnsWhatCame' /\ KindsFit'
  BY <1>4 DEF WaitInv, InWait, ReturnsWhatCame, KindsFit
<1>6. ReceivedIsHeard' /\ NothingLost'
  BY <1>1, <1>3, <1>4 DEF ReceivedIsHeard, NothingLost
<1>7. WaitsReportTruly'
  <2>1. \A w \in Waiters : Alone(w)' => Alone(w)
    BY <1>4 DEF Alone
  <2> QED BY <1>4, <2>1 DEF WaitInv, WaitsReportTruly, Finished
<1> QED BY <1>5, <1>6, <1>7 DEF WaitInv

\* The steps of one thread that leave what was heard alone.  A round that
\* begins clears what was received, but its thread does not wait alone for a heartbeat.
LEMMA StepKeepsWaits ==
  ASSUME TypeOK, WaitInv, NEW v \in Waiters, WaiterStep(v) \/ Expire(v)
  PROVE  WaitInv'
<1>0. waiter \in [Waiters -> WaiterStates] /\ waiter[v] \in WaiterStates /\ UNCHANGED heard
  BY WaiterTypes DEF TypeOK, MasterTypeOK
<1> USE DEF WaitInv
<1>1. \A w \in Waiters \ {v} : waiter'[w] = waiter[w]
  BY <1>0 DEF WaiterStep, Expire, ClearAndWait, WaitTimesOut, CheckHeartbeat, ReturnState,
              CheckBootup, EndWait
<1>2. ASSUME ~At(v, "idle"), ~At(v, "idle")', waiter'[v].kind = waiter[v].kind,
             waiter'[v].outcome = waiter[v].outcome, mReceived' \in {mReceived, None},
             At(v, "loop")' => waiter[v].kind = "bootup",
             At(v, "returning")' => heard[v] # {} /\ waiter[v].kind = "heartbeat",
             mReceived' # mReceived => At(v, "loop")
      PROVE  WaitInv'
  <2>1. \A w \in Waiters : /\ waiter'[w].outcome = waiter[w].outcome
                           /\ waiter'[w].kind = waiter[w].kind
                           /\ At(w, "idle")' <=> At(w, "idle")
    BY <1>1, <1>2 DEF At
  <2>2. InWait'
    BY <2>1 DEF InWait
  <2>3. KindsFit' /\ ReturnsWhatCame'
    BY <1>0, <1>1, <1>2 DEF KindsFit, ReturnsWhatCame, At
  <2>4. ReceivedIsHeard'
    BY <1>0, <1>2, <2>1 DEF ReceivedIsHeard
  <2>5. \A w \in Waiters : Alone(w)' <=> Alone(w)
    BY <2>1 DEF Alone
  <2>6. NothingLost'
    <3>1. CASE mReceived' = mReceived
      BY <1>0, <3>1, <2>1, <2>5 DEF NothingLost
    <3>2. CASE At(v, "loop")
      <4>1. waiter[v].kind = "bootup" /\ waiter[v].outcome = "running"
        BY <3>2 DEF KindsFit, InWait, At
      <4>2. \A w \in Waiters \ {v} : ~Alone(w)
        BY <4>1 DEF Alone
      <4> QED BY <2>1, <2>5, <4>1, <4>2 DEF NothingLost
    <3> QED BY <1>2, <3>1, <3>2
  <2>7. WaitsReportTruly'
    BY <1>0, <2>1, <2>5 DEF WaitsReportTruly, Finished
  <2> QED BY <2>2, <2>3, <2>4, <2>6, <2>7
<1>3. ASSUME ~At(v, "idle"), At(v, "idle")', UNCHANGED mReceived,
             waiter'[v].kind = waiter[v].kind, waiter'[v].outcome \in {"ok", "failed"},
             waiter'[v].outcome = "ok" /\ waiter[v].kind = "heartbeat" => heard[v] # {},
             waiter'[v].outcome = "ok" /\ waiter[v].kind = "bootup" => INITIALISING \in heard[v],
             waiter'[v].outcome = "failed" /\ waiter[v].kind = "heartbeat" /\ Alone(v)
               => heard[v] = {}
      PROVE  WaitInv'
  <2>1. InWait' /\ KindsFit' /\ ReturnsWhatCame' /\ ReceivedIsHeard'
    BY <1>0, <1>1, <1>3 DEF InWait, KindsFit, ReturnsWhatCame, ReceivedIsHeard, At
  <2>2. waiter[v].outcome = "running"
    BY <1>3 DEF InWait
  <2>3. \A w \in Waiters : Alone(w)' <=> Alone(w)
    BY <1>1, <1>3, <2>2 DEF Alone
  <2>4. NothingLost'
    BY <1>0, <1>1, <1>3, <2>3 DEF NothingLost, At
  <2>5. WaitsReportTruly'
    BY <1>0, <1>1, <1>3, <2>3 DEF WaitsReportTruly, Finished, At
  <2> QED BY <2>1, <2>4, <2>5
<1>4. \A outcome, result : EndWait(v, outcome, result) =>
        /\ At(v, "idle")' /\ waiter'[v].kind = waiter[v].kind
        /\ waiter'[v].outcome = outcome
  BY <1>0 DEF EndWait, At, WaiterStates
<1>5. CASE ClearAndWait(v)
  <2>1. /\ At(v, "loop") /\ At(v, "waiting")' /\ mReceived' = None
        /\ waiter'[v].kind = waiter[v].kind /\ waiter'[v].outcome = waiter[v].outcome
    BY <1>0, <1>5 DEF ClearAndWait, ForgetReceived, At, WaiterStates
  <2> QED BY <1>2, <2>1 DEF At
<1>6. CASE Expire(v)
  <2>1. /\ ~At(v, "idle") /\ waiter'[v].pc = waiter[v].pc /\ UNCHANGED mReceived
        /\ waiter'[v].kind = waiter[v].kind /\ waiter'[v].outcome = waiter[v].outcome
    BY <1>0, <1>6 DEF Expire, At, WaiterStates
  <2> QED BY <1>2, <2>1 DEF At, KindsFit, ReturnsWhatCame
<1>7. CASE WaitTimesOut(v)
  <2>1. /\ At(v, "waiting") /\ At(v, "woken")' /\ UNCHANGED mReceived
        /\ waiter'[v].kind = waiter[v].kind /\ waiter'[v].outcome = waiter[v].outcome
    BY <1>0, <1>7 DEF WaitTimesOut, At, WaiterStates
  <2> QED BY <1>2, <2>1 DEF At
<1>8. CASE CheckHeartbeat(v)
  <2>1. At(v, "woken") /\ waiter[v].kind = "heartbeat" /\ UNCHANGED mReceived
    BY <1>8 DEF CheckHeartbeat
  <2>2. CASE mReceived = None /\ EndWait(v, "failed", None)
    <3>1. Alone(v) => heard[v] = {}
      BY <2>1, <2>2 DEF At, NothingLost
    <3>2. ~At(v, "idle") /\ At(v, "idle")' /\ waiter'[v].outcome = "failed"
          /\ waiter'[v].kind = waiter[v].kind
      BY <1>4, <2>1, <2>2 DEF At
    <3> QED BY <1>3, <2>1, <3>1, <3>2
  <2>3. CASE mReceived # None /\ waiter' = [waiter EXCEPT ![v].pc = "returning"]
    <3>1. heard[v] # {}
      BY <2>1, <2>3 DEF At, ReceivedIsHeard
    <3>2. /\ At(v, "returning")'
          /\ waiter'[v].kind = waiter[v].kind /\ waiter'[v].outcome = waiter[v].outcome
      BY <1>0, <2>3 DEF At, WaiterStates
    <3> QED BY <1>2, <2>1, <3>1, <3>2 DEF At
  <2> QED BY <1>8, <2>2, <2>3 DEF CheckHeartbeat, NothingReceived
<1>9. CASE ReturnState(v)
  <2>1. At(v, "returning") /\ EndWait(v, "ok", mState) /\ UNCHANGED mReceived
    BY <1>9 DEF ReturnState
  <2>2. waiter[v].kind = "heartbeat" /\ heard[v] # {}
    BY <2>1 DEF KindsFit, ReturnsWhatCame
  <2>3. ~At(v, "idle") /\ At(v, "idle")' /\ waiter'[v].outcome = "ok"
        /\ waiter'[v].kind = waiter[v].kind
    BY <1>4, <2>1 DEF At
  <2> QED BY <1>3, <2>1, <2>2, <2>3
<1>10. CASE CheckBootup(v)
  <2>1. At(v, "woken") /\ waiter[v].kind = "bootup" /\ UNCHANGED mReceived
    BY <1>10 DEF CheckBootup
  <2>2. CASE EndWait(v, "failed", None)
    <3>1. ~At(v, "idle") /\ At(v, "idle")' /\ waiter'[v].outcome = "failed"
          /\ waiter'[v].kind = waiter[v].kind
      BY <1>4, <2>1, <2>2 DEF At
    <3> QED BY <1>3, <2>1, <3>1
  <2>3. CASE mReceived = INITIALISING /\ EndWait(v, "ok", None)
    <3>1. mReceived # None
      BY <2>3, NoneAssumption DEF States
    <3>2. ~At(v, "idle") /\ At(v, "idle")' /\ waiter'[v].outcome = "ok"
          /\ waiter'[v].kind = waiter[v].kind
      BY <1>4, <2>1, <2>3 DEF At
    <3>3. INITIALISING \in heard[v]
      BY <2>1, <2>3, <3>1 DEF At, ReceivedIsHeard
    <3> QED BY <1>3, <2>1, <3>2, <3>3
  <2>4. CASE waiter' = [waiter EXCEPT ![v].pc = "loop"]
    <3>1. /\ At(v, "loop")'
          /\ waiter'[v].kind = waiter[v].kind /\ waiter'[v].outcome = waiter[v].outcome
      BY <1>0, <2>4 DEF At, WaiterStates
    <3> QED BY <1>2, <2>1, <3>1 DEF At
  <2> QED BY <1>10, <2>2, <2>3, <2>4 DEF CheckBootup
<1> QED BY <1>5, <1>6, <1>7, <1>8, <1>9, <1>10 DEF WaiterStep

\* Who begins to wait clears what had come, but is no longer alone with another.
LEMMA BeginKeepsWaits ==
  ASSUME TypeOK, WaitInv, NEW v \in Waiters, NEW kind \in {"heartbeat", "bootup"},
         BeginWait(v, kind)
  PROVE  WaitInv'
<1>1. waiter \in [Waiters -> WaiterStates] /\ heard \in [Waiters -> SUBSET States]
  BY DEF TypeOK, MasterTypeOK
<1>2. /\ mReceived' = None
      /\ waiter'[v].pc = "waiting" /\ waiter'[v].kind = kind /\ waiter'[v].outcome = "running"
      /\ heard'[v] = {}
      /\ \A w \in Waiters \ {v} : waiter'[w] = waiter[w] /\ heard'[w] = heard[w]
  BY <1>1 DEF BeginWait, ForgetReceived
<1> USE DEF WaitInv
<1>3. InWait' /\ KindsFit' /\ ReturnsWhatCame' /\ ReceivedIsHeard'
  BY <1>2 DEF InWait, KindsFit, ReturnsWhatCame, ReceivedIsHeard, At
<1>4. \A w \in Waiters \ {v} : ~Alone(w)'
  BY <1>2 DEF Alone
<1>5. NothingLost'
  BY <1>2, <1>4 DEF NothingLost
<1>6. WaitsReportTruly'
  BY <1>2, <1>4 DEF WaitsReportTruly, Finished, At
<1> QED BY <1>3, <1>5, <1>6

\* All other steps leave the threads that wait alone.
LEMMA OthersKeepWaits ==
  ASSUME WaitInv, UNCHANGED <<mReceived, waiter, heard>>
  PROVE  WaitInv'
BY DEF WaitInv, InWait, ReceivedIsHeard, ReturnsWhatCame, NothingLost, KindsFit,
       WaitsReportTruly, Finished, Alone, At

LEMMA WaitsNext == TypeOK /\ WaitInv /\ [Next]_vars => WaitInv'
<1> SUFFICES ASSUME TypeOK, WaitInv, [Next]_vars PROVE WaitInv'
  OBVIOUS
<1>1. CASE MasterNotifier
  <2>1. CASE OnMasterCommand
    BY <2>1, OthersKeepWaits DEF OnMasterCommand
  <2> QED BY <1>1, <2>1, HeartbeatKeepsWaits DEF MasterNotifier
<1>2. ASSUME NEW w \in Waiters, MasterApp(w) \/ TimePasses(w)
      PROVE  WaitInv'
  BY <1>2, StepKeepsWaits DEF MasterApp, TimePasses
<1>3. ASSUME NEW w \in Waiters, NEW kind \in {"heartbeat", "bootup"}, Wait(w, kind)
      PROVE  WaitInv'
  BY <1>3, BeginKeepsWaits DEF Wait
<1>4. ASSUME NEW code \in Codes, MasterCommands(code) \/ Broadcast(code) \/ AppCommand(code)
      PROVE  WaitInv'
  BY <1>4, OthersKeepWaits DEF MasterCommands, Broadcast, AppCommand, SendCommand,
                               SendCommandFails, masterVars
<1>5. ASSUME NEW code \in Codes, NEW node \in {0, NodeId, OtherId}, OtherMasterCommands(code, node)
      PROVE  WaitInv'
  BY <1>5, OthersKeepWaits DEF OtherMasterCommands, masterVars
<1>6. ASSUME NEW time \in {0, 1}, WriteHeartbeatTime(time)
      PROVE  WaitInv'
  BY <1>6, OthersKeepWaits DEF WriteHeartbeatTime, masterVars
<1>7. CASE SlaveNotifier \/ SlaveApp \/ SlaveSendFails
  BY <1>7, OthersKeepWaits DEF SlaveNotifier, SlaveApp, SlaveSendFails, masterVars
<1>8. ASSUME NEW k \in Tasks, Timer(k)
      PROVE  WaitInv'
  BY <1>8, OthersKeepWaits DEF Timer, masterVars
<1>9. CASE UNCHANGED vars
  BY <1>9, OthersKeepWaits DEF vars, masterVars
<1> QED BY <1>1, <1>2, <1>3, <1>4, <1>5, <1>6, <1>7, <1>8, <1>9 DEF Next

\* Any number of threads may wait, and whoever sends commands meanwhile: a wait
\* for a heartbeat or a boot-up message (wait_for_heartbeat, wait_for_bootup)
\* that returns has seen one that came during it, and a wait for a heartbeat that
\* nobody waited beside fails only if nothing came.
THEOREM NmtWaitsAreTrue == Spec => []WaitsReportTruly
<1>1. WaitInv => WaitsReportTruly
  BY DEF WaitInv
<1> QED BY <1>1, NmtTypesHold, WaitsInit, WaitsNext, PTL DEF Spec

(***************************************************************************)
(* What the slave's heartbeat tells, when its threads take turns.          *)
(***************************************************************************)
\* The slave's own task is the only one, and its message tells the state.
Sole == running = {sendTask} \ {NoTask}
Tells == sendTask # NoTask => payload[sendTask] = sState

\* What a thread that is inside a method has made of the task by then.
Stage(t) ==
  /\ thread[t].pc \in {"set", "bootup", "transition", "check", "load", "stop"} => Sole
  /\ In(t, "update") => /\ Sole /\ sendTask # NoTask
                        /\ thread[t].task = sendTask /\ thread[t].state = sState
  /\ In(t, "halt") => Sole /\ sendTask # NoTask
  /\ In(t, "forget") => running = {}
  /\ In(t, "start") => running = {} /\ sendTask = NoTask
  /\ In(t, "assign") => LET task == thread[t].task IN
       /\ task # NoTask /\ running = {task} /\ payload[task] = sState
  /\ In(t, "store") => Sole /\ Tells

Between == SlaveIdle => Sole /\ (unsent \/ Tells)

TakeTurns == In("app", "idle") \/ In("notifier", "idle")

\* Without object 0x1017 no heartbeat ever starts.
NeverStarts ==
  ~HasObject => /\ sendTask = NoTask
                /\ \A t \in Threads :
                     thread[t].pc \notin {"stop", "halt", "forget", "start", "assign", "store"}

TaskInv == TakeTurns /\ Between /\ NeverStarts /\ \A t \in Threads : Stage(t)

LEMMA TasksInit == Init => TaskInv
BY DEF Init, SlaveInit, IdleThread, TaskInv, TakeTurns, Between, NeverStarts, Stage, SlaveIdle,
       Sole, Tells, In, Threads

\* It is enough to look at the thread that took the step.
LEMMA OneThread ==
  ASSUME TaskInv, NEW t \in Threads,
         \A u \in Threads \ {t} : In(u, "idle")',
         Stage(t)', In(t, "idle")' => Sole' /\ (unsent' \/ Tells'),
         ~HasObject => sendTask' = NoTask
           /\ thread'[t].pc \notin {"stop", "halt", "forget", "start", "assign", "store"}
  PROVE  TaskInv'
<1>1. TakeTurns'
  BY DEF Threads, TakeTurns
<1>2. Between' /\ NeverStarts'
  BY DEF Between, NeverStarts, SlaveIdle, In
<1>3. \A u \in Threads \ {t} : Stage(u)'
  BY DEF Stage, In
<1> QED BY <1>1, <1>2, <1>3 DEF TaskInv

LEMMA OthersIdle ==
  ASSUME TypeOK, TaskInv, NEW t \in Threads, ~In(t, "idle"),
         thread' = [thread EXCEPT ![t] = thread'[t]]
  PROVE  \A u \in Threads \ {t} : In(u, "idle")'
BY DEF TypeOK, SlaveTypeOK, TaskInv, TakeTurns, In, Threads

LEMMA HeartbeatKeepsTasks ==
  ASSUME TypeOK, TaskInv, NEW t \in Threads, HeartbeatStep(t)
  PROVE  TaskInv'
<1>1. thread \in [Threads -> ThreadStates] /\ thread[t] \in ThreadStates
  BY DEF TypeOK, SlaveTypeOK
<1>2. ~In(t, "idle")
  BY DEF HeartbeatStep, CheckTask, LoadTask, UpdateTask, CheckStop, HaltTask, ForgetTask,
         StartTask, AssignTask, StoreTime, In
<1>3. \A u \in Threads \ {t} : In(u, "idle")'
  <2>1. thread' = [thread EXCEPT ![t] = thread'[t]]
    BY <1>1 DEF HeartbeatStep, CheckTask, LoadTask, UpdateTask, CheckStop, HaltTask, ForgetTask,
         StartTask, AssignTask, StoreTime, Goto, Done
  <2> QED BY <1>2, <2>1, OthersIdle
<1>4. Stage(t) /\ NeverStarts
  BY DEF TaskInv
<1> USE DEF In
<1>5. CASE CheckTask(t)
  <2>1. /\ UNCHANGED <<sState, sendTask, running, payload, unsent>> /\ Sole
        /\ IF sendTask = NoTask THEN thread'[t].pc = "idle" ELSE thread'[t].pc = "load"
    BY <1>1, <1>4, <1>5 DEF CheckTask, Goto, Done, IdleThread, Stage, ThreadStates
  <2> QED BY <1>3, <1>4, <2>1, OneThread DEF Stage, Sole, Tells, NeverStarts
<1>6. CASE LoadTask(t)
  <2>1. UNCHANGED <<sState, sendTask, running, payload, unsent>> /\ Sole
    BY <1>4, <1>6 DEF LoadTask, Stage
  <2>2. CASE sendTask = NoTask
    <3>1. thread'[t].pc = "idle"
      BY <1>1, <1>6, <2>2 DEF LoadTask, Done, IdleThread
    <3> QED BY <1>3, <1>4, <2>1, <2>2, <3>1, OneThread DEF Stage, Sole, Tells, NeverStarts
  <2>3. CASE sendTask # NoTask
    <3>1. /\ thread'[t].pc = "update" /\ thread'[t].task = sendTask
          /\ thread'[t].state = sState
      BY <1>1, <1>6, <2>3 DEF LoadTask, ThreadStates
    <3> QED BY <1>3, <1>4, <2>1, <2>3, <3>1, OneThread DEF Stage, Sole, NeverStarts
  <2> QED BY <2>2, <2>3
<1>7. CASE UpdateTask(t)
  <2>1. /\ UNCHANGED <<sState, sendTask, running, unsent>> /\ Sole
        /\ sendTask # NoTask /\ payload' = [payload EXCEPT ![sendTask] = sState]
        /\ thread'[t].pc = "idle"
    BY <1>1, <1>4, <1>7 DEF UpdateTask, Done, IdleThread, Stage
  <2>2. sendTask \in Tasks /\ payload \in [Tasks -> States]
    BY <2>1 DEF TypeOK, SlaveTypeOK
  <2>3. Sole' /\ Tells'
    BY <2>1, <2>2 DEF Sole, Tells
  <2> QED BY <1>3, <1>4, <2>1, <2>3, OneThread DEF Stage, NeverStarts
<1>8. CASE CheckStop(t)
  <2>1. /\ UNCHANGED <<sState, sendTask, running, payload, unsent>> /\ Sole
        /\ thread'[t].pc = IF sendTask = NoTask THEN "start" ELSE "halt"
    BY <1>1, <1>4, <1>8 DEF CheckStop, Goto, Stage
  <2>2. Stage(t)'
    BY <2>1 DEF Stage, Sole
  <2>3. HasObject
    BY <1>4, <1>8 DEF CheckStop, NeverStarts
  <2> QED BY <1>3, <2>1, <2>2, <2>3, OneThread
<1>9. CASE HaltTask(t)
  <2>0. Sole /\ sendTask # NoTask
    BY <1>4, <1>9 DEF HaltTask, Stage
  <2>1. /\ UNCHANGED <<sState, sendTask, payload, unsent>> /\ running' = {}
        /\ thread'[t].pc = "forget"
    <3>1. running' = {}
      BY <1>9, <2>0 DEF HaltTask, Sole
    <3>2. thread'[t].pc = "forget"
      BY <1>1, <1>9, <2>0 DEF HaltTask, Goto, ThreadStates
    <3> QED BY <1>9, <3>1, <3>2 DEF HaltTask
  <2>2. HasObject
    BY <1>4, <1>9 DEF HaltTask, NeverStarts
  <2> QED BY <1>3, <2>1, <2>2, OneThread DEF Stage
<1>10. CASE ForgetTask(t)
  <2>1. /\ UNCHANGED <<sState, running, payload, unsent>> /\ running = {}
        /\ sendTask' = NoTask /\ thread'[t].pc = "start"
    BY <1>1, <1>4, <1>10 DEF ForgetTask, Goto, Stage
  <2>2. HasObject
    BY <1>4, <1>10 DEF ForgetTask, NeverStarts
  <2> QED BY <1>3, <2>1, <2>2, OneThread DEF Stage
<1>11. CASE StartTask(t)
  <2>0. running = {} /\ sendTask = NoTask /\ UNCHANGED <<sState, sendTask, unsent>>
    BY <1>4, <1>11 DEF StartTask, Stage
  <2>1. HasObject
    BY <1>4, <1>11 DEF StartTask, NeverStarts
  <2>2. CASE thread[t].time = 0
    <3>0. UNCHANGED running /\ Goto(t, "store")
      BY <1>11, <2>2 DEF StartTask
    <3>1. running' = {} /\ thread'[t].pc = "store"
      BY <1>1, <2>0, <3>0 DEF Goto, ThreadStates
    <3> QED BY <1>3, <2>0, <2>1, <3>1, OneThread DEF Stage, Sole, Tells
  <2>3. CASE thread[t].time # 0
    <3> DEFINE InUse == running \cup {sendTask} \cup {thread[u].task : u \in Threads}
               k == CHOOSE i \in Tasks : i \notin InUse
    <3>1. /\ Tasks \ InUse # {}
          /\ running' = running \cup {k}
          /\ payload' = [payload EXCEPT ![k] = sState]
          /\ thread' = [thread EXCEPT ![t].pc = "assign", ![t].task = k]
      BY <1>11, <2>3 DEF StartTask
    <3>2. k \in Tasks
      BY <3>1, NewTask
    <3> HIDE DEF k
    <3>3. thread'[t].pc = "assign" /\ thread'[t].task = k
      BY <1>1, <3>1 DEF ThreadStates
    <3>4. k # NoTask /\ payload'[k] = sState
      BY <3>1, <3>2, SlaveAssumption DEF Tasks, TypeOK, SlaveTypeOK
    <3> QED BY <1>3, <2>0, <2>1, <3>1, <3>3, <3>4, OneThread DEF Stage
  <2> QED BY <2>2, <2>3
<1>12. CASE AssignTask(t)
  <2>1. /\ UNCHANGED <<sState, running, payload, unsent>>
        /\ sendTask' = thread[t].task /\ thread[t].task # NoTask /\ running = {thread[t].task}
        /\ payload[thread[t].task] = sState /\ thread'[t].pc = "store"
    BY <1>1, <1>4, <1>12 DEF AssignTask, Goto, Stage
  <2>2. HasObject
    BY <1>4, <1>12 DEF AssignTask, NeverStarts
  <2>3. Sole' /\ Tells'
    BY <2>1 DEF Sole, Tells
  <2> QED BY <1>3, <2>1, <2>2, <2>3, OneThread DEF Stage
<1>13. CASE StoreTime(t)
  <2>1. /\ UNCHANGED <<sState, sendTask, running, payload, unsent>> /\ Sole /\ Tells
        /\ thread'[t].pc = "idle"
    BY <1>1, <1>4, <1>13 DEF StoreTime, Done, IdleThread, Stage
  <2>2. Sole' /\ Tells'
    BY <2>1 DEF Sole, Tells
  <2>3. HasObject
    BY <1>4, <1>13 DEF StoreTime, NeverStarts
  <2> QED BY <1>3, <2>1, <2>2, <2>3, OneThread DEF Stage
<1> QED BY <1>5, <1>6, <1>7, <1>8, <1>9, <1>10, <1>11, <1>12, <1>13 DEF HeartbeatStep

LEMMA CallKeepsTasks ==
  ASSUME TypeOK, TaskInv, SetState \/ SendBootup \/ SendBootupFails \/ Transition
  PROVE  TaskInv'
<1>1. /\ "app" \in Threads /\ thread \in [Threads -> ThreadStates]
      /\ thread["app"] \in ThreadStates
  BY DEF TypeOK, SlaveTypeOK, Threads
<1>2. ~In("app", "idle")
  BY DEF SetState, SendBootup, SendBootupFails, Transition, In
<1>3. \A u \in Threads \ {"app"} : In(u, "idle")'
  <2>1. thread' = [thread EXCEPT !["app"] = thread'["app"]]
    BY <1>1 DEF SetState, SendBootup, SendBootupFails, Transition, Goto, Done
  <2> QED BY <1>1, <1>2, <2>1, OthersIdle
<1>4. Stage("app") /\ NeverStarts
  BY <1>1 DEF TaskInv
<1>5. Sole /\ UNCHANGED <<sendTask, running, payload>>
  BY <1>4 DEF SetState, SendBootup, SendBootupFails, Transition, Stage, In
<1> USE DEF In
<1>6. CASE SetState
  <2>1. thread'["app"].pc = "bootup"
    BY <1>1, <1>6 DEF SetState, Goto, ThreadStates
  <2> QED BY <1>1, <1>3, <1>4, <1>5, <2>1, OneThread DEF Stage, Sole, NeverStarts
<1>7. CASE SendBootup
  <2>1. thread'["app"].pc = "transition"
    BY <1>1, <1>7 DEF SendBootup, Goto, ThreadStates
  <2> QED BY <1>1, <1>3, <1>4, <1>5, <2>1, OneThread DEF Stage, Sole, NeverStarts
<1>8. CASE SendBootupFails
  <2>1. thread'["app"].pc = "idle" /\ unsent' = TRUE
    BY <1>1, <1>8 DEF SendBootupFails, Done, IdleThread
  <2> QED BY <1>1, <1>3, <1>4, <1>5, <2>1, OneThread DEF Stage, Sole, NeverStarts
<1>9. CASE Transition
  <2>1. CASE ~BootsUp
    <3>1. thread'["app"].pc = "check"
      BY <1>1, <1>9, <2>1 DEF Transition, Goto, ThreadStates
    <3> QED BY <1>1, <1>3, <1>4, <1>5, <3>1, OneThread DEF Stage, Sole, NeverStarts
  <2>2. CASE BootsUp /\ ~HasObject
    <3>1. thread'["app"].pc = "idle" /\ sendTask = NoTask
      BY <1>1, <1>4, <1>9, <2>2 DEF Transition, Done, IdleThread, NeverStarts
    <3> QED BY <1>1, <1>3, <1>4, <1>5, <3>1, OneThread DEF Stage, Sole, Tells, NeverStarts
  <2>3. CASE BootsUp /\ HasObject
    <3>1. thread'["app"].pc = "stop"
      <4>1. thread' = [thread EXCEPT !["app"].pc = "stop", !["app"].time = hbTime]
        BY <1>9, <2>3 DEF Transition
      <4> QED BY <1>1, <4>1 DEF ThreadStates
    <3> QED BY <1>1, <1>3, <1>5, <2>3, <3>1, OneThread DEF Stage, Sole
  <2> QED BY <2>1, <2>2, <2>3
<1> QED BY <1>6, <1>7, <1>8, <1>9

\* A method begins, called by the application or for a frame, while nobody is in one.
LEMMA BeginKeepsTasks ==
  ASSUME TypeOK, TaskInv,
         \/ In("notifier", "idle") /\ \E code \in Codes : SlaveCommand(code)
         \/ In("app", "idle") /\ (OnCommand \/ OnWrite)
  PROVE  TaskInv'
<1>0. /\ "app" \in Threads /\ "notifier" \in Threads
      /\ thread \in [Threads -> ThreadStates] /\ thread["notifier"] \in ThreadStates
  BY DEF TypeOK, SlaveTypeOK, Threads
<1>1. SlaveIdle
  BY DEF SlaveIdle, SlaveCommand, OnCommand, OnWrite, Threads
<1>2. Sole /\ NeverStarts
  BY <1>1 DEF TaskInv, Between
<1>3. UNCHANGED <<sendTask, running>>
  BY DEF SlaveCommand, OnCommand, OnWrite
<1> USE DEF In
<1>4. ASSUME NEW code \in Codes, SlaveCommand(code)
      PROVE  TaskInv'
  <2>1. thread' = [thread EXCEPT !["app"] =
          [IdleThread EXCEPT !.pc = "set", !.code = code, !.old = sState]]
    BY <1>4 DEF SlaveCommand
  <2>2. thread'["app"].pc = "set" /\ \A u \in Threads \ {"app"} : In(u, "idle")'
    BY <1>0, <1>1, <2>1 DEF SlaveIdle, IdleThread
  <2> QED BY <1>0, <1>2, <1>3, <2>2, OneThread DEF Stage, Sole, NeverStarts
<1>5. CASE OnCommand
  <2>1. thread'["notifier"].pc = "check" /\ \A u \in Threads \ {"notifier"} : In(u, "idle")'
    BY <1>0, <1>1, <1>5 DEF OnCommand, Goto, SlaveIdle, ThreadStates
  <2> QED BY <1>0, <1>2, <1>3, <2>1, OneThread DEF Stage, Sole, NeverStarts
<1>6. CASE OnWrite
  <2>1. thread'["notifier"].pc = "stop" /\ \A u \in Threads \ {"notifier"} : In(u, "idle")'
    BY <1>0, <1>1, <1>6 DEF OnWrite, SlaveIdle, IdleThread
  <2>2. HasObject
    BY <1>6 DEF OnWrite
  <2> QED BY <1>0, <1>2, <1>3, <2>1, <2>2, OneThread DEF Stage, Sole
<1> QED BY <1>4, <1>5, <1>6

LEMMA OthersKeepTasks ==
  ASSUME TaskInv, UNCHANGED slaveVars
  PROVE  TaskInv'
BY DEF slaveVars, TaskInv, TakeTurns, Between, NeverStarts, Stage, SlaveIdle, Sole, Tells, In

LEMMA TasksNext == ~Overlap /\ TypeOK /\ TaskInv /\ [Next]_vars => TaskInv'
<1> SUFFICES ASSUME ~Overlap, TypeOK, TaskInv, [Next]_vars PROVE TaskInv'
  OBVIOUS
<1>1. ASSUME NEW code \in Codes, AppCommand(code)
      PROVE  TaskInv'
  BY <1>1, BeginKeepsTasks DEF AppCommand
<1>2. CASE SlaveNotifier
  <2>1. CASE HeartbeatStep("notifier")
    BY <2>1, HeartbeatKeepsTasks DEF Threads
  <2>2. CASE OnCommand \/ OnWrite
    <3>1. In("app", "idle")
      <4>1. CASE HeartbeatStep("notifier")
        BY <4>1, <2>2 DEF HeartbeatStep, CheckTask, LoadTask, UpdateTask, CheckStop, HaltTask,
             ForgetTask, StartTask, AssignTask, StoreTime, OnCommand, OnWrite, In
      <4> QED BY <1>2, <4>1 DEF SlaveNotifier
    <3> QED BY <2>2, <3>1, BeginKeepsTasks
  <2> QED BY <1>2, <2>1, <2>2 DEF SlaveNotifier
<1>3. CASE SlaveApp
  <2>1. CASE HeartbeatStep("app")
    BY <2>1, HeartbeatKeepsTasks DEF Threads
  <2> QED BY <1>3, <2>1, CallKeepsTasks DEF SlaveApp, AppStep
<1>4. CASE SlaveSendFails
  BY <1>4, CallKeepsTasks DEF SlaveSendFails
<1>5. ASSUME NEW code \in Codes, MasterCommands(code) \/ Broadcast(code)
      PROVE  TaskInv'
  BY <1>5, OthersKeepTasks DEF MasterCommands, Broadcast
<1>6. ASSUME NEW code \in Codes, NEW node \in {0, NodeId, OtherId}, OtherMasterCommands(code, node)
      PROVE  TaskInv'
  BY <1>6, OthersKeepTasks DEF OtherMasterCommands
<1>7. ASSUME NEW time \in {0, 1}, WriteHeartbeatTime(time)
      PROVE  TaskInv'
  BY <1>7, OthersKeepTasks DEF WriteHeartbeatTime
<1>8. ASSUME NEW w \in Waiters, NEW kind \in {"heartbeat", "bootup"}, Wait(w, kind)
      PROVE  TaskInv'
  BY <1>8, OthersKeepTasks DEF Wait
<1>9. CASE MasterNotifier
  BY <1>9, OthersKeepTasks DEF MasterNotifier
<1>10. ASSUME NEW w \in Waiters, MasterApp(w) \/ TimePasses(w)
       PROVE  TaskInv'
  BY <1>10, OthersKeepTasks DEF MasterApp, TimePasses
<1>11. ASSUME NEW k \in Tasks, Timer(k)
       PROVE  TaskInv'
  BY <1>11, OthersKeepTasks DEF Timer, SendHeartbeat
<1>12. CASE UNCHANGED vars
  BY <1>12, OthersKeepTasks DEF vars
<1> QED
  BY <1>1, <1>2, <1>3, <1>4, <1>5, <1>6, <1>7, <1>8, <1>9, <1>10, <1>11, <1>12 DEF Next

LEMMA TasksStay == ~Overlap /\ Spec => []TaskInv
<1> SUFFICES ASSUME ~Overlap PROVE Spec => []TaskInv
  OBVIOUS
<1>1. TypeOK /\ TaskInv /\ [Next]_vars => TaskInv'
  BY TasksNext
<1> QED BY <1>1, TasksInit, NmtTypesHold, PTL DEF Spec

\* If the slave's application and its notifier take turns, the heartbeat that is
\* sent between two calls tells the state of the slave (update_heartbeat,
\* start_heartbeat), whatever commands and writes came before, unless the last
\* call could not send its boot-up message.
THEOREM HeartbeatIsTrue == ~Overlap /\ Spec => []HeartbeatTellsState
<1>1. TaskInv => HeartbeatTellsState
  BY DEF TaskInv, Between, HeartbeatTellsState, Tells
<1> QED BY <1>1, TasksStay, PTL

\* In the same way, start_heartbeat and stop_heartbeat lose no periodic task: the
\* one that _send_task holds is the only one that is running.
THEOREM NoTaskIsLost == ~Overlap /\ Spec => []NoStrayTask
<1>1. TaskInv => NoStrayTask
  BY DEF TaskInv, Between, NoStrayTask, Sole
<1> QED BY <1>1, TasksStay, PTL

=============================================================================
