------------------------------ MODULE NmtMaster ------------------------------
(***************************************************************************)
(* NmtMaster: what a remote node's nmt object believes about the node, and *)
(* the application threads that wait for its heartbeat or boot-up message. *)
(*                                                                         *)
(* The condition variable's lock protects on_heartbeat and the start of a  *)
(* wait; what a waiter reads after it woke up it reads without the lock.   *)
(***************************************************************************)
EXTENDS NmtBase

CONSTANTS
  Waiters,  \* application threads of the master
  None      \* Python's None

ASSUME NoneAssumption == None \notin States

VARIABLES
  mState,     \* _state
  mReceived,  \* _state_received
  waiter,     \* the wait each thread is in, or has done last
  heard       \* history: states received since each thread began to wait

masterVars == <<mState, mReceived, waiter, heard>>

\* expired: the time the call may take is over.  late: it was over when the
\* present round of wait_for_bootup began.
WaiterStates ==
  [pc : {"idle", "loop", "waiting", "woken", "returning"},
   kind : {"heartbeat", "bootup"}, expired : BOOLEAN, late : BOOLEAN,
   outcome : {"none", "running", "ok", "failed"}, result : States \cup {None}]

MasterTypeOK ==
  /\ toMaster \in Seq(Commands \cup Heartbeats)
  /\ mState \in States
  /\ mReceived \in States \cup {None}
  /\ waiter \in [Waiters -> WaiterStates]
  /\ heard \in [Waiters -> SUBSET States]

MasterInit ==
  /\ mState = INITIALISING
  /\ mReceived = None
  /\ waiter = [w \in Waiters |->
       [pc |-> "idle", kind |-> "heartbeat", expired |-> FALSE, late |-> FALSE,
        outcome |-> "none", result |-> None]]
  /\ heard = [w \in Waiters |-> {}]

At(w, pc) == waiter[w].pc = pc

EndWait(w, outcome, result) ==
  waiter' = [waiter EXCEPT ![w] = [@ EXCEPT !.pc = "idle", !.outcome = outcome,
               !.result = result, !.expired = FALSE, !.late = FALSE]]

-----------------------------------------------------------------------------
\* Notifier thread.  A boot-up message stands for the state that follows it.
Shown(state) == IF state = INITIALISING THEN PRE_OPERATIONAL ELSE state

OnHeartbeat ==
  /\ toMaster # <<>> /\ Head(toMaster).kind = "heartbeat"
  /\ toMaster' = Tail(toMaster)
  /\ LET state == Head(toMaster).state IN
       /\ mState' = Shown(state)
       /\ mReceived' = state
       /\ waiter' = [w \in Waiters |->
            IF At(w, "waiting") THEN [waiter[w] EXCEPT !.pc = "woken"] ELSE waiter[w]]
       /\ heard' = [w \in Waiters |->
            IF waiter[w].outcome = "running" THEN heard[w] \cup {state} ELSE heard[w]]
  /\ UNCHANGED toSlave

\* Another master's command is heard on the bus.
OnMasterCommand ==
  /\ toMaster # <<>> /\ Head(toMaster).kind = "command"
  /\ toMaster' = Tail(toMaster)
  /\ mState' = Commanded(mState, Head(toMaster))
  /\ UNCHANGED <<toSlave, mReceived, waiter, heard>>

-----------------------------------------------------------------------------
\* Application threads.  The state is assumed first, then the command is sent.
SendCommand(code) ==
  /\ mState' = Assumed(mState, code)
  /\ toSlave' = Append(toSlave, [kind |-> "command", code |-> code, node |-> NodeId])
  /\ UNCHANGED <<toMaster, mReceived, waiter, heard>>

\* Mutant: what was received before the wait is not forgotten.
KeepReceived == UNCHANGED mReceived

ForgetReceived == mReceived' = None

\* send_message raised: the state is assumed all the same.
SendCommandFails(code) ==
  /\ mState' = Assumed(mState, code)
  /\ UNCHANGED <<toSlave, toMaster, mReceived, waiter, heard>>

\* The call takes the lock, clears and waits.
BeginWait(w, kind) ==
  /\ At(w, "idle")
  /\ ForgetReceived
  /\ waiter' = [waiter EXCEPT ![w] =
       [pc |-> "waiting", kind |-> kind, expired |-> FALSE, late |-> FALSE,
        outcome |-> "running", result |-> None]]
  /\ heard' = [heard EXCEPT ![w] = {}]
  /\ UNCHANGED <<toSlave, toMaster, mState>>

\* Mutant: the deadline is computed anew in each round.
ClearAndWaitAfresh(w) ==
  /\ At(w, "loop")
  /\ ForgetReceived
  /\ waiter' = [waiter EXCEPT ![w].pc = "waiting", ![w].expired = FALSE]
  /\ UNCHANGED <<toSlave, toMaster, mState, heard>>

\* The next round of wait_for_bootup.
ClearAndWait(w) ==
  /\ At(w, "loop")
  /\ ForgetReceived
  /\ waiter' = [waiter EXCEPT ![w].pc = "waiting", ![w].late = waiter[w].expired]
  /\ UNCHANGED <<toSlave, toMaster, mState, heard>>

Expire(w) ==
  /\ ~At(w, "idle") /\ ~waiter[w].expired
  /\ waiter' = [waiter EXCEPT ![w].expired = TRUE]
  /\ UNCHANGED <<toSlave, toMaster, mState, mReceived, heard>>

WaitTimesOut(w) ==
  /\ At(w, "waiting") /\ waiter[w].expired
  /\ waiter' = [waiter EXCEPT ![w].pc = "woken"]
  /\ UNCHANGED <<toSlave, toMaster, mState, mReceived, heard>>

NothingReceived == mReceived = None

\* wait_for_heartbeat after the with statement.
CheckHeartbeat(w) ==
  /\ At(w, "woken") /\ waiter[w].kind = "heartbeat"
  /\ \/ NothingReceived /\ EndWait(w, "failed", None)
     \/ ~NothingReceived /\ waiter' = [waiter EXCEPT ![w].pc = "returning"]
  /\ UNCHANGED <<toSlave, toMaster, mState, mReceived, heard>>

ReturnState(w) ==
  /\ At(w, "returning")
  /\ EndWait(w, "ok", mState)
  /\ UNCHANGED <<toSlave, toMaster, mState, mReceived, heard>>

\* wait_for_bootup after the with statement.
CheckBootup(w) ==
  /\ At(w, "woken") /\ waiter[w].kind = "bootup"
  /\ CASE waiter[w].late -> EndWait(w, "failed", None)
       [] ~waiter[w].late /\ mReceived = INITIALISING -> EndWait(w, "ok", None)
       [] OTHER -> waiter' = [waiter EXCEPT ![w].pc = "loop"]
  /\ UNCHANGED <<toSlave, toMaster, mState, mReceived, heard>>

WaiterStep(w) ==
  ClearAndWait(w) \/ WaitTimesOut(w) \/ CheckHeartbeat(w) \/ ReturnState(w) \/ CheckBootup(w)

=============================================================================
