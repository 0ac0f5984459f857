------------------------------- MODULE NmtBase -------------------------------
(***************************************************************************)
(* What NMT master and slave have in common: the tables of nmt.py and the  *)
(* two message streams between them.  Node commands travel on CAN ID 0,    *)
(* heartbeat and boot-up messages on 0x700 + node.  Writes of object       *)
(* 0x1017, the producer heartbeat time, come by SDO; they reach the slave  *)
(* in the same thread as the commands.                                     *)
(***************************************************************************)
EXTENDS Naturals, Sequences

CONSTANTS
  Codes,        \* command codes that are sent, known to the library or not
  NodeId,       \* the node that this is about
  OtherId,      \* another node on the same bus
  MaxInFlight   \* bound: frames under way before a timer sends one more

ASSUME NodeAssumption ==
  /\ Codes \subseteq Nat
  /\ NodeId \in 1..127
  /\ OtherId \in (1..127) \ {NodeId}
  /\ MaxInFlight \in Nat \ {0}

VARIABLES
  toSlave,   \* frames the slave's notifier has not handled yet
  toMaster   \* frames the master's notifier has not handled yet

INITIALISING == 0
STOPPED == 4
OPERATIONAL == 5
PRE_OPERATIONAL == 127

CommandToState ==
  [code \in {1, 2, 80, 96, 128, 129, 130} |->
     CASE code = 1 -> OPERATIONAL
       [] code = 2 -> STOPPED
       [] code \in {80, 96} -> code
       [] code = 128 -> PRE_OPERATIONAL
       [] code \in {129, 130} -> INITIALISING]

States == {INITIALISING, STOPPED, OPERATIONAL, 80, 96, PRE_OPERATIONAL}

Commands == [kind : {"command"}, code : Codes, node : {0, NodeId, OtherId}]
Writes == [kind : {"write"}, time : {0, 1}]  \* heartbeat time: off or on
Heartbeats == [kind : {"heartbeat"}, state : States]

\* Mutant: the code is taken for the state.
CommandedCode(state, frame) ==
  IF frame.node \in {0, NodeId} THEN frame.code ELSE state

\* NmtBase.on_command: the state after a command that was heard.
Commanded(state, frame) ==
  IF frame.node \in {0, NodeId} /\ frame.code \in DOMAIN CommandToState
  THEN CommandToState[frame.code] ELSE state

\* NmtBase.send_command: the state that is assumed when it is sent.
Assumed(state, code) ==
  IF code \in DOMAIN CommandToState THEN CommandToState[code] ELSE state

=============================================================================
