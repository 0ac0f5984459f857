---- MODULE MCNmt ----
(***************************************************************************)
(* Small instances of Nmt: start, enter pre-operational, reset and a code  *)
(* that the library does not know.                                         *)
(***************************************************************************)
EXTENDS Nmt

CONSTANTS w1, w2

MCCodes == {1, 7, 128, 129}
MCWaiters == {w1, w2}

\* A heartbeat time, a command of the slave's application, one thread that waits.
MCActive ==
  [commands |-> 0, calls |-> 1, writes |-> 1, failures |-> 0,
   waits |-> [w \in MCWaiters |-> IF w = w1 THEN 1 ELSE 0]]

\* Two threads wait for a slave that its own application drives.
MCCrowded ==
  [commands |-> 0, calls |-> 1, writes |-> 0, failures |-> 1,
   waits |-> [w \in MCWaiters |-> 1]]

\* Commands and writes of two masters, nobody waits.
MCBusy ==
  [commands |-> 1, calls |-> 1, writes |-> 1, failures |-> 0,
   waits |-> [w \in MCWaiters |-> 0]]

\* Commands of the application while one comes from the bus; a send may fail.
MCTwoCommands ==
  [commands |-> 1, calls |-> 2, writes |-> 0, failures |-> 1,
   waits |-> [w \in MCWaiters |-> 0]]

MCScenarios == {MCActive, MCCrowded, MCBusy, MCTwoCommands}
====
