---- MODULE MCNetwork ----
(***************************************************************************)
(* A small instance of NetworkNodes: two networks, two remote nodes with   *)
(* the same id and a local node with another.                              *)
(***************************************************************************)
EXTENDS NetworkNodes

CONSTANTS netA, netB, r1, r2, l1

MCNets == {netA, netB}
MCNodes == {r1, r2, l1}
MCLocal == {l1}
MCIds == {5, 6}
MCIdOf == [n \in MCNodes |-> IF n = l1 THEN 6 ELSE 5]

\* A heartbeat, an emergency message and an SDO request; an NMT command, which
\* all nodes hear.
MCFrameIds ==
  {[svc |-> "heartbeat", id |-> 5], [svc |-> "emcy", id |-> 5],
   [svc |-> "request", id |-> 6], [svc |-> "pdo", id |-> 5],
   [svc |-> "command", id |-> 0]}

\* Nodes come and go while a frame is handed out; all are cut off; the bus
\* is connected and disconnected.
MCScenarios ==
  {[frames |-> 1, calls |-> 3, links |-> 0, cuts |-> 0],
   [frames |-> 1, calls |-> 2, links |-> 0, cuts |-> 1],
   [frames |-> 2, calls |-> 1, links |-> 4, cuts |-> 0]}
MCSymmetry == Permutations({r1, r2}) \cup Permutations(MCNets)
====
