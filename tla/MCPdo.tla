---- MODULE MCPdo ----
(***************************************************************************)
(* PdoSetup with bytes of two bits: an object of one byte, a signed one of *)
(* two, and one that the dictionary of the node does not have.  The PDO is *)
(* written to, or threads wait for it, or it is set up.                    *)
(***************************************************************************)
EXTENDS PdoSetup, TLC

CONSTANTS Small, Wide, Strange

MCSize == (Small :> 2) @@ (Wide :> 4) @@ (Strange :> 2)
MCContents ==
  {<<>>, <<[obj |-> Small, len |-> 1], [obj |-> Wide, len |-> 3]>>,
   <<[obj |-> Small, len |-> 2], [obj |-> Strange, len |-> 2]>>}

MCBudgets ==
  {[sends |-> 1, writes |-> 3, tasks |-> 1, waits |-> 0, calls |-> 0, edits |-> 0, failures |-> 0],
   [sends |-> 2, writes |-> 0, tasks |-> 1, waits |-> 3, calls |-> 0, edits |-> 0, failures |-> 0],
   [sends |-> 1, writes |-> 0, tasks |-> 0, waits |-> 0, calls |-> 2, edits |-> 2, failures |-> 1]}
====
