---- MODULE MCEmcy ----
(***************************************************************************)
(* A small instance of Emcy: two codes and the error reset, two threads    *)
(* that wait, one reset in the midst of it.                                *)
(***************************************************************************)
EXTENDS Emcy

CONSTANTS e1, e2, w1, w2

MCCodes == {e1, e2}
MCAwaited == {e1, AnyCode}
MCWaiters == {w1, w2}

\* Two threads wait at once; one waits while the log is reset.
MCScenarios ==
  {[sends |-> 3, resets |-> 0, waits |-> [w \in MCWaiters |-> 1]],
   [sends |-> 3, resets |-> 1, waits |-> [w \in MCWaiters |-> IF w = w1 THEN 1 ELSE 0]]}
====
