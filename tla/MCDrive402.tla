---- MODULE MCDrive402 ----
(***************************************************************************)
(* Drive402 with all ways to see the status word.  Nothing but the drive's *)
(* own changes of state needs a bound.                                     *)
(***************************************************************************)
EXTENDS Drive402

MCWays == {"periodic", "event", "sdo"}
====
