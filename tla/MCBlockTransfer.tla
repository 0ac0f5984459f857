---- MODULE MCBlockTransfer ----
(***************************************************************************)
(* Blocks of up to three segments: five segments are two blocks, the first *)
(* full and the second not, or more when a retransmission has moved the    *)
(* limits of the blocks or the server asks for smaller ones.               *)
(***************************************************************************)
EXTENDS BlockTransfer
====
