---------------------------- MODULE BlockServer -----------------------------
(***************************************************************************)
(* The server of a block transfer.  The library has none (SdoServer aborts *)
(* block requests), so this is a device: a server that does what the       *)
(* client in sdo/client.py expects of it and what the exchanges in         *)
(* test/test_sdo.py show.  It sends a whole block before it looks at the   *)
(* next request.                                                           *)
(***************************************************************************)
EXTENDS BlockChannel

CONSTANTS
  CrcChoices  \* whether the server computes a CRC: what it may answer

ASSUME CrcAssumption == CrcChoices \subseteq BOOLEAN /\ CrcChoices # {}

VARIABLES
  srv,    \* the server's side of the transfer
  stored  \* what the object holds after a download, <<>> before

serverVars == <<srv, stored>>

\* base: segments acknowledged before this block.  seq: segments sent, or
\* received in order, in this block.  got: what was received in order.
ServerStates ==
  [phase : {"idle", "start", "sending", "ack", "ending", "receiving", "complete"},
   base : Nat, seq : Nat, blksize : BlkSizes, crc : BOOLEAN, got : Data]

Idle == [phase |-> "idle", base |-> 0, seq |-> 0, blksize |-> 1, crc |-> FALSE,
         got |-> <<>>]

ServerTypeOK == srv \in ServerStates /\ stored \in Data

ServerInit == srv = Idle /\ stored = <<>>

Reply(frames) ==
  /\ toServer' = Tail(toServer)
  /\ toClient' = toClient \o frames

-----------------------------------------------------------------------------
OnInitUpload(crc) ==
  /\ Head(toServer).kind = "init_upload"
  /\ Reply(<<[kind |-> "init_upload", crc |-> crc]>>)
  /\ srv' = [Idle EXCEPT !.phase = "start", !.crc = crc, !.blksize = MaxBlkSize]
  /\ UNCHANGED <<stored, trouble>>

OnStartUpload ==
  /\ Head(toServer).kind = "start_upload"
  /\ srv.phase = "start"
  /\ Reply(<<>>)
  /\ srv' = [srv EXCEPT !.phase = "sending"]
  /\ UNCHANGED <<stored, trouble>>

SendSegment ==
  /\ srv.phase = "sending"
  /\ LET seq == srv.seq + 1
         last == srv.base + seq = Segments
     IN /\ toClient' = Append(toClient, Segment(seq, srv.base + seq, last))
        /\ srv' = [srv EXCEPT !.seq = seq,
                     !.phase = IF last \/ seq = srv.blksize THEN "ack" ELSE @]
  /\ UNCHANGED <<toServer, stored, trouble>>

\* What was not acknowledged is sent again, in a new block.
OnAck ==
  LET f == Head(toServer)
      acked == srv.base + f.seq
  IN /\ f.kind = "ack"
     /\ srv.phase = "ack"
     /\ f.seq <= srv.seq
     /\ IF acked = Segments
        THEN /\ Reply(<<[kind |-> "end_upload", crc |-> Value]>>)
             /\ srv' = [srv EXCEPT !.phase = "ending"]
        ELSE /\ Reply(<<>>)
             /\ srv' = [srv EXCEPT !.phase = "sending", !.base = acked, !.seq = 0,
                                   !.blksize = f.blksize]
     /\ UNCHANGED <<stored, trouble>>

OnEndUpload ==
  /\ Head(toServer).kind = "end_upload"
  /\ srv.phase = "ending"
  /\ Reply(<<>>)
  /\ srv' = Idle
  /\ UNCHANGED <<stored, trouble>>

-----------------------------------------------------------------------------
OnInitDownload(crc, blksize) ==
  /\ Head(toServer).kind = "init_download"
  /\ Reply(<<[kind |-> "init_download", crc |-> crc, blksize |-> blksize]>>)
  /\ srv' = [Idle EXCEPT !.phase = "receiving", !.crc = crc, !.blksize = blksize]
  /\ UNCHANGED <<stored, trouble>>

\* A segment out of order is ignored.  The last one of the block is answered
\* with the number of the last one in order and the size of the next block.
OnSegment(blksize) ==
  LET f == Head(toServer)
      inOrder == f.seq = srv.seq + 1
      seq == IF inOrder THEN f.seq ELSE srv.seq
      got == IF inOrder THEN Append(srv.got, f.seg) ELSE srv.got
  IN /\ f.kind = "segment"
     /\ srv.phase = "receiving"
     /\ IF f.last \/ f.seq = srv.blksize
        THEN /\ Reply(<<Ack(seq, blksize)>>)
             /\ srv' = [srv EXCEPT !.got = got, !.seq = 0, !.blksize = blksize,
                          !.phase = IF f.last /\ inOrder THEN "complete" ELSE @]
        ELSE /\ Reply(<<>>)
             /\ srv' = [srv EXCEPT !.got = got, !.seq = seq]
     /\ UNCHANGED <<stored, trouble>>

\* The value is stored at the end of a transfer that is complete.
OnEndDownload ==
  LET f == Head(toServer) IN
    /\ f.kind = "end_download"
    /\ srv.phase = "complete"
    /\ srv.crc => f.crc = srv.got
    /\ Reply(<<[kind |-> "end_download"]>>)
    /\ stored' = srv.got
    /\ srv' = Idle
    /\ UNCHANGED trouble

-----------------------------------------------------------------------------
OnAbort ==
  /\ Head(toServer).kind = "abort"
  /\ Reply(<<>>)
  /\ srv' = Idle
  /\ UNCHANGED <<stored, trouble>>

Expected ==
  LET f == Head(toServer) IN
    \/ f.kind \in {"init_upload", "init_download", "abort"}
    \/ f.kind = "start_upload" /\ srv.phase = "start"
    \/ f.kind = "ack" /\ srv.phase = "ack" /\ f.seq <= srv.seq
    \/ f.kind = "end_upload" /\ srv.phase = "ending"
    \/ f.kind = "segment" /\ srv.phase = "receiving"
    \/ f.kind = "end_download" /\ srv.phase = "complete" /\ (srv.crc => f.crc = srv.got)

\* A request that does not fit is answered with an abort, which ends the
\* transfer; outside a transfer it may also be ignored.
OnUnexpected ==
  /\ ~Expected
  /\ \/ Reply(<<Abort>>)
     \/ srv.phase = "idle" /\ Reply(<<>>)
  /\ srv' = Idle
  /\ UNCHANGED <<stored, trouble>>

\* The server refuses the transfer, or waits no longer for the next request.
GiveUp ==
  /\ Trouble("abort")
  /\ IF toServer = <<>>
     THEN /\ srv.phase \notin {"idle", "sending"}
          /\ UNCHANGED toServer
     ELSE /\ Head(toServer).kind \in {"init_upload", "init_download"}
          /\ toServer' = Tail(toServer)
  /\ toClient' = Append(toClient, Abort)
  /\ srv' = Idle
  /\ UNCHANGED stored

OnRequest ==
  /\ toServer # <<>>
  /\ srv.phase # "sending"
  /\ \/ \E crc \in CrcChoices : OnInitUpload(crc)
     \/ OnStartUpload
     \/ OnAck
     \/ OnEndUpload
     \/ \E crc \in CrcChoices, blksize \in BlkSizes : OnInitDownload(crc, blksize)
     \/ \E blksize \in BlkSizes : OnSegment(blksize)
     \/ OnEndDownload
     \/ OnAbort
     \/ OnUnexpected

ServerStep == SendSegment \/ OnRequest

=============================================================================
