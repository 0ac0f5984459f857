--------------------------- MODULE BlockDownload ----------------------------
(***************************************************************************)
(* BlockDownloadStream: a client that writes an object by block download,  *)
(* as `with sdo.open('wb', size=..., block_transfer=True) as f: f.write()` *)
(* does for a value that fits the buffer of the io.BufferedWriter: close() *)
(* writes it segment by segment until all is written or a call raises, and *)
(* then closes the stream in either case.  The size is given.              *)
(***************************************************************************)
EXTENDS BlockChannel

VARIABLE down  \* the stream

\* todo: the writes that are under way, innermost first.  The last one is the
\* application's, the others are the loops of _retransmit, which call write and
\* through it, at the end of a block, _retransmit again.  block: _current_block.
\* digest: the segments that the CRC was computed over.
Downloads ==
  [pc : {"idle", "init", "write", "ack", "close", "end"},
   pos : Nat, seqno : Nat, blksize : Nat, block : Data, todo : Seq(Data),
   done : BOOLEAN, retransmitting : BOOLEAN, crc : BOOLEAN, digest : Data,
   outcome : {"none", "running", "ok", "failed"}]

FreshDownload ==
  [pc |-> "idle", pos |-> 0, seqno |-> 0, blksize |-> 0, block |-> <<>>,
   todo |-> <<Value>>, done |-> FALSE, retransmitting |-> FALSE, crc |-> FALSE,
   digest |-> <<>>, outcome |-> "none"]

DownloadTypeOK == down \in Downloads

DownloadInit == down = FreshDownload

DownloadAnswer == Head(toClient)
TakeDownloadAnswer == toClient # <<>> /\ toClient' = Tail(toClient)

\* The call has raised, or returns; an exception before close() outlives it.
FinishDownload(how) ==
  down' = [down EXCEPT !.pc = "idle",
             !.outcome = IF @ = "running" THEN how ELSE @]

\* An exception leaves write(): the stream is closed all the same.
RaiseInWrite == down' = [down EXCEPT !.pc = "close", !.outcome = "failed"]

-----------------------------------------------------------------------------
\* __init__.  The queue is empty: there was no transfer before.
BeginDownload ==
  /\ down.outcome = "none"
  /\ down' = [down EXCEPT !.pc = "init", !.outcome = "running"]
  /\ SendToServer(<<[kind |-> "init_download"]>>)
  /\ UNCHANGED toClient

\* A stream without _initialized sends nothing when it is closed.
InitDownload ==
  /\ down.pc = "init"
  /\ TakeDownloadAnswer
  /\ LET f == DownloadAnswer IN
       IF f.kind = "init_download"
       THEN /\ down' = [down EXCEPT !.pc = "write", !.blksize = f.blksize, !.crc = f.crc]
            /\ SendToServer(<<>>)
       ELSE /\ SendToServer(IF f.kind = "abort" THEN <<>> ELSE <<Abort>>)
            /\ FinishDownload("failed")

InitDownloadTimesOut ==
  /\ down.pc = "init"
  /\ SendToServer(<<Abort>>)
  /\ FinishDownload("failed")
  /\ UNCHANGED toClient

-----------------------------------------------------------------------------
\* write and send.  The segment with which pos reaches the size is the last;
\* a block ends with it, or with blksize segments, and then the server answers.
WriteSegment ==
  LET seg == Head(Head(down.todo))
      seqno == down.seqno + 1
      end == down.pos + 1 >= Segments
      blksize == IF end THEN seqno ELSE down.blksize
  IN /\ down.pc = "write"
     /\ Head(down.todo) # <<>>
     /\ ~down.done
     /\ SendToServer(<<Segment(seqno, seg, end)>>)
     /\ down' = [down EXCEPT
                   !.pc = IF seqno >= blksize THEN "ack" ELSE "write",
                   !.pos = @ + 1,
                   !.seqno = seqno,
                   !.blksize = blksize,
                   !.done = end,
                   !.block = Append(@, seg),
                   !.digest = IF down.retransmitting THEN @ ELSE Append(@, seg),
                   !.todo = <<Tail(Head(@))>> \o Tail(@)]
     /\ UNCHANGED toClient

\* "All expected data has already been transmitted".
WriteAfterEnd ==
  /\ down.pc = "write"
  /\ Head(down.todo) # <<>>
  /\ down.done
  /\ RaiseInWrite
  /\ UNCHANGED <<toServer, toClient>>

\* The loop of the innermost _retransmit ends; the write that it was called by
\* returns.
EndRetransmit ==
  /\ down.pc = "write"
  /\ Head(down.todo) = <<>>
  /\ Len(down.todo) > 1
  /\ down' = [down EXCEPT !.todo = Tail(@), !.retransmitting = FALSE]
  /\ UNCHANGED <<toServer, toClient>>

EndWrite ==
  /\ down.pc = "write"
  /\ down.todo = << <<>> >>
  /\ down' = [down EXCEPT !.pc = "close"]
  /\ UNCHANGED <<toServer, toClient>>

-----------------------------------------------------------------------------
\* Mutant: pos stays where it was.
RetransmitFromPos(f) ==
  LET block == SubSeq(down.block, f.seq + 1, Len(down.block)) IN
    down' = [down EXCEPT !.pc = "write", !.block = <<>>, !.seqno = 0,
               !.blksize = f.blksize, !.retransmitting = TRUE, !.todo = <<block>> \o @]

\* Mutant: pos goes back twice.
RetransmitRewindsTwice(f) ==
  LET block == SubSeq(down.block, f.seq + 1, Len(down.block)) IN
    down' = [down EXCEPT !.pc = "write", !.pos = @ - 2 * Len(block), !.block = <<>>,
               !.seqno = 0, !.blksize = f.blksize, !.retransmitting = TRUE,
               !.todo = <<block>> \o @]

\* _retransmit(ackseq, blksize).
RetransmitBlock(f) ==
  LET block == SubSeq(down.block, f.seq + 1, Len(down.block)) IN
    down' = [down EXCEPT
               !.pc = "write",
               !.pos = @ - Len(block),
               !.block = <<>>,
               !.seqno = 0,
               !.blksize = f.blksize,
               !.retransmitting = TRUE,
               !.todo = <<block>> \o @]

\* _block_ack.
BlockAck ==
  /\ down.pc = "ack"
  /\ TakeDownloadAnswer
  /\ LET f == DownloadAnswer IN
       IF f.kind # "ack"
       THEN /\ SendToServer(IF f.kind = "abort" THEN <<>> ELSE <<Abort>>)
            /\ RaiseInWrite
       ELSE /\ SendToServer(<<>>)
            /\ IF f.seq # down.blksize
               THEN RetransmitBlock(f)
               ELSE down' = [down EXCEPT !.pc = "write", !.block = <<>>,
                               !.seqno = 0, !.blksize = f.blksize]

BlockAckTimesOut ==
  /\ down.pc = "ack"
  /\ SendToServer(<<Abort>>)
  /\ RaiseInWrite
  /\ UNCHANGED toClient

-----------------------------------------------------------------------------
\* close: request_response empties the queue of what has come so far.
CloseDownload ==
  /\ down.pc = "close"
  /\ \E n \in 0..Len(toClient) : toClient' = SubSeq(toClient, n + 1, Len(toClient))
  /\ SendToServer(<<[kind |-> "end_download", crc |-> down.digest]>>)
  /\ down' = [down EXCEPT !.pc = "end"]

\* The answer counts if its lowest bit is set: the end of a download.
ConfirmsEnd(f) == f.kind = "end_download"

EndDownload ==
  /\ down.pc = "end"
  /\ TakeDownloadAnswer
  /\ SendToServer(<<>>)
  /\ FinishDownload(IF ConfirmsEnd(DownloadAnswer) THEN "ok" ELSE "failed")

EndDownloadTimesOut ==
  /\ down.pc = "end"
  /\ SendToServer(<<Abort>>)
  /\ FinishDownload("failed")
  /\ UNCHANGED toClient

-----------------------------------------------------------------------------
DownloadStep ==
  \/ InitDownload
  \/ WriteSegment \/ WriteAfterEnd \/ EndRetransmit \/ EndWrite
  \/ BlockAck
  \/ CloseDownload
  \/ EndDownload

DownloadTimesOut == InitDownloadTimesOut \/ BlockAckTimesOut \/ EndDownloadTimesOut

\* A send raises CanError: of a segment, or of the end of the download.  An abort
\* that cannot be sent is like one that is lost.
DownloadSendFails ==
  /\ \/ down.pc = "write" /\ Head(down.todo) # <<>> /\ ~down.done /\ RaiseInWrite
     \/ down.pc = "close" /\ FinishDownload("failed")
  /\ UNCHANGED <<toServer, toClient>>

=============================================================================
