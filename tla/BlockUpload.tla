---------------------------- MODULE BlockUpload -----------------------------
(***************************************************************************)
(* BlockUploadStream: a client that reads an object by block upload, as    *)
(* `with sdo.open(..., block_transfer=True) as f: f.read()` does: read()   *)
(* until the last segment, then close(); when a call raises, close() too.  *)
(* MAX_RETRIES is 1, as in the code: no request is repeated.               *)
(***************************************************************************)
EXTENDS BlockChannel

VARIABLE up  \* the stream

\* tail: the last segment, which is returned when the end of the upload has
\* come.  timedOut: the retransmission under way was asked for after a timeout.
\* result: what read() has returned, over which the stream computes its CRC.
Uploads ==
  [pc : {"idle", "start", "init", "read", "resync", "end", "close"},
   ackseq : Nat, crc : BOOLEAN, tail : Data, timedOut : BOOLEAN,
   result : Data, outcome : {"none", "running", "ok", "failed"}]

FreshUpload ==
  [pc |-> "idle", ackseq |-> 0, crc |-> FALSE, tail |-> <<>>, timedOut |-> FALSE,
   result |-> <<>>, outcome |-> "none"]

UploadTypeOK == up \in Uploads

UploadInit == up = FreshUpload

\* close() sends nothing unless the upload is done.
FailUpload ==
  up' = [up EXCEPT !.pc = "idle", !.outcome = "failed", !.tail = <<>>]

Answer == Head(toClient)
TakeAnswer == toClient # <<>> /\ toClient' = Tail(toClient)

-----------------------------------------------------------------------------
\* __init__.  The queue is empty: there was no transfer before.
BeginUpload ==
  /\ up.outcome = "none"
  /\ up' = [up EXCEPT !.pc = "init", !.outcome = "running"]
  /\ SendToServer(<<[kind |-> "init_upload"]>>)
  /\ UNCHANGED toClient

StartUpload ==
  /\ up.pc = "init"
  /\ TakeAnswer
  /\ IF Answer.kind = "init_upload"
     THEN /\ SendToServer(<<[kind |-> "start_upload"]>>)
          /\ up' = [up EXCEPT !.pc = "read", !.crc = Answer.crc]
     ELSE /\ SendToServer(IF Answer.kind = "abort" THEN <<>> ELSE <<Abort>>)
          /\ FailUpload

\* request_response aborts after a timeout.
InitUploadTimesOut ==
  /\ up.pc = "init"
  /\ SendToServer(<<Abort>>)
  /\ FailUpload
  /\ UNCHANGED toClient

-----------------------------------------------------------------------------
\* read, from the check of the sequence number on.  A segment that ends its
\* block is acknowledged; after the last one the end of the upload must come.
EndsBlock(f) == f.seq >= MaxBlkSize \/ f.last

Accept(f) ==
  /\ SendToServer(IF EndsBlock(f) THEN <<Ack(f.seq, MaxBlkSize)>> ELSE <<>>)
  /\ up' = [up EXCEPT
              !.pc = IF f.last THEN "end" ELSE "read",
              !.ackseq = IF EndsBlock(f) THEN 0 ELSE f.seq,
              !.tail = IF f.last THEN <<f.seg>> ELSE <<>>,
              !.result = IF f.last THEN @ ELSE Append(@, f.seg)]

\* _retransmit: acknowledge what has come, then wait for the first segment of
\* the next block.
Retransmit(ackseq, afterTimeout) ==
  /\ SendToServer(<<Ack(ackseq, MaxBlkSize)>>)
  /\ up' = [up EXCEPT !.pc = "resync", !.ackseq = 0, !.timedOut = afterTimeout]

\* Mutant: the sequence number is not compared with the one before.
IsNextUnordered(f) == f.kind = "segment" /\ f.seq > up.ackseq

\* Responses other than segments never have the sequence number that is waited
\* for: with the upload's command specifier it is above 64, and they come only
\* after an acknowledgement has reset ackseq.
IsNext(f) == f.kind = "segment" /\ f.seq = up.ackseq + 1

ReadSegment ==
  /\ up.pc = "read"
  /\ TakeAnswer
  /\ IF Answer.kind = "abort"
     THEN FailUpload /\ SendToServer(<<>>)
     ELSE IF IsNext(Answer) THEN Accept(Answer)
          ELSE Retransmit(up.ackseq, FALSE)

\* read catches the timeout and calls _retransmit.
ReadTimesOut ==
  /\ up.pc = "read"
  /\ Retransmit(up.ackseq, TRUE)
  /\ UNCHANGED toClient

\* The loop of _retransmit.  After a timeout read() compares the segment that
\* it returns once more, with the counter that _retransmit has moved on, and
\* starts a second retransmission behind that segment.
Resync ==
  /\ up.pc = "resync"
  /\ TakeAnswer
  /\ CASE Answer.kind = "abort" -> FailUpload /\ SendToServer(<<>>)
       [] IsNext(Answer) /\ ~up.timedOut -> Accept(Answer)
       [] IsNext(Answer) /\ up.timedOut -> Retransmit(Answer.seq, FALSE)
       [] OTHER -> SendToServer(<<>>) /\ UNCHANGED up

\* It came after end_time, and _retransmit reads no further.
ResyncExpires ==
  /\ up.pc = "resync"
  /\ TakeAnswer
  /\ Answer.kind # "abort" /\ ~IsNext(Answer)
  /\ SendToServer(<<Abort>>)
  /\ FailUpload

\* Mutant: a timeout inside _retransmit is followed by another retransmission.
ResyncTimesOutAgain ==
  /\ up.pc = "resync"
  /\ Retransmit(0, TRUE)
  /\ UNCHANGED toClient

\* A timeout inside _retransmit is not caught, and nothing is sent.
ResyncTimesOut ==
  /\ up.pc = "resync"
  /\ FailUpload
  /\ UNCHANGED <<toServer, toClient>>

-----------------------------------------------------------------------------
\* Mutant: the check value of the server is not looked at.
CrcAgreesAlways(crc) == TRUE

\* _crc.final() after the last segment against _server_crc.
CrcAgrees(crc) == up.crc => crc = up.result \o up.tail

\* _end_upload and what read does with the last segment.
EndUpload ==
  /\ up.pc = "end"
  /\ TakeAnswer
  /\ IF Answer.kind = "end_upload" /\ CrcAgrees(Answer.crc)
     THEN /\ up' = [up EXCEPT !.pc = "close", !.result = @ \o up.tail, !.tail = <<>>]
          /\ SendToServer(<<>>)
     ELSE /\ SendToServer(IF Answer.kind = "abort" THEN <<>> ELSE <<Abort>>)
          /\ FailUpload

\* _end_upload calls a method the stream does not have: nothing is sent.
EndUploadTimesOut ==
  /\ up.pc = "end"
  /\ FailUpload
  /\ UNCHANGED <<toServer, toClient>>

CloseUpload ==
  /\ up.pc = "close"
  /\ SendToServer(<<[kind |-> "end_upload"]>>)
  /\ up' = [up EXCEPT !.pc = "idle", !.outcome = "ok"]
  /\ UNCHANGED toClient

-----------------------------------------------------------------------------
UploadStep == StartUpload \/ ReadSegment \/ Resync \/ EndUpload \/ CloseUpload

UploadTimesOut ==
  \/ InitUploadTimesOut
  \/ ReadTimesOut
  \/ ResyncTimesOut \/ ResyncExpires
  \/ EndUploadTimesOut

\* A send raises CanError, and the call with it: the start of the upload, an
\* acknowledgement, after a segment or after a timeout of read, or the end.  An
\* abort that cannot be sent is like one that is lost.
UploadSendFails ==
  /\ \/ up.pc \in {"read", "close"} /\ UNCHANGED toClient
     \/ up.pc = "init" /\ TakeAnswer /\ Answer.kind = "init_upload"
     \/ /\ up.pc = "read"
        /\ TakeAnswer
        /\ Answer.kind # "abort"
        /\ IsNext(Answer) => EndsBlock(Answer)
     \/ /\ up.pc = "resync"
        /\ TakeAnswer
        /\ IsNext(Answer) /\ (up.timedOut \/ EndsBlock(Answer))
  /\ FailUpload
  /\ UNCHANGED toServer

=============================================================================
