------------------------------ MODULE BlockProofs ------------------------------
(***************************************************************************)
(* For values of any number of segments, any block sizes and any number of *)
(* troubles: the types of a block transfer, that an upload that is checked *)
(* by a CRC returns the whole value, that a download stores the whole      *)
(* value or nothing, and that retransmission repairs the gap of one lost   *)
(* segment: a transfer in which nothing else goes wrong does not fail.     *)
(***************************************************************************)
EXTENDS BlockTransfer, SequenceTheorems, TLAPS

\* A server that sends a CRC sends the one of the value.
TrueResponses == {f \in Responses : f.kind = "end_upload" => f.crc = Value}

ChannelInv ==
  /\ toServer \in Seq(Requests) /\ toClient \in Seq(TrueResponses)
  /\ trouble \in Seq(Troubles)

\* The server has not sent more segments than there are.
ServerInv ==
  /\ ServerTypeOK
  /\ srv.phase \in {"start", "sending"} => srv.base + srv.seq < Segments
  /\ srv.phase = "ack" => srv.base + srv.seq <= Segments

\* A stream that has checked the CRC has the value; one that has returned does no more.
UploadInv ==
  /\ UploadTypeOK
  /\ up.pc = "close" /\ up.crc => up.result = Value
  /\ up.outcome = "ok" => up.pc = "idle"
  /\ CheckedUploadIsWhole

\* The segments of the block are among those that were sent, and the write of the
\* application is always the last of those under way.
DownloadInv ==
  /\ DownloadTypeOK
  /\ Len(down.block) <= down.pos
  /\ down.todo # <<>>

BlockInv == ChannelInv /\ ServerInv /\ UploadInv /\ DownloadInv

-----------------------------------------------------------------------------
\* Frames.

\* The value is a sequence of segments.
LEMMA ValueTypes == Value \in Data /\ Len(Value) = Segments /\ \A i \in 1 .. Segments : Value[i] = i
BY BlockAssumption DEF Value, Data

\* The frames that are sent are requests,
LEMMA RequestTypes ==
  /\ \A seq \in Nat, seg \in 1 .. Segments, last \in BOOLEAN : Segment(seq, seg, last) \in Requests
  /\ \A seq \in Nat, blksize \in BlkSizes : Ack(seq, blksize) \in Requests
  /\ Abort \in Requests
  /\ \A k \in {"init_upload", "start_upload", "end_upload", "init_download"} : [kind |-> k] \in Requests
  /\ \A crc \in Data : [kind |-> "end_download", crc |-> crc] \in Requests
BY DEF Segment, Ack, Abort, Requests, SegmentFrames, AckFrames

\* or responses, with the CRC of the value.
LEMMA ResponseTypes ==
  /\ \A seq \in Nat, seg \in 1 .. Segments, last \in BOOLEAN :
       Segment(seq, seg, last) \in TrueResponses
  /\ \A seq \in Nat, blksize \in BlkSizes : Ack(seq, blksize) \in TrueResponses
  /\ Abort \in TrueResponses
  /\ \A crc \in BOOLEAN : [kind |-> "init_upload", crc |-> crc] \in TrueResponses
  /\ [kind |-> "end_upload", crc |-> Value] \in TrueResponses
  /\ \A crc \in BOOLEAN, blksize \in BlkSizes :
       [kind |-> "init_download", crc |-> crc, blksize |-> blksize] \in TrueResponses
  /\ [kind |-> "end_download"] \in TrueResponses
BY ValueTypes DEF Segment, Ack, Abort, TrueResponses, Responses, SegmentFrames, AckFrames

\* What a frame has, by its kind.
LEMMA RequestFields ==
  ASSUME NEW f \in Requests
  PROVE  /\ f.kind = "segment" => f.seq \in Nat /\ f.seg \in 1 .. Segments /\ f.last \in BOOLEAN
         /\ f.kind = "ack" => f.seq \in Nat /\ f.blksize \in BlkSizes
BY DEF Requests, SegmentFrames, AckFrames

LEMMA ResponseFields ==
  ASSUME NEW f \in TrueResponses
  PROVE  /\ f.kind = "segment" => f.seq \in Nat /\ f.seg \in 1 .. Segments /\ f.last \in BOOLEAN
         /\ f.kind = "ack" => f.seq \in Nat /\ f.blksize \in BlkSizes
         /\ f.kind = "init_upload" => f.crc \in BOOLEAN
         /\ f.kind = "end_upload" => f.crc = Value
         /\ f.kind = "init_download" => f.crc \in BOOLEAN /\ f.blksize \in BlkSizes
BY DEF TrueResponses, Responses, SegmentFrames, AckFrames

\* Sending to the server.
LEMMA SendTypes ==
  ASSUME ChannelInv, NEW frames \in Seq(Requests), SendToServer(frames)
  PROVE  toServer' \in Seq(Requests)
BY ConcatProperties DEF ChannelInv, SendToServer

\* A response that is taken.
LEMMA TakeTypes ==
  ASSUME ChannelInv, toClient # <<>>
  PROVE  Head(toClient) \in TrueResponses /\ Tail(toClient) \in Seq(TrueResponses)
BY DEF ChannelInv

-----------------------------------------------------------------------------
\* The upload.

\* A stream that fails.
LEMMA FailUploadKeeps ==
  ASSUME UploadInv, FailUpload, up.pc # "idle"
  PROVE  UploadInv'
<1>1. <<>> \in Data
  BY DEF Data
<1>2. up' = [up EXCEPT !.pc = "idle", !.outcome = "failed", !.tail = <<>>]
  BY DEF FailUpload
<1> QED BY <1>1, <1>2 DEF UploadInv, UploadTypeOK, Uploads, CheckedUploadIsWhole

\* A segment that is taken.
LEMMA AcceptKeeps ==
  ASSUME ChannelInv, UploadInv, NEW f \in TrueResponses, f.kind = "segment", Accept(f),
         up.pc # "idle"
  PROVE  UploadInv' /\ toServer' \in Seq(Requests)
<1>1. f.seq \in Nat /\ f.seg \in 1 .. Segments /\ f.last \in BOOLEAN
  BY ResponseFields
<1>2. MaxBlkSize \in BlkSizes
  BY BlockAssumption DEF BlkSizes
<1>3. toServer' \in Seq(Requests)
  <2>1. Ack(f.seq, MaxBlkSize) \in Requests
    BY <1>1, <1>2, RequestTypes
  <2>2. <<>> \in Seq(Requests) /\ <<Ack(f.seq, MaxBlkSize)>> \in Seq(Requests)
    BY <2>1
  <2> QED BY <2>2, SendTypes DEF Accept
<1>4. UploadInv'
  <2>1. up \in Uploads /\ up.result \in Data
    BY DEF UploadInv, UploadTypeOK, Uploads
  <2>2. <<f.seg>> \in Data /\ <<>> \in Data /\ Append(up.result, f.seg) \in Data
    BY <1>1, <2>1 DEF Data
  <2>3. up' = [up EXCEPT
              !.pc = IF f.last THEN "end" ELSE "read",
              !.ackseq = IF EndsBlock(f) THEN 0 ELSE f.seq,
              !.tail = IF f.last THEN <<f.seg>> ELSE <<>>,
              !.result = IF f.last THEN up.result ELSE Append(up.result, f.seg)]
    BY DEF Accept
  <2>4. up' \in Uploads /\ up'.pc \in {"end", "read"} /\ up'.outcome = up.outcome
    BY <1>1, <2>1, <2>2, <2>3 DEF Uploads
  <2> QED BY <2>4 DEF UploadInv, UploadTypeOK, CheckedUploadIsWhole
<1> QED BY <1>3, <1>4

\* A retransmission that is asked for.
LEMMA RetransmitKeeps ==
  ASSUME ChannelInv, UploadInv, NEW ackseq \in Nat, NEW afterTimeout \in BOOLEAN,
         Retransmit(ackseq, afterTimeout), up.pc # "idle"
  PROVE  UploadInv' /\ toServer' \in Seq(Requests)
<1>1. toServer' \in Seq(Requests)
  <2>1. MaxBlkSize \in BlkSizes
    BY BlockAssumption DEF BlkSizes
  <2>2. <<Ack(ackseq, MaxBlkSize)>> \in Seq(Requests)
    BY <2>1, RequestTypes
  <2> QED BY <2>2, SendTypes DEF Retransmit
<1>2. up' = [up EXCEPT !.pc = "resync", !.ackseq = 0, !.timedOut = afterTimeout]
  BY DEF Retransmit
<1> QED BY <1>1, <1>2 DEF UploadInv, UploadTypeOK, Uploads, CheckedUploadIsWhole

\* What a stream sends when it fails.
LEMMA AbortTypes == <<>> \in Seq(Requests) /\ <<Abort>> \in Seq(Requests)
BY RequestTypes

LEMMA UploadSteps ==
  ASSUME ChannelInv, UploadInv, UploadStep
  PROVE  /\ UploadInv' /\ toServer' \in Seq(Requests)
         /\ toClient' = toClient \/ (toClient # <<>> /\ toClient' = Tail(toClient))
<1> USE AbortTypes
<1>1. up \in Uploads
  BY DEF UploadInv, UploadTypeOK
<1>2. CASE StartUpload
  <2>1. up.pc = "init" /\ toClient # <<>> /\ toClient' = Tail(toClient) /\ Answer \in TrueResponses
    BY <1>2, TakeTypes DEF StartUpload, TakeAnswer, Answer
  <2>2. CASE Answer.kind = "init_upload"
    <3>1. /\ SendToServer(<<[kind |-> "start_upload"]>>)
          /\ up' = [up EXCEPT !.pc = "read", !.crc = Answer.crc]
      BY <1>2, <2>2 DEF StartUpload
    <3>2. <<[kind |-> "start_upload"]>> \in Seq(Requests)
      BY RequestTypes
    <3>3. Answer.crc \in BOOLEAN
      BY <2>1, <2>2, ResponseFields
    <3>4. up' \in Uploads /\ up'.pc = "read" /\ up'.outcome = up.outcome
      BY <1>1, <3>1, <3>3 DEF Uploads
    <3>5. UploadInv'
      BY <2>1, <3>4 DEF UploadInv, UploadTypeOK, CheckedUploadIsWhole
    <3>6. toServer' \in Seq(Requests)
      BY <3>1, <3>2, SendTypes
    <3> QED BY <2>1, <3>5, <3>6
  <2>3. CASE Answer.kind # "init_upload"
    <3>1. SendToServer(IF Answer.kind = "abort" THEN <<>> ELSE <<Abort>>) /\ FailUpload
      BY <1>2, <2>3 DEF StartUpload
    <3> QED BY <2>1, <3>1, SendTypes, FailUploadKeeps
  <2> QED BY <2>2, <2>3
<1>3. CASE ReadSegment
  <2>1. up.pc = "read" /\ toClient # <<>> /\ toClient' = Tail(toClient) /\ Answer \in TrueResponses
    BY <1>3, TakeTypes DEF ReadSegment, TakeAnswer, Answer
  <2>2. CASE Answer.kind = "abort"
    <3>1. FailUpload /\ SendToServer(<<>>)
      BY <1>3, <2>2 DEF ReadSegment
    <3> QED BY <2>1, <3>1, SendTypes, FailUploadKeeps
  <2>3. CASE Answer.kind # "abort" /\ IsNext(Answer)
    <3>1. Accept(Answer) /\ Answer.kind = "segment"
      BY <1>3, <2>3 DEF ReadSegment, IsNext
    <3> QED BY <2>1, <3>1, AcceptKeeps
  <2>4. CASE Answer.kind # "abort" /\ ~IsNext(Answer)
    <3>1. Retransmit(up.ackseq, FALSE) /\ up.ackseq \in Nat
      BY <1>1, <1>3, <2>4 DEF ReadSegment, Uploads
    <3> QED BY <2>1, <3>1, RetransmitKeeps
  <2> QED BY <2>2, <2>3, <2>4
<1>4. CASE Resync
  <2>1. up.pc = "resync" /\ toClient # <<>> /\ toClient' = Tail(toClient) /\ Answer \in TrueResponses
    BY <1>4, TakeTypes DEF Resync, TakeAnswer, Answer
  <2>2. CASE Answer.kind = "abort"
    <3>1. FailUpload /\ SendToServer(<<>>)
      BY <1>4, <2>2 DEF Resync, IsNext
    <3> QED BY <2>1, <3>1, SendTypes, FailUploadKeeps
  <2>3. CASE IsNext(Answer) /\ ~up.timedOut
    <3>1. Accept(Answer) /\ Answer.kind = "segment"
      BY <1>4, <2>3 DEF Resync, IsNext
    <3> QED BY <2>1, <3>1, AcceptKeeps
  <2>4. CASE IsNext(Answer) /\ up.timedOut
    <3>1. Retransmit(Answer.seq, FALSE) /\ Answer.kind = "segment"
      BY <1>4, <2>4 DEF Resync, IsNext
    <3>2. Answer.seq \in Nat
      BY <2>1, <3>1, ResponseFields
    <3> QED BY <2>1, <3>1, <3>2, RetransmitKeeps
  <2>5. CASE Answer.kind # "abort" /\ ~IsNext(Answer)
    <3>1. SendToServer(<<>>) /\ UNCHANGED up
      BY <1>4, <2>5 DEF Resync
    <3>2. UploadInv'
      BY <3>1 DEF UploadInv, UploadTypeOK, CheckedUploadIsWhole
    <3> QED BY <2>1, <3>1, <3>2, SendTypes
  <2> QED BY <2>2, <2>3, <2>4, <2>5
<1>5. CASE EndUpload
  <2>1. up.pc = "end" /\ toClient # <<>> /\ toClient' = Tail(toClient) /\ Answer \in TrueResponses
    BY <1>5, TakeTypes DEF EndUpload, TakeAnswer, Answer
  <2>2. CASE Answer.kind = "end_upload" /\ CrcAgrees(Answer.crc)
    <3>1. /\ up' = [up EXCEPT !.pc = "close", !.result = up.result \o up.tail, !.tail = <<>>]
          /\ SendToServer(<<>>)
      BY <1>5, <2>2 DEF EndUpload
    <3>2. up.result \o up.tail \in Data /\ <<>> \in Data
      <4>1. up.result \in Seq(1 .. Segments) /\ up.tail \in Seq(1 .. Segments)
        BY <1>1 DEF Uploads, Data
      <4> QED BY <4>1, ConcatProperties DEF Data
    <3>3. up.crc => up.result \o up.tail = Value
      BY <2>1, <2>2, ResponseFields DEF CrcAgrees
    <3>4. /\ up' \in Uploads /\ up'.pc = "close" /\ up'.outcome = up.outcome
          /\ up'.result = up.result \o up.tail /\ up'.crc = up.crc
      BY <1>1, <3>1, <3>2 DEF Uploads
    <3>5. UploadInv'
      BY <2>1, <3>3, <3>4 DEF UploadInv, UploadTypeOK, CheckedUploadIsWhole
    <3> QED BY <2>1, <3>1, <3>5, SendTypes
  <2>3. CASE ~(Answer.kind = "end_upload" /\ CrcAgrees(Answer.crc))
    <3>1. SendToServer(IF Answer.kind = "abort" THEN <<>> ELSE <<Abort>>) /\ FailUpload
      BY <1>5, <2>3 DEF EndUpload
    <3> QED BY <2>1, <3>1, SendTypes, FailUploadKeeps
  <2> QED BY <2>2, <2>3
<1>6. CASE CloseUpload
  <2>1. /\ up.pc = "close" /\ SendToServer(<<[kind |-> "end_upload"]>>)
        /\ up' = [up EXCEPT !.pc = "idle", !.outcome = "ok"] /\ UNCHANGED toClient
    BY <1>6 DEF CloseUpload
  <2>2. <<[kind |-> "end_upload"]>> \in Seq(Requests)
    BY RequestTypes
  <2>3. /\ up' \in Uploads /\ up'.pc = "idle" /\ up'.result = up.result /\ up'.crc = up.crc
    BY <1>1, <2>1 DEF Uploads
  <2>4. UploadInv'
    BY <2>1, <2>3 DEF UploadInv, UploadTypeOK, CheckedUploadIsWhole
  <2> QED BY <2>1, <2>2, <2>4, SendTypes
<1> QED BY <1>2, <1>3, <1>4, <1>5, <1>6 DEF UploadStep

\* A wait of the upload that ends without an answer, or a send that raises.
LEMMA UploadTroubles ==
  ASSUME ChannelInv, UploadInv, UploadTimesOut \/ UploadSendFails
  PROVE  /\ UploadInv' /\ toServer' \in Seq(Requests)
         /\ toClient' = toClient \/ (toClient # <<>> /\ toClient' = Tail(toClient))
<1> USE AbortTypes
<1>1. toServer \in Seq(Requests)
  BY DEF ChannelInv
<1>2. CASE InitUploadTimesOut
  BY <1>2, SendTypes, FailUploadKeeps DEF InitUploadTimesOut
<1>3. CASE ReadTimesOut
  <2>1. up.ackseq \in Nat
    BY DEF UploadInv, UploadTypeOK, Uploads
  <2> QED BY <1>3, <2>1, RetransmitKeeps DEF ReadTimesOut
<1>4. CASE ResyncTimesOut
  BY <1>1, <1>4, FailUploadKeeps DEF ResyncTimesOut
<1>5. CASE ResyncExpires
  BY <1>5, SendTypes, FailUploadKeeps DEF ResyncExpires, TakeAnswer
<1>6. CASE EndUploadTimesOut
  BY <1>1, <1>6, FailUploadKeeps DEF EndUploadTimesOut
<1>7. CASE UploadSendFails
  BY <1>1, <1>7, FailUploadKeeps DEF UploadSendFails, TakeAnswer
<1> QED BY <1>2, <1>3, <1>4, <1>5, <1>6, <1>7 DEF UploadTimesOut

-----------------------------------------------------------------------------
\* What the writes under way and the blocks are made of.
LEMMA ConsTypes ==
  ASSUME NEW S, NEW e \in S, NEW s \in Seq(S)
  PROVE  <<e>> \o s \in Seq(S) /\ <<e>> \o s # <<>>
<1>1. <<e>> \in Seq(S) /\ Len(<<e>>) = 1 /\ Len(s) \in Nat
  OBVIOUS
<1>2. <<e>> \o s \in Seq(S) /\ Len(<<e>> \o s) = Len(<<e>>) + Len(s)
  BY <1>1, ConcatProperties
<1> QED BY <1>1, <1>2

LEMMA TailTypes ==
  ASSUME NEW S, NEW s \in Seq(S), Len(s) > 1
  PROVE  Tail(s) \in Seq(S) /\ Tail(s) # <<>>
<1>1. Len(s) \in Nat /\ s # <<>>
  OBVIOUS
<1>2. PICK t : t = Tail(s)
  OBVIOUS
<1>3. t \in Seq(S) /\ Len(t) = Len(s) - 1
  BY <1>1, <1>2, HeadTailProperties
<1>4. t # <<>>
  <2>1. Len(t) # 0
    <3>1. PICK n \in Nat : n = Len(s) /\ n > 1
      BY <1>1
    <3>2. n - 1 # 0
      BY <3>1
    <3> QED BY <1>3, <3>1, <3>2, Zenon
  <2>2. Len(<<>>) = 0
    OBVIOUS
  <2> QED BY <2>1, <2>2, Zenon
<1> QED BY <1>2, <1>3, <1>4

LEMMA DropTypes ==
  ASSUME NEW S, NEW s \in Seq(S), NEW k \in Nat
  PROVE  LET r == SubSeq(s, k + 1, Len(s)) IN
           r \in Seq(S) /\ Len(r) \in Nat /\ Len(r) <= Len(s)
<1>1. PICK n \in Nat : n = Len(s)
  OBVIOUS
<1>2. \A i \in k + 1 .. n : s[i] \in S
  BY <1>1
<1>3. k + 1 \in Int /\ n \in Int
  BY <1>1
<1>4. PICK r : r = SubSeq(s, k + 1, n)
  OBVIOUS
<1>5. r \in Seq(S) /\ Len(r) = IF k + 1 <= n THEN n - (k + 1) + 1 ELSE 0
  BY <1>2, <1>3, <1>4, SubSeqProperties
<1> QED BY <1>1, <1>4, <1>5

-----------------------------------------------------------------------------
\* The download.

\* A stream that fails or returns.
LEMMA FinishDownloadKeeps ==
  ASSUME DownloadInv, NEW how \in {"ok", "failed"}, FinishDownload(how)
  PROVE  DownloadInv'
<1>1. down \in Downloads
  BY DEF DownloadInv, DownloadTypeOK
<1>2. down' = [down EXCEPT !.pc = "idle",
                 !.outcome = IF down.outcome = "running" THEN how ELSE down.outcome]
  BY DEF FinishDownload
<1>3. /\ down' \in Downloads /\ down'.block = down.block /\ down'.pos = down.pos
      /\ down'.todo = down.todo
  BY <1>1, <1>2 DEF Downloads
<1> QED BY <1>3 DEF DownloadInv, DownloadTypeOK

LEMMA RaiseInWriteKeeps ==
  ASSUME DownloadInv, RaiseInWrite
  PROVE  DownloadInv'
<1>1. down \in Downloads
  BY DEF DownloadInv, DownloadTypeOK
<1>2. /\ down' \in Downloads /\ down'.block = down.block /\ down'.pos = down.pos
      /\ down'.todo = down.todo
  BY <1>1 DEF Downloads, RaiseInWrite
<1> QED BY <1>2 DEF DownloadInv, DownloadTypeOK

\* A segment that is written.
LEMMA WriteSegmentKeeps ==
  ASSUME ChannelInv, DownloadInv, WriteSegment
  PROVE  DownloadInv' /\ toServer' \in Seq(Requests)
<1>1. /\ down \in Downloads /\ Len(down.block) <= down.pos /\ down.todo # <<>>
      /\ Segments \in Nat
  BY BlockAssumption DEF DownloadInv, DownloadTypeOK
<1>2. /\ down.todo \in Seq(Data) /\ down.block \in Data /\ down.digest \in Data
      /\ down.pos \in Nat /\ down.seqno \in Nat /\ down.blksize \in Nat
  BY <1>1 DEF Downloads
<1>3. Head(down.todo) \in Data /\ Tail(down.todo) \in Seq(Data)
  BY <1>1, <1>2, HeadTailProperties
<1>4. PICK writes : writes = Head(down.todo)
  OBVIOUS
<1>5. writes \in Seq(1 .. Segments) /\ writes # <<>>
  BY <1>3, <1>4 DEF WriteSegment, Data
<1>6. PICK seg \in 1 .. Segments : seg = Head(Head(down.todo))
  BY <1>4, <1>5, HeadTailProperties
<1>7. PICK rest \in Data : rest = Tail(Head(down.todo))
  BY <1>4, <1>5, HeadTailProperties DEF Data
<1>8. Append(down.block, seg) \in Data /\ Append(down.digest, seg) \in Data
      /\ Len(Append(down.block, seg)) = Len(down.block) + 1
  BY <1>2 DEF Data
<1>9. PICK todo \in Seq(Data) : todo = <<rest>> \o Tail(down.todo) /\ todo # <<>>
  BY <1>3, ConsTypes
<1>10. PICK end \in BOOLEAN : end = (down.pos + 1 >= Segments)
  <2>1. (down.pos + 1 >= Segments) \in BOOLEAN
    BY <1>1, <1>2
  <2> QED BY <2>1, Zenon
<1>11. PICK blksize \in Nat : blksize = IF end THEN down.seqno + 1 ELSE down.blksize
  BY <1>2
<1>12. PICK digest \in Data :
         digest = IF down.retransmitting THEN down.digest ELSE Append(down.digest, seg)
  BY <1>2, <1>8
<1>13. PICK pc \in {"ack", "write"} :
         pc = IF down.seqno + 1 >= blksize THEN "ack" ELSE "write"
  OBVIOUS
<1>14. PICK block \in Data : block = Append(down.block, seg)
  BY <1>8
<1>15. PICK pos \in Nat : pos = down.pos + 1
  BY <1>2
<1>16. PICK seqno \in Nat : seqno = down.seqno + 1
  BY <1>2
<1>17. /\ SendToServer(<<Segment(seqno, seg, end)>>)
       /\ down' = [down EXCEPT !.pc = pc, !.pos = pos, !.seqno = seqno, !.blksize = blksize,
                     !.done = end, !.block = block, !.digest = digest, !.todo = todo]
  BY <1>6, <1>7, <1>9, <1>10, <1>11, <1>12, <1>13, <1>14, <1>15, <1>16 DEF WriteSegment
<1>18. <<Segment(seqno, seg, end)>> \in Seq(Requests)
  BY RequestTypes
<1>19. down \in Downloads
  BY <1>1
<1>20. down' \in Downloads /\ down'.pos = pos /\ down'.block = block /\ down'.todo = todo
  BY <1>17, <1>19 DEF Downloads
<1>21. Len(block) <= pos
  <2>1. PICK n \in Nat : n = Len(down.block)
    BY <1>2 DEF Data
  <2> QED BY <1>1, <1>2, <1>8, <1>14, <1>15, <2>1
<1> QED BY <1>9, <1>17, <1>18, <1>20, <1>21, SendTypes DEF DownloadInv, DownloadTypeOK

\* A block whose end is repeated.
LEMMA RetransmitBlockKeeps ==
  ASSUME DownloadInv, NEW f \in TrueResponses, f.kind = "ack", RetransmitBlock(f)
  PROVE  DownloadInv'
<1>1. /\ down \in Downloads /\ Len(down.block) <= down.pos /\ down.todo # <<>>
      /\ down.todo \in Seq(Data) /\ down.block \in Seq(1 .. Segments) /\ down.pos \in Nat
      /\ Len(down.block) \in Nat
  BY DEF DownloadInv, DownloadTypeOK, Downloads, Data
<1>2. f.seq \in Nat /\ f.blksize \in Nat
  BY ResponseFields, BlockAssumption DEF BlkSizes
<1>3. PICK block : block = SubSeq(down.block, f.seq + 1, Len(down.block))
  OBVIOUS
<1>4. block \in Data /\ Len(block) \in Nat /\ Len(block) <= Len(down.block)
  BY <1>1, <1>2, <1>3, DropTypes DEF Data
<1>5. PICK todo \in Seq(Data) : todo = <<block>> \o down.todo /\ todo # <<>>
  BY <1>1, <1>4, ConsTypes
<1>6. PICK pos \in Nat : pos = down.pos - Len(block)
  BY <1>1, <1>4
<1>7. down' = [down EXCEPT !.pc = "write", !.pos = pos, !.block = <<>>, !.seqno = 0,
                 !.blksize = f.blksize, !.retransmitting = TRUE, !.todo = todo]
  BY <1>3, <1>5, <1>6 DEF RetransmitBlock
<1>9. <<>> \in Data
  BY DEF Data
<1>8. down' \in Downloads /\ down'.pos = pos /\ down'.block = <<>> /\ down'.todo = todo
  BY <1>1, <1>2, <1>7, <1>9 DEF Downloads
<1> QED BY <1>5, <1>8 DEF DownloadInv, DownloadTypeOK

LEMMA DownloadSteps ==
  ASSUME ChannelInv, DownloadInv, DownloadStep
  PROVE  DownloadInv' /\ toServer' \in Seq(Requests) /\ toClient' \in Seq(TrueResponses)
<1> USE AbortTypes
<1>1. /\ down \in Downloads /\ Len(down.block) <= down.pos /\ down.todo # <<>>
      /\ toServer \in Seq(Requests) /\ toClient \in Seq(TrueResponses)
  BY DEF ChannelInv, DownloadInv, DownloadTypeOK
<1>2. CASE InitDownload
  <2>1. /\ toClient' \in Seq(TrueResponses) /\ DownloadAnswer \in TrueResponses
    BY <1>2, TakeTypes DEF InitDownload, TakeDownloadAnswer, DownloadAnswer
  <2>2. CASE DownloadAnswer.kind = "init_download"
    <3>1. /\ SendToServer(<<>>)
          /\ down' = [down EXCEPT !.pc = "write", !.blksize = DownloadAnswer.blksize,
                        !.crc = DownloadAnswer.crc]
      BY <1>2, <2>2 DEF InitDownload
    <3>2. DownloadAnswer.blksize \in Nat /\ DownloadAnswer.crc \in BOOLEAN
      BY <2>1, <2>2, ResponseFields, BlockAssumption DEF BlkSizes
    <3>3. /\ down' \in Downloads /\ down'.block = down.block /\ down'.pos = down.pos
          /\ down'.todo = down.todo
      BY <1>1, <3>1, <3>2 DEF Downloads
    <3> QED BY <1>1, <2>1, <3>1, <3>3, SendTypes DEF DownloadInv, DownloadTypeOK
  <2>3. CASE DownloadAnswer.kind # "init_download"
    <3>1. /\ SendToServer(IF DownloadAnswer.kind = "abort" THEN <<>> ELSE <<Abort>>)
          /\ FinishDownload("failed")
      BY <1>2, <2>3 DEF InitDownload
    <3> QED BY <2>1, <3>1, SendTypes, FinishDownloadKeeps
  <2> QED BY <2>2, <2>3
<1>3. CASE WriteSegment
  BY <1>1, <1>3, WriteSegmentKeeps DEF WriteSegment
<1>4. CASE WriteAfterEnd
  BY <1>1, <1>4, RaiseInWriteKeeps DEF WriteAfterEnd
<1>5. CASE EndRetransmit
  <2>1. /\ down' = [down EXCEPT !.todo = Tail(down.todo), !.retransmitting = FALSE]
        /\ UNCHANGED <<toServer, toClient>> /\ Len(down.todo) > 1
    BY <1>5 DEF EndRetransmit
  <2>2. down.todo \in Seq(Data)
    BY <1>1 DEF Downloads
  <2>3. Tail(down.todo) \in Seq(Data) /\ Tail(down.todo) # <<>>
    BY <2>1, <2>2, TailTypes
  <2>4. /\ down' \in Downloads /\ down'.block = down.block /\ down'.pos = down.pos
        /\ down'.todo = Tail(down.todo)
    BY <1>1, <2>1, <2>3 DEF Downloads
  <2> QED BY <1>1, <2>1, <2>3, <2>4 DEF DownloadInv, DownloadTypeOK
<1>6. CASE EndWrite
  <2>1. down' = [down EXCEPT !.pc = "close"] /\ UNCHANGED <<toServer, toClient>>
    BY <1>6 DEF EndWrite
  <2>2. /\ down' \in Downloads /\ down'.block = down.block /\ down'.pos = down.pos
        /\ down'.todo = down.todo
    BY <1>1, <2>1 DEF Downloads
  <2> QED BY <1>1, <2>1, <2>2 DEF DownloadInv, DownloadTypeOK
<1>7. CASE BlockAck
  <2>1. toClient' \in Seq(TrueResponses) /\ DownloadAnswer \in TrueResponses
    BY <1>7, TakeTypes DEF BlockAck, TakeDownloadAnswer, DownloadAnswer
  <2>2. CASE DownloadAnswer.kind # "ack"
    <3>1. /\ SendToServer(IF DownloadAnswer.kind = "abort" THEN <<>> ELSE <<Abort>>)
          /\ RaiseInWrite
      BY <1>7, <2>2 DEF BlockAck
    <3> QED BY <2>1, <3>1, SendTypes, RaiseInWriteKeeps
  <2>3. CASE DownloadAnswer.kind = "ack" /\ DownloadAnswer.seq # down.blksize
    <3>1. SendToServer(<<>>) /\ RetransmitBlock(DownloadAnswer)
      BY <1>7, <2>3 DEF BlockAck
    <3> QED BY <2>1, <2>3, <3>1, SendTypes, RetransmitBlockKeeps
  <2>4. CASE DownloadAnswer.kind = "ack" /\ DownloadAnswer.seq = down.blksize
    <3>1. /\ SendToServer(<<>>)
          /\ down' = [down EXCEPT !.pc = "write", !.block = <<>>, !.seqno = 0,
                        !.blksize = DownloadAnswer.blksize]
      BY <1>7, <2>4 DEF BlockAck
    <3>2. DownloadAnswer.blksize \in Nat /\ <<>> \in Data
      BY <2>1, <2>4, ResponseFields, BlockAssumption DEF BlkSizes, Data
    <3>3. /\ down' \in Downloads /\ down'.block = <<>> /\ down'.pos = down.pos
          /\ down'.todo = down.todo /\ down.pos \in Nat
      BY <1>1, <3>1, <3>2 DEF Downloads
    <3>4. Len(<<>>) = 0
      OBVIOUS
    <3>5. Len(down'.block) <= down'.pos
      BY <3>3, <3>4
    <3>6. DownloadInv'
      BY <1>1, <3>3, <3>5 DEF DownloadInv, DownloadTypeOK
    <3> QED BY <2>1, <3>1, <3>6, SendTypes
  <2> QED BY <2>2, <2>3, <2>4
<1>8. CASE CloseDownload
  <2>1. toClient' \in Seq(TrueResponses)
    <3>1. PICK n \in 0 .. Len(toClient) : toClient' = SubSeq(toClient, n + 1, Len(toClient))
      BY <1>8 DEF CloseDownload
    <3>2. n \in Nat
      BY <1>1
    <3> QED BY <1>1, <3>1, <3>2, DropTypes
  <2>2. /\ SendToServer(<<[kind |-> "end_download", crc |-> down.digest]>>)
        /\ down' = [down EXCEPT !.pc = "end"]
    BY <1>8 DEF CloseDownload
  <2>3. <<[kind |-> "end_download", crc |-> down.digest]>> \in Seq(Requests)
    BY <1>1, RequestTypes DEF Downloads
  <2>4. /\ down' \in Downloads /\ down'.block = down.block /\ down'.pos = down.pos
        /\ down'.todo = down.todo
    BY <1>1, <2>2 DEF Downloads
  <2> QED BY <1>1, <2>1, <2>2, <2>3, <2>4, SendTypes DEF DownloadInv, DownloadTypeOK
<1>9. CASE EndDownload
  <2>1. toClient' \in Seq(TrueResponses)
    BY <1>9, TakeTypes DEF EndDownload, TakeDownloadAnswer
  <2>2. /\ SendToServer(<<>>)
        /\ FinishDownload(IF ConfirmsEnd(DownloadAnswer) THEN "ok" ELSE "failed")
    BY <1>9 DEF EndDownload
  <2> QED BY <2>1, <2>2, SendTypes, FinishDownloadKeeps
<1> QED BY <1>2, <1>3, <1>4, <1>5, <1>6, <1>7, <1>8, <1>9 DEF DownloadStep

\* A wait of the download that ends without an answer, or a send that raises.
LEMMA DownloadTroubles ==
  ASSUME ChannelInv, DownloadInv, DownloadTimesOut \/ DownloadSendFails
  PROVE  DownloadInv' /\ toServer' \in Seq(Requests) /\ toClient' = toClient
<1> USE AbortTypes
<1>1. toServer \in Seq(Requests)
  BY DEF ChannelInv
<1>2. CASE InitDownloadTimesOut
  BY <1>2, SendTypes, FinishDownloadKeeps DEF InitDownloadTimesOut
<1>3. CASE BlockAckTimesOut
  BY <1>3, SendTypes, RaiseInWriteKeeps DEF BlockAckTimesOut
<1>4. CASE EndDownloadTimesOut
  BY <1>4, SendTypes, FinishDownloadKeeps DEF EndDownloadTimesOut
<1>5. CASE DownloadSendFails
  BY <1>1, <1>5, FinishDownloadKeeps, RaiseInWriteKeeps DEF DownloadSendFails
<1> QED BY <1>2, <1>3, <1>4, <1>5 DEF DownloadTimesOut

-----------------------------------------------------------------------------
\* The server.

\* A request that is taken and answered.
LEMMA ReplyTypes ==
  ASSUME ChannelInv, toServer # <<>>, NEW frames \in Seq(TrueResponses), Reply(frames)
  PROVE  toServer' \in Seq(Requests) /\ toClient' \in Seq(TrueResponses)
<1>1. toServer \in Seq(Requests) /\ toClient \in Seq(TrueResponses)
  BY DEF ChannelInv
<1> QED BY <1>1, HeadTailProperties, ConcatProperties DEF Reply

\* The answers there are.
LEMMA ReplyFrames ==
  /\ <<>> \in Seq(TrueResponses) /\ <<Abort>> \in Seq(TrueResponses)
  /\ \A f \in TrueResponses : <<f>> \in Seq(TrueResponses)
BY ResponseTypes

\* The server at rest.
LEMMA IdleTypes ==
  Idle \in ServerStates /\ Idle.phase = "idle" /\ Idle.base = 0 /\ Idle.seq = 0
BY BlockAssumption DEF Idle, ServerStates, BlkSizes, Data

LEMMA SendSegmentKeeps ==
  ASSUME ChannelInv, ServerInv, SendSegment
  PROVE  ServerInv' /\ toServer' \in Seq(Requests) /\ toClient' \in Seq(TrueResponses)
<1>1. /\ srv \in ServerStates /\ srv.phase = "sending" /\ srv.base + srv.seq < Segments
      /\ srv.base \in Nat /\ srv.seq \in Nat /\ Segments \in Nat
      /\ toServer \in Seq(Requests) /\ toClient \in Seq(TrueResponses)
  BY BlockAssumption DEF SendSegment, ServerInv, ServerTypeOK, ServerStates, ChannelInv
<1>2. PICK seq \in Nat : seq = srv.seq + 1
  BY <1>1
<1>3. PICK last \in BOOLEAN : last = (srv.base + seq = Segments)
  OBVIOUS
<1>4. PICK seg \in 1 .. Segments : seg = srv.base + seq
  BY <1>1, <1>2
<1>5. PICK phase \in {"sending", "ack"} :
        phase = IF srv.base + seq = Segments \/ seq = srv.blksize THEN "ack" ELSE srv.phase
  BY <1>1
<1>6. /\ toClient' = Append(toClient, Segment(seq, seg, last))
      /\ srv' = [srv EXCEPT !.seq = seq, !.phase = phase]
      /\ UNCHANGED <<toServer, stored>>
  BY <1>2, <1>3, <1>4, <1>5 DEF SendSegment
<1>7. phase = "sending" => seg < Segments
  BY <1>1, <1>4, <1>5
<1>8. Segment(seq, seg, last) \in TrueResponses
  BY ResponseTypes
<1>9. toClient' \in Seq(TrueResponses)
  BY <1>1, <1>6, <1>8
<1>10. srv' \in ServerStates /\ srv'.phase = phase /\ srv'.base = srv.base /\ srv'.seq = seq
  BY <1>1, <1>6 DEF ServerStates
<1>11. ServerInv'
  BY <1>1, <1>4, <1>6, <1>7, <1>10 DEF ServerInv, ServerTypeOK
<1> QED BY <1>1, <1>6, <1>9, <1>11

LEMMA OnAckKeeps ==
  ASSUME ChannelInv, ServerInv, toServer # <<>>, OnAck
  PROVE  ServerInv' /\ toServer' \in Seq(Requests) /\ toClient' \in Seq(TrueResponses)
<1>1. PICK f \in Requests : f = Head(toServer)
  BY HeadTailProperties DEF ChannelInv
<1>2. f.kind = "ack" /\ f.seq <= srv.seq /\ srv.phase = "ack" /\ UNCHANGED stored
  BY <1>1 DEF OnAck
<1>3. /\ f.seq \in Nat /\ f.blksize \in BlkSizes
      /\ srv \in ServerStates /\ srv.base \in Nat /\ srv.seq \in Nat /\ stored \in Data
      /\ srv.base + srv.seq <= Segments /\ Segments \in Nat
  BY <1>2, RequestFields, BlockAssumption DEF ServerInv, ServerTypeOK, ServerStates
<1>4. PICK acked \in Nat : acked = srv.base + f.seq
  BY <1>3
<1>5. CASE acked = Segments
  <2>1. /\ Reply(<<[kind |-> "end_upload", crc |-> Value]>>)
        /\ srv' = [srv EXCEPT !.phase = "ending"]
    BY <1>1, <1>4, <1>5 DEF OnAck
  <2>2. srv' \in ServerStates /\ srv'.phase = "ending"
    BY <1>3, <2>1 DEF ServerStates
  <2>3. <<[kind |-> "end_upload", crc |-> Value]>> \in Seq(TrueResponses)
    BY ResponseTypes
  <2> QED BY <1>2, <1>3, <2>1, <2>2, <2>3, ReplyTypes DEF ServerInv, ServerTypeOK
<1>6. CASE acked # Segments
  <2>1. /\ Reply(<<>>)
        /\ srv' = [srv EXCEPT !.phase = "sending", !.base = acked, !.seq = 0,
                              !.blksize = f.blksize]
    BY <1>1, <1>4, <1>6 DEF OnAck
  <2>2. /\ srv' \in ServerStates /\ srv'.phase = "sending" /\ srv'.base = acked
        /\ srv'.seq = 0
    BY <1>3, <2>1 DEF ServerStates
  <2>3. acked + 0 < Segments
    BY <1>2, <1>3, <1>4, <1>6
  <2> QED BY <1>2, <1>3, <2>1, <2>2, <2>3, ReplyTypes, ReplyFrames DEF ServerInv, ServerTypeOK
<1> QED BY <1>5, <1>6

LEMMA OnSegmentKeeps ==
  ASSUME ChannelInv, ServerInv, toServer # <<>>, NEW blksize \in BlkSizes, OnSegment(blksize)
  PROVE  ServerInv' /\ toServer' \in Seq(Requests) /\ toClient' \in Seq(TrueResponses)
<1>1. PICK f \in Requests : f = Head(toServer)
  BY HeadTailProperties DEF ChannelInv
<1>2. f.kind = "segment" /\ srv.phase = "receiving" /\ UNCHANGED stored
  BY <1>1 DEF OnSegment
<1>3. /\ f.seq \in Nat /\ f.seg \in 1 .. Segments /\ f.last \in BOOLEAN
      /\ srv \in ServerStates /\ srv.seq \in Nat /\ srv.got \in Data /\ stored \in Data
  BY <1>2, RequestFields DEF ServerInv, ServerTypeOK, ServerStates
<1>4. Append(srv.got, f.seg) \in Data
  BY <1>3 DEF Data
<1>5. PICK got \in Data : got = IF f.seq = srv.seq + 1 THEN Append(srv.got, f.seg) ELSE srv.got
  BY <1>3, <1>4
<1>6. PICK seq \in Nat : seq = IF f.seq = srv.seq + 1 THEN f.seq ELSE srv.seq
  BY <1>3
<1>7. PICK phase \in {"complete", "receiving"} :
        phase = IF f.last /\ f.seq = srv.seq + 1 THEN "complete" ELSE srv.phase
  BY <1>2
<1>8. CASE f.last \/ f.seq = srv.blksize
  <2>1. /\ Reply(<<Ack(seq, blksize)>>)
        /\ srv' = [srv EXCEPT !.got = got, !.seq = 0, !.blksize = blksize, !.phase = phase]
    BY <1>1, <1>5, <1>6, <1>7, <1>8 DEF OnSegment
  <2>2. srv' \in ServerStates /\ srv'.phase = phase
    BY <1>3, <2>1 DEF ServerStates
  <2>3. <<Ack(seq, blksize)>> \in Seq(TrueResponses)
    BY ResponseTypes
  <2> QED BY <1>2, <1>3, <2>1, <2>2, <2>3, ReplyTypes DEF ServerInv, ServerTypeOK
<1>9. CASE ~(f.last \/ f.seq = srv.blksize)
  <2>1. Reply(<<>>) /\ srv' = [srv EXCEPT !.got = got, !.seq = seq]
    BY <1>1, <1>5, <1>6, <1>9 DEF OnSegment
  <2>2. srv' \in ServerStates /\ srv'.phase = "receiving"
    BY <1>2, <1>3, <2>1 DEF ServerStates
  <2> QED BY <1>2, <1>3, <2>1, <2>2, ReplyTypes, ReplyFrames DEF ServerInv, ServerTypeOK
<1> QED BY <1>8, <1>9

LEMMA OnRequestKeeps ==
  ASSUME ChannelInv, ServerInv, OnRequest
  PROVE  ServerInv' /\ toServer' \in Seq(Requests) /\ toClient' \in Seq(TrueResponses)
<1> USE ReplyFrames
<1>1. toServer # <<>>
  BY DEF OnRequest
<1>2. /\ srv \in ServerStates /\ stored \in Data /\ srv.got \in Data /\ srv.base \in Nat
      /\ srv.seq \in Nat /\ CrcChoices \subseteq BOOLEAN
  BY CrcAssumption DEF ServerInv, ServerTypeOK, ServerStates
<1>3. ASSUME NEW crc \in CrcChoices, OnInitUpload(crc)
      PROVE  ServerInv' /\ toServer' \in Seq(Requests) /\ toClient' \in Seq(TrueResponses)
  <2>1. /\ Reply(<<[kind |-> "init_upload", crc |-> crc]>>) /\ UNCHANGED stored
        /\ srv' = [Idle EXCEPT !.phase = "start", !.crc = crc, !.blksize = MaxBlkSize]
    BY <1>3 DEF OnInitUpload
  <2>2. crc \in BOOLEAN /\ MaxBlkSize \in BlkSizes /\ 0 < Segments
    BY <1>2, BlockAssumption DEF BlkSizes
  <2>3. /\ srv' \in ServerStates /\ srv'.phase = "start" /\ srv'.base = 0 /\ srv'.seq = 0
    BY <2>1, <2>2, IdleTypes DEF ServerStates
  <2>4. <<[kind |-> "init_upload", crc |-> crc]>> \in Seq(TrueResponses)
    BY <2>2, ResponseTypes
  <2>5. srv'.base + srv'.seq < Segments
    BY <2>2, <2>3
  <2>6. ServerInv'
    BY <1>2, <2>1, <2>3, <2>5 DEF ServerInv, ServerTypeOK
  <2> QED BY <1>1, <2>1, <2>4, <2>6, ReplyTypes
<1>4. CASE OnStartUpload
  <2>1. /\ Reply(<<>>) /\ srv' = [srv EXCEPT !.phase = "sending"] /\ UNCHANGED stored
        /\ srv.phase = "start"
    BY <1>4 DEF OnStartUpload
  <2>2. /\ srv' \in ServerStates /\ srv'.phase = "sending" /\ srv'.base = srv.base
        /\ srv'.seq = srv.seq
    BY <1>2, <2>1 DEF ServerStates
  <2> QED BY <1>1, <1>2, <2>1, <2>2, ReplyTypes DEF ServerInv, ServerTypeOK
<1>5. CASE OnAck
  BY <1>1, <1>5, OnAckKeeps
<1>6. CASE OnEndUpload \/ OnAbort
  <2>1. Reply(<<>>) /\ srv' = Idle /\ UNCHANGED stored
    BY <1>6 DEF OnEndUpload, OnAbort
  <2> QED BY <1>1, <1>2, <2>1, ReplyTypes, IdleTypes DEF ServerInv, ServerTypeOK
<1>7. ASSUME NEW crc \in CrcChoices, NEW blksize \in BlkSizes, OnInitDownload(crc, blksize)
      PROVE  ServerInv' /\ toServer' \in Seq(Requests) /\ toClient' \in Seq(TrueResponses)
  <2>1. /\ Reply(<<[kind |-> "init_download", crc |-> crc, blksize |-> blksize]>>)
        /\ srv' = [Idle EXCEPT !.phase = "receiving", !.crc = crc, !.blksize = blksize]
        /\ UNCHANGED stored
    BY <1>7 DEF OnInitDownload
  <2>2. crc \in BOOLEAN
    BY <1>2
  <2>3. srv' \in ServerStates /\ srv'.phase = "receiving"
    BY <2>1, <2>2, IdleTypes DEF ServerStates
  <2>4. <<[kind |-> "init_download", crc |-> crc, blksize |-> blksize]>> \in Seq(TrueResponses)
    BY <2>2, ResponseTypes
  <2> QED BY <1>1, <1>2, <2>1, <2>3, <2>4, ReplyTypes DEF ServerInv, ServerTypeOK
<1>8. ASSUME NEW blksize \in BlkSizes, OnSegment(blksize)
      PROVE  ServerInv' /\ toServer' \in Seq(Requests) /\ toClient' \in Seq(TrueResponses)
  BY <1>1, <1>8, OnSegmentKeeps
<1>9. CASE OnEndDownload
  <2>1. /\ Reply(<<[kind |-> "end_download"]>>) /\ srv' = Idle /\ stored' = srv.got
    BY <1>9 DEF OnEndDownload
  <2>2. <<[kind |-> "end_download"]>> \in Seq(TrueResponses)
    BY ResponseTypes
  <2> QED BY <1>1, <1>2, <2>1, <2>2, ReplyTypes, IdleTypes DEF ServerInv, ServerTypeOK
<1>10. CASE OnUnexpected
  <2>1. (Reply(<<Abort>>) \/ Reply(<<>>)) /\ srv' = Idle /\ UNCHANGED stored
    BY <1>10 DEF OnUnexpected
  <2> QED BY <1>1, <1>2, <2>1, ReplyTypes, IdleTypes DEF ServerInv, ServerTypeOK
<1> QED BY <1>3, <1>4, <1>5, <1>6, <1>7, <1>8, <1>9, <1>10 DEF OnRequest

LEMMA GiveUpKeeps ==
  ASSUME ChannelInv, ServerInv, GiveUp
  PROVE  ServerInv' /\ toServer' \in Seq(Requests) /\ toClient' \in Seq(TrueResponses)
<1>1. /\ toServer \in Seq(Requests) /\ toClient \in Seq(TrueResponses) /\ stored \in Data
      /\ Abort \in TrueResponses
  BY ResponseTypes DEF ChannelInv, ServerInv, ServerTypeOK
<1>2. /\ toServer' = toServer \/ (toServer # <<>> /\ toServer' = Tail(toServer))
      /\ toClient' = Append(toClient, Abort) /\ srv' = Idle /\ UNCHANGED stored
  BY DEF GiveUp
<1>3. toServer' \in Seq(Requests)
  BY <1>1, <1>2, HeadTailProperties
<1>4. toClient' \in Seq(TrueResponses)
  BY <1>1, <1>2
<1> QED BY <1>1, <1>2, <1>3, <1>4, IdleTypes DEF ServerInv, ServerTypeOK

-----------------------------------------------------------------------------
\* The whole transfer.

\* What went wrong is one of the troubles.
LEMMA TroubleTypes ==
  ASSUME ChannelInv, NEW what \in Troubles, Trouble(what)
  PROVE  trouble' \in Seq(Troubles)
BY DEF ChannelInv, Trouble

LEMMA BlockInit ==
  ASSUME Init
  PROVE  BlockInv
<1> USE DEF Init, ChannelInit, ServerInit, UploadInit, DownloadInit
<1>1. ChannelInv
  BY DEF ChannelInv
<1>2. ServerInv
  BY IdleTypes DEF ServerInv, ServerTypeOK, Data
<1>3. UploadInv
  BY DEF UploadInv, UploadTypeOK, Uploads, FreshUpload, CheckedUploadIsWhole, Data
<1>4. DownloadInv
  <2>1. <<>> \in Data /\ <<Value>> \in Seq(Data)
    BY ValueTypes DEF Data
  <2> QED BY <2>1 DEF DownloadInv, DownloadTypeOK, Downloads, FreshDownload
<1> QED BY <1>1, <1>2, <1>3, <1>4 DEF BlockInv

\* What a part does not touch.
LEMMA BlockUnchanged ==
  ASSUME BlockInv
  PROVE  /\ UNCHANGED up => UploadInv'
         /\ UNCHANGED down => DownloadInv'
         /\ UNCHANGED serverVars => ServerInv'
         /\ UNCHANGED trouble => trouble' \in Seq(Troubles)
         /\ UNCHANGED toClient => toClient' \in Seq(TrueResponses)
         /\ toClient # <<>> /\ toClient' = Tail(toClient) => toClient' \in Seq(TrueResponses)
<1>1. UNCHANGED up => UploadInv'
  BY DEF BlockInv, UploadInv, UploadTypeOK, CheckedUploadIsWhole
<1>2. UNCHANGED down => DownloadInv'
  BY DEF BlockInv, DownloadInv, DownloadTypeOK
<1>3. UNCHANGED serverVars => ServerInv'
  BY DEF BlockInv, serverVars, ServerInv, ServerTypeOK
<1>4. toClient # <<>> => Tail(toClient) \in Seq(TrueResponses)
  BY TakeTypes DEF BlockInv
<1> QED BY <1>1, <1>2, <1>3, <1>4 DEF BlockInv, ChannelInv

\* A transfer that begins.
LEMMA BeginTransferKeeps ==
  ASSUME BlockInv, BeginTransfer
  PROVE  BlockInv'
<1>1. /\ ChannelInv /\ UploadInv /\ DownloadInv /\ ServerInv' /\ trouble' \in Seq(Troubles)
      /\ toClient' \in Seq(TrueResponses)
  BY BlockUnchanged DEF BlockInv, BeginTransfer, BeginUpload, BeginDownload
<1>2. CASE BeginUpload /\ UNCHANGED down
  <2>1. /\ SendToServer(<<[kind |-> "init_upload"]>>)
        /\ up' = [up EXCEPT !.pc = "init", !.outcome = "running"]
    BY <1>2 DEF BeginUpload
  <2>2. up \in Uploads
    BY <1>1 DEF UploadInv, UploadTypeOK
  <2>3. up' \in Uploads /\ up'.pc = "init" /\ up'.outcome = "running"
    BY <2>1, <2>2 DEF Uploads
  <2>4. UploadInv'
    BY <2>3 DEF UploadInv, UploadTypeOK, CheckedUploadIsWhole
  <2>5. <<[kind |-> "init_upload"]>> \in Seq(Requests)
    BY RequestTypes
  <2>6. toServer' \in Seq(Requests)
    BY <1>1, <2>1, <2>5, SendTypes
  <2> QED BY <1>1, <1>2, <2>4, <2>6, BlockUnchanged DEF BlockInv, ChannelInv
<1>3. CASE BeginDownload /\ UNCHANGED up
  <2>1. /\ SendToServer(<<[kind |-> "init_download"]>>)
        /\ down' = [down EXCEPT !.pc = "init", !.outcome = "running"]
    BY <1>3 DEF BeginDownload
  <2>2. down \in Downloads
    BY <1>1 DEF DownloadInv, DownloadTypeOK
  <2>3. /\ down' \in Downloads /\ down'.block = down.block /\ down'.pos = down.pos
        /\ down'.todo = down.todo
    BY <2>1, <2>2 DEF Downloads
  <2>4. DownloadInv'
    BY <1>1, <2>3 DEF DownloadInv, DownloadTypeOK
  <2>5. <<[kind |-> "init_download"]>> \in Seq(Requests)
    BY RequestTypes
  <2>6. toServer' \in Seq(Requests)
    BY <1>1, <2>1, <2>5, SendTypes
  <2> QED BY <1>1, <1>3, <2>4, <2>6, BlockUnchanged DEF BlockInv, ChannelInv
<1> QED BY <1>2, <1>3 DEF BeginTransfer

\* A wait of either stream that ends without an answer, or a send that raises.
LEMMA TroublesKeep ==
  ASSUME BlockInv,
         \/ TimesOut
         \/ UploadSendFails /\ UNCHANGED down
         \/ DownloadSendFails /\ UNCHANGED up
  PROVE  /\ UploadInv' /\ DownloadInv' /\ toServer' \in Seq(Requests)
         /\ toClient' \in Seq(TrueResponses)
<1>1. ChannelInv /\ UploadInv /\ DownloadInv
  BY DEF BlockInv
<1>2. CASE (UploadTimesOut \/ UploadSendFails) /\ UNCHANGED down
  BY <1>1, <1>2, UploadTroubles, BlockUnchanged
<1>3. CASE (DownloadTimesOut \/ DownloadSendFails) /\ UNCHANGED up
  BY <1>1, <1>3, DownloadTroubles, BlockUnchanged
<1> QED BY <1>2, <1>3 DEF TimesOut

\* A frame that is lost.
LEMMA LoseKeeps ==
  ASSUME BlockInv, Lose
  PROVE  BlockInv'
<1>1. ChannelInv /\ toServer \in Seq(Requests) /\ toClient \in Seq(TrueResponses)
  BY DEF BlockInv, ChannelInv
<1>2. UploadInv' /\ DownloadInv' /\ ServerInv'
  BY BlockUnchanged DEF Lose
<1>3. /\ Trouble("segment") \/ Trouble("frame")
      /\ \/ toServer # <<>> /\ toServer' = Tail(toServer) /\ UNCHANGED toClient
         \/ toClient # <<>> /\ toClient' = Tail(toClient) /\ UNCHANGED toServer
  BY DEF Lose, LoseRequest, LoseResponse
<1>4. trouble' \in Seq(Troubles)
  BY <1>1, <1>3, TroubleTypes DEF Troubles
<1>5. toServer' \in Seq(Requests) /\ toClient' \in Seq(TrueResponses)
  BY <1>1, <1>3, HeadTailProperties
<1> QED BY <1>2, <1>4, <1>5 DEF BlockInv, ChannelInv

LEMMA BlockNext ==
  ASSUME BlockInv, [Next]_vars
  PROVE  BlockInv'
<1>1. ChannelInv /\ UploadInv /\ DownloadInv /\ ServerInv
  BY DEF BlockInv
<1>2. CASE BeginTransfer
  BY <1>2, BeginTransferKeeps
<1>3. CASE UploadClient
  <2>1. UploadStep /\ UNCHANGED <<down, serverVars, trouble>>
    BY <1>3 DEF UploadClient
  <2> QED BY <1>1, <2>1, UploadSteps, BlockUnchanged DEF BlockInv, ChannelInv
<1>4. CASE DownloadClient
  <2>1. DownloadStep /\ UNCHANGED <<up, serverVars, trouble>>
    BY <1>4 DEF DownloadClient
  <2> QED BY <1>1, <2>1, DownloadSteps, BlockUnchanged DEF BlockInv, ChannelInv
<1>5. CASE WaitInVain
  <2>1. TimesOut /\ UNCHANGED serverVars /\ UNCHANGED trouble
    BY <1>5 DEF WaitInVain
  <2>2. ServerInv' /\ trouble' \in Seq(Troubles)
    BY <2>1, BlockUnchanged
  <2> QED BY <2>1, <2>2, TroublesKeep DEF BlockInv, ChannelInv
<1>6. CASE WaitTooShort
  <2>1. TimesOut /\ UNCHANGED serverVars /\ Trouble("late")
    BY <1>6 DEF WaitTooShort
  <2>2. ServerInv' /\ trouble' \in Seq(Troubles)
    BY <1>1, <2>1, TroubleTypes, BlockUnchanged DEF Troubles
  <2> QED BY <2>1, <2>2, TroublesKeep DEF BlockInv, ChannelInv
<1>7. CASE SendFails
  <2>1. /\ \/ UploadSendFails /\ UNCHANGED down
           \/ DownloadSendFails /\ UNCHANGED up
        /\ UNCHANGED serverVars /\ Trouble("send")
    BY <1>7 DEF SendFails
  <2>2. ServerInv' /\ trouble' \in Seq(Troubles)
    BY <1>1, <2>1, TroubleTypes, BlockUnchanged DEF Troubles
  <2> QED BY <2>1, <2>2, TroublesKeep DEF BlockInv, ChannelInv
<1>8. CASE ServerStep /\ UNCHANGED <<up, down>>
  <2>1. UNCHANGED trouble
    BY <1>8 DEF ServerStep, SendSegment, OnRequest, OnInitUpload, OnStartUpload, OnAck,
       OnEndUpload, OnInitDownload, OnSegment, OnEndDownload, OnAbort, OnUnexpected
  <2>2. /\ ServerInv' /\ toServer' \in Seq(Requests) /\ toClient' \in Seq(TrueResponses)
    BY <1>1, <1>8, SendSegmentKeeps, OnRequestKeeps DEF ServerStep
  <2> QED BY <1>8, <2>1, <2>2, BlockUnchanged DEF BlockInv, ChannelInv
<1>9. CASE GiveUp /\ UNCHANGED <<up, down>>
  <2>1. trouble' \in Seq(Troubles)
    BY <1>1, <1>9, TroubleTypes DEF GiveUp, Troubles
  <2> QED BY <1>1, <1>9, <2>1, GiveUpKeeps, BlockUnchanged DEF BlockInv, ChannelInv
<1>10. CASE Lose
  BY <1>10, LoseKeeps
<1>11. CASE UNCHANGED vars
  <2>1. UNCHANGED <<up, down, serverVars, trouble, toClient, toServer>>
    BY <1>11 DEF vars, channelVars
  <2> QED BY <1>1, <2>1, BlockUnchanged DEF BlockInv, ChannelInv
<1> QED BY <1>2, <1>3, <1>4, <1>5, <1>6, <1>7, <1>8, <1>9, <1>10, <1>11 DEF Next, Server

LEMMA BlockInvariant == Spec => []BlockInv
BY BlockInit, BlockNext, PTL DEF Spec

\* Whatever is lost, late or repeated, the two queues hold frames of the protocol and
\* every part of the streams and of the server has the values it may have.
THEOREM BlockTypesHold == Spec => []TypeOK
<1>1. BlockInv => TypeOK
  <2>1. TrueResponses \subseteq Responses
    BY DEF TrueResponses
  <2>2. toClient \in Seq(TrueResponses) => toClient \in Seq(Responses)
    BY <2>1
  <2> QED BY <2>2 DEF BlockInv, ChannelInv, ServerInv, UploadInv, DownloadInv, TypeOK,
             ChannelTypeOK
<1> QED BY <1>1, BlockInvariant, PTL

\* An upload that returns with a CRC has the whole value: the CRC that the server sends
\* at the end is the one of the value, and a stream goes on to close() only if the CRC
\* of what it has read agrees, whatever the sequence numbers let through
\* (BlockUploadStream.read).
THEOREM CheckedUploadsAreWhole == Spec => []CheckedUploadIsWhole
<1>1. BlockInv => CheckedUploadIsWhole
  BY DEF BlockInv, UploadInv
<1> QED BY <1>1, BlockInvariant, PTL

-----------------------------------------------------------------------------
\* The download is stored whole.  Frames that matter to the server while it
\* receives:

NotInits == {f \in Requests : f.kind # "init_download"}
NotSegments == {f \in Requests : f.kind # "segment"}

\* a segment in its place, when n segments were got and the last one has number seq;
Fitting(seq, n) ==
  {f \in Requests :
     f.kind = "segment" => f.seg + seq = f.seq + n /\ (f.last => f.seg = Segments)}

\* one whose number is not above seqno;
UpTo(seqno) == {f \in Requests : f.kind = "segment" => f.seq <= seqno}

\* one that ends no block.
WithinBlock(blksize) ==
  {f \in Requests : f.kind = "segment" => ~f.last /\ f.seq # blksize}

\* A segment that ends the block is the last one under way.
EndsLast(frames, blksize) ==
  \A i, j \in 1 .. Len(frames) :
    i < j /\ frames[i] \notin WithinBlock(blksize) => frames[j] \in NotSegments

Harmless == NotInits \cap NotSegments

InitRequest == [kind |-> "init_download"]

\* The request to begin is handled before anything else is sent, but an abort.
InitInv ==
  \/ toServer \in Seq(NotInits)
  \/ /\ \/ down.pc = "init" /\ toServer = <<InitRequest>>
        \/ down.pc = "idle" /\ toServer = <<InitRequest, Abort>>
     /\ toClient = <<>> /\ srv.phase = "idle" /\ down.outcome # "none"

\* The writes under way are what is left of the value: each goes on where the one
\* inside it stops.
WritesLeft(todo, pos) ==
  \E start \in [1 .. Len(todo) + 1 -> 0 .. Segments] :
    /\ start[1] = pos /\ start[Len(todo) + 1] = Segments
    /\ \A i \in 1 .. Len(todo) :
         /\ start[i] + Len(todo[i]) = start[i + 1]
         /\ \A k \in 1 .. Len(todo[i]) : todo[i][k] = start[i] + k

StreamInv ==
  /\ down.outcome = "none" => down = FreshDownload
  /\ down.pc = "init" =>
       down.pos = 0 /\ down.seqno = 0 /\ down.block = <<>> /\ down.todo = <<Value>>
  /\ down.pc \in {"write", "ack"} =>
       /\ Len(down.block) = down.seqno
       /\ \A i \in 1 .. down.seqno : down.block[i] + down.seqno = down.pos + i
       /\ WritesLeft(down.todo, down.pos)
  /\ down.pc = "write" => down.seqno < down.blksize
  /\ down.pc = "ack" => down.seqno = down.blksize

\* Client and server count from the same place.
SamePlace == down.pos + srv.seq = down.seqno + Len(srv.got)

Unanswered == toClient = <<>> /\ (SamePlace \/ toServer \in Seq(NotSegments))

Answered ==
  /\ toServer \in Seq(NotSegments) /\ srv.seq = 0
  /\ \E seq \in Nat :
       /\ toClient = <<Ack(seq, srv.blksize)>> /\ seq <= down.seqno
       /\ down.pos + seq = down.seqno + Len(srv.got)

InitAnswer(crc) ==
  [kind |-> "init_download", crc |-> crc, blksize |-> srv.blksize]

ReceivingInv ==
  /\ Len(srv.got) <= Segments /\ \A i \in 1 .. Len(srv.got) : srv.got[i] = i
  /\ toServer \in Seq(Fitting(srv.seq, Len(srv.got)))
  /\ EndsLast(toServer, srv.blksize)
  /\ down.pc = "init" =>
       /\ srv.got = <<>> /\ srv.seq = 0 /\ toServer \in Seq(NotSegments)
       /\ toClient = <<>> \/ \E crc \in BOOLEAN : toClient = <<InitAnswer(crc)>>
  /\ down.pc = "write" =>
       /\ SamePlace /\ toClient = <<>> /\ down.blksize = srv.blksize
       /\ toServer \in Seq(WithinBlock(srv.blksize))
  /\ down.pc = "ack" => Unanswered \/ Answered
  /\ down.pc \in {"write", "ack"} =>
       toServer \in Seq(UpTo(down.seqno)) /\ srv.seq <= down.seqno

\* One transfer.
OnceInv ==
  /\ up.pc # "idle" => down.outcome = "none"
  /\ up.outcome = "none" => up.pc = "idle"
  /\ down.outcome = "none" => srv.phase \notin {"receiving", "complete"}
  /\ Unused => toServer = <<>> /\ toClient = <<>> /\ srv = Idle

Confirmed == {f \in Responses : f.kind = "end_download" => stored = Value}

StoredInv ==
  /\ DownloadStoresWhole
  /\ toClient \in Seq(Confirmed)
  /\ srv.phase = "complete" => srv.got = Value

WholeInv ==
  /\ InitInv /\ StreamInv /\ OnceInv /\ StoredInv
  /\ srv.phase = "receiving" => ReceivingInv

-----------------------------------------------------------------------------
\* Sequences of frames.

LEMMA ChainTypes ==
  ASSUME NEW S, NEW s \in Seq(S), NEW t \in Seq(S)
  PROVE  s \o t \in Seq(S)
BY ConcatProperties

LEMMA RestTypes ==
  ASSUME NEW S, NEW s \in Seq(S), s # <<>>
  PROVE  Tail(s) \in Seq(S)
BY HeadTailProperties

\* Frames that are no segments fit anywhere.
LEMMA NoSegmentsFit ==
  ASSUME NEW s \in Seq(NotSegments)
  PROVE  /\ \A seq, n \in Nat : s \in Seq(Fitting(seq, n))
         /\ \A seqno \in Nat : s \in Seq(UpTo(seqno))
         /\ \A blksize \in BlkSizes : s \in Seq(WithinBlock(blksize))
<1>1. \A seq, n \in Nat : NotSegments \subseteq Fitting(seq, n)
  BY DEF NotSegments, Fitting
<1>2. \A seqno \in Nat : NotSegments \subseteq UpTo(seqno)
  BY DEF NotSegments, UpTo
<1>3. \A blksize \in BlkSizes : NotSegments \subseteq WithinBlock(blksize)
  BY DEF NotSegments, WithinBlock
<1> QED BY <1>1, <1>2, <1>3, SeqMonotonic

\* What ends a block stays the last segment when a frame is taken,
LEMMA EndsLastTail ==
  ASSUME NEW q \in Seq(Requests), q # <<>>, NEW blksize \in BlkSizes, EndsLast(q, blksize)
  PROVE  EndsLast(Tail(q), blksize)
<1>1. PICK r \in Seq(Requests) :
        r = Tail(q) /\ Len(r) = Len(q) - 1 /\ \A i \in 1 .. Len(r) : r[i] = q[i + 1]
  BY HeadTailProperties
<1>2. SUFFICES ASSUME NEW i \in 1 .. Len(r), NEW j \in 1 .. Len(r), i < j,
                      r[i] \notin WithinBlock(blksize)
               PROVE  r[j] \in NotSegments
  BY <1>1 DEF EndsLast
<1>3. i + 1 \in 1 .. Len(q) /\ j + 1 \in 1 .. Len(q) /\ i + 1 < j + 1
  BY <1>1, <1>2
<1> QED BY <1>1, <1>2, <1>3 DEF EndsLast

\* when frames are sent that are no segments,
LEMMA EndsLastChain ==
  ASSUME NEW q \in Seq(Requests), NEW t \in Seq(NotSegments), NEW blksize \in BlkSizes,
         EndsLast(q, blksize)
  PROVE  EndsLast(q \o t, blksize)
<1>1. t \in Seq(Requests)
  <2>1. NotSegments \subseteq Requests
    BY DEF NotSegments
  <2> QED BY <2>1, SeqMonotonic
<1>2. PICK r : r = q \o t
  OBVIOUS
<1>3. /\ Len(r) = Len(q) + Len(t) /\ Len(q) \in Nat /\ Len(t) \in Nat
      /\ \A i \in 1 .. Len(q) + Len(t) : r[i] = IF i <= Len(q) THEN q[i] ELSE t[i - Len(q)]
  BY <1>1, <1>2, ConcatProperties
<1>4. SUFFICES ASSUME NEW i \in 1 .. Len(r), NEW j \in 1 .. Len(r), i < j,
                      r[i] \notin WithinBlock(blksize)
               PROVE  r[j] \in NotSegments
  BY <1>2 DEF EndsLast
<1>5. CASE j <= Len(q)
  <2>1. i \in 1 .. Len(q) /\ j \in 1 .. Len(q) /\ r[i] = q[i] /\ r[j] = q[j]
    BY <1>3, <1>4, <1>5
  <2> QED BY <1>4, <2>1 DEF EndsLast
<1>6. CASE j > Len(q)
  <2>1. j - Len(q) \in 1 .. Len(t) /\ r[j] = t[j - Len(q)]
    BY <1>3, <1>4, <1>6
  <2> QED BY <2>1
<1> QED BY <1>3, <1>4, <1>5, <1>6

\* and when a segment is sent after others that do not end the block.
LEMMA EndsLastAppend ==
  ASSUME NEW q \in Seq(Requests), NEW f \in Requests, NEW blksize \in BlkSizes,
         q \in Seq(WithinBlock(blksize))
  PROVE  EndsLast(q \o <<f>>, blksize)
<1>1. <<f>> \in Seq(Requests) /\ Len(<<f>>) = 1 /\ Len(q) \in Nat
  OBVIOUS
<1>2. PICK r : r = q \o <<f>>
  OBVIOUS
<1>3. /\ Len(r) = Len(q) + 1
      /\ \A i \in 1 .. Len(q) : r[i] = q[i]
  BY <1>1, <1>2, ConcatProperties
<1>4. SUFFICES ASSUME NEW i \in 1 .. Len(r), NEW j \in 1 .. Len(r), i < j,
                      r[i] \notin WithinBlock(blksize)
               PROVE  FALSE
  BY <1>2 DEF EndsLast
<1>5. i \in 1 .. Len(q)
  BY <1>1, <1>3, <1>4
<1>6. q[i] \in WithinBlock(blksize)
  BY <1>5
<1> QED BY <1>3, <1>4, <1>5, <1>6

\* Nothing that fits follows the end of a block.
LEMMA NothingAfterEnd ==
  ASSUME NEW q \in Seq(Requests), q # <<>>, NEW blksize \in BlkSizes, EndsLast(q, blksize),
         Head(q) \notin WithinBlock(blksize)
  PROVE  Tail(q) \in Seq(NotSegments)
<1>1. PICK r \in Seq(Requests) :
        r = Tail(q) /\ Len(r) = Len(q) - 1 /\ \A i \in 1 .. Len(r) : r[i] = q[i + 1]
  BY HeadTailProperties
<1>2. ASSUME NEW i \in 1 .. Len(r)
      PROVE  r[i] \in NotSegments
  <2>1. 1 \in 1 .. Len(q) /\ i + 1 \in 1 .. Len(q) /\ 1 < i + 1 /\ q[1] = Head(q)
    BY <1>1, <1>2
  <2> QED BY <1>1, <1>2, <2>1 DEF EndsLast
<1>3. r \in Seq(NotSegments)
  <2>1. Len(r) \in Nat /\ r \in [1 .. Len(r) -> Requests]
    BY LenProperties
  <2>2. r \in [1 .. Len(r) -> NotSegments]
    BY <1>2, <2>1
  <2> QED BY <2>1, <2>2, SeqDef
<1> QED BY <1>1, <1>3

LEMMA NoSegmentsEnd ==
  ASSUME NEW q \in Seq(NotSegments), NEW blksize \in BlkSizes
  PROVE  EndsLast(q, blksize)
BY DEF EndsLast

-----------------------------------------------------------------------------
\* The writes under way.

LEMMA ConsParts ==
  ASSUME NEW S, NEW e \in S, NEW s \in Seq(S), NEW n \in Nat, n = Len(s)
  PROVE  LET r == <<e>> \o s IN
           Len(r) = n + 1 /\ r[1] = e /\ \A i \in 1 .. n : r[i + 1] = s[i]
<1>1. <<e>> \in Seq(S) /\ Len(<<e>>) = 1 /\ <<e>>[1] = e
  OBVIOUS
<1>2. PICK r : r = <<e>> \o s
  OBVIOUS
<1>3. /\ Len(r) = 1 + n
      /\ \A i \in 1 .. 1 + n : r[i] = IF i <= 1 THEN <<e>>[i] ELSE s[i - 1]
  BY <1>1, <1>2, ConcatProperties
<1>4. r[1] = e
  BY <1>1, <1>3
<1>5. ASSUME NEW i \in 1 .. n
      PROVE  r[i + 1] = s[i]
  <2>1. i + 1 \in 1 .. 1 + n /\ ~(i + 1 <= 1) /\ (i + 1) - 1 = i
    OBVIOUS
  <2> QED BY <1>3, <2>1
<1> QED BY <1>2, <1>3, <1>4, <1>5

LEMMA TailParts ==
  ASSUME NEW S, NEW s \in Seq(S), NEW n \in Nat, n + 1 = Len(s)
  PROVE  LET r == Tail(s) IN
           r \in Seq(S) /\ Len(r) = n /\ \A i \in 1 .. n : r[i] = s[i + 1]
<1>1. s # <<>>
  OBVIOUS
<1>2. PICK r : r = Tail(s)
  OBVIOUS
<1>3. r \in Seq(S) /\ Len(r) = Len(s) - 1 /\ \A i \in 1 .. Len(r) : r[i] = s[i + 1]
  BY <1>1, <1>2, HeadTailProperties
<1> QED BY <1>2, <1>3

\* The application writes the whole value.
LEMMA AllIsLeft == WritesLeft(<<Value>>, 0)
<1> DEFINE start == [i \in 1 .. 2 |-> IF i = 1 THEN 0 ELSE Segments]
<1>1. Segments \in Nat /\ Len(Value) = Segments /\ \A k \in 1 .. Segments : Value[k] = k
  BY ValueTypes, BlockAssumption
<1>2. start \in [1 .. 2 -> 0 .. Segments] /\ start[1] = 0 /\ start[2] = Segments
  BY <1>1
<1>3. PICK todo : todo = <<Value>> /\ Len(todo) = 1 /\ todo[1] = Value
  <2>1. PICK v : v = Value
    OBVIOUS
  <2>2. Len(<<v>>) = 1 /\ <<v>>[1] = v
    OBVIOUS
  <2> QED BY <2>1, <2>2
<1> HIDE DEF start
<1>4. WritesLeft(todo, 0)
  <2>1. ASSUME NEW i \in 1 .. Len(todo)
        PROVE  /\ start[i] + Len(todo[i]) = start[i + 1]
               /\ \A k \in 1 .. Len(todo[i]) : todo[i][k] = start[i] + k
    <3>1. i = 1
      BY <1>3, <2>1
    <3> QED BY <1>1, <1>2, <1>3, <3>1
  <2>2. start \in [1 .. Len(todo) + 1 -> 0 .. Segments] /\ start[Len(todo) + 1] = Segments
    BY <1>2, <1>3
  <2> QED BY <1>2, <2>1, <2>2 DEF WritesLeft
<1> QED BY <1>3, <1>4

\* One more segment is written by the innermost write.
LEMMA OneLessLeft ==
  ASSUME NEW todo \in Seq(Data), todo # <<>>, NEW pos \in Nat, WritesLeft(todo, pos),
         Head(todo) # <<>>
  PROVE  /\ Head(Head(todo)) = pos + 1 /\ pos + 1 <= Segments
         /\ WritesLeft(<<Tail(Head(todo))>> \o Tail(todo), pos + 1)
<1>1. PICK start \in [1 .. Len(todo) + 1 -> 0 .. Segments] :
        /\ start[1] = pos /\ start[Len(todo) + 1] = Segments
        /\ \A i \in 1 .. Len(todo) :
             /\ start[i] + Len(todo[i]) = start[i + 1]
             /\ \A k \in 1 .. Len(todo[i]) : todo[i][k] = start[i] + k
  BY DEF WritesLeft
<1>2. PICK n \in Nat : n = Len(todo) /\ n > 0
  OBVIOUS
<1>3. PICK writes \in Seq(1 .. Segments) : writes = todo[1] /\ writes = Head(todo)
  <2>1. todo[1] \in Data
    BY <1>2
  <2> QED BY <2>1 DEF Data
<1>4. PICK left \in Seq(1 .. Segments) :
        /\ left = Tail(writes) /\ Len(left) = Len(writes) - 1
        /\ \A k \in 1 .. Len(left) : left[k] = writes[k + 1]
  <2>1. writes # <<>>
    BY <1>3
  <2> QED BY <2>1, HeadTailProperties, Zenon
<1>5. PICK m \in Nat : m = Len(writes) /\ m > 0 /\ Head(writes) = writes[1]
  BY <1>3
<1>6. PICK others \in Seq(Data) :
        /\ others = Tail(todo) /\ Len(others) = n - 1
        /\ \A i \in 1 .. n - 1 : others[i] = todo[i + 1]
  <2>1. n - 1 \in Nat /\ (n - 1) + 1 = Len(todo)
    BY <1>2
  <2> QED BY <2>1, TailParts
<1>7. PICK rest : rest = <<left>> \o others
  OBVIOUS
<1>8. Len(rest) = n /\ rest[1] = left /\ \A i \in 2 .. n : rest[i] = todo[i]
  <2>1. left \in Data /\ n - 1 \in Nat
    BY <1>2 DEF Data
  <2>2. /\ Len(rest) = (n - 1) + 1 /\ rest[1] = left
        /\ \A i \in 1 .. n - 1 : rest[i + 1] = others[i]
    BY <1>6, <1>7, <2>1, ConsParts
  <2>3. ASSUME NEW i \in 2 .. n
        PROVE  rest[i] = todo[i]
    <3>1. PICK j \in 1 .. n - 1 : j + 1 = i
      BY <1>2, <2>3
    <3> QED BY <1>6, <2>2, <3>1
  <2>4. (n - 1) + 1 = n
    BY <1>2
  <2> QED BY <2>2, <2>3, <2>4
<1>9. start[1] + m = start[2] /\ start[2] \in 0 .. Segments /\ writes[1] = start[1] + 1
  <2>1. 1 \in 1 .. Len(todo) /\ 2 \in 1 .. Len(todo) + 1 /\ 1 \in 1 .. Len(writes)
    BY <1>2, <1>5
  <2>2. /\ start[1] + Len(todo[1]) = start[1 + 1]
        /\ \A k \in 1 .. Len(todo[1]) : todo[1][k] = start[1] + k
    BY <1>1, <2>1
  <2>3. start[2] \in 0 .. Segments
    BY <1>1, <2>1
  <2>4. 1 + 1 = 2
    OBVIOUS
  <2> QED BY <1>3, <1>5, <2>1, <2>2, <2>3, <2>4
<1>10. pos + 1 \in 0 .. Segments
  BY <1>1, <1>5, <1>9, BlockAssumption
<1>11. PICK next \in [1 .. n + 1 -> 0 .. Segments] :
         next[1] = pos + 1 /\ \A i \in 2 .. n + 1 : next[i] = start[i]
  <2>1. [start EXCEPT ![1] = pos + 1] \in [1 .. n + 1 -> 0 .. Segments]
    BY <1>2, <1>10
  <2>2. PICK next : next = [start EXCEPT ![1] = pos + 1]
    OBVIOUS
  <2>3. 1 \in 1 .. n + 1 /\ \A i \in 2 .. n + 1 : i \in 1 .. n + 1 /\ i # 1
    OBVIOUS
  <2>4. next[1] = pos + 1 /\ \A i \in 2 .. n + 1 : next[i] = start[i]
    BY <1>2, <2>2, <2>3
  <2> QED BY <2>1, <2>2, <2>4
<1>12. ASSUME NEW i \in 1 .. n
       PROVE  /\ next[i] + Len(rest[i]) = next[i + 1]
              /\ \A k \in 1 .. Len(rest[i]) : rest[i][k] = next[i] + k
  <2>1. CASE i = 1
    <3>1. next[2] = start[2] /\ rest[i] = left /\ Len(left) = m - 1
      BY <1>2, <1>4, <1>5, <1>8, <1>11, <2>1
    <3>2. ASSUME NEW k \in 1 .. m - 1
          PROVE  left[k] = (pos + 1) + k
      <4>1. k + 1 \in 1 .. m /\ k \in 1 .. Len(left)
        BY <1>5, <3>1, <3>2
      <4>2. left[k] = writes[k + 1] /\ writes[k + 1] = start[1] + (k + 1)
        <5>1. 1 \in 1 .. Len(todo)
          BY <1>2
        <5>2. \A l \in 1 .. Len(todo[1]) : todo[1][l] = start[1] + l
          BY <1>1, <5>1
        <5> QED BY <1>3, <1>4, <1>5, <4>1, <5>2
      <4> QED BY <1>1, <4>2
    <3>3. (pos + 1) + (m - 1) = start[2] /\ 1 + 1 = 2
      BY <1>1, <1>5, <1>9
    <3>4. next[1] + Len(rest[1]) = next[2]
      BY <1>11, <2>1, <3>1, <3>3
    <3>5. \A k \in 1 .. Len(rest[1]) : rest[1][k] = next[1] + k
      BY <1>11, <2>1, <3>1, <3>2
    <3> QED BY <2>1, <3>3, <3>4, <3>5
  <2>2. CASE i # 1
    <3>1. i \in 2 .. n /\ i \in 2 .. n + 1 /\ i + 1 \in 2 .. n + 1
      BY <1>12, <2>2
    <3> QED BY <1>1, <1>2, <1>8, <1>11, <3>1
  <2> QED BY <2>1, <2>2
<1>13. WritesLeft(rest, pos + 1)
  <2>1. next[n + 1] = Segments
    BY <1>1, <1>2, <1>11
  <2> QED BY <1>8, <1>11, <1>12, <2>1 DEF WritesLeft
<1>14. Head(Head(todo)) = pos + 1
  BY <1>1, <1>3, <1>5, <1>9
<1>15. pos + 1 <= Segments
  BY <1>10, BlockAssumption
<1>16. <<Tail(Head(todo))>> \o Tail(todo) = rest
  BY <1>3, <1>4, <1>6, <1>7, Zenon
<1> QED BY <1>13, <1>14, <1>15, <1>16, Zenon

\* The innermost write is done.
LEMMA InnermostDone ==
  ASSUME NEW todo \in Seq(Data), Len(todo) > 1, NEW pos \in Nat, WritesLeft(todo, pos),
         Head(todo) = <<>>
  PROVE  WritesLeft(Tail(todo), pos)
<1>1. PICK start \in [1 .. Len(todo) + 1 -> 0 .. Segments] :
        /\ start[1] = pos /\ start[Len(todo) + 1] = Segments
        /\ \A i \in 1 .. Len(todo) :
             /\ start[i] + Len(todo[i]) = start[i + 1]
             /\ \A k \in 1 .. Len(todo[i]) : todo[i][k] = start[i] + k
  BY DEF WritesLeft
<1>2. PICK n \in Nat : n = Len(todo) /\ n > 1 /\ todo # <<>> /\ Head(todo) = todo[1]
  OBVIOUS
<1>3. PICK rest \in Seq(Data) :
        /\ rest = Tail(todo) /\ Len(rest) = n - 1
        /\ \A i \in 1 .. n - 1 : rest[i] = todo[i + 1]
  <2>1. n - 1 \in Nat /\ (n - 1) + 1 = Len(todo)
    BY <1>2
  <2> QED BY <2>1, TailParts
<1>4. start[2] = pos
  <2>1. 1 \in 1 .. Len(todo) /\ 1 \in 1 .. Len(todo) + 1 /\ Len(todo[1]) = 0
    BY <1>2
  <2> QED BY <1>1, <2>1
<1> DEFINE next == [i \in 1 .. n |-> start[i + 1]]
<1>5. next \in [1 .. n -> 0 .. Segments] /\ \A i \in 1 .. n : next[i] = start[i + 1]
  BY <1>2
<1> HIDE DEF next
<1>6. next[1] = pos /\ next[n] = Segments
  BY <1>1, <1>2, <1>4, <1>5
<1>7. ASSUME NEW i \in 1 .. n - 1
      PROVE  /\ next[i] + Len(rest[i]) = next[i + 1]
             /\ \A k \in 1 .. Len(rest[i]) : rest[i][k] = next[i] + k
  <2>1. i \in 1 .. n /\ i + 1 \in 1 .. n
    BY <1>7
  <2> QED BY <1>1, <1>2, <1>3, <1>5, <2>1
<1>8. WritesLeft(rest, pos)
  <2>1. Len(rest) + 1 = n
    BY <1>2, <1>3
  <2>2. /\ next \in [1 .. Len(rest) + 1 -> 0 .. Segments]
        /\ next[1] = pos /\ next[Len(rest) + 1] = Segments
    BY <1>5, <1>6, <2>1
  <2>3. \A i \in 1 .. Len(rest) :
          /\ next[i] + Len(rest[i]) = next[i + 1]
          /\ \A k \in 1 .. Len(rest[i]) : rest[i][k] = next[i] + k
    BY <1>3, <1>7
  <2> QED BY <2>2, <2>3 DEF WritesLeft
<1> QED BY <1>3, <1>8

\* Segments that were written last are written again.
LEMMA AgainLeft ==
  ASSUME NEW todo \in Seq(Data), NEW pos \in Nat, NEW block \in Data, WritesLeft(todo, pos),
         Len(block) <= pos, \A k \in 1 .. Len(block) : block[k] = (pos - Len(block)) + k
  PROVE  WritesLeft(<<block>> \o todo, pos - Len(block))
<1>1. PICK start \in [1 .. Len(todo) + 1 -> 0 .. Segments] :
        /\ start[1] = pos /\ start[Len(todo) + 1] = Segments
        /\ \A i \in 1 .. Len(todo) :
             /\ start[i] + Len(todo[i]) = start[i + 1]
             /\ \A k \in 1 .. Len(todo[i]) : todo[i][k] = start[i] + k
  BY DEF WritesLeft
<1>2. PICK n \in Nat : n = Len(todo)
  OBVIOUS
<1>3. PICK m \in Nat : m = Len(block)
  BY DEF Data
<1>4. pos \in 0 .. Segments /\ pos - m \in 0 .. Segments
  <2>1. 1 \in 1 .. Len(todo) + 1
    BY <1>2
  <2> QED BY <1>1, <1>3, <2>1, BlockAssumption
<1>5. PICK rest : rest = <<block>> \o todo
  OBVIOUS
<1>6. Len(rest) = n + 1 /\ rest[1] = block /\ \A i \in 2 .. n + 1 : rest[i] = todo[i - 1]
  <2>1. /\ Len(rest) = n + 1 /\ rest[1] = block
        /\ \A i \in 1 .. n : rest[i + 1] = todo[i]
    BY <1>2, <1>5, ConsParts
  <2>2. ASSUME NEW i \in 2 .. n + 1
        PROVE  rest[i] = todo[i - 1]
    <3>1. PICK j \in 1 .. n : j + 1 = i /\ j = i - 1
      BY <2>2
    <3> QED BY <2>1, <3>1
  <2> QED BY <2>1, <2>2
<1> DEFINE next == [i \in 1 .. n + 2 |-> IF i = 1 THEN pos - m ELSE start[i - 1]]
<1>7. /\ next \in [1 .. n + 2 -> 0 .. Segments] /\ next[1] = pos - m
      /\ \A i \in 2 .. n + 2 : next[i] = start[i - 1]
  BY <1>2, <1>4
<1> HIDE DEF next
<1>8. ASSUME NEW i \in 1 .. n + 1
      PROVE  /\ next[i] + Len(rest[i]) = next[i + 1]
             /\ \A k \in 1 .. Len(rest[i]) : rest[i][k] = next[i] + k
  <2>1. CASE i = 1
    <3>1. next[2] = pos /\ (pos - m) + m = pos /\ 1 + 1 = 2
      <4>1. 2 \in 2 .. n + 2 /\ 2 - 1 = 1
        OBVIOUS
      <4> QED BY <1>1, <1>3, <1>7, <4>1
    <3>2. next[1] + Len(rest[1]) = next[2]
      BY <1>3, <1>6, <1>7, <3>1
    <3>3. \A k \in 1 .. Len(rest[1]) : rest[1][k] = next[1] + k
      BY <1>3, <1>6, <1>7
    <3> QED BY <2>1, <3>1, <3>2, <3>3
  <2>2. CASE i # 1
    <3>1. PICK j \in 1 .. n : j = i - 1 /\ i = j + 1 /\ i \in 2 .. n + 1
      BY <1>8, <2>2
    <3>2. rest[i] = todo[j]
      BY <1>6, <3>1
    <3>3. next[i] = start[j] /\ next[i + 1] = start[j + 1]
      <4>1. i \in 2 .. n + 2 /\ i + 1 \in 2 .. n + 2 /\ (i + 1) - 1 = j + 1
        BY <3>1
      <4> QED BY <1>7, <3>1, <4>1
    <3>4. /\ start[j] + Len(todo[j]) = start[j + 1]
          /\ \A k \in 1 .. Len(todo[j]) : todo[j][k] = start[j] + k
      BY <1>1, <1>2
    <3> QED BY <3>2, <3>3, <3>4, Zenon
  <2> QED BY <2>1, <2>2
<1>9. WritesLeft(rest, pos - m)
  <2>1. n + 2 \in 2 .. n + 2 /\ (n + 2) - 1 = n + 1 /\ Len(rest) + 1 = n + 2
    BY <1>6
  <2>2. /\ next \in [1 .. Len(rest) + 1 -> 0 .. Segments]
        /\ next[1] = pos - m /\ next[Len(rest) + 1] = Segments
    BY <1>1, <1>2, <1>7, <2>1
  <2>3. \A i \in 1 .. Len(rest) :
          /\ next[i] + Len(rest[i]) = next[i + 1]
          /\ \A k \in 1 .. Len(rest[i]) : rest[i][k] = next[i] + k
    BY <1>6, <1>8
  <2> QED BY <2>2, <2>3 DEF WritesLeft
<1> QED BY <1>3, <1>5, <1>9

-----------------------------------------------------------------------------
\* Steps of an upload: there is no download.

\* What a stream sends is no request to begin a download.
LEMMA UploadFrames ==
  /\ <<>> \in Seq(NotInits) /\ <<Abort>> \in Seq(NotInits)
  /\ \A seq \in Nat : <<Ack(seq, MaxBlkSize)>> \in Seq(NotInits)
  /\ <<[kind |-> "start_upload"]>> \in Seq(NotInits)
  /\ <<[kind |-> "end_upload"]>> \in Seq(NotInits)
<1>1. MaxBlkSize \in BlkSizes
  BY BlockAssumption DEF BlkSizes
<1>2. Abort \in NotInits /\ \A seq \in Nat : Ack(seq, MaxBlkSize) \in NotInits
  BY <1>1, RequestTypes DEF NotInits, Abort, Ack
<1>3. [kind |-> "start_upload"] \in NotInits /\ [kind |-> "end_upload"] \in NotInits
  BY RequestTypes DEF NotInits
<1> QED BY <1>2, <1>3

\* The queue of the server after a step of an upload.
UploadSent ==
  toServer' = toServer \/ \E frames \in Seq(NotInits) : toServer' = toServer \o frames

UploadGoesOn == up'.outcome \in {up.outcome, "ok", "failed"}

LEMMA SentIsUploadSent ==
  ASSUME NEW frames \in Seq(NotInits), SendToServer(frames)
  PROVE  UploadSent
BY DEF SendToServer, UploadSent

LEMMA FailedGoesOn ==
  ASSUME UploadInv, FailUpload
  PROVE  UploadGoesOn
<1>1. up \in Uploads
  BY DEF UploadInv, UploadTypeOK
<1> QED BY <1>1 DEF Uploads, FailUpload, UploadGoesOn

LEMMA AcceptedGoesOn ==
  ASSUME ChannelInv, UploadInv, toClient # <<>>, Answer.kind = "segment", Accept(Answer)
  PROVE  UploadSent /\ UploadGoesOn
<1>1. up \in Uploads
  BY DEF UploadInv, UploadTypeOK
<1>2. Answer.seq \in Nat
  BY TakeTypes, ResponseFields DEF Answer
<1>3. UploadSent
  <2>1. /\ EndsBlock(Answer) => SendToServer(<<Ack(Answer.seq, MaxBlkSize)>>)
        /\ ~EndsBlock(Answer) => SendToServer(<<>>)
    BY DEF Accept
  <2> QED BY <1>2, <2>1, UploadFrames, SentIsUploadSent
<1>4. UploadGoesOn
  BY <1>1 DEF Uploads, Accept, UploadGoesOn
<1> QED BY <1>3, <1>4

LEMMA RetransmittedGoesOn ==
  ASSUME UploadInv, NEW ackseq \in Nat, NEW afterTimeout \in BOOLEAN,
         Retransmit(ackseq, afterTimeout)
  PROVE  UploadSent /\ UploadGoesOn
<1>1. up \in Uploads
  BY DEF UploadInv, UploadTypeOK
<1>2. UploadSent
  BY UploadFrames, SentIsUploadSent DEF Retransmit
<1>3. UploadGoesOn
  BY <1>1 DEF Uploads, Retransmit, UploadGoesOn
<1> QED BY <1>2, <1>3

LEMMA UploadSends ==
  ASSUME ChannelInv, UploadInv, UploadStep \/ UploadTimesOut \/ UploadSendFails
  PROVE  /\ up.pc # "idle" /\ UploadSent /\ UploadGoesOn
         /\ toClient' = toClient \/ (toClient # <<>> /\ toClient' = Tail(toClient))
<1> USE UploadFrames, SentIsUploadSent, FailedGoesOn
<1>1. up \in Uploads /\ up.ackseq \in Nat
  BY DEF UploadInv, UploadTypeOK, Uploads
<1>2. CASE StartUpload
  <2>1. up.pc = "init" /\ toClient # <<>> /\ toClient' = Tail(toClient)
    BY <1>2 DEF StartUpload, TakeAnswer
  <2>2. CASE Answer.kind = "init_upload"
    <3>1. /\ SendToServer(<<[kind |-> "start_upload"]>>)
          /\ up' = [up EXCEPT !.pc = "read", !.crc = Answer.crc]
      BY <1>2, <2>2 DEF StartUpload
    <3>2. UploadGoesOn
      BY <1>1, <3>1 DEF Uploads, UploadGoesOn
    <3> QED BY <2>1, <3>1, <3>2
  <2>3. CASE Answer.kind # "init_upload"
    <3>1. /\ SendToServer(<<>>) \/ SendToServer(<<Abort>>)
          /\ FailUpload
      BY <1>2, <2>3 DEF StartUpload
    <3> QED BY <2>1, <3>1
  <2> QED BY <2>2, <2>3
<1>3. CASE ReadSegment
  <2>1. up.pc = "read" /\ toClient # <<>> /\ toClient' = Tail(toClient)
    BY <1>3 DEF ReadSegment, TakeAnswer
  <2>2. \/ FailUpload /\ SendToServer(<<>>)
        \/ Answer.kind = "segment" /\ Accept(Answer)
        \/ Retransmit(up.ackseq, FALSE)
    BY <1>3 DEF ReadSegment, IsNext
  <2> QED BY <1>1, <2>1, <2>2, AcceptedGoesOn, RetransmittedGoesOn
<1>4. CASE Resync
  <2>1. up.pc = "resync" /\ toClient # <<>> /\ toClient' = Tail(toClient)
    BY <1>4 DEF Resync, TakeAnswer
  <2>2. \/ FailUpload /\ SendToServer(<<>>)
        \/ Answer.kind = "segment" /\ Accept(Answer)
        \/ Answer.kind = "segment" /\ Retransmit(Answer.seq, FALSE)
        \/ SendToServer(<<>>) /\ UNCHANGED up
    BY <1>4 DEF Resync, IsNext
  <2>3. Answer.kind = "segment" => Answer.seq \in Nat
    BY <2>1, TakeTypes, ResponseFields DEF Answer
  <2>4. UNCHANGED up => UploadGoesOn
    BY DEF UploadGoesOn
  <2> QED BY <2>1, <2>2, <2>3, <2>4, AcceptedGoesOn, RetransmittedGoesOn
<1>5. CASE EndUpload
  <2>1. up.pc = "end" /\ toClient # <<>> /\ toClient' = Tail(toClient)
    BY <1>5 DEF EndUpload, TakeAnswer
  <2>2. CASE Answer.kind = "end_upload" /\ CrcAgrees(Answer.crc)
    <3>1. /\ up' = [up EXCEPT !.pc = "close", !.result = up.result \o up.tail, !.tail = <<>>]
          /\ SendToServer(<<>>)
      BY <1>5, <2>2 DEF EndUpload
    <3>2. UploadGoesOn
      BY <1>1, <3>1 DEF Uploads, UploadGoesOn
    <3> QED BY <2>1, <3>1, <3>2
  <2>3. CASE ~(Answer.kind = "end_upload" /\ CrcAgrees(Answer.crc))
    <3>1. /\ SendToServer(<<>>) \/ SendToServer(<<Abort>>)
          /\ FailUpload
      BY <1>5, <2>3 DEF EndUpload
    <3> QED BY <2>1, <3>1
  <2> QED BY <2>2, <2>3
<1>6. CASE CloseUpload
  <2>1. /\ up.pc = "close" /\ SendToServer(<<[kind |-> "end_upload"]>>)
        /\ up' = [up EXCEPT !.pc = "idle", !.outcome = "ok"] /\ UNCHANGED toClient
    BY <1>6 DEF CloseUpload
  <2>2. UploadGoesOn
    BY <1>1, <2>1 DEF Uploads, UploadGoesOn
  <2> QED BY <2>1, <2>2
<1>7. CASE UploadTimesOut
  <2>1. up.pc # "idle"
    BY <1>7 DEF UploadTimesOut, InitUploadTimesOut, ReadTimesOut, ResyncTimesOut,
       ResyncExpires, EndUploadTimesOut
  <2>2. toClient' = toClient \/ (toClient # <<>> /\ toClient' = Tail(toClient))
    BY <1>7 DEF UploadTimesOut, InitUploadTimesOut, ReadTimesOut, ResyncTimesOut,
       ResyncExpires, EndUploadTimesOut, TakeAnswer
  <2>3. \/ FailUpload /\ SendToServer(<<Abort>>)
        \/ FailUpload /\ UNCHANGED toServer
        \/ Retransmit(up.ackseq, TRUE)
    BY <1>7 DEF UploadTimesOut, InitUploadTimesOut, ReadTimesOut, ResyncTimesOut,
       ResyncExpires, EndUploadTimesOut
  <2>4. UNCHANGED toServer => UploadSent
    BY DEF UploadSent
  <2> QED BY <1>1, <2>1, <2>2, <2>3, <2>4, RetransmittedGoesOn
<1>8. CASE UploadSendFails
  <2>1. /\ up.pc # "idle" /\ FailUpload /\ UNCHANGED toServer
        /\ toClient' = toClient \/ (toClient # <<>> /\ toClient' = Tail(toClient))
    BY <1>8 DEF UploadSendFails, TakeAnswer
  <2> QED BY <2>1 DEF UploadSent
<1> QED BY <1>2, <1>3, <1>4, <1>5, <1>6, <1>7, <1>8 DEF UploadStep

LEMMA UploadLeavesWhole ==
  ASSUME BlockInv, WholeInv, UploadStep \/ UploadTimesOut \/ UploadSendFails,
         UNCHANGED <<down, serverVars>>
  PROVE  WholeInv'
<1>1. /\ up.pc # "idle" /\ UploadSent /\ UploadGoesOn
      /\ toClient' = toClient \/ (toClient # <<>> /\ toClient' = Tail(toClient))
  BY UploadSends DEF BlockInv
<1>2. UNCHANGED <<down, srv, stored>>
  BY DEF serverVars
<1>3. /\ down.outcome = "none" /\ down = FreshDownload /\ up.outcome # "none"
      /\ srv.phase \notin {"receiving", "complete"}
  BY <1>1 DEF WholeInv, OnceInv, StreamInv
<1>4. InitInv'
  <2>1. toServer \in Seq(NotInits)
    BY <1>3 DEF WholeInv, InitInv
  <2>2. toServer' \in Seq(NotInits)
    BY <1>1, <2>1, ChainTypes DEF UploadSent
  <2> QED BY <2>2 DEF InitInv
<1>5. StreamInv'
  BY <1>2 DEF WholeInv, StreamInv
<1>6. OnceInv'
  BY <1>1, <1>2, <1>3 DEF OnceInv, Unused, UploadGoesOn
<1>7. StoredInv'
  <2>1. Confirmed' = Confirmed
    BY <1>2 DEF Confirmed
  <2>2. toClient \in Seq(Confirmed)
    BY DEF WholeInv, StoredInv
  <2>3. toClient' \in Seq(Confirmed)
    BY <1>1, <2>2, RestTypes
  <2>4. DownloadStoresWhole'
    BY <1>2 DEF WholeInv, StoredInv, DownloadStoresWhole
  <2> QED BY <1>2, <1>3, <2>1, <2>3, <2>4 DEF StoredInv
<1> QED BY <1>2, <1>3, <1>4, <1>5, <1>6, <1>7 DEF WholeInv

-----------------------------------------------------------------------------
\* Steps of a download.

\* What the invariants of types say of the server and of the stream.
LEMMA ServerFields ==
  ASSUME BlockInv
  PROVE  /\ srv \in ServerStates /\ srv.seq \in Nat /\ srv.blksize \in BlkSizes
         /\ srv.got \in Data /\ Len(srv.got) \in Nat /\ Segments \in Nat
         /\ toServer \in Seq(Requests) /\ toClient \in Seq(TrueResponses)
         /\ stored \in Data
BY BlockAssumption DEF BlockInv, ServerInv, ServerTypeOK, ServerStates, ChannelInv, Data

LEMMA StreamFields ==
  ASSUME BlockInv
  PROVE  /\ down \in Downloads /\ down.pos \in Nat /\ down.seqno \in Nat
         /\ down.blksize \in Nat /\ down.block \in Data /\ down.todo \in Seq(Data)
         /\ down.digest \in Data /\ down.todo # <<>> /\ Len(down.block) <= down.pos
BY DEF BlockInv, DownloadInv, DownloadTypeOK, Downloads

LEMMA HarmlessFrames ==
  /\ <<>> \in Seq(Harmless) /\ <<Abort>> \in Seq(Harmless)
  /\ \A crc \in Data : <<[kind |-> "end_download", crc |-> crc]>> \in Seq(Harmless)
<1>1. Abort \in Harmless
  BY RequestTypes DEF Harmless, NotInits, NotSegments, Abort
<1>2. \A crc \in Data : [kind |-> "end_download", crc |-> crc] \in Harmless
  BY RequestTypes DEF Harmless, NotInits, NotSegments
<1> QED BY <1>1, <1>2

\* No step of the client changes what the server has.
LEMMA StoredStays ==
  ASSUME WholeInv, UNCHANGED serverVars, down'.outcome = "ok" => stored = Value,
         toClient' \in Seq(Confirmed)
  PROVE  StoredInv'
<1>1. UNCHANGED <<srv, stored>>
  BY DEF serverVars
<1>2. Confirmed' = Confirmed
  BY <1>1 DEF Confirmed
<1> QED BY <1>1, <1>2 DEF WholeInv, StoredInv, DownloadStoresWhole

LEMMA OnceStays ==
  ASSUME WholeInv, down.outcome # "none", down'.outcome # "none", UNCHANGED up
  PROVE  OnceInv'
BY DEF WholeInv, OnceInv, Unused

\* The stream sends no more segments.
LEMMA StreamLeft ==
  ASSUME BlockInv, WholeInv, down.outcome # "none",
         down'.pc \in {"idle", "close", "end"}, down'.outcome # "none",
         down'.outcome = "ok" => stored = Value, NEW frames \in Seq(Harmless),
         toServer' = toServer \o frames, toClient' \in Seq(Confirmed), InitInv',
         UNCHANGED <<up, serverVars>>
  PROVE  WholeInv'
<1>1. UNCHANGED <<srv, stored, up>>
  BY DEF serverVars
<1>2. OnceInv' /\ StoredInv'
  BY OnceStays, StoredStays
<1>3. StreamInv'
  BY DEF StreamInv
<1>4. ASSUME srv.phase = "receiving"
      PROVE  ReceivingInv'
  <2>1. /\ toServer \in Seq(Fitting(srv.seq, Len(srv.got)))
        /\ EndsLast(toServer, srv.blksize)
        /\ Len(srv.got) <= Segments /\ \A i \in 1 .. Len(srv.got) : srv.got[i] = i
    BY <1>4 DEF WholeInv, ReceivingInv
  <2>2. frames \in Seq(NotSegments)
    BY SeqMonotonic DEF Harmless
  <2>3. frames \in Seq(Fitting(srv.seq, Len(srv.got)))
    BY <2>2, NoSegmentsFit, ServerFields
  <2>4. toServer' \in Seq(Fitting(srv.seq, Len(srv.got)))
    BY <2>1, <2>3, ChainTypes
  <2>5. EndsLast(toServer', srv.blksize)
    BY <2>1, <2>2, EndsLastChain, ServerFields
  <2> QED BY <1>1, <2>1, <2>4, <2>5 DEF ReceivingInv
<1> QED BY <1>1, <1>2, <1>3, <1>4 DEF WholeInv

\* Responses that are taken, and those that are left.
LEMMA ConfirmedTaken ==
  ASSUME WholeInv, toClient # <<>>
  PROVE  Head(toClient) \in Confirmed /\ Tail(toClient) \in Seq(Confirmed)
BY HeadTailProperties DEF WholeInv, StoredInv

LEMMA FinishedOutcome ==
  ASSUME BlockInv, WholeInv, down.outcome # "none", NEW how \in {"ok", "failed"},
         FinishDownload(how), how = "ok" => stored = Value
  PROVE  /\ down'.pc = "idle" /\ down'.outcome # "none"
         /\ down'.outcome = "ok" => stored = Value
<1>1. down \in Downloads
  BY StreamFields
<1>2. /\ down'.pc = "idle"
      /\ down'.outcome = IF down.outcome = "running" THEN how ELSE down.outcome
  BY <1>1 DEF FinishDownload, Downloads
<1> QED BY <1>2 DEF WholeInv, StoredInv, DownloadStoresWhole

LEMMA RaisedOutcome ==
  ASSUME BlockInv, RaiseInWrite
  PROVE  down'.pc = "close" /\ down'.outcome = "failed"
<1>1. down \in Downloads
  BY StreamFields
<1> QED BY <1>1 DEF RaiseInWrite, Downloads

\* After the answer to its first request no such request is under way.
LEMMA BegunBefore ==
  ASSUME WholeInv, down.pc # "idle", down.pc # "init" \/ toClient # <<>>
  PROVE  toServer \in Seq(NotInits) /\ down.outcome # "none"
<1>1. down.outcome # "none"
  BY DEF WholeInv, StreamInv, FreshDownload
<1> QED BY <1>1 DEF WholeInv, InitInv

LEMMA SentHarmless ==
  ASSUME toServer \in Seq(NotInits), NEW frames \in Seq(Harmless), SendToServer(frames)
  PROVE  toServer' = toServer \o frames /\ InitInv'
<1>1. frames \in Seq(NotInits)
  BY SeqMonotonic DEF Harmless
<1>2. toServer' = toServer \o frames
  BY DEF SendToServer
<1>3. toServer' \in Seq(NotInits)
  BY <1>1, <1>2, ChainTypes
<1> QED BY <1>2, <1>3 DEF InitInv

LEMMA NothingSent ==
  ASSUME BlockInv, UNCHANGED toServer
  PROVE  SendToServer(<<>>)
BY ConcatEmptySeq, ServerFields DEF SendToServer

\* The call returns or raises, or the stream is about to be closed.
LEMMA DownloadEndsWhole ==
  ASSUME BlockInv, WholeInv, UNCHANGED <<up, serverVars>>,
         down.pc # "idle", down.pc # "init" \/ toClient # <<>>,
         NEW frames \in Seq(Harmless), SendToServer(frames), toClient' \in Seq(Confirmed),
         \/ RaiseInWrite
         \/ FinishDownload("failed")
         \/ FinishDownload("ok") /\ stored = Value
  PROVE  WholeInv'
<1>1. down.outcome # "none" /\ toServer \in Seq(NotInits)
  BY BegunBefore
<1>2. toServer' = toServer \o frames /\ InitInv'
  BY <1>1, SentHarmless
<1>3. /\ down'.pc \in {"idle", "close", "end"} /\ down'.outcome # "none"
      /\ down'.outcome = "ok" => stored = Value
  BY <1>1, FinishedOutcome, RaisedOutcome
<1> QED BY <1>1, <1>2, <1>3, StreamLeft

LEMMA TwoFrames ==
  ASSUME NEW a, NEW b
  PROVE  <<a>> \o <<b>> = <<a, b>>
<1> DEFINE S == {a, b}
<1>1. /\ <<a>> \in Seq(S) /\ Len(<<a>>) = 1 /\ <<a>>[1] = a
      /\ <<b>> \in Seq(S) /\ Len(<<b>>) = 1 /\ <<b>>[1] = b
      /\ <<a, b>> \in Seq(S) /\ Len(<<a, b>>) = 2 /\ <<a, b>>[1] = a /\ <<a, b>>[2] = b
  OBVIOUS
<1> HIDE DEF S
<1>2. PICK s : s = <<a>> \o <<b>>
  OBVIOUS
<1>3. s \in Seq(S) /\ Len(s) = 2 /\ s[1] = a /\ s[2] = b
  <2>1. a \in S /\ s \in Seq(S)
    BY <1>1, <1>2, ChainTypes DEF S
  <2>2. Len(s) = 1 + 1 /\ s[1] = a /\ \A i \in 1 .. 1 : s[i + 1] = <<b>>[i]
    BY <1>1, <1>2, <2>1, ConsParts
  <2>3. 1 \in 1 .. 1 /\ 1 + 1 = 2
    OBVIOUS
  <2> QED BY <1>1, <2>1, <2>2, <2>3
<1>4. PICK t : t = <<a, b>>
  OBVIOUS
<1>5. t \in Seq(S) /\ Len(t) = 2 /\ t[1] = a /\ t[2] = b
  BY <1>1, <1>4
<1>6. \A i \in 1 .. Len(s) : s[i] = t[i]
  <2>1. ASSUME NEW i \in 1 .. 2
        PROVE  i = 1 \/ i = 2
    OBVIOUS
  <2> QED BY <1>3, <1>5, <2>1
<1>7. s = t
  BY <1>3, <1>5, <1>6, SeqEqual
<1> QED BY <1>2, <1>4, <1>7

LEMMA InitTimesOutWhole ==
  ASSUME BlockInv, WholeInv, UNCHANGED <<up, serverVars>>, InitDownloadTimesOut
  PROVE  WholeInv'
<1>1. /\ down.pc = "init" /\ SendToServer(<<Abort>>) /\ FinishDownload("failed")
      /\ UNCHANGED toClient /\ down.outcome # "none"
  BY DEF InitDownloadTimesOut, WholeInv, StreamInv, FreshDownload
<1>2. /\ down'.pc = "idle" /\ down'.outcome # "none"
      /\ down'.outcome = "ok" => stored = Value
  BY <1>1, FinishedOutcome
<1>3. toClient' \in Seq(Confirmed)
  BY <1>1 DEF WholeInv, StoredInv
<1>4. InitInv'
  <2>1. CASE toServer \in Seq(NotInits)
    BY <1>1, <2>1, HarmlessFrames, SentHarmless
  <2>2. CASE toServer = <<InitRequest>> /\ toClient = <<>> /\ srv.phase = "idle"
    <3>1. toServer' = <<InitRequest, Abort>>
      BY <1>1, <2>2, TwoFrames DEF SendToServer
    <3> QED BY <1>1, <1>2, <2>2, <3>1 DEF InitInv, serverVars
  <2> QED BY <1>1, <2>1, <2>2 DEF WholeInv, InitInv
<1>5. toServer' = toServer \o <<Abort>>
  BY <1>1 DEF SendToServer
<1> QED BY <1>1, <1>2, <1>3, <1>4, <1>5, HarmlessFrames, StreamLeft

\* The stream goes on.
LEMMA StreamGoesOn ==
  ASSUME BlockInv, WholeInv, UNCHANGED <<up, serverVars>>,
         down.pc # "idle", down'.outcome = down.outcome,
         toServer' \in Seq(NotInits), toClient' \in Seq(Confirmed),
         StreamInv', srv.phase = "receiving" => ReceivingInv'
  PROVE  WholeInv'
<1>1. down.outcome # "none"
  BY DEF WholeInv, StreamInv, FreshDownload
<1>2. OnceInv'
  BY <1>1, OnceStays
<1>3. StoredInv'
  BY StoredStays DEF WholeInv, StoredInv, DownloadStoresWhole
<1>4. InitInv'
  BY DEF InitInv
<1> QED BY <1>2, <1>3, <1>4 DEF WholeInv, serverVars

\* The device has answered the first request.
LEMMA InitAnswered ==
  ASSUME BlockInv, WholeInv, UNCHANGED <<up, serverVars>>, InitDownload,
         DownloadAnswer.kind = "init_download"
  PROVE  WholeInv'
<1>1. /\ down.pc = "init" /\ toClient # <<>> /\ toClient' = Tail(toClient)
      /\ SendToServer(<<>>)
      /\ down' = [down EXCEPT !.pc = "write", !.blksize = DownloadAnswer.blksize,
                    !.crc = DownloadAnswer.crc]
  BY DEF InitDownload, TakeDownloadAnswer
<1>2. DownloadAnswer.blksize \in BlkSizes /\ DownloadAnswer.blksize \in Nat
      /\ DownloadAnswer.blksize > 0
  <2>1. DownloadAnswer \in TrueResponses
    BY <1>1, TakeTypes DEF BlockInv, DownloadAnswer
  <2> QED BY <2>1, ResponseFields, BlockAssumption DEF BlkSizes
<1>3. down \in Downloads /\ down.outcome # "none"
      /\ down.pos = 0 /\ down.seqno = 0 /\ down.block = <<>> /\ down.todo = <<Value>>
  BY <1>1, StreamFields DEF WholeInv, StreamInv, FreshDownload
<1>4. /\ down'.pc = "write" /\ down'.blksize = DownloadAnswer.blksize /\ down'.pos = 0
      /\ down'.seqno = 0 /\ down'.block = <<>> /\ down'.todo = <<Value>>
      /\ down'.outcome = down.outcome
  BY <1>1, <1>3 DEF Downloads
<1>5. toServer' \in Seq(NotInits) /\ toClient' \in Seq(Confirmed) /\ toServer' = toServer
  <2>1. toServer \in Seq(NotInits)
    BY <1>1, BegunBefore
  <2>2. toServer' = toServer
    BY <1>1, <2>1, ConcatEmptySeq DEF SendToServer
  <2> QED BY <1>1, <2>1, <2>2, ConfirmedTaken
<1>6. StreamInv'
  <2>1. WritesLeft(down'.todo, down'.pos)
    BY <1>4, AllIsLeft
  <2>2. Len(down'.block) = down'.seqno
    BY <1>4
  <2>3. \A i \in 1 .. down'.seqno : down'.block[i] + down'.seqno = down'.pos + i
    BY <1>4
  <2>4. down'.outcome # "none" /\ down'.seqno < down'.blksize
    BY <1>2, <1>3, <1>4
  <2> QED BY <1>4, <2>1, <2>2, <2>3, <2>4 DEF StreamInv
<1>7. ASSUME srv.phase = "receiving"
      PROVE  ReceivingInv'
  <2>1. /\ toServer \in Seq(Fitting(srv.seq, Len(srv.got)))
        /\ EndsLast(toServer, srv.blksize)
        /\ Len(srv.got) <= Segments /\ \A i \in 1 .. Len(srv.got) : srv.got[i] = i
        /\ srv.got = <<>> /\ srv.seq = 0 /\ toServer \in Seq(NotSegments)
        /\ \E crc \in BOOLEAN : toClient = <<InitAnswer(crc)>>
    BY <1>1, <1>7 DEF WholeInv, ReceivingInv
  <2>2. PICK crc \in BOOLEAN : toClient = <<InitAnswer(crc)>>
    BY <2>1
  <2>3. DownloadAnswer = InitAnswer(crc) /\ toClient' = <<>>
    BY <1>1, <2>2 DEF DownloadAnswer
  <2>4. UNCHANGED srv
    BY DEF serverVars
  <2>5. SamePlace'
    BY <1>4, <2>1, <2>4 DEF SamePlace
  <2>6. down'.blksize = srv.blksize
    BY <1>4, <2>3 DEF InitAnswer
  <2>7. toServer \in Seq(WithinBlock(srv.blksize)) /\ toServer \in Seq(UpTo(0))
    BY <2>1, NoSegmentsFit, ServerFields
  <2> QED BY <1>4, <1>5, <2>1, <2>3, <2>4, <2>5, <2>6, <2>7 DEF ReceivingInv
<1> QED BY <1>1, <1>4, <1>5, <1>6, <1>7, StreamGoesOn

\* What a write does.
LEMMA Written ==
  ASSUME BlockInv, WholeInv, WriteSegment, NEW last \in BOOLEAN,
         last = (down.pos + 1 >= Segments)
  PROVE  /\ down.pc = "write" /\ UNCHANGED toClient /\ down.pos + 1 <= Segments
         /\ toServer' = toServer \o <<Segment(down.seqno + 1, down.pos + 1, last)>>
         /\ down'.pos = down.pos + 1 /\ down'.seqno = down.seqno + 1
         /\ down'.block = Append(down.block, down.pos + 1)
         /\ WritesLeft(down'.todo, down'.pos)
         /\ last => down'.blksize = down'.seqno
         /\ ~last => down'.blksize = down.blksize
         /\ down'.pc = IF down'.seqno >= down'.blksize THEN "ack" ELSE "write"
         /\ down'.outcome = down.outcome
<1>1. down \in Downloads /\ down.pos \in Nat /\ down.todo \in Seq(Data) /\ down.todo # <<>>
  BY StreamFields
<1>2. down.pc = "write" /\ UNCHANGED toClient /\ Head(down.todo) # <<>>
      /\ WritesLeft(down.todo, down.pos)
  BY DEF WriteSegment, WholeInv, StreamInv
<1>3. /\ Head(Head(down.todo)) = down.pos + 1 /\ down.pos + 1 <= Segments
      /\ WritesLeft(<<Tail(Head(down.todo))>> \o Tail(down.todo), down.pos + 1)
  BY <1>1, <1>2, OneLessLeft
<1>4. PICK todo : todo = <<Tail(Head(down.todo))>> \o Tail(down.todo)
  OBVIOUS
<1>5. PICK blksize : blksize = IF last THEN down.seqno + 1 ELSE down.blksize
  OBVIOUS
<1>6. PICK digest :
        digest = IF down.retransmitting THEN down.digest ELSE Append(down.digest, down.pos + 1)
  OBVIOUS
<1>7. PICK pc : pc = IF down.seqno + 1 >= blksize THEN "ack" ELSE "write"
  OBVIOUS
<1>8. /\ SendToServer(<<Segment(down.seqno + 1, down.pos + 1, last)>>)
      /\ down' = [down EXCEPT !.pc = pc, !.pos = down.pos + 1, !.seqno = down.seqno + 1,
                    !.blksize = blksize, !.done = last,
                    !.block = Append(down.block, down.pos + 1), !.digest = digest,
                    !.todo = todo]
  BY <1>3, <1>4, <1>5, <1>6, <1>7 DEF WriteSegment
<1>9. /\ down'.pc = pc /\ down'.pos = down.pos + 1 /\ down'.seqno = down.seqno + 1
      /\ down'.blksize = blksize /\ down'.block = Append(down.block, down.pos + 1)
      /\ down'.todo = todo /\ down'.outcome = down.outcome
  BY <1>1, <1>8 DEF Downloads
<1> QED BY <1>2, <1>3, <1>4, <1>5, <1>7, <1>8, <1>9 DEF SendToServer

LEMMA WrittenWhole ==
  ASSUME BlockInv, WholeInv, UNCHANGED <<up, serverVars>>, WriteSegment
  PROVE  WholeInv'
<1>1. PICK last \in BOOLEAN : last = (down.pos + 1 >= Segments)
  <2>1. (down.pos + 1 >= Segments) \in BOOLEAN
    BY StreamFields, BlockAssumption
  <2> QED BY <2>1, Zenon
<1>2. /\ down.pc = "write" /\ UNCHANGED toClient /\ down.pos + 1 <= Segments
      /\ toServer' = toServer \o <<Segment(down.seqno + 1, down.pos + 1, last)>>
      /\ down'.pos = down.pos + 1 /\ down'.seqno = down.seqno + 1
      /\ down'.block = Append(down.block, down.pos + 1)
      /\ WritesLeft(down'.todo, down'.pos)
      /\ last => down'.blksize = down'.seqno
      /\ ~last => down'.blksize = down.blksize
      /\ down'.pc = IF down'.seqno >= down'.blksize THEN "ack" ELSE "write"
      /\ down'.outcome = down.outcome
  BY <1>1, Written
<1>3. /\ down.pos \in Nat /\ down.seqno \in Nat /\ down.blksize \in Nat
      /\ down.block \in Seq(1 .. Segments) /\ down.outcome # "none"
      /\ Len(down.block) = down.seqno /\ down.seqno < down.blksize
      /\ \A i \in 1 .. down.seqno : down.block[i] + down.seqno = down.pos + i
  BY <1>2, StreamFields DEF Data, WholeInv, StreamInv, FreshDownload
<1>4. last => down.pos + 1 = Segments
  <2>1. last => down.pos + 1 >= Segments
    BY <1>1, Zenon
  <2> QED BY <1>2, <1>3, <2>1, BlockAssumption
<1>5. PICK f \in Requests :
        /\ f = Segment(down.seqno + 1, down.pos + 1, last)
        /\ f.kind = "segment" /\ f.seq = down.seqno + 1 /\ f.seg = down.pos + 1
        /\ f.last = last
  <2>1. PICK n \in Nat, p \in Nat : n = down.seqno /\ p = down.pos /\ p + 1 <= Segments
    BY <1>2, <1>3, Zenon
  <2>2. n + 1 \in Nat /\ p + 1 \in 1 .. Segments
    BY <2>1, BlockAssumption
  <2>3. down.seqno + 1 \in Nat /\ down.pos + 1 \in 1 .. Segments
    BY <2>1, <2>2, Zenon
  <2> QED BY <2>3, RequestTypes DEF Segment
<1>6. toServer' \in Seq(NotInits)
  <2>1. toServer \in Seq(NotInits)
    BY <1>2, BegunBefore
  <2>2. <<f>> \in Seq(NotInits)
    BY <1>5 DEF NotInits
  <2> QED BY <1>2, <1>5, <2>1, <2>2, ChainTypes
<1>7. StreamInv'
  <2>1. PICK block : block = Append(down.block, down.pos + 1)
    OBVIOUS
  <2>2. /\ Len(block) = down.seqno + 1 /\ block[down.seqno + 1] = down.pos + 1
        /\ \A i \in 1 .. down.seqno : block[i] = down.block[i]
    <3>1. down.pos + 1 \in 1 .. Segments
      BY <1>2, <1>3, BlockAssumption
    <3> QED BY <1>3, <2>1, <3>1, AppendProperties
  <2>3. ASSUME NEW i \in 1 .. down.seqno + 1
        PROVE  block[i] + (down.seqno + 1) = (down.pos + 1) + i
    <3>1. CASE i \in 1 .. down.seqno
      <4>1. PICK seg \in 1 .. Segments : seg = down.block[i]
        BY <1>3, <3>1, ElementOfSeq
      <4>2. seg + down.seqno = down.pos + i /\ block[i] = seg
        BY <1>3, <2>2, <3>1, <4>1
      <4>3. down.pos \in Nat /\ down.seqno \in Nat /\ Segments \in Nat
        BY <1>3, BlockAssumption
      <4> QED BY <3>1, <4>2, <4>3
    <3>2. CASE i = down.seqno + 1
      BY <1>3, <2>2, <3>2
    <3> QED BY <1>3, <3>1, <3>2
  <2>4. /\ Len(down'.block) = down'.seqno
        /\ \A i \in 1 .. down'.seqno : down'.block[i] + down'.seqno = down'.pos + i
    BY <1>2, <2>1, <2>2, <2>3
  <2>5. /\ down'.pc = "write" => down'.seqno < down'.blksize
        /\ down'.pc = "ack" => down'.seqno = down'.blksize
        /\ down'.pc \in {"write", "ack"}
    BY <1>2, <1>3
  <2> QED BY <1>2, <1>3, <2>4, <2>5 DEF StreamInv
<1>8. ASSUME srv.phase = "receiving"
      PROVE  ReceivingInv'
  <2>1. /\ toServer \in Seq(Fitting(srv.seq, Len(srv.got)))
        /\ Len(srv.got) <= Segments /\ \A i \in 1 .. Len(srv.got) : srv.got[i] = i
        /\ SamePlace /\ toClient = <<>> /\ down.blksize = srv.blksize
        /\ toServer \in Seq(WithinBlock(srv.blksize))
        /\ toServer \in Seq(UpTo(down.seqno)) /\ srv.seq <= down.seqno
    BY <1>2, <1>8 DEF WholeInv, ReceivingInv
  <2>2. /\ srv.seq \in Nat /\ srv.blksize \in BlkSizes /\ Len(srv.got) \in Nat
        /\ toServer \in Seq(Requests)
    BY ServerFields
  <2>3. UNCHANGED srv
    BY DEF serverVars
  <2>4. toServer' \in Seq(Fitting(srv.seq, Len(srv.got)))
    <3>1. PICK n \in Nat : n = Len(srv.got)
      BY <2>2
    <3>2. PICK seq \in Nat : seq = srv.seq
      BY <2>2
    <3>3. PICK pos \in Nat, seqno \in Nat : pos = down.pos /\ seqno = down.seqno
      BY <1>3
    <3>4. pos + seq = seqno + n
      BY <2>1, <3>1, <3>2, <3>3 DEF SamePlace
    <3>5. f.seg + seq = f.seq + n
      BY <1>5, <3>3, <3>4
    <3>6. f \in Fitting(srv.seq, Len(srv.got))
      BY <1>4, <1>5, <3>1, <3>2, <3>5 DEF Fitting
    <3> QED BY <3>6, <1>2, <1>5, <2>1, ChainTypes
  <2>5. EndsLast(toServer', srv.blksize)
    BY <1>2, <1>5, <2>1, <2>2, EndsLastAppend
  <2>6. toServer' \in Seq(UpTo(down'.seqno)) /\ srv.seq <= down'.seqno
    <3>1. UpTo(down.seqno) \subseteq UpTo(down'.seqno)
      BY <1>2, <1>3, RequestFields DEF UpTo
    <3>2. f \in UpTo(down'.seqno)
      BY <1>2, <1>3, <1>5 DEF UpTo
    <3>3. toServer \in Seq(UpTo(down'.seqno))
      BY <2>1, <3>1, SeqMonotonic
    <3> QED BY <1>2, <1>3, <1>5, <2>1, <2>2, <3>2, <3>3, ChainTypes
  <2>7. SamePlace'
    <3>1. PICK n \in Nat, seq \in Nat : n = Len(srv.got) /\ seq = srv.seq
      BY <2>2
    <3>2. PICK pos \in Nat, seqno \in Nat : pos = down.pos /\ seqno = down.seqno
      BY <1>3
    <3>3. pos + seq = seqno + n
      BY <2>1, <3>1, <3>2 DEF SamePlace
    <3>4. /\ down'.pos = pos + 1 /\ down'.seqno = seqno + 1
          /\ srv'.seq = seq /\ Len(srv'.got) = n
      BY <1>2, <2>3, <3>1, <3>2
    <3> QED BY <3>3, <3>4 DEF SamePlace
  <2>8. ASSUME down'.pc = "write"
        PROVE  down'.blksize = srv.blksize /\ toServer' \in Seq(WithinBlock(srv.blksize))
    <3>1. ~last /\ down'.seqno < down'.blksize
      BY <1>2, <1>3, <2>8
    <3>2. down'.blksize = srv.blksize
      BY <1>2, <2>1, <3>1
    <3>3. f \in WithinBlock(srv.blksize)
      BY <1>2, <1>3, <1>5, <3>1, <3>2 DEF WithinBlock
    <3> QED BY <1>2, <1>5, <2>1, <3>2, <3>3, ChainTypes
  <2>9. toClient' = <<>> /\ Unanswered'
    BY <1>2, <2>1, <2>7 DEF Unanswered
  <2>10. down'.pc \in {"write", "ack"}
    BY <1>2
  <2> QED BY <2>1, <2>3, <2>4, <2>5, <2>6, <2>7, <2>8, <2>9, <2>10 DEF ReceivingInv
<1>9. toClient' \in Seq(Confirmed)
  BY <1>2 DEF WholeInv, StoredInv
<1> QED BY <1>2, <1>6, <1>7, <1>8, <1>9, StreamGoesOn

\* A write of _retransmit returns.
LEMMA EndRetransmitWhole ==
  ASSUME BlockInv, WholeInv, UNCHANGED <<up, serverVars>>, EndRetransmit
  PROVE  WholeInv'
<1>1. /\ down.pc = "write" /\ UNCHANGED <<toServer, toClient>>
      /\ Head(down.todo) = <<>> /\ Len(down.todo) > 1
      /\ down' = [down EXCEPT !.todo = Tail(down.todo), !.retransmitting = FALSE]
  BY DEF EndRetransmit
<1>2. down \in Downloads /\ down.pos \in Nat /\ down.todo \in Seq(Data)
  BY StreamFields
<1>3. /\ down'.pc = down.pc /\ down'.pos = down.pos /\ down'.seqno = down.seqno
      /\ down'.blksize = down.blksize /\ down'.block = down.block
      /\ down'.outcome = down.outcome /\ down'.todo = Tail(down.todo)
  BY <1>1, <1>2 DEF Downloads
<1>4. WritesLeft(down'.todo, down'.pos)
  <2>1. WritesLeft(down.todo, down.pos)
    BY <1>1 DEF WholeInv, StreamInv
  <2> QED BY <1>1, <1>2, <1>3, <2>1, InnermostDone
<1>5. StreamInv'
  BY <1>1, <1>3, <1>4 DEF WholeInv, StreamInv, FreshDownload
<1>6. ASSUME srv.phase = "receiving"
      PROVE  ReceivingInv'
  BY <1>1, <1>3, <1>6 DEF WholeInv, ReceivingInv, SamePlace, serverVars
<1>7. toServer \in Seq(NotInits)
  BY <1>1, BegunBefore
<1>8. toClient \in Seq(Confirmed)
  BY DEF WholeInv, StoredInv
<1> QED BY <1>1, <1>3, <1>5, <1>6, <1>7, <1>8, StreamGoesOn

\* The acknowledgement of a block that the server receives.
LEMMA AckOfServer ==
  ASSUME BlockInv, WholeInv, down.pc = "ack", toClient # <<>>, srv.phase = "receiving",
         NEW f, f = Head(toClient)
  PROVE  /\ toServer \in Seq(NotSegments) /\ srv.seq = 0 /\ Tail(toClient) = <<>>
         /\ f.blksize = srv.blksize /\ f.seq \in Nat /\ f.seq <= down.seqno
         /\ down.pos + f.seq = down.seqno + Len(srv.got)
<1>1. Answered
  BY DEF WholeInv, ReceivingInv, Unanswered
<1>2. PICK seq \in Nat :
        /\ toClient = <<Ack(seq, srv.blksize)>> /\ seq <= down.seqno
        /\ down.pos + seq = down.seqno + Len(srv.got)
  BY <1>1 DEF Answered
<1>3. f = Ack(seq, srv.blksize) /\ Tail(toClient) = <<>>
  BY <1>2
<1> QED BY <1>1, <1>2, <1>3 DEF Answered, Ack

\* A new block, from where the server is.
LEMMA NewBlock ==
  ASSUME BlockInv, WholeInv, UNCHANGED <<up, serverVars>>, down.pc = "ack", toClient # <<>>,
         toClient' = Tail(toClient), UNCHANGED toServer, DownloadAnswer.kind = "ack",
         down'.pc = "write", down'.seqno = 0, down'.block = <<>>,
         down'.blksize = DownloadAnswer.blksize, down'.outcome = down.outcome,
         WritesLeft(down'.todo, down'.pos),
         srv.phase = "receiving" => down'.pos + down.seqno = down.pos + DownloadAnswer.seq,
         down'.pos \in Nat
  PROVE  WholeInv'
<1>1. PICK f \in TrueResponses : f = DownloadAnswer /\ f = Head(toClient)
  BY TakeTypes DEF BlockInv, DownloadAnswer
<1>2. f.blksize \in Nat /\ f.blksize > 0
  BY <1>1, ResponseFields, BlockAssumption DEF BlkSizes
<1>3. StreamInv'
  <2>1. /\ Len(down'.block) = down'.seqno
        /\ \A i \in 1 .. down'.seqno : down'.block[i] + down'.seqno = down'.pos + i
    OBVIOUS
  <2>2. down'.outcome # "none" /\ down'.seqno < down'.blksize
    BY <1>1, <1>2 DEF WholeInv, StreamInv, FreshDownload
  <2> QED BY <2>1, <2>2 DEF StreamInv
<1>4. ASSUME srv.phase = "receiving"
      PROVE  ReceivingInv'
  <2>1. /\ toServer \in Seq(NotSegments) /\ srv.seq = 0 /\ Tail(toClient) = <<>>
        /\ f.blksize = srv.blksize /\ down.pos + f.seq = down.seqno + Len(srv.got)
        /\ f.seq \in Nat
    BY <1>1, <1>4, AckOfServer
  <2>2. /\ Len(srv.got) <= Segments /\ \A i \in 1 .. Len(srv.got) : srv.got[i] = i
        /\ toServer \in Seq(Fitting(srv.seq, Len(srv.got)))
        /\ EndsLast(toServer, srv.blksize)
    BY <1>4 DEF WholeInv, ReceivingInv
  <2>3. toServer \in Seq(WithinBlock(srv.blksize)) /\ toServer \in Seq(UpTo(0))
    BY <2>1, NoSegmentsFit, ServerFields
  <2>4. UNCHANGED srv
    BY DEF serverVars
  <2>5. SamePlace'
    <3>1. PICK n \in Nat, pos \in Nat, seqno \in Nat, now \in Nat, seq \in Nat :
            /\ n = Len(srv.got) /\ pos = down.pos /\ seqno = down.seqno
            /\ now = down'.pos /\ seq = f.seq
      BY <2>1, ServerFields, StreamFields
    <3>2. now + seqno = pos + seq /\ pos + seq = seqno + n
      BY <1>1, <1>4, <2>1, <3>1
    <3>3. now = n
      BY <3>2
    <3> QED BY <2>1, <2>4, <3>1, <3>3 DEF SamePlace
  <2> QED BY <1>1, <2>1, <2>2, <2>3, <2>4, <2>5 DEF ReceivingInv
<1>5. toServer \in Seq(NotInits)
  BY BegunBefore
<1>6. toClient' \in Seq(Confirmed)
  BY ConfirmedTaken
<1> QED BY <1>3, <1>4, <1>5, <1>6, StreamGoesOn

LEMMA BlockAcked ==
  ASSUME BlockInv, WholeInv, UNCHANGED <<up, serverVars>>, BlockAck,
         DownloadAnswer.kind = "ack", DownloadAnswer.seq = down.blksize
  PROVE  WholeInv'
<1>1. /\ down.pc = "ack" /\ toClient # <<>> /\ toClient' = Tail(toClient)
      /\ SendToServer(<<>>)
      /\ down' = [down EXCEPT !.pc = "write", !.block = <<>>, !.seqno = 0,
                    !.blksize = DownloadAnswer.blksize]
  BY DEF BlockAck, TakeDownloadAnswer
<1>2. down \in Downloads /\ down.pos \in Nat /\ toServer \in Seq(Requests)
  BY StreamFields, ServerFields
<1>3. /\ down'.pc = "write" /\ down'.pos = down.pos /\ down'.seqno = 0
      /\ down'.blksize = DownloadAnswer.blksize /\ down'.block = <<>>
      /\ down'.outcome = down.outcome /\ down'.todo = down.todo
  BY <1>1, <1>2 DEF Downloads
<1>4. UNCHANGED toServer
  BY <1>1, <1>2, ConcatEmptySeq DEF SendToServer
<1>5. WritesLeft(down.todo, down.pos) /\ down.seqno = DownloadAnswer.seq
  BY <1>1 DEF WholeInv, StreamInv
<1> QED BY <1>1, <1>2, <1>3, <1>4, <1>5, NewBlock

\* The segments of a block are the last ones before pos, and so are those of its end.
UpToPos(b, pos) == \A i \in 1 .. Len(b) : b[i] + Len(b) = pos + i

Behind(b, from) == SubSeq(b, from + 1, Len(b))

LEMMA EndOfBlock ==
  ASSUME NEW b \in Seq(1 .. Segments), NEW from \in Nat, NEW pos \in Nat, UpToPos(b, pos)
  PROVE  /\ Behind(b, from) \in Seq(1 .. Segments) /\ Len(Behind(b, from)) \in Nat
         /\ Len(Behind(b, from)) <= Len(b)
         /\ from <= Len(b) => Len(Behind(b, from)) + from = Len(b)
         /\ UpToPos(Behind(b, from), pos)
<1> PICK r : r = Behind(b, from)
  OBVIOUS
<1>9. r = SubSeq(b, from + 1, Len(b))
  BY DEF Behind
<1>1. PICK n \in Nat : n = Len(b)
  OBVIOUS
<1>2. ASSUME NEW i \in from + 1 .. n
      PROVE  b[i] \in 1 .. Segments
  <2>1. i \in 1 .. Len(b)
    BY <1>1
  <2> QED BY <2>1, ElementOfSeq
<1>3. from + 1 \in Int /\ n \in Int
  OBVIOUS
<1>4. /\ r \in Seq(1 .. Segments)
      /\ Len(r) = IF from + 1 <= n THEN n - (from + 1) + 1 ELSE 0
      /\ \A i \in 1 .. n - (from + 1) + 1 : r[i] = b[(from + 1) + i - 1]
  BY <1>1, <1>2, <1>3, <1>9, SubSeqProperties
<1>5. PICK m \in Nat : m = Len(r)
  BY <1>9, DropTypes
<1>6. m <= n /\ (from <= n => m + from = n)
  BY <1>4, <1>5
<1>7. ASSUME NEW k \in 1 .. m
      PROVE  r[k] + m = pos + k
  <2>1. /\ k \in 1 .. n - (from + 1) + 1 /\ (from + 1) + k - 1 = k + from
        /\ k + from \in 1 .. n /\ from <= n
    BY <1>4, <1>5, <1>7
  <2>2. PICK seg \in 1 .. Segments : seg = b[k + from] /\ r[k] = seg
    BY <1>1, <1>4, <2>1, ElementOfSeq
  <2>3. seg + n = pos + (k + from) /\ m + from = n /\ Segments \in Nat
    BY <1>1, <1>6, <2>1, <2>2, BlockAssumption DEF UpToPos
  <2>4. seg + m = pos + k
    BY <1>7, <2>3
  <2> QED BY <2>2, <2>4
<1>8. UpToPos(r, pos)
  BY <1>5, <1>7 DEF UpToPos
<1> QED BY <1>1, <1>4, <1>5, <1>6, <1>8

LEMMA BlockRepeated ==
  ASSUME BlockInv, WholeInv, UNCHANGED <<up, serverVars>>, BlockAck,
         DownloadAnswer.kind = "ack", DownloadAnswer.seq # down.blksize
  PROVE  WholeInv'
<1>1. /\ down.pc = "ack" /\ toClient # <<>> /\ toClient' = Tail(toClient)
      /\ SendToServer(<<>>) /\ RetransmitBlock(DownloadAnswer)
  BY DEF BlockAck, TakeDownloadAnswer
<1>2. /\ down \in Downloads /\ down.pos \in Nat /\ down.seqno \in Nat
      /\ down.block \in Data /\ down.todo \in Seq(Data) /\ Len(down.block) <= down.pos
      /\ toServer \in Seq(Requests)
  BY StreamFields, ServerFields
<1>3. PICK f \in TrueResponses : f = DownloadAnswer /\ f = Head(toClient)
  BY <1>1, TakeTypes DEF BlockInv, DownloadAnswer
<1>4. f.seq \in Nat
  BY <1>3, ResponseFields
<1>5. PICK block : block = SubSeq(down.block, f.seq + 1, Len(down.block))
  OBVIOUS
<1>6. /\ Len(down.block) = down.seqno /\ WritesLeft(down.todo, down.pos)
      /\ \A i \in 1 .. down.seqno : down.block[i] + down.seqno = down.pos + i
  BY <1>1 DEF WholeInv, StreamInv
<1>7. PICK m \in Nat :
        /\ m = Len(block) /\ block \in Data
        /\ m <= down.seqno /\ (f.seq <= down.seqno => m + f.seq = down.seqno)
        /\ \A k \in 1 .. m : block[k] = (down.pos - m) + k
  <2>1. PICK b \in Seq(1 .. Segments), from \in Nat, pos \in Nat :
          b = down.block /\ from = f.seq /\ pos = down.pos
    BY <1>2, <1>4 DEF Data
  <2>2. block = Behind(b, from) /\ UpToPos(b, pos)
    BY <1>5, <1>6, <2>1 DEF UpToPos, Behind
  <2>3. /\ block \in Seq(1 .. Segments) /\ Len(block) \in Nat /\ Len(block) <= Len(b)
        /\ from <= Len(b) => Len(block) + from = Len(b)
        /\ UpToPos(block, pos)
    BY <2>2, EndOfBlock
  <2>4. PICK m \in Nat : m = Len(block)
    BY <2>3
  <2>5. ASSUME NEW k \in 1 .. m
        PROVE  block[k] = (pos - m) + k
    <3>1. PICK seg \in 1 .. Segments : seg = block[k]
      BY <2>3, <2>4, ElementOfSeq
    <3>2. seg + m = pos + k /\ Segments \in Nat
      BY <2>3, <2>4, <3>1, BlockAssumption DEF UpToPos
    <3> QED BY <3>1, <3>2
  <2> QED BY <1>6, <2>1, <2>3, <2>4, <2>5 DEF Data
<1>8. PICK todo : todo = <<block>> \o down.todo
  OBVIOUS
<1>9. PICK pos \in Nat : pos = down.pos - m /\ pos + m = down.pos
  <2>1. PICK now \in Nat, seqno \in Nat : now = down.pos /\ seqno = down.seqno
    BY <1>2
  <2>2. seqno <= now /\ m <= seqno
    BY <1>2, <1>6, <1>7, <2>1
  <2> QED BY <2>1, <2>2
<1>10. WritesLeft(todo, pos)
  <2>1. /\ Len(block) <= down.pos
        /\ \A k \in 1 .. Len(block) : block[k] = (down.pos - Len(block)) + k
    BY <1>2, <1>6, <1>7
  <2> QED BY <1>2, <1>6, <1>7, <1>8, <1>9, <2>1, AgainLeft
<1>11. down' = [down EXCEPT !.pc = "write", !.pos = pos, !.block = <<>>, !.seqno = 0,
                  !.blksize = f.blksize, !.retransmitting = TRUE, !.todo = todo]
  BY <1>1, <1>3, <1>5, <1>7, <1>8, <1>9 DEF RetransmitBlock
<1>12. /\ down'.pc = "write" /\ down'.pos = pos /\ down'.seqno = 0
       /\ down'.blksize = f.blksize /\ down'.block = <<>>
       /\ down'.outcome = down.outcome /\ down'.todo = todo
  BY <1>2, <1>11 DEF Downloads
<1>13. UNCHANGED toServer
  BY <1>1, <1>2, ConcatEmptySeq DEF SendToServer
<1>14. ASSUME srv.phase = "receiving"
       PROVE  down'.pos + down.seqno = down.pos + f.seq
  <2>1. f.seq <= down.seqno
    BY <1>1, <1>3, <1>14, AckOfServer
  <2>2. m + f.seq = down.seqno
    BY <1>7, <2>1
  <2> QED BY <1>2, <1>4, <1>9, <1>12, <2>2
<1> QED BY <1>1, <1>3, <1>10, <1>12, <1>13, <1>14, NewBlock

LEMMA DownloadStepsWhole ==
  ASSUME BlockInv, WholeInv, UNCHANGED <<up, serverVars>>, DownloadStep
  PROVE  WholeInv'
<1> USE HarmlessFrames
<1>1. toClient \in Seq(Confirmed)
  BY DEF WholeInv, StoredInv
<1>2. CASE InitDownload
  <2>1. /\ down.pc = "init" /\ toClient # <<>> /\ toClient' = Tail(toClient)
        /\ DownloadAnswer.kind # "init_download" =>
             /\ SendToServer(<<>>) \/ SendToServer(<<Abort>>)
             /\ FinishDownload("failed")
    BY <1>2 DEF InitDownload, TakeDownloadAnswer
  <2>2. toClient' \in Seq(Confirmed)
    BY <2>1, ConfirmedTaken
  <2> QED BY <1>2, <2>1, <2>2, InitAnswered, DownloadEndsWhole
<1>3. CASE WriteSegment
  BY <1>3, WrittenWhole
<1>4. CASE WriteAfterEnd
  <2>1. down.pc = "write" /\ RaiseInWrite /\ UNCHANGED <<toServer, toClient>>
    BY <1>4 DEF WriteAfterEnd
  <2> QED BY <1>1, <2>1, NothingSent, DownloadEndsWhole
<1>5. CASE EndRetransmit
  BY <1>5, EndRetransmitWhole
<1>6. CASE EndWrite
  <2>1. /\ down.pc = "write" /\ UNCHANGED <<toServer, toClient>>
        /\ down' = [down EXCEPT !.pc = "close"]
    BY <1>6 DEF EndWrite
  <2>2. down \in Downloads
    BY StreamFields
  <2>3. down'.pc = "close" /\ down'.outcome = down.outcome
    BY <2>1, <2>2 DEF Downloads
  <2>4. toServer \in Seq(NotInits) /\ down.outcome # "none"
    BY <2>1, BegunBefore
  <2>5. toServer' = toServer \o <<>> /\ InitInv'
    BY <2>1, <2>4, NothingSent, SentHarmless
  <2>6. down.outcome = "ok" => stored = Value
    BY DEF WholeInv, StoredInv, DownloadStoresWhole
  <2> QED BY <1>1, <2>1, <2>3, <2>4, <2>5, <2>6, StreamLeft
<1>7. CASE BlockAck
  <2>1. /\ down.pc = "ack" /\ toClient # <<>> /\ toClient' = Tail(toClient)
        /\ DownloadAnswer.kind # "ack" =>
             /\ SendToServer(<<>>) \/ SendToServer(<<Abort>>)
             /\ RaiseInWrite
    BY <1>7 DEF BlockAck, TakeDownloadAnswer
  <2>2. toClient' \in Seq(Confirmed)
    BY <2>1, ConfirmedTaken
  <2> QED BY <1>7, <2>1, <2>2, BlockAcked, BlockRepeated, DownloadEndsWhole
<1>8. CASE CloseDownload
  <2>1. /\ down.pc = "close" /\ down' = [down EXCEPT !.pc = "end"]
        /\ SendToServer(<<[kind |-> "end_download", crc |-> down.digest]>>)
    BY <1>8 DEF CloseDownload
  <2>2. down \in Downloads /\ down.digest \in Data
    BY StreamFields
  <2>3. down'.pc = "end" /\ down'.outcome = down.outcome
    BY <2>1, <2>2 DEF Downloads
  <2>4. toServer \in Seq(NotInits) /\ down.outcome # "none"
    BY <2>1, BegunBefore
  <2>5. PICK frames \in Seq(Harmless) :
          frames = <<[kind |-> "end_download", crc |-> down.digest]>>
    BY <2>2
  <2>6. toServer' = toServer \o frames /\ InitInv'
    BY <2>1, <2>4, <2>5, SentHarmless
  <2>7. down.outcome = "ok" => stored = Value
    BY DEF WholeInv, StoredInv, DownloadStoresWhole
  <2>8. toClient' \in Seq(Confirmed)
    <3>1. PICK n \in 0 .. Len(toClient) : toClient' = SubSeq(toClient, n + 1, Len(toClient))
      BY <1>8 DEF CloseDownload
    <3>2. n \in Nat
      BY <1>1
    <3> QED BY <1>1, <3>1, <3>2, DropTypes
  <2> QED BY <2>3, <2>4, <2>6, <2>7, <2>8, StreamLeft
<1>9. CASE EndDownload
  <2>1. /\ down.pc = "end" /\ toClient # <<>> /\ toClient' = Tail(toClient)
        /\ SendToServer(<<>>)
        /\ \/ DownloadAnswer.kind = "end_download" /\ FinishDownload("ok")
           \/ FinishDownload("failed")
    BY <1>9 DEF EndDownload, TakeDownloadAnswer, ConfirmsEnd
  <2>2. toClient' \in Seq(Confirmed) /\ DownloadAnswer \in Confirmed
    BY <2>1, ConfirmedTaken DEF DownloadAnswer
  <2>3. DownloadAnswer.kind = "end_download" => stored = Value
    BY <2>2 DEF Confirmed
  <2> QED BY <2>1, <2>2, <2>3, DownloadEndsWhole
<1> QED BY <1>2, <1>3, <1>4, <1>5, <1>6, <1>7, <1>8, <1>9 DEF DownloadStep

LEMMA DownloadTroublesWhole ==
  ASSUME BlockInv, WholeInv, UNCHANGED <<up, serverVars>>,
         DownloadTimesOut \/ DownloadSendFails
  PROVE  WholeInv'
<1> USE HarmlessFrames
<1>1. toClient \in Seq(Confirmed)
  BY DEF WholeInv, StoredInv
<1>2. CASE InitDownloadTimesOut
  BY <1>2, InitTimesOutWhole
<1>3. CASE BlockAckTimesOut
  BY <1>1, <1>3, DownloadEndsWhole DEF BlockAckTimesOut
<1>4. CASE EndDownloadTimesOut
  BY <1>1, <1>4, DownloadEndsWhole DEF EndDownloadTimesOut
<1>5. CASE DownloadSendFails
  <2>1. /\ down.pc \in {"write", "close"} /\ UNCHANGED <<toServer, toClient>>
        /\ RaiseInWrite \/ FinishDownload("failed")
    BY <1>5 DEF DownloadSendFails
  <2> QED BY <1>1, <2>1, NothingSent, DownloadEndsWhole
<1> QED BY <1>2, <1>3, <1>4, <1>5 DEF DownloadTimesOut

-----------------------------------------------------------------------------
\* Steps of the server.

\* What the server may answer before the value is stored.
LEMMA AnswersConfirmed ==
  ASSUME WholeInv, NEW f \in TrueResponses, f.kind # "end_download"
  PROVE  <<f>> \in Seq(Confirmed) /\ toClient \o <<f>> \in Seq(Confirmed)
<1>1. f \in Confirmed
  BY DEF TrueResponses, Confirmed
<1>2. <<f>> \in Seq(Confirmed) /\ toClient \in Seq(Confirmed)
  BY <1>1 DEF WholeInv, StoredInv
<1> QED BY <1>2, ChainTypes

\* A request is taken: a transfer has begun, and it began before what is left.
LEMMA TakenRequest ==
  ASSUME WholeInv, toServer # <<>>
  PROVE  ~Unused /\ Tail(toServer) \in Seq(NotInits)
<1>1. ~Unused
  BY DEF WholeInv, OnceInv
<1>2. CASE toServer \in Seq(NotInits)
  BY <1>1, <1>2, RestTypes
<1>3. CASE toServer = <<InitRequest>>
  BY <1>1, <1>3
<1>4. CASE toServer = <<InitRequest, Abort>>
  <2>1. Tail(toServer) = <<Abort>>
    BY <1>4
  <2> QED BY <1>1, <2>1, UploadFrames
<1> QED BY <1>2, <1>3, <1>4 DEF WholeInv, InitInv

\* The server does not receive, and has stored nothing.
LEMMA ServerLeaves ==
  ASSUME WholeInv, UNCHANGED <<up, down, stored>>, ~Unused, toServer' \in Seq(NotInits),
         toClient' \in Seq(Confirmed), srv'.phase \notin {"receiving", "complete"}
  PROVE  WholeInv'
<1>1. InitInv'
  BY DEF InitInv
<1>2. StreamInv'
  BY DEF WholeInv, StreamInv
<1>3. OnceInv'
  BY DEF WholeInv, OnceInv, Unused
<1>4. StoredInv'
  <2>1. Confirmed' = Confirmed
    BY DEF Confirmed
  <2> QED BY <2>1 DEF WholeInv, StoredInv, DownloadStoresWhole
<1> QED BY <1>1, <1>2, <1>3, <1>4 DEF WholeInv

LEMMA AnswersAppended ==
  ASSUME BlockInv, WholeInv, NEW f \in TrueResponses, f.kind # "end_download"
  PROVE  Append(toClient, f) \in Seq(Confirmed)
<1>1. f \in Confirmed
  BY DEF TrueResponses, Confirmed
<1> QED BY <1>1 DEF WholeInv, StoredInv

LEMMA SendSegmentWhole ==
  ASSUME BlockInv, WholeInv, UNCHANGED <<up, down>>, SendSegment
  PROVE  WholeInv'
<1>1. /\ srv \in ServerStates /\ srv.phase = "sending" /\ srv.base + srv.seq < Segments
      /\ srv.base \in Nat /\ srv.seq \in Nat /\ Segments \in Nat
  BY BlockAssumption DEF BlockInv, SendSegment, ServerInv, ServerTypeOK, ServerStates
<1>2. PICK seq \in Nat, last \in BOOLEAN, seg \in 1 .. Segments :
        seq = srv.seq + 1 /\ seg = srv.base + seq /\ last = (srv.base + seq = Segments)
  <2>1. PICK seq \in Nat : seq = srv.seq + 1
    BY <1>1
  <2>2. PICK last \in BOOLEAN : last = (srv.base + seq = Segments)
    OBVIOUS
  <2>3. srv.base + seq \in 1 .. Segments
    BY <1>1, <2>1
  <2> QED BY <2>1, <2>2, <2>3
<1>3. PICK phase \in {"sending", "ack"} :
        phase = IF srv.base + seq = Segments \/ seq = srv.blksize THEN "ack" ELSE srv.phase
  BY <1>1
<1>4. /\ toClient' = Append(toClient, Segment(seq, seg, last))
      /\ srv' = [srv EXCEPT !.seq = seq, !.phase = phase]
      /\ UNCHANGED <<toServer, stored>>
  BY <1>2, <1>3 DEF SendSegment
<1>5. srv'.phase = phase
  BY <1>1, <1>4 DEF ServerStates
<1>6. Segment(seq, seg, last) \in TrueResponses /\ Segment(seq, seg, last).kind = "segment"
  BY ResponseTypes DEF Segment
<1>7. toClient' \in Seq(Confirmed)
  BY <1>4, <1>6, AnswersAppended
<1>8. ~Unused /\ toServer' \in Seq(NotInits)
  <2>1. srv # Idle
    BY <1>1, IdleTypes
  <2>2. ~Unused
    BY <2>1 DEF WholeInv, OnceInv
  <2>3. toServer \in Seq(NotInits)
    BY <1>1 DEF WholeInv, InitInv
  <2> QED BY <1>4, <2>2, <2>3
<1> QED BY <1>4, <1>5, <1>7, <1>8, ServerLeaves

\* The device answers the request to begin.
LEMMA OnInitDownloadWhole ==
  ASSUME BlockInv, WholeInv, UNCHANGED <<up, down>>, toServer # <<>>,
         NEW crc \in BOOLEAN, NEW blksize \in BlkSizes, OnInitDownload(crc, blksize)
  PROVE  WholeInv'
<1>1. /\ Head(toServer).kind = "init_download" /\ UNCHANGED stored
      /\ Reply(<<[kind |-> "init_download", crc |-> crc, blksize |-> blksize]>>)
      /\ srv' = [Idle EXCEPT !.phase = "receiving", !.crc = crc, !.blksize = blksize]
  BY DEF OnInitDownload
<1>2. /\ srv'.phase = "receiving" /\ srv'.got = <<>> /\ srv'.seq = 0
      /\ srv'.blksize = blksize
  BY <1>1 DEF Idle
<1>3. toServer \notin Seq(NotInits)
  BY <1>1 DEF NotInits
<1>4. /\ down.pc \in {"init", "idle"} /\ down.outcome # "none" /\ toClient = <<>>
      /\ toServer \in {<<InitRequest>>, <<InitRequest, Abort>>}
  BY <1>3 DEF WholeInv, InitInv
<1>5. toServer' \in Seq(Harmless)
  <2>1. toServer' = Tail(toServer)
    BY <1>1 DEF Reply
  <2>2. Tail(<<InitRequest>>) = <<>> /\ Tail(<<InitRequest, Abort>>) = <<Abort>>
    OBVIOUS
  <2> QED BY <1>4, <2>1, <2>2, HarmlessFrames
<1>6. toServer' \in Seq(NotSegments) /\ toServer' \in Seq(NotInits)
  BY <1>5, SeqMonotonic DEF Harmless
<1>7. PICK f \in TrueResponses :
        f = [kind |-> "init_download", crc |-> crc, blksize |-> blksize]
  BY ResponseTypes
<1>8. toClient' = <<f>> /\ toClient' \in Seq(Confirmed)
  <2>1. toClient' = toClient \o <<f>>
    BY <1>1, <1>7 DEF Reply
  <2>2. f.kind # "end_download"
    BY <1>7
  <2> QED BY <1>4, <2>1, <2>2, AnswersConfirmed
<1>9. InitInv' /\ StreamInv'
  BY <1>6 DEF InitInv, WholeInv, StreamInv
<1>10. OnceInv'
  BY <1>4 DEF WholeInv, OnceInv, Unused
<1>11. StoredInv'
  <2>1. Confirmed' = Confirmed
    BY <1>1 DEF Confirmed
  <2> QED BY <1>1, <1>2, <1>8, <2>1 DEF WholeInv, StoredInv, DownloadStoresWhole
<1>12. ReceivingInv'
  <2>1. Len(srv'.got) = 0 /\ 0 <= Segments
    BY <1>2, BlockAssumption
  <2>2. /\ toServer' \in Seq(Fitting(srv'.seq, Len(srv'.got)))
        /\ EndsLast(toServer', srv'.blksize)
    BY <1>2, <1>6, <2>1, NoSegmentsFit, NoSegmentsEnd
  <2>3. toClient' = <<InitAnswer(crc)'>>
    BY <1>2, <1>7, <1>8 DEF InitAnswer
  <2>4. \A i \in 1 .. Len(srv'.got) : srv'.got[i] = i
    BY <2>1
  <2>5. down'.pc \in {"init", "idle"}
    BY <1>4
  <2> QED BY <1>2, <1>6, <2>1, <2>2, <2>3, <2>4, <2>5 DEF ReceivingInv
<1> QED BY <1>9, <1>10, <1>11, <1>12 DEF WholeInv

\* The server has the first segments of the value.
InOrder(got) == Len(got) <= Segments /\ \A i \in 1 .. Len(got) : got[i] = i

\* What a segment changes: the next one in order is taken, and in any case the server
\* counts from where it counted before.
GotAfter(got, seq, f) == IF f.seq = seq + 1 THEN Append(got, f.seg) ELSE got
SeqAfter(seq, f) == IF f.seq = seq + 1 THEN f.seq ELSE seq

LEMMA SegmentTaken ==
  ASSUME NEW got \in Data, NEW seq \in Nat, NEW f \in Fitting(seq, Len(got)),
         f.kind = "segment", InOrder(got)
  PROVE  /\ GotAfter(got, seq, f) \in Data /\ SeqAfter(seq, f) \in {f.seq, seq}
         /\ SeqAfter(seq, f) \in Nat /\ InOrder(GotAfter(got, seq, f))
         /\ Len(GotAfter(got, seq, f)) + seq = Len(got) + SeqAfter(seq, f)
         /\ f.last /\ f.seq = seq + 1 => GotAfter(got, seq, f) = Value
<1>1. /\ f \in Requests /\ f.seq \in Nat /\ f.seg \in 1 .. Segments /\ f.last \in BOOLEAN
      /\ f.seg + seq = f.seq + Len(got) /\ (f.last => f.seg = Segments)
  BY RequestFields DEF Fitting
<1>2. got \in Seq(1 .. Segments) /\ Segments \in Nat
  BY BlockAssumption DEF Data
<1>3. PICK n \in Nat : n = Len(got)
  BY <1>2, LenProperties
<1>4. PICK next, now : next = GotAfter(got, seq, f) /\ now = SeqAfter(seq, f)
  OBVIOUS
<1>5. CASE f.seq = seq + 1
  <2>1. PICK seg \in 1 .. Segments : seg = f.seg /\ seg = n + 1
    BY <1>1, <1>3, <1>5
  <2>2. next = Append(got, seg) /\ now = seq + 1
    BY <1>4, <1>5, <2>1 DEF GotAfter, SeqAfter
  <2>3. /\ next \in Seq(1 .. Segments) /\ Len(next) = n + 1 /\ next[n + 1] = n + 1
        /\ \A i \in 1 .. n : next[i] = got[i]
    BY <1>2, <1>3, <2>1, <2>2, AppendProperties
  <2>4. \A i \in 1 .. n : next[i] = i
    BY <1>3, <2>3 DEF InOrder
  <2>5. \A i \in 1 .. n + 1 : i \in 1 .. n \/ i = n + 1
    BY <1>3
  <2>6. \A i \in 1 .. n + 1 : next[i] = i
    BY <2>3, <2>4, <2>5
  <2>7. n + 1 <= Segments
    BY <1>2, <2>1
  <2>8. f.last => next = Value
    <3>1. SUFFICES ASSUME f.last
                   PROVE  next = Value
      OBVIOUS
    <3>2. n + 1 = Segments
      BY <1>1, <2>1, <3>1
    <3>3. PICK v \in Seq(1 .. Segments) :
            v = Value /\ Len(v) = Segments /\ \A i \in 1 .. Segments : v[i] = i
      BY ValueTypes DEF Data
    <3>4. \A i \in 1 .. Len(next) : next[i] = v[i]
      BY <2>3, <2>6, <3>2, <3>3
    <3> QED BY <2>3, <3>2, <3>3, <3>4, SeqEqual
  <2>9. now \in Nat /\ now = f.seq /\ Len(next) + seq = n + now
    BY <1>3, <1>5, <2>2, <2>3
  <2>10. InOrder(next) /\ next \in Data
    BY <2>3, <2>6, <2>7 DEF InOrder, Data
  <2> QED BY <1>3, <1>4, <2>8, <2>9, <2>10
<1>6. CASE f.seq # seq + 1
  <2>1. next = got /\ now = seq
    BY <1>4, <1>6 DEF GotAfter, SeqAfter
  <2> QED BY <1>4, <1>6, <2>1
<1> QED BY <1>5, <1>6

\* A segment is received.
LEMMA OnSegmentWhole ==
  ASSUME BlockInv, WholeInv, UNCHANGED <<up, down>>, toServer # <<>>,
         NEW blksize \in BlkSizes, OnSegment(blksize)
  PROVE  WholeInv'
<1>1. /\ srv \in ServerStates /\ srv.seq \in Nat /\ srv.blksize \in BlkSizes
      /\ srv.got \in Data /\ toServer \in Seq(Requests) /\ toClient \in Seq(TrueResponses)
      /\ down.pos \in Nat /\ down.seqno \in Nat /\ Len(srv.got) \in Nat
  BY ServerFields, StreamFields
<1>2. PICK f : f = Head(toServer)
  OBVIOUS
<1>3. f.kind = "segment" /\ srv.phase = "receiving" /\ UNCHANGED stored
  BY <1>2 DEF OnSegment
<1>4. /\ ReceivingInv /\ Len(srv.got) <= Segments
      /\ \A i \in 1 .. Len(srv.got) : srv.got[i] = i
      /\ toServer \in Seq(Fitting(srv.seq, Len(srv.got)))
      /\ EndsLast(toServer, srv.blksize) /\ down.outcome # "none"
  BY <1>3 DEF WholeInv, ReceivingInv, OnceInv
<1>5. f \in Fitting(srv.seq, Len(srv.got)) /\ f \in Requests
  BY <1>1, <1>2, <1>4, HeadTailProperties
<1>6. toServer \notin Seq(NotSegments) /\ f \notin NotSegments
  BY <1>2, <1>3, HeadTailProperties DEF NotSegments
<1>7. PICK got : got = GotAfter(srv.got, srv.seq, f)
  OBVIOUS
<1>8. PICK seq : seq = SeqAfter(srv.seq, f)
  OBVIOUS
<1>9. /\ got \in Data /\ seq \in Nat /\ seq \in {f.seq, srv.seq}
      /\ InOrder(got) /\ Len(got) + srv.seq = Len(srv.got) + seq
      /\ f.last /\ f.seq = srv.seq + 1 => got = Value
  <2>1. InOrder(srv.got)
    BY <1>4 DEF InOrder
  <2> QED BY <1>1, <1>3, <1>5, <1>7, <1>8, <2>1, SegmentTaken
<1>10. PICK n \in Nat : n = Len(got)
  BY <1>9 DEF Data
<1>11. toServer' = Tail(toServer) /\ toServer' \in Seq(NotInits) /\ ~Unused
  <2>1. toServer' = Tail(toServer)
    BY DEF OnSegment, Reply
  <2> QED BY <2>1, TakenRequest
<1>12. InitInv' /\ StreamInv'
  BY <1>11 DEF InitInv, WholeInv, StreamInv
<1>13. OnceInv'
  BY <1>4, <1>11 DEF WholeInv, OnceInv, Unused
<1>14. Confirmed' = Confirmed /\ DownloadStoresWhole'
  BY <1>3 DEF Confirmed, WholeInv, StoredInv, DownloadStoresWhole
\* Where the stream is: it waits, or writes a block that goes on.
<1>15. /\ down.pc # "init"
       /\ down.pc = "write" \/ down.pc = "ack" =>
            toClient = <<>> /\ SamePlace /\ f.seq <= down.seqno /\ srv.seq <= down.seqno
  <2>1. down.pc # "init"
    BY <1>4, <1>6 DEF ReceivingInv
  <2>2. ASSUME down.pc = "write" \/ down.pc = "ack"
        PROVE  toClient = <<>> /\ SamePlace /\ f.seq <= down.seqno /\ srv.seq <= down.seqno
    <3>1. toClient = <<>> /\ SamePlace
      BY <1>4, <1>6, <2>2 DEF ReceivingInv, Unanswered, Answered
    <3>2. toServer \in Seq(UpTo(down.seqno)) /\ srv.seq <= down.seqno
      BY <1>4, <2>2 DEF ReceivingInv
    <3>3. f \in UpTo(down.seqno)
      BY <1>2, <3>2, HeadTailProperties
    <3> QED BY <1>3, <3>1, <3>2, <3>3 DEF UpTo
  <2> QED BY <2>1, <2>2
\* The stream counts as before from where the server is now.
<1>16. ASSUME down.pc = "write" \/ down.pc = "ack"
       PROVE  down.pos + seq = down.seqno + n /\ seq <= down.seqno
  <2>1. PICK pos \in Nat, seqno \in Nat, m \in Nat, old \in Nat :
          pos = down.pos /\ seqno = down.seqno /\ m = Len(srv.got) /\ old = srv.seq
    BY <1>1
  <2>2. pos + old = seqno + m /\ n + old = m + seq
    BY <1>9, <1>10, <1>15, <1>16, <2>1 DEF SamePlace
  <2>3. pos + seq = seqno + n
    BY <1>9, <2>2
  <2>4. seq <= down.seqno
    BY <1>9, <1>15, <1>16
  <2> QED BY <2>1, <2>3, <2>4
<1>17. CASE f.last \/ f.seq = srv.blksize
  <2>1. PICK phase :
          phase = IF f.last /\ f.seq = srv.seq + 1 THEN "complete" ELSE srv.phase
    OBVIOUS
  <2>2. /\ Reply(<<Ack(seq, blksize)>>)
        /\ srv' = [srv EXCEPT !.got = got, !.seq = 0, !.blksize = blksize, !.phase = phase]
    BY <1>2, <1>7, <1>8, <1>17, <2>1 DEF OnSegment, GotAfter, SeqAfter
  <2>3. /\ srv'.got = got /\ srv'.seq = 0 /\ srv'.blksize = blksize /\ srv'.phase = phase
    BY <1>1, <2>2 DEF ServerStates
  <2>4. Head(toServer) \notin WithinBlock(srv.blksize)
    BY <1>2, <1>3, <1>17 DEF WithinBlock
  <2>5. toServer' \in Seq(NotSegments)
    BY <1>1, <1>4, <1>11, <2>4, NothingAfterEnd
  <2>6. PICK a \in TrueResponses : a = Ack(seq, blksize) /\ a.kind = "ack"
    BY <1>9, ResponseTypes DEF Ack
  <2>7. toClient' = toClient \o <<a>> /\ toClient' \in Seq(Confirmed)
    BY <2>2, <2>6, AnswersConfirmed DEF Reply
  <2>8. StoredInv'
    BY <1>3, <1>9, <1>14, <2>1, <2>3, <2>7 DEF StoredInv
  <2>9. ASSUME phase = "receiving"
        PROVE  ReceivingInv'
    <3>1. /\ toServer' \in Seq(Fitting(srv'.seq, Len(srv'.got)))
          /\ EndsLast(toServer', srv'.blksize) /\ toServer' \in Seq(UpTo(down.seqno))
      BY <1>1, <1>10, <2>3, <2>5, NoSegmentsFit, NoSegmentsEnd
    <3>2. down.pc # "write"
      <4>1. ~(toServer \in Seq(WithinBlock(srv.blksize)))
        BY <2>4, HeadTailProperties
      <4> QED BY <1>4, <4>1 DEF ReceivingInv
    <3>3. ASSUME down.pc = "ack"
          PROVE  Answered' /\ srv'.seq <= down.seqno
      <4>1. toClient' = <<Ack(seq, srv'.blksize)>>
        <5>1. <<a>> \in Seq(TrueResponses)
          OBVIOUS
        <5> QED BY <1>15, <2>3, <2>6, <2>7, <3>3, <5>1, ConcatEmptySeq
      <4>2. seq <= down'.seqno /\ down'.pos + seq = down'.seqno + Len(srv'.got)
        BY <1>10, <1>16, <2>3, <3>3
      <4> QED BY <1>1, <1>9, <2>3, <2>5, <4>1, <4>2 DEF Answered
    <3>4. Len(srv'.got) <= Segments /\ \A i \in 1 .. Len(srv'.got) : srv'.got[i] = i
      BY <1>9, <2>3 DEF InOrder
    <3> QED BY <1>15, <3>1, <3>2, <3>3, <3>4 DEF ReceivingInv
  <2> QED BY <1>12, <1>13, <2>3, <2>8, <2>9 DEF WholeInv
<1>18. CASE ~(f.last \/ f.seq = srv.blksize)
  <2>1. Reply(<<>>) /\ srv' = [srv EXCEPT !.got = got, !.seq = seq]
    BY <1>2, <1>7, <1>8, <1>18 DEF OnSegment, GotAfter, SeqAfter
  <2>2. /\ srv'.got = got /\ srv'.seq = seq /\ srv'.blksize = srv.blksize
        /\ srv'.phase = "receiving"
    BY <1>1, <1>3, <2>1 DEF ServerStates
  <2>3. toClient' = toClient
    BY <1>1, <2>1, ConcatEmptySeq DEF Reply
  <2>4. StoredInv'
    BY <1>14, <2>2, <2>3 DEF WholeInv, StoredInv
  <2>5. toServer' \in Seq(Fitting(srv'.seq, Len(srv'.got)))
    <3>1. ASSUME NEW g \in Fitting(srv.seq, Len(srv.got))
          PROVE  g \in Fitting(seq, n)
      <4>1. PICK m \in Nat, old \in Nat : m = Len(srv.got) /\ old = srv.seq
        BY <1>1
      <4>2. n + old = m + seq
        BY <1>9, <1>10, <4>1
      <4>3. g \in Requests /\ (g.kind = "segment" => g.seg + old = g.seq + m)
        BY <3>1, <4>1 DEF Fitting
      <4>4. g.kind = "segment" => g.seg \in Nat /\ g.seq \in Nat
        BY <4>3, RequestFields, BlockAssumption
      <4>5. ASSUME g.kind = "segment"
            PROVE  g.seg + seq = g.seq + n
        <5>1. PICK seg \in Nat, place \in Nat, now \in Nat :
                seg = g.seg /\ place = g.seq /\ now = seq
          BY <1>9, <4>4, <4>5
        <5>2. seg + old = place + m /\ n + old = m + now
          BY <4>2, <4>3, <4>5, <5>1
        <5>3. seg + now = place + n
          BY <5>2
        <5> QED BY <5>1, <5>3
      <4> QED BY <3>1, <4>3, <4>5 DEF Fitting
    <3>2. toServer \in Seq(Fitting(seq, n))
      BY <1>4, <3>1, SeqMonotonic
    <3> QED BY <1>10, <1>11, <2>2, <3>2, RestTypes
  <2>6. EndsLast(toServer', srv'.blksize)
    BY <1>1, <1>4, <1>11, <2>2, EndsLastTail
  <2>7. Len(srv'.got) <= Segments /\ \A i \in 1 .. Len(srv'.got) : srv'.got[i] = i
    BY <1>9, <2>2 DEF InOrder
  <2>8. ASSUME down.pc = "write" \/ down.pc = "ack"
        PROVE  /\ toClient' = <<>> /\ SamePlace' /\ srv'.seq <= down'.seqno
               /\ toServer' \in Seq(UpTo(down'.seqno))
    <3>1. toServer \in Seq(UpTo(down.seqno))
      BY <1>4, <2>8 DEF ReceivingInv
    <3>2. toServer' \in Seq(UpTo(down'.seqno))
      BY <1>11, <3>1, RestTypes
    <3> QED BY <1>10, <1>15, <1>16, <2>2, <2>3, <2>8, <3>2 DEF SamePlace
  <2>9. ASSUME down.pc = "write"
        PROVE  down'.blksize = srv'.blksize /\ toServer' \in Seq(WithinBlock(srv'.blksize))
    <3>1. down.blksize = srv.blksize /\ toServer \in Seq(WithinBlock(srv.blksize))
      BY <1>4, <2>9 DEF ReceivingInv
    <3> QED BY <1>11, <2>2, <3>1, RestTypes
  <2>10. ReceivingInv'
    BY <1>15, <2>5, <2>6, <2>7, <2>8, <2>9 DEF ReceivingInv, Unanswered
  <2> QED BY <1>12, <1>13, <2>2, <2>4, <2>10 DEF WholeInv
<1> QED BY <1>17, <1>18

\* The value is stored.
LEMMA OnEndDownloadWhole ==
  ASSUME BlockInv, WholeInv, UNCHANGED <<up, down>>, toServer # <<>>, OnEndDownload
  PROVE  WholeInv'
<1>1. /\ srv.phase = "complete" /\ srv' = Idle /\ stored' = srv.got
      /\ Reply(<<[kind |-> "end_download"]>>)
  BY DEF OnEndDownload
<1>2. stored' = Value /\ down.outcome # "none"
  BY <1>1 DEF WholeInv, StoredInv, OnceInv
<1>3. PICK f \in TrueResponses : f = [kind |-> "end_download"]
  BY ResponseTypes
<1>4. toClient' \in Seq(Confirmed')
  <2>1. toClient' = toClient \o <<f>>
    BY <1>1, <1>3 DEF Reply
  <2>2. toClient \in Seq(TrueResponses) /\ <<f>> \in Seq(TrueResponses)
    BY ServerFields
  <2>3. toClient' \in Seq(TrueResponses)
    BY <2>1, <2>2, ChainTypes
  <2>4. TrueResponses \subseteq Confirmed'
    BY <1>2 DEF TrueResponses, Confirmed
  <2> QED BY <2>3, <2>4, SeqMonotonic
<1>5. ~Unused /\ toServer' \in Seq(NotInits)
  BY <1>1, TakenRequest DEF Reply
<1>6. InitInv' /\ StreamInv'
  BY <1>5 DEF InitInv, WholeInv, StreamInv
<1>7. OnceInv'
  BY <1>2, <1>5 DEF WholeInv, OnceInv, Unused
<1>8. srv'.phase = "idle"
  BY <1>1, IdleTypes
<1>9. StoredInv'
  BY <1>2, <1>4, <1>8 DEF StoredInv, DownloadStoresWhole
<1> QED BY <1>6, <1>7, <1>8, <1>9 DEF WholeInv

\* The other requests: the server is idle or in an upload.
LEMMA OtherRequestsWhole ==
  ASSUME BlockInv, WholeInv, UNCHANGED <<up, down>>, toServer # <<>>,
         \/ \E crc \in CrcChoices : OnInitUpload(crc)
         \/ OnStartUpload \/ OnAck \/ OnEndUpload \/ OnAbort \/ OnUnexpected
  PROVE  WholeInv'
<1>1. ~Unused /\ Tail(toServer) \in Seq(NotInits)
  BY TakenRequest
<1>2. srv \in ServerStates /\ toClient \in Seq(TrueResponses) /\ CrcChoices \subseteq BOOLEAN
  BY ServerFields, CrcAssumption
<1>3. Idle.phase = "idle" /\ Idle \in ServerStates
  BY IdleTypes
<1>4. srv'.phase \in {"start", "sending", "ending", "idle"} /\ UNCHANGED stored
  <2>1. CASE \E crc \in CrcChoices : OnInitUpload(crc)
    BY <1>3, <2>1 DEF OnInitUpload, ServerStates
  <2>2. CASE OnStartUpload
    BY <1>2, <2>2 DEF OnStartUpload, ServerStates
  <2>3. CASE OnAck
    <3>1. /\ UNCHANGED stored
          /\ \/ srv' = [srv EXCEPT !.phase = "ending"]
             \/ \E acked, blksize : srv' = [srv EXCEPT !.phase = "sending", !.base = acked,
                                                     !.seq = 0, !.blksize = blksize]
      BY <2>3 DEF OnAck
    <3> QED BY <1>2, <3>1 DEF ServerStates
  <2>4. CASE OnEndUpload \/ OnAbort \/ OnUnexpected
    BY <1>3, <2>4 DEF OnEndUpload, OnAbort, OnUnexpected
  <2> QED BY <2>1, <2>2, <2>3, <2>4
<1>5. /\ toServer' = Tail(toServer)
      /\ \/ toClient' = toClient \o <<>>
         \/ \E f \in TrueResponses : f.kind # "end_download" /\ toClient' = toClient \o <<f>>
  <2>1. CASE \E crc \in CrcChoices : OnInitUpload(crc)
    <3>1. PICK crc \in BOOLEAN : Reply(<<[kind |-> "init_upload", crc |-> crc]>>)
      BY <1>2, <2>1 DEF OnInitUpload
    <3>2. PICK f \in TrueResponses :
            f = [kind |-> "init_upload", crc |-> crc] /\ f.kind # "end_download"
      BY ResponseTypes
    <3> QED BY <3>1, <3>2 DEF Reply
  <2>2. CASE OnAck
    <3>1. Reply(<<>>) \/ Reply(<<[kind |-> "end_upload", crc |-> Value]>>)
      BY <2>2 DEF OnAck
    <3>2. PICK f \in TrueResponses :
            f = [kind |-> "end_upload", crc |-> Value] /\ f.kind # "end_download"
      BY ResponseTypes
    <3> QED BY <3>1, <3>2 DEF Reply
  <2>3. CASE OnStartUpload \/ OnEndUpload \/ OnAbort \/ OnUnexpected
    <3>1. Reply(<<>>) \/ Reply(<<Abort>>)
      BY <2>3 DEF OnStartUpload, OnEndUpload, OnAbort, OnUnexpected
    <3>2. Abort \in TrueResponses /\ Abort.kind # "end_download"
      BY ResponseTypes DEF Abort
    <3> QED BY <3>1, <3>2 DEF Reply
  <2> QED BY <2>1, <2>2, <2>3
<1>6. toClient' \in Seq(Confirmed)
  <2>1. toClient \o <<>> \in Seq(Confirmed)
    BY ConcatEmptySeq DEF WholeInv, StoredInv
  <2> QED BY <1>5, <2>1, AnswersConfirmed
<1> QED BY <1>1, <1>4, <1>5, <1>6, ServerLeaves

LEMMA ServerStepsWhole ==
  ASSUME BlockInv, WholeInv, UNCHANGED <<up, down>>, ServerStep
  PROVE  WholeInv'
<1>1. CrcChoices \subseteq BOOLEAN
  BY CrcAssumption
<1> QED BY <1>1, SendSegmentWhole, OnInitDownloadWhole, OnSegmentWhole, OnEndDownloadWhole,
           OtherRequestsWhole DEF ServerStep, OnRequest

LEMMA GiveUpWhole ==
  ASSUME BlockInv, WholeInv, UNCHANGED <<up, down>>, GiveUp
  PROVE  WholeInv'
<1>1. toClient' = Append(toClient, Abort) /\ srv' = Idle /\ UNCHANGED stored
  BY DEF GiveUp
<1>2. toClient' \in Seq(Confirmed)
  BY <1>1, ResponseTypes, AnswersAppended DEF Abort
<1>3. srv'.phase = "idle"
  BY <1>1, IdleTypes
<1>4. ~Unused /\ toServer' \in Seq(NotInits)
  <2>1. CASE toServer = <<>>
    <3>1. srv.phase # "idle" /\ toServer' = toServer
      BY <2>1 DEF GiveUp
    <3>2. srv # Idle
      BY <3>1, IdleTypes
    <3> QED BY <2>1, <3>1, <3>2, UploadFrames DEF WholeInv, OnceInv
  <2>2. CASE toServer # <<>>
    BY <2>2, TakenRequest DEF GiveUp
  <2> QED BY <2>1, <2>2
<1> QED BY <1>1, <1>2, <1>3, <1>4, ServerLeaves

-----------------------------------------------------------------------------
\* Frames that are lost.

LEMMA RequestLost ==
  ASSUME BlockInv, WholeInv, UNCHANGED <<up, down, srv, stored, toClient>>,
         toServer # <<>>, toServer' = Tail(toServer)
  PROVE  WholeInv'
<1>1. ~Unused /\ toServer' \in Seq(NotInits)
  BY TakenRequest
<1>2. InitInv' /\ StreamInv' /\ OnceInv'
  BY <1>1 DEF InitInv, WholeInv, StreamInv, OnceInv, Unused
<1>3. StoredInv'
  <2>1. Confirmed' = Confirmed
    BY DEF Confirmed
  <2> QED BY <2>1 DEF WholeInv, StoredInv, DownloadStoresWhole
<1>4. ASSUME srv.phase = "receiving"
      PROVE  ReceivingInv'
  <2>1. ReceivingInv
    BY <1>4 DEF WholeInv
  <2>2. EndsLast(toServer', srv.blksize)
    BY <2>1, ServerFields, EndsLastTail DEF ReceivingInv
  <2>3. \A S : toServer \in Seq(S) => toServer' \in Seq(S)
    BY RestTypes
  <2>4. /\ toServer' \in Seq(Fitting(srv.seq, Len(srv.got)))
        /\ down.pc = "init" => toServer' \in Seq(NotSegments)
        /\ down.pc = "write" => toServer' \in Seq(WithinBlock(srv.blksize))
        /\ down.pc \in {"write", "ack"} => toServer' \in Seq(UpTo(down.seqno))
    BY <2>1, <2>3 DEF ReceivingInv
  <2>5. down.pc = "ack" => Unanswered' \/ Answered'
    BY <2>1, <2>3 DEF ReceivingInv, Unanswered, Answered, SamePlace
  <2> QED BY <2>1, <2>2, <2>4, <2>5 DEF ReceivingInv, InitAnswer, SamePlace
<1> QED BY <1>2, <1>3, <1>4 DEF WholeInv

LEMMA ResponseLost ==
  ASSUME BlockInv, WholeInv, UNCHANGED <<up, down, srv, stored, toServer>>,
         toClient # <<>>, toClient' = Tail(toClient)
  PROVE  WholeInv'
<1>1. InitInv' /\ StreamInv' /\ OnceInv'
  BY DEF InitInv, WholeInv, StreamInv, OnceInv, Unused
<1>2. StoredInv'
  <2>1. Confirmed' = Confirmed
    BY DEF Confirmed
  <2> QED BY <2>1, ConfirmedTaken DEF WholeInv, StoredInv, DownloadStoresWhole
<1>3. ASSUME srv.phase = "receiving"
      PROVE  ReceivingInv'
  <2>1. ReceivingInv
    BY <1>3 DEF WholeInv
  <2>2. down.pc # "write"
    BY <2>1 DEF ReceivingInv
  <2>3. ASSUME down.pc = "init"
        PROVE  toClient' = <<>>
    <3>1. PICK crc \in BOOLEAN : toClient = <<InitAnswer(crc)>>
      BY <2>1, <2>3 DEF ReceivingInv
    <3>2. PICK f : f = InitAnswer(crc)
      OBVIOUS
    <3>3. Tail(<<f>>) = <<>>
      OBVIOUS
    <3> QED BY <3>1, <3>2, <3>3
  <2>4. ASSUME down.pc = "ack"
        PROVE  Unanswered'
    <3>1. Answered
      BY <2>1, <2>4 DEF ReceivingInv, Unanswered
    <3> QED BY <3>1 DEF Answered, Unanswered
  <2> QED BY <2>1, <2>2, <2>3, <2>4 DEF ReceivingInv
<1> QED BY <1>1, <1>2, <1>3 DEF WholeInv

LEMMA LoseWhole ==
  ASSUME BlockInv, WholeInv, Lose
  PROVE  WholeInv'
<1>1. /\ UNCHANGED <<up, down, srv, stored>>
      /\ \/ toServer # <<>> /\ toServer' = Tail(toServer) /\ UNCHANGED toClient
         \/ toClient # <<>> /\ toClient' = Tail(toClient) /\ UNCHANGED toServer
  BY DEF Lose, LoseRequest, LoseResponse, serverVars
<1> QED BY <1>1, RequestLost, ResponseLost

-----------------------------------------------------------------------------
\* The whole transfer.

LEMMA BeginTransferWhole ==
  ASSUME BlockInv, WholeInv, BeginTransfer
  PROVE  WholeInv'
<1>1. /\ toServer = <<>> /\ toClient = <<>> /\ srv = Idle /\ down = FreshDownload
      /\ up.pc = "idle" /\ up.outcome = "none" /\ down.outcome = "none"
  BY DEF BeginTransfer, Unused, WholeInv, OnceInv, StreamInv
<1>2. UNCHANGED <<srv, stored, toClient>> /\ srv.phase = "idle"
  BY <1>1, IdleTypes DEF BeginTransfer, BeginUpload, BeginDownload, serverVars
<1>3. CASE BeginUpload /\ UNCHANGED down
  <2>1. /\ toServer' = <<>> \o <<[kind |-> "init_upload"]>>
        /\ up' = [up EXCEPT !.pc = "init", !.outcome = "running"]
    BY <1>1, <1>3 DEF BeginUpload, SendToServer
  <2>2. <<[kind |-> "init_upload"]>> \in Seq(NotInits)
    BY RequestTypes DEF NotInits
  <2>3. toServer' \in Seq(NotInits)
    BY <2>1, <2>2, UploadFrames, ChainTypes
  <2>4. up'.outcome = "running"
    <3>1. up \in Uploads
      BY DEF BlockInv, UploadInv, UploadTypeOK
    <3> QED BY <2>1, <3>1 DEF Uploads
  <2>5. InitInv' /\ StreamInv'
    BY <1>3, <2>3 DEF InitInv, WholeInv, StreamInv
  <2>6. OnceInv'
    BY <1>1, <1>2, <1>3, <2>4 DEF OnceInv, Unused
  <2>7. StoredInv'
    <3>1. Confirmed' = Confirmed
      BY <1>2 DEF Confirmed
    <3> QED BY <1>2, <1>3, <3>1 DEF WholeInv, StoredInv, DownloadStoresWhole
  <2> QED BY <1>2, <2>5, <2>6, <2>7 DEF WholeInv
<1>4. CASE BeginDownload /\ UNCHANGED up
  <2>1. /\ toServer' = <<>> \o <<InitRequest>>
        /\ down' = [FreshDownload EXCEPT !.pc = "init", !.outcome = "running"]
    BY <1>1, <1>4 DEF BeginDownload, SendToServer, InitRequest
  <2>2. toServer' = <<InitRequest>>
    <3>1. <<InitRequest>> \in Seq({InitRequest})
      OBVIOUS
    <3> QED BY <2>1, <3>1, ConcatEmptySeq
  <2>3. /\ down'.pc = "init" /\ down'.outcome = "running" /\ down'.pos = 0
        /\ down'.seqno = 0 /\ down'.block = <<>> /\ down'.todo = <<Value>>
    BY <2>1 DEF FreshDownload
  <2>4. InitInv' /\ StreamInv'
    BY <1>1, <1>2, <2>2, <2>3 DEF InitInv, StreamInv, InitRequest
  <2>5. OnceInv'
    BY <1>1, <1>4, <2>3 DEF OnceInv, Unused
  <2>6. StoredInv'
    <3>1. Confirmed' = Confirmed
      BY <1>2 DEF Confirmed
    <3> QED BY <1>2, <2>3, <3>1 DEF WholeInv, StoredInv, DownloadStoresWhole
  <2> QED BY <1>2, <2>4, <2>5, <2>6 DEF WholeInv
<1> QED BY <1>3, <1>4 DEF BeginTransfer

LEMMA WholeInit ==
  ASSUME Init
  PROVE  WholeInv
<1> USE DEF Init, ChannelInit, ServerInit, UploadInit, DownloadInit
<1>1. srv.phase = "idle"
  BY IdleTypes
<1>2. InitInv
  BY UploadFrames DEF InitInv
<1>3. StreamInv
  BY DEF StreamInv, FreshDownload
<1>4. OnceInv
  BY <1>1 DEF OnceInv, FreshUpload
<1>5. StoredInv
  BY <1>1 DEF StoredInv, DownloadStoresWhole, FreshDownload
<1> QED BY <1>1, <1>2, <1>3, <1>4, <1>5 DEF WholeInv

LEMMA WholeNext ==
  ASSUME BlockInv, WholeInv, [Next]_vars
  PROVE  WholeInv'
<1>1. CASE BeginTransfer
  BY <1>1, BeginTransferWhole
<1>2. CASE UploadClient
  BY <1>2, UploadLeavesWhole DEF UploadClient
<1>3. CASE DownloadClient
  BY <1>3, DownloadStepsWhole DEF DownloadClient
<1>4. CASE WaitInVain \/ WaitTooShort
  BY <1>4, UploadLeavesWhole, DownloadTroublesWhole DEF WaitInVain, WaitTooShort, TimesOut
<1>5. CASE SendFails
  BY <1>5, UploadLeavesWhole, DownloadTroublesWhole DEF SendFails
<1>6. CASE Server
  BY <1>6, ServerStepsWhole, GiveUpWhole DEF Server
<1>7. CASE Lose
  BY <1>7, LoseWhole
<1>8. CASE UNCHANGED vars
  <2>1. UNCHANGED <<up, down, toServer, toClient, srv, stored>>
    BY <1>8 DEF vars, channelVars, serverVars
  <2>2. InitInv' /\ StreamInv' /\ OnceInv'
    BY <2>1 DEF InitInv, WholeInv, StreamInv, OnceInv, Unused
  <2>3. StoredInv'
    <3>1. Confirmed' = Confirmed
      BY <2>1 DEF Confirmed
    <3> QED BY <2>1, <3>1 DEF WholeInv, StoredInv, DownloadStoresWhole
  <2>4. srv.phase = "receiving" => ReceivingInv'
    BY <2>1 DEF WholeInv, ReceivingInv, Unanswered, Answered, SamePlace, InitAnswer
  <2> QED BY <2>1, <2>2, <2>3, <2>4 DEF WholeInv
<1> QED BY <1>1, <1>2, <1>3, <1>4, <1>5, <1>6, <1>7, <1>8 DEF Next

\* A download stores the whole value or nothing, and the client is told "ok" only if it
\* is stored, with or without a CRC: client and server count from the same place, so the
\* server takes the segments of the value in order, however often a block is repeated
\* (BlockDownloadStream._retransmit and close).
THEOREM DownloadsAreWhole == Spec => []DownloadStoresWhole
<1>1. Init => BlockInv /\ WholeInv
  BY BlockInit, WholeInit
<1>2. BlockInv /\ WholeInv /\ [Next]_vars => (BlockInv /\ WholeInv)'
  BY BlockNext, WholeNext
<1>3. WholeInv => DownloadStoresWhole
  BY DEF WholeInv, StoredInv
<1> QED BY <1>1, <1>2, <1>3, PTL DEF Spec

-----------------------------------------------------------------------------
\* One gap is repaired.  If nothing went wrong but that one segment was lost, each of
\* the following stages of a transfer leads to another one of them.

Repairable == {<<>>, <<"segment">>}

\* The segments of the value behind the from-th, up to the to-th.
Part(from, to) == [i \in 1 .. (to - from) |-> from + i]

NextSegment(seq, pos) == Segment(seq, pos, pos = Segments)

\* What is left of a block that was given up: no first segment of another one.
IsStale(f) == f.kind = "segment" /\ f.seq >= 2

\* Stale segments, then those behind number seq, which are the ones of the value behind
\* the pos-th.
Comes(frames, stale, seq, pos) ==
  \A i \in 1 .. Len(frames) :
    IF i <= stale THEN IsStale(frames[i])
    ELSE frames[i] = NextSegment(seq + (i - stale), pos + (i - stale))

IsRun(frames, seq, pos) == Comes(frames, 0, seq, pos)

\* Of an upload.  The stream and the server have not begun to count.
ReadNothing == up.result = <<>> /\ up.ackseq = 0 /\ srv.base = 0 /\ srv.seq = 0

AskedToUpload ==
  up.pc = "init" /\ toServer = <<[kind |-> "init_upload"]>> /\ toClient = <<>>
  /\ srv.phase = "idle" /\ ReadNothing

ToldToStart ==
  /\ up.pc = "init" /\ toServer = <<>> /\ srv.phase = "start" /\ srv.blksize = MaxBlkSize
  /\ \E crc \in BOOLEAN : toClient = <<[kind |-> "init_upload", crc |-> crc]>>
  /\ ReadNothing

Starts ==
  /\ up.pc = "read" /\ toServer = <<[kind |-> "start_upload"]>> /\ toClient = <<>>
  /\ srv.phase = "start" /\ srv.blksize = MaxBlkSize /\ ReadNothing

\* The server sends until its block is full or the value is sent.
SendsBlock ==
  /\ srv.phase \in {"sending", "ack"} /\ srv.blksize = MaxBlkSize /\ srv.seq <= MaxBlkSize
  /\ srv.phase = "sending" <=> srv.seq < MaxBlkSize /\ srv.base + srv.seq < Segments

HasRead(number) == up.result = Part(0, number) /\ number < Segments

\* What comes are the next segments, behind stale ones after a retransmission.
ReadsBlock ==
  /\ up.pc \in {"read", "resync"} /\ toServer = <<>> /\ SendsBlock
  /\ HasRead(srv.base + up.ackseq)
  /\ up.pc = "resync" => up.ackseq = 0 /\ trouble = <<"segment">>
  /\ srv.phase = "ack" => up.ackseq < srv.seq
  /\ \E stale \in 0 .. Len(toClient) :
       /\ Len(toClient) - stale = srv.seq - up.ackseq
       /\ stale > 0 => up.pc = "resync"
       /\ Comes(toClient, stale, up.ackseq, srv.base + up.ackseq)

\* The next segment is lost, and another one will come behind it.
MissesSegment ==
  /\ up.pc = "read" /\ toServer = <<>> /\ SendsBlock /\ trouble = <<"segment">>
  /\ HasRead(srv.base + up.ackseq)
  /\ up.ackseq + 1 < MaxBlkSize /\ srv.base + up.ackseq + 1 < Segments
  /\ Len(toClient) + up.ackseq + 1 = srv.seq
  /\ IsRun(toClient, up.ackseq + 1, srv.base + up.ackseq + 1)

\* It has been asked for again; the rest of the block is on its way.
AsksAgain ==
  /\ up.pc = "resync" /\ up.ackseq = 0 /\ SendsBlock /\ trouble = <<"segment">>
  /\ \E seq \in 0 .. srv.seq - 1 :
       toServer = <<Ack(seq, MaxBlkSize)>> /\ HasRead(srv.base + seq)
  /\ Comes(toClient, Len(toClient), 0, 0)

HasReadAll == up.result = Part(0, Segments - 1) /\ up.tail = <<Segments>>

Acknowledges ==
  /\ srv.phase = "ack" /\ srv.blksize = MaxBlkSize /\ up.ackseq = 0 /\ toClient = <<>>
  /\ toServer = <<Ack(srv.seq, MaxBlkSize)>>
  /\ IF srv.base + srv.seq = Segments THEN up.pc = "end" /\ HasReadAll
     ELSE up.pc = "read" /\ HasRead(srv.base + srv.seq)

ToldTheEnd ==
  /\ up.pc = "end" /\ HasReadAll /\ srv.phase = "ending" /\ toServer = <<>>
  /\ toClient = <<[kind |-> "end_upload", crc |-> Value]>>

WillClose ==
  /\ up.pc = "close" /\ up.result = Value /\ srv.phase = "ending"
  /\ toServer = <<>> /\ toClient = <<>>

Uploading ==
  \/ AskedToUpload \/ ToldToStart \/ Starts \/ ReadsBlock \/ MissesSegment \/ AsksAgain
  \/ Acknowledges \/ ToldTheEnd \/ WillClose

UploadRepaired ==
  /\ down = FreshDownload /\ ~up.timedOut
  /\ \/ up.outcome = "running" /\ Uploading
     \/ up.outcome = "ok" /\ up.pc = "idle" /\ up.result = Value

\* Of a download.  The writes that are under way; a retransmission ends at the limit.
Writes(limit) ==
  /\ limit \in down.pos .. Segments /\ down.digest = Part(0, limit)
  /\ IF down.retransmitting
     THEN /\ trouble = <<"segment">>
          /\ down.todo = <<Part(down.pos, limit), Part(limit, Segments)>>
     ELSE limit = down.pos /\ down.todo = <<Part(down.pos, Segments)>>

\* The block that is written, and what was received.
InBlock ==
  /\ down.seqno <= down.pos /\ down.block = Part(down.pos - down.seqno, down.pos)
  /\ \E limit \in 0 .. Segments : Writes(limit)
  /\ down.done <=> down.pos = Segments

Received(number) == number <= Segments /\ srv.got = Part(0, number)

\* A block ends with its last segment or with the last one of the value.
BlockGoesOn ==
  IF down.pc = "write"
  THEN down.seqno < srv.blksize /\ down.blksize = srv.blksize /\ ~down.done
  ELSE /\ down.pc = "ack" /\ down.seqno <= srv.blksize /\ down.blksize = down.seqno
       /\ toServer # <<>> /\ (down.done \/ down.seqno = srv.blksize)

AskedToDownload ==
  /\ down = [FreshDownload EXCEPT !.pc = "init", !.outcome = "running"]
  /\ toServer = <<[kind |-> "init_download"]>> /\ toClient = <<>> /\ srv.phase = "idle"

ToldToWrite ==
  /\ down = [FreshDownload EXCEPT !.pc = "init", !.outcome = "running"]
  /\ srv.phase = "receiving" /\ srv.got = <<>> /\ srv.seq = 0 /\ toServer = <<>>
  /\ \E crc \in BOOLEAN :
       toClient = <<[kind |-> "init_download", crc |-> crc, blksize |-> srv.blksize]>>

\* What is under way are the next segments.
WritesBlock ==
  /\ InBlock /\ BlockGoesOn /\ toClient = <<>> /\ srv.phase = "receiving"
  /\ Received(Len(srv.got))
  /\ srv.seq + Len(toServer) = down.seqno /\ Len(srv.got) + Len(toServer) = down.pos
  /\ IsRun(toServer, srv.seq, Len(srv.got))

\* The next one is lost, and the last one of the block will show it.
SegmentMissed ==
  /\ InBlock /\ BlockGoesOn /\ toClient = <<>> /\ srv.phase = "receiving"
  /\ trouble = <<"segment">> /\ ~down.retransmitting
  /\ Received(Len(srv.got)) /\ down.pos + srv.seq = down.seqno + Len(srv.got)
  /\ down.pos + srv.blksize < Segments + down.seqno /\ srv.seq + 1 < srv.blksize
  /\ srv.seq + 1 + Len(toServer) <= down.seqno
  /\ IsRun(toServer, down.seqno - Len(toServer), down.pos - Len(toServer))

BlockAnswered ==
  /\ InBlock /\ down.pc = "ack" /\ down.blksize = down.seqno
  /\ toServer = <<>> /\ toClient = <<Ack(down.seqno, srv.blksize)>>
  /\ srv.seq = 0 /\ Received(down.pos)
  /\ srv.phase = IF down.done THEN "complete" ELSE "receiving"

GapAnswered ==
  /\ InBlock /\ down.pc = "ack" /\ down.blksize = down.seqno /\ ~down.done
  /\ trouble = <<"segment">> /\ ~down.retransmitting /\ srv.seq = 0
  /\ srv.phase = "receiving" /\ Received(Len(srv.got)) /\ toServer = <<>>
  /\ \E seq \in 0 .. down.seqno - 1 :
       /\ toClient = <<Ack(seq, srv.blksize)>>
       /\ down.pos - down.seqno + seq = Len(srv.got)

IsComplete == srv.phase = "complete" /\ srv.got = Value

AllWritten ==
  /\ InBlock /\ down.pc = "write" /\ down.done /\ IsComplete
  /\ toServer = <<>> /\ toClient = <<>>

WillEnd ==
  down.pc = "close" /\ down.digest = Value /\ IsComplete /\ toServer = <<>> /\ toClient = <<>>

AsksToEnd ==
  /\ down.pc = "end" /\ IsComplete /\ toClient = <<>>
  /\ toServer = <<[kind |-> "end_download", crc |-> Value]>>

ToldItsEnd ==
  /\ down.pc = "end" /\ srv.phase = "idle" /\ toServer = <<>>
  /\ toClient = <<[kind |-> "end_download"]>>

Downloading ==
  \/ AskedToDownload \/ ToldToWrite \/ WritesBlock \/ SegmentMissed \/ BlockAnswered
  \/ GapAnswered \/ AllWritten \/ WillEnd \/ AsksToEnd \/ ToldItsEnd

DownloadRepaired ==
  /\ up = FreshUpload
  /\ \/ down.outcome = "running" /\ Downloading
     \/ down.outcome = "ok" /\ down.pc = "idle"

NotBegun == up = FreshUpload /\ down = FreshDownload /\ srv = Idle /\ ChannelInit

RepairInv == trouble \in Repairable => NotBegun \/ UploadRepaired \/ DownloadRepaired

-----------------------------------------------------------------------------
\* Parts of the value, and segments that come.

LEMMA PartLen ==
  ASSUME NEW from \in Nat, NEW to \in Nat, from <= to
  PROVE  /\ Part(from, to) \in Seq(Nat) /\ Len(Part(from, to)) = to - from
         /\ \A i \in 1 .. to - from : Part(from, to)[i] = from + i
BY DEF Part

LEMMA PartEqual ==
  ASSUME NEW from \in Nat, NEW to \in Nat, from <= to, NEW s \in Seq(Nat),
         Len(s) = to - from, \A i \in 1 .. to - from : s[i] = from + i
  PROVE  s = Part(from, to)
<1>1. /\ Part(from, to) \in Seq(Nat) /\ Len(s) = Len(Part(from, to))
      /\ \A i \in 1 .. Len(s) : s[i] = Part(from, to)[i]
  BY PartLen
<1> QED BY <1>1, SeqEqual

LEMMA PartEnds ==
  /\ Part(0, Segments) = Value
  /\ \A n \in Nat : Part(n, n) = <<>>
<1>1. Part(0, Segments) = Value
  BY BlockAssumption DEF Part, Value
<1>2. ASSUME NEW n \in Nat PROVE Part(n, n) = <<>>
  BY PartLen
<1> QED BY <1>1, <1>2

LEMMA PartTail ==
  ASSUME NEW from \in Nat, NEW to \in Nat, from < to
  PROVE  /\ Part(from, to) # <<>> /\ Head(Part(from, to)) = from + 1
         /\ Tail(Part(from, to)) = Part(from + 1, to)
<1>1. /\ Part(from, to) \in Seq(Nat) /\ Len(Part(from, to)) = to - from
      /\ \A i \in 1 .. to - from : Part(from, to)[i] = from + i
  BY PartLen
<1>2. Part(from, to) # <<>> /\ Head(Part(from, to)) = from + 1
  BY <1>1
<1>3. /\ Tail(Part(from, to)) \in Seq(Nat) /\ Len(Tail(Part(from, to))) = to - (from + 1)
      /\ \A i \in 1 .. to - (from + 1) : Tail(Part(from, to))[i] = from + 1 + i
  BY <1>1, <1>2
<1>4. from + 1 \in Nat /\ from + 1 <= to
  OBVIOUS
<1>5. Tail(Part(from, to)) = Part(from + 1, to)
  BY <1>3, <1>4, PartEqual
<1> QED BY <1>2, <1>5

LEMMA PartAppend ==
  ASSUME NEW from \in Nat, NEW to \in Nat, from <= to
  PROVE  Append(Part(from, to), to + 1) = Part(from, to + 1)
<1> DEFINE part == Part(from, to)
<1>1. /\ part \in Seq(Nat) /\ Len(part) = to - from
      /\ \A i \in 1 .. to - from : part[i] = from + i
  BY PartLen
<1> HIDE DEF part
<1> DEFINE more == Append(part, to + 1)
<1>2. /\ more \in Seq(Nat) /\ Len(more) = Len(part) + 1 /\ more[Len(part) + 1] = to + 1
      /\ \A i \in 1 .. Len(part) : more[i] = part[i]
  BY <1>1
<1> HIDE DEF more
<1>3. ASSUME NEW i \in 1 .. to + 1 - from PROVE more[i] = from + i
  <2>1. CASE i = to + 1 - from
    BY <1>1, <1>2, <2>1
  <2>2. CASE i \in 1 .. to - from
    BY <1>1, <1>2, <2>2
  <2> QED BY <2>1, <2>2
<1>4. more = Part(from, to + 1)
  <2>1. Len(more) = to + 1 - from /\ to + 1 \in Nat /\ from <= to + 1
    BY <1>1, <1>2
  <2> QED BY <1>2, <1>3, <2>1, PartEqual
<1> QED BY <1>4 DEF more, part

LEMMA PartBehind ==
  ASSUME NEW from \in Nat, NEW to \in Nat, NEW n \in Nat, from + n <= to
  PROVE  SubSeq(Part(from, to), n + 1, Len(Part(from, to))) = Part(from + n, to)
<1> DEFINE part == Part(from, to)
<1>1. /\ part \in Seq(Nat) /\ Len(part) = to - from
      /\ \A i \in 1 .. to - from : part[i] = from + i
  BY PartLen
<1> HIDE DEF part
<1> DEFINE s == SubSeq(part, n + 1, Len(part))
<1>2. /\ s \in Seq(Nat) /\ Len(s) = Len(part) - n
      /\ \A i \in 1 .. Len(part) - n : s[i] = part[n + i]
  BY <1>1, SubSeqProperties
<1> HIDE DEF s
<1>3. /\ Len(s) = to - (from + n) /\ from + n \in Nat
      /\ \A i \in 1 .. to - (from + n) : s[i] = from + n + i
  BY <1>1, <1>2
<1>4. s = Part(from + n, to)
  BY <1>2, <1>3, PartEqual
<1> QED BY <1>4 DEF s, part

LEMMA ComesTail ==
  ASSUME NEW S, NEW frames \in Seq(S), frames # <<>>, NEW stale \in Nat, NEW seq \in Nat,
         NEW pos \in Nat, Comes(frames, stale, seq, pos)
  PROVE  /\ stale > 0 => IsStale(Head(frames)) /\ Comes(Tail(frames), stale - 1, seq, pos)
         /\ stale = 0 => /\ Head(frames) = NextSegment(seq + 1, pos + 1)
                         /\ Comes(Tail(frames), 0, seq + 1, pos + 1)
<1>1. /\ Len(frames) \in Nat \ {0} /\ Head(frames) = frames[1]
      /\ Len(Tail(frames)) = Len(frames) - 1
      /\ \A i \in 1 .. Len(frames) - 1 : Tail(frames)[i] = frames[i + 1]
  OBVIOUS
<1>2. ASSUME stale > 0
      PROVE  IsStale(Head(frames)) /\ Comes(Tail(frames), stale - 1, seq, pos)
  <2>1. IsStale(Head(frames))
    BY <1>1, <1>2 DEF Comes
  <2>2. ASSUME NEW i \in 1 .. Len(Tail(frames))
        PROVE  IF i <= stale - 1 THEN IsStale(Tail(frames)[i])
               ELSE Tail(frames)[i] = NextSegment(seq + (i - (stale - 1)), pos + (i - (stale - 1)))
    <3>1. /\ i + 1 \in 1 .. Len(frames) /\ Tail(frames)[i] = frames[i + 1]
          /\ i + 1 - stale = i - (stale - 1) /\ (i + 1 <= stale <=> i <= stale - 1)
      BY <1>1
    <3>2. IF i + 1 <= stale THEN IsStale(frames[i + 1])
          ELSE frames[i + 1] = NextSegment(seq + (i + 1 - stale), pos + (i + 1 - stale))
      BY <3>1 DEF Comes
    <3> QED BY <3>1, <3>2, Zenon
  <2> QED BY <2>1, <2>2 DEF Comes
<1>3. ASSUME stale = 0
      PROVE  /\ Head(frames) = NextSegment(seq + 1, pos + 1)
             /\ Comes(Tail(frames), 0, seq + 1, pos + 1)
  <2>1. \A i \in 1 .. Len(frames) : frames[i] = NextSegment(seq + i, pos + i)
    BY <1>3 DEF Comes
  <2>2. Head(frames) = NextSegment(seq + 1, pos + 1)
    BY <1>1, <2>1
  <2>3. ASSUME NEW i \in 1 .. Len(Tail(frames))
        PROVE  Tail(frames)[i] = NextSegment(seq + 1 + i, pos + 1 + i)
    <3>1. /\ i + 1 \in 1 .. Len(frames) /\ Tail(frames)[i] = frames[i + 1]
          /\ seq + (i + 1) = seq + 1 + i /\ pos + (i + 1) = pos + 1 + i
      BY <1>1
    <3>2. frames[i + 1] = NextSegment(seq + (i + 1), pos + (i + 1))
      BY <2>1, <3>1, Zenon
    <3> QED BY <3>1, <3>2, Zenon
  <2> QED BY <2>2, <2>3 DEF Comes
<1> QED BY <1>2, <1>3

LEMMA ComesAppend ==
  ASSUME NEW S, NEW frames \in Seq(S), NEW f \in S, NEW stale \in 0 .. Len(frames) + 1,
         NEW seq \in Nat, NEW pos \in Nat, Comes(frames, stale, seq, pos),
         LET n == Len(frames) + 1 IN
           IF n <= stale THEN IsStale(f)
           ELSE f = NextSegment(seq + (n - stale), pos + (n - stale))
  PROVE  Comes(Append(frames, f), stale, seq, pos)
<1> DEFINE more == Append(frames, f)
<1>1. /\ Len(more) = Len(frames) + 1 /\ more[Len(frames) + 1] = f
      /\ \A i \in 1 .. Len(frames) : more[i] = frames[i]
  OBVIOUS
<1> HIDE DEF more
<1>2. ASSUME NEW i \in 1 .. Len(more)
      PROVE  IF i <= stale THEN IsStale(more[i])
             ELSE more[i] = NextSegment(seq + (i - stale), pos + (i - stale))
  <2>1. CASE i = Len(frames) + 1
    BY <1>1, <2>1, Zenon
  <2>2. CASE i \in 1 .. Len(frames)
    BY <1>1, <2>2, Zenon DEF Comes
  <2> QED BY <1>1, <2>1, <2>2
<1>3. Comes(more, stale, seq, pos)
  BY <1>2, Zenon DEF Comes
<1> QED BY <1>3 DEF more

LEMMA NothingComes == \A stale, seq, pos : Comes(<<>>, stale, seq, pos)
BY DEF Comes

LEMMA RunIsStale ==
  ASSUME NEW S, NEW frames \in Seq(S), NEW seq \in Nat \ {0}, NEW pos \in Nat,
         Comes(frames, 0, seq, pos)
  PROVE  Comes(frames, Len(frames), 0, 0)
<1>1. ASSUME NEW i \in 1 .. Len(frames) PROVE IsStale(frames[i])
  <2>1. frames[i] = NextSegment(seq + i, pos + i)
    BY DEF Comes
  <2> QED BY <2>1 DEF NextSegment, Segment, IsStale
<1> QED BY <1>1 DEF Comes

-----------------------------------------------------------------------------
\* The client of an upload.

LEMMA UploadStages ==
  ASSUME UploadRepaired
  PROVE  /\ up.pc = "init" => up.outcome = "running" /\ (AskedToUpload \/ ToldToStart)
         /\ up.pc = "read" =>
              /\ up.outcome = "running"
              /\ Starts \/ ReadsBlock \/ MissesSegment \/ Acknowledges
         /\ up.pc = "resync" => up.outcome = "running" /\ (ReadsBlock \/ AsksAgain)
         /\ up.pc = "end" => up.outcome = "running" /\ (Acknowledges \/ ToldTheEnd)
         /\ up.pc = "close" => up.outcome = "running" /\ WillClose
         /\ down = FreshDownload /\ ~up.timedOut
<1>1. /\ up.pc = "init" => ~(Starts \/ ReadsBlock \/ MissesSegment \/ AsksAgain
                              \/ Acknowledges \/ ToldTheEnd \/ WillClose)
      /\ up.pc = "read" => ~(AskedToUpload \/ ToldToStart \/ AsksAgain \/ ToldTheEnd \/ WillClose)
      /\ up.pc = "resync" => ~(AskedToUpload \/ ToldToStart \/ Starts \/ MissesSegment
                                \/ Acknowledges \/ ToldTheEnd \/ WillClose)
      /\ up.pc = "end" => ~(AskedToUpload \/ ToldToStart \/ Starts \/ ReadsBlock \/ MissesSegment
                             \/ AsksAgain \/ WillClose)
      /\ up.pc = "close" => ~(AskedToUpload \/ ToldToStart \/ Starts \/ ReadsBlock \/ MissesSegment
                               \/ AsksAgain \/ Acknowledges \/ ToldTheEnd)
  BY SMT DEF AskedToUpload, ToldToStart, Starts, MissesSegment, ReadsBlock, AsksAgain,
     Acknowledges, ToldTheEnd, WillClose
<1>2. up.pc # "idle" => up.outcome = "running" /\ Uploading
  BY Zenon DEF UploadRepaired
<1>3. ASSUME up.pc = "init" PROVE up.outcome = "running" /\ (AskedToUpload \/ ToldToStart)
  <2>1. up.outcome = "running" /\ Uploading
    BY <1>2, <1>3
  <2> QED BY <1>1, <1>3, <2>1, Zenon DEF Uploading
<1>4. ASSUME up.pc = "read"
      PROVE  up.outcome = "running" /\ (Starts \/ ReadsBlock \/ MissesSegment \/ Acknowledges)
  <2>1. up.outcome = "running" /\ Uploading
    BY <1>2, <1>4
  <2> QED BY <1>1, <1>4, <2>1, Zenon DEF Uploading
<1>5. ASSUME up.pc = "resync" PROVE up.outcome = "running" /\ (ReadsBlock \/ AsksAgain)
  <2>1. up.outcome = "running" /\ Uploading
    BY <1>2, <1>5
  <2> QED BY <1>1, <1>5, <2>1, Zenon DEF Uploading
<1>6. ASSUME up.pc = "end" PROVE up.outcome = "running" /\ (Acknowledges \/ ToldTheEnd)
  <2>1. up.outcome = "running" /\ Uploading
    BY <1>2, <1>6
  <2> QED BY <1>1, <1>6, <2>1, Zenon DEF Uploading
<1>7. ASSUME up.pc = "close" PROVE up.outcome = "running" /\ WillClose
  <2>1. up.outcome = "running" /\ Uploading
    BY <1>2, <1>7
  <2> QED BY <1>1, <1>7, <2>1, Zenon DEF Uploading
<1>8. down = FreshDownload /\ ~up.timedOut
  BY DEF UploadRepaired
<1> QED BY <1>3, <1>4, <1>5, <1>6, <1>7, <1>8

\* What the types say in an upload.
LEMMA UploadNumbers ==
  ASSUME BlockInv
  PROVE  /\ up \in Uploads /\ up.ackseq \in Nat /\ up.result \in Data /\ up.timedOut \in BOOLEAN
         /\ srv.base \in Nat /\ srv.seq \in Nat /\ srv.blksize \in BlkSizes
         /\ toServer \in Seq(Requests) /\ toClient \in Seq(TrueResponses)
         /\ srv.phase \in {"sending", "ack"} => srv.base + srv.seq <= Segments
         /\ Segments \in Nat \ {0} /\ MaxBlkSize \in Nat \ {0}
BY BlockAssumption DEF BlockInv, UploadInv, UploadTypeOK, Uploads, ServerInv, ServerTypeOK,
   ServerStates, ChannelInv

LEMMA StageKept ==
  ASSUME UploadRepaired, UNCHANGED down, up'.outcome = "running", ~up'.timedOut, Uploading'
  PROVE  UploadRepaired'
BY DEF UploadRepaired

LEMMA StartUploadRepairs ==
  ASSUME BlockInv, UploadRepaired, StartUpload, UNCHANGED <<down, serverVars, trouble>>
  PROVE  UploadRepaired'
<1>1. up.pc = "init" /\ toClient # <<>> /\ toClient' = Tail(toClient) /\ up \in Uploads
  BY UploadNumbers DEF StartUpload, TakeAnswer
<1>2. ToldToStart /\ up.outcome = "running" /\ ~up.timedOut
  BY <1>1, UploadStages DEF AskedToUpload
<1>3. PICK crc \in BOOLEAN : toClient = <<[kind |-> "init_upload", crc |-> crc]>>
  BY <1>2, Zenon DEF ToldToStart
<1>4. Answer.kind = "init_upload" /\ Answer.crc = crc /\ toClient' = <<>>
  BY <1>1, <1>3 DEF Answer
<1>5. /\ toServer' = toServer \o <<[kind |-> "start_upload"]>>
      /\ up' = [up EXCEPT !.pc = "read", !.crc = crc]
  BY <1>4 DEF StartUpload, SendToServer
<1>6. toServer' = <<[kind |-> "start_upload"]>>
  BY <1>2, <1>5 DEF ToldToStart
<1>7. /\ up'.pc = "read" /\ up'.result = up.result /\ up'.ackseq = up.ackseq
      /\ up'.outcome = "running" /\ ~up'.timedOut /\ UNCHANGED srv
  BY <1>1, <1>2, <1>5 DEF Uploads, serverVars
<1>8. Starts'
  BY <1>2, <1>4, <1>6, <1>7 DEF ToldToStart, Starts, ReadNothing
<1> QED BY <1>7, <1>8, StageKept DEF Uploading

\* The segment that comes is the next one, number k of the block and n of the value.
TakesNext(k, n) ==
  /\ up.outcome = "running" /\ toServer = <<>> /\ SendsBlock /\ HasRead(srv.base + up.ackseq)
  /\ k = up.ackseq + 1 /\ n = srv.base + k
  /\ toClient' \in Seq(TrueResponses) /\ Len(toClient') + k = srv.seq
  /\ Comes(toClient', 0, k, n) /\ Accept(NextSegment(k, n))

LEMMA AcceptRepairs ==
  ASSUME BlockInv, UploadRepaired, UNCHANGED <<down, serverVars, trouble>>,
         NEW k \in Nat, NEW n \in Nat, TakesNext(k, n)
  PROVE  UploadRepaired'
<1>0. /\ up.outcome = "running" /\ toServer = <<>> /\ SendsBlock /\ HasRead(srv.base + up.ackseq)
      /\ toClient' \in Seq(TrueResponses) /\ Comes(toClient', 0, k, n)
      /\ Accept(NextSegment(k, n))
  BY DEF TakesNext
<1> DEFINE f == NextSegment(k, n)
<1>1. /\ up \in Uploads /\ up.ackseq \in Nat /\ srv.base \in Nat /\ srv.seq \in Nat
      /\ srv.base + srv.seq <= Segments /\ Segments \in Nat \ {0} /\ MaxBlkSize \in Nat \ {0}
      /\ ~up.timedOut
  BY <1>0, UploadNumbers, UploadStages DEF SendsBlock
<1>2. f.seq = k /\ f.seg = n /\ f.last = (n = Segments)
  BY DEF NextSegment, Segment
<1>3. EndsBlock(f) <=> k >= MaxBlkSize \/ n = Segments
  BY <1>2 DEF EndsBlock
<1>4. /\ toServer' = toServer \o (IF EndsBlock(f) THEN <<Ack(f.seq, MaxBlkSize)>> ELSE <<>>)
      /\ up' = [up EXCEPT
                  !.pc = IF f.last THEN "end" ELSE "read",
                  !.ackseq = IF EndsBlock(f) THEN 0 ELSE f.seq,
                  !.tail = IF f.last THEN <<f.seg>> ELSE <<>>,
                  !.result = IF f.last THEN @ ELSE Append(@, f.seg)]
  BY <1>0, Zenon DEF Accept, SendToServer
<1> HIDE DEF f
<1>5. UNCHANGED <<srv, stored>>
  BY DEF serverVars
<1>6. /\ up.result = Part(0, srv.base + up.ackseq) /\ n = srv.base + up.ackseq + 1
      /\ srv.base + up.ackseq \in Nat /\ k > 0 /\ n = srv.base + k
      /\ Len(toClient') \in Nat /\ Len(toClient') = srv.seq - k /\ k <= srv.seq
      /\ n # Segments => n < Segments
      /\ n = Segments => srv.base + up.ackseq = Segments - 1
      /\ ~(k >= MaxBlkSize) => k < MaxBlkSize
      /\ k = srv.seq => n = srv.base + srv.seq /\ Len(toClient') = 0
      /\ k >= MaxBlkSize \/ n = Segments =>
           k = srv.seq /\ ~(srv.seq < MaxBlkSize /\ srv.base + srv.seq < Segments)
      /\ k < MaxBlkSize /\ n < Segments =>
           k < srv.seq \/ (srv.seq < MaxBlkSize /\ srv.base + srv.seq < Segments)
  <2>1. PICK a \in Nat, b \in Nat, s \in Nat, l \in Nat :
          /\ up.ackseq = a /\ srv.base = b /\ srv.seq = s /\ Len(toClient') = l
          /\ k = a + 1 /\ n = b + k /\ l + k = s /\ b + s <= Segments /\ s <= MaxBlkSize
    BY <1>0, <1>1, LenProperties DEF TakesNext, SendsBlock
  <2>2. /\ n = b + a + 1 /\ b + a \in Nat /\ k > 0 /\ l = s - k /\ k <= s
        /\ n # Segments => n < Segments
        /\ n = Segments => b + a = Segments - 1
        /\ ~(k >= MaxBlkSize) => k < MaxBlkSize
        /\ k = s => n = b + s /\ l = 0
        /\ k >= MaxBlkSize \/ n = Segments => k = s /\ ~(s < MaxBlkSize /\ b + s < Segments)
        /\ k < MaxBlkSize /\ n < Segments => k < s \/ (s < MaxBlkSize /\ b + s < Segments)
    BY <1>1, <2>1
  <2>3. up.result = Part(0, srv.base + up.ackseq)
    BY <1>0 DEF HasRead
  <2> QED BY <2>1, <2>2, <2>3, Zenon
<1>7. Append(up.result, n) = Part(0, n)
  <2>1. 0 \in Nat /\ 0 <= srv.base + up.ackseq
    BY <1>6
  <2> QED BY <1>6, <2>1, PartAppend, Zenon
<1>8. CASE ~EndsBlock(f)
  <2>1. n < Segments /\ k < MaxBlkSize /\ ~f.last
    BY <1>2, <1>3, <1>6, <1>8, Zenon
  <2>2. /\ up'.pc = "read" /\ up'.ackseq = k /\ up'.result = Append(up.result, n)
        /\ up'.outcome = "running" /\ ~up'.timedOut
    <3>1. up' = [up EXCEPT !.pc = "read", !.ackseq = k, !.tail = <<>>,
                   !.result = Append(up.result, n)]
      BY <1>2, <1>4, <1>8, <2>1, Zenon
    <3>2. up \in Uploads /\ up.outcome = "running" /\ ~up.timedOut
      BY <1>0, <1>1
    <3> QED BY <3>1, <3>2 DEF Uploads
  <2>3. toServer' = <<>>
    BY <1>0, <1>4, <1>8
  <2>4. srv.phase = "ack" => k < srv.seq
    <3>1. srv.phase = "ack" => ~(srv.seq < MaxBlkSize /\ srv.base + srv.seq < Segments)
      BY <1>0 DEF SendsBlock
    <3> QED BY <1>6, <2>1, <3>1, Zenon
  <2>5. HasRead(srv.base + up.ackseq)' /\ SendsBlock'
    <3>1. n = srv'.base + up'.ackseq /\ up'.result = Part(0, n)
      BY <1>5, <1>6, <1>7, <2>2, Zenon
    <3>2. HasRead(srv.base + up.ackseq)'
      BY <2>1, <3>1, Zenon DEF HasRead
    <3>3. SendsBlock'
      BY <1>0, <1>5, Zenon DEF SendsBlock
    <3> QED BY <3>2, <3>3
  <2>6. \E stale \in 0 .. Len(toClient') :
          /\ Len(toClient') - stale = srv'.seq - up'.ackseq
          /\ stale > 0 => up'.pc = "resync"
          /\ Comes(toClient', stale, up'.ackseq, srv'.base + up'.ackseq)
    <3>2. 0 \in 0 .. Len(toClient') /\ Len(toClient') - 0 = srv.seq - k /\ ~(0 > 0)
      BY <1>1, <1>6
    <3>3. Len(toClient') - 0 = srv'.seq - up'.ackseq
      BY <1>5, <2>2, <3>2, Zenon
    <3>4. Comes(toClient', 0, up'.ackseq, srv'.base + up'.ackseq)
      BY <1>0, <1>5, <1>6, <2>2, Zenon
    <3> QED BY <3>2, <3>3, <3>4, Zenon
  <2>7. ReadsBlock'
    <3>1. up'.pc = "read" /\ (srv'.phase = "ack" => up'.ackseq < srv'.seq)
      BY <1>5, <2>2, <2>4, Zenon
    <3> QED BY <2>3, <2>5, <2>6, <3>1, Zenon DEF ReadsBlock
  <2> QED BY <2>2, <2>7, StageKept DEF Uploading
<1>9. CASE EndsBlock(f)
  <2>1. k = srv.seq /\ srv.phase = "ack"
    <3>1. srv.phase \in {"sending", "ack"} /\ (srv.phase = "sending" =>
                                                 srv.seq < MaxBlkSize /\ srv.base + srv.seq < Segments)
      BY <1>0 DEF SendsBlock
    <3> QED BY <1>3, <1>6, <1>9, <3>1, Zenon
  <2>2. toClient' = <<>>
    <3>1. Len(toClient') = 0
      BY <1>6, <2>1, Zenon
    <3> QED BY <1>0, <3>1, EmptySeq
  <2>3. toServer' = <<Ack(srv.seq, MaxBlkSize)>>
    <3>1. f.seq = srv.seq
      BY <1>2, <2>1
    <3> QED BY <1>0, <1>4, <1>9, <3>1
  <2>4. /\ up'.pc = (IF n = Segments THEN "end" ELSE "read") /\ up'.ackseq = 0
        /\ up'.tail = (IF n = Segments THEN <<n>> ELSE <<>>)
        /\ up'.result = (IF n = Segments THEN up.result ELSE Append(up.result, n))
        /\ up'.outcome = "running" /\ ~up'.timedOut
    <3>1. up' = [up EXCEPT !.pc = IF n = Segments THEN "end" ELSE "read", !.ackseq = 0,
                   !.tail = IF n = Segments THEN <<n>> ELSE <<>>,
                   !.result = IF n = Segments THEN up.result ELSE Append(up.result, n)]
      BY <1>2, <1>4, <1>9, Zenon
    <3>2. up \in Uploads /\ up.outcome = "running" /\ ~up.timedOut
      BY <1>0, <1>1
    <3> QED BY <3>1, <3>2 DEF Uploads
  <2>5. srv'.base + srv'.seq = n /\ srv'.phase = "ack" /\ srv'.blksize = MaxBlkSize
    BY <1>0, <1>5, <1>6, <2>1 DEF SendsBlock
  <2>6. toServer' = <<Ack(srv'.seq, MaxBlkSize)>>
    BY <1>5, <2>3
  <2>7. CASE n = Segments
    <3>1. srv.base + up.ackseq = Segments - 1
      BY <1>6, <2>7, Zenon
    <3>2. HasReadAll'
      <4>1. up'.result = Part(0, Segments - 1)
        BY <1>6, <2>4, <2>7, <3>1, Zenon
      <4>2. up'.tail = <<Segments>>
        BY <2>4, <2>7, Zenon
      <4> QED BY <4>1, <4>2 DEF HasReadAll
    <3>3. Acknowledges'
      BY <2>2, <2>4, <2>5, <2>6, <2>7, <3>2, Zenon DEF Acknowledges
    <3> QED BY <2>4, <3>3, StageKept DEF Uploading
  <2>8. CASE n # Segments
    <3>1. n < Segments
      BY <1>6, <2>8, Zenon
    <3>2. HasRead(srv.base + srv.seq)'
      <4>1. up'.result = Part(0, n)
        BY <1>7, <2>4, <2>8, Zenon
      <4> QED BY <2>5, <3>1, <4>1, Zenon DEF HasRead
    <3>3. srv'.base + srv'.seq # Segments
      BY <2>5, <2>8
    <3>4. Acknowledges'
      BY <2>2, <2>4, <2>5, <2>6, <2>8, <3>2, <3>3, Zenon DEF Acknowledges
    <3> QED BY <2>4, <3>4, StageKept DEF Uploading
  <2> QED BY <2>7, <2>8
<1> QED BY <1>8, <1>9

\* What read() and _retransmit take.
LEMMA UploadTakes ==
  ASSUME BlockInv, TakeAnswer
  PROVE  /\ toClient # <<>> /\ toClient \in Seq(TrueResponses) /\ toClient' = Tail(toClient)
         /\ toClient' \in Seq(TrueResponses) /\ Answer = Head(toClient)
         /\ Len(toClient) \in Nat /\ Len(toClient) > 0 /\ Len(toClient') = Len(toClient) - 1
<1>1. toClient # <<>> /\ toClient' = Tail(toClient) /\ toClient \in Seq(TrueResponses)
  BY UploadNumbers DEF TakeAnswer
<1>2. /\ Tail(toClient) \in Seq(TrueResponses) /\ Len(Tail(toClient)) = Len(toClient) - 1
      /\ Len(toClient) \in Nat /\ Len(toClient) > 0
  BY <1>1
<1> QED BY <1>1, <1>2 DEF Answer

\* The next segment is there.
LEMMA NextIsTaken ==
  ASSUME BlockInv, UploadRepaired, ReadsBlock, TakeAnswer,
         Comes(toClient, 0, up.ackseq, srv.base + up.ackseq),
         Len(toClient) = srv.seq - up.ackseq, up.outcome = "running",
         IsNext(Answer) => Accept(Answer), UNCHANGED <<down, serverVars, trouble>>
  PROVE  UploadRepaired'
<1>1. /\ toClient # <<>> /\ toClient \in Seq(TrueResponses) /\ toClient' = Tail(toClient)
      /\ toClient' \in Seq(TrueResponses) /\ Answer = Head(toClient)
      /\ Len(toClient') = Len(toClient) - 1
  BY UploadTakes
<1>2. up.ackseq \in Nat /\ srv.base \in Nat /\ srv.seq \in Nat
  BY UploadNumbers
<1>3. PICK k \in Nat, n \in Nat : k = up.ackseq + 1 /\ n = srv.base + up.ackseq + 1 /\ n = srv.base + k
  <2>1. PICK a \in Nat, b \in Nat : a = up.ackseq /\ b = srv.base
    BY <1>2
  <2>2. a + 1 \in Nat /\ b + a + 1 \in Nat /\ b + a + 1 = b + (a + 1)
    OBVIOUS
  <2> QED BY <2>1, <2>2, Zenon
<1>4. Answer = NextSegment(k, n) /\ Comes(toClient', 0, k, n)
  <2>1. PICK b \in Nat : b = srv.base + up.ackseq
    BY <1>2
  <2>2. /\ Head(toClient) = NextSegment(up.ackseq + 1, b + 1)
        /\ Comes(Tail(toClient), 0, up.ackseq + 1, b + 1)
    BY <1>1, <1>2, <2>1, ComesTail
  <2> QED BY <1>1, <1>3, <2>1, <2>2, Zenon
<1>5. IsNext(Answer)
  BY <1>3, <1>4 DEF IsNext, NextSegment, Segment
<1>6. Len(toClient') + k = srv.seq
  <2>1. PICK l \in Nat, s \in Nat, a \in Nat : Len(toClient') = l /\ srv.seq = s /\ up.ackseq = a
    BY <1>1, <1>2, LenProperties
  <2>2. l = (s - a) - 1 /\ k = a + 1
    <3>1. Len(toClient) = s - a /\ l = Len(toClient) - 1
      BY <1>1, <2>1, Zenon
    <3> QED BY <1>3, <2>1, <3>1, Zenon
  <2>3. l + k = s
    BY <2>1, <2>2
  <2> QED BY <2>1, <2>3, Zenon
<1>7. TakesNext(k, n)
  <2>1. toServer = <<>> /\ SendsBlock /\ HasRead(srv.base + up.ackseq)
    BY DEF ReadsBlock
  <2>2. Accept(NextSegment(k, n))
    BY <1>4, <1>5, Zenon
  <2> QED BY <1>1, <1>3, <1>4, <1>6, <2>1, <2>2, Zenon DEF TakesNext
<1> QED BY <1>3, <1>7, AcceptRepairs

LEMMA ReadSegmentRepairs ==
  ASSUME BlockInv, UploadRepaired, ReadSegment, UNCHANGED <<down, serverVars, trouble>>
  PROVE  UploadRepaired'
<1>1. up.pc = "read" /\ TakeAnswer
  BY DEF ReadSegment
<1>2. /\ toClient # <<>> /\ toClient \in Seq(TrueResponses) /\ toClient' = Tail(toClient)
      /\ toClient' \in Seq(TrueResponses) /\ Answer = Head(toClient)
      /\ Len(toClient) \in Nat /\ Len(toClient) > 0 /\ Len(toClient') = Len(toClient) - 1
  BY <1>1, UploadTakes
<1>3. up.outcome = "running" /\ (ReadsBlock \/ MissesSegment)
  BY <1>1, <1>2, UploadStages DEF Starts, Acknowledges
<1>4. CASE ReadsBlock
  <2>1. PICK stale \in 0 .. Len(toClient) :
          /\ Len(toClient) - stale = srv.seq - up.ackseq /\ (stale > 0 => up.pc = "resync")
          /\ Comes(toClient, stale, up.ackseq, srv.base + up.ackseq)
    BY <1>4 DEF ReadsBlock
  <2>2. stale = 0
    <3>1. ~(stale > 0)
      BY <1>1, <2>1
    <3> QED BY <1>2, <3>1
  <2>3. Len(toClient) = srv.seq - up.ackseq
    <3>1. Len(toClient) - 0 = srv.seq - up.ackseq
      BY <2>1, <2>2, Zenon
    <3>2. Len(toClient) - 0 = Len(toClient)
      BY <1>2
    <3> QED BY <3>1, <3>2, Zenon
  <2>4. IsNext(Answer) => Accept(Answer)
    BY DEF ReadSegment, IsNext
  <2> QED BY <1>1, <1>3, <1>4, <2>1, <2>2, <2>3, <2>4, NextIsTaken
<1>5. CASE MissesSegment
  <2>1. PICK a \in Nat, b \in Nat, s \in Nat : up.ackseq = a /\ srv.base = b /\ srv.seq = s
    BY UploadNumbers
  <2>2. Comes(toClient, 0, a + 1, b + a + 1) /\ Len(toClient) + a + 1 = s /\ SendsBlock
    BY <1>5, <2>1, Zenon DEF MissesSegment, IsRun
  <2>3. Answer = NextSegment(a + 1 + 1, b + a + 1 + 1) /\ Comes(toClient', 0, a + 1 + 1, b + a + 1 + 1)
    <3>1. a + 1 \in Nat /\ b + a + 1 \in Nat
      OBVIOUS
    <3> QED BY <1>2, <2>2, <3>1, ComesTail
  <2>4. Answer.kind # "abort" /\ ~IsNext(Answer)
    <3>1. Answer.kind = "segment" /\ Answer.seq = a + 1 + 1
      BY <2>3 DEF NextSegment, Segment
    <3>2. a + 1 + 1 # a + 1
      OBVIOUS
    <3> QED BY <2>1, <3>1, <3>2 DEF IsNext
  <2>5. /\ toServer' = toServer \o <<Ack(a, MaxBlkSize)>>
        /\ up' = [up EXCEPT !.pc = "resync", !.ackseq = 0, !.timedOut = FALSE]
    BY <2>1, <2>4 DEF ReadSegment, Retransmit, SendToServer
  <2>6. /\ up'.pc = "resync" /\ up'.ackseq = 0 /\ up'.outcome = "running" /\ ~up'.timedOut
        /\ up'.result = up.result
    <3>1. up \in Uploads
      BY UploadNumbers
    <3> QED BY <1>3, <2>5, <3>1 DEF Uploads
  <2>7. toServer' = <<Ack(a, MaxBlkSize)>>
    BY <1>5, <2>5 DEF MissesSegment
  <2>8. Comes(toClient', Len(toClient'), 0, 0)
    <3>1. a + 1 + 1 \in Nat \ {0} /\ b + a + 1 + 1 \in Nat
      OBVIOUS
    <3> QED BY <1>2, <2>3, <3>1, RunIsStale
  <2>9. UNCHANGED <<srv, stored, trouble>> /\ SendsBlock'
    BY <2>2 DEF serverVars, SendsBlock
  <2>10. HasRead(srv.base + a)'
    BY <1>5, <2>1, <2>6, <2>9 DEF MissesSegment, HasRead
  <2>11. a \in 0 .. srv'.seq - 1
    <3>1. srv'.seq = s
      BY <2>1, <2>9
    <3> QED BY <1>2, <2>2, <3>1
  <2>12. AsksAgain'
    BY <1>5, <2>6, <2>7, <2>8, <2>9, <2>10, <2>11 DEF AsksAgain, MissesSegment
  <2> QED BY <2>6, <2>12, StageKept DEF Uploading
<1> QED BY <1>3, <1>4, <1>5

LEMMA ResyncRepairs ==
  ASSUME BlockInv, UploadRepaired, Resync, UNCHANGED <<down, serverVars, trouble>>
  PROVE  UploadRepaired'
<1>1. up.pc = "resync" /\ TakeAnswer
  BY DEF Resync
<1>2. /\ toClient # <<>> /\ toClient \in Seq(TrueResponses) /\ toClient' = Tail(toClient)
      /\ toClient' \in Seq(TrueResponses) /\ Answer = Head(toClient)
      /\ Len(toClient) \in Nat /\ Len(toClient) > 0 /\ Len(toClient') = Len(toClient) - 1
  BY <1>1, UploadTakes
<1>3. up.outcome = "running" /\ (ReadsBlock \/ AsksAgain) /\ ~up.timedOut
  BY <1>1, UploadStages
<1>4. up.ackseq = 0 /\ srv.base \in Nat /\ srv.seq \in Nat
  BY <1>1, <1>3, UploadNumbers DEF ReadsBlock, AsksAgain
<1>5. UNCHANGED <<srv, stored, trouble>>
  BY DEF serverVars
<1>6. ASSUME IsStale(Answer)
      PROVE  UNCHANGED <<up, toServer>>
  <2>1. Answer.kind # "abort" /\ ~IsNext(Answer)
    BY <1>4, <1>6 DEF IsStale, IsNext
  <2>2. SendToServer(<<>>) /\ UNCHANGED up
    BY <2>1 DEF Resync
  <2>3. toServer \in Seq(Requests)
    BY UploadNumbers
  <2> QED BY <2>2, <2>3, ConcatEmptySeq DEF SendToServer
<1>7. CASE AsksAgain
  <2>1. IsStale(Answer) /\ Comes(toClient', Len(toClient'), 0, 0)
    <3>1. Comes(toClient, Len(toClient), 0, 0)
      BY <1>7 DEF AsksAgain
    <3> QED BY <1>2, <3>1, ComesTail
  <2>2. UNCHANGED <<up, toServer>>
    BY <1>6, <2>1
  <2>3. AsksAgain'
    BY <1>5, <1>7, <2>1, <2>2 DEF AsksAgain, SendsBlock, HasRead
  <2> QED BY <1>3, <2>2, <2>3, StageKept DEF Uploading
<1>8. CASE ReadsBlock
  <2>1. PICK stale \in 0 .. Len(toClient) :
          /\ Len(toClient) - stale = srv.seq - up.ackseq /\ (stale > 0 => up.pc = "resync")
          /\ Comes(toClient, stale, up.ackseq, srv.base + up.ackseq)
    BY <1>8 DEF ReadsBlock
  <2>2. CASE stale = 0
    <3>1. Len(toClient) = srv.seq - up.ackseq
      <4>1. Len(toClient) - 0 = srv.seq - up.ackseq
        BY <2>1, <2>2, Zenon
      <4>2. Len(toClient) - 0 = Len(toClient)
        BY <1>2
      <4> QED BY <4>1, <4>2, Zenon
    <3>2. IsNext(Answer) => Accept(Answer)
      BY <1>3 DEF Resync, IsNext
    <3> QED BY <1>1, <1>3, <1>8, <2>1, <2>2, <3>1, <3>2, NextIsTaken
  <2>3. CASE stale > 0
    <3>1. PICK l \in Nat, p \in Nat : l = stale - 1 /\ p = srv.base + up.ackseq
      <4>1. stale \in Nat
        BY <1>2
      <4>2. stale - 1 \in Nat /\ srv.base + up.ackseq \in Nat
        BY <1>4, <2>3, <4>1
      <4> QED BY <4>2
    <3>2. IsStale(Answer) /\ Comes(toClient', l, up.ackseq, p)
      BY <1>2, <1>4, <2>1, <2>3, <3>1, ComesTail
    <3>3. UNCHANGED <<up, toServer>>
      BY <1>6, <3>2
    <3>4. l \in 0 .. Len(toClient') /\ Len(toClient') - l = srv.seq - up.ackseq
      <4>1. PICK m \in Nat : m = Len(toClient')
        <5>1. Len(toClient') \in Nat
          BY <1>2
        <5> QED BY <5>1
      <4>2. Len(toClient) = m + 1 /\ stale \in 0 .. m + 1
        BY <1>2, <2>1, <4>1
      <4>3. m + 1 - stale = srv.seq - up.ackseq
        <5>1. Len(toClient) - stale = srv.seq - up.ackseq
          BY <2>1
        <5> QED BY <4>2, <5>1
      <4>4. m - l = m + 1 - stale /\ l \in 0 .. m
        BY <3>1, <4>1, <4>2
      <4> QED BY <4>1, <4>3, <4>4, Zenon
    <3>5. \E k \in 0 .. Len(toClient') :
            /\ Len(toClient') - k = srv'.seq - up'.ackseq
            /\ k > 0 => up'.pc = "resync"
            /\ Comes(toClient', k, up'.ackseq, srv'.base + up'.ackseq)
      BY <1>1, <1>5, <3>1, <3>2, <3>3, <3>4, Zenon
    <3>6. ReadsBlock'
      <4>1. /\ up.pc \in {"read", "resync"} /\ toServer = <<>> /\ SendsBlock
            /\ HasRead(srv.base + up.ackseq)
            /\ up.pc = "resync" => up.ackseq = 0 /\ trouble = <<"segment">>
            /\ srv.phase = "ack" => up.ackseq < srv.seq
        BY <1>8, Zenon DEF ReadsBlock
      <4>2. SendsBlock' /\ HasRead(srv.base + up.ackseq)'
        BY <1>5, <3>3, <4>1, Zenon DEF SendsBlock, HasRead
      <4> QED BY <1>5, <3>3, <3>5, <4>1, <4>2, Zenon DEF ReadsBlock
    <3> QED BY <1>3, <3>3, <3>6, StageKept DEF Uploading
  <2> QED BY <1>2, <2>1, <2>2, <2>3
<1> QED BY <1>3, <1>7, <1>8

\* The last segment, and the end.
LEMMA EndUploadRepairs ==
  ASSUME BlockInv, UploadRepaired, EndUpload, UNCHANGED <<down, serverVars, trouble>>
  PROVE  UploadRepaired'
<1>1. up.pc = "end" /\ TakeAnswer
  BY DEF EndUpload
<1>2. toClient # <<>> /\ toClient' = Tail(toClient) /\ Answer = Head(toClient)
  BY <1>1, UploadTakes
<1>3. up.outcome = "running" /\ ToldTheEnd /\ ~up.timedOut
  BY <1>1, <1>2, UploadStages DEF Acknowledges
<1>4. /\ up.result = Part(0, Segments - 1) /\ up.tail = <<Segments>> /\ toServer = <<>>
      /\ toClient = <<[kind |-> "end_upload", crc |-> Value]>>
  BY <1>3, Zenon DEF ToldTheEnd, HasReadAll
<1>5. Answer.kind = "end_upload" /\ Answer.crc = Value /\ toClient' = <<>>
  BY <1>2, <1>4
<1>6. up.result \o up.tail = Value
  <2>1. PICK n \in Nat : n + 1 = Segments /\ n = Segments - 1
    BY BlockAssumption
  <2>2. Part(0, n) \in Seq(Nat) /\ Append(Part(0, n), n + 1) = Part(0, n + 1)
    <3>1. 0 \in Nat /\ 0 <= n
      OBVIOUS
    <3> QED BY <3>1, PartLen, PartAppend, Zenon
  <2>3. Part(0, n) \o <<n + 1>> = Append(Part(0, n), n + 1)
    BY <2>2
  <2>4. Part(0, n + 1) = Value
    BY <2>1, PartEnds, Zenon
  <2> QED BY <1>4, <2>1, <2>2, <2>3, <2>4, Zenon
<1>7. CrcAgrees(Answer.crc)
  BY <1>5, <1>6 DEF CrcAgrees
<1>8. /\ up' = [up EXCEPT !.pc = "close", !.result = up.result \o up.tail, !.tail = <<>>]
      /\ toServer' = toServer \o <<>>
  BY <1>5, <1>7 DEF EndUpload, SendToServer
<1>9. up'.pc = "close" /\ up'.result = Value /\ up'.outcome = "running" /\ ~up'.timedOut
  <2>1. up \in Uploads
    BY UploadNumbers
  <2> QED BY <1>3, <1>6, <1>8, <2>1 DEF Uploads
<1>10. toServer' = <<>>
  BY <1>4, <1>8
<1>11. WillClose'
  BY <1>3, <1>5, <1>9, <1>10 DEF WillClose, ToldTheEnd, serverVars
<1> QED BY <1>9, <1>11, StageKept DEF Uploading

LEMMA CloseUploadRepairs ==
  ASSUME BlockInv, UploadRepaired, CloseUpload, UNCHANGED <<down, serverVars, trouble>>
  PROVE  UploadRepaired'
<1>1. /\ up.pc = "close" /\ up' = [up EXCEPT !.pc = "idle", !.outcome = "ok"] /\ up \in Uploads
  BY UploadNumbers DEF CloseUpload
<1>2. WillClose /\ ~up.timedOut /\ down = FreshDownload
  BY <1>1, UploadStages
<1>3. up'.pc = "idle" /\ up'.outcome = "ok" /\ up'.result = Value /\ ~up'.timedOut
  BY <1>1, <1>2 DEF WillClose, Uploads
<1> QED BY <1>2, <1>3 DEF UploadRepaired

\* The client of an upload.
LEMMA UploadClientRepairs ==
  ASSUME BlockInv, UploadRepaired, UploadStep, UNCHANGED <<down, serverVars, trouble>>
  PROVE  UploadRepaired'
BY StartUploadRepairs, ReadSegmentRepairs, ResyncRepairs, EndUploadRepairs, CloseUploadRepairs
   DEF UploadStep

-----------------------------------------------------------------------------
\* The server of an upload.

\* A request that fits is handled.
LEMMA RequestIsHandled ==
  ASSUME OnRequest
  PROVE  LET f == Head(toServer) IN
         /\ toServer # <<>> /\ srv.phase # "sending"
         /\ f.kind = "init_upload" => \E crc \in CrcChoices : OnInitUpload(crc)
         /\ f.kind = "start_upload" /\ srv.phase = "start" => OnStartUpload
         /\ f.kind = "ack" /\ srv.phase = "ack" /\ f.seq <= srv.seq => OnAck
         /\ f.kind = "init_download" =>
              \E crc \in CrcChoices, blksize \in BlkSizes : OnInitDownload(crc, blksize)
         /\ f.kind = "segment" /\ srv.phase = "receiving" =>
              \E blksize \in BlkSizes : OnSegment(blksize)
         /\ (f.kind = "end_download" /\ srv.phase = "complete" /\ (srv.crc => f.crc = srv.got)) =>
              OnEndDownload
<1> DEFINE f == Head(toServer)
<1>1. /\ (\E crc \in CrcChoices : OnInitUpload(crc)) => f.kind = "init_upload"
      /\ OnStartUpload => f.kind = "start_upload"
      /\ OnAck => f.kind = "ack"
      /\ OnEndUpload => f.kind = "end_upload"
      /\ (\E crc \in CrcChoices, blksize \in BlkSizes : OnInitDownload(crc, blksize)) =>
           f.kind = "init_download"
      /\ (\E blksize \in BlkSizes : OnSegment(blksize)) => f.kind = "segment"
      /\ OnEndDownload => f.kind = "end_download"
      /\ OnAbort => f.kind = "abort"
      /\ OnUnexpected => ~Expected
  BY Zenon DEF OnInitUpload, OnStartUpload, OnAck, OnEndUpload, OnInitDownload, OnSegment,
     OnEndDownload, OnAbort, OnUnexpected
<1>2. /\ toServer # <<>> /\ srv.phase # "sending"
      /\ \/ \E crc \in CrcChoices : OnInitUpload(crc)
         \/ OnStartUpload
         \/ OnAck
         \/ OnEndUpload
         \/ \E crc \in CrcChoices, blksize \in BlkSizes : OnInitDownload(crc, blksize)
         \/ \E blksize \in BlkSizes : OnSegment(blksize)
         \/ OnEndDownload
         \/ OnAbort
         \/ OnUnexpected
  BY Zenon DEF OnRequest
<1>3. ASSUME f.kind = "init_upload" PROVE \E crc \in CrcChoices : OnInitUpload(crc)
  <2>1. Expected
    BY <1>3 DEF Expected
  <2> QED BY <1>1, <1>2, <1>3, <2>1, Zenon
<1>4. ASSUME f.kind = "start_upload" /\ srv.phase = "start" PROVE OnStartUpload
  <2>1. Expected
    BY <1>4 DEF Expected
  <2> QED BY <1>1, <1>2, <1>4, <2>1, Zenon
<1>5. ASSUME f.kind = "ack" /\ srv.phase = "ack" /\ f.seq <= srv.seq PROVE OnAck
  <2>1. Expected
    BY <1>5 DEF Expected
  <2> QED BY <1>1, <1>2, <1>5, <2>1, Zenon
<1>6. ASSUME f.kind = "init_download"
      PROVE  \E crc \in CrcChoices, blksize \in BlkSizes : OnInitDownload(crc, blksize)
  <2>1. Expected
    BY <1>6 DEF Expected
  <2> QED BY <1>1, <1>2, <1>6, <2>1, Zenon
<1>7. ASSUME f.kind = "segment" /\ srv.phase = "receiving"
      PROVE  \E blksize \in BlkSizes : OnSegment(blksize)
  <2>1. Expected
    BY <1>7 DEF Expected
  <2> QED BY <1>1, <1>2, <1>7, <2>1, Zenon
<1>8. ASSUME f.kind = "end_download" /\ srv.phase = "complete" /\ (srv.crc => f.crc = srv.got)
      PROVE  OnEndDownload
  <2>1. Expected
    BY <1>8 DEF Expected
  <2> QED BY <1>1, <1>2, <1>8, <2>1, Zenon
<1> QED BY <1>2, <1>3, <1>4, <1>5, <1>6, <1>7, <1>8, Zenon

\* One more segment of the block.
LEMMA SegmentIsSent ==
  ASSUME BlockInv, SendsBlock, SendSegment
  PROVE  /\ SendsBlock' /\ srv'.base = srv.base /\ srv'.seq = srv.seq + 1
         /\ toClient' = Append(toClient, NextSegment(srv.seq + 1, srv.base + srv.seq + 1))
         /\ NextSegment(srv.seq + 1, srv.base + srv.seq + 1) \in TrueResponses
         /\ UNCHANGED <<toServer, stored, trouble>>
<1>1. PICK b \in Nat, s \in Nat : srv.base = b /\ srv.seq = s
  BY UploadNumbers
<1>2. srv \in ServerStates /\ srv.blksize = MaxBlkSize /\ srv.phase = "sending"
  BY DEF BlockInv, ServerInv, ServerTypeOK, SendsBlock, SendSegment
<1>3. s < MaxBlkSize /\ b + s < Segments
  BY <1>1, <1>2 DEF SendsBlock
<1>4. s + 1 \in Nat /\ s + 1 <= MaxBlkSize /\ b + (s + 1) = b + s + 1 /\ b + s + 1 \in 1 .. Segments
  BY <1>1, <1>3, BlockAssumption
<1>5. /\ toClient' = Append(toClient, Segment(s + 1, b + s + 1, b + s + 1 = Segments))
      /\ srv' = [srv EXCEPT !.seq = s + 1,
                   !.phase = IF b + s + 1 = Segments \/ s + 1 = MaxBlkSize THEN "ack" ELSE @]
      /\ UNCHANGED <<toServer, stored, trouble>>
  <2>1. /\ toClient' = Append(toClient, Segment(s + 1, b + (s + 1), b + (s + 1) = Segments))
        /\ srv' = [srv EXCEPT !.seq = s + 1,
                     !.phase = IF b + (s + 1) = Segments \/ s + 1 = srv.blksize THEN "ack" ELSE @]
        /\ UNCHANGED <<toServer, stored, trouble>>
    BY <1>1, Zenon DEF SendSegment
  <2> QED BY <1>2, <1>4, <2>1, Zenon
<1>6. /\ srv'.base = b /\ srv'.seq = s + 1 /\ srv'.blksize = MaxBlkSize
      /\ srv'.phase = IF b + s + 1 = Segments \/ s + 1 = MaxBlkSize THEN "ack" ELSE "sending"
  BY <1>1, <1>2, <1>5 DEF ServerStates
<1>7. SendsBlock'
  <2>1. /\ s + 1 < MaxBlkSize <=> s + 1 # MaxBlkSize
        /\ b + (s + 1) < Segments <=> b + s + 1 # Segments
    BY <1>3, <1>4, BlockAssumption
  <2>2. srv'.phase = "sending" <=> s + 1 < MaxBlkSize /\ b + (s + 1) < Segments
    BY <1>6, <2>1
  <2>3. srv'.phase \in {"sending", "ack"}
    BY <1>6
  <2> QED BY <1>4, <1>6, <2>2, <2>3, Zenon DEF SendsBlock
<1>8. Segment(s + 1, b + s + 1, b + s + 1 = Segments) \in TrueResponses
  BY <1>4, ResponseTypes
<1> QED BY <1>1, <1>5, <1>6, <1>7, <1>8, Zenon DEF NextSegment

LEMMA SendSegmentRepairs ==
  ASSUME BlockInv, UploadRepaired, SendSegment, UNCHANGED <<up, down>>
  PROVE  UploadRepaired'
<1>1. CASE up.outcome = "ok" /\ up.pc = "idle" /\ up.result = Value
  BY <1>1 DEF UploadRepaired
<1>2. CASE up.outcome = "running" /\ Uploading
  <2>1. srv.phase = "sending"
    BY DEF SendSegment
  <2>2. ReadsBlock \/ MissesSegment \/ AsksAgain
    <3>1. ~(AskedToUpload \/ ToldToStart \/ Starts \/ Acknowledges \/ ToldTheEnd \/ WillClose)
      BY <2>1 DEF AskedToUpload, ToldToStart, Starts, Acknowledges, ToldTheEnd, WillClose
    <3> QED BY <1>2, <3>1, Zenon DEF Uploading
  <2>3. SendsBlock /\ ~up.timedOut
    BY <2>2, Zenon DEF ReadsBlock, MissesSegment, AsksAgain, UploadRepaired
  <2>4. PICK a \in Nat, b \in Nat, s \in Nat, l \in Nat :
          up.ackseq = a /\ srv.base = b /\ srv.seq = s /\ Len(toClient) = l
    BY UploadNumbers, LenProperties
  <2>5. /\ SendsBlock' /\ srv'.base = b /\ srv'.seq = s + 1
        /\ toClient' = Append(toClient, NextSegment(s + 1, b + s + 1))
        /\ NextSegment(s + 1, b + s + 1) \in TrueResponses
        /\ UNCHANGED <<toServer, stored, trouble>>
    BY <2>3, <2>4, SegmentIsSent
  <2>6. toClient \in Seq(TrueResponses) /\ Len(toClient') = l + 1
    <3>1. toClient \in Seq(TrueResponses)
      BY UploadNumbers
    <3> QED BY <2>4, <2>5, <3>1
  <2>7. CASE ReadsBlock
    <3>1. PICK stale \in 0 .. l :
            /\ l - stale = s - a /\ (stale > 0 => up.pc = "resync")
            /\ Comes(toClient, stale, a, b + a)
      BY <2>4, <2>7, Zenon DEF ReadsBlock
    <3>2. /\ ~(l + 1 <= stale) /\ a + (l + 1 - stale) = s + 1
          /\ b + a + (l + 1 - stale) = b + s + 1 /\ a < s + 1
          /\ l + 1 - stale = s + 1 - a /\ stale \in 0 .. l + 1 /\ b + a \in Nat /\ stale \in Nat
      BY <3>1
    <3>3. Comes(toClient', stale, a, b + a)
      <4>1. LET n == Len(toClient) + 1 IN
              IF n <= stale THEN IsStale(NextSegment(s + 1, b + s + 1))
              ELSE NextSegment(s + 1, b + s + 1) = NextSegment(a + (n - stale), b + a + (n - stale))
        BY <2>4, <3>2
      <4>2. stale \in 0 .. Len(toClient) + 1
        BY <2>4, <3>2
      <4> QED BY <2>5, <2>6, <3>1, <3>2, <4>1, <4>2, ComesAppend
    <3>4. \E k \in 0 .. Len(toClient') :
            /\ Len(toClient') - k = srv'.seq - up'.ackseq
            /\ k > 0 => up'.pc = "resync"
            /\ Comes(toClient', k, up'.ackseq, srv'.base + up'.ackseq)
      <4>1. stale \in 0 .. Len(toClient')
        BY <2>6, <3>2
      <4>2. Len(toClient') - stale = srv'.seq - up'.ackseq
        <5>1. Len(toClient') = l + 1 /\ srv'.seq = s + 1 /\ up'.ackseq = a
          BY <2>4, <2>5, <2>6, Zenon
        <5> QED BY <3>2, <5>1, SMT
      <4>3. stale > 0 => up'.pc = "resync"
        BY <3>1
      <4>4. Comes(toClient', stale, up'.ackseq, srv'.base + up'.ackseq)
        BY <2>4, <2>5, <3>3, Zenon
      <4> QED BY <4>1, <4>2, <4>3, <4>4, Zenon
    <3>5. ReadsBlock'
      <4>1. /\ up.pc \in {"read", "resync"} /\ toServer = <<>> /\ HasRead(srv.base + up.ackseq)
            /\ up.pc = "resync" => up.ackseq = 0 /\ trouble = <<"segment">>
        BY <2>7, Zenon DEF ReadsBlock
      <4>2. HasRead(srv.base + up.ackseq)'
        BY <2>4, <2>5, <4>1, Zenon DEF HasRead
      <4>3. up'.ackseq < srv'.seq
        BY <2>4, <2>5, <3>2, Zenon
      <4> QED BY <2>5, <3>4, <4>1, <4>2, <4>3, Zenon DEF ReadsBlock
    <3> QED BY <1>2, <2>3, <3>5, StageKept DEF Uploading
  <2>8. CASE MissesSegment
    <3>1. /\ Comes(toClient, 0, a + 1, b + a + 1) /\ l + a + 1 = s /\ a + 1 < MaxBlkSize
          /\ b + a + 1 < Segments
      BY <2>4, <2>8, Zenon DEF MissesSegment, IsRun
    <3>2. /\ ~(l + 1 <= 0) /\ a + 1 + (l + 1 - 0) = s + 1 /\ b + a + 1 + (l + 1 - 0) = b + s + 1
          /\ l + 1 + a + 1 = s + 1 /\ 0 \in 0 .. l + 1 /\ b + a + 1 \in Nat /\ a + 1 \in Nat
      BY <3>1
    <3>3. Comes(toClient', 0, a + 1, b + a + 1)
      <4>1. LET n == Len(toClient) + 1 IN
              IF n <= 0 THEN IsStale(NextSegment(s + 1, b + s + 1))
              ELSE NextSegment(s + 1, b + s + 1) = NextSegment(a + 1 + (n - 0), b + a + 1 + (n - 0))
        BY <2>4, <3>2
      <4>2. 0 \in 0 .. Len(toClient) + 1
        BY <2>4
      <4> QED BY <2>5, <2>6, <3>1, <3>2, <4>1, <4>2, ComesAppend
    <3>4. MissesSegment'
      <4>1. /\ up.pc = "read" /\ toServer = <<>> /\ HasRead(srv.base + up.ackseq)
            /\ trouble = <<"segment">>
        BY <2>8, Zenon DEF MissesSegment
      <4>2. HasRead(srv.base + up.ackseq)'
        BY <2>4, <2>5, <4>1, Zenon DEF HasRead
      <4>3. Len(toClient') + up'.ackseq + 1 = srv'.seq
        BY <2>4, <2>5, <2>6, <3>2, Zenon
      <4>4. /\ IsRun(toClient', up'.ackseq + 1, srv'.base + up'.ackseq + 1)
            /\ up'.ackseq + 1 < MaxBlkSize /\ srv'.base + up'.ackseq + 1 < Segments
        BY <2>4, <2>5, <3>1, <3>3, Zenon DEF IsRun
      <4> QED BY <2>5, <4>1, <4>2, <4>3, <4>4, Zenon DEF MissesSegment
    <3> QED BY <1>2, <2>3, <3>4, StageKept DEF Uploading
  <2>9. CASE AsksAgain
    <3>1. PICK seq \in 0 .. s - 1 : toServer = <<Ack(seq, MaxBlkSize)>> /\ HasRead(b + seq)
      BY <2>4, <2>9, Zenon DEF AsksAgain
    <3>2. Comes(toClient', Len(toClient'), 0, 0)
      <4>1. Comes(toClient, l, 0, 0)
        BY <2>4, <2>9, Zenon DEF AsksAgain
      <4>2. l + 1 \in 0 .. l + 1 /\ s + 1 >= 2 /\ l + 1 <= l + 1
        BY <3>1
      <4>3. Comes(toClient, l + 1, 0, 0)
        <5>1. ASSUME NEW i \in 1 .. Len(toClient)
              PROVE  IF i <= l + 1 THEN IsStale(toClient[i])
                     ELSE toClient[i] = NextSegment(0 + (i - (l + 1)), 0 + (i - (l + 1)))
          <6>1. i <= l /\ i <= l + 1
            BY <2>4
          <6> QED BY <4>1, <6>1, Zenon DEF Comes
        <5> QED BY <5>1, Zenon DEF Comes
      <4>4. IsStale(NextSegment(s + 1, b + s + 1))
        BY <4>2 DEF IsStale, NextSegment, Segment
      <4>5. LET n == Len(toClient) + 1 IN
              IF n <= l + 1 THEN IsStale(NextSegment(s + 1, b + s + 1))
              ELSE NextSegment(s + 1, b + s + 1) = NextSegment(0 + (n - (l + 1)), 0 + (n - (l + 1)))
        BY <2>4, <4>2, <4>4, Zenon
      <4>6. l + 1 \in 0 .. Len(toClient) + 1
        BY <2>4, <4>2, Zenon
      <4>7. Comes(toClient', l + 1, 0, 0)
        BY <2>5, <2>6, <4>3, <4>5, <4>6, ComesAppend
      <4> QED BY <2>6, <4>7, Zenon
    <3>3. seq \in 0 .. srv'.seq - 1
      <4>1. seq \in 0 .. (s + 1) - 1
        BY <3>1
      <4> QED BY <2>5, <4>1, Zenon
    <3>4. toServer' = <<Ack(seq, MaxBlkSize)>> /\ HasRead(srv.base + seq)'
      BY <2>5, <3>1, Zenon DEF HasRead
    <3>5. up'.pc = "resync" /\ up'.ackseq = 0 /\ trouble' = <<"segment">>
      BY <2>5, <2>9, Zenon DEF AsksAgain
    <3>6. AsksAgain'
      BY <2>5, <3>2, <3>3, <3>4, <3>5, Zenon DEF AsksAgain
    <3> QED BY <1>2, <2>3, <3>6, StageKept DEF Uploading
  <2> QED BY <2>2, <2>7, <2>8, <2>9
<1> QED BY <1>1, <1>2, Zenon DEF UploadRepaired

\* The requests of an upload.
LEMMA OnInitUploadRepairs ==
  ASSUME BlockInv, UploadRepaired, up.outcome = "running", AskedToUpload,
         NEW crc \in CrcChoices, OnInitUpload(crc), UNCHANGED <<up, down>>
  PROVE  UploadRepaired'
<1>1. crc \in BOOLEAN
  BY CrcAssumption
<1>2. /\ toServer' = Tail(toServer)
      /\ toClient' = toClient \o <<[kind |-> "init_upload", crc |-> crc]>>
      /\ srv' = [Idle EXCEPT !.phase = "start", !.crc = crc, !.blksize = MaxBlkSize]
      /\ UNCHANGED <<stored, trouble>>
  BY DEF OnInitUpload, Reply
<1>3. toServer' = <<>> /\ toClient' = <<[kind |-> "init_upload", crc |-> crc]>>
  BY <1>2 DEF AskedToUpload
<1>4. /\ srv'.phase = "start" /\ srv'.blksize = MaxBlkSize /\ srv'.base = 0 /\ srv'.seq = 0
  BY <1>2 DEF Idle
<1>5. up'.pc = "init" /\ up'.result = <<>> /\ up'.ackseq = 0
  BY DEF AskedToUpload, ReadNothing
<1>6. ToldToStart'
  BY <1>1, <1>3, <1>4, <1>5, Zenon DEF ToldToStart, ReadNothing
<1>7. ~up.timedOut
  BY DEF UploadRepaired
<1> QED BY <1>6, <1>7, StageKept DEF Uploading

\* The server begins a block; what still comes is stale.
LEMMA BlockBegins ==
  ASSUME BlockInv, UploadRepaired, up.outcome = "running", up.pc \in {"read", "resync"},
         up.pc = "resync" => trouble = <<"segment">>, up.ackseq = 0,
         toClient # <<>> => up.pc = "resync", Comes(toClient, Len(toClient), 0, 0),
         NEW base \in Nat, HasRead(base), srv'.phase = "sending", srv'.blksize = MaxBlkSize,
         srv'.base = base, srv'.seq = 0, toServer' = <<>>,
         UNCHANGED <<up, down, trouble, toClient>>
  PROVE  UploadRepaired'
<1>1. base < Segments /\ 0 < MaxBlkSize /\ 0 <= MaxBlkSize /\ base + 0 = base
  BY BlockAssumption DEF HasRead
<1>2. SendsBlock'
  BY <1>1, Zenon DEF SendsBlock
<1>3. HasRead(srv.base + up.ackseq)'
  BY <1>1, Zenon DEF HasRead
<1>4. PICK l \in Nat : l = Len(toClient)
  BY UploadNumbers, LenProperties
<1>5. Comes(toClient, l, 0, base)
  <2>1. ASSUME NEW i \in 1 .. Len(toClient)
        PROVE  IF i <= l THEN IsStale(toClient[i])
               ELSE toClient[i] = NextSegment(0 + (i - l), base + (i - l))
    <3>1. i <= Len(toClient) /\ i <= l
      BY <1>4
    <3> QED BY <3>1, Zenon DEF Comes
  <2> QED BY <2>1, Zenon DEF Comes
<1>6. \E stale \in 0 .. Len(toClient') :
        /\ Len(toClient') - stale = srv'.seq - up'.ackseq
        /\ stale > 0 => up'.pc = "resync"
        /\ Comes(toClient', stale, up'.ackseq, srv'.base + up'.ackseq)
  <2>1. l \in 0 .. l /\ l - l = 0 - 0
    OBVIOUS
  <2>2. l > 0 => up.pc = "resync"
    <3>1. ASSUME l > 0 PROVE toClient # <<>>
      BY <1>4, <3>1
    <3> QED BY <3>1
  <2>3. l \in 0 .. Len(toClient') /\ Len(toClient') - l = srv'.seq - up'.ackseq
    <3>1. Len(toClient') = l /\ srv'.seq = 0 /\ up'.ackseq = 0
      BY <1>4
    <3> QED BY <2>1, <3>1
  <2>4. Comes(toClient', l, up'.ackseq, srv'.base + up'.ackseq)
    BY <1>1, <1>5, Zenon
  <2>5. up'.pc = up.pc
    OBVIOUS
  <2> QED BY <2>2, <2>3, <2>4, <2>5, Zenon
<1>7. ReadsBlock'
  <2>1. srv'.phase # "ack"
    OBVIOUS
  <2> QED BY <1>2, <1>3, <1>6, <2>1, Zenon DEF ReadsBlock
<1>8. ~up.timedOut
  BY DEF UploadRepaired
<1> QED BY <1>7, <1>8, StageKept DEF Uploading

LEMMA OnStartUploadRepairs ==
  ASSUME BlockInv, UploadRepaired, up.outcome = "running", Starts, OnStartUpload,
         UNCHANGED <<up, down>>
  PROVE  UploadRepaired'
<1>1. /\ toServer' = Tail(toServer) /\ toClient' = toClient \o <<>>
      /\ srv' = [srv EXCEPT !.phase = "sending"] /\ UNCHANGED <<stored, trouble>>
  BY DEF OnStartUpload, Reply
<1>2. toServer' = <<>> /\ toClient' = <<>> /\ toClient = <<>>
  BY <1>1 DEF Starts
<1>3. /\ srv \in ServerStates /\ srv.blksize = MaxBlkSize /\ srv.base = 0 /\ srv.seq = 0
      /\ up.ackseq = 0 /\ up.pc = "read" /\ up.result = <<>>
  BY DEF BlockInv, ServerInv, ServerTypeOK, Starts, ReadNothing
<1>4. /\ srv'.phase = "sending" /\ srv'.blksize = MaxBlkSize /\ srv'.base = 0 /\ srv'.seq = 0
  BY <1>1, <1>3 DEF ServerStates
<1>5. HasRead(0)
  <2>1. 0 \in Nat /\ 0 < Segments
    BY BlockAssumption
  <2> QED BY <1>3, <2>1, PartEnds, Zenon DEF HasRead
<1>6. Comes(toClient, Len(toClient), 0, 0) /\ up.pc \in {"read", "resync"} /\ up.pc # "resync"
  BY <1>2, <1>3, NothingComes
<1> QED BY <1>1, <1>2, <1>3, <1>4, <1>5, <1>6, BlockBegins

\* An acknowledgement of the block, or of what came before the gap.
LEMMA OnAckRepairs ==
  ASSUME BlockInv, UploadRepaired, up.outcome = "running", AsksAgain \/ Acknowledges, OnAck,
         UNCHANGED <<up, down>>
  PROVE  UploadRepaired'
<1>1. PICK b \in Nat, s \in Nat : srv.base = b /\ srv.seq = s
  BY UploadNumbers
<1>2. PICK seq \in 0 .. s : toServer = <<Ack(seq, MaxBlkSize)>>
  <2>1. CASE AsksAgain
    <3>1. PICK seq \in 0 .. s - 1 : toServer = <<Ack(seq, MaxBlkSize)>>
      BY <1>1, <2>1, Zenon DEF AsksAgain
    <3>2. seq \in 0 .. s
      BY <3>1
    <3> QED BY <3>1, <3>2
  <2>2. CASE Acknowledges
    <3>1. s \in 0 .. s
      OBVIOUS
    <3> QED BY <1>1, <2>2, <3>1, Zenon DEF Acknowledges
  <2> QED BY <2>1, <2>2
<1>3. Head(toServer).seq = seq /\ Head(toServer).blksize = MaxBlkSize /\ Tail(toServer) = <<>>
  BY <1>2 DEF Ack
<1>4. /\ toServer' = <<>> /\ UNCHANGED <<stored, trouble>>
      /\ IF b + seq = Segments
         THEN /\ toClient' = toClient \o <<[kind |-> "end_upload", crc |-> Value]>>
              /\ srv' = [srv EXCEPT !.phase = "ending"]
         ELSE /\ toClient' = toClient \o <<>>
              /\ srv' = [srv EXCEPT !.phase = "sending", !.base = b + seq, !.seq = 0,
                                    !.blksize = MaxBlkSize]
  BY <1>1, <1>3 DEF OnAck, Reply
<1>5. srv \in ServerStates /\ toClient \in Seq(TrueResponses)
  BY UploadNumbers DEF BlockInv, ServerInv, ServerTypeOK
<1>6. ASSUME b + seq # Segments, HasRead(b + seq), up.pc \in {"read", "resync"},
             up.pc = "resync" => trouble = <<"segment">>, up.ackseq = 0,
             toClient # <<>> => up.pc = "resync", Comes(toClient, Len(toClient), 0, 0)
      PROVE  UploadRepaired'
  <2>1. toClient' = toClient
    BY <1>4, <1>5, <1>6, ConcatEmptySeq
  <2>2. /\ srv'.phase = "sending" /\ srv'.blksize = MaxBlkSize /\ srv'.base = b + seq
        /\ srv'.seq = 0
    BY <1>4, <1>5, <1>6 DEF ServerStates
  <2>3. b + seq \in Nat
    BY <1>2
  <2> QED BY <1>4, <1>6, <2>1, <2>2, <2>3, BlockBegins
<1>7. CASE AsksAgain
  <2>1. PICK k \in 0 .. s - 1 : toServer = <<Ack(k, MaxBlkSize)>> /\ HasRead(b + k)
    BY <1>1, <1>7, Zenon DEF AsksAgain
  <2>2. k = seq
    BY <1>3, <2>1 DEF Ack
  <2>3. b + seq # Segments
    <3>1. b + k < Segments
      BY <2>1 DEF HasRead
    <3> QED BY <2>1, <2>2, <3>1, BlockAssumption
  <2> QED BY <1>6, <1>7, <2>1, <2>2, <2>3 DEF AsksAgain
<1>8. CASE Acknowledges
  <2>1. seq = s
    BY <1>1, <1>3, <1>8 DEF Acknowledges, Ack
  <2>2. /\ toClient = <<>> /\ up.ackseq = 0
        /\ IF b + s = Segments THEN up.pc = "end" /\ HasReadAll
           ELSE up.pc = "read" /\ HasRead(b + s)
    BY <1>1, <1>8 DEF Acknowledges
  <2>3. CASE b + s = Segments
    <3>1. toClient' = <<[kind |-> "end_upload", crc |-> Value]>>
      BY <1>4, <2>1, <2>2, <2>3
    <3>2. srv'.phase = "ending"
      BY <1>4, <1>5, <2>1, <2>3 DEF ServerStates
    <3>3. ToldTheEnd'
      BY <1>4, <2>2, <2>3, <3>1, <3>2 DEF ToldTheEnd, HasReadAll
    <3>4. ~up.timedOut
      BY DEF UploadRepaired
    <3> QED BY <3>3, <3>4, StageKept DEF Uploading
  <2>4. CASE b + s # Segments
    <3>1. Comes(toClient, Len(toClient), 0, 0)
      BY <2>2, NothingComes
    <3> QED BY <1>6, <2>1, <2>2, <2>4, <3>1
  <2> QED BY <2>3, <2>4
<1> QED BY <1>7, <1>8

LEMMA UploadRequestRepairs ==
  ASSUME BlockInv, UploadRepaired, OnRequest, UNCHANGED <<up, down>>
  PROVE  UploadRepaired'
<1>1. CASE up.outcome = "ok" /\ up.pc = "idle" /\ up.result = Value
  BY <1>1 DEF UploadRepaired
<1>2. CASE up.outcome = "running" /\ Uploading
  <2>1. toServer # <<>> /\ srv.phase # "sending"
    BY RequestIsHandled, Zenon
  <2>2. AskedToUpload \/ Starts \/ AsksAgain \/ Acknowledges
    <3>1. ~(ToldToStart \/ ReadsBlock \/ MissesSegment \/ ToldTheEnd \/ WillClose)
      BY <2>1 DEF ToldToStart, ReadsBlock, MissesSegment, ToldTheEnd, WillClose
    <3> QED BY <1>2, <3>1, Zenon DEF Uploading
  <2>3. CASE AskedToUpload
    <3>1. Head(toServer).kind = "init_upload"
      BY <2>3 DEF AskedToUpload
    <3>2. \E crc \in CrcChoices : OnInitUpload(crc)
      BY <3>1, RequestIsHandled, Zenon
    <3> QED BY <1>2, <2>3, <3>2, OnInitUploadRepairs
  <2>4. CASE Starts
    <3>1. Head(toServer).kind = "start_upload" /\ srv.phase = "start"
      BY <2>4 DEF Starts
    <3>2. OnStartUpload
      BY <3>1, RequestIsHandled, Zenon
    <3> QED BY <1>2, <2>4, <3>2, OnStartUploadRepairs
  <2>5. CASE AsksAgain \/ Acknowledges
    <3>1. srv.phase = "ack"
      BY <2>1, <2>5 DEF AsksAgain, Acknowledges, SendsBlock
    <3>2. PICK s \in Nat : srv.seq = s
      BY UploadNumbers
    <3>3. Head(toServer).kind = "ack" /\ Head(toServer).seq <= srv.seq
      <4>1. CASE AsksAgain
        <5>1. PICK k \in 0 .. s - 1 : toServer = <<Ack(k, MaxBlkSize)>>
          BY <3>2, <4>1, Zenon DEF AsksAgain
        <5>2. k <= s
          BY <5>1
        <5> QED BY <3>2, <5>1, <5>2 DEF Ack
      <4>2. CASE Acknowledges
        <5>1. toServer = <<Ack(s, MaxBlkSize)>> /\ s <= s
          BY <3>2, <4>2 DEF Acknowledges
        <5> QED BY <3>2, <5>1 DEF Ack
      <4> QED BY <2>5, <4>1, <4>2
    <3>4. OnAck
      BY <3>1, <3>3, RequestIsHandled, Zenon
    <3> QED BY <1>2, <2>5, <3>4, OnAckRepairs
  <2> QED BY <2>2, <2>3, <2>4, <2>5
<1> QED BY <1>1, <1>2, Zenon DEF UploadRepaired

-----------------------------------------------------------------------------
\* What goes wrong in an upload.

\* The lost segment is the next one, and another one of the block will come.
LEMMA LostSegmentIsMissed ==
  ASSUME BlockInv, UploadRepaired, trouble = <<>>, trouble' = <<"segment">>,
         toClient # <<>>, LeavesGap(Head(toClient), TRUE), toClient' = Tail(toClient),
         UNCHANGED <<toServer, up, down, serverVars>>
  PROVE  UploadRepaired'
<1>1. CASE up.outcome = "ok" /\ up.pc = "idle" /\ up.result = Value
  BY <1>1 DEF UploadRepaired
<1>2. CASE up.outcome = "running" /\ Uploading
  <2>1. /\ Head(toClient).kind = "segment" /\ ~Head(toClient).last
        /\ Head(toClient).seq < srv.blksize
    BY DEF LeavesGap
  <2>2. <<"segment">> # <<>>
    OBVIOUS
  <2>3. ReadsBlock /\ up.pc = "read"
    <3>1. ~(AskedToUpload \/ Starts \/ Acknowledges \/ WillClose)
      BY DEF AskedToUpload, Starts, Acknowledges, WillClose
    <3>2. ~(MissesSegment \/ AsksAgain) /\ (ReadsBlock => up.pc = "read")
      BY <2>2 DEF MissesSegment, AsksAgain, ReadsBlock
    <3>3. ~ToldTheEnd
      BY <2>1 DEF ToldTheEnd
    <3>4. ~ToldToStart
      BY <2>1 DEF ToldToStart
    <3> QED BY <1>2, <3>1, <3>2, <3>3, <3>4, Zenon DEF Uploading
  <2>4. PICK a \in Nat, b \in Nat, s \in Nat, l \in Nat :
          up.ackseq = a /\ srv.base = b /\ srv.seq = s /\ Len(toClient) = l
    BY UploadNumbers, LenProperties
  <2>5. PICK stale \in 0 .. l :
          l - stale = s - a /\ (stale > 0 => up.pc = "resync") /\ Comes(toClient, stale, a, b + a)
    BY <2>3, <2>4, Zenon DEF ReadsBlock
  <2>6. stale = 0
    <3>1. ~(stale > 0)
      BY <2>3, <2>5
    <3> QED BY <3>1
  <2>7. toClient \in Seq(TrueResponses) /\ b + a \in Nat /\ 0 \in Nat
    BY UploadNumbers
  <2>8. Head(toClient) = NextSegment(a + 1, b + a + 1) /\ Comes(toClient', 0, a + 1, b + a + 1)
    BY <2>5, <2>6, <2>7, ComesTail
  <2>9. a + 1 < MaxBlkSize /\ b + a + 1 < Segments
    <3>1. srv.blksize = MaxBlkSize /\ b + a < Segments
      BY <2>3, <2>4 DEF ReadsBlock, SendsBlock, HasRead
    <3>2. a + 1 < srv.blksize /\ b + a + 1 # Segments
      <4>1. Head(toClient).seq = a + 1 /\ Head(toClient).last = (b + a + 1 = Segments)
        BY <2>8 DEF NextSegment, Segment
      <4> QED BY <2>1, <4>1, Zenon
    <3>3. b + a + 1 < Segments
      BY <3>1, <3>2, BlockAssumption
    <3> QED BY <3>1, <3>2, <3>3, Zenon
  <2>10. Len(toClient') + a + 1 = s
    <3>1. PICK m \in Nat : m = Len(toClient') /\ l = m + 1
      <4>1. Len(Tail(toClient)) \in Nat /\ Len(toClient) = Len(Tail(toClient)) + 1
        BY <2>7
      <4>2. Len(toClient') \in Nat /\ l = Len(toClient') + 1
        BY <2>4, <4>1, Zenon
      <4> QED BY <4>2, Zenon
    <3>2. m + a + 1 = s
      BY <2>5, <2>6, <3>1
    <3> QED BY <3>1, <3>2, Zenon
  <2>11. UNCHANGED <<srv, stored>> /\ SendsBlock /\ HasRead(srv.base + up.ackseq) /\ toServer = <<>>
    BY <2>3, Zenon DEF serverVars, ReadsBlock
  <2>12. SendsBlock' /\ HasRead(srv.base + up.ackseq)'
    BY <2>11, Zenon DEF SendsBlock, HasRead
  <2>13. MissesSegment'
    <3>1. IsRun(toClient', up'.ackseq + 1, srv'.base + up'.ackseq + 1)
      BY <2>4, <2>8, <2>11, Zenon DEF IsRun
    <3>2. up'.ackseq + 1 < MaxBlkSize /\ srv'.base + up'.ackseq + 1 < Segments
      BY <2>4, <2>9, <2>11, Zenon
    <3>3. Len(toClient') + up'.ackseq + 1 = srv'.seq
      BY <2>4, <2>10, <2>11, Zenon
    <3> QED BY <2>3, <2>11, <2>12, <3>1, <3>2, <3>3, Zenon DEF MissesSegment
  <2>14. ~up.timedOut
    BY DEF UploadRepaired
  <2> QED BY <1>2, <2>13, <2>14, StageKept DEF Uploading
<1> QED BY <1>1, <1>2, Zenon DEF UploadRepaired

\* No request of an upload is a segment.
LEMMA UploadSendsNone ==
  ASSUME UploadRepaired, toServer # <<>>, Head(toServer).kind = "segment",
         UNCHANGED <<up, down>>
  PROVE  UploadRepaired'
<1>1. ~Uploading
  <2>1. ~(ToldToStart \/ ReadsBlock \/ MissesSegment \/ ToldTheEnd \/ WillClose)
    BY DEF ToldToStart, ReadsBlock, MissesSegment, ToldTheEnd, WillClose
  <2>2. ~(AskedToUpload \/ Starts)
    BY DEF AskedToUpload, Starts
  <2>3. ~AsksAgain
    BY DEF AsksAgain, Ack
  <2>4. ~Acknowledges
    BY DEF Acknowledges, Ack
  <2> QED BY <2>1, <2>2, <2>3, <2>4, Zenon DEF Uploading
<1> QED BY <1>1 DEF UploadRepaired

\* The client does not wait in vain.
LEMMA UploadIsAnswered ==
  ASSUME BlockInv, UploadRepaired, Quiet
  PROVE  ~TimesOut
<1>1. up.pc \notin {"init", "read", "resync", "end"}
  <2>1. toServer = <<>> /\ toClient = <<>> /\ srv.phase # "sending"
    BY DEF Quiet
  <2>2. ~(AskedToUpload \/ ToldToStart \/ Starts \/ AsksAgain \/ Acknowledges \/ ToldTheEnd)
    BY <2>1 DEF AskedToUpload, ToldToStart, Starts, AsksAgain, Acknowledges, ToldTheEnd
  <2>3. PICK a \in Nat, b \in Nat, s \in Nat : up.ackseq = a /\ srv.base = b /\ srv.seq = s
    BY UploadNumbers
  <2>4. Len(toClient) = 0
    BY <2>1
  <2>5. ~ReadsBlock
    <3>1. SUFFICES ASSUME ReadsBlock PROVE FALSE
      OBVIOUS
    <3>2. a < s
      BY <2>1, <2>3, <3>1 DEF ReadsBlock, SendsBlock
    <3>3. PICK stale \in 0 .. Len(toClient) : Len(toClient) - stale = s - a
      BY <2>3, <3>1, Zenon DEF ReadsBlock
    <3> QED BY <2>4, <3>2, <3>3
  <2>6. ~MissesSegment
    <3>1. SUFFICES ASSUME MissesSegment PROVE FALSE
      OBVIOUS
    <3>2. ~(s < MaxBlkSize /\ b + s < Segments)
      BY <2>1, <2>3, <3>1 DEF MissesSegment, SendsBlock
    <3>3. 0 + a + 1 = s /\ a + 1 < MaxBlkSize /\ b + a + 1 < Segments
      BY <2>3, <2>4, <3>1, Zenon DEF MissesSegment
    <3> QED BY <3>2, <3>3
  <2> QED BY <2>2, <2>5, <2>6, UploadStages
<1>2. down.pc = "idle"
  BY DEF UploadRepaired, FreshDownload
<1> QED BY <1>1, <1>2 DEF TimesOut, UploadTimesOut, DownloadTimesOut, InitUploadTimesOut, ReadTimesOut,
       ResyncTimesOut, ResyncExpires, EndUploadTimesOut, InitDownloadTimesOut, BlockAckTimesOut,
       EndDownloadTimesOut

-----------------------------------------------------------------------------
\* The client of a download.

LEMMA DownloadStages ==
  ASSUME DownloadRepaired
  PROVE  /\ down.pc = "init" => down.outcome = "running" /\ (AskedToDownload \/ ToldToWrite)
         /\ down.pc = "write" =>
              down.outcome = "running" /\ (WritesBlock \/ SegmentMissed \/ AllWritten)
         /\ down.pc = "ack" =>
              /\ down.outcome = "running"
              /\ WritesBlock \/ SegmentMissed \/ BlockAnswered \/ GapAnswered
         /\ down.pc = "close" => down.outcome = "running" /\ WillEnd
         /\ down.pc = "end" => down.outcome = "running" /\ (AsksToEnd \/ ToldItsEnd)
         /\ up = FreshUpload
<1>1. AskedToDownload \/ ToldToWrite => down.pc = "init"
  BY DEF AskedToDownload, ToldToWrite, FreshDownload
<1>2. /\ WritesBlock \/ SegmentMissed => down.pc \in {"write", "ack"}
      /\ BlockAnswered \/ GapAnswered => down.pc = "ack"
      /\ AllWritten => down.pc = "write"
      /\ WillEnd => down.pc = "close"
      /\ AsksToEnd \/ ToldItsEnd => down.pc = "end"
  BY SMT DEF WritesBlock, SegmentMissed, BlockAnswered, GapAnswered, AllWritten, WillEnd, AsksToEnd,
     ToldItsEnd, BlockGoesOn
<1>3. /\ down.pc = "init" => ~(WritesBlock \/ SegmentMissed \/ BlockAnswered \/ GapAnswered
                                \/ AllWritten \/ WillEnd \/ AsksToEnd \/ ToldItsEnd)
      /\ down.pc = "write" => ~(AskedToDownload \/ ToldToWrite \/ BlockAnswered \/ GapAnswered
                                \/ WillEnd \/ AsksToEnd \/ ToldItsEnd)
      /\ down.pc = "ack" => ~(AskedToDownload \/ ToldToWrite \/ AllWritten
                              \/ WillEnd \/ AsksToEnd \/ ToldItsEnd)
      /\ down.pc = "close" => ~(AskedToDownload \/ ToldToWrite \/ WritesBlock \/ SegmentMissed
                                \/ BlockAnswered \/ GapAnswered \/ AllWritten \/ AsksToEnd
                                \/ ToldItsEnd)
      /\ down.pc = "end" => ~(AskedToDownload \/ ToldToWrite \/ WritesBlock \/ SegmentMissed
                              \/ BlockAnswered \/ GapAnswered \/ AllWritten \/ WillEnd)
  BY <1>1, <1>2, SMT
<1>4. down.pc # "idle" => down.outcome = "running" /\ Downloading
  BY Zenon DEF DownloadRepaired
<1>5. ASSUME down.pc = "init"
      PROVE  down.outcome = "running" /\ (AskedToDownload \/ ToldToWrite)
  <2>1. down.outcome = "running" /\ Downloading
    BY <1>4, <1>5
  <2> QED BY <1>3, <1>5, <2>1, Zenon DEF Downloading
<1>6. ASSUME down.pc = "write"
      PROVE  down.outcome = "running" /\ (WritesBlock \/ SegmentMissed \/ AllWritten)
  <2>1. down.outcome = "running" /\ Downloading
    BY <1>4, <1>6
  <2> QED BY <1>3, <1>6, <2>1, Zenon DEF Downloading
<1>7. ASSUME down.pc = "ack"
      PROVE  /\ down.outcome = "running"
             /\ WritesBlock \/ SegmentMissed \/ BlockAnswered \/ GapAnswered
  <2>1. down.outcome = "running" /\ Downloading
    BY <1>4, <1>7
  <2> QED BY <1>3, <1>7, <2>1, Zenon DEF Downloading
<1>8. ASSUME down.pc = "close" PROVE down.outcome = "running" /\ WillEnd
  <2>1. down.outcome = "running" /\ Downloading
    BY <1>4, <1>8
  <2> QED BY <1>3, <1>8, <2>1, Zenon DEF Downloading
<1>9. ASSUME down.pc = "end" PROVE down.outcome = "running" /\ (AsksToEnd \/ ToldItsEnd)
  <2>1. down.outcome = "running" /\ Downloading
    BY <1>4, <1>9
  <2> QED BY <1>3, <1>9, <2>1, Zenon DEF Downloading
<1>10. up = FreshUpload
  BY DEF DownloadRepaired
<1> QED BY <1>5, <1>6, <1>7, <1>8, <1>9, <1>10

LEMMA DownloadNumbers ==
  ASSUME BlockInv
  PROVE  /\ down \in Downloads /\ down.pos \in Nat /\ down.seqno \in Nat /\ down.blksize \in Nat
         /\ down.done \in BOOLEAN /\ down.retransmitting \in BOOLEAN
         /\ srv \in ServerStates /\ srv.seq \in Nat /\ srv.blksize \in Nat \ {0}
         /\ srv.got \in Seq(1 .. Segments) /\ Len(srv.got) \in Nat
         /\ toServer \in Seq(Requests) /\ toClient \in Seq(TrueResponses)
         /\ Len(toServer) \in Nat /\ Segments \in Nat \ {0}
<1>1. /\ down \in Downloads /\ srv \in ServerStates /\ toServer \in Seq(Requests)
      /\ toClient \in Seq(TrueResponses) /\ Segments \in Nat \ {0} /\ MaxBlkSize \in Nat \ {0}
  BY BlockAssumption DEF BlockInv, DownloadInv, DownloadTypeOK, ServerInv, ServerTypeOK, ChannelInv
<1>2. /\ down.pos \in Nat /\ down.seqno \in Nat /\ down.blksize \in Nat
      /\ down.done \in BOOLEAN /\ down.retransmitting \in BOOLEAN
  BY <1>1 DEF Downloads
<1>3. srv.seq \in Nat /\ srv.blksize \in 1 .. MaxBlkSize /\ srv.got \in Seq(1 .. Segments)
  BY <1>1 DEF ServerStates, BlkSizes, Data
<1>4. srv.blksize \in Nat \ {0} /\ Len(srv.got) \in Nat /\ Len(toServer) \in Nat
  BY <1>1, <1>3
<1> QED BY <1>1, <1>2, <1>3, <1>4

LEMMA DownloadStageKept ==
  ASSUME DownloadRepaired, UNCHANGED up, down'.outcome = "running", Downloading'
  PROVE  DownloadRepaired'
BY DEF DownloadRepaired

LEMMA InitDownloadRepairs ==
  ASSUME BlockInv, DownloadRepaired, InitDownload, UNCHANGED <<up, serverVars, trouble>>
  PROVE  DownloadRepaired'
<1>1. down.pc = "init" /\ toClient # <<>> /\ toClient' = Tail(toClient)
  BY DEF InitDownload, TakeDownloadAnswer
<1>2. ToldToWrite
  BY <1>1, DownloadStages DEF AskedToDownload
<1>3. PICK crc \in BOOLEAN :
        toClient = <<[kind |-> "init_download", crc |-> crc, blksize |-> srv.blksize]>>
  BY <1>2, Zenon DEF ToldToWrite
<1>4. /\ DownloadAnswer.kind = "init_download" /\ DownloadAnswer.crc = crc
      /\ DownloadAnswer.blksize = srv.blksize /\ toClient' = <<>>
  BY <1>1, <1>3 DEF DownloadAnswer
<1>5. /\ down' = [down EXCEPT !.pc = "write", !.blksize = srv.blksize, !.crc = crc]
      /\ toServer' = toServer \o <<>>
  BY <1>4 DEF InitDownload, SendToServer
<1>6. /\ down = [FreshDownload EXCEPT !.pc = "init", !.outcome = "running"]
      /\ srv.phase = "receiving" /\ srv.got = <<>> /\ srv.seq = 0 /\ toServer = <<>>
  BY <1>2, Zenon DEF ToldToWrite
<1>7. toServer' = <<>> /\ UNCHANGED <<srv, stored, trouble>>
  BY <1>5, <1>6 DEF serverVars
<1>8. /\ down'.pc = "write" /\ down'.pos = 0 /\ down'.seqno = 0 /\ down'.blksize = srv.blksize
      /\ down'.block = <<>> /\ down'.todo = <<Value>> /\ ~down'.done /\ ~down'.retransmitting
      /\ down'.digest = <<>> /\ down'.outcome = "running"
  BY <1>5, <1>6 DEF FreshDownload
<1>9. /\ Part(0, 0) = <<>> /\ Part(0, Segments) = Value /\ 0 \in 0 .. Segments /\ 0 <= 0 /\ 0 - 0 = 0
      /\ 0 # Segments /\ srv.blksize > 0 /\ 0 <= Segments /\ 0 + 0 = 0 /\ Len(<<>>) = 0
  BY PartEnds, DownloadNumbers
<1>10. InBlock'
  <2>1. Writes(0)'
    BY <1>8, <1>9, Zenon DEF Writes
  <2>2. down'.block = Part(down'.pos - down'.seqno, down'.pos)
    BY <1>8, <1>9
  <2> QED BY <1>8, <1>9, <2>1, <2>2 DEF InBlock
<1>11. BlockGoesOn'
  BY <1>7, <1>8, <1>9 DEF BlockGoesOn
<1>12. WritesBlock'
  <2>1. Received(Len(srv.got))'
    <3>1. srv'.got = <<>> /\ Len(srv'.got) = 0
      BY <1>6, <1>7
    <3> QED BY <1>9, <3>1 DEF Received
  <2>2. IsRun(toServer', srv'.seq, Len(srv'.got))
    BY <1>7, NothingComes DEF IsRun
  <2>3. /\ srv'.seq + Len(toServer') = down'.seqno /\ Len(srv'.got) + Len(toServer') = down'.pos
        /\ srv'.phase = "receiving"
    BY <1>6, <1>7, <1>8
  <2> QED BY <1>4, <1>10, <1>11, <2>1, <2>2, <2>3 DEF WritesBlock
<1> QED BY <1>8, <1>12, DownloadStageKept DEF Downloading

LEMMA ShortTodos ==
  ASSUME NEW s, NEW t
  PROVE  /\ Head(<<s, t>>) = s /\ Tail(<<s, t>>) = <<t>> /\ Len(<<s, t>>) = 2
         /\ Head(<<s>>) = s /\ Tail(<<s>>) = <<>> /\ Len(<<s>>) = 1
         /\ <<s>> \o <<t>> = <<s, t>> /\ <<s>> \o <<>> = <<s>>
<1>1. Head(<<s, t>>) = s /\ Tail(<<s, t>>) = <<t>> /\ Len(<<s, t>>) = 2
  OBVIOUS
<1>2. Head(<<s>>) = s /\ Tail(<<s>>) = <<>> /\ Len(<<s>>) = 1 /\ <<s>> \in Seq({s})
  OBVIOUS
<1> QED BY <1>1, <1>2, TwoFrames, ConcatEmptySeq

\* One more segment of the block is written.
LEMMA SegmentIsWritten ==
  ASSUME BlockInv, InBlock, WriteSegment, UNCHANGED trouble
  PROVE  LET pos == down.pos
             seqno == down.seqno
             blksize == IF pos + 1 = Segments THEN seqno + 1 ELSE down.blksize
         IN
         /\ InBlock' /\ down.pc = "write" /\ ~down.done /\ pos < Segments
         /\ toServer' = Append(toServer, NextSegment(seqno + 1, pos + 1))
         /\ NextSegment(seqno + 1, pos + 1) \in Requests
         /\ down'.pos = pos + 1 /\ down'.seqno = seqno + 1 /\ down'.done = (pos + 1 = Segments)
         /\ down'.blksize = blksize /\ down'.pc = IF seqno + 1 >= blksize THEN "ack" ELSE "write"
         /\ UNCHANGED <<down.retransmitting, down.outcome, toClient>>
<1>1. PICK p \in Nat, q \in Nat, z \in Nat : down.pos = p /\ down.seqno = q /\ down.blksize = z
  BY DownloadNumbers
<1>2. PICK limit \in 0 .. Segments : Writes(limit)
  BY DEF InBlock
<1>3. /\ limit \in p .. Segments /\ down.digest = Part(0, limit)
      /\ IF down.retransmitting
         THEN /\ trouble = <<"segment">> /\ down.todo = <<Part(p, limit), Part(limit, Segments)>>
         ELSE limit = p /\ down.todo = <<Part(p, Segments)>>
  BY <1>1, <1>2, Zenon DEF Writes
<1>4. /\ down.pc = "write" /\ Head(down.todo) # <<>> /\ ~down.done
      /\ down.block = Part(p - q, p) /\ q <= p /\ p # Segments
  BY <1>1, Zenon DEF WriteSegment, InBlock
<1>5. /\ limit \in Nat /\ p <= limit /\ limit <= Segments /\ p < Segments /\ p - q \in Nat /\ p - q <= p
      /\ p + 1 - (q + 1) = p - q /\ q + 1 <= p + 1 /\ p + 1 \in 1 .. Segments
      /\ (p + 1 >= Segments) = (p + 1 = Segments) /\ q + 1 \in Nat /\ Segments \in Nat /\ 0 <= p
  BY <1>3, <1>4, BlockAssumption
<1>6. ASSUME down.retransmitting
      PROVE  /\ p < limit /\ Head(down.todo) = Part(p, limit)
             /\ Tail(down.todo) = <<Part(limit, Segments)>>
  <2>1. Head(down.todo) = Part(p, limit) /\ Tail(down.todo) = <<Part(limit, Segments)>>
    <3>1. down.todo = <<Part(p, limit), Part(limit, Segments)>>
      BY <1>3, <1>6, Zenon
    <3>2. /\ Head(<<Part(p, limit), Part(limit, Segments)>>) = Part(p, limit)
          /\ Tail(<<Part(p, limit), Part(limit, Segments)>>) = <<Part(limit, Segments)>>
      BY ShortTodos
    <3> QED BY <3>1, <3>2, Zenon
  <2>2. p # limit
    BY <1>4, <2>1, PartEnds, Zenon
  <2> QED BY <1>5, <2>1, <2>2
<1>7. ASSUME ~down.retransmitting
      PROVE  Head(down.todo) = Part(p, Segments) /\ Tail(down.todo) = <<>> /\ limit = p
  <2>1. down.todo = <<Part(p, Segments)>> /\ limit = p
    BY <1>3, <1>7, Zenon
  <2>2. Head(<<Part(p, Segments)>>) = Part(p, Segments) /\ Tail(<<Part(p, Segments)>>) = <<>>
    OBVIOUS
  <2> QED BY <2>1, <2>2, Zenon
<1>8. PICK to \in Nat : p < to /\ Head(down.todo) = Part(p, to)
  BY <1>5, <1>6, <1>7
<1>9. Head(Head(down.todo)) = p + 1 /\ Tail(Head(down.todo)) = Part(p + 1, to)
  BY <1>8, PartTail
<1> DEFINE blksize == IF p + 1 = Segments THEN q + 1 ELSE z
<1>10. /\ toServer' = toServer \o <<Segment(q + 1, p + 1, p + 1 = Segments)>>
       /\ down' = [down EXCEPT
                   !.pc = IF q + 1 >= blksize THEN "ack" ELSE "write",
                   !.pos = p + 1,
                   !.seqno = q + 1,
                   !.blksize = blksize,
                   !.done = (p + 1 = Segments),
                   !.block = Append(@, p + 1),
                   !.digest = IF down.retransmitting THEN @ ELSE Append(@, p + 1),
                   !.todo = <<Part(p + 1, to)>> \o Tail(@)]
       /\ UNCHANGED toClient
  <2>1. /\ toServer' = toServer \o
                       <<Segment(down.seqno + 1, Head(Head(down.todo)), down.pos + 1 >= Segments)>>
        /\ down' = [down EXCEPT
                   !.pc = IF down.seqno + 1 >=
                               (IF down.pos + 1 >= Segments THEN down.seqno + 1 ELSE down.blksize)
                          THEN "ack" ELSE "write",
                   !.pos = @ + 1,
                   !.seqno = down.seqno + 1,
                   !.blksize = IF down.pos + 1 >= Segments THEN down.seqno + 1 ELSE down.blksize,
                   !.done = (down.pos + 1 >= Segments),
                   !.block = Append(@, Head(Head(down.todo))),
                   !.digest = IF down.retransmitting THEN @ ELSE Append(@, Head(Head(down.todo))),
                   !.todo = <<Tail(Head(@))>> \o Tail(@)]
        /\ UNCHANGED toClient
    BY Zenon DEF WriteSegment, SendToServer
  <2> QED BY <1>1, <1>5, <1>9, <2>1, Zenon
<1>11. Segment(q + 1, p + 1, p + 1 = Segments) = NextSegment(q + 1, p + 1)
  BY DEF NextSegment
<1>12. NextSegment(q + 1, p + 1) \in Requests
  <2>1. (p + 1 = Segments) \in BOOLEAN
    OBVIOUS
  <2> QED BY <1>5, <1>11, <2>1, RequestTypes, Zenon
<1>13. toServer' = Append(toServer, NextSegment(q + 1, p + 1))
  BY <1>10, <1>11, DownloadNumbers
<1> HIDE DEF blksize
<1>14. /\ down'.pos = p + 1 /\ down'.seqno = q + 1 /\ down'.done = (p + 1 = Segments)
       /\ down'.blksize = blksize /\ down'.pc = (IF q + 1 >= blksize THEN "ack" ELSE "write")
       /\ down'.retransmitting = down.retransmitting /\ down'.outcome = down.outcome
       /\ down'.block = Append(down.block, p + 1)
       /\ down'.digest = (IF down.retransmitting THEN down.digest ELSE Append(down.digest, p + 1))
       /\ down'.todo = <<Part(p + 1, to)>> \o Tail(down.todo)
  BY <1>10, DownloadNumbers DEF Downloads
<1>15. down'.block = Part(p + 1 - (q + 1), p + 1)
  <2>1. down'.block = Append(Part(p - q, p), p + 1)
    BY <1>4, <1>14, Zenon
  <2>2. Append(Part(p - q, p), p + 1) = Part(p - q, p + 1)
    BY <1>5, PartAppend
  <2>3. Part(p + 1 - (q + 1), p + 1) = Part(p - q, p + 1)
    BY <1>5
  <2> QED BY <2>1, <2>2, <2>3, Zenon
<1>16. \E l \in 0 .. Segments : Writes(l)'
  <2>1. CASE down.retransmitting
    <3>1. limit = to
      <4>1. Part(p, limit) = Part(p, to)
        BY <1>6, <1>8, <2>1
      <4> QED BY <1>5, <1>8, <4>1, PartLen
    <3>2. limit \in p + 1 .. Segments
      BY <1>5, <1>6, <2>1
    <3>3. down'.todo = <<Part(p + 1, limit), Part(limit, Segments)>>
      <4>1. <<Part(p + 1, limit)>> \o <<Part(limit, Segments)>>
              = <<Part(p + 1, limit), Part(limit, Segments)>>
        BY ShortTodos
      <4>2. Tail(down.todo) = <<Part(limit, Segments)>>
        BY <1>6, <2>1
      <4> QED BY <1>14, <3>1, <4>1, <4>2, Zenon
    <3>4. Writes(limit)'
      BY <1>3, <1>14, <2>1, <3>2, <3>3, Zenon DEF Writes
    <3> QED BY <3>4
  <2>2. CASE ~down.retransmitting
    <3>1. to = Segments
      <4>1. Part(p, Segments) = Part(p, to)
        BY <1>7, <1>8, <2>2
      <4> QED BY <1>5, <1>8, <4>1, PartLen
    <3>2. p + 1 \in p + 1 .. Segments /\ p + 1 \in 0 .. Segments
      BY <1>5
    <3>3. down'.todo = <<Part(p + 1, Segments)>>
      BY <1>7, <1>14, <2>2, <3>1, ShortTodos, Zenon
    <3>4. down'.digest = Part(0, p + 1)
      <4>1. 0 \in Nat /\ 0 <= p /\ down'.digest = Append(Part(0, p), p + 1)
        BY <1>3, <1>5, <1>7, <1>14, <2>2
      <4> QED BY <4>1, PartAppend
    <3>5. Writes(p + 1)'
      BY <1>14, <2>2, <3>2, <3>3, <3>4, Zenon DEF Writes
    <3> QED BY <3>2, <3>5
  <2> QED BY <2>1, <2>2
<1>17. InBlock'
  <2>1. down'.seqno <= down'.pos /\ down'.block = Part(down'.pos - down'.seqno, down'.pos)
    <3>1. down'.pos = p + 1 /\ down'.seqno = q + 1
      BY <1>14
    <3>2. down'.seqno <= down'.pos
      BY <1>5, <3>1
    <3>3. down'.block = Part(down'.pos - down'.seqno, down'.pos)
      BY ONLY <1>15, <3>1, SMT
    <3> QED BY <3>2, <3>3
  <2>2. down'.done <=> down'.pos = Segments
    BY <1>14
  <2>3. \E l \in 0 .. Segments : Writes(l)'
    BY <1>16
  <2> QED BY <2>1, <2>2, <2>3, Zenon DEF InBlock
<1> QED BY <1>1, <1>4, <1>5, <1>10, <1>12, <1>13, <1>14, <1>17, Zenon DEF blksize

\* A block goes on, or is complete and waits for its answer.
LEMMA BlockWentOn ==
  ASSUME NEW p \in Nat, NEW q \in Nat, NEW z \in Nat, p < Segments,
         down.pos = p, down.seqno = q, srv.blksize = z, down.pc = "write", BlockGoesOn, UNCHANGED srv,
         down'.seqno = q + 1, down'.done = (p + 1 = Segments), toServer' # <<>>,
         down'.blksize = IF p + 1 = Segments THEN q + 1 ELSE down.blksize,
         down'.pc = IF q + 1 >= down'.blksize THEN "ack" ELSE "write"
  PROVE  BlockGoesOn'
<1>1. q < z /\ down.blksize = z
  BY DEF BlockGoesOn
<1>2. /\ srv'.blksize = z /\ down'.seqno = q + 1
      /\ down'.blksize = IF p + 1 = Segments THEN q + 1 ELSE z
  BY <1>1
<1>3. CASE p + 1 = Segments
  <2>1. down'.blksize = q + 1 /\ q + 1 >= q + 1 /\ q + 1 <= z
    BY <1>1, <1>2, <1>3
  <2>2. down'.pc = "ack" /\ down'.done
    BY <1>3, <2>1
  <2> QED BY <1>2, <2>1, <2>2, Zenon DEF BlockGoesOn
<1>4. CASE p + 1 # Segments /\ q + 1 >= z
  <2>1. q + 1 = z /\ q + 1 <= z
    BY <1>1, <1>4
  <2>2. down'.pc = "ack" /\ down'.blksize = z
    BY <1>2, <1>4, Zenon
  <2> QED BY <1>2, <2>1, <2>2, Zenon DEF BlockGoesOn
<1>5. CASE p + 1 # Segments /\ ~(q + 1 >= z)
  <2>1. q + 1 < z
    BY <1>5
  <2>2. down'.pc = "write" /\ down'.blksize = z /\ ~down'.done
    BY <1>2, <1>5, Zenon
  <2> QED BY <1>2, <2>1, <2>2, Zenon DEF BlockGoesOn
<1> QED BY <1>3, <1>4, <1>5

LEMMA WriteSegmentRepairs ==
  ASSUME BlockInv, DownloadRepaired, WriteSegment, UNCHANGED <<up, serverVars, trouble>>
  PROVE  DownloadRepaired'
<1>1. down.pc = "write" /\ ~down.done
  BY Zenon DEF WriteSegment
<1>2. down.outcome = "running" /\ (WritesBlock \/ SegmentMissed)
  BY <1>1, DownloadStages DEF AllWritten
<1>3. InBlock /\ BlockGoesOn /\ toClient = <<>> /\ srv.phase = "receiving" /\ Received(Len(srv.got))
  BY <1>2, Zenon DEF WritesBlock, SegmentMissed
<1>4. PICK p \in Nat, q \in Nat, z \in Nat, s \in Nat, g \in Nat, l \in Nat :
        /\ down.pos = p /\ down.seqno = q /\ srv.blksize = z /\ srv.seq = s /\ Len(srv.got) = g
        /\ Len(toServer) = l
  BY DownloadNumbers
<1>5. /\ InBlock' /\ p < Segments
      /\ toServer' = Append(toServer, NextSegment(q + 1, p + 1))
      /\ NextSegment(q + 1, p + 1) \in Requests
      /\ down'.pos = p + 1 /\ down'.seqno = q + 1 /\ down'.done = (p + 1 = Segments)
      /\ down'.blksize = IF p + 1 = Segments THEN q + 1 ELSE down.blksize
      /\ down'.pc = IF q + 1 >= down'.blksize THEN "ack" ELSE "write"
      /\ UNCHANGED <<down.retransmitting, down.outcome, toClient>>
  BY <1>3, <1>4, SegmentIsWritten, Zenon
<1>6. /\ toServer \in Seq(Requests) /\ Len(toServer') = l + 1 /\ toServer' # <<>>
  <2>1. toServer \in Seq(Requests)
    BY DownloadNumbers
  <2> QED BY <1>4, <1>5, <2>1
<1>7. UNCHANGED <<srv, stored>>
  BY DEF serverVars
<1>8. BlockGoesOn'
  BY <1>1, <1>3, <1>4, <1>5, <1>6, <1>7, BlockWentOn
<1>9. Received(Len(srv.got))'
  BY <1>3, <1>7, Zenon DEF Received
<1>10. CASE WritesBlock
  <2>1. s + l = q /\ g + l = p /\ Comes(toServer, 0, s, g)
    BY <1>4, <1>10, Zenon DEF WritesBlock, IsRun
  <2>2. s + (l + 1) = q + 1 /\ g + (l + 1) = p + 1 /\ l + 1 - 0 = l + 1 /\ ~(l + 1 <= 0)
        /\ 0 \in 0 .. l + 1
    BY <2>1
  <2>3. Comes(toServer', 0, s, g)
    <3>1. LET n == Len(toServer) + 1 IN
            IF n <= 0 THEN IsStale(NextSegment(q + 1, p + 1))
            ELSE NextSegment(q + 1, p + 1) = NextSegment(s + (n - 0), g + (n - 0))
      BY <1>4, <2>2
    <3>2. 0 \in 0 .. Len(toServer) + 1
      BY <1>4
    <3> QED BY <1>4, <1>5, <1>6, <2>1, <3>1, <3>2, ComesAppend
  <2>4. IsRun(toServer', srv'.seq, Len(srv'.got))
    BY <1>4, <1>7, <2>3, Zenon DEF IsRun
  <2>5. srv'.seq + Len(toServer') = down'.seqno /\ Len(srv'.got) + Len(toServer') = down'.pos
    BY <1>4, <1>5, <1>6, <1>7, <2>2, Zenon
  <2>6. WritesBlock'
    BY <1>3, <1>5, <1>7, <1>8, <1>9, <2>4, <2>5, Zenon DEF WritesBlock
  <2> QED BY <1>2, <1>5, <2>6, DownloadStageKept DEF Downloading
<1>11. CASE SegmentMissed
  <2>1. /\ trouble = <<"segment">> /\ ~down.retransmitting /\ p + s = q + g
        /\ p + z < Segments + q /\ s + 1 < z /\ s + 1 + l <= q /\ Comes(toServer, 0, q - l, p - l)
    BY <1>4, <1>11, Zenon DEF SegmentMissed, IsRun
  <2>2. q <= p
    BY <1>3, <1>4 DEF InBlock
  <2>3. PICK a \in Nat, b \in Nat : a = q - l /\ b = p - l
    <3>1. q - l \in Nat /\ p - l \in Nat
      BY <2>1, <2>2
    <3> QED BY <3>1
  <2>4. /\ a + (l + 1) = q + 1 /\ b + (l + 1) = p + 1 /\ l + 1 - 0 = l + 1 /\ ~(l + 1 <= 0)
        /\ a = q + 1 - (l + 1) /\ b = p + 1 - (l + 1)
        /\ p + 1 + s = q + 1 + g /\ p + 1 + z < Segments + (q + 1) /\ s + 1 + (l + 1) <= q + 1
    BY <2>1, <2>3, BlockAssumption
  <2>5. Comes(toServer', 0, a, b)
    <3>1. LET n == Len(toServer) + 1 IN
            IF n <= 0 THEN IsStale(NextSegment(q + 1, p + 1))
            ELSE NextSegment(q + 1, p + 1) = NextSegment(a + (n - 0), b + (n - 0))
      BY <1>4, <2>4
    <3>2. 0 \in 0 .. Len(toServer) + 1
      BY <1>4
    <3>3. Comes(toServer, 0, a, b)
      BY <2>1, <2>3
    <3> QED BY <1>5, <1>6, <3>1, <3>2, <3>3, ComesAppend
  <2>6. IsRun(toServer', down'.seqno - Len(toServer'), down'.pos - Len(toServer'))
    <3>1. a = down'.seqno - Len(toServer') /\ b = down'.pos - Len(toServer')
      <4>1. down'.seqno = q + 1 /\ down'.pos = p + 1 /\ Len(toServer') = l + 1
        BY <1>5, <1>6
      <4> QED BY <2>4, <4>1, SMT
    <3> QED BY <2>5, <3>1 DEF IsRun
  <2>7. SegmentMissed'
    <3>1. /\ down'.pos + srv'.seq = down'.seqno + Len(srv'.got)
          /\ down'.pos + srv'.blksize < Segments + down'.seqno /\ srv'.seq + 1 < srv'.blksize
          /\ srv'.seq + 1 + Len(toServer') <= down'.seqno
      BY <1>4, <1>5, <1>6, <1>7, <2>1, <2>4, Zenon
    <3>2. trouble' = <<"segment">> /\ ~down'.retransmitting
      BY <1>5, <2>1
    <3> QED BY <1>3, <1>5, <1>7, <1>8, <1>9, <2>6, <3>1, <3>2, Zenon DEF SegmentMissed
  <2> QED BY <1>2, <1>5, <2>7, DownloadStageKept DEF Downloading
<1> QED BY <1>2, <1>10, <1>11

\* The writes under way, with their numbers.
LEMMA WritesNumbers ==
  ASSUME BlockInv, InBlock
  PROVE  \E p \in Nat, q \in Nat, limit \in Nat :
           /\ down.pos = p /\ down.seqno = q /\ q <= p /\ p <= limit /\ limit <= Segments
           /\ down.block = Part(p - q, p) /\ down.digest = Part(0, limit)
           /\ down.done <=> p = Segments
           /\ down.retransmitting => /\ trouble = <<"segment">>
                                     /\ down.todo = <<Part(p, limit), Part(limit, Segments)>>
           /\ ~down.retransmitting => limit = p /\ down.todo = <<Part(p, Segments)>>
<1>1. PICK p \in Nat, q \in Nat : down.pos = p /\ down.seqno = q
  BY DownloadNumbers
<1>2. PICK limit \in 0 .. Segments : Writes(limit)
  BY DEF InBlock
<1>3. /\ limit \in p .. Segments /\ down.digest = Part(0, limit)
      /\ IF down.retransmitting
         THEN /\ trouble = <<"segment">> /\ down.todo = <<Part(p, limit), Part(limit, Segments)>>
         ELSE limit = p /\ down.todo = <<Part(p, Segments)>>
  BY <1>1, <1>2, Zenon DEF Writes
<1>4. down.block = Part(p - q, p) /\ q <= p /\ (down.done <=> p = Segments)
  BY <1>1, Zenon DEF InBlock
<1>5. limit \in Nat /\ p <= limit /\ limit <= Segments
  BY <1>3, BlockAssumption
<1> QED BY <1>1, <1>3, <1>4, <1>5, Zenon

\* All has been written when write() is called no more.
LEMMA NoWriteAfterEnd ==
  ASSUME BlockInv, DownloadRepaired
  PROVE  ~WriteAfterEnd
<1>1. SUFFICES ASSUME WriteAfterEnd PROVE FALSE
  OBVIOUS
<1>2. down.pc = "write" /\ Head(down.todo) # <<>> /\ down.done
  BY <1>1, Zenon DEF WriteAfterEnd
<1>3. InBlock
  BY <1>2, DownloadStages, Zenon DEF WritesBlock, SegmentMissed, AllWritten
<1>4. PICK p \in Nat, q \in Nat, limit \in Nat :
           /\ down.pos = p /\ p <= limit /\ limit <= Segments /\ (down.done <=> p = Segments)
           /\ down.retransmitting => down.todo = <<Part(p, limit), Part(limit, Segments)>>
           /\ ~down.retransmitting => down.todo = <<Part(p, Segments)>>
  BY <1>3, WritesNumbers, Zenon
<1>5. p = limit /\ p = Segments
  BY <1>2, <1>4, BlockAssumption
<1>6. Part(p, p) = <<>>
  BY PartEnds
<1>7. Head(down.todo) = Part(p, p)
  <2>1. /\ Head(<<Part(p, p), Part(p, p)>>) = Part(p, p)
        /\ Head(<<Part(p, p)>>) = Part(p, p)
    OBVIOUS
  <2>2. CASE down.retransmitting
    <3>1. down.todo = <<Part(p, p), Part(p, p)>>
      BY <1>4, <1>5, <2>2, Zenon
    <3> QED BY <2>1, <3>1, Zenon
  <2>3. CASE ~down.retransmitting
    <3>1. down.todo = <<Part(p, p)>>
      BY <1>4, <1>5, <2>3, Zenon
    <3> QED BY <2>1, <3>1, Zenon
  <2> QED BY <2>2, <2>3
<1> QED BY <1>2, <1>6, <1>7, Zenon

\* What was retransmitted is written, and the application goes on.
LEMMA EndRetransmitRepairs ==
  ASSUME BlockInv, DownloadRepaired, EndRetransmit, UNCHANGED <<up, serverVars, trouble>>
  PROVE  DownloadRepaired'
<1>1. /\ down.pc = "write" /\ Head(down.todo) = <<>> /\ Len(down.todo) > 1
      /\ down' = [down EXCEPT !.todo = Tail(down.todo), !.retransmitting = FALSE]
      /\ UNCHANGED <<toServer, toClient, srv, stored, trouble>>
  BY Zenon DEF EndRetransmit, serverVars
<1>2. down.outcome = "running" /\ (WritesBlock \/ SegmentMissed \/ AllWritten)
  BY <1>1, DownloadStages, Zenon
<1>3. InBlock
  BY <1>2, Zenon DEF WritesBlock, SegmentMissed, AllWritten
<1>4. PICK p \in Nat, q \in Nat, limit \in Nat :
           /\ down.pos = p /\ down.seqno = q /\ q <= p /\ p <= limit /\ limit <= Segments
           /\ down.block = Part(p - q, p) /\ down.digest = Part(0, limit)
           /\ down.done <=> p = Segments
           /\ down.retransmitting => down.todo = <<Part(p, limit), Part(limit, Segments)>>
           /\ ~down.retransmitting => limit = p /\ down.todo = <<Part(p, Segments)>>
  BY <1>3, WritesNumbers, Zenon
<1>5. down.retransmitting
  <2>1. SUFFICES ASSUME ~down.retransmitting PROVE FALSE
    OBVIOUS
  <2>2. Len(<<Part(p, Segments)>>) = 1 /\ ~(1 > 1)
    OBVIOUS
  <2> QED BY <1>1, <1>4, <2>1, <2>2, Zenon
<1>6. p = limit
  <2>1. Head(<<Part(p, limit), Part(limit, Segments)>>) = Part(p, limit)
    OBVIOUS
  <2>2. Part(p, limit) = <<>>
    BY <1>1, <1>4, <1>5, <2>1, Zenon
  <2>3. ~(p < limit)
    BY <2>2, PartTail
  <2> QED BY <1>4, <2>3
<1>7. Tail(down.todo) = <<Part(p, Segments)>>
  <2>1. Tail(<<Part(p, p), Part(p, Segments)>>) = <<Part(p, Segments)>>
    OBVIOUS
  <2> QED BY <1>4, <1>5, <1>6, <2>1, Zenon
<1>8. /\ down'.pc = "write" /\ down'.pos = p /\ down'.seqno = q /\ down'.blksize = down.blksize
      /\ down'.block = down.block /\ down'.todo = <<Part(p, Segments)>> /\ down'.done = down.done
      /\ ~down'.retransmitting /\ down'.digest = down.digest /\ down'.outcome = down.outcome
  <2>1. down \in Downloads
    BY DownloadNumbers
  <2>2. down' = [down EXCEPT !.todo = <<Part(p, Segments)>>, !.retransmitting = FALSE]
    BY <1>1, <1>7, Zenon
  <2> QED BY <1>1, <1>4, <2>1, <2>2 DEF Downloads
<1>9. InBlock'
  <2>1. p \in p .. Segments /\ p \in 0 .. Segments
    BY <1>4, <1>6
  <2>2. Writes(p)'
    BY <1>4, <1>6, <1>8, <2>1, Zenon DEF Writes
  <2>3. down'.done <=> down'.pos = Segments
    BY <1>4, <1>8
  <2> QED BY <1>4, <1>8, <2>1, <2>2, <2>3, Zenon DEF InBlock
<1>10. BlockGoesOn <=> BlockGoesOn'
  BY <1>1, <1>4, <1>8 DEF BlockGoesOn
<1>11. CASE WritesBlock
  <2>1. WritesBlock'
    BY <1>1, <1>4, <1>8, <1>9, <1>10, <1>11 DEF WritesBlock, Received
  <2> QED BY <1>2, <1>8, <2>1, DownloadStageKept DEF Downloading
<1>12. CASE AllWritten
  <2>1. AllWritten'
    BY <1>1, <1>8, <1>9, <1>12 DEF AllWritten, IsComplete
  <2> QED BY <1>2, <1>8, <2>1, DownloadStageKept DEF Downloading
<1>13. ~SegmentMissed
  BY <1>5, Zenon DEF SegmentMissed
<1> QED BY <1>2, <1>11, <1>12, <1>13

LEMMA EndWriteRepairs ==
  ASSUME BlockInv, DownloadRepaired, EndWrite, UNCHANGED <<up, serverVars, trouble>>
  PROVE  DownloadRepaired'
<1>1. /\ down.pc = "write" /\ down.todo = << <<>> >> /\ down' = [down EXCEPT !.pc = "close"]
      /\ UNCHANGED <<toServer, toClient, srv, stored, trouble>>
  BY Zenon DEF EndWrite, serverVars
<1>2. down.outcome = "running" /\ (WritesBlock \/ SegmentMissed \/ AllWritten)
  BY <1>1, DownloadStages, Zenon
<1>3. InBlock
  BY <1>2, Zenon DEF WritesBlock, SegmentMissed, AllWritten
<1>4. PICK p \in Nat, q \in Nat, limit \in Nat :
           /\ p <= limit /\ limit <= Segments /\ down.digest = Part(0, limit)
           /\ down.done <=> p = Segments
           /\ down.retransmitting => down.todo = <<Part(p, limit), Part(limit, Segments)>>
           /\ ~down.retransmitting => limit = p /\ down.todo = <<Part(p, Segments)>>
  BY <1>3, WritesNumbers, Zenon
<1>5. Len(<< <<>> >>) = 1 /\ Head(<< <<>> >>) = <<>> /\ 1 # 2
  OBVIOUS
<1>6. ~down.retransmitting
  <2>1. Len(<<Part(p, limit), Part(limit, Segments)>>) = 2
    OBVIOUS
  <2> QED BY <1>1, <1>4, <1>5, <2>1, Zenon
<1>7. p = Segments
  <2>1. Head(<<Part(p, Segments)>>) = Part(p, Segments)
    OBVIOUS
  <2>2. Part(p, Segments) = <<>>
    BY <1>1, <1>4, <1>5, <1>6, <2>1, Zenon
  <2>3. ~(p < Segments)
    BY <2>2, PartTail, BlockAssumption
  <2> QED BY <1>4, <2>3, BlockAssumption
<1>8. down.done /\ down.digest = Value
  <2>1. limit = Segments
    BY <1>4, <1>6, <1>7, Zenon
  <2> QED BY <1>4, <1>7, <2>1, PartEnds, Zenon
<1>9. AllWritten
  BY <1>1, <1>2, <1>8 DEF WritesBlock, SegmentMissed, BlockGoesOn
<1>10. down'.pc = "close" /\ down'.digest = Value /\ down'.outcome = "running"
  BY <1>1, <1>2, <1>8, DownloadNumbers DEF Downloads
<1>11. WillEnd'
  BY <1>1, <1>9, <1>10 DEF WillEnd, AllWritten, IsComplete
<1> QED BY <1>10, <1>11, DownloadStageKept DEF Downloading

\* A block that was answered, and the next one.
LEMMA BlockAnsweredRepairs ==
  ASSUME BlockInv, DownloadRepaired, BlockAnswered, BlockAck, UNCHANGED <<up, serverVars, trouble>>
  PROVE  DownloadRepaired'
<1>1. /\ InBlock /\ down.pc = "ack" /\ down.blksize = down.seqno /\ toServer = <<>>
      /\ toClient = <<Ack(down.seqno, srv.blksize)>> /\ srv.seq = 0 /\ Received(down.pos)
      /\ srv.phase = IF down.done THEN "complete" ELSE "receiving"
  BY Zenon DEF BlockAnswered
<1>2. /\ DownloadAnswer.kind = "ack" /\ DownloadAnswer.seq = down.blksize
      /\ DownloadAnswer.blksize = srv.blksize /\ Tail(toClient) = <<>>
  BY <1>1 DEF DownloadAnswer, Ack
<1>3. /\ toClient' = Tail(toClient) /\ toServer' = toServer \o <<>>
      /\ down' = [down EXCEPT !.pc = "write", !.block = <<>>, !.seqno = 0, !.blksize = srv.blksize]
  BY <1>2 DEF BlockAck, TakeDownloadAnswer, SendToServer
<1>4. toClient' = <<>> /\ toServer' = <<>> /\ UNCHANGED <<srv, stored, trouble>>
  BY <1>1, <1>2, <1>3 DEF serverVars
<1>5. PICK p \in Nat, q \in Nat, limit \in Nat :
           /\ down.pos = p /\ down.seqno = q /\ p <= limit /\ limit <= Segments
           /\ down.digest = Part(0, limit) /\ (down.done <=> p = Segments)
           /\ down.retransmitting => /\ trouble = <<"segment">>
                                     /\ down.todo = <<Part(p, limit), Part(limit, Segments)>>
           /\ ~down.retransmitting => limit = p /\ down.todo = <<Part(p, Segments)>>
  BY <1>1, WritesNumbers, Zenon
<1>6. down.outcome = "running"
  BY <1>1, DownloadStages
<1>7. /\ down'.pc = "write" /\ down'.pos = p /\ down'.seqno = 0 /\ down'.blksize = srv.blksize
      /\ down'.block = <<>> /\ down'.todo = down.todo /\ down'.done = down.done
      /\ down'.retransmitting = down.retransmitting /\ down'.digest = down.digest
      /\ down'.outcome = "running"
  BY <1>3, <1>5, <1>6, DownloadNumbers DEF Downloads
<1>8. InBlock'
  <2>1. limit \in p .. Segments /\ limit \in 0 .. Segments /\ 0 <= p /\ p - 0 = p
    BY <1>5, BlockAssumption
  <2>2. Writes(limit)'
    BY <1>4, <1>5, <1>7, <2>1, Zenon DEF Writes
  <2>3. down'.block = Part(down'.pos - down'.seqno, down'.pos)
    <3>1. Part(p, p) = <<>> /\ down'.pos - down'.seqno = p
      BY <1>7, <2>1, PartEnds
    <3> QED BY <1>7, <3>1, Zenon
  <2>4. down'.done <=> down'.pos = Segments
    BY <1>5, <1>7
  <2> QED BY <1>7, <2>1, <2>2, <2>3, <2>4, Zenon DEF InBlock
<1>9. CASE down.done
  <2>1. IsComplete'
    <3>1. srv.got = Part(0, Segments) /\ srv.phase = "complete"
      BY <1>1, <1>5, <1>9, Zenon DEF Received
    <3> QED BY <1>4, <3>1, PartEnds DEF IsComplete
  <2>2. AllWritten'
    BY <1>4, <1>7, <1>8, <1>9, <2>1, Zenon DEF AllWritten
  <2> QED BY <1>7, <2>2, DownloadStageKept DEF Downloading
<1>10. CASE ~down.done
  <2>1. srv.got = Part(0, p) /\ p <= Segments /\ srv.phase = "receiving"
    BY <1>1, <1>5, <1>10, Zenon DEF Received
  <2>2. Len(srv.got) = p
    <3>1. 0 \in Nat /\ 0 <= p /\ p - 0 = p
      OBVIOUS
    <3>2. Len(Part(0, p)) = p - 0
      BY <3>1, PartLen
    <3> QED BY <2>1, <3>1, <3>2, Zenon
  <2>3. BlockGoesOn'
    <3>1. 0 < srv.blksize
      BY DownloadNumbers
    <3> QED BY <1>4, <1>7, <1>10, <3>1, Zenon DEF BlockGoesOn
  <2>4. Received(Len(srv.got))'
    BY <1>4, <2>1, <2>2, Zenon DEF Received
  <2>5. IsRun(toServer', srv'.seq, Len(srv'.got))
    BY <1>4, NothingComes DEF IsRun
  <2>6. srv'.seq + Len(toServer') = down'.seqno /\ Len(srv'.got) + Len(toServer') = down'.pos
    <3>1. Len(<<>>) = 0 /\ 0 + 0 = 0 /\ p + 0 = p
      OBVIOUS
    <3> QED BY <1>1, <1>4, <1>7, <2>2, <3>1, Zenon
  <2>7. WritesBlock'
    BY <1>4, <1>8, <2>1, <2>3, <2>4, <2>5, <2>6, Zenon DEF WritesBlock
  <2> QED BY <1>7, <2>7, DownloadStageKept DEF Downloading
<1> QED BY <1>9, <1>10

\* What comes behind a gap is written again.
LEMMA GapAnsweredRepairs ==
  ASSUME BlockInv, DownloadRepaired, GapAnswered, BlockAck, UNCHANGED <<up, serverVars, trouble>>
  PROVE  DownloadRepaired'
<1>1. /\ InBlock /\ down.pc = "ack" /\ down.blksize = down.seqno /\ toServer = <<>> /\ ~down.done
      /\ trouble = <<"segment">> /\ ~down.retransmitting
      /\ srv.seq = 0 /\ srv.phase = "receiving" /\ Received(Len(srv.got))
  BY Zenon DEF GapAnswered
<1>2. PICK p \in Nat, q \in Nat, limit \in Nat :
           /\ down.pos = p /\ down.seqno = q /\ q <= p /\ p <= limit /\ limit <= Segments
           /\ down.block = Part(p - q, p) /\ down.digest = Part(0, limit)
           /\ down.done <=> p = Segments
           /\ ~down.retransmitting => limit = p /\ down.todo = <<Part(p, Segments)>>
  BY <1>1, WritesNumbers, Zenon
<1>3. PICK seq \in 0 .. q - 1 :
           toClient = <<Ack(seq, srv.blksize)>> /\ p - q + seq = Len(srv.got)
  BY <1>2, Zenon DEF GapAnswered
<1>4. /\ DownloadAnswer.kind = "ack" /\ DownloadAnswer.seq = seq
      /\ DownloadAnswer.blksize = srv.blksize /\ Tail(toClient) = <<>>
  BY <1>3 DEF DownloadAnswer, Ack
<1>5. PICK g \in Nat, from \in Nat :
        /\ g = p - q + seq /\ from = p - q /\ seq \in Nat /\ seq # q /\ from + seq = g /\ g <= p
        /\ g < p /\ p - (q - seq) = g /\ from <= p /\ p - from = q /\ q - seq \in Nat
  <2>1. p - q \in Nat /\ p - q + seq \in Nat /\ seq \in Nat /\ seq # q /\ seq < q
    <3>1. seq \in 0 .. q - 1 /\ q <= p
      BY <1>2, <1>3
    <3> QED BY <3>1
  <2>2. q <= p
    BY <1>2
  <2> QED BY <2>1, <2>2
<1>6. /\ SubSeq(down.block, seq + 1, Len(down.block)) = Part(g, p)
      /\ Len(Part(g, p)) = p - g
  <2>1. SubSeq(Part(from, p), seq + 1, Len(Part(from, p))) = Part(from + seq, p)
    <3>1. from \in Nat /\ p \in Nat /\ seq \in Nat /\ from + seq <= p
      BY <1>5
    <3> QED BY ONLY <3>1, PartBehind
  <2>2. Len(Part(g, p)) = p - g
    BY <1>5, PartLen
  <2>3. down.block = Part(from, p)
    BY <1>2, <1>5
  <2> QED BY <1>5, <2>1, <2>2, <2>3, Zenon
<1>7. p - Len(Part(g, p)) = g
  <2>1. PICK n : n = Len(Part(g, p))
    OBVIOUS
  <2>2. n = p - g
    BY <1>6, <2>1
  <2>3. p - n = g
    BY <2>2
  <2> QED BY <2>1, <2>3
<1>8. /\ toClient' = <<>> /\ toServer' = toServer \o <<>>
      /\ down' = [down EXCEPT !.pc = "write", !.pos = g, !.block = <<>>, !.seqno = 0,
                    !.blksize = srv.blksize, !.retransmitting = TRUE,
                    !.todo = <<Part(g, p)>> \o down.todo]
  <2>1. DownloadAnswer.seq # down.blksize
    BY <1>1, <1>2, <1>4, <1>5, Zenon
  <2>2. /\ toClient' = Tail(toClient) /\ toServer' = toServer \o <<>> /\ RetransmitBlock(DownloadAnswer)
    BY <1>4, <2>1 DEF BlockAck, TakeDownloadAnswer, SendToServer
  <2>3. down' = [down EXCEPT
                    !.pc = "write",
                    !.pos = down.pos - Len(SubSeq(down.block, seq + 1, Len(down.block))),
                    !.block = <<>>, !.seqno = 0,
                    !.blksize = srv.blksize, !.retransmitting = TRUE,
                    !.todo = <<SubSeq(down.block, seq + 1, Len(down.block))>> \o down.todo]
    BY <1>4, <2>2, Zenon DEF RetransmitBlock
  <2>4. down.pos - Len(SubSeq(down.block, seq + 1, Len(down.block))) = g
    BY <1>2, <1>6, <1>7
  <2> QED BY <1>4, <1>6, <2>2, <2>3, <2>4, Zenon
<1>9. toServer' = <<>> /\ UNCHANGED <<srv, stored, trouble>>
  BY <1>1, <1>8 DEF serverVars
<1>10. down.outcome = "running" /\ limit = p /\ down.todo = <<Part(p, Segments)>>
  BY <1>1, <1>2, DownloadStages
<1>11. <<Part(g, p)>> \o down.todo = <<Part(g, p), Part(p, Segments)>>
  <2>1. <<Part(g, p)>> \o <<Part(p, Segments)>> = <<Part(g, p), Part(p, Segments)>>
    BY ShortTodos
  <2> QED BY <1>10, <2>1, Zenon
<1>12. /\ down'.pc = "write" /\ down'.pos = g /\ down'.seqno = 0 /\ down'.blksize = srv.blksize
       /\ down'.block = <<>> /\ down'.todo = <<Part(g, p), Part(p, Segments)>> /\ down'.done = down.done
       /\ down'.retransmitting /\ down'.digest = down.digest /\ down'.outcome = "running"
  BY <1>8, <1>10, <1>11, DownloadNumbers DEF Downloads
<1>13. InBlock'
  <2>1. p \in g .. Segments /\ p \in 0 .. Segments /\ 0 <= g /\ g - 0 = g /\ g # Segments /\ p # Segments
    BY <1>1, <1>2, <1>5, <1>10, BlockAssumption
  <2>2. Writes(p)'
    BY <1>1, <1>2, <1>9, <1>10, <1>12, <2>1, Zenon DEF Writes
  <2>3. down'.block = Part(down'.pos - down'.seqno, down'.pos)
    <3>1. Part(g, g) = <<>> /\ down'.pos - down'.seqno = g
      BY <1>12, <2>1, PartEnds
    <3> QED BY <1>12, <3>1, Zenon
  <2>4. down'.done <=> down'.pos = Segments
    BY <1>1, <1>12, <2>1, Zenon
  <2> QED BY <1>12, <2>1, <2>2, <2>3, <2>4, Zenon DEF InBlock
<1>14. Len(srv.got) = g
  BY <1>3, <1>5
<1>15. WritesBlock'
  <2>1. BlockGoesOn'
    <3>1. 0 < srv.blksize
      BY DownloadNumbers
    <3> QED BY <1>1, <1>9, <1>12, <3>1, Zenon DEF BlockGoesOn
  <2>2. Received(Len(srv.got))'
    BY <1>1, <1>9, Zenon DEF Received
  <2>3. IsRun(toServer', srv'.seq, Len(srv'.got))
    BY <1>9, NothingComes DEF IsRun
  <2>4. srv'.seq + Len(toServer') = down'.seqno /\ Len(srv'.got) + Len(toServer') = down'.pos
    <3>1. Len(<<>>) = 0 /\ 0 + 0 = 0 /\ g + 0 = g
      OBVIOUS
    <3> QED BY <1>1, <1>9, <1>12, <1>14, <3>1, Zenon
  <2> QED BY <1>1, <1>8, <1>9, <1>13, <2>1, <2>2, <2>3, <2>4, Zenon DEF WritesBlock
<1> QED BY <1>12, <1>15, DownloadStageKept DEF Downloading

LEMMA BlockAckRepairs ==
  ASSUME BlockInv, DownloadRepaired, BlockAck, UNCHANGED <<up, serverVars, trouble>>
  PROVE  DownloadRepaired'
<1>1. down.pc = "ack" /\ toClient # <<>>
  BY DEF BlockAck, TakeDownloadAnswer
<1>2. BlockAnswered \/ GapAnswered
  BY <1>1, DownloadStages, Zenon DEF WritesBlock, SegmentMissed
<1> QED BY <1>2, BlockAnsweredRepairs, GapAnsweredRepairs

\* The end of the download is asked for, and confirmed.
LEMMA CloseDownloadRepairs ==
  ASSUME BlockInv, DownloadRepaired, CloseDownload, UNCHANGED <<up, serverVars, trouble>>
  PROVE  DownloadRepaired'
<1>1. /\ down.pc = "close" /\ down' = [down EXCEPT !.pc = "end"]
      /\ toServer' = toServer \o <<[kind |-> "end_download", crc |-> down.digest]>>
      /\ UNCHANGED <<srv, stored, trouble>>
  BY DEF CloseDownload, SendToServer, serverVars
<1>2. PICK n \in 0 .. Len(toClient) : toClient' = SubSeq(toClient, n + 1, Len(toClient))
  BY DEF CloseDownload
<1>3. /\ down.outcome = "running" /\ WillEnd
  BY <1>1, DownloadStages
<1>4. down.digest = Value /\ IsComplete /\ toServer = <<>> /\ toClient = <<>>
  BY <1>3, Zenon DEF WillEnd
<1>5. toClient' = <<>>
  <2>1. n = 0
    BY <1>2, <1>4
  <2>2. SubSeq(<<>>, 0 + 1, Len(<<>>)) = <<>>
    OBVIOUS
  <2> QED BY <1>2, <1>4, <2>1, <2>2, Zenon
<1>6. toServer' = <<[kind |-> "end_download", crc |-> Value]>>
  BY <1>1, <1>4
<1>7. down'.pc = "end" /\ down'.outcome = "running"
  BY <1>1, <1>3, DownloadNumbers DEF Downloads
<1>8. AsksToEnd'
  BY <1>1, <1>4, <1>5, <1>6, <1>7 DEF AsksToEnd, IsComplete
<1> QED BY <1>7, <1>8, DownloadStageKept DEF Downloading

LEMMA EndDownloadRepairs ==
  ASSUME BlockInv, DownloadRepaired, EndDownload, UNCHANGED <<up, serverVars, trouble>>
  PROVE  DownloadRepaired'
<1>1. down.pc = "end" /\ toClient # <<>>
  BY DEF EndDownload, TakeDownloadAnswer
<1>2. down.outcome = "running" /\ ToldItsEnd /\ up = FreshUpload
  BY <1>1, DownloadStages DEF AsksToEnd
<1>3. ConfirmsEnd(DownloadAnswer)
  BY <1>2 DEF ToldItsEnd, ConfirmsEnd, DownloadAnswer
<1>4. FinishDownload("ok")
  BY <1>3 DEF EndDownload
<1>5. down' = [down EXCEPT !.pc = "idle", !.outcome = "ok"]
  BY <1>2, <1>4, DownloadNumbers DEF FinishDownload, Downloads
<1>6. down'.pc = "idle" /\ down'.outcome = "ok"
  BY <1>5, DownloadNumbers DEF Downloads
<1> QED BY <1>2, <1>6 DEF DownloadRepaired

\* The client of a download.
LEMMA DownloadClientRepairs ==
  ASSUME BlockInv, DownloadRepaired, DownloadStep, UNCHANGED <<up, serverVars, trouble>>
  PROVE  DownloadRepaired'
BY InitDownloadRepairs, WriteSegmentRepairs, NoWriteAfterEnd, EndRetransmitRepairs, EndWriteRepairs,
   BlockAckRepairs, CloseDownloadRepairs, EndDownloadRepairs DEF DownloadStep

-----------------------------------------------------------------------------
\* The server of a download.

LEMMA OnInitDownloadRepairs ==
  ASSUME BlockInv, DownloadRepaired, down.outcome = "running", AskedToDownload,
         NEW crc \in CrcChoices, NEW blksize \in BlkSizes, OnInitDownload(crc, blksize),
         UNCHANGED <<up, down>>
  PROVE  DownloadRepaired'
<1>1. crc \in BOOLEAN
  BY CrcAssumption
<1>2. /\ toServer' = Tail(toServer)
      /\ toClient' = toClient \o <<[kind |-> "init_download", crc |-> crc, blksize |-> blksize]>>
      /\ srv' = [Idle EXCEPT !.phase = "receiving", !.crc = crc, !.blksize = blksize]
  BY DEF OnInitDownload, Reply
<1>3. /\ toServer' = <<>>
      /\ toClient' = <<[kind |-> "init_download", crc |-> crc, blksize |-> blksize]>>
  BY <1>2 DEF AskedToDownload
<1>4. /\ srv'.phase = "receiving" /\ srv'.blksize = blksize /\ srv'.got = <<>> /\ srv'.seq = 0
  BY <1>2 DEF Idle
<1>5. down' = [FreshDownload EXCEPT !.pc = "init", !.outcome = "running"]
  BY DEF AskedToDownload
<1>6. ToldToWrite'
  BY <1>1, <1>3, <1>4, <1>5, Zenon DEF ToldToWrite
<1> QED BY <1>6, DownloadStageKept DEF Downloading

\* The next segment has come.
LEMMA NextSegmentRepairs ==
  ASSUME BlockInv, DownloadRepaired, WritesBlock, toServer # <<>>, NEW blksize \in BlkSizes,
         OnSegment(blksize), UNCHANGED <<up, down>>
  PROVE  DownloadRepaired'
<1>1. /\ InBlock /\ BlockGoesOn /\ toClient = <<>> /\ srv.phase = "receiving"
      /\ Received(Len(srv.got)) /\ down.pc \in {"write", "ack"}
  BY DEF WritesBlock, BlockGoesOn
<1>2. down.outcome = "running"
  BY <1>1, DownloadStages
<1>3. PICK s \in Nat, g \in Nat, l \in Nat, z \in Nat :
        srv.seq = s /\ Len(srv.got) = g /\ Len(toServer) = l /\ srv.blksize = z
  BY DownloadNumbers
<1>4. PICK p \in Nat, q \in Nat, limit \in Nat :
        /\ down.pos = p /\ down.seqno = q /\ p <= limit /\ limit <= Segments
        /\ down.done <=> p = Segments
  BY <1>1, WritesNumbers, Zenon
<1>5. /\ s + l = q /\ g + l = p /\ Comes(toServer, 0, s, g) /\ srv.got = Part(0, g)
  BY <1>1, <1>3, <1>4, Zenon DEF WritesBlock, IsRun, Received
<1>6. /\ toServer \in Seq(Requests) /\ l > 0 /\ Len(Tail(toServer)) = l - 1
      /\ Tail(toServer) \in Seq(Requests)
  <2>1. toServer \in Seq(Requests)
    BY DownloadNumbers
  <2> QED BY <1>3, <2>1
<1>7. Head(toServer) = NextSegment(s + 1, g + 1) /\ Comes(Tail(toServer), 0, s + 1, g + 1)
  BY <1>5, <1>6, ComesTail
<1>8. /\ Head(toServer).seq = s + 1 /\ Head(toServer).seg = g + 1
      /\ Head(toServer).last = (g + 1 = Segments)
  BY <1>7 DEF NextSegment, Segment
<1>9. Append(srv.got, g + 1) = Part(0, g + 1) /\ g + 1 <= Segments
  <2>1. 0 \in Nat /\ 0 <= g /\ g + 1 <= Segments
    BY <1>4, <1>5, <1>6, BlockAssumption
  <2> QED BY <1>5, <2>1, PartAppend
<1>10. /\ toServer' = Tail(toServer) /\ UNCHANGED <<stored, trouble>>
       /\ IF g + 1 = Segments \/ s + 1 = z
          THEN /\ toClient' = toClient \o <<Ack(s + 1, blksize)>>
               /\ srv' = [srv EXCEPT !.got = Part(0, g + 1), !.seq = 0, !.blksize = blksize,
                            !.phase = IF g + 1 = Segments THEN "complete" ELSE @]
          ELSE /\ toClient' = toClient \o <<>>
               /\ srv' = [srv EXCEPT !.got = Part(0, g + 1), !.seq = s + 1]
  <2> DEFINE f == Head(toServer)
             inOrder == f.seq = srv.seq + 1
             seq == IF inOrder THEN f.seq ELSE srv.seq
             got == IF inOrder THEN Append(srv.got, f.seg) ELSE srv.got
  <2>1. /\ UNCHANGED <<stored, trouble>>
        /\ IF f.last \/ f.seq = srv.blksize
            THEN /\ Reply(<<Ack(seq, blksize)>>)
                 /\ srv' = [srv EXCEPT !.got = got, !.seq = 0, !.blksize = blksize,
                              !.phase = IF f.last /\ inOrder THEN "complete" ELSE @]
            ELSE /\ Reply(<<>>)
                 /\ srv' = [srv EXCEPT !.got = got, !.seq = seq]
    BY Zenon DEF OnSegment
  <2>2. inOrder
    BY <1>3, <1>8, Zenon
  <2>3. seq = s + 1 /\ got = Part(0, g + 1)
    BY <1>8, <1>9, <2>2, Zenon
  <2>4. f.last = (g + 1 = Segments) /\ f.seq = s + 1
    BY <1>8
  <2> HIDE DEF f, inOrder, seq, got
  <2>5. CASE g + 1 = Segments \/ s + 1 = z
    <3>1. /\ Reply(<<Ack(s + 1, blksize)>>)
          /\ srv' = [srv EXCEPT !.got = Part(0, g + 1), !.seq = 0, !.blksize = blksize,
                              !.phase = IF g + 1 = Segments THEN "complete" ELSE @]
      BY <1>3, <2>1, <2>2, <2>3, <2>4, <2>5, Zenon
    <3> QED BY <2>1, <2>5, <3>1, Zenon DEF Reply
  <2>6. CASE ~(g + 1 = Segments \/ s + 1 = z)
    <3>1. Reply(<<>>) /\ srv' = [srv EXCEPT !.got = Part(0, g + 1), !.seq = s + 1]
      BY <1>3, <2>1, <2>3, <2>4, <2>6, Zenon
    <3> QED BY <2>1, <2>6, <3>1, Zenon DEF Reply
  <2> QED BY <2>5, <2>6
<1>11. srv \in ServerStates /\ Len(Part(0, g + 1)) = g + 1
  <2>1. 0 \in Nat /\ g + 1 \in Nat /\ 0 <= g + 1 /\ g + 1 - 0 = g + 1
    OBVIOUS
  <2>2. Len(Part(0, g + 1)) = g + 1 - 0
    BY <2>1, PartLen
  <2> QED BY <2>1, <2>2, DownloadNumbers, Zenon
<1>12. UNCHANGED <<down, trouble>> => InBlock'
  BY <1>1 DEF InBlock, Writes
<1>13. CASE g + 1 = Segments \/ s + 1 = z
  <2>1. l = 1 /\ down.pc = "ack" /\ down.blksize = down.seqno
    <3>1. CASE g + 1 = Segments
      <4>1. l = 1 /\ p = Segments
        BY <1>4, <1>5, <1>6, <3>1, BlockAssumption
      <4>2. down.done
        BY <1>4, <4>1
      <4> QED BY <1>1, <4>1, <4>2 DEF BlockGoesOn
    <3>2. CASE s + 1 = z
      <4>1. ~(q < z) /\ (q <= z => l = 1)
        BY <1>5, <1>6, <3>2
      <4>2. down.pc = "ack"
        BY <1>1, <1>3, <1>4, <4>1 DEF BlockGoesOn
      <4> QED BY <1>1, <1>3, <1>4, <4>1, <4>2 DEF BlockGoesOn
    <3> QED BY <1>13, <3>1, <3>2
  <2>2. s + 1 = q /\ g + 1 = p /\ l - 1 = 0
    BY <1>5, <2>1
  <2>3. toServer' = <<>>
    <3>1. Len(Tail(toServer)) = 0
      BY <1>6, <2>2
    <3> QED BY <1>6, <1>10, <3>1, EmptySeq
  <2>4. /\ srv'.got = Part(0, p) /\ srv'.seq = 0 /\ srv'.blksize = blksize
        /\ srv'.phase = IF p = Segments THEN "complete" ELSE "receiving"
    <3>1. srv' = [srv EXCEPT !.got = Part(0, p), !.seq = 0, !.blksize = blksize,
                            !.phase = IF p = Segments THEN "complete" ELSE @]
      BY <1>10, <1>13, <2>2, Zenon
    <3> QED BY <1>1, <1>11, <3>1 DEF ServerStates
  <2>5. toClient' = <<Ack(q, blksize)>>
    BY <1>1, <1>10, <1>13, <2>2
  <2>6. Received(down.pos)'
    BY <1>4, <1>9, <2>2, <2>4, Zenon DEF Received
  <2>7. /\ toClient' = <<Ack(down'.seqno, srv'.blksize)>>
        /\ srv'.phase = IF down'.done THEN "complete" ELSE "receiving"
        /\ down'.pc = "ack" /\ down'.blksize = down'.seqno
    <3>1. down' = down
      OBVIOUS
    <3>2. srv'.phase = IF down.done THEN "complete" ELSE "receiving"
      BY <1>4, <2>4
    <3> QED BY <1>4, <2>1, <2>4, <2>5, <3>1, <3>2, Zenon
  <2>8. InBlock'
    BY <1>10, <1>12, Zenon
  <2>9. BlockAnswered'
    BY <2>3, <2>4, <2>6, <2>7, <2>8, Zenon DEF BlockAnswered
  <2> QED BY <1>2, <2>9, DownloadStageKept DEF Downloading
<1>14. CASE ~(g + 1 = Segments \/ s + 1 = z)
  <2>1. toServer' = Tail(toServer) /\ toClient' = <<>>
    BY <1>1, <1>10, <1>14
  <2>2. /\ srv'.got = Part(0, g + 1) /\ srv'.seq = s + 1 /\ srv'.blksize = srv.blksize
        /\ srv'.phase = "receiving"
    <3>1. srv' = [srv EXCEPT !.got = Part(0, g + 1), !.seq = s + 1]
      BY <1>10, <1>14, Zenon
    <3> QED BY <1>1, <1>11, <3>1 DEF ServerStates
  <2>3. Len(srv'.got) = g + 1
    BY <1>11, <2>2
  <2>4. Received(Len(srv.got))'
    BY <1>9, <2>2, <2>3, Zenon DEF Received
  <2>5. IsRun(toServer', srv'.seq, Len(srv'.got))
    BY <1>7, <2>1, <2>2, <2>3, Zenon DEF IsRun
  <2>6. srv'.seq + Len(toServer') = down'.seqno /\ Len(srv'.got) + Len(toServer') = down'.pos
    <3>1. PICK m \in Nat : m = Len(toServer') /\ m = l - 1
      <4>1. l - 1 \in Nat /\ Len(toServer') = l - 1
        BY <1>6, <2>1
      <4> QED BY <4>1
    <3>2. s + 1 + m = q /\ g + 1 + m = p
      BY <1>5, <3>1
    <3> QED BY <1>4, <2>2, <2>3, <3>1, <3>2, Zenon
  <2>7. BlockGoesOn'
    <3>1. ASSUME down.pc = "ack" PROVE toServer' # <<>>
      <4>1. SUFFICES ASSUME toServer' = <<>> PROVE FALSE
        OBVIOUS
      <4>2. Len(<<>>) = 0
        OBVIOUS
      <4>3. l - 1 = 0
        BY <1>6, <2>1, <4>1, <4>2, Zenon
      <4>4. q = s + 1 /\ p = g + 1
        BY <1>5, <4>3
      <4>5. p = Segments \/ q = z
        BY <1>1, <1>3, <1>4, <3>1 DEF BlockGoesOn
      <4> QED BY <1>14, <4>4, <4>5, Zenon
    <3> QED BY <1>1, <2>2, <3>1 DEF BlockGoesOn
  <2>8. InBlock'
    BY <1>10, <1>12, Zenon
  <2>9. WritesBlock'
    BY <2>1, <2>2, <2>4, <2>5, <2>6, <2>7, <2>8, Zenon DEF WritesBlock
  <2> QED BY <1>2, <2>9, DownloadStageKept DEF Downloading
<1> QED BY <1>13, <1>14

\* A segment behind the gap has come: it is ignored, and the last one of the block is
\* answered with the number of the one before the gap.
LEMMA SegmentBehindRepairs ==
  ASSUME BlockInv, DownloadRepaired, SegmentMissed, toServer # <<>>, NEW blksize \in BlkSizes,
         OnSegment(blksize), UNCHANGED <<up, down>>
  PROVE  DownloadRepaired'
<1>1. /\ InBlock /\ BlockGoesOn /\ toClient = <<>> /\ srv.phase = "receiving"
      /\ Received(Len(srv.got)) /\ down.pc \in {"write", "ack"}
      /\ trouble = <<"segment">> /\ ~down.retransmitting
  BY DEF SegmentMissed, BlockGoesOn
<1>2. down.outcome = "running"
  BY <1>1, DownloadStages
<1>3. PICK s \in Nat, g \in Nat, l \in Nat, z \in Nat :
        srv.seq = s /\ Len(srv.got) = g /\ Len(toServer) = l /\ srv.blksize = z
  BY DownloadNumbers
<1>4. PICK p \in Nat, q \in Nat, limit \in Nat :
        /\ down.pos = p /\ down.seqno = q /\ q <= p /\ p <= limit /\ limit <= Segments
        /\ down.done <=> p = Segments
  BY <1>1, WritesNumbers, Zenon
<1>5. /\ p + s = q + g /\ p + z < Segments + q /\ s + 1 < z /\ s + 1 + l <= q
      /\ Comes(toServer, 0, q - l, p - l)
  BY <1>3, <1>4, Zenon DEF SegmentMissed, IsRun
<1>6. q <= z /\ p < Segments
  <2>1. q <= z
    BY <1>1, <1>3, <1>4 DEF BlockGoesOn
  <2> QED BY <1>4, <1>5, <2>1, BlockAssumption
<1>7. /\ toServer \in Seq(Requests) /\ l > 0 /\ Len(Tail(toServer)) = l - 1
      /\ Tail(toServer) \in Seq(Requests)
  <2>1. toServer \in Seq(Requests)
    BY DownloadNumbers
  <2> QED BY <1>3, <2>1
<1>8. PICK a \in Nat, b \in Nat, m \in Nat :
        /\ a = q - l /\ b = p - l /\ m = l - 1 /\ a + 1 = q - m /\ b + 1 = p - m
        /\ a + 1 # s + 1 /\ s + 1 + m <= q /\ b + 1 <= p /\ a + 1 + m = q
  <2>1. q - l \in Nat /\ p - l \in Nat /\ l - 1 \in Nat
    BY <1>4, <1>5, <1>7
  <2>2. /\ q - l + 1 = q - (l - 1) /\ p - l + 1 = p - (l - 1)
        /\ q - l + 1 # s + 1 /\ s + 1 + (l - 1) <= q
        /\ p - l + 1 <= p /\ q - l + 1 + (l - 1) = q
    BY <1>5, <1>7
  <2> QED BY <2>1, <2>2
<1>9. Head(toServer) = NextSegment(a + 1, b + 1) /\ Comes(Tail(toServer), 0, a + 1, b + 1)
  <2>1. Comes(toServer, 0, a, b)
    BY <1>5, <1>8
  <2> QED BY <1>7, <2>1, ComesTail
<1>10. Head(toServer).seq = a + 1 /\ Head(toServer).last = (b + 1 = Segments)
  BY <1>9 DEF NextSegment, Segment
<1>11. ~Head(toServer).last
  <2>1. b + 1 # Segments
    BY <1>6, <1>8, BlockAssumption
  <2> QED BY <1>10, <2>1
<1>12. /\ toServer' = Tail(toServer) /\ UNCHANGED <<stored, trouble>>
       /\ IF a + 1 = z
          THEN /\ toClient' = toClient \o <<Ack(s, blksize)>>
               /\ srv' = [srv EXCEPT !.seq = 0, !.blksize = blksize]
          ELSE toClient' = toClient \o <<>> /\ srv' = srv
  <2> DEFINE f == Head(toServer)
             inOrder == f.seq = srv.seq + 1
             seq == IF inOrder THEN f.seq ELSE srv.seq
             got == IF inOrder THEN Append(srv.got, f.seg) ELSE srv.got
  <2>1. /\ UNCHANGED <<stored, trouble>>
        /\ IF f.last \/ f.seq = srv.blksize
            THEN /\ Reply(<<Ack(seq, blksize)>>)
                 /\ srv' = [srv EXCEPT !.got = got, !.seq = 0, !.blksize = blksize,
                              !.phase = IF f.last /\ inOrder THEN "complete" ELSE @]
            ELSE /\ Reply(<<>>)
                 /\ srv' = [srv EXCEPT !.got = got, !.seq = seq]
    BY Zenon DEF OnSegment
  <2>2. ~inOrder /\ f.seq = a + 1 /\ ~f.last
    BY <1>3, <1>8, <1>10, <1>11, Zenon
  <2>3. seq = s /\ got = srv.got
    BY <1>3, <2>2, Zenon
  <2>4. srv \in ServerStates /\ srv.seq = s
    BY <1>3, DownloadNumbers
  <2> HIDE DEF f, inOrder, seq, got
  <2>5. CASE a + 1 = z
    <3>1. /\ Reply(<<Ack(s, blksize)>>)
          /\ srv' = [srv EXCEPT !.got = srv.got, !.seq = 0, !.blksize = blksize,
                       !.phase = srv.phase]
      BY <1>3, <2>1, <2>2, <2>3, <2>5, Zenon
    <3>2. srv' = [srv EXCEPT !.seq = 0, !.blksize = blksize]
      BY <2>4, <3>1 DEF ServerStates
    <3> QED BY <2>1, <2>5, <3>1, <3>2, Zenon DEF Reply
  <2>6. CASE a + 1 # z
    <3>1. Reply(<<>>) /\ srv' = [srv EXCEPT !.got = srv.got, !.seq = s]
      BY <1>3, <2>1, <2>2, <2>3, <2>6, Zenon
    <3>2. srv' = srv
      BY <2>4, <3>1 DEF ServerStates
    <3> QED BY <2>1, <2>6, <3>1, <3>2, Zenon DEF Reply
  <2> QED BY <2>5, <2>6
<1>13. InBlock'
  BY <1>1, <1>12 DEF InBlock, Writes
<1>14. srv \in ServerStates /\ ~down.done
  <2>1. p # Segments
    BY <1>6, BlockAssumption
  <2> QED BY <1>4, <2>1, DownloadNumbers
<1>15. CASE a + 1 = z
  <2>1. q = z /\ l = 1
    BY <1>5, <1>6, <1>7, <1>8, <1>15
  <2>2. down.pc = "ack" /\ down.blksize = down.seqno
    BY <1>1, <1>3, <1>4, <2>1 DEF BlockGoesOn
  <2>3. toServer' = <<>>
    <3>1. Len(Tail(toServer)) = 0
      BY <1>7, <2>1
    <3> QED BY <1>7, <1>12, <3>1, EmptySeq
  <2>4. toClient' = <<Ack(s, blksize)>>
    BY <1>1, <1>12, <1>15
  <2>5. /\ srv'.seq = 0 /\ srv'.blksize = blksize /\ srv'.got = srv.got /\ srv'.phase = "receiving"
    <3>1. srv' = [srv EXCEPT !.seq = 0, !.blksize = blksize]
      BY <1>12, <1>15
    <3> QED BY <1>1, <1>14, <3>1 DEF ServerStates
  <2>6. Received(Len(srv.got))'
    BY <1>1, <2>5, Zenon DEF Received
  <2>7. \E seq \in 0 .. down'.seqno - 1 :
          /\ toClient' = <<Ack(seq, srv'.blksize)>>
          /\ down'.pos - down'.seqno + seq = Len(srv'.got)
    <3>1. s \in 0 .. q - 1 /\ p - q + s = g
      BY <1>4, <1>5
    <3>2. down'.seqno = q /\ down'.pos = p /\ Len(srv'.got) = g
      BY <1>3, <1>4, <2>5
    <3>3. s \in 0 .. down'.seqno - 1
      BY <3>1, <3>2
    <3>4. down'.pos - down'.seqno + s = Len(srv'.got)
      BY <3>1, <3>2
    <3>5. toClient' = <<Ack(s, srv'.blksize)>>
      BY <2>4, <2>5
    <3> QED BY <3>3, <3>4, <3>5, Zenon
  <2>8. GapAnswered'
    BY <1>1, <1>12, <1>13, <1>14, <2>2, <2>3, <2>5, <2>6, <2>7, Zenon DEF GapAnswered
  <2> QED BY <1>2, <2>8, DownloadStageKept DEF Downloading
<1>16. CASE a + 1 # z
  <2>1. toServer' = Tail(toServer) /\ toClient' = <<>> /\ UNCHANGED <<srv, trouble>>
    BY <1>1, <1>12, <1>16
  <2>2. Len(toServer') = m
    BY <1>7, <1>8, <2>1
  <2>3. Received(Len(srv.got))'
    BY <1>1, <2>1, Zenon DEF Received
  <2>4. IsRun(toServer', down'.seqno - Len(toServer'), down'.pos - Len(toServer'))
    <3>1. down'.seqno - Len(toServer') = a + 1 /\ down'.pos - Len(toServer') = b + 1
      BY <1>4, <1>8, <2>2
    <3> QED BY <1>9, <2>1, <3>1 DEF IsRun
  <2>5. BlockGoesOn'
    <3>1. ASSUME down.pc = "ack" PROVE toServer' # <<>>
      <4>1. q = z
        BY <1>1, <1>3, <1>4, <1>14, <3>1 DEF BlockGoesOn
      <4>2. m # 0
        BY <1>8, <1>16, <4>1
      <4>3. Len(<<>>) = 0
        OBVIOUS
      <4> QED BY <2>2, <4>2, <4>3, Zenon
    <3> QED BY <1>1, <2>1, <3>1 DEF BlockGoesOn
  <2>6. /\ down'.pos + srv'.seq = down'.seqno + Len(srv'.got)
        /\ down'.pos + srv'.blksize < Segments + down'.seqno /\ srv'.seq + 1 < srv'.blksize
        /\ srv'.seq + 1 + Len(toServer') <= down'.seqno
    BY <1>3, <1>4, <1>5, <1>8, <2>1, <2>2, Zenon
  <2>7. SegmentMissed'
    BY <1>1, <1>13, <2>1, <2>3, <2>4, <2>5, <2>6, Zenon DEF SegmentMissed
  <2> QED BY <1>2, <2>7, DownloadStageKept DEF Downloading
<1> QED BY <1>15, <1>16

LEMMA OnEndDownloadRepairs ==
  ASSUME BlockInv, DownloadRepaired, down.outcome = "running", AsksToEnd, OnEndDownload,
         UNCHANGED <<up, down>>
  PROVE  DownloadRepaired'
<1>1. /\ toServer' = Tail(toServer) /\ toClient' = toClient \o <<[kind |-> "end_download"]>>
      /\ srv' = Idle
  BY DEF OnEndDownload, Reply
<1>2. toServer' = <<>> /\ toClient' = <<[kind |-> "end_download"]>> /\ srv'.phase = "idle"
  BY <1>1 DEF AsksToEnd, Idle
<1>3. ToldItsEnd'
  BY <1>2 DEF AsksToEnd, ToldItsEnd
<1> QED BY <1>3, DownloadStageKept DEF Downloading

LEMMA DownloadRequestRepairs ==
  ASSUME BlockInv, DownloadRepaired, OnRequest, UNCHANGED <<up, down>>
  PROVE  DownloadRepaired'
<1>1. CASE down.outcome = "ok" /\ down.pc = "idle"
  BY <1>1 DEF DownloadRepaired
<1>2. CASE down.outcome = "running" /\ Downloading
  <2>1. toServer # <<>>
    BY RequestIsHandled, Zenon
  <2>2. AskedToDownload \/ WritesBlock \/ SegmentMissed \/ AsksToEnd
    <3>1. ~(ToldToWrite \/ BlockAnswered \/ GapAnswered \/ AllWritten \/ WillEnd \/ ToldItsEnd)
      BY <2>1 DEF ToldToWrite, BlockAnswered, GapAnswered, AllWritten, WillEnd, ToldItsEnd
    <3> QED BY <1>2, <3>1, Zenon DEF Downloading
  <2>3. CASE AskedToDownload
    <3>1. Head(toServer).kind = "init_download"
      BY <2>3 DEF AskedToDownload
    <3>2. \E crc \in CrcChoices, blksize \in BlkSizes : OnInitDownload(crc, blksize)
      BY <3>1, RequestIsHandled, Zenon
    <3> QED BY <1>2, <2>3, <3>2, OnInitDownloadRepairs
  <2>4. CASE WritesBlock
    <3>1. srv.phase = "receiving"
      BY <2>4, Zenon DEF WritesBlock
    <3>2. PICK s \in Nat, g \in Nat : srv.seq = s /\ Len(srv.got) = g
      BY DownloadNumbers
    <3>3. Comes(toServer, 0, s, g) /\ toServer \in Seq(Requests)
      BY <2>4, <3>2, DownloadNumbers DEF WritesBlock, IsRun
    <3>4. Head(toServer) = NextSegment(s + 1, g + 1)
      BY <2>1, <3>3, ComesTail
    <3>5. Head(toServer).kind = "segment"
      BY <3>4 DEF NextSegment, Segment
    <3>6. \E blksize \in BlkSizes : OnSegment(blksize)
      BY <3>1, <3>5, RequestIsHandled, Zenon
    <3> QED BY <2>1, <2>4, <3>6, NextSegmentRepairs
  <2>5. CASE SegmentMissed
    <3>1. srv.phase = "receiving" /\ InBlock
      BY <2>5, Zenon DEF SegmentMissed
    <3>2. PICK p \in Nat, q \in Nat, s \in Nat, l \in Nat :
            down.pos = p /\ down.seqno = q /\ srv.seq = s /\ Len(toServer) = l /\ q <= p
      BY <3>1, DownloadNumbers DEF InBlock
    <3>3. Comes(toServer, 0, q - l, p - l) /\ toServer \in Seq(Requests) /\ s + 1 + l <= q
      BY <2>5, <3>2, DownloadNumbers DEF SegmentMissed, IsRun
    <3>4. PICK a \in Nat, b \in Nat : a = q - l /\ b = p - l
      <4>1. q - l \in Nat /\ p - l \in Nat
        BY <3>2, <3>3
      <4> QED BY <4>1
    <3>5. Head(toServer) = NextSegment(a + 1, b + 1)
      <4>1. Comes(toServer, 0, a, b)
        BY <3>3, <3>4
      <4> QED BY <2>1, <3>3, <4>1, ComesTail
    <3>6. Head(toServer).kind = "segment"
      BY <3>5 DEF NextSegment, Segment
    <3>7. \E blksize \in BlkSizes : OnSegment(blksize)
      BY <3>1, <3>6, RequestIsHandled, Zenon
    <3> QED BY <2>1, <2>5, <3>7, SegmentBehindRepairs
  <2>6. CASE AsksToEnd
    <3>1. Head(toServer).kind = "end_download" /\ srv.phase = "complete" /\ Head(toServer).crc = srv.got
      BY <2>6 DEF AsksToEnd, IsComplete
    <3>2. OnEndDownload
      BY <3>1, RequestIsHandled, Zenon
    <3> QED BY <1>2, <2>6, <3>2, OnEndDownloadRepairs
  <2> QED BY <2>2, <2>3, <2>4, <2>5, <2>6
<1> QED BY <1>1, <1>2, Zenon DEF DownloadRepaired

\* The server of a download sends no segments.
LEMMA DownloadSendsNone ==
  ASSUME DownloadRepaired, SendSegment \/ (toClient # <<>> /\ Head(toClient).kind = "segment"),
         UNCHANGED <<up, down>>
  PROVE  DownloadRepaired'
<1>1. CASE down.outcome = "ok" /\ down.pc = "idle"
  BY <1>1 DEF DownloadRepaired
<1>2. ~Downloading
  <2>1. CASE SendSegment
    <3>1. srv.phase = "sending"
      BY <2>1 DEF SendSegment
    <3> QED BY <3>1, SMT DEF Downloading, AskedToDownload, ToldToWrite, WritesBlock, SegmentMissed,
           BlockAnswered, GapAnswered, AllWritten, WillEnd, AsksToEnd, ToldItsEnd, IsComplete
  <2>2. CASE toClient # <<>> /\ Head(toClient).kind = "segment"
    <3>1. ~(AskedToDownload \/ WritesBlock \/ SegmentMissed \/ AllWritten \/ WillEnd \/ AsksToEnd)
      BY <2>2 DEF AskedToDownload, WritesBlock, SegmentMissed, AllWritten, WillEnd, AsksToEnd
    <3>2. ~ToldToWrite
      BY <2>2 DEF ToldToWrite
    <3>3. ~BlockAnswered
      BY <2>2 DEF BlockAnswered, Ack
    <3>4. ~GapAnswered
      BY <2>2 DEF GapAnswered, Ack
    <3>5. ~ToldItsEnd
      BY <2>2 DEF ToldItsEnd
    <3> QED BY <3>1, <3>2, <3>3, <3>4, <3>5, Zenon DEF Downloading
  <2> QED BY <2>1, <2>2
<1> QED BY <1>1, <1>2, Zenon DEF DownloadRepaired

-----------------------------------------------------------------------------
\* What goes wrong in a download.

\* The lost segment is the next one, and the last one of the block will show it.
LEMMA LostSegmentIsShown ==
  ASSUME BlockInv, DownloadRepaired, trouble = <<>>, trouble' = <<"segment">>, toServer # <<>>,
         LeavesGap(Head(toServer), ~InLastBlock(Head(toServer))), toServer' = Tail(toServer),
         UNCHANGED <<toClient, up, down, serverVars>>
  PROVE  DownloadRepaired'
<1>1. CASE down.outcome = "ok" /\ down.pc = "idle"
  BY <1>1 DEF DownloadRepaired
<1>2. CASE down.outcome = "running" /\ Downloading
  <2>1. /\ Head(toServer).kind = "segment" /\ Head(toServer).seq < srv.blksize
        /\ ~(Head(toServer).seg - Head(toServer).seq + srv.blksize >= Segments)
    BY DEF LeavesGap, InLastBlock
  <2>2. WritesBlock
    <3>1. ~(ToldToWrite \/ BlockAnswered \/ GapAnswered \/ AllWritten \/ WillEnd \/ ToldItsEnd)
      BY DEF ToldToWrite, BlockAnswered, GapAnswered, AllWritten, WillEnd, ToldItsEnd
    <3>2. ~AskedToDownload
      BY <2>1 DEF AskedToDownload
    <3>3. ~AsksToEnd
      BY <2>1 DEF AsksToEnd
    <3>4. ~SegmentMissed
      BY DEF SegmentMissed
    <3> QED BY <1>2, <3>1, <3>2, <3>3, <3>4, Zenon DEF Downloading
  <2>3. /\ InBlock /\ BlockGoesOn /\ toClient = <<>> /\ srv.phase = "receiving"
        /\ Received(Len(srv.got)) /\ down.pc \in {"write", "ack"}
    BY <2>2 DEF WritesBlock, BlockGoesOn
  <2>4. PICK s \in Nat, g \in Nat, l \in Nat, z \in Nat :
          srv.seq = s /\ Len(srv.got) = g /\ Len(toServer) = l /\ srv.blksize = z
    BY DownloadNumbers
  <2>5. PICK p \in Nat, q \in Nat, limit \in Nat :
          /\ down.pos = p /\ down.seqno = q /\ q <= p /\ p <= limit /\ limit <= Segments
          /\ down.done <=> p = Segments
          /\ down.retransmitting => trouble = <<"segment">>
    BY <2>3, WritesNumbers, Zenon
  <2>6. s + l = q /\ g + l = p /\ Comes(toServer, 0, s, g)
    BY <2>2, <2>4, <2>5, Zenon DEF WritesBlock, IsRun
  <2>7. /\ toServer \in Seq(Requests) /\ l > 0 /\ Len(Tail(toServer)) = l - 1
    <3>1. toServer \in Seq(Requests)
      BY DownloadNumbers
    <3> QED BY <2>4, <3>1
  <2>8. Head(toServer) = NextSegment(s + 1, g + 1) /\ Comes(Tail(toServer), 0, s + 1, g + 1)
    BY <2>6, <2>7, ComesTail
  <2>9. s + 1 < z /\ ~(g + 1 - (s + 1) + z >= Segments)
    <3>1. Head(toServer).seq = s + 1 /\ Head(toServer).seg = g + 1
      BY <2>8 DEF NextSegment, Segment
    <3> QED BY <2>1, <2>4, <3>1
  <2>10. PICK m \in Nat : m = l - 1
    BY <2>7
  <2>11. /\ p + s = q + g /\ p + z < Segments + q /\ s + 1 + m <= q /\ q - m = s + 1 /\ p - m = g + 1
    BY <2>6, <2>7, <2>9, <2>10, BlockAssumption
  <2>12. UNCHANGED <<srv, stored>> /\ Len(toServer') = m
    BY <2>7, <2>10 DEF serverVars
  <2>13. ~down.retransmitting
    <3>1. <<"segment">> # <<>>
      OBVIOUS
    <3> QED BY <2>5, <3>1, Zenon
  <2>14. InBlock'
    <3>1. PICK to \in 0 .. Segments : Writes(to)
      BY <2>3 DEF InBlock
    <3>2. Writes(to)'
      BY <2>13, <3>1, Zenon DEF Writes
    <3>3. \E to_1 \in 0 .. Segments : Writes(to_1)'
      BY <3>2
    <3> QED BY <2>3, <3>3, Zenon DEF InBlock
  <2>15. BlockGoesOn'
    <3>1. ASSUME down.pc = "ack" PROVE toServer' # <<>>
      <4>1. q <= z /\ (p = Segments \/ q = z)
        BY <2>3, <2>4, <2>5, <3>1 DEF BlockGoesOn
      <4>2. m # 0
        BY <2>9, <2>11, <4>1, BlockAssumption
      <4>3. Len(<<>>) = 0
        OBVIOUS
      <4> QED BY <2>12, <4>2, <4>3, Zenon
    <3> QED BY <2>3, <2>12, <3>1 DEF BlockGoesOn
  <2>16. IsRun(toServer', down'.seqno - Len(toServer'), down'.pos - Len(toServer'))
    <3>1. down'.seqno - Len(toServer') = s + 1 /\ down'.pos - Len(toServer') = g + 1
      BY <2>5, <2>11, <2>12
    <3> QED BY <2>8, <3>1 DEF IsRun
  <2>17. /\ down'.pos + srv'.seq = down'.seqno + Len(srv'.got)
         /\ down'.pos + srv'.blksize < Segments + down'.seqno /\ srv'.seq + 1 < srv'.blksize
         /\ srv'.seq + 1 + Len(toServer') <= down'.seqno
    BY <2>4, <2>5, <2>9, <2>11, <2>12, Zenon
  <2>18. Received(Len(srv.got))'
    BY <2>3, <2>12, Zenon DEF Received
  <2>19. SegmentMissed'
    BY <2>3, <2>12, <2>13, <2>14, <2>15, <2>16, <2>17, <2>18, Zenon DEF SegmentMissed
  <2> QED BY <1>2, <2>19, DownloadStageKept DEF Downloading
<1> QED BY <1>1, <1>2, Zenon DEF DownloadRepaired

LEMMA DownloadIsAnswered ==
  ASSUME DownloadRepaired, Quiet
  PROVE  ~TimesOut
<1>1. down.pc \notin {"init", "ack", "end"}
  <2>1. toServer = <<>> /\ toClient = <<>>
    BY DEF Quiet
  <2>2. ~(AskedToDownload \/ ToldToWrite \/ BlockAnswered \/ GapAnswered \/ AsksToEnd \/ ToldItsEnd)
    BY <2>1 DEF AskedToDownload, ToldToWrite, BlockAnswered, GapAnswered, AsksToEnd, ToldItsEnd
  <2>3. down.pc = "ack" => ~(WritesBlock \/ SegmentMissed)
    BY <2>1 DEF WritesBlock, SegmentMissed, BlockGoesOn
  <2> QED BY <2>2, <2>3, DownloadStages
<1>2. up.pc = "idle"
  BY DEF DownloadRepaired, FreshUpload
<1> QED BY <1>1, <1>2 DEF TimesOut, UploadTimesOut, DownloadTimesOut, InitUploadTimesOut, ReadTimesOut,
       ResyncTimesOut, ResyncExpires, EndUploadTimesOut, InitDownloadTimesOut, BlockAckTimesOut,
       EndDownloadTimesOut

-----------------------------------------------------------------------------
\* The transfer.

\* The upload or the download begins.
LEMMA BeginTransferRepairs ==
  ASSUME NotBegun \/ UploadRepaired \/ DownloadRepaired, BeginTransfer
  PROVE  UploadRepaired' \/ DownloadRepaired'
<1>1. UNCHANGED <<srv, stored, trouble>>
  BY DEF BeginTransfer, serverVars
<1>2. NotBegun
  <2>1. up.outcome = "none" /\ down.outcome = "none"
    BY DEF BeginTransfer, Unused
  <2> QED BY <2>1 DEF UploadRepaired, DownloadRepaired
<1>3. /\ up = FreshUpload /\ down = FreshDownload /\ srv = Idle /\ toServer = <<>> /\ toClient = <<>>
  BY <1>2 DEF NotBegun, ChannelInit
<1>4. CASE BeginUpload /\ UNCHANGED down
  <2>1. /\ up' = [FreshUpload EXCEPT !.pc = "init", !.outcome = "running"]
        /\ toServer' = <<>> \o <<[kind |-> "init_upload"]>> /\ UNCHANGED toClient
    BY <1>3, <1>4, Zenon DEF BeginUpload, SendToServer
  <2>2. toServer' = <<[kind |-> "init_upload"]>>
    BY <2>1
  <2>3. /\ up'.pc = "init" /\ up'.outcome = "running" /\ ~up'.timedOut /\ up'.result = <<>>
        /\ up'.ackseq = 0
    BY <2>1 DEF FreshUpload
  <2>4. srv'.phase = "idle" /\ srv'.base = 0 /\ srv'.seq = 0
    BY <1>1, <1>3 DEF Idle
  <2>5. AskedToUpload'
    BY <1>3, <2>1, <2>2, <2>3, <2>4, Zenon DEF AskedToUpload, ReadNothing
  <2> QED BY <1>3, <1>4, <2>3, <2>5 DEF UploadRepaired, Uploading
<1>5. CASE BeginDownload /\ UNCHANGED up
  <2>1. /\ down' = [FreshDownload EXCEPT !.pc = "init", !.outcome = "running"]
        /\ toServer' = <<>> \o <<[kind |-> "init_download"]>> /\ UNCHANGED toClient
    BY <1>3, <1>5, Zenon DEF BeginDownload, SendToServer
  <2>2. toServer' = <<[kind |-> "init_download"]>>
    BY <2>1
  <2>3. down'.outcome = "running"
    BY <2>1 DEF FreshDownload
  <2>4. srv'.phase = "idle"
    BY <1>1, <1>3 DEF Idle
  <2>5. AskedToDownload'
    BY <1>3, <2>1, <2>2, <2>4, Zenon DEF AskedToDownload
  <2> QED BY <1>3, <1>5, <2>3, <2>5 DEF DownloadRepaired, Downloading
<1> QED BY <1>4, <1>5 DEF BeginTransfer

\* What went wrong is that one segment was lost, just now.
LEMMA OneLoss ==
  ASSUME BlockInv, NEW what \in Troubles, Trouble(what), trouble' \in Repairable
  PROVE  trouble = <<>> /\ trouble' = <<"segment">> /\ what = "segment"
<1>1. trouble \in Seq(Troubles) /\ trouble' = Append(trouble, what)
  BY DEF BlockInv, ChannelInv, Trouble
<1>2. /\ Len(trouble') = Len(trouble) + 1 /\ trouble'[Len(trouble) + 1] = what /\ Len(trouble) \in Nat
  BY <1>1
<1>3. trouble' # <<>>
  <2>1. Len(<<>>) = 0
    OBVIOUS
  <2>2. Len(trouble') # 0
    BY <1>2
  <2> QED BY <2>1, <2>2, Zenon
<1>4. trouble' = <<"segment">>
  BY <1>3, Zenon DEF Repairable
<1>5. Len(<<"segment">>) = 1 /\ <<"segment">>[1] = "segment"
  OBVIOUS
<1>6. Len(trouble) = 0
  BY <1>2, <1>4, <1>5
<1>7. what = "segment"
  <2>1. 0 + 1 = 1
    OBVIOUS
  <2> QED BY <1>2, <1>4, <1>5, <1>6, <2>1, Zenon
<1> QED BY <1>1, <1>4, <1>6, <1>7, EmptySeq

\* Nothing happens before the transfer begins.
LEMMA NothingBefore ==
  ASSUME NotBegun
  PROVE  /\ ~UploadStep /\ ~DownloadStep /\ ~TimesOut /\ ~SendSegment /\ ~OnRequest
         /\ toServer = <<>> /\ toClient = <<>>
<1>1. /\ up.pc = "idle" /\ down.pc = "idle" /\ srv.phase = "idle" /\ toServer = <<>> /\ toClient = <<>>
  BY DEF NotBegun, FreshUpload, FreshDownload, Idle, ChannelInit
<1>2. ~UploadStep
  BY <1>1 DEF UploadStep, StartUpload, ReadSegment, Resync, EndUpload, CloseUpload
<1>3. ~DownloadStep
  BY <1>1 DEF DownloadStep, InitDownload, WriteSegment, WriteAfterEnd, EndRetransmit, EndWrite,
     BlockAck, CloseDownload, EndDownload
<1>4. ~TimesOut
  BY <1>1 DEF TimesOut, UploadTimesOut, DownloadTimesOut, InitUploadTimesOut, ReadTimesOut,
     ResyncTimesOut, ResyncExpires, EndUploadTimesOut, InitDownloadTimesOut, BlockAckTimesOut,
     EndDownloadTimesOut
<1>5. ~SendSegment /\ ~OnRequest
  BY <1>1 DEF SendSegment, OnRequest
<1> QED BY <1>1, <1>2, <1>3, <1>4, <1>5

\* Nor does anything when a step changes nothing.
LEMMA StagesStay ==
  ASSUME UNCHANGED vars
  PROVE  /\ NotBegun => NotBegun'
         /\ UploadRepaired => UploadRepaired'
         /\ DownloadRepaired => DownloadRepaired'
<1>1. UNCHANGED <<up, down, toServer, toClient, trouble, srv, stored>>
  BY DEF vars, channelVars, serverVars
<1>2. NotBegun => NotBegun'
  BY <1>1, Zenon DEF NotBegun, ChannelInit
<1>3. SendsBlock => SendsBlock'
  BY <1>1, Zenon DEF SendsBlock
<1>4. Uploading => Uploading'
  <2>1. AskedToUpload \/ ToldToStart \/ Starts => Uploading'
    BY <1>1, Zenon DEF AskedToUpload, ToldToStart, Starts, ReadNothing, Uploading
  <2>2. ReadsBlock => Uploading'
    BY <1>1, <1>3, Zenon DEF ReadsBlock, HasRead, Uploading
  <2>3. MissesSegment => Uploading'
    BY <1>1, <1>3, Zenon DEF MissesSegment, HasRead, Uploading
  <2>4. AsksAgain => Uploading'
    BY <1>1, <1>3, Zenon DEF AsksAgain, HasRead, Uploading
  <2>5. Acknowledges => Uploading'
    BY <1>1, <1>3, Zenon DEF Acknowledges, HasRead, HasReadAll, Uploading
  <2>6. ToldTheEnd \/ WillClose => Uploading'
    BY <1>1, Zenon DEF ToldTheEnd, WillClose, HasReadAll, Uploading
  <2> QED BY <2>1, <2>2, <2>3, <2>4, <2>5, <2>6, Zenon DEF Uploading
<1>5. InBlock => InBlock'
  BY <1>1, Zenon DEF InBlock, Writes
<1>6. BlockGoesOn => BlockGoesOn'
  BY <1>1, Zenon DEF BlockGoesOn
<1>7. Downloading => Downloading'
  <2>1. AskedToDownload \/ ToldToWrite => Downloading'
    BY <1>1, Zenon DEF AskedToDownload, ToldToWrite, Downloading
  <2>2. WritesBlock => Downloading'
    BY <1>1, <1>5, <1>6, Zenon DEF WritesBlock, Received, Downloading
  <2>3. SegmentMissed => Downloading'
    BY <1>1, <1>5, <1>6, Zenon DEF SegmentMissed, Received, Downloading
  <2>4. BlockAnswered => Downloading'
    BY <1>1, <1>5, Zenon DEF BlockAnswered, Received, Downloading
  <2>5. GapAnswered => Downloading'
    BY <1>1, <1>5, Zenon DEF GapAnswered, Received, Downloading
  <2>6. AllWritten \/ WillEnd \/ AsksToEnd \/ ToldItsEnd => Downloading'
    BY <1>1, <1>5, Zenon DEF AllWritten, WillEnd, AsksToEnd, ToldItsEnd, IsComplete, Downloading
  <2> QED BY <2>1, <2>2, <2>3, <2>4, <2>5, <2>6, Zenon DEF Downloading
<1>8. UploadRepaired => UploadRepaired'
  BY <1>1, <1>4, Zenon DEF UploadRepaired
<1>9. DownloadRepaired => DownloadRepaired'
  BY <1>1, <1>7, Zenon DEF DownloadRepaired
<1> QED BY <1>2, <1>8, <1>9

\* The client and the server.
LEMMA ClientRepairs ==
  ASSUME BlockInv, NotBegun \/ UploadRepaired \/ DownloadRepaired, UploadClient \/ DownloadClient
  PROVE  UploadRepaired' \/ DownloadRepaired'
<1>1. ASSUME UploadRepaired PROVE UploadRepaired'
  <2>1. ~DownloadStep
    <3>1. down.pc = "idle"
      BY <1>1 DEF UploadRepaired, FreshDownload
    <3> QED BY <3>1 DEF DownloadStep, InitDownload, WriteSegment, WriteAfterEnd, EndRetransmit, EndWrite,
           BlockAck, CloseDownload, EndDownload
  <2> QED BY <1>1, <2>1, UploadClientRepairs DEF UploadClient, DownloadClient
<1>2. ASSUME DownloadRepaired PROVE DownloadRepaired'
  <2>1. ~UploadStep
    <3>1. up.pc = "idle"
      BY <1>2 DEF DownloadRepaired, FreshUpload
    <3> QED BY <3>1 DEF UploadStep, StartUpload, ReadSegment, Resync, EndUpload, CloseUpload
  <2> QED BY <1>2, <2>1, DownloadClientRepairs DEF UploadClient, DownloadClient
<1>3. ~NotBegun
  BY NothingBefore DEF UploadClient, DownloadClient
<1> QED BY <1>1, <1>2, <1>3

LEMMA ServerRepairs ==
  ASSUME BlockInv, NotBegun \/ UploadRepaired \/ DownloadRepaired, ServerStep, UNCHANGED <<up, down>>
  PROVE  UploadRepaired' \/ DownloadRepaired'
<1>1. ~NotBegun
  BY NothingBefore DEF ServerStep
<1>2. ASSUME UploadRepaired PROVE UploadRepaired'
  BY <1>2, SendSegmentRepairs, UploadRequestRepairs DEF ServerStep
<1>3. ASSUME DownloadRepaired PROVE DownloadRepaired'
  BY <1>3, DownloadSendsNone, DownloadRequestRepairs DEF ServerStep
<1> QED BY <1>1, <1>2, <1>3

LEMMA ServerMakesNoTrouble == ServerStep => UNCHANGED trouble
BY Zenon DEF ServerStep, SendSegment, OnRequest, OnInitUpload, OnStartUpload, OnAck, OnEndUpload,
   OnInitDownload, OnSegment, OnEndDownload, OnAbort, OnUnexpected

LEMMA LoseRepairs ==
  ASSUME BlockInv, RepairInv, Lose, trouble' \in Repairable
  PROVE  UploadRepaired' \/ DownloadRepaired'
<1>1. UNCHANGED <<up, down, serverVars>>
  BY DEF Lose
<1>2. CASE LoseRequest(LeavesGap(Head(toServer), ~InLastBlock(Head(toServer))))
  <2> DEFINE gap == LeavesGap(Head(toServer), ~InLastBlock(Head(toServer)))
             what == IF gap THEN "segment" ELSE "frame"
  <2>1. /\ toServer # <<>> /\ toServer' = Tail(toServer) /\ UNCHANGED toClient /\ Trouble(what)
    BY <1>2 DEF LoseRequest
  <2>2. what \in Troubles
    BY DEF Troubles
  <2>3. trouble = <<>> /\ trouble' = <<"segment">> /\ what = "segment"
    <3> HIDE DEF what
    <3> QED BY <2>1, <2>2, OneLoss
  <2>4. gap
    BY <2>3
  <2>5. Head(toServer).kind = "segment"
    BY <2>4 DEF LeavesGap
  <2>6. UploadRepaired \/ DownloadRepaired
    BY <2>1, <2>3, NothingBefore DEF RepairInv, Repairable
  <2> QED BY <1>1, <2>1, <2>3, <2>4, <2>5, <2>6, UploadSendsNone, LostSegmentIsShown
<1>3. CASE LoseResponse(LeavesGap(Head(toClient), TRUE))
  <2> DEFINE gap == LeavesGap(Head(toClient), TRUE)
             what == IF gap THEN "segment" ELSE "frame"
  <2>1. /\ toClient # <<>> /\ toClient' = Tail(toClient) /\ UNCHANGED toServer /\ Trouble(what)
    BY <1>3 DEF LoseResponse
  <2>2. what \in Troubles
    BY DEF Troubles
  <2>3. trouble = <<>> /\ trouble' = <<"segment">> /\ what = "segment"
    <3> HIDE DEF what
    <3> QED BY <2>1, <2>2, OneLoss
  <2>4. gap
    BY <2>3
  <2>5. Head(toClient).kind = "segment"
    BY <2>4 DEF LeavesGap
  <2>6. UploadRepaired \/ DownloadRepaired
    BY <2>1, <2>3, NothingBefore DEF RepairInv, Repairable
  <2> QED BY <1>1, <2>1, <2>3, <2>4, <2>5, <2>6, LostSegmentIsMissed, DownloadSendsNone
<1> QED BY <1>2, <1>3 DEF Lose

LEMMA RepairInit == Init => RepairInv
BY DEF Init, ServerInit, UploadInit, DownloadInit, RepairInv, NotBegun

LEMMA RepairNext ==
  ASSUME BlockInv, RepairInv, [Next]_vars
  PROVE  RepairInv'
<1>1. SUFFICES ASSUME trouble' \in Repairable
               PROVE  (NotBegun \/ UploadRepaired \/ DownloadRepaired)'
  BY DEF RepairInv
<1> DEFINE Stage == NotBegun \/ UploadRepaired \/ DownloadRepaired
<1>2. ASSUME UNCHANGED trouble PROVE Stage
  BY <1>1, <1>2 DEF RepairInv
<1> HIDE DEF Stage
<1>3. CASE BeginTransfer
  <2>1. Stage
    BY <1>2, <1>3 DEF BeginTransfer
  <2> QED BY <1>3, <2>1, BeginTransferRepairs DEF Stage
<1>4. CASE UploadClient \/ DownloadClient
  <2>1. Stage
    BY <1>2, <1>4 DEF UploadClient, DownloadClient
  <2> QED BY <1>4, <2>1, ClientRepairs DEF Stage
<1>5. CASE WaitInVain
  <2>1. Stage /\ Quiet /\ TimesOut
    BY <1>2, <1>5 DEF WaitInVain
  <2> QED BY <2>1, NothingBefore, UploadIsAnswered, DownloadIsAnswered DEF Stage
<1>6. CASE WaitTooShort
  <2>1. Trouble("late") /\ "late" \in Troubles
    BY <1>6 DEF WaitTooShort, Troubles
  <2> QED BY <1>1, <2>1, OneLoss
<1>7. CASE SendFails
  <2>1. Trouble("send") /\ "send" \in Troubles
    BY <1>7 DEF SendFails, Troubles
  <2> QED BY <1>1, <2>1, OneLoss
<1>8. CASE ServerStep /\ UNCHANGED <<up, down>>
  <2>1. Stage
    BY <1>2, <1>8, ServerMakesNoTrouble
  <2> QED BY <1>8, <2>1, ServerRepairs DEF Stage
<1>9. CASE GiveUp /\ UNCHANGED <<up, down>>
  <2>1. Trouble("abort") /\ "abort" \in Troubles
    BY <1>9 DEF GiveUp, Troubles
  <2> QED BY <1>1, <2>1, OneLoss
<1>10. CASE Lose
  BY <1>1, <1>10, LoseRepairs
<1>11. CASE UNCHANGED vars
  <2>1. Stage
    BY <1>2, <1>11 DEF vars, channelVars
  <2> QED BY <1>11, <2>1, StagesStay DEF Stage
<1> QED BY <1>3, <1>4, <1>5, <1>6, <1>7, <1>8, <1>9, <1>10, <1>11 DEF Next, Server

\* Retransmission repairs what it is there for (the _retransmit of both streams): for
\* values of any number of segments and any sizes of blocks, a transfer in which nothing
\* went wrong but that one segment was lost does not fail, and moves the whole value.
THEOREM GapsAreRepaired == Spec => []OneGapIsRepaired
<1>1. RepairInv /\ DownloadStoresWhole => OneGapIsRepaired
  <2>1. SUFFICES ASSUME RepairInv, DownloadStoresWhole, trouble \in {<<>>, <<"segment">>}
                 PROVE  /\ up.outcome # "failed" /\ down.outcome # "failed"
                        /\ up.outcome = "ok" => up.result = Value
                        /\ down.outcome = "ok" => stored = Value
    BY Zenon DEF OneGapIsRepaired
  <2>2. NotBegun \/ UploadRepaired \/ DownloadRepaired
    BY <2>1, Zenon DEF RepairInv, Repairable
  <2>3. down.outcome = "ok" => stored = Value
    BY <2>1 DEF DownloadStoresWhole
  <2>4. ASSUME NotBegun PROVE up.outcome = "none" /\ down.outcome = "none"
    BY <2>4 DEF NotBegun, FreshUpload, FreshDownload
  <2>5. ASSUME UploadRepaired
        PROVE  /\ up.outcome \in {"running", "ok"} /\ down.outcome = "none"
               /\ up.outcome = "ok" => up.result = Value
    BY <2>5 DEF UploadRepaired, FreshDownload
  <2>6. ASSUME DownloadRepaired PROVE down.outcome \in {"running", "ok"} /\ up.outcome = "none"
    BY <2>6 DEF DownloadRepaired, FreshUpload
  <2> QED BY <2>2, <2>3, <2>4, <2>5, <2>6
<1> QED BY <1>1, RepairInit, RepairNext, BlockInvariant, DownloadsAreWhole, PTL DEF Spec

===============================================================================
