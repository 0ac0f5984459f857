--------------------------- MODULE BlockTransfer ----------------------------
(***************************************************************************)
(* A block transfer, in one direction or the other, between the library's  *)
(* client and a server, over a bus that may lose frames.                   *)
(***************************************************************************)
EXTENDS BlockUpload, BlockDownload, BlockServer

vars == <<up, down, channelVars, serverVars>>

TypeOK ==
  /\ ChannelTypeOK
  /\ ServerTypeOK
  /\ UploadTypeOK
  /\ DownloadTypeOK

Init ==
  /\ ChannelInit
  /\ ServerInit
  /\ UploadInit
  /\ DownloadInit

-----------------------------------------------------------------------------
Unused == up.outcome = "none" /\ down.outcome = "none"

BeginTransfer ==
  /\ Unused
  /\ \/ BeginUpload /\ UNCHANGED down
     \/ BeginDownload /\ UNCHANGED up
  /\ UNCHANGED <<serverVars, trouble>>

UploadClient == UploadStep /\ UNCHANGED <<down, serverVars, trouble>>

DownloadClient == DownloadStep /\ UNCHANGED <<up, serverVars, trouble>>

TimesOut ==
  \/ UploadTimesOut /\ UNCHANGED down
  \/ DownloadTimesOut /\ UNCHANGED up

Quiet == toServer = <<>> /\ toClient = <<>> /\ srv.phase # "sending"

\* queue.get() waits in vain: nothing is under way.
WaitInVain == Quiet /\ TimesOut /\ UNCHANGED <<serverVars, trouble>>

\* Or it does not wait long enough.
WaitTooShort == ~Quiet /\ TimesOut /\ Trouble("late") /\ UNCHANGED serverVars

SendFails ==
  /\ Trouble("send")
  /\ \/ UploadSendFails /\ UNCHANGED down
     \/ DownloadSendFails /\ UNCHANGED up
  /\ UNCHANGED serverVars

Server ==
  \/ ServerStep /\ UNCHANGED <<up, down>>
  \/ GiveUp /\ UNCHANGED <<up, down>>

\* A lost segment is noticed at once if it is not the last of its block.  A
\* client cannot repeat the last block of a download (WriteAfterEnd).
LeavesGap(f, repeatable) ==
  f.kind = "segment" /\ ~f.last /\ f.seq < srv.blksize /\ repeatable

InLastBlock(f) == f.seg - f.seq + srv.blksize >= Segments

Lose ==
  /\ \/ LoseRequest(LeavesGap(Head(toServer), ~InLastBlock(Head(toServer))))
     \/ LoseResponse(LeavesGap(Head(toClient), TRUE))
  /\ UNCHANGED <<up, down, serverVars>>

Next ==
  \/ BeginTransfer
  \/ UploadClient \/ DownloadClient
  \/ WaitInVain \/ WaitTooShort
  \/ SendFails
  \/ Server
  \/ Lose

\* The client's thread and the server run, and queue.get() returns.
Fairness ==
  /\ WF_vars(UploadClient)
  /\ WF_vars(DownloadClient)
  /\ WF_vars(WaitInVain)
  /\ WF_vars(ServerStep /\ UNCHANGED <<up, down>>)

Spec == Init /\ [][Next]_vars /\ Fairness

-----------------------------------------------------------------------------
\* The CRC makes up for what the sequence numbers let through: an upload that
\* returns with a CRC has the whole value, whatever was lost, late or repeated
\* (BlockUploadStream.read).
CheckedUploadIsWhole ==
  up.outcome = "ok" /\ up.crc => up.result = Value

\* A download stores the whole value or nothing, and the client is told "ok"
\* only if it is stored, with or without a CRC (BlockDownloadStream._retransmit
\* and close).
DownloadStoresWhole ==
  /\ stored \in {<<>>, Value}
  /\ down.outcome = "ok" => stored = Value

\* Retransmission repairs what it is there for: when nothing goes wrong but that
\* one segment is lost, and another of its block shows the gap, the transfer
\* succeeds (_retransmit of both streams).
OneGapIsRepaired ==
  trouble \in {<<>>, <<"segment">>} =>
    /\ up.outcome # "failed" /\ down.outcome # "failed"
    /\ up.outcome = "ok" => up.result = Value
    /\ down.outcome = "ok" => stored = Value

\* Every transfer ends, whatever is lost: no retransmission goes on for ever.
TransfersEnd ==
  up.outcome = "running" \/ down.outcome = "running"
    ~> up.outcome # "running" /\ down.outcome # "running"

-----------------------------------------------------------------------------
\* "We should be back in sync" (client.py, _retransmit): what is read after a
\* retransmission continues what was read before, so an upload that returns has
\* the whole value.
UploadIsWhole == up.outcome = "ok" => up.result = Value

\* "Sequence error, try to retransmit" (_block_ack): what _retransmit has to send again
\* is not refused by write().  It is, once the last segment has been sent; this does not
\* hold (README, findings).
LostIsSentAgain ==
  down.retransmitting /\ down.pc = "write" /\ Head(down.todo) # <<>> => ~down.done

=============================================================================
