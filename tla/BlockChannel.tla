---------------------------- MODULE BlockChannel ----------------------------
(***************************************************************************)
(* The frames of SDO block transfers, the two COB-IDs they travel on, and  *)
(* what can go wrong on the way.                                           *)
(*                                                                         *)
(* The value of the one object that is moved is the sequence of its        *)
(* segments, 1 to Segments; its first and last bytes, its size and the     *)
(* padding of the last segment go with the segment.  A CRC stands for the  *)
(* segments it was computed over: two sequences never have the same.       *)
(*                                                                         *)
(* A client's queue of responses is the front of toClient: what the        *)
(* notifier has put there and what is still under way differ only when     *)
(* request_response empties the queue.                                     *)
(***************************************************************************)
EXTENDS Naturals, Sequences

CONSTANTS
  Segments,   \* segments of the value
  MaxBlkSize, \* bound: largest number of segments in a block (127 in the code)
  MaxTrouble  \* bound: what goes wrong during the transfer

ASSUME BlockAssumption ==
  /\ Segments \in Nat \ {0}
  /\ MaxBlkSize \in Nat \ {0}
  /\ MaxTrouble \in Nat

VARIABLES
  toServer,  \* frames under way to the server
  toClient,  \* frames under way to the client, and in its queue
  trouble    \* history: what went wrong so far

channelVars == <<toServer, toClient, trouble>>

Value == [i \in 1..Segments |-> i]
BlkSizes == 1..MaxBlkSize
Data == Seq(1..Segments)

\* Sequence numbers, of segments and of acknowledgements.
Segment(seq, seg, last) ==
  [kind |-> "segment", seq |-> seq, seg |-> seg, last |-> last]
Ack(seq, blksize) == [kind |-> "ack", seq |-> seq, blksize |-> blksize]
Abort == [kind |-> "abort"]

SegmentFrames == [kind : {"segment"}, seq : Nat, seg : 1..Segments, last : BOOLEAN]
AckFrames == [kind : {"ack"}, seq : Nat, blksize : BlkSizes]

Requests ==
       SegmentFrames \cup AckFrames
  \cup [kind : {"init_upload", "start_upload", "end_upload", "init_download", "abort"}]
  \cup [kind : {"end_download"}, crc : Data]

Responses ==
       SegmentFrames \cup AckFrames
  \cup [kind : {"init_upload"}, crc : BOOLEAN]
  \cup [kind : {"end_upload"}, crc : Data]
  \cup [kind : {"init_download"}, crc : BOOLEAN, blksize : BlkSizes]
  \cup [kind : {"end_download", "abort"}]

\* "segment": a segment that the receiver misses as soon as the next one of the
\* block comes.  "frame": any other frame.  "late": an answer that takes longer
\* than the client waits.  "send": a send that raises.  "abort": the server
\* refuses or gives up.
Troubles == {"segment", "frame", "late", "send", "abort"}

ChannelTypeOK ==
  /\ toServer \in Seq(Requests)
  /\ toClient \in Seq(Responses)
  /\ trouble \in Seq(Troubles)

ChannelInit ==
  /\ toServer = <<>>
  /\ toClient = <<>>
  /\ trouble = <<>>

SendToServer(frames) == toServer' = toServer \o frames

Trouble(what) ==
  /\ Len(trouble) < MaxTrouble
  /\ trouble' = Append(trouble, what)

\* gap says whether a lost segment leaves a gap that its receiver will see and
\* has repaired.
LoseRequest(gap) ==
  /\ toServer # <<>>
  /\ toServer' = Tail(toServer)
  /\ Trouble(IF gap THEN "segment" ELSE "frame")
  /\ UNCHANGED toClient

LoseResponse(gap) ==
  /\ toClient # <<>>
  /\ toClient' = Tail(toClient)
  /\ Trouble(IF gap THEN "segment" ELSE "frame")
  /\ UNCHANGED toServer

=============================================================================
