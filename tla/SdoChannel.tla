----------------------------- MODULE SdoChannel -----------------------------
(***************************************************************************)
(* The CAN frames of the SDO protocol and the two COB-IDs they travel on:  *)
(* client to server (0x600 + node) and server to client (0x580 + node).    *)
(*                                                                         *)
(* A frame is a record: "kind" stands for the command specifier (the bits  *)
(* of command & 0xE0), the other fields for what the receiver decodes from *)
(* the eight bytes.  Index and sub-index together are one object.          *)
(*                                                                         *)
(* CAN delivers frames of one identifier in order.  A frame can be lost (a *)
(* controller overrun, a receiver that is not listening yet) and a send    *)
(* can fail with CanError (a full transmit queue).                         *)
(***************************************************************************)
EXTENDS Naturals, Sequences

CONSTANTS
  Objects,        \* index and sub-index pairs a client may ask for
  Bytes,          \* the bytes that values are made of
  SegLen,         \* payload of one segment, 7 bytes on the wire
  ExpLen,         \* payload of one expedited frame, 4 bytes on the wire
  MaxLosses,      \* bound: frames the bus loses in a behaviour
  MaxSendFailures \* bound: sends that raise CanError in a behaviour

ASSUME LengthAssumption ==
  SegLen \in Nat /\ ExpLen \in Nat /\ 0 < ExpLen /\ ExpLen < SegLen

ASSUME BusBoundAssumption ==
  MaxLosses \in Nat /\ MaxSendFailures \in Nat

VARIABLES
  toServer,         \* frames under way on the server's receive COB-ID
  toClient,         \* frames under way on the client's receive COB-ID
  lossesLeft,       \* losses the bound still allows
  sendFailuresLeft  \* send failures the bound still allows

busVars == <<toServer, toClient, lossesLeft, sendFailuresLeft>>

Data == Seq(Bytes)
Bit == {0, 1}
\* Mutant: the toggle bit is counted up instead of inverted.
FlipCounting(t) == t + 1

Flip(t) == 1 - t

-----------------------------------------------------------------------------
\* Frames the client sends.

ReqInitUpload(o) == [kind |-> "init_upload", obj |-> o]
ReqSegUpload(t) == [kind |-> "seg_upload", toggle |-> t]
ReqInitDownload(o) == [kind |-> "init_download", obj |-> o]
ReqExpDownload(o, d) == [kind |-> "exp_download", obj |-> o, data |-> d]
ReqSegDownload(t, d, last) ==
  [kind |-> "seg_download", toggle |-> t, data |-> d, last |-> last]
ReqAbort(code) == [kind |-> "abort", code |-> code]

ClientAbortCodes == {"timed_out", "invalid_command", "toggle_not_alternated"}

Requests ==
       [kind : {"init_upload"}, obj : Objects]
  \cup [kind : {"seg_upload"}, toggle : Bit]
  \cup [kind : {"init_download"}, obj : Objects]
  \cup [kind : {"exp_download"}, obj : Objects, data : Data]
  \cup [kind : {"seg_download"}, toggle : Bit, data : Data, last : BOOLEAN]

AbortRequests == [kind : {"abort"}, code : ClientAbortCodes]

\* Frames the server sends.  The abort code of a response is carried by the
\* exception and nothing else depends on it, so it is left out.

RspExpUpload(o, d) == [kind |-> "exp_upload", obj |-> o, data |-> d]
RspInitUpload(o, n) == [kind |-> "init_upload", obj |-> o, size |-> n]
RspSegUpload(t, d, last) ==
  [kind |-> "seg_upload", toggle |-> t, data |-> d, last |-> last]
RspDownload(o) == [kind |-> "download", obj |-> o]
RspSegDownload(t) == [kind |-> "seg_download", toggle |-> t]
RspAbort == [kind |-> "abort"]

Responses ==
       [kind : {"exp_upload"}, obj : Objects, data : Data]
  \cup [kind : {"init_upload"}, obj : Objects, size : Nat]
  \cup [kind : {"seg_upload"}, toggle : Bit, data : Data, last : BOOLEAN]
  \cup [kind : {"download"}, obj : Objects]
  \cup [kind : {"seg_download"}, toggle : Bit]
  \cup [kind : {"abort"}]

-----------------------------------------------------------------------------
BusTypeOK ==
  /\ toServer \in Seq(Requests \cup AbortRequests)
  /\ toClient \in Seq(Responses)
  /\ lossesLeft \in 0..MaxLosses
  /\ sendFailuresLeft \in 0..MaxSendFailures

BusInit ==
  /\ toServer = <<>>
  /\ toClient = <<>>
  /\ lossesLeft = MaxLosses
  /\ sendFailuresLeft = MaxSendFailures

\* The bus drops the oldest frame of one direction.  Every frame is the oldest
\* at some time, so any subset of the frames (of at most MaxLosses) can be lost.
LoseRequest ==
  /\ lossesLeft > 0
  /\ toServer # <<>>
  /\ toServer' = Tail(toServer)
  /\ lossesLeft' = lossesLeft - 1
  /\ UNCHANGED <<toClient, sendFailuresLeft>>

LoseResponse ==
  /\ lossesLeft > 0
  /\ toClient # <<>>
  /\ toClient' = Tail(toClient)
  /\ lossesLeft' = lossesLeft - 1
  /\ UNCHANGED <<toServer, sendFailuresLeft>>

=============================================================================
