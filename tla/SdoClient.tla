------------------------------ MODULE SdoClient ------------------------------
(***************************************************************************)
(* The SDO client: SdoClient.upload and download with the raw streams they *)
(* drive, ReadableStream and WritableStream, for expedited and segmented   *)
(* transfers.                                                              *)
(*                                                                         *)
(* Two threads: the application's, which makes one call after another, and *)
(* the notifier's, which puts every received frame in the responses queue. *)
(*                                                                         *)
(* download() writes through io.BufferedWriter with a buffer of one        *)
(* segment.  Its effect on the raw stream: write() is called with the data *)
(* that is not acknowledged yet until all is written or one call raises,   *)
(* and close() of the raw stream is called last in either case.            *)
(***************************************************************************)
EXTENDS SdoChannel

CONSTANTS
  MaxRetries,  \* MAX_RETRIES
  NoCall,      \* stands for the time before the first call
  NoRequest    \* no request is being made

\* With MAX_RETRIES = 0 the counters in request_response and send_request go
\* below zero and the loops never end; the model is about positive values.
ASSUME RetriesAssumption == MaxRetries \in Nat \ {0}

VARIABLES
  responses,  \* the queue the notifier fills
  pc,         \* what the application thread does next
  call,       \* the upload or download under way, or the last one
  stream,     \* the fields of the raw stream
  request,    \* the request that request_response() is exchanging
  retries,    \* requests repeated in this exchange: MAX_RETRIES - retries_left
  result,     \* bytes an upload has read, and finally what it returns
  outcome     \* "running", or how the call ended

clientVars == <<responses, pc, call, stream, request, retries, result, outcome>>

Calls ==
       [kind : {"upload"}, obj : Objects]
  \cup [kind : {"download"}, obj : Objects, data : Data]

ASSUME NoCallAssumption == NoCall \notin Calls

\* expedited: an _exp_header was prepared.  closed: RawIOBase.close() was called.
Streams ==
  [toggle : Bit, pos : Nat, done : BOOLEAN, expedited : BOOLEAN,
   closed : BOOLEAN, size : Nat]

FreshStream ==
  [toggle |-> 0, pos |-> 0, done |-> FALSE, expedited |-> FALSE,
   closed |-> FALSE, size |-> 0]

\* Which exception a failed call raises is left out.
Outcomes == {"running", "ok", "failed"}

ClientTypeOK ==
  /\ responses \in Seq(Responses)
  /\ pc \in {"idle", "io", "send", "wait"}
  /\ call \in Calls \cup {NoCall}
  /\ stream \in Streams
  /\ request \in Requests \cup {NoRequest}
  /\ retries \in 0..(MaxRetries - 1)
  /\ result \in Data
  /\ outcome \in Outcomes
  /\ pc # "idle" => call \in Calls
  /\ pc \in {"send", "wait"} => request \in Requests

ClientInit ==
  /\ responses = <<>>
  /\ pc = "idle"
  /\ call = NoCall
  /\ stream = FreshStream
  /\ request = NoRequest
  /\ retries = 0
  /\ result = <<>>
  /\ outcome = "ok"

-----------------------------------------------------------------------------
\* Starting and ending an exchange and a call.

RequestResponse(r) ==
  /\ request' = r
  /\ retries' = 0
  /\ pc' = "send"

\* The call returns ("ok") or has raised ("failed").  It stays failed when the
\* close() that follows an exception succeeds.
EndCall(how) ==
  /\ pc' = "idle"
  /\ stream' = FreshStream
  /\ request' = NoRequest
  /\ retries' = 0
  /\ outcome' = IF outcome = "running" THEN how ELSE outcome

\* WritableStream.close of a segmented transfer that is not done: an empty
\* last segment, with the toggle bit of the next segment.
CloseStream ==
  /\ RequestResponse(ReqSegDownload(stream.toggle, <<>>, TRUE))
  /\ stream' = [stream EXCEPT !.closed = TRUE]

\* Mutant: every stream that is closed early sends the empty last segment.
UnfinishedTransfer == ~stream.done /\ ~stream.expedited /\ ~stream.closed

UnfinishedDownload ==
  /\ call.kind = "download"
  /\ ~stream.done
  /\ ~stream.expedited
  /\ ~stream.closed

\* An exception leaves the stream's method.  The stream is closed all the
\* same: by the with statement, or, when __init__ raised, by the finalizer
\* that runs when the caller has handled the exception and lets go of it.
\* (Here the finalizer belongs to the failed call, and its segment goes before
\* whatever the caller does about the exception.)
Raise ==
  \/ /\ UnfinishedDownload
     /\ CloseStream
     /\ outcome' = "failed"
  \/ /\ ~UnfinishedDownload
     /\ EndCall("failed")

\* abort() before raising.  abort() itself sends, so it may raise CanError.
AbortAndRaise(code) ==
  /\ UNCHANGED <<toClient, lossesLeft>>
  /\ \/ /\ toServer' = Append(toServer, ReqAbort(code))
        /\ Raise
        /\ UNCHANGED sendFailuresLeft
     \/ /\ sendFailuresLeft >= MaxRetries
        /\ sendFailuresLeft' = sendFailuresLeft - MaxRetries
        /\ Raise
        /\ UNCHANGED toServer

-----------------------------------------------------------------------------
\* The application calls upload() or download().

Upload(o) ==
  /\ pc = "idle"
  /\ call' = [kind |-> "upload", obj |-> o]
  /\ stream' = FreshStream
  /\ RequestResponse(ReqInitUpload(o))
  /\ result' = <<>>
  /\ outcome' = "running"
  /\ UNCHANGED <<responses, busVars>>

ExpeditedSize(d) == Len(d) \in 1..ExpLen

Download(o, d, forceSegment) ==
  /\ pc = "idle"
  /\ call' = [kind |-> "download", obj |-> o, data |-> d]
  /\ LET expedited == ExpeditedSize(d) /\ ~forceSegment IN
       /\ stream' = [FreshStream EXCEPT !.size = Len(d), !.expedited = expedited]
       /\ RequestResponse(IF expedited THEN ReqExpDownload(o, d)
                                       ELSE ReqInitDownload(o))
  /\ result' = <<>>
  /\ outcome' = "running"
  /\ UNCHANGED <<responses, busVars>>

-----------------------------------------------------------------------------
\* request_response: the queue is emptied before the first send only.

SendRequest ==
  /\ pc = "send"
  /\ toServer' = Append(toServer, request)
  /\ responses' = IF retries = 0 THEN <<>> ELSE responses
  /\ pc' = "wait"
  /\ UNCHANGED <<toClient, lossesLeft, sendFailuresLeft>>
  /\ UNCHANGED <<call, stream, request, retries, result, outcome>>

\* send_request gives up after MAX_RETRIES CanErrors in a row.  Fewer of them
\* only delay the send.
SendRequestFails ==
  /\ pc = "send"
  /\ sendFailuresLeft >= MaxRetries
  /\ sendFailuresLeft' = sendFailuresLeft - MaxRetries
  /\ responses' = IF retries = 0 THEN <<>> ELSE responses
  /\ Raise
  /\ UNCHANGED <<toServer, toClient, lossesLeft, call, result>>

\* read_response found the queue empty for RESPONSE_TIMEOUT.
RetryAfterTimeout ==
  /\ pc = "wait"
  /\ responses = <<>>
  /\ retries + 1 < MaxRetries
  /\ retries' = retries + 1
  /\ pc' = "send"
  /\ UNCHANGED <<responses, call, stream, request, result, outcome>>
  /\ UNCHANGED busVars

\* Mutant: the counter is compared with one more than it ever reaches.
GiveUpTooLate ==
  /\ pc = "wait"
  /\ responses = <<>>
  /\ retries = MaxRetries
  /\ AbortAndRaise("timed_out")
  /\ UNCHANGED <<responses, call, result>>

GiveUpAfterTimeout ==
  /\ pc = "wait"
  /\ responses = <<>>
  /\ retries + 1 = MaxRetries
  /\ AbortAndRaise("timed_out")
  /\ UNCHANGED <<responses, call, result>>

-----------------------------------------------------------------------------
\* The notifier thread: on_response.
OnResponse ==
  /\ toClient # <<>>
  /\ responses' = Append(responses, Head(toClient))
  /\ toClient' = Tail(toClient)
  /\ UNCHANGED <<toServer, lossesLeft, sendFailuresLeft>>
  /\ UNCHANGED <<pc, call, stream, request, retries, result, outcome>>

-----------------------------------------------------------------------------
\* The application thread takes a response off the queue.

Awaiting(kind) ==
  /\ pc = "wait"
  /\ request.kind = kind
  /\ responses # <<>>
  /\ responses' = Tail(responses)

Response == Head(responses)

ReadAbort ==
  /\ pc = "wait"
  /\ responses # <<>>
  /\ responses' = Tail(responses)
  /\ Response.kind = "abort"
  /\ Raise
  /\ UNCHANGED <<busVars, call, result>>

\* ReadableStream.__init__
InitUploadAnswered ==
  /\ Awaiting("init_upload")
  /\ Response.kind \in {"exp_upload", "init_upload"}
  /\ Response.obj = call.obj
  /\ \/ /\ Response.kind = "exp_upload"
        /\ result' = Response.data
        /\ EndCall("ok")
     \/ /\ Response.kind = "init_upload"
        /\ stream' = [stream EXCEPT !.size = Response.size]
        /\ pc' = "io"
        /\ UNCHANGED <<request, retries, result, outcome>>
  /\ UNCHANGED <<busVars, call>>

InitUploadUnexpected ==
  /\ Awaiting("init_upload")
  /\ Response.kind # "abort"
  /\ Response.kind \in {"exp_upload", "init_upload"} => Response.obj # call.obj
  /\ EndCall("failed")
  /\ UNCHANGED <<busVars, call, result>>

\* ReadableStream.read, called by readall() until it is done or returns no
\* bytes; upload() then cuts the data at the size the server announced.
ReadSegment ==
  /\ pc = "io"
  /\ call.kind = "upload"
  /\ RequestResponse(ReqSegUpload(stream.toggle))
  /\ UNCHANGED <<busVars, responses, call, stream, result, outcome>>

SegmentUploaded ==
  /\ Awaiting("seg_upload")
  /\ Response.kind = "seg_upload"
  /\ Response.toggle = stream.toggle
  /\ LET data == result \o Response.data IN
     \/ /\ Response.last \/ Response.data = <<>>
        /\ result' = IF stream.size \in 1..Len(data)
                     THEN SubSeq(data, 1, stream.size) ELSE data
        /\ EndCall("ok")
     \/ /\ ~Response.last /\ Response.data # <<>>
        /\ result' = data
        /\ stream' = [stream EXCEPT !.toggle = Flip(@), !.pos = Len(data)]
        /\ pc' = "io"
        /\ UNCHANGED <<request, retries, outcome>>
  /\ UNCHANGED <<busVars, call>>

SegmentUploadUnexpected ==
  /\ Awaiting("seg_upload")
  /\ Response.kind # "abort"
  /\ IF Response.kind # "seg_upload"
     THEN AbortAndRaise("invalid_command")
     ELSE /\ Response.toggle # stream.toggle
          /\ AbortAndRaise("toggle_not_alternated")
  /\ UNCHANGED <<call, result>>

\* WritableStream.write of an expedited value and of the request that starts a
\* segmented transfer.  The object in the response is not looked at.
ExpeditedDownloaded ==
  /\ Awaiting("exp_download")
  /\ Response.kind = "download"
  /\ EndCall("ok")
  /\ UNCHANGED <<busVars, call, result>>

InitDownloadAnswered ==
  /\ Awaiting("init_download")
  /\ Response.kind = "download"
  /\ pc' = "io"
  /\ UNCHANGED <<busVars, call, stream, request, retries, result, outcome>>

InitDownloadUnexpected ==
  /\ Awaiting("exp_download") \/ Awaiting("init_download")
  /\ Response.kind \notin {"download", "abort"}
  /\ AbortAndRaise("invalid_command")
  /\ UNCHANGED <<call, result>>

\* WritableStream.write of the next segment.  The toggle bit is flipped, and
\* the stream is done with the last segment, before the request is sent.
WriteSegment ==
  /\ pc = "io"
  /\ call.kind = "download"
  /\ stream.pos < Len(call.data)
  /\ LET end == IF stream.pos + SegLen < Len(call.data)
                THEN stream.pos + SegLen ELSE Len(call.data)
         last == end >= stream.size
     IN /\ RequestResponse(ReqSegDownload(stream.toggle,
                             SubSeq(call.data, stream.pos + 1, end), last))
        /\ stream' = [stream EXCEPT !.toggle = Flip(@), !.done = last]
  /\ UNCHANGED <<busVars, responses, call, result, outcome>>

\* With no data there is nothing to write: close() sends the only segment.
CloseEmpty ==
  /\ pc = "io"
  /\ call.kind = "download"
  /\ call.data = <<>>
  /\ CloseStream
  /\ UNCHANGED <<busVars, responses, call, result, outcome>>

SegmentDownloaded ==
  /\ Awaiting("seg_download")
  /\ ~stream.closed
  /\ Response.kind = "seg_download"
  /\ \/ /\ stream.done
        /\ EndCall("ok")
     \/ /\ ~stream.done
        /\ stream' = [stream EXCEPT !.pos = @ + Len(request.data)]
        /\ pc' = "io"
        /\ UNCHANGED <<request, retries, outcome>>
  /\ UNCHANGED <<busVars, call, result>>

SegmentDownloadUnexpected ==
  /\ Awaiting("seg_download")
  /\ ~stream.closed
  /\ Response.kind \notin {"seg_download", "abort"}
  /\ AbortAndRaise("invalid_command")
  /\ UNCHANGED <<call, result>>

\* The answer to close()'s segment: anything but an abort is accepted.
StreamClosed ==
  /\ Awaiting("seg_download")
  /\ stream.closed
  /\ Response.kind # "abort"
  /\ EndCall("ok")
  /\ UNCHANGED <<busVars, call, result>>

ReadResponse ==
  \/ ReadAbort
  \/ InitUploadAnswered \/ InitUploadUnexpected
  \/ SegmentUploaded \/ SegmentUploadUnexpected
  \/ ExpeditedDownloaded
  \/ InitDownloadAnswered \/ InitDownloadUnexpected
  \/ SegmentDownloaded \/ SegmentDownloadUnexpected
  \/ StreamClosed

=============================================================================
