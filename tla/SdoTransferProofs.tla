------------------------- MODULE SdoTransferProofs -------------------------
(***************************************************************************)
(* Theorems about SdoTransfer for every dictionary, every set of values,   *)
(* every segment size, number of retries and bound, on a prompt bus and on *)
(* a late one.                                                             *)
(***************************************************************************)
EXTENDS SdoTransfer, SequenceTheorems, TLAPS

\* What the constructors build are frames.
LEMMA AbortRequestType ==
  ASSUME NEW code \in ClientAbortCodes
  PROVE  ReqAbort(code) \in AbortRequests
BY DEF AbortRequests, ReqAbort

\* What the receivers decode from frames.
LEMMA RequestFields ==
  ASSUME NEW f \in Requests \cup AbortRequests
  PROVE  /\ f.kind \in {"init_upload", "init_download", "exp_download"} => f.obj \in Objects
         /\ f.kind \in {"seg_upload", "seg_download"} => f.toggle \in Bit
         /\ f.kind \in {"exp_download", "seg_download"} => f.data \in Data
         /\ f.kind = "seg_download" => f.last \in BOOLEAN
         /\ f.kind = "abort" => f.code \in ClientAbortCodes
BY DEF Requests, AbortRequests

LEMMA ResponseFields ==
  ASSUME NEW f \in Responses
  PROVE  /\ f.kind \in {"exp_upload", "init_upload", "download"} => f.obj \in Objects
         /\ f.kind \in {"seg_upload", "seg_download"} => f.toggle \in Bit
         /\ f.kind \in {"exp_upload", "seg_upload"} => f.data \in Data
         /\ f.kind = "seg_upload" => f.last \in BOOLEAN
         /\ f.kind = "init_upload" => f.size \in Nat
BY DEF Responses

LEMMA CallFields ==
  ASSUME NEW c \in Calls
  PROVE  /\ c.kind \in {"upload", "download"}
         /\ c.obj \in Objects
         /\ c.kind = "download" => c.data \in Data
BY DEF Calls

-----------------------------------------------------------------------------
\* Type correctness: the steps of the client.

LEMMA ExchangeTypes ==
  ASSUME NEW r \in Requests, RequestResponse(r)
  PROVE  /\ request' \in Requests
         /\ retries' \in 0..(MaxRetries - 1)
         /\ pc' = "send"
BY RetriesAssumption DEF RequestResponse

LEMMA EndCallTypes ==
  ASSUME ClientTypeOK, NEW how \in {"ok", "failed"}, EndCall(how)
  PROVE  /\ pc' = "idle"
         /\ stream' \in Streams
         /\ request' \in Requests \cup {NoRequest}
         /\ retries' \in 0..(MaxRetries - 1)
         /\ outcome' \in Outcomes
BY RetriesAssumption DEF ClientTypeOK, EndCall, FreshStream, Streams, Outcomes, Bit

LEMMA CloseStreamTypes ==
  ASSUME ClientTypeOK, CloseStream
  PROVE  /\ pc' = "send"
         /\ stream' \in Streams
         /\ request' \in Requests
         /\ retries' \in 0..(MaxRetries - 1)
<1>1. stream.toggle \in Bit /\ <<>> \in Data
  BY DEF ClientTypeOK, Streams, Data
<1>2. ReqSegDownload(stream.toggle, <<>>, TRUE) \in Requests
  BY <1>1 DEF Requests, ReqSegDownload
<1>3. stream' \in Streams
  BY DEF CloseStream, ClientTypeOK, Streams
<1> QED
  BY <1>2, <1>3, ExchangeTypes DEF CloseStream

LEMMA RaiseTypes ==
  ASSUME ClientTypeOK, Raise
  PROVE  /\ pc' \in {"idle", "send"}
         /\ stream' \in Streams
         /\ request' \in Requests \cup {NoRequest}
         /\ pc' = "send" => request' \in Requests
         /\ retries' \in 0..(MaxRetries - 1)
         /\ outcome' \in Outcomes
<1>1. CASE UnfinishedDownload /\ CloseStream /\ outcome' = "failed"
  BY <1>1, CloseStreamTypes DEF Outcomes
<1>2. CASE EndCall("failed")
  BY <1>2, EndCallTypes
<1> QED
  BY <1>1, <1>2 DEF Raise

LEMMA AbortAndRaiseTypes ==
  ASSUME BusTypeOK, ClientTypeOK, pc # "idle",
         NEW code \in ClientAbortCodes, AbortAndRaise(code),
         responses' \in Seq(Responses), call' = call, result' = result
  PROVE  BusTypeOK' /\ ClientTypeOK'
<1>1. Raise
  BY DEF AbortAndRaise
<1>2. ClientTypeOK'
  BY <1>1, RaiseTypes DEF ClientTypeOK
<1>3. Append(toServer, ReqAbort(code)) \in Seq(Requests \cup AbortRequests)
  BY AbortRequestType DEF BusTypeOK
<1>4. toServer' \in Seq(Requests \cup AbortRequests) /\ UNCHANGED <<toClient, lossesLeft>>
  BY <1>3 DEF AbortAndRaise, BusTypeOK
<1>5. sendFailuresLeft' \in 0..MaxSendFailures
  BY RetriesAssumption, BusBoundAssumption DEF AbortAndRaise, BusTypeOK
<1>6. BusTypeOK'
  BY <1>4, <1>5 DEF BusTypeOK
<1> QED
  BY <1>2, <1>6

LEMMA SendTypes ==
  ASSUME BusTypeOK, ClientTypeOK, SendRequest \/ SendRequestFails
  PROVE  BusTypeOK' /\ ClientTypeOK'
<1>1. CASE SendRequest
  <2>1. Append(toServer, request) \in Seq(Requests \cup AbortRequests)
    BY <1>1 DEF SendRequest, BusTypeOK, ClientTypeOK
  <2>2. BusTypeOK'
    BY <1>1, <2>1 DEF SendRequest, BusTypeOK
  <2>3. responses' \in Seq(Responses)
    BY <1>1 DEF SendRequest, ClientTypeOK
  <2> QED
    BY <1>1, <2>2, <2>3 DEF SendRequest, ClientTypeOK
<1>2. CASE SendRequestFails
  <2>1. BusTypeOK'
    BY <1>2, RetriesAssumption, BusBoundAssumption DEF SendRequestFails, BusTypeOK
  <2>2. responses' \in Seq(Responses) /\ Raise /\ pc # "idle"
    BY <1>2 DEF SendRequestFails, ClientTypeOK
  <2> QED
    BY <1>2, <2>1, <2>2, RaiseTypes DEF SendRequestFails, ClientTypeOK
<1> QED
  BY <1>1, <1>2

LEMMA TimeoutTypes ==
  ASSUME BusTypeOK, ClientTypeOK, RetryAfterTimeout \/ GiveUpAfterTimeout
  PROVE  BusTypeOK' /\ ClientTypeOK'
<1>1. CASE RetryAfterTimeout
  BY <1>1, RetriesAssumption DEF RetryAfterTimeout, BusTypeOK, ClientTypeOK, busVars
<1>2. CASE GiveUpAfterTimeout
  <2>1. /\ AbortAndRaise("timed_out") /\ "timed_out" \in ClientAbortCodes
        /\ responses' \in Seq(Responses) /\ call' = call /\ result' = result
        /\ pc # "idle"
    BY <1>2 DEF GiveUpAfterTimeout, ClientAbortCodes, ClientTypeOK
  <2> QED
    BY <2>1, AbortAndRaiseTypes
<1> QED
  BY <1>1, <1>2

LEMMA ResponseTaken ==
  ASSUME ClientTypeOK, pc = "wait", responses # <<>>, responses' = Tail(responses)
  PROVE  /\ responses' \in Seq(Responses)
         /\ Response \in Responses
         /\ call \in Calls
         /\ request \in Requests
BY DEF ClientTypeOK, Response

LEMMA UploadAnswerTypes ==
  ASSUME BusTypeOK, ClientTypeOK,
         InitUploadAnswered \/ InitUploadUnexpected \/ SegmentUploaded
  PROVE  BusTypeOK' /\ ClientTypeOK'
<1>1. /\ responses' \in Seq(Responses) /\ Response \in Responses /\ call \in Calls
      /\ call' = call
  BY ResponseTaken
     DEF InitUploadAnswered, InitUploadUnexpected, SegmentUploaded, Awaiting
<1>2. BusTypeOK'
  BY DEF InitUploadAnswered, InitUploadUnexpected, SegmentUploaded, busVars, BusTypeOK
<1>3. CASE InitUploadAnswered /\ Response.kind = "exp_upload"
  <2>1. EndCall("ok") /\ result' = Response.data
    BY <1>3 DEF InitUploadAnswered
  <2>2. result' \in Data
    BY <1>1, <1>3, <2>1, ResponseFields
  <2> QED
    BY <1>1, <1>2, <2>1, <2>2, EndCallTypes DEF ClientTypeOK
<1>4. CASE InitUploadAnswered /\ Response.kind = "init_upload"
  <2>1. /\ stream' = [stream EXCEPT !.size = Response.size] /\ pc' = "io"
        /\ UNCHANGED <<request, retries, result, outcome>>
    BY <1>4 DEF InitUploadAnswered
  <2>2. stream' \in Streams
    BY <1>1, <1>4, <2>1, ResponseFields DEF Streams, ClientTypeOK
  <2> QED
    BY <1>1, <1>2, <2>1, <2>2 DEF ClientTypeOK
<1>5. CASE InitUploadUnexpected
  <2>1. EndCall("failed") /\ result' = result
    BY <1>5 DEF InitUploadUnexpected
  <2> QED
    BY <1>1, <1>2, <2>1, EndCallTypes DEF ClientTypeOK
<1>6. CASE SegmentUploaded
  <2> DEFINE data == result \o Response.data
  <2>1. Response.data \in Data
    BY <1>1, <1>6, ResponseFields DEF SegmentUploaded
  <2>2. data \in Data /\ Len(data) \in Nat
    BY <2>1 DEF ClientTypeOK, Data
  <2>3. CASE EndCall("ok") /\ result' = IF stream.size \in 1..Len(data)
                                       THEN SubSeq(data, 1, stream.size) ELSE data
    <3>1. stream.size \in 1..Len(data) => SubSeq(data, 1, stream.size) \in Data
      BY <2>2, SubSeqProperties DEF Data
    <3>2. result' \in Data
      BY <2>2, <2>3, <3>1
    <3> QED
      BY <1>1, <1>2, <2>3, <3>2, EndCallTypes DEF ClientTypeOK
  <2>4. CASE /\ result' = data
             /\ stream' = [stream EXCEPT !.toggle = Flip(@), !.pos = Len(data)]
             /\ pc' = "io"
             /\ UNCHANGED <<request, retries, outcome>>
    <3>1. Flip(stream.toggle) \in Bit /\ stream \in Streams
      BY DEF ClientTypeOK, Streams, Flip, Bit
    <3>2. stream' = [stream EXCEPT !.toggle = Flip(stream.toggle), !.pos = Len(data)]
      BY <2>4
    <3>3. stream' \in Streams
      BY <2>2, <3>1, <3>2 DEF Streams
    <3> QED
      BY <1>1, <1>2, <2>2, <2>4, <3>3 DEF ClientTypeOK
  <2> QED
    BY <1>6, <2>3, <2>4 DEF SegmentUploaded
<1> QED
  BY <1>3, <1>4, <1>5, <1>6 DEF InitUploadAnswered
LEMMA DownloadAnswerTypes ==
  ASSUME BusTypeOK, ClientTypeOK,
         \/ ReadAbort \/ ExpeditedDownloaded \/ InitDownloadAnswered
         \/ SegmentDownloaded \/ StreamClosed
  PROVE  BusTypeOK' /\ ClientTypeOK'
<1>1. /\ responses' \in Seq(Responses) /\ call \in Calls /\ request \in Requests
      /\ call' = call /\ result' = result
  BY ResponseTaken
     DEF ReadAbort, ExpeditedDownloaded, InitDownloadAnswered, SegmentDownloaded,
         StreamClosed, Awaiting
<1>2. BusTypeOK'
  BY DEF ReadAbort, ExpeditedDownloaded, InitDownloadAnswered, SegmentDownloaded,
         StreamClosed, busVars, BusTypeOK
<1>3. CASE ReadAbort
  <2>1. Raise
    BY <1>3 DEF ReadAbort
  <2> QED
    BY <1>1, <1>2, <2>1, RaiseTypes DEF ClientTypeOK
<1>4. CASE EndCall("ok")
  BY <1>1, <1>2, <1>4, EndCallTypes DEF ClientTypeOK
<1>5. CASE InitDownloadAnswered
  BY <1>1, <1>2, <1>5 DEF InitDownloadAnswered, ClientTypeOK
<1>6. CASE SegmentDownloaded /\ ~EndCall("ok")
  <2>1. /\ stream' = [stream EXCEPT !.pos = stream.pos + Len(request.data)]
        /\ pc' = "io" /\ request.kind = "seg_download"
        /\ UNCHANGED <<request, retries, outcome>>
    BY <1>6 DEF SegmentDownloaded, Awaiting
  <2>2. request.data \in Data
    BY <1>1, <2>1, RequestFields
  <2>3. Len(request.data) \in Nat
    BY <2>2 DEF Data
  <2>4. stream' \in Streams
    BY <2>1, <2>3 DEF ClientTypeOK, Streams
  <2> QED
    BY <1>1, <1>2, <2>1, <2>4 DEF ClientTypeOK
<1> QED
  BY <1>3, <1>4, <1>5, <1>6 DEF ExpeditedDownloaded, StreamClosed

LEMMA UnexpectedAnswerTypes ==
  ASSUME BusTypeOK, ClientTypeOK,
         \/ SegmentUploadUnexpected \/ InitDownloadUnexpected
         \/ SegmentDownloadUnexpected
  PROVE  BusTypeOK' /\ ClientTypeOK'
<1>1. responses' \in Seq(Responses) /\ call' = call /\ result' = result /\ pc # "idle"
  BY ResponseTaken
     DEF SegmentUploadUnexpected, InitDownloadUnexpected, SegmentDownloadUnexpected,
         Awaiting
<1>2. PICK code \in ClientAbortCodes : AbortAndRaise(code)
  BY DEF SegmentUploadUnexpected, InitDownloadUnexpected, SegmentDownloadUnexpected,
         ClientAbortCodes
<1> QED
  BY <1>1, <1>2, AbortAndRaiseTypes

LEMMA StreamStepTypes ==
  ASSUME BusTypeOK, ClientTypeOK, ReadSegment \/ WriteSegment \/ CloseEmpty
  PROVE  BusTypeOK' /\ ClientTypeOK'
<1>1. /\ responses' \in Seq(Responses) /\ call \in Calls
      /\ call' = call /\ result' = result /\ outcome' = outcome
  BY DEF ReadSegment, WriteSegment, CloseEmpty, ClientTypeOK
<1>2. BusTypeOK'
  BY DEF ReadSegment, WriteSegment, CloseEmpty, busVars, BusTypeOK
<1>3. CASE ReadSegment
  <2>1. RequestResponse(ReqSegUpload(stream.toggle)) /\ stream' = stream
    BY <1>3 DEF ReadSegment
  <2>2. ReqSegUpload(stream.toggle) \in Requests
    BY DEF ClientTypeOK, Streams, Requests, ReqSegUpload
  <2> QED
    BY <1>1, <1>2, <2>1, <2>2, ExchangeTypes DEF ClientTypeOK
<1>4. CASE WriteSegment
  <2> DEFINE end == IF stream.pos + SegLen < Len(call.data)
                    THEN stream.pos + SegLen ELSE Len(call.data)
             chunk == SubSeq(call.data, stream.pos + 1, end)
             last == end >= stream.size
  <2>1. /\ RequestResponse(ReqSegDownload(stream.toggle, chunk, last))
        /\ stream' = [stream EXCEPT !.toggle = Flip(stream.toggle), !.done = last]
        /\ call.kind = "download" /\ stream.pos < Len(call.data)
    BY <1>4 DEF WriteSegment
  <2>2. call.data \in Seq(Bytes) /\ stream.pos \in Nat /\ stream.size \in Nat
    BY <1>1, <2>1, CallFields DEF Data, ClientTypeOK, Streams
  <2>3. stream.pos + 1 \in 1..(Len(call.data) + 1) /\ end \in stream.pos..Len(call.data)
    BY <2>1, <2>2, LengthAssumption
  <2>4. chunk \in Data
    BY <2>2, <2>3, SubSeqProperties DEF Data
  <2>5. stream.toggle \in Bit /\ Flip(stream.toggle) \in Bit /\ last \in BOOLEAN
    BY DEF ClientTypeOK, Streams, Flip, Bit
  <2> HIDE DEF end, chunk, last
  <2>6. ReqSegDownload(stream.toggle, chunk, last) \in Requests
    BY <2>4, <2>5 DEF Requests, ReqSegDownload
  <2>7. stream' \in Streams
    BY <2>1, <2>5 DEF ClientTypeOK, Streams
  <2> QED
    BY <1>1, <1>2, <2>1, <2>6, <2>7, ExchangeTypes DEF ClientTypeOK
<1>5. CASE CloseEmpty
  <2>1. CloseStream
    BY <1>5 DEF CloseEmpty
  <2> QED
    BY <1>1, <1>2, <2>1, CloseStreamTypes DEF ClientTypeOK
<1> QED
  BY <1>3, <1>4, <1>5

LEMMA NotifierTypes ==
  ASSUME BusTypeOK, ClientTypeOK, OnResponse
  PROVE  BusTypeOK' /\ ClientTypeOK'
<1>1. Head(toClient) \in Responses /\ Tail(toClient) \in Seq(Responses)
  BY DEF OnResponse, BusTypeOK
<1> QED
  BY <1>1 DEF OnResponse, BusTypeOK, ClientTypeOK

LEMMA ClientStepTypes ==
  ASSUME BusTypeOK, ClientTypeOK, ApplicationStep
  PROVE  BusTypeOK' /\ ClientTypeOK'
BY SendTypes, TimeoutTypes, UploadAnswerTypes, DownloadAnswerTypes,
   UnexpectedAnswerTypes, StreamStepTypes
   DEF ApplicationStep, ReadResponse

-----------------------------------------------------------------------------
\* Type correctness: the steps of the server.

LEMMA SendResponseTypes ==
  ASSUME BusTypeOK, NEW o, NEW response \in Responses, SendResponse(o, response)
  PROVE  toClient' \in Seq(Responses) /\ sendFailuresLeft' \in 0..MaxSendFailures
<1>1. /\ toClient \in Seq(Responses)
      /\ Append(toClient, response) \in Seq(Responses)
      /\ Append(toClient, RspAbort) \in Seq(Responses)
  BY DEF BusTypeOK, Responses, RspAbort
<1>2. \/ toClient' = toClient
      \/ toClient' = Append(toClient, response)
      \/ toClient' = Append(toClient, RspAbort)
  BY DEF SendResponse
<1>3. sendFailuresLeft' \in 0..MaxSendFailures
  BY BusBoundAssumption DEF SendResponse, BusTypeOK
<1> QED
  BY <1>1, <1>2, <1>3

LEMMA AbortTransferTypes ==
  ASSUME BusTypeOK, NEW o, AbortTransfer(o)
  PROVE  toClient' \in Seq(Responses) /\ sendFailuresLeft' \in 0..MaxSendFailures
<1>1. toClient \in Seq(Responses) /\ Append(toClient, RspAbort) \in Seq(Responses)
  BY DEF BusTypeOK, Responses, RspAbort
<1>2. toClient' = toClient \/ toClient' = Append(toClient, RspAbort)
  BY DEF AbortTransfer
<1>3. sendFailuresLeft' \in 0..MaxSendFailures
  BY BusBoundAssumption DEF AbortTransfer, BusTypeOK
<1> QED
  BY <1>1, <1>2, <1>3

LEMMA RequestTaken ==
  ASSUME BusTypeOK, NEW kind, Request(kind)
  PROVE  /\ Head(toServer) \in Requests \cup AbortRequests
         /\ Head(toServer).kind = kind
         /\ toServer' \in Seq(Requests \cup AbortRequests)
         /\ lossesLeft' \in 0..MaxLosses
BY DEF BusTypeOK, Request

LEMMA UploadStepTypes ==
  ASSUME BusTypeOK, ServerTypeOK,
         \/ InitUploadExpedited \/ InitUploadSegmented \/ InitUploadRefused
         \/ SegmentedUpload
  PROVE  BusTypeOK' /\ ServerTypeOK'
<1> DEFINE f == Head(toServer)
<1>1. /\ f \in Requests \cup AbortRequests
      /\ InitUploadExpedited \/ InitUploadSegmented \/ InitUploadRefused
           => f.kind = "init_upload"
      /\ toServer' \in Seq(Requests \cup AbortRequests)
      /\ lossesLeft' \in 0..MaxLosses
  BY RequestTaken
     DEF InitUploadExpedited, InitUploadSegmented, InitUploadRefused, SegmentedUpload
<1>2. f.kind = "init_upload" => f.obj \in Objects
  BY <1>1, RequestFields
<1> HIDE DEF f
<1>3. ASSUME f.obj \in Objects, Available(f.obj)
      PROVE  store[f.obj] \in Data /\ Len(store[f.obj]) \in Nat
  BY <1>3, DictionaryAssumption DEF Available, ServerTypeOK, Data
<1>4. CASE InitUploadExpedited
  <2> /\ f.obj \in Objects
      /\ Available(f.obj)
      /\ SendResponse(f.obj, RspExpUpload(f.obj, store[f.obj]))
    BY <1>1, <1>2, <1>4 DEF InitUploadExpedited, f
  <2>1. RspExpUpload(f.obj, store[f.obj]) \in Responses
    BY <1>3 DEF Responses, RspExpUpload
  <2>2. SendResponse(f.obj, RspExpUpload(f.obj, store[f.obj]))
    OBVIOUS
  <2>3. ServerTypeOK'
    BY <1>4 DEF InitUploadExpedited, ServerTypeOK, f
  <2> QED
    BY <1>1, <2>1, <2>2, <2>3, SendResponseTypes DEF BusTypeOK
<1>5. CASE InitUploadSegmented
  <2>1. f.obj \in Objects /\ Available(f.obj)
    BY <1>5, <1>2, <1>1 DEF InitUploadSegmented, f
  <2>2. RspInitUpload(f.obj, Len(store[f.obj])) \in Responses
    BY <1>3, <2>1 DEF Responses, RspInitUpload
  <2>3. SendResponse(f.obj, RspInitUpload(f.obj, Len(store[f.obj])))
    BY <1>5 DEF InitUploadSegmented, f
  <2>4. ServerTypeOK'
    BY <1>3, <2>1, <1>5 DEF InitUploadSegmented, ServerTypeOK, f, Bit
  <2> QED
    BY <1>1, <2>2, <2>3, <2>4, SendResponseTypes DEF BusTypeOK
<1>6. CASE InitUploadRefused
  <2>1. AbortTransfer(f.obj) /\ srvIndex' = f.obj /\ f.obj \in Objects
    BY <1>6, <1>2, <1>1 DEF InitUploadRefused, f
  <2>2. ServerTypeOK'
    BY <1>6, <2>1 DEF InitUploadRefused, ServerTypeOK
  <2> QED
    BY <1>1, <2>1, <2>2, AbortTransferTypes DEF BusTypeOK
<1>7. CASE SegmentedUpload
  <2> DEFINE n == IF Len(srvBuffer) < SegLen THEN Len(srvBuffer) ELSE SegLen
             rest == SubSeq(srvBuffer, n + 1, Len(srvBuffer))
             sent == SubSeq(srvBuffer, 1, n)
  <2>1. srvBuffer \in Seq(Bytes) /\ srvToggle \in Bit
    BY <1>7 DEF SegmentedUpload, ServerTypeOK, Data
  <2>2. n \in 0..Len(srvBuffer) /\ Len(srvBuffer) \in Nat
    BY <2>1, LengthAssumption
  <2>3. rest \in Data /\ sent \in Data
    BY <2>1, <2>2, SubSeqProperties DEF Data
  <2>4. /\ srvBuffer' = rest /\ srvToggle' = Flip(srvToggle)
        /\ SendResponse(srvIndex, RspSegUpload(srvToggle, sent, rest = <<>>))
        /\ UNCHANGED <<store, srvIndex, lastReceivedError>>
    BY <1>7 DEF SegmentedUpload
  <2> HIDE DEF n, rest, sent
  <2>5. RspSegUpload(srvToggle, sent, rest = <<>>) \in Responses
    BY <2>1, <2>3 DEF Responses, RspSegUpload
  <2>6. ServerTypeOK'
    BY <2>1, <2>3, <2>4 DEF ServerTypeOK, Flip, Bit
  <2> QED
    BY <1>1, <2>4, <2>5, <2>6, SendResponseTypes DEF BusTypeOK
<1> QED
  BY <1>4, <1>5, <1>6, <1>7

LEMMA DownloadStepTypes ==
  ASSUME BusTypeOK, ServerTypeOK,
         \/ InitDownloadExpedited \/ InitDownloadSegmented
         \/ SegmentedDownload \/ SegmentedDownloadRefused
  PROVE  BusTypeOK' /\ ServerTypeOK'
<1> DEFINE f == Head(toServer)
<1>1. /\ f \in Requests \cup AbortRequests
      /\ InitDownloadExpedited => f.kind = "exp_download"
      /\ InitDownloadSegmented => f.kind = "init_download"
      /\ SegmentedDownload \/ SegmentedDownloadRefused => f.kind = "seg_download"
      /\ toServer' \in Seq(Requests \cup AbortRequests)
      /\ lossesLeft' \in 0..MaxLosses
  BY RequestTaken
     DEF InitDownloadExpedited, InitDownloadSegmented, SegmentedDownload,
         SegmentedDownloadRefused
<1> HIDE DEF f
<1>2. CASE InitDownloadExpedited
  <2>1. f.obj \in Objects /\ f.data \in Data
    BY <1>1, <1>2, RequestFields
  <2>2. RspDownload(f.obj) \in Responses
    BY <2>1 DEF Responses, RspDownload
  <2>3. ServerTypeOK'
    BY <1>2, <2>1 DEF InitDownloadExpedited, ServerTypeOK, f
  <2>4. SendResponse(f.obj, RspDownload(f.obj)) \/ AbortTransfer(f.obj)
    BY <1>2 DEF InitDownloadExpedited, f
  <2> QED
    BY <1>1, <2>2, <2>3, <2>4, SendResponseTypes, AbortTransferTypes DEF BusTypeOK
<1>3. CASE InitDownloadSegmented
  <2>1. f.obj \in Objects
    BY <1>1, <1>3, RequestFields
  <2>2. RspDownload(f.obj) \in Responses
    BY <2>1 DEF Responses, RspDownload
  <2>3. ServerTypeOK'
    BY <1>3, <2>1 DEF InitDownloadSegmented, ServerTypeOK, f, Bit, Data
  <2>4. SendResponse(f.obj, RspDownload(f.obj))
    BY <1>3 DEF InitDownloadSegmented, f
  <2> QED
    BY <1>1, <2>2, <2>3, <2>4, SendResponseTypes DEF BusTypeOK
<1>4. CASE SegmentedDownload \/ SegmentedDownloadRefused
  <2>1. f.data \in Data /\ srvBuffer \in Data /\ srvToggle \in Bit
    BY <1>1, <1>4, RequestFields
       DEF SegmentedDownload, SegmentedDownloadRefused, ServerTypeOK
  <2>2. srvBuffer' = srvBuffer \o f.data
    BY <1>4 DEF SegmentedDownload, SegmentedDownloadRefused, f
  <2>7. srvBuffer' \in Data
    BY <2>1, <2>2 DEF Data
  <2>3. RspSegDownload(srvToggle) \in Responses
    BY <2>1 DEF Responses, RspSegDownload
  <2>4. store' \in [Dictionary -> Data \cup {NoValue}]
    BY <1>4, <2>7 DEF SegmentedDownload, SegmentedDownloadRefused, ServerTypeOK
  <2>5. ServerTypeOK'
    BY <1>4, <2>1, <2>4, <2>7
       DEF SegmentedDownload, SegmentedDownloadRefused, ServerTypeOK, Flip, Bit
  <2>6. SendResponse(srvIndex, RspSegDownload(srvToggle)) \/ AbortTransfer(srvIndex)
    BY <1>4 DEF SegmentedDownload, SegmentedDownloadRefused
  <2> QED
    BY <1>1, <2>3, <2>5, <2>6, SendResponseTypes, AbortTransferTypes DEF BusTypeOK
<1> QED
  BY <1>2, <1>3, <1>4

LEMMA ServerStepTypes ==
  ASSUME BusTypeOK, ServerTypeOK, OnRequest
  PROVE  BusTypeOK' /\ ServerTypeOK'
<1>1. CASE SegmentRefused
  <2>1. ServerTypeOK' /\ AbortTransfer(srvIndex)
    BY <1>1 DEF SegmentRefused, srvVars, ServerTypeOK
  <2> QED
    BY <1>1, <2>1, AbortTransferTypes, RequestTaken DEF SegmentRefused, BusTypeOK
<1>2. CASE RequestAborted
  <2>1. Head(toServer).code \in ClientAbortCodes
    BY <1>2, RequestTaken, RequestFields DEF RequestAborted
  <2> QED
    BY <1>2, <2>1, RequestTaken DEF RequestAborted, BusTypeOK, ServerTypeOK
<1> QED
  BY <1>1, <1>2, UploadStepTypes, DownloadStepTypes DEF OnRequest
-----------------------------------------------------------------------------
\* Type correctness of the composition.

LEMMA HistoryTypes ==
  ASSUME TypeOK, store' \in [Dictionary -> Data \cup {NoValue}], RecordHeld
  PROVE  held' \subseteq Data \cup {NoValue}
BY DEF TypeOK, RecordHeld

LEMMA CommitTypes ==
  ASSUME TypeOK, ServerStep, srvBuffer' \in Data \cup {NoBuffer}
  PROVE  commits' \in Seq([obj : Objects, data : Data])
<1> DEFINE f == Head(toServer)
           Commits == [obj : Objects, data : Data]
<1>1. f \in Requests \cup AbortRequests \/ ~StoresValue
  BY DEF StoresValue, InitDownloadExpedited, SegmentedDownload, Request, TypeOK, BusTypeOK
<1>2. CASE StoresValue /\ f.kind = "exp_download" /\ Accepts(f.obj, f.data)
  <2>1. [obj |-> f.obj, data |-> f.data] \in Commits
    BY <1>1, <1>2, RequestFields
  <2>2. commits' = Append(commits, [obj |-> f.obj, data |-> f.data])
    BY <1>2 DEF ServerStep
  <2> QED
    BY <2>1, <2>2 DEF TypeOK
<1>3. CASE /\ ~(StoresValue /\ f.kind = "exp_download" /\ Accepts(f.obj, f.data))
           /\ StoresValue /\ f.kind = "seg_download" /\ f.last
  <2>1. SegmentedDownload
    BY <1>3 DEF StoresValue, InitDownloadExpedited, Request
  <2>2. srvIndex \in Objects
    BY <1>3, <2>1, DictionaryAssumption DEF SegmentedDownload, Accepts
  <2>3. srvBuffer' \in Data
    BY <2>1, <1>1, <1>3, RequestFields DEF SegmentedDownload, TypeOK, ServerTypeOK, Data
  <2>4. commits' = Append(commits, [obj |-> srvIndex, data |-> srvBuffer'])
    BY <1>3 DEF ServerStep
  <2> QED
    BY <2>2, <2>3, <2>4 DEF TypeOK
<1>4. CASE /\ ~(StoresValue /\ f.kind = "exp_download" /\ Accepts(f.obj, f.data))
           /\ ~(StoresValue /\ f.kind = "seg_download" /\ f.last)
  BY <1>4 DEF ServerStep, TypeOK
<1> QED
  BY <1>2, <1>3, <1>4

LEMMA StartTypes ==
  ASSUME TypeOK, NEW o \in Objects,
         StartUpload(o) \/ \E d \in Values, forced \in BOOLEAN : StartDownload(o, d, forced)
  PROVE  TypeOK'
<1>1. StartCall(o) /\ UNCHANGED busVars /\ UNCHANGED responses
  BY DEF StartUpload, StartDownload, Upload, Download
<1>2. BusTypeOK' /\ ServerTypeOK'
  BY <1>1 DEF TypeOK, StartCall, BusTypeOK, ServerTypeOK, busVars, srvVars
<1>3. /\ callsLeft' \in 0..MaxCalls /\ localWritesLeft' \in 0..MaxLocalWrites
      /\ commits' \in Seq([obj : Objects, data : Data])
  BY <1>1, TransferAssumption DEF TypeOK, StartCall
<1>4. held' \subseteq Data \cup {NoValue}
  BY <1>1 DEF TypeOK, StartCall, ServerTypeOK
<1>5. FreshStream \in Streams /\ <<>> \in Data
  BY DEF FreshStream, Streams, Bit, Data
<1>6. CASE StartUpload(o)
  <2>1. ReqInitUpload(o) \in Requests
    BY DEF Requests, ReqInitUpload
  <2>2. RequestResponse(ReqInitUpload(o))
    BY <1>6 DEF StartUpload, Upload
  <2>3. call' \in Calls /\ stream' \in Streams /\ result' \in Data /\ outcome' \in Outcomes
    BY <1>5, <1>6 DEF StartUpload, Upload, Calls, Outcomes
  <2>4. ClientTypeOK'
    BY <1>1, <2>1, <2>2, <2>3, ExchangeTypes DEF ClientTypeOK, TypeOK
  <2> QED
    BY <1>2, <1>3, <1>4, <2>4 DEF TypeOK
<1>7. ASSUME NEW d \in Values, NEW forced \in BOOLEAN, StartDownload(o, d, forced)
      PROVE  TypeOK'
  <2> DEFINE expedited == ExpeditedSize(d) /\ ~forced
             r == IF expedited THEN ReqExpDownload(o, d) ELSE ReqInitDownload(o)
  <2>1. d \in Data /\ Len(d) \in Nat
    BY ValueAssumption DEF Data
  <2>2. r \in Requests
    BY <2>1 DEF Requests, ReqExpDownload, ReqInitDownload
  <2>3. /\ RequestResponse(r)
        /\ stream' = [FreshStream EXCEPT !.size = Len(d), !.expedited = expedited]
        /\ call' = [kind |-> "download", obj |-> o, data |-> d]
        /\ result' = <<>> /\ outcome' = "running"
    BY <1>7 DEF StartDownload, Download
  <2>4. expedited \in BOOLEAN
    BY DEF ExpeditedSize
  <2> HIDE DEF expedited, r
  <2>5. stream' \in Streams
    BY <1>5, <2>1, <2>3, <2>4 DEF Streams
  <2>6. call' \in Calls /\ result' \in Data /\ outcome' \in Outcomes
    BY <1>5, <2>1, <2>3 DEF Calls, Outcomes
  <2>7. ClientTypeOK'
    BY <1>1, <2>2, <2>3, <2>5, <2>6, ExchangeTypes DEF ClientTypeOK, TypeOK
  <2> QED
    BY <1>2, <1>3, <1>4, <2>7 DEF TypeOK
<1> QED
  BY <1>6, <1>7

LEMMA TypeStep == TypeOK /\ [Next]_vars => TypeOK'
<1> SUFFICES ASSUME TypeOK, [Next]_vars PROVE TypeOK'
  OBVIOUS
<1>1. CASE \/ \E o \in Objects : StartUpload(o)
           \/ \E o \in Objects, d \in Values, forced \in BOOLEAN : StartDownload(o, d, forced)
  BY <1>1, StartTypes
<1>2. CASE ClientStep \/ NotifierStep
  <2>1. BusTypeOK' /\ ClientTypeOK'
    BY <1>2, ClientStepTypes, NotifierTypes DEF ClientStep, NotifierStep, TypeOK
  <2> QED
    BY <1>2, <2>1
       DEF ClientStep, NotifierStep, TypeOK, ServerTypeOK, srvVars, boundVars, historyVars
<1>3. CASE ServerStep
  <2>1. BusTypeOK' /\ ServerTypeOK'
    BY <1>3, ServerStepTypes DEF ServerStep, TypeOK
  <2>2. ClientTypeOK'
    BY <1>3 DEF ServerStep, TypeOK, ClientTypeOK, clientVars
  <2>3. held' \subseteq Data \cup {NoValue} /\ commits' \in Seq([obj : Objects, data : Data])
    BY <1>3, <2>1, HistoryTypes, CommitTypes DEF ServerStep, ServerTypeOK
  <2> QED
    BY <1>3, <2>1, <2>2, <2>3 DEF ServerStep, TypeOK, boundVars
<1>4. ASSUME NEW o \in Dictionary, NEW d \in Values, LocalWriteStep(o, d)
      PROVE  TypeOK'
  <2>1. ServerTypeOK'
    BY <1>4, ValueAssumption DEF LocalWriteStep, LocalWrite, TypeOK, ServerTypeOK
  <2>2. BusTypeOK' /\ ClientTypeOK'
    BY <1>4 DEF LocalWriteStep, LocalWrite, TypeOK, BusTypeOK, ClientTypeOK, busVars, clientVars
  <2>3. held' \subseteq Data \cup {NoValue}
    BY <1>4, <2>1, HistoryTypes DEF LocalWriteStep, ServerTypeOK
  <2> QED
    BY <1>4, <2>1, <2>2, <2>3, TransferAssumption DEF LocalWriteStep, TypeOK
<1>5. CASE BusStep
  <2> DEFINE AllRequests == Requests \cup AbortRequests
  <2>1. toServer' \in Seq(AllRequests) /\ toClient' \in Seq(Responses)
    <3>1. toServer \in Seq(AllRequests) /\ toClient \in Seq(Responses)
      BY DEF TypeOK, BusTypeOK
    <3>2. toServer # <<>> => Tail(toServer) \in Seq(AllRequests)
      BY <3>1, HeadTailProperties
    <3>3. toClient # <<>> => Tail(toClient) \in Seq(Responses)
      BY <3>1, HeadTailProperties
    <3>4. LoseRequest \/ LoseResponse
      BY <1>5 DEF BusStep
    <3> HIDE DEF AllRequests
    <3> QED
      BY <3>1, <3>2, <3>3, <3>4 DEF LoseRequest, LoseResponse
  <2>2. lossesLeft' \in 0..MaxLosses /\ sendFailuresLeft' \in 0..MaxSendFailures
    BY <1>5, BusBoundAssumption
       DEF BusStep, LoseRequest, LoseResponse, TypeOK, BusTypeOK
  <2>3. BusTypeOK'
    BY <2>1, <2>2 DEF BusTypeOK
  <2> QED
    BY <1>5, <2>3
       DEF BusStep, TypeOK, ClientTypeOK, ServerTypeOK, clientVars, srvVars, boundVars,
           historyVars
<1>6. CASE UNCHANGED vars
  BY <1>6 DEF vars, busVars, clientVars, srvVars, boundVars, historyVars, TypeOK,
       BusTypeOK, ClientTypeOK, ServerTypeOK
<1> QED
  BY <1>1, <1>2, <1>3, <1>4, <1>5, <1>6 DEF Next

LEMMA TypeInit == Init => TypeOK
<1> SUFFICES ASSUME Init PROVE TypeOK
  OBVIOUS
<1>1. BusTypeOK
  BY BusBoundAssumption DEF Init, BusInit, BusTypeOK
<1>2. ClientTypeOK
  BY RetriesAssumption
     DEF Init, ClientInit, ClientTypeOK, FreshStream, Streams, Bit, Data, Outcomes
<1>3. ServerTypeOK
  BY ValueAssumption DEF Init, ServerInit, ServerTypeOK, Bit
<1> QED
  BY <1>1, <1>2, <1>3, TransferAssumption DEF Init, TypeOK

\* Every variable of client, server and bus keeps its type, and a client that is
\* in the middle of a call has one: on_request and on_response never see a frame
\* of another shape than the ones the two ends build.
THEOREM TypeCorrect == Spec => []TypeOK
<1> QED
  BY TypeInit, TypeStep, PTL DEF Spec

-----------------------------------------------------------------------------
\* On a prompt bus at most one request is unanswered, and an upload makes the server
\* store nothing.

Quiet == Asked = {} /\ toClient = <<>> /\ responses = <<>>

\* Outside a wait nothing that was asked or answered is left over.
Exchange == OneOutstanding /\ (pc # "wait" => Quiet)

UploadKinds == {"init_upload", "seg_upload"}

\* During an upload the client asks for nothing but an upload.
OnlyUploads ==
  call # NoCall /\ call.kind = "upload" =>
    /\ commits = <<>>
    /\ pc \in {"send", "wait"} => request.kind \in UploadKinds
    /\ \A i \in Asked : toServer[i].kind \in UploadKinds

IInv == TypeOK /\ Exchange /\ OnlyUploads

-----------------------------------------------------------------------------
\* What becomes of the unhandled requests when a frame joins or leaves.

LEMMA AskedAfterTail ==
  ASSUME toServer \in Seq(Requests \cup AbortRequests), toServer # <<>>,
         toServer' = Tail(toServer)
  PROVE  \A i \in Asked' : i + 1 \in Asked /\ toServer'[i] = toServer[i + 1]
<1> SUFFICES ASSUME NEW i \in Asked'
             PROVE  i + 1 \in Asked /\ toServer'[i] = toServer[i + 1]
  OBVIOUS
<1> DEFINE Frame == Requests \cup AbortRequests
<1>1. toServer \in Seq(Frame) /\ toServer # <<>>
  OBVIOUS
<1> HIDE DEF Frame
<1>2. /\ Tail(toServer) \in Seq(Frame)
      /\ Len(Tail(toServer)) = Len(toServer) - 1
      /\ \A n \in 1..Len(Tail(toServer)) : Tail(toServer)[n] = toServer[n + 1]
  BY <1>1, HeadTailProperties
<1>3. i \in 1..Len(Tail(toServer)) /\ toServer'[i].kind # "abort"
  BY <1>2, LenProperties DEF Asked
<1>4. i + 1 \in 1..Len(toServer) /\ Len(toServer) \in Nat
  BY <1>1, <1>2, <1>3
<1> QED
  BY <1>1, <1>2, <1>3, <1>4, LenProperties DEF Asked

LEMMA AskedAfterAppend ==
  ASSUME toServer \in Seq(Requests \cup AbortRequests),
         NEW f \in Requests \cup AbortRequests,
         toServer' = Append(toServer, f)
  PROVE  \A i \in Asked' :
           \/ i \in Asked /\ toServer'[i] = toServer[i]
           \/ i = Len(toServer) + 1 /\ toServer'[i] = f /\ f.kind # "abort"
<1> DEFINE Frame == Requests \cup AbortRequests
<1>1. toServer \in Seq(Frame) /\ f \in Frame
  OBVIOUS
<1> HIDE DEF Frame
<1>2. /\ Append(toServer, f) \in Seq(Frame)
      /\ Len(Append(toServer, f)) = Len(toServer) + 1
      /\ \A n \in 1..Len(toServer) : Append(toServer, f)[n] = toServer[n]
      /\ Append(toServer, f)[Len(toServer) + 1] = f
  BY <1>1, AppendProperties
<1>3. \A i \in Asked' : i \in 1..(Len(toServer) + 1) /\ toServer'[i].kind # "abort"
  BY <1>2, LenProperties DEF Asked
<1>4. Len(toServer) \in Nat
  BY <1>1, LenProperties
<1>5. \A i \in 1..Len(toServer) : i \in DOMAIN toServer
  BY <1>1, LenProperties
<1> QED
  BY <1>2, <1>3, <1>4, <1>5 DEF Asked

\* A first frame that is no abort is the one request that is unanswered.
LEMMA HeadAsked ==
  ASSUME toServer \in Seq(Requests \cup AbortRequests), toServer # <<>>,
         Head(toServer).kind # "abort"
  PROVE  1 \in Asked /\ toServer[1] = Head(toServer)
<1> DEFINE Frame == Requests \cup AbortRequests
<1>1. toServer \in Seq(Frame) /\ toServer # <<>>
  OBVIOUS
<1> HIDE DEF Frame
<1>2. Head(toServer) = toServer[1] /\ 1 \in DOMAIN toServer
  BY <1>1, HeadTailProperties, LenProperties, EmptySeq
<1> QED
  BY <1>2 DEF Asked

LEMMA AbortAppended ==
  ASSUME TypeOK, NEW code \in ClientAbortCodes,
         toServer' = Append(toServer, ReqAbort(code))
  PROVE  \A i \in Asked' : i \in Asked /\ toServer'[i] = toServer[i]
<1>1. ReqAbort(code) \in AbortRequests /\ ReqAbort(code).kind = "abort"
  BY AbortRequestType DEF ReqAbort
<1>2. toServer \in Seq(Requests \cup AbortRequests)
  BY DEF TypeOK, BusTypeOK
<1> QED
  BY <1>1, <1>2, AskedAfterAppend

-----------------------------------------------------------------------------
\* The exchange, one kind of step at a time.

LEMMA AbortKeepsQuiet ==
  ASSUME TypeOK, NEW code \in ClientAbortCodes, Quiet, AbortAndRaise(code),
         responses' = <<>>
  PROVE  Quiet'
<1>1. Asked' = {}
  BY AbortAppended DEF AbortAndRaise, Quiet, Asked
<1> QED
  BY <1>1 DEF AbortAndRaise, Quiet

\* What is left when the one answer has been taken off the queue.
LEMMA AnswerTaken ==
  ASSUME TypeOK, Exchange, responses # <<>>
  PROVE  Asked = {} /\ toClient = <<>> /\ Tail(responses) = <<>>
<1>1. responses \in Seq(Responses) /\ toClient \in Seq(Responses)
  BY DEF TypeOK, ClientTypeOK, BusTypeOK
<1>2. Len(responses) \in Nat /\ Len(toClient) \in Nat /\ Len(responses) # 0
  BY <1>1, EmptySeq, LenProperties
<1>3. Len(toClient) + Len(responses) <= 1 /\ Asked = {}
  BY DEF Exchange, OneOutstanding
<1>4. Len(toClient) = 0 /\ Len(responses) = 1
  BY <1>2, <1>3
<1>5. Tail(responses) \in Seq(Responses) /\ Len(Tail(responses)) = 0
  BY <1>1, <1>4, HeadTailProperties
<1> QED
  BY <1>1, <1>3, <1>4, <1>5, EmptySeq

LEMMA ReadQuiets ==
  ASSUME TypeOK, Exchange, ReadResponse
  PROVE  Quiet'
<1>1. responses # <<>> /\ responses' = Tail(responses)
  BY DEF ReadResponse, ReadAbort, Awaiting, InitUploadAnswered, InitUploadUnexpected,
     SegmentUploaded, SegmentUploadUnexpected, ExpeditedDownloaded,
     InitDownloadAnswered, InitDownloadUnexpected, SegmentDownloaded,
     SegmentDownloadUnexpected, StreamClosed
<1>2. Asked = {} /\ toClient = <<>> /\ responses' = <<>>
  BY <1>1, AnswerTaken
<1>3. \/ UNCHANGED <<toServer, toClient>>
      \/ AbortAndRaise("invalid_command")
      \/ AbortAndRaise("toggle_not_alternated")
  BY DEF ReadResponse, ReadAbort, InitUploadAnswered, InitUploadUnexpected,
     SegmentUploaded, SegmentUploadUnexpected, ExpeditedDownloaded,
     InitDownloadAnswered, InitDownloadUnexpected, SegmentDownloaded,
     SegmentDownloadUnexpected, StreamClosed, busVars
<1>4. /\ "invalid_command" \in ClientAbortCodes
      /\ "toggle_not_alternated" \in ClientAbortCodes
  BY DEF ClientAbortCodes
<1>5. /\ AbortAndRaise("invalid_command") => toServer' = toServer
           \/ toServer' = Append(toServer, ReqAbort("invalid_command"))
      /\ AbortAndRaise("toggle_not_alternated") => toServer' = toServer
           \/ toServer' = Append(toServer, ReqAbort("toggle_not_alternated"))
      /\ toClient' = toClient
  BY <1>3 DEF AbortAndRaise
<1>6. Asked' = {}
  BY <1>2, <1>3, <1>4, <1>5, AbortAppended DEF Asked
<1> QED
  BY <1>2, <1>5, <1>6 DEF Quiet

LEMMA SendExchange ==
  ASSUME TypeOK, Exchange, SendRequest
  PROVE  Exchange'
<1>1. Quiet /\ request \in Requests /\ toServer \in Seq(Requests \cup AbortRequests)
  BY DEF Exchange, SendRequest, TypeOK, BusTypeOK, ClientTypeOK
<1>2. \A i \in Asked' : i = Len(toServer) + 1
  BY <1>1, AskedAfterAppend DEF SendRequest, Quiet
<1>3. toClient' = <<>> /\ responses' = <<>> /\ pc' = "wait"
  BY <1>1 DEF SendRequest, Quiet
<1> QED
  BY <1>2, <1>3 DEF Exchange, OneOutstanding

LEMMA ApplicationExchange ==
  ASSUME Prompt, TypeOK, Exchange, ApplicationStep
  PROVE  Exchange'
<1>1. CASE SendRequest
  BY <1>1, SendExchange
<1>2. CASE SendRequestFails
  <2>1. Quiet /\ responses' = <<>> /\ UNCHANGED <<toServer, toClient>>
    BY <1>2 DEF SendRequestFails, Exchange, Quiet
  <2>2. Quiet'
    BY <2>1 DEF Quiet, Asked
  <2> QED
    BY <2>2 DEF Exchange, OneOutstanding, Quiet
<1>3. CASE TimeoutPossible /\ (RetryAfterTimeout \/ GiveUpAfterTimeout)
  <2>1. Quiet
    BY <1>3
       DEF TimeoutPossible, RetryAfterTimeout, GiveUpAfterTimeout, Quiet, Asked
  <2>2. ASSUME RetryAfterTimeout PROVE Quiet'
    BY <2>1, <2>2 DEF RetryAfterTimeout, busVars, Quiet, Asked
  <2>3. ASSUME GiveUpAfterTimeout PROVE Quiet'
    <3>1. responses' = <<>> /\ AbortAndRaise("timed_out") /\ "timed_out" \in ClientAbortCodes
      BY <2>3 DEF GiveUpAfterTimeout, ClientAbortCodes
    <3> QED
      BY <2>1, <3>1, AbortKeepsQuiet
  <2> QED
    BY <1>3, <2>2, <2>3 DEF Exchange, OneOutstanding, Quiet
<1>4. CASE ReadResponse
  BY <1>4, ReadQuiets DEF Exchange, OneOutstanding, Quiet
<1>5. CASE ReadSegment \/ WriteSegment \/ CloseEmpty
  BY <1>5 DEF ReadSegment, WriteSegment, CloseEmpty, busVars, Exchange, OneOutstanding,
     Quiet, Asked
<1> QED
  BY <1>1, <1>2, <1>3, <1>4, <1>5 DEF ApplicationStep

-----------------------------------------------------------------------------
\* The server takes the one request away and puts at most one answer in its place.

LEMMA AnswerLength ==
  ASSUME toClient = <<>>, NEW o, NEW r, SendResponse(o, r) \/ AbortTransfer(o)
  PROVE  toClient' \in {<<>>, <<r>>, <<RspAbort>>}
BY DEF SendResponse, AbortTransfer

LEMMA ServerAnswers ==
  ASSUME OnRequest
  PROVE  /\ toServer # <<>> /\ toServer' = Tail(toServer)
         /\ Head(toServer).kind = "abort" => toClient' = toClient
         /\ toClient = <<>> => toClient' = <<>> \/ \E r : toClient' = <<r>>
<1>1. toServer # <<>> /\ toServer' = Tail(toServer)
  BY DEF OnRequest, InitUploadExpedited, InitUploadSegmented, InitUploadRefused,
     SegmentedUpload, InitDownloadExpedited, InitDownloadSegmented, SegmentedDownload,
     SegmentedDownloadRefused, SegmentRefused, RequestAborted, Request
<1>2. CASE RequestAborted
  BY <1>1, <1>2 DEF RequestAborted
<1>3. CASE ~RequestAborted
  <2>1. Head(toServer).kind # "abort"
    BY <1>3 DEF OnRequest, InitUploadExpedited, InitUploadSegmented, InitUploadRefused,
       SegmentedUpload, InitDownloadExpedited, InitDownloadSegmented, SegmentedDownload,
       SegmentedDownloadRefused, SegmentRefused, Request
  <2>2. \E o, r : SendResponse(o, r) \/ AbortTransfer(o)
    BY <1>3 DEF OnRequest, InitUploadExpedited, InitUploadSegmented, InitUploadRefused,
       SegmentedUpload, InitDownloadExpedited, InitDownloadSegmented, SegmentedDownload,
       SegmentedDownloadRefused, SegmentRefused
  <2> QED
    BY <1>1, <2>1, <2>2, AnswerLength
<1> QED
  BY <1>2, <1>3

LEMMA ServerExchange ==
  ASSUME TypeOK, Exchange, ServerStep
  PROVE  Exchange'
<1>1. /\ toServer # <<>> /\ toServer' = Tail(toServer)
      /\ Head(toServer).kind = "abort" => toClient' = toClient
      /\ toClient = <<>> => toClient' = <<>> \/ \E r : toClient' = <<r>>
      /\ pc' = pc /\ responses' = responses
  BY ServerAnswers DEF ServerStep, clientVars
<1>2. toServer \in Seq(Requests \cup AbortRequests)
  BY DEF TypeOK, BusTypeOK
<1>3. \A i \in Asked' : i + 1 \in Asked
  BY <1>1, <1>2, AskedAfterTail
<1>4. \A i \in Asked' : i \in Nat \ {0}
  <2>1. toServer' \in Seq(Requests \cup AbortRequests)
    BY TypeStep DEF TypeOK, BusTypeOK, Next
  <2>2. \A i \in Asked' : i \in 1..Len(toServer') /\ Len(toServer') \in Nat
    BY <2>1, LenProperties DEF Asked
  <2> QED
    BY <2>2
<1>5. CASE Head(toServer).kind = "abort"
  <2>1. \A i, j \in Asked' : i = j
    BY <1>3, <1>4 DEF Exchange, OneOutstanding
  <2>2. Asked' # {} => Asked # {}
    BY <1>3
  <2> QED
    BY <1>1, <1>5, <2>1, <2>2 DEF Exchange, OneOutstanding, Quiet
<1>6. CASE Head(toServer).kind # "abort"
  <2>1. 1 \in Asked
    BY <1>1, <1>2, <1>6, HeadAsked
  <2>2. toClient = <<>> /\ responses = <<>> /\ pc = "wait"
    BY <2>1 DEF Exchange, OneOutstanding, Quiet
  <2>3. \A i \in Asked' : i + 1 = 1
    BY <1>3, <2>1 DEF Exchange, OneOutstanding
  <2>4. Asked' = {}
    BY <1>4, <2>3
  <2>5. Len(toClient') + Len(responses') <= 1
    <3>1. CASE toClient' = <<>>
      BY <1>1, <2>2, <3>1
    <3>2. ASSUME NEW r, toClient' = <<r>> PROVE Len(toClient') + Len(responses') <= 1
      <4>1. Len(toClient') = 1 /\ responses' = <<>>
        BY <1>1, <2>2, <3>2
      <4> QED
        BY <4>1
    <3> QED
      BY <1>1, <2>2, <3>1, <3>2
  <2> QED
    BY <1>1, <2>2, <2>4, <2>5 DEF Exchange, OneOutstanding
<1> QED
  BY <1>5, <1>6

-----------------------------------------------------------------------------
\* The other steps neither send nor answer, or take one frame away.

LEMMA NotifierExchange ==
  ASSUME TypeOK, Exchange, NotifierStep
  PROVE  Exchange'
<1>1. /\ toClient # <<>> /\ toClient' = Tail(toClient)
      /\ responses' = Append(responses, Head(toClient))
      /\ UNCHANGED <<toServer, pc>>
  BY DEF NotifierStep, OnResponse
<1>2. toClient \in Seq(Responses) /\ responses \in Seq(Responses)
  BY DEF TypeOK, BusTypeOK, ClientTypeOK
<1>3. Asked = {} /\ pc = "wait" /\ Len(toClient) + Len(responses) <= 1
  BY <1>1 DEF Exchange, OneOutstanding, Quiet
<1>4. Len(toClient') = Len(toClient) - 1 /\ Len(responses') = Len(responses) + 1
  BY <1>1, <1>2, HeadTailProperties, AppendProperties
<1>5. Len(toClient) \in Nat /\ Len(responses) \in Nat
  BY <1>2, LenProperties
<1>6. Len(toClient') + Len(responses') <= 1
  BY <1>3, <1>4, <1>5
<1>7. Asked' = {}
  BY <1>1, <1>3 DEF Asked
<1> QED
  BY <1>1, <1>3, <1>6, <1>7 DEF Exchange, OneOutstanding

LEMMA BusExchange ==
  ASSUME TypeOK, Exchange, BusStep
  PROVE  Exchange'
<1>1. UNCHANGED <<pc, responses>>
  BY DEF BusStep, clientVars
<1>2. CASE LoseRequest
  <2>1. toServer \in Seq(Requests \cup AbortRequests)
    BY DEF TypeOK, BusTypeOK
  <2>2. \A i \in Asked' : i + 1 \in Asked
    BY <1>2, <2>1, AskedAfterTail DEF LoseRequest
  <2>3. \A i \in Asked' : i \in Nat
    <3>1. toServer' \in Seq(Requests \cup AbortRequests)
      BY TypeStep DEF TypeOK, BusTypeOK, Next
    <3> QED
      BY <3>1, LenProperties DEF Asked
  <2>4. \A i, j \in Asked' : i = j
    BY <2>2, <2>3 DEF Exchange, OneOutstanding
  <2>5. Asked' # {} => Asked # {}
    BY <2>2
  <2> QED
    BY <1>1, <1>2, <2>4, <2>5 DEF LoseRequest, Exchange, OneOutstanding, Quiet
<1>3. CASE LoseResponse
  <2>1. toClient \in Seq(Responses) /\ toClient # <<>> /\ responses \in Seq(Responses)
    BY <1>3 DEF LoseResponse, TypeOK, BusTypeOK, ClientTypeOK
  <2>2. Len(Tail(toClient)) = Len(toClient) - 1 /\ Len(toClient) \in Nat /\ Len(responses) \in Nat
    BY <2>1, HeadTailProperties, LenProperties
  <2>3. Asked' = Asked /\ Asked = {} /\ pc = "wait"
    BY <1>3, <2>1 DEF LoseResponse, Asked, Exchange, OneOutstanding, Quiet
  <2> QED
    BY <1>1, <1>3, <2>2, <2>3 DEF LoseResponse, Exchange, OneOutstanding
<1> QED
  BY <1>2, <1>3 DEF BusStep

LEMMA ExchangeStep == Prompt /\ TypeOK /\ Exchange /\ [Next]_vars => Exchange'
<1> SUFFICES ASSUME Prompt, TypeOK, Exchange, [Next]_vars PROVE Exchange'
  OBVIOUS
<1>1. ASSUME NEW o \in Objects, StartUpload(o) PROVE Exchange'
  BY <1>1 DEF StartUpload, Upload, RequestResponse, busVars, Exchange, OneOutstanding,
     Quiet, Asked
<1>2. ASSUME NEW o \in Objects, NEW d \in Values, NEW forced \in BOOLEAN,
             StartDownload(o, d, forced)
      PROVE  Exchange'
  BY <1>2 DEF StartDownload, Download, RequestResponse, busVars, Exchange,
     OneOutstanding, Quiet, Asked
<1>3. CASE ClientStep
  BY <1>3, ApplicationExchange DEF ClientStep
<1>4. CASE NotifierStep \/ ServerStep \/ BusStep
  BY <1>4, NotifierExchange, ServerExchange, BusExchange
<1>5. ASSUME NEW o \in Dictionary, NEW d \in Values, LocalWriteStep(o, d)
      PROVE  Exchange'
  BY <1>5 DEF LocalWriteStep, LocalWrite, busVars, clientVars, Exchange, OneOutstanding,
     Quiet, Asked
<1>6. CASE UNCHANGED vars
  BY <1>6 DEF vars, busVars, clientVars, Exchange, OneOutstanding, Quiet, Asked
<1> QED
  BY <1>1, <1>2, <1>3, <1>4, <1>5, <1>6 DEF Next


-----------------------------------------------------------------------------
\* While an upload is under way the client neither starts nor ends a download.

Uploading == call # NoCall /\ call.kind = "upload"

LEMMA RaiseEndsUpload ==
  ASSUME Uploading, Raise
  PROVE  pc' = "idle"
BY DEF Uploading, Raise, UnfinishedDownload, EndCall

LEMMA ApplicationAsksUpload ==
  ASSUME TypeOK, OnlyUploads, Uploading, ApplicationStep
  PROVE  pc' \in {"send", "wait"} => request'.kind \in UploadKinds
<1>1. CASE SendRequest \/ RetryAfterTimeout
  BY <1>1 DEF SendRequest, RetryAfterTimeout, OnlyUploads, Uploading
<1>2. CASE SendRequestFails \/ GiveUpAfterTimeout
  BY <1>2, RaiseEndsUpload DEF SendRequestFails, GiveUpAfterTimeout, AbortAndRaise
<1>3. CASE ReadResponse
  <2>1. \/ Raise
        \/ pc' \in {"idle", "io"}
    BY <1>3 DEF ReadResponse, ReadAbort, InitUploadAnswered, InitUploadUnexpected,
       SegmentUploaded, SegmentUploadUnexpected, ExpeditedDownloaded,
       InitDownloadAnswered, InitDownloadUnexpected, SegmentDownloaded,
       SegmentDownloadUnexpected, StreamClosed, AbortAndRaise, EndCall
  <2> QED
    BY <2>1, RaiseEndsUpload
<1>4. CASE ReadSegment
  BY <1>4 DEF ReadSegment, RequestResponse, ReqSegUpload, UploadKinds
<1>5. ~WriteSegment /\ ~CloseEmpty
  BY DEF WriteSegment, CloseEmpty, Uploading
<1> QED
  BY <1>1, <1>2, <1>3, <1>4, <1>5 DEF ApplicationStep

LEMMA ApplicationFrames ==
  ASSUME TypeOK, ApplicationStep
  PROVE  \/ toServer' = toServer
         \/ toServer' = Append(toServer, request) /\ pc \in {"send", "wait"}
         \/ \E code \in ClientAbortCodes : toServer' = Append(toServer, ReqAbort(code))
<1>1. CASE SendRequest
  BY <1>1 DEF SendRequest
<1>2. ASSUME NEW code \in ClientAbortCodes, AbortAndRaise(code)
      PROVE  toServer' = toServer \/ toServer' = Append(toServer, ReqAbort(code))
  BY <1>2 DEF AbortAndRaise
<1>3. CASE ~SendRequest
  <2>1. \/ toServer' = toServer
        \/ \E code \in ClientAbortCodes : AbortAndRaise(code)
    BY <1>3 DEF ApplicationStep, SendRequestFails, RetryAfterTimeout, GiveUpAfterTimeout,
       ReadSegment, WriteSegment, CloseEmpty,
       ReadResponse, ReadAbort, InitUploadAnswered, InitUploadUnexpected,
       SegmentUploaded, SegmentUploadUnexpected, ExpeditedDownloaded,
       InitDownloadAnswered, InitDownloadUnexpected, SegmentDownloaded,
       SegmentDownloadUnexpected, StreamClosed, busVars, ClientAbortCodes
  <2> QED
    BY <1>2, <2>1
<1> QED
  BY <1>1, <1>3

LEMMA ApplicationUploads ==
  ASSUME TypeOK, OnlyUploads, ClientStep
  PROVE  OnlyUploads'
<1>1. ApplicationStep /\ UNCHANGED <<call, commits>>
  BY DEF ClientStep, historyVars, ApplicationStep, SendRequest, SendRequestFails,
     RetryAfterTimeout, GiveUpAfterTimeout, ReadSegment, WriteSegment, CloseEmpty,
     ReadResponse, ReadAbort, InitUploadAnswered, InitUploadUnexpected,
     SegmentUploaded, SegmentUploadUnexpected, ExpeditedDownloaded,
     InitDownloadAnswered, InitDownloadUnexpected, SegmentDownloaded,
     SegmentDownloadUnexpected, StreamClosed
<1> SUFFICES ASSUME Uploading
             PROVE  /\ commits' = <<>>
                    /\ pc' \in {"send", "wait"} => request'.kind \in UploadKinds
                    /\ \A i \in Asked' : toServer'[i].kind \in UploadKinds
  BY <1>1 DEF OnlyUploads, Uploading
<1>2. commits' = <<>>
  BY <1>1 DEF OnlyUploads, Uploading
<1>3. \A i \in Asked : toServer[i].kind \in UploadKinds
  BY DEF OnlyUploads, Uploading
<1>4. \A i \in Asked' : toServer'[i].kind \in UploadKinds
  <2>1. CASE toServer' = toServer
    BY <1>3, <2>1 DEF Asked
  <2>2. CASE toServer' = Append(toServer, request) /\ pc \in {"send", "wait"}
    <3>1. request \in Requests /\ toServer \in Seq(Requests \cup AbortRequests)
      BY <2>2 DEF TypeOK, ClientTypeOK, BusTypeOK
    <3>2. request.kind \in UploadKinds
      BY <2>2 DEF OnlyUploads, Uploading
    <3> QED
      BY <1>3, <2>2, <3>1, <3>2, AskedAfterAppend
  <2>3. ASSUME NEW code \in ClientAbortCodes, toServer' = Append(toServer, ReqAbort(code))
        PROVE  \A i \in Asked' : toServer'[i].kind \in UploadKinds
    BY <1>3, <2>3, AbortAppended
  <2> QED
    BY <1>1, <2>1, <2>2, <2>3, ApplicationFrames
<1> QED
  BY <1>1, <1>2, <1>4, ApplicationAsksUpload

LEMMA ServerUploads ==
  ASSUME TypeOK, OnlyUploads, ServerStep
  PROVE  OnlyUploads'
<1>1. toServer # <<>> /\ toServer' = Tail(toServer) /\ UNCHANGED <<call, pc, request>>
  BY ServerAnswers DEF ServerStep, clientVars
<1>2. toServer \in Seq(Requests \cup AbortRequests)
  BY DEF TypeOK, BusTypeOK
<1> SUFFICES ASSUME Uploading
             PROVE  /\ commits' = <<>>
                    /\ \A i \in Asked' : toServer'[i].kind \in UploadKinds
  BY <1>1 DEF OnlyUploads, Uploading
<1>3. \A i \in Asked : toServer[i].kind \in UploadKinds
  BY DEF OnlyUploads, Uploading
<1>4. Head(toServer).kind \notin {"exp_download", "seg_download"}
  BY <1>1, <1>2, <1>3, HeadAsked DEF UploadKinds
<1>5. commits' = commits
  BY <1>4 DEF ServerStep
<1>6. \A i \in Asked' : toServer'[i].kind \in UploadKinds
  BY <1>1, <1>2, <1>3, AskedAfterTail
<1> QED
  BY <1>5, <1>6 DEF OnlyUploads, Uploading

LEMMA UploadsStep ==
  Prompt /\ TypeOK /\ Exchange /\ OnlyUploads /\ [Next]_vars => OnlyUploads'
<1> SUFFICES ASSUME Prompt, TypeOK, Exchange, OnlyUploads, [Next]_vars
             PROVE  OnlyUploads'
  OBVIOUS
<1>1. ASSUME NEW o \in Objects, StartUpload(o) PROVE OnlyUploads'
  <2>1. Asked = {}
    BY <1>1 DEF StartUpload, Upload, Exchange, Quiet
  <2> QED
    BY <1>1, <2>1 DEF StartUpload, StartCall, Upload, RequestResponse, ReqInitUpload,
       busVars, OnlyUploads, UploadKinds, Asked
<1>2. ASSUME NEW o \in Objects, NEW d \in Values, NEW forced \in BOOLEAN,
             StartDownload(o, d, forced)
      PROVE  OnlyUploads'
  BY <1>2 DEF StartDownload, Download, OnlyUploads
<1>3. CASE ClientStep \/ ServerStep
  BY <1>3, ApplicationUploads, ServerUploads
<1>4. CASE NotifierStep
  BY <1>4 DEF NotifierStep, OnResponse, historyVars, OnlyUploads, Asked
<1>5. ASSUME NEW o \in Dictionary, NEW d \in Values, LocalWriteStep(o, d)
      PROVE  OnlyUploads'
  BY <1>5 DEF LocalWriteStep, LocalWrite, busVars, clientVars, OnlyUploads, Asked
<1>6. CASE BusStep
  <2>1. UNCHANGED <<call, commits, pc, request>>
    BY <1>6 DEF BusStep, clientVars, historyVars
  <2>2. CASE LoseRequest
    <3>1. toServer \in Seq(Requests \cup AbortRequests)
      BY DEF TypeOK, BusTypeOK
    <3>2. \A i \in Asked' : i + 1 \in Asked /\ toServer'[i] = toServer[i + 1]
      BY <2>2, <3>1, AskedAfterTail DEF LoseRequest
    <3> QED
      BY <2>1, <3>2 DEF OnlyUploads
  <2>3. CASE LoseResponse
    BY <2>1, <2>3 DEF LoseResponse, OnlyUploads, Asked
  <2> QED
    BY <1>6, <2>2, <2>3 DEF BusStep
<1>7. CASE UNCHANGED vars
  BY <1>7 DEF vars, busVars, clientVars, historyVars, OnlyUploads, Asked
<1> QED
  BY <1>1, <1>2, <1>3, <1>4, <1>5, <1>6, <1>7 DEF Next

-----------------------------------------------------------------------------
LEMMA ExchangeInit == Init => Exchange /\ OnlyUploads
BY DEF Init, BusInit, ClientInit, Exchange, OneOutstanding, OnlyUploads, Quiet, Asked

LEMMA ExchangeInductive == Prompt /\ Spec => []IInv
<1> SUFFICES ASSUME Prompt PROVE Spec => []IInv
  OBVIOUS
<1>1. Init => IInv
  BY TypeInit, ExchangeInit DEF IInv
<1>2. IInv /\ [Next]_vars => IInv'
  BY TypeStep, ExchangeStep, UploadsStep DEF IInv
<1> QED
  BY <1>1, <1>2, PTL DEF Spec

\* When answers arrive in time at most one request of the client is on its way or
\* answered but unread, for every number of repetitions and losses: the answer a
\* call takes off the queue is the answer to its own request (request_response).
THEOREM OneAtATime == Prompt /\ Spec => []OneOutstanding
<1>1. IInv => OneOutstanding
  BY DEF IInv, Exchange
<1> QED
  BY <1>1, ExchangeInductive, PTL

\* When answers arrive in time an upload, also one that fails, is repeated or is
\* aborted, never makes the server store anything.
THEOREM ReadingIsSafe == Prompt /\ Spec => []UploadStoresNothing
<1>1. IInv => UploadStoresNothing
  BY DEF IInv, OnlyUploads, UploadStoresNothing
<1> QED
  BY <1>1, ExchangeInductive, PTL

-----------------------------------------------------------------------------
(***************************************************************************)
(* On a prompt bus the two ends of a transfer stay in step, an upload that *)
(* returns has read one value, and a download that returns has been        *)
(* stored.                                                                 *)
(*                                                                         *)
(* The invariant follows one call from phase to phase.  A phase is the     *)
(* request being exchanged; it says what the server holds, and which       *)
(* answers may be under way, before and after the server has handled it.   *)
(***************************************************************************)

\* The one answer under way.
Under(f) == toClient = <<f>> \/ responses = <<f>>

Pending(kind) == pc \in {"send", "wait"} /\ request.kind = kind

DownloadKinds == {"exp_download", "init_download", "seg_download"}

Downloading == call # NoCall /\ call.kind = "download" /\ outcome = "running"

\* What the server has not handled is what the client is asking.
AskedIsRequest == \A i \in Asked : toServer[i] = request

Holds == call # NoCall /\ call.obj \in Dictionary => store[call.obj] \in held

\* A failed call that has not ended waits for the answer to close()'s segment.
Closing ==
  pc # "idle" /\ outcome # "running" =>
    /\ outcome = "failed"
    /\ call.kind = "download"
    /\ Pending("seg_download")
    /\ stream.closed

OnlyDownloads ==
  pc \in {"send", "wait"} /\ call.kind = "download" => request.kind \in DownloadKinds

\* What was read and what the server still has to send make up a value.
Left(read) ==
  /\ srvBuffer # NoBuffer
  /\ read \o srvBuffer \in held
  /\ stream.size = Len(read \o srvBuffer)

UploadIo ==
  Uploading /\ pc = "io" =>
    srvIndex = call.obj /\ srvToggle = stream.toggle /\ Left(result)

UploadInit ==
  Uploading /\ Pending("init_upload") =>
    /\ request = ReqInitUpload(call.obj)
    /\ result = <<>>
    /\ stream = FreshStream
    /\ \A f : Under(f) =>
         /\ f.kind = "exp_upload" => f.data \in held
         /\ f.kind = "init_upload" =>
              /\ srvIndex = call.obj
              /\ srvToggle = 0
              /\ srvBuffer # NoBuffer
              /\ srvBuffer \in held
              /\ f.size = Len(srvBuffer)

UploadSeg ==
  Uploading /\ Pending("seg_upload") =>
    /\ request = ReqSegUpload(stream.toggle)
    /\ srvIndex = call.obj
    /\ srvToggle = stream.toggle => Left(result)
    /\ \A f : Under(f) /\ f.kind = "seg_upload" =>
         /\ srvToggle # stream.toggle
         /\ Left(result \o f.data)
         /\ f.last \/ f.data = <<>> => srvBuffer = <<>>

\* A value that the server refused can only be refused again: the exchange is not
\* repeated, or the size of no object is fixed.  (A repeated last segment is
\* appended to the buffer once more, which may give the value the size it lacked.)
RefusedOnce == MaxRetries = 1 \/ \A o \in Dictionary : Width[o] = 0

Spent == MaxRetries = 1 /\ pc = "wait" /\ Asked = {}

Moved(n) == srvBuffer = SubSeq(call.data, 1, n)

TheCommit == [obj |-> call.obj, data |-> call.data]

DownloadExp ==
  Downloading /\ Pending("exp_download") =>
    /\ request = ReqExpDownload(call.obj, call.data)
    /\ \A i \in 1..Len(commits) : commits[i] = TheCommit
    /\ commits # <<>> => Accepts(call.obj, call.data)
    /\ \A f : Under(f) /\ f.kind = "download" => commits # <<>>

DownloadInit ==
  Downloading /\ Pending("init_download") =>
    /\ request = ReqInitDownload(call.obj)
    /\ stream = [FreshStream EXCEPT !.size = Len(call.data)]
    /\ commits = <<>>
    /\ \A f : Under(f) /\ f.kind = "download" =>
         srvIndex = call.obj /\ srvToggle = 0 /\ srvBuffer = <<>>

DownloadIo ==
  Downloading /\ pc = "io" =>
    /\ srvIndex = call.obj
    /\ srvToggle = stream.toggle
    /\ stream.size = Len(call.data)
    /\ stream.pos \in 0..Len(call.data)
    /\ stream.pos = Len(call.data) => call.data = <<>>
    /\ ~stream.done /\ ~stream.closed
    /\ Moved(stream.pos)
    /\ commits = <<>>

\* Where the segment being written ends.
SegmentEnd == stream.pos + Len(request.data)

DownloadSegStream ==
  Downloading /\ Pending("seg_download") =>
    /\ srvIndex = call.obj
    /\ stream.size = Len(call.data)
    /\ SegmentEnd \in 0..Len(call.data)
    /\ request.data = SubSeq(call.data, stream.pos + 1, SegmentEnd)
    /\ request.last <=> SegmentEnd = Len(call.data)
    /\ stream.closed => request.last
    /\ ~stream.closed =>
         (request.last <=> stream.done) /\ stream.toggle = Flip(request.toggle)

\* Before the server has taken the segment, or after it has refused the value.
Untaken ==
  \/ Moved(stream.pos) /\ commits = <<>>
  \/ /\ request.last
     /\ RefusedOnce => commits = <<>> /\ (call.obj \notin Writable \/ Spent)

Taken ==
  IF request.last
  THEN RefusedOnce => commits = <<TheCommit>> /\ Accepts(call.obj, call.data)
  ELSE Moved(SegmentEnd) /\ commits = <<>>

DownloadSegServer ==
  Downloading /\ Pending("seg_download") =>
    /\ srvToggle = request.toggle => Untaken
    /\ srvToggle # request.toggle => Taken
    /\ \A f : Under(f) => f.kind \in {"seg_download", "abort"}
    /\ \A f : Under(f) /\ f.kind = "seg_download" => srvToggle # request.toggle

PhaseInv ==
  /\ UploadIo /\ UploadInit /\ UploadSeg
  /\ DownloadExp /\ DownloadInit /\ DownloadIo
  /\ DownloadSegStream /\ DownloadSegServer

StoredInv ==
  Finished("download") =>
    /\ RefusedOnce => DownloadStored /\ RefusedDownloadRaises

-----------------------------------------------------------------------------
\* Steps that leave the transfer alone: what is under way is delivered or lost, a
\* request is sent again, or an application writes.

LEMMA LeftAlone ==
  ASSUME UNCHANGED <<call, outcome, stream, request, result>>,
         UNCHANGED <<srvIndex, srvToggle, srvBuffer, commits>>,
         pc' = pc \/ {pc, pc'} \subseteq {"send", "wait"},
         held \subseteq held',
         \A f : Under(f)' => Under(f),
         Spent => Spent',
         PhaseInv
  PROVE  PhaseInv'
<1>1. /\ Uploading' = Uploading /\ Downloading' = Downloading
      /\ (pc' = "io") = (pc = "io")
      /\ \A kind : Pending(kind)' => Pending(kind)
  BY DEF Uploading, Downloading, Pending
<1>2. \A read : Left(read) => Left(read)'
  BY DEF Left
<1>3. UploadIo'
  BY <1>1, <1>2 DEF UploadIo, PhaseInv
<1>4. UploadInit'
  BY <1>1, <1>2 DEF UploadInit, PhaseInv
<1>5. UploadSeg'
  BY <1>1, <1>2 DEF UploadSeg, PhaseInv
<1>6. DownloadExp' /\ DownloadInit' /\ DownloadIo'
  BY <1>1 DEF DownloadExp, DownloadInit, DownloadIo, Moved, TheCommit, Accepts, PhaseInv
<1>7. DownloadSegStream'
  BY <1>1 DEF DownloadSegStream, SegmentEnd, PhaseInv
<1>8. DownloadSegServer'
  <2>1. Untaken => Untaken'
    BY DEF Untaken, Moved
  <2>2. Taken => Taken'
    BY DEF Taken, Moved, SegmentEnd, TheCommit, Accepts
  <2> QED
    BY <1>1, <2>1, <2>2 DEF DownloadSegServer, PhaseInv
<1> QED
  BY <1>3, <1>4, <1>5, <1>6, <1>7, <1>8 DEF PhaseInv

\* A finished call stays as it ended until the next one starts.
LEMMA FinishedStays ==
  ASSUME UNCHANGED <<pc, call, outcome, result, commits>>, held \subseteq held',
         UploadReadsOneValue, StoredInv
  PROVE  UploadReadsOneValue' /\ StoredInv'
BY DEF Finished, UploadReadsOneValue, StoredInv, DownloadStored, RefusedDownloadRaises

\* What is under way after an answer was delivered, lost or taken.
LEMMA AtMostOne ==
  ASSUME NEW S, NEW s \in Seq(S), NEW t \in Seq(S), Len(s) + Len(t) <= 1, s # <<>>
  PROVE  t = <<>> /\ s = <<Head(s)>> /\ Tail(s) = <<>>
<1>1. Len(s) \in Nat /\ Len(t) \in Nat /\ Len(s) # 0 /\ Len(s) + Len(t) <= 1
  BY LenProperties, EmptySeq
<1>2. Len(s) = 1 /\ Len(t) = 0
  <2> DEFINE m == Len(s)
             n == Len(t)
  <2>1. m \in Nat /\ n \in Nat /\ m # 0 /\ m + n <= 1
    BY <1>1
  <2> HIDE DEF m, n
  <2>2. m = 1 /\ n = 0
    BY <2>1
  <2> QED
    BY <2>2 DEF m, n
<1>3. t = <<>>
  BY <1>2, EmptySeq
<1>4. s = <<Head(s)>>
  BY <1>2
<1>5. Tail(s) \in Seq(S) /\ Len(Tail(s)) = 0
  BY <1>2, HeadTailProperties
<1> QED
  BY <1>3, <1>4, <1>5, EmptySeq

LEMMA AnswerQueues ==
  ASSUME TypeOK, Exchange
  PROVE  /\ toClient \in Seq(Responses) /\ responses \in Seq(Responses)
         /\ Len(toClient) + Len(responses) <= 1
         /\ Len(responses) + Len(toClient) <= 1
<1>1. toClient \in Seq(Responses) /\ responses \in Seq(Responses)
  BY DEF TypeOK, BusTypeOK, ClientTypeOK
<1>2. Len(toClient) \in Nat /\ Len(responses) \in Nat
  BY <1>1, LenProperties
<1> QED
  BY <1>1, <1>2 DEF Exchange, OneOutstanding

LEMMA UnderDelivered ==
  ASSUME TypeOK, Exchange, NotifierStep
  PROVE  \A f : Under(f)' => Under(f)
<1>1. /\ toClient # <<>> /\ toClient' = Tail(toClient)
      /\ responses' = Append(responses, Head(toClient))
  BY DEF NotifierStep, OnResponse
<1>2. responses = <<>> /\ toClient = <<Head(toClient)>> /\ Tail(toClient) = <<>>
  BY <1>1, AnswerQueues, AtMostOne
<1>3. responses' = <<Head(toClient)>> /\ toClient' = <<>>
  BY <1>1, <1>2
<1> QED
  BY <1>2, <1>3 DEF Under

LEMMA UnderLost ==
  ASSUME TypeOK, Exchange, BusStep
  PROVE  \A f : Under(f)' => Under(f)
<1>1. responses' = responses
  BY DEF BusStep, clientVars
<1>2. CASE LoseRequest
  BY <1>1, <1>2 DEF LoseRequest, Under
<1>3. CASE LoseResponse
  <2>1. toClient # <<>> /\ toClient' = Tail(toClient)
    BY <1>3 DEF LoseResponse
  <2>2. toClient' = <<>>
    BY <2>1, AnswerQueues, AtMostOne
  <2> QED
    BY <1>1, <2>2 DEF Under
<1> QED
  BY <1>2, <1>3 DEF BusStep

LEMMA UnderRead ==
  ASSUME TypeOK, Exchange, responses # <<>>
  PROVE  Under(Response) /\ Response \in Responses
<1>1. responses = <<Head(responses)>> /\ responses \in Seq(Responses)
  BY AnswerQueues, AtMostOne
<1> QED
  BY <1>1 DEF Under, Response

LEMMA UnderNothing ==
  ASSUME Quiet
  PROVE  \A f : ~Under(f)
BY DEF Quiet, Under

-----------------------------------------------------------------------------
\* The server handles the request that the client is waiting for.

Handling ==
  /\ TypeOK /\ ServerStep
  /\ Head(toServer) = request /\ toServer # <<>> /\ request.kind # "abort"
  /\ pc = "wait" /\ pc' = "wait"
  /\ toClient = <<>> /\ responses' = <<>>
  /\ Asked' = {}
  /\ UNCHANGED <<call, outcome, stream, request, result>>
  /\ held \subseteq held'

LEMMA HandlesRequest ==
  ASSUME TypeOK, Exchange, AskedIsRequest, ServerStep, Head(toServer).kind # "abort"
  PROVE  Handling
<1>1. toServer # <<>> /\ toServer' = Tail(toServer)
  BY ServerAnswers DEF ServerStep
<1>2. toServer \in Seq(Requests \cup AbortRequests)
  BY DEF TypeOK, BusTypeOK
<1>3. 1 \in Asked /\ toServer[1] = Head(toServer)
  BY <1>1, <1>2, HeadAsked
<1>4. toClient = <<>> /\ responses = <<>> /\ pc = "wait"
  BY <1>3 DEF Exchange, OneOutstanding, Quiet
<1>5. UNCHANGED <<pc, responses, call, outcome, stream, request, result>>
  BY DEF ServerStep, clientVars
<1>6. held \subseteq held'
  BY DEF ServerStep, RecordHeld
<1>7. Asked' = {}
  <2>1. toServer' \in Seq(Requests \cup AbortRequests)
    BY TypeStep DEF TypeOK, BusTypeOK, Next
  <2>2. \A i \in Asked' : i \in 1..Len(toServer') /\ Len(toServer') \in Nat
    BY <2>1, LenProperties DEF Asked
  <2>3. \A i \in Asked' : i + 1 = 1
    BY <1>1, <1>2, <1>3, AskedAfterTail DEF Exchange, OneOutstanding
  <2> QED
    BY <2>2, <2>3
<1>8. Head(toServer) = request
  BY <1>3 DEF AskedIsRequest
<1> QED
  BY <1>1, <1>4, <1>5, <1>6, <1>7, <1>8 DEF Handling

LEMMA UnderAnswered ==
  ASSUME Handling, NEW o, NEW r, SendResponse(o, r)
  PROVE  \A f : Under(f)' => f = r \/ f.kind = "abort"
<1>1. toClient' \in {<<>>, <<r>>, <<RspAbort>>} /\ responses' = <<>>
  BY AnswerLength DEF Handling
<1> QED
  BY <1>1 DEF Under, RspAbort

LEMMA UnderAborted ==
  ASSUME Handling, NEW o, AbortTransfer(o)
  PROVE  \A f : Under(f)' => f.kind = "abort"
<1>1. toClient' \in {<<>>, <<RspAbort>>} /\ responses' = <<>>
  BY DEF Handling, AbortTransfer
<1> QED
  BY <1>1 DEF Under, RspAbort

\* What the call's object holds is what the history has recorded.
LEMMA ValueIsHeld ==
  ASSUME TypeOK, Holds, call # NoCall, Available(call.obj)
  PROVE  store[call.obj] \in held /\ store[call.obj] \in Data
BY DictionaryAssumption DEF Available, Holds, TypeOK, ServerTypeOK

LEMMA HandlesInitUpload ==
  ASSUME Handling, Holds, UploadInit
  PROVE  UploadInit'
<1> SUFFICES ASSUME Uploading, Pending("init_upload") PROVE UploadInit'
  BY DEF Handling, UploadInit, Uploading, Pending
<1>1. /\ request = ReqInitUpload(call.obj) /\ result = <<>> /\ stream = FreshStream
      /\ request.kind = "init_upload" /\ request.obj = call.obj
      /\ Head(toServer) = request /\ held \subseteq held' /\ call # NoCall
      /\ UNCHANGED <<call, outcome, stream, request, result>>
  BY DEF UploadInit, ReqInitUpload, Handling, Uploading
<1> SUFFICES ASSUME NEW f, Under(f)'
             PROVE  /\ f.kind = "exp_upload" => f.data \in held'
                    /\ f.kind = "init_upload" =>
                         /\ srvIndex' = call.obj
                         /\ srvToggle' = 0
                         /\ srvBuffer' # NoBuffer
                         /\ srvBuffer' \in held'
                         /\ f.size = Len(srvBuffer')
  BY <1>1 DEF UploadInit
<1>2. CASE InitUploadExpedited
  <2>1. /\ Available(call.obj)
        /\ SendResponse(call.obj, RspExpUpload(call.obj, store[call.obj]))
    BY <1>1, <1>2 DEF InitUploadExpedited
  <2>2. f = RspExpUpload(call.obj, store[call.obj]) \/ f.kind = "abort"
    BY <2>1, UnderAnswered
  <2>3. store[call.obj] \in held'
    BY <1>1, <2>1, ValueIsHeld DEF Handling
  <2> QED
    BY <2>2, <2>3 DEF RspExpUpload
<1>3. CASE InitUploadSegmented
  <2>1. /\ Available(call.obj)
        /\ srvIndex' = call.obj /\ srvBuffer' = store[call.obj] /\ srvToggle' = 0
        /\ SendResponse(call.obj, RspInitUpload(call.obj, Len(store[call.obj])))
    BY <1>1, <1>3 DEF InitUploadSegmented
  <2>2. f = RspInitUpload(call.obj, Len(store[call.obj])) \/ f.kind = "abort"
    BY <2>1, UnderAnswered
  <2>3. store[call.obj] \in held' /\ store[call.obj] # NoBuffer
    BY <1>1, <2>1, ValueIsHeld, ValueAssumption DEF Handling
  <2> QED
    BY <2>1, <2>2, <2>3 DEF RspInitUpload
<1>4. CASE InitUploadRefused
  <2>1. f.kind = "abort"
    BY <1>4, UnderAborted DEF InitUploadRefused
  <2> QED
    BY <2>1
<1> QED
  BY <1>1, <1>2, <1>3, <1>4
     DEF Handling, ServerStep, OnRequest, SegmentedUpload, InitDownloadExpedited,
     InitDownloadSegmented, SegmentedDownload, SegmentedDownloadRefused, SegmentRefused,
     RequestAborted, Request

\* A segment is the start of what was left.
LEMMA SegmentTaken ==
  ASSUME NEW read \in Data, NEW buffer \in Data, NEW n \in 0..Len(buffer)
  PROVE  /\ (read \o SubSeq(buffer, 1, n)) \o SubSeq(buffer, n + 1, Len(buffer))
              = read \o buffer
         /\ Len(SubSeq(buffer, 1, n)) = n
         /\ SubSeq(buffer, 1, n) \in Data
         /\ SubSeq(buffer, n + 1, Len(buffer)) \in Data
         /\ n = Len(buffer) => SubSeq(buffer, n + 1, Len(buffer)) = <<>>
<1> DEFINE first == SubSeq(buffer, 1, n)
           rest == SubSeq(buffer, n + 1, Len(buffer))
<1>1. buffer \in Seq(Bytes) /\ read \in Seq(Bytes) /\ Len(buffer) \in Nat /\ n \in Nat
      /\ n <= Len(buffer)
  BY LenProperties DEF Data
<1>2. first \in Seq(Bytes) /\ rest \in Seq(Bytes) /\ Len(first) = n
  BY <1>1, SubSeqProperties
<1>3. first \o rest = buffer
  <2>1. /\ 1 \in 1..Len(buffer) + 1 /\ n \in (1 - 1)..Len(buffer)
        /\ Len(buffer) \in n..Len(buffer)
    BY <1>1
  <2>2. first \o rest = SubSeq(buffer, 1, Len(buffer))
    BY <1>1, <2>1, ConcatAdjacentSubSeq
  <2> QED
    BY <1>1, <2>2, SubSeqFull
<1>4. n = Len(buffer) => rest = <<>>
  BY <1>1, SubSeqEmpty
<1> HIDE DEF first, rest
<1>5. (read \o first) \o rest = read \o (first \o rest)
  BY SMTT(30), <1>1, <1>2, ConcatAssociative
<1> QED
  BY <1>2, <1>3, <1>4, <1>5 DEF first, rest, Data

LEMMA HandlesSegUpload ==
  ASSUME Handling, UploadSeg
  PROVE  UploadSeg'
<1> SUFFICES ASSUME Uploading, Pending("seg_upload") PROVE UploadSeg'
  BY DEF Handling, UploadSeg, Uploading, Pending
<1>1. /\ request = ReqSegUpload(stream.toggle) /\ srvIndex = call.obj
      /\ request.kind = "seg_upload" /\ request.toggle = stream.toggle
      /\ Head(toServer) = request /\ held \subseteq held'
      /\ srvToggle = stream.toggle => Left(result)
      /\ UNCHANGED <<call, outcome, stream, request, result>>
      /\ result \in Data /\ srvBuffer \in Data \cup {NoBuffer} /\ srvToggle \in Bit
  BY DEF UploadSeg, ReqSegUpload, Handling, TypeOK, ClientTypeOK, ServerTypeOK
<1>2. CASE SegmentedUpload
  <2> DEFINE n == IF Len(srvBuffer) < SegLen THEN Len(srvBuffer) ELSE SegLen
             rest == SubSeq(srvBuffer, n + 1, Len(srvBuffer))
             sent == SubSeq(srvBuffer, 1, n)
  <2>1. /\ srvToggle = stream.toggle /\ srvBuffer # NoBuffer
        /\ srvBuffer' = rest /\ srvToggle' = Flip(srvToggle) /\ srvIndex' = srvIndex
        /\ SendResponse(srvIndex, RspSegUpload(srvToggle, sent, rest = <<>>))
    BY <1>1, <1>2 DEF SegmentedUpload
  <2>2. n \in 0..Len(srvBuffer) /\ (n = 0 => n = Len(srvBuffer))
    <3>1. Len(srvBuffer) \in Nat
      BY <1>1, <2>1, LenProperties DEF Data
    <3> QED
      BY <3>1, LengthAssumption
  <2> HIDE DEF n
  <2>3. /\ (result \o sent) \o rest = result \o srvBuffer
        /\ Len(sent) = n /\ sent \in Data /\ rest \in Data
        /\ n = Len(srvBuffer) => rest = <<>>
    BY <1>1, <2>1, <2>2, SegmentTaken
  <2>4. sent = <<>> => rest = <<>>
    BY <2>2, <2>3
  <2> HIDE DEF rest, sent
  <2>5. /\ srvToggle' # stream.toggle
        /\ rest # NoBuffer
    BY <1>1, <2>1, <2>3, ValueAssumption DEF Flip, Bit
  <2>6. /\ srvBuffer' # NoBuffer
        /\ (result \o sent) \o srvBuffer' \in held'
        /\ stream.size = Len((result \o sent) \o srvBuffer')
    BY <1>1, <2>1, <2>3, <2>5 DEF Left
  <2>7. ASSUME NEW f, Under(f)', f.kind = "seg_upload"
        PROVE  Left(result \o f.data)' /\ (f.last \/ f.data = <<>> => srvBuffer' = <<>>)
    <3>1. f = RspSegUpload(srvToggle, sent, rest = <<>>)
      BY <2>1, <2>7, UnderAnswered
    <3>2. f.data = sent /\ f.last = (rest = <<>>)
      BY <3>1 DEF RspSegUpload
    <3> QED
      BY <1>1, <2>1, <2>4, <2>6, <3>2 DEF Left
  <2> QED
    BY <1>1, <2>1, <2>5, <2>7 DEF UploadSeg
<1>3. CASE SegmentRefused
  <2>1. UNCHANGED <<srvIndex, srvToggle, srvBuffer>> /\ \A f : Under(f)' => f.kind = "abort"
    BY <1>3, UnderAborted DEF SegmentRefused, srvVars
  <2>2. Left(result) => Left(result)'
    BY <1>1, <2>1 DEF Left
  <2> QED
    BY <1>1, <2>1, <2>2 DEF UploadSeg
<1> QED
  BY <1>1, <1>2, <1>3
     DEF Handling, ServerStep, OnRequest, InitUploadExpedited, InitUploadSegmented,
     InitUploadRefused, InitDownloadExpedited, InitDownloadSegmented, SegmentedDownload,
     SegmentedDownloadRefused, RequestAborted, Request

\* What the history records of the step in which the server stores a value.
LEMMA Committed ==
  ASSUME Handling, Downloading
  PROVE  /\ InitDownloadExpedited =>
              commits' = IF Accepts(request.obj, request.data)
                         THEN Append(commits, [obj |-> request.obj, data |-> request.data])
                         ELSE commits
         /\ SegmentedDownload =>
              commits' = IF request.last
                         THEN Append(commits, [obj |-> srvIndex, data |-> srvBuffer'])
                         ELSE commits
         /\ ~StoresValue => commits' = commits
<1>1. /\ Head(toServer) = request
      /\ commits' =
          (IF StoresValue /\ request.kind = "exp_download" /\ Accepts(request.obj, request.data)
           THEN Append(commits, [obj |-> request.obj, data |-> request.data])
           ELSE IF StoresValue /\ request.kind = "seg_download" /\ request.last
           THEN Append(commits, [obj |-> srvIndex, data |-> srvBuffer'])
           ELSE commits)
  BY DEF Handling, ServerStep
<1>2. /\ InitDownloadExpedited => StoresValue /\ request.kind = "exp_download"
      /\ SegmentedDownload => StoresValue /\ request.kind = "seg_download"
  BY <1>1 DEF StoresValue, InitDownloadExpedited, SegmentedDownload, Request
<1> QED
  BY <1>1, <1>2

LEMMA HandlesExpDownload ==
  ASSUME Handling, DownloadExp
  PROVE  DownloadExp'
<1> SUFFICES ASSUME Downloading, Pending("exp_download") PROVE DownloadExp'
  BY DEF Handling, DownloadExp, Downloading, Pending
<1>1. /\ request = ReqExpDownload(call.obj, call.data)
      /\ request.kind = "exp_download" /\ request.obj = call.obj /\ request.data = call.data
      /\ Head(toServer) = request
      /\ UNCHANGED <<call, outcome, stream, request, result>>
      /\ \A i \in 1..Len(commits) : commits[i] = TheCommit
      /\ commits # <<>> => Accepts(call.obj, call.data)
  BY DEF DownloadExp, ReqExpDownload, Handling
<1>2. InitDownloadExpedited
  BY <1>1
     DEF Handling, ServerStep, OnRequest, InitUploadExpedited, InitUploadSegmented,
     InitUploadRefused, SegmentedUpload, InitDownloadSegmented, SegmentedDownload,
     SegmentedDownloadRefused, SegmentRefused, RequestAborted, Request
<1>3. commits' = IF Accepts(call.obj, call.data) THEN Append(commits, TheCommit) ELSE commits
  BY <1>1, <1>2, Committed DEF TheCommit
<1>4. commits \in Seq([obj : Objects, data : Data])
  BY DEF Handling, TypeOK
<1>5. CASE Accepts(call.obj, call.data)
  <2>1. TheCommit \in [obj : Objects, data : Data]
    BY CallFields DEF TheCommit, Downloading, Handling, TypeOK, ClientTypeOK
  <2>2. /\ Len(commits') = Len(commits) + 1 /\ Len(commits) \in Nat
        /\ \A i \in 1..Len(commits) : commits'[i] = commits[i]
        /\ commits'[Len(commits) + 1] = TheCommit /\ commits' # <<>>
    BY <1>3, <1>4, <1>5, <2>1, AppendProperties, LenProperties
  <2>3. \A i \in 1..Len(commits') : commits'[i] = TheCommit
    BY <1>1, <2>2
  <2> QED
    BY <1>1, <1>5, <2>2, <2>3 DEF DownloadExp, TheCommit, Accepts
<1>6. CASE ~Accepts(call.obj, call.data)
  <2>1. AbortTransfer(call.obj)
    BY <1>1, <1>2, <1>6 DEF InitDownloadExpedited
  <2>2. \A f : Under(f)' => f.kind = "abort"
    BY <2>1, UnderAborted
  <2> QED
    BY <1>1, <1>3, <1>6, <2>2 DEF DownloadExp, TheCommit, Accepts
<1> QED
  BY <1>5, <1>6

LEMMA HandlesInitDownload ==
  ASSUME Handling, DownloadInit
  PROVE  DownloadInit'
<1> SUFFICES ASSUME Downloading, Pending("init_download") PROVE DownloadInit'
  BY DEF Handling, DownloadInit, Downloading, Pending
<1>1. /\ request = ReqInitDownload(call.obj)
      /\ request.kind = "init_download" /\ request.obj = call.obj
      /\ Head(toServer) = request
      /\ UNCHANGED <<call, outcome, stream, request, result>>
      /\ stream = [FreshStream EXCEPT !.size = Len(call.data)]
      /\ commits = <<>>
  BY DEF DownloadInit, ReqInitDownload, Handling
<1>2. InitDownloadSegmented
  BY <1>1
     DEF Handling, ServerStep, OnRequest, InitUploadExpedited, InitUploadSegmented,
     InitUploadRefused, SegmentedUpload, InitDownloadExpedited, SegmentedDownload,
     SegmentedDownloadRefused, SegmentRefused, RequestAborted, Request
<1>3. ~StoresValue
  BY <1>1 DEF StoresValue, InitDownloadExpedited, SegmentedDownload, Request
<1>4. commits' = <<>>
  BY <1>1, <1>3, Committed
<1>5. srvIndex' = call.obj /\ srvBuffer' = <<>> /\ srvToggle' = 0
  BY <1>1, <1>2 DEF InitDownloadSegmented
<1> QED
  BY <1>1, <1>4, <1>5 DEF DownloadInit

\* The bytes moved and the next segment are the bytes moved after it.
LEMMA SegmentMoved ==
  ASSUME NEW data \in Data, NEW pos \in Nat, NEW end \in 0..Len(data), pos <= end
  PROVE  SubSeq(data, 1, pos) \o SubSeq(data, pos + 1, end) = SubSeq(data, 1, end)
<1>1. data \in Seq(Bytes) /\ Len(data) \in Nat
  BY LenProperties DEF Data
<1>2. 1 \in 1..Len(data) + 1 /\ pos \in (1 - 1)..Len(data) /\ end \in pos..Len(data)
  BY <1>1
<1> QED
  BY <1>1, <1>2, ConcatAdjacentSubSeq

LEMMA HandlesSegDownload ==
  ASSUME Handling, DownloadSegStream, DownloadSegServer
  PROVE  DownloadSegStream' /\ DownloadSegServer'
<1> SUFFICES ASSUME Downloading, Pending("seg_download")
             PROVE  DownloadSegStream' /\ DownloadSegServer'
  BY DEF Handling, DownloadSegStream, DownloadSegServer, Downloading, Pending
<1>1. /\ request.kind = "seg_download" /\ request \in Requests /\ call \in Calls
      /\ call.kind = "download" /\ stream \in Streams
      /\ srvToggle \in Bit /\ Asked # {} /\ Head(toServer) = request
      /\ UNCHANGED <<call, outcome, stream, request, result>>
      /\ pc' = "wait" /\ Asked' = {}
  <2>1. Asked # {}
    BY HeadAsked DEF Handling, TypeOK, BusTypeOK
  <2> QED
    BY <2>1 DEF Pending, Downloading, Handling, TypeOK, ClientTypeOK, ServerTypeOK
<1>2. /\ request.toggle \in Bit /\ request.data \in Data /\ request.last \in BOOLEAN
      /\ call.data \in Data /\ Len(request.data) \in Nat /\ stream.pos \in Nat
  BY <1>1, RequestFields, CallFields, LenProperties DEF Streams, Data
<1>3. /\ srvIndex = call.obj /\ SegmentEnd \in 0..Len(call.data)
      /\ request.data = SubSeq(call.data, stream.pos + 1, SegmentEnd)
      /\ request.last <=> SegmentEnd = Len(call.data)
      /\ srvToggle = request.toggle => Untaken
      /\ srvToggle # request.toggle => Taken
  BY DEF DownloadSegStream, DownloadSegServer
<1>4. SegmentEnd' = SegmentEnd
  BY <1>1 DEF SegmentEnd
<1>5. SegmentedDownload \/ SegmentedDownloadRefused \/ SegmentRefused
  BY <1>1
     DEF Handling, ServerStep, OnRequest, InitUploadExpedited, InitUploadSegmented,
     InitUploadRefused, SegmentedUpload, InitDownloadExpedited, InitDownloadSegmented,
     RequestAborted, Request
<1>6. srvIndex' = srvIndex
  BY <1>5 DEF SegmentedDownload, SegmentedDownloadRefused, SegmentRefused, srvVars
<1>7. DownloadSegStream'
  BY <1>1, <1>4, <1>6 DEF DownloadSegStream, SegmentEnd
<1>8. ASSUME Moved(stream.pos)
      PROVE  srvBuffer \o request.data = SubSeq(call.data, 1, SegmentEnd)
  <2>1. stream.pos <= SegmentEnd
    BY <1>2 DEF SegmentEnd
  <2>2. srvBuffer = SubSeq(call.data, 1, stream.pos)
    BY <1>8 DEF Moved
  <2>3. SubSeq(call.data, 1, stream.pos) \o SubSeq(call.data, stream.pos + 1, SegmentEnd)
          = SubSeq(call.data, 1, SegmentEnd)
    <3>1. call.data \in Data /\ stream.pos \in Nat /\ SegmentEnd \in 0..Len(call.data)
      BY <1>2, <1>3
    <3> HIDE DEF SegmentEnd
    <3> QED
      BY <2>1, <3>1, SegmentMoved, Zenon
  <2>4. request.data = SubSeq(call.data, stream.pos + 1, SegmentEnd)
    BY <1>3
  <2> QED
    BY <2>2, <2>3, <2>4, Zenon
<1>9. CASE SegmentedDownload
  <2>1. /\ srvToggle = request.toggle
        /\ srvBuffer' = srvBuffer \o request.data
        /\ request.last => Accepts(srvIndex, srvBuffer')
        /\ srvToggle' = Flip(srvToggle)
        /\ SendResponse(srvIndex, RspSegDownload(srvToggle))
    BY <1>1, <1>9 DEF SegmentedDownload
  <2>2. commits' = IF request.last
                   THEN Append(commits, [obj |-> call.obj, data |-> srvBuffer'])
                   ELSE commits
    BY <1>3, <1>9, Committed
  <2>3. srvToggle' # request.toggle
    BY <1>1, <2>1 DEF Flip, Bit
  <2>4. Taken'
    <3>1. CASE ~request.last
      <4>1. Moved(stream.pos) /\ commits = <<>>
        BY <1>3, <2>1, <3>1 DEF Untaken
      <4>2. Moved(SegmentEnd)' /\ commits' = <<>>
        BY <1>1, <1>4, <1>8, <2>1, <2>2, <3>1, <4>1 DEF Moved
      <4> QED
        BY <1>1, <3>1, <4>2 DEF Taken
    <3>2. CASE request.last /\ RefusedOnce
      <4>1. call.obj \in Writable /\ ~Spent
        BY <1>1, <1>3, <2>1, <3>2 DEF Accepts, Spent
      <4>2. Moved(stream.pos) /\ commits = <<>>
        BY <1>3, <2>1, <3>2, <4>1 DEF Untaken
      <4>3. srvBuffer' = call.data
        BY <1>2, <1>3, <1>8, <2>1, <3>2, <4>2, SubSeqFull DEF Data
      <4>4. commits' = <<TheCommit>>
        BY <2>2, <3>2, <4>2, <4>3 DEF TheCommit
      <4>5. Accepts(call.obj, call.data)
        BY <1>3, <2>1, <3>2, <4>3
      <4> QED
        BY <1>1, <3>2, <4>4, <4>5 DEF Taken, TheCommit, Accepts
    <3>3. CASE request.last /\ ~RefusedOnce
      BY <1>1, <3>3 DEF Taken, RefusedOnce
    <3> QED
      BY <3>1, <3>2, <3>3
  <2>5. \A f : Under(f)' => f.kind \in {"seg_download", "abort"}
    BY <2>1, UnderAnswered DEF RspSegDownload
  <2> QED
    BY <1>1, <1>7, <2>3, <2>4, <2>5 DEF DownloadSegServer
<1>10. CASE SegmentedDownloadRefused
  <2>1. /\ srvToggle = request.toggle /\ request.last
        /\ ~Accepts(srvIndex, srvBuffer')
        /\ srvToggle' = srvToggle
        /\ AbortTransfer(srvIndex)
    BY <1>1, <1>10 DEF SegmentedDownloadRefused
  <2>2. commits' = commits
    <3>1. ~StoresValue
      BY <1>1, <2>1, <1>10
         DEF StoresValue, InitDownloadExpedited, SegmentedDownload,
             SegmentedDownloadRefused, Request
    <3> QED
      BY <3>1, Committed
  <2>3. ASSUME RefusedOnce
        PROVE  commits' = <<>> /\ (call.obj \notin Writable \/ Spent')
    <3>1. commits = <<>>
      BY <1>3, <2>1, <2>3 DEF Untaken
    <3>2. CASE MaxRetries = 1
      BY <1>1, <2>2, <3>1, <3>2 DEF Spent
    <3>3. CASE \A o \in Dictionary : Width[o] = 0
      BY <1>3, <2>1, <2>2, <3>1, <3>3, DictionaryAssumption DEF Accepts
    <3> QED
      BY <2>3, <3>2, <3>3 DEF RefusedOnce
  <2>4. Untaken'
    BY <1>1, <2>1, <2>3 DEF Untaken, RefusedOnce
  <2>5. \A f : Under(f)' => f.kind = "abort"
    BY <2>1, UnderAborted
  <2> QED
    BY <1>1, <1>7, <2>1, <2>4, <2>5 DEF DownloadSegServer
<1>11. CASE SegmentRefused
  <2>1. /\ UNCHANGED <<srvIndex, srvBuffer, srvToggle>>
        /\ \A f : Under(f)' => f.kind = "abort"
    BY <1>11, UnderAborted DEF SegmentRefused, srvVars
  <2>2. commits' = commits
    <3>1. ~StoresValue
      <4>1. ~InitDownloadExpedited
        BY <1>1 DEF InitDownloadExpedited, Request
      <4>2. ~SegmentedDownload
        BY <1>11 DEF SegmentRefused, SegmentedDownload
      <4> QED
        BY <4>1, <4>2 DEF StoresValue
    <3> QED
      BY <3>1, Committed
  <2>3. ~Spent
    BY <1>1 DEF Spent
  <2>4. Untaken => Untaken'
    BY <1>1, <2>1, <2>2, <2>3 DEF Untaken, Moved, RefusedOnce
  <2>5. Taken => Taken'
    BY <1>1, <1>4, <2>1, <2>2 DEF Taken, Moved, TheCommit, Accepts, RefusedOnce
  <2> QED
    BY <1>1, <1>3, <1>7, <2>1, <2>4, <2>5 DEF DownloadSegServer
<1> QED
  BY <1>5, <1>9, <1>10, <1>11

-----------------------------------------------------------------------------
\* The steps of the server, the notifier, the bus and the node's application.

\* What every step of the system keeps besides the phase.
Kept ==
  /\ PhaseInv /\ Closing /\ OnlyDownloads
  /\ UploadReadsOneValue /\ StoredInv

\* Steps outside the client: its variables stay as they are.
ClientWaits ==
  /\ UNCHANGED <<pc, call, stream, request, result, outcome>>
  /\ held \subseteq held'

LEMMA WaitsKept ==
  ASSUME Closing, OnlyDownloads, ClientWaits
  PROVE  Closing' /\ OnlyDownloads'
BY DEF ClientWaits, Closing, OnlyDownloads, Pending, DownloadKinds

LEMMA AskedTaken ==
  ASSUME TypeOK, AskedIsRequest, toServer # <<>>, toServer' = Tail(toServer),
         request' = request
  PROVE  AskedIsRequest' /\ (Asked = {} => Asked' = {})
<1>1. \A i \in Asked' : i + 1 \in Asked /\ toServer'[i] = toServer[i + 1]
  BY AskedAfterTail DEF TypeOK, BusTypeOK
<1> QED
  BY <1>1 DEF AskedIsRequest

LEMMA ServerKeeps ==
  ASSUME TypeOK, Exchange, AskedIsRequest, Holds, Kept, ServerStep
  PROVE  AskedIsRequest' /\ Holds' /\ Kept'
<1>1. toServer # <<>> /\ toServer' = Tail(toServer) /\ ClientWaits /\ OnRequest
      /\ UNCHANGED responses
  BY ServerAnswers DEF ServerStep, clientVars, RecordHeld, ClientWaits
<1>2. AskedIsRequest' /\ (Asked = {} => Asked' = {})
  BY <1>1, AskedTaken DEF ClientWaits
<1>3. Holds'
  BY <1>1 DEF ServerStep, RecordHeld, ClientWaits, Holds
<1>4. Closing' /\ OnlyDownloads'
  BY <1>1, WaitsKept DEF Kept
<1>5. CASE Head(toServer).kind = "abort"
  <2>1. RequestAborted
    BY <1>1, <1>5
       DEF OnRequest, InitUploadExpedited, InitUploadSegmented, InitUploadRefused,
       SegmentedUpload, InitDownloadExpedited, InitDownloadSegmented, SegmentedDownload,
       SegmentedDownloadRefused, SegmentRefused, Request
  <2>2. UNCHANGED <<toClient, srvIndex, srvBuffer, srvToggle>>
    BY <2>1 DEF RequestAborted
  <2>3. commits' = commits
    BY <1>5 DEF ServerStep
  <2>4. (\A f : Under(f)' => Under(f)) /\ (Spent => Spent')
    BY <1>1, <1>2, <2>2 DEF Under, Spent, ClientWaits
  <2>5. PhaseInv'
    BY <1>1, <2>2, <2>3, <2>4, LeftAlone DEF ClientWaits, Kept
  <2>6. UploadReadsOneValue' /\ StoredInv'
    BY <1>1, <2>3, FinishedStays DEF ClientWaits, Kept
  <2> QED
    BY <1>2, <1>3, <1>4, <2>5, <2>6 DEF Kept
<1>6. CASE Head(toServer).kind # "abort"
  <2>1. Handling
    BY <1>6, HandlesRequest
  <2>2. UploadInit' /\ UploadSeg'
    BY <2>1, HandlesInitUpload, HandlesSegUpload DEF Kept, PhaseInv
  <2>3. DownloadExp' /\ DownloadInit' /\ DownloadSegStream' /\ DownloadSegServer'
    BY <2>1, HandlesExpDownload, HandlesInitDownload, HandlesSegDownload DEF Kept, PhaseInv
  <2>4. /\ UploadIo' /\ DownloadIo'
        /\ UploadReadsOneValue' /\ StoredInv'
    BY <2>1
       DEF Handling, UploadIo, DownloadIo, UploadReadsOneValue, StoredInv, Finished
  <2> QED
    BY <1>2, <1>3, <1>4, <2>2, <2>3, <2>4 DEF Kept, PhaseInv
<1> QED
  BY <1>5, <1>6

\* A step that delivers or loses a frame, or a write of the node's application.
LEMMA OthersKeep ==
  ASSUME TypeOK, Exchange, AskedIsRequest, Holds, Kept,
         \/ NotifierStep \/ BusStep
         \/ \E o \in Dictionary, d \in Values : LocalWriteStep(o, d)
  PROVE  AskedIsRequest' /\ Holds' /\ Kept'
<1>1. CASE NotifierStep
  <2>1. /\ ClientWaits /\ UNCHANGED <<toServer, store, held>>
        /\ UNCHANGED <<srvIndex, srvToggle, srvBuffer, commits>>
    BY <1>1 DEF NotifierStep, OnResponse, srvVars, historyVars, ClientWaits
  <2>2. AskedIsRequest' /\ Holds' /\ (Spent => Spent')
    BY <2>1 DEF AskedIsRequest, Holds, Asked, Spent, ClientWaits
  <2>3. PhaseInv'
    BY <1>1, <2>1, <2>2, LeftAlone, UnderDelivered DEF ClientWaits, Kept
  <2>4. Closing' /\ OnlyDownloads'
    BY <2>1, WaitsKept DEF Kept
  <2>5. UploadReadsOneValue' /\ StoredInv'
    BY <2>1, FinishedStays DEF ClientWaits, Kept
  <2> QED
    BY <2>2, <2>3, <2>4, <2>5 DEF Kept
<1>2. CASE BusStep
  <2>1. /\ ClientWaits /\ UNCHANGED <<store, held>>
        /\ UNCHANGED <<srvIndex, srvToggle, srvBuffer, commits>>
    BY <1>2 DEF BusStep, clientVars, srvVars, historyVars, ClientWaits
  <2>2. AskedIsRequest' /\ (Asked = {} => Asked' = {})
    <3>1. LoseRequest => toServer # <<>> /\ toServer' = Tail(toServer)
      BY DEF LoseRequest
    <3>2. LoseResponse => toServer' = toServer
      BY DEF LoseResponse
    <3>3. CASE LoseRequest
      BY <2>1, <3>1, <3>3, AskedTaken DEF ClientWaits
    <3>4. CASE LoseResponse
      BY <2>1, <3>2, <3>4 DEF AskedIsRequest, Asked, ClientWaits
    <3> QED
      BY <1>2, <3>3, <3>4 DEF BusStep
  <2>3. Holds' /\ (Spent => Spent')
    BY <2>1, <2>2 DEF Holds, Spent, ClientWaits
  <2>4. PhaseInv'
    BY <1>2, <2>1, <2>3, LeftAlone, UnderLost DEF ClientWaits, Kept
  <2>5. Closing' /\ OnlyDownloads'
    BY <2>1, WaitsKept DEF Kept
  <2>6. UploadReadsOneValue' /\ StoredInv'
    BY <2>1, FinishedStays DEF ClientWaits, Kept
  <2> QED
    BY <2>2, <2>3, <2>4, <2>5, <2>6 DEF Kept
<1>3. ASSUME NEW o \in Dictionary, NEW d \in Values, LocalWriteStep(o, d)
      PROVE  AskedIsRequest' /\ Holds' /\ Kept'
  <2>1. /\ ClientWaits /\ UNCHANGED <<toServer, toClient, responses>>
        /\ UNCHANGED <<srvIndex, srvToggle, srvBuffer, commits>>
    BY <1>3 DEF LocalWriteStep, LocalWrite, RecordHeld, clientVars, busVars, ClientWaits
  <2>2. AskedIsRequest' /\ (Spent => Spent') /\ \A f : Under(f)' => Under(f)
    BY <2>1 DEF AskedIsRequest, Asked, Spent, Under, ClientWaits
  <2>3. Holds'
    BY <1>3, <2>1 DEF LocalWriteStep, RecordHeld, Holds, ClientWaits
  <2>4. PhaseInv'
    BY <2>1, <2>2, LeftAlone DEF ClientWaits, Kept
  <2>5. Closing' /\ OnlyDownloads'
    BY <2>1, WaitsKept DEF Kept
  <2>6. UploadReadsOneValue' /\ StoredInv'
    BY <2>1, FinishedStays DEF ClientWaits, Kept
  <2> QED
    BY <2>2, <2>3, <2>4, <2>5, <2>6 DEF Kept
<1> QED
  BY <1>1, <1>2, <1>3

-----------------------------------------------------------------------------
\* The steps of the client.

\* What no step of a call changes.
InCall ==
  /\ TypeOK /\ Exchange /\ Kept
  /\ pc # "idle" /\ call \in Calls /\ call # NoCall
  /\ UNCHANGED <<call, srvIndex, srvBuffer, srvToggle, held, commits>>

\* A call that ends leaves no phase.
LEMMA CallEnds ==
  ASSUME InCall, NEW how \in {"ok", "failed"}, EndCall(how),
         how = "ok" /\ Uploading => result' \in held,
         how = "ok" /\ Downloading /\ RefusedOnce =>
              (DownloadStored /\ RefusedDownloadRaises)'
  PROVE  Kept'
<1>1. pc' = "idle"
  BY DEF EndCall
<1>2. PhaseInv' /\ Closing' /\ OnlyDownloads'
  BY <1>1 DEF PhaseInv, UploadIo, UploadInit, UploadSeg, DownloadExp, DownloadInit,
     DownloadIo, DownloadSegStream, DownloadSegServer, Pending, Closing, OnlyDownloads
<1>3. outcome' = "ok" => outcome = "running" /\ how = "ok"
  BY DEF EndCall, InCall, Kept, Closing
<1>4. UploadReadsOneValue'
  BY <1>3 DEF UploadReadsOneValue, Finished, Uploading, InCall
<1>5. StoredInv'
  BY <1>3 DEF StoredInv, Finished, Downloading, InCall, RefusedOnce
<1> QED
  BY <1>2, <1>4, <1>5 DEF Kept

LEMMA RaiseKeeps ==
  ASSUME InCall, Raise
  PROVE  Kept'
<1>1. CASE EndCall("failed")
  BY <1>1, CallEnds
<1>2. CASE UnfinishedDownload /\ CloseStream /\ outcome' = "failed"
  <2>1. /\ pc' = "send" /\ request'.kind = "seg_download" /\ call'.kind = "download"
        /\ stream'.closed
    BY <1>2 DEF CloseStream, RequestResponse, ReqSegDownload, UnfinishedDownload, InCall,
       TypeOK, ClientTypeOK, Streams
  <2>2. ~Uploading' /\ ~Downloading'
    BY <1>2, <2>1 DEF Uploading, Downloading
  <2>3. PhaseInv'
    BY <2>2 DEF PhaseInv, UploadIo, UploadInit, UploadSeg, DownloadExp, DownloadInit,
       DownloadIo, DownloadSegStream, DownloadSegServer
  <2> QED
    BY <1>2, <2>1, <2>3 DEF Kept, Closing, OnlyDownloads, DownloadKinds, Pending,
       UploadReadsOneValue, StoredInv, Finished
<1> QED
  BY <1>1, <1>2 DEF Raise

\* Sending, once or again, changes nothing that the phase speaks of.
LEMMA SendKeeps ==
  ASSUME InCall, SendRequest \/ RetryAfterTimeout
  PROVE  Kept'
<1>1. /\ {pc, pc'} \subseteq {"send", "wait"}
      /\ UNCHANGED <<stream, request, result, outcome>>
  BY DEF SendRequest, RetryAfterTimeout
<1>2. \A f : Under(f)' => Under(f)
  <2>1. CASE SendRequest
    <3>1. toClient' = <<>> /\ responses' = <<>>
      BY <2>1 DEF SendRequest, InCall, Exchange, Quiet
    <3> QED
      BY <3>1 DEF Under
  <2>2. CASE RetryAfterTimeout
    BY <2>2 DEF RetryAfterTimeout, busVars, Under
  <2> QED
    BY <2>1, <2>2
<1>3. ~Spent
  BY RetriesAssumption
     DEF Spent, SendRequest, RetryAfterTimeout, InCall, TypeOK, ClientTypeOK
<1>4. PhaseInv'
  BY <1>1, <1>2, <1>3, LeftAlone DEF InCall, Kept
<1> QED
  BY <1>1, <1>4 DEF InCall, Kept, Closing, OnlyDownloads, DownloadKinds, Pending,
     UploadReadsOneValue, StoredInv, Finished

\* The answer that a call takes off the queue was under way.
LEMMA AnswerRead ==
  ASSUME InCall, NEW kind, Awaiting(kind)
  PROVE  /\ Under(Response) /\ Response \in Responses
         /\ Pending(kind) /\ pc = "wait" /\ request.kind = kind /\ request \in Requests
BY UnderRead DEF InCall, Awaiting, Pending, TypeOK, ClientTypeOK

\* What kind of call makes a request.
LEMMA KindOfCall ==
  ASSUME InCall, OnlyUploads, NEW kind, Pending(kind)
  PROVE  /\ kind \in UploadKinds => Uploading /\ outcome = "running"
         /\ kind \in DownloadKinds => call.kind = "download"
         /\ kind \in {"exp_download", "init_download"} => Downloading
<1>1. call.kind \in {"upload", "download"}
  BY CallFields DEF InCall
<1>2. call.kind = "upload" => kind \in UploadKinds
  BY DEF InCall, OnlyUploads, Pending
<1>3. call.kind = "download" => kind \in DownloadKinds
  BY DEF InCall, Kept, OnlyDownloads, Pending
<1>4. outcome # "running" => call.kind = "download" /\ kind = "seg_download"
  BY DEF InCall, Kept, Closing, Pending
<1> QED
  BY <1>1, <1>2, <1>3, <1>4
     DEF UploadKinds, DownloadKinds, Uploading, Downloading, InCall

\* Entering the stream's loop: only the phase of the loop is left to show.
LEMMA LoopKeeps ==
  ASSUME InCall, pc' = "io", outcome' = "running", UploadIo', DownloadIo'
  PROVE  Kept'
BY DEF Kept, PhaseInv, UploadInit, UploadSeg, DownloadExp, DownloadInit,
   DownloadSegStream, DownloadSegServer, Pending, Closing, OnlyDownloads,
   UploadReadsOneValue, StoredInv, Finished

LEMMA InitUploadKeeps ==
  ASSUME InCall, OnlyUploads, InitUploadAnswered \/ InitUploadUnexpected
  PROVE  Kept'
<1>1. Awaiting("init_upload")
  BY DEF InitUploadAnswered, InitUploadUnexpected
<1>2. Under(Response) /\ Response \in Responses /\ Pending("init_upload")
  BY <1>1, AnswerRead
<1>3. Uploading /\ outcome = "running"
  BY <1>2, KindOfCall DEF UploadKinds
<1>4. /\ result = <<>> /\ stream = FreshStream
      /\ Response.kind = "exp_upload" => Response.data \in held
      /\ Response.kind = "init_upload" =>
           /\ srvIndex = call.obj /\ srvToggle = 0 /\ srvBuffer # NoBuffer
           /\ srvBuffer \in held /\ Response.size = Len(srvBuffer)
  BY <1>2, <1>3 DEF InCall, Kept, PhaseInv, UploadInit
<1>5. CASE InitUploadAnswered /\ Response.kind = "exp_upload"
  <2>1. EndCall("ok") /\ result' = Response.data
    BY <1>5 DEF InitUploadAnswered
  <2> QED
    BY <1>3, <1>4, <1>5, <2>1, CallEnds DEF Uploading, Downloading
<1>6. CASE InitUploadAnswered /\ Response.kind = "init_upload"
  <2>1. /\ stream' = [stream EXCEPT !.size = Response.size] /\ pc' = "io"
        /\ UNCHANGED <<request, retries, result, outcome>>
    BY <1>6 DEF InitUploadAnswered
  <2>2. stream'.toggle = 0 /\ stream'.size = Len(srvBuffer)
    BY <1>4, <1>6, <2>1 DEF FreshStream
  <2>3. srvBuffer \in Data /\ result \o srvBuffer = srvBuffer
    <3>1. srvBuffer \in Seq(Bytes)
      BY <1>4, <1>6 DEF InCall, TypeOK, ServerTypeOK, Data
    <3> QED
      BY <1>4, <3>1, ConcatEmptySeq DEF Data
  <2>4. UploadIo'
    BY <1>4, <1>6, <2>1, <2>2, <2>3 DEF UploadIo, Left, InCall
  <2>5. DownloadIo'
    BY <1>3 DEF DownloadIo, Downloading, Uploading, InCall
  <2> QED
    BY <1>3, <2>1, <2>4, <2>5, LoopKeeps
<1>7. CASE InitUploadUnexpected
  BY <1>7, CallEnds DEF InitUploadUnexpected
<1> QED
  BY <1>5, <1>6, <1>7 DEF InitUploadAnswered

LEMMA SegmentUploadKeeps ==
  ASSUME InCall, OnlyUploads, SegmentUploaded
  PROVE  Kept'
<1> DEFINE data == result \o Response.data
<1>1. /\ Under(Response) /\ Response \in Responses /\ Pending("seg_upload")
      /\ Response.kind = "seg_upload"
  BY AnswerRead DEF SegmentUploaded
<1>2. Uploading /\ outcome = "running"
  BY <1>1, KindOfCall DEF UploadKinds
<1>3. /\ srvIndex = call.obj /\ srvToggle # stream.toggle /\ Left(data)
      /\ Response.last \/ Response.data = <<>> => srvBuffer = <<>>
  BY <1>1, <1>2 DEF InCall, Kept, PhaseInv, UploadSeg
<1>4. /\ result \in Data /\ srvBuffer \in Data /\ stream \in Streams /\ srvToggle \in Bit
      /\ Response.data \in Data
  BY <1>1, <1>3, ResponseFields DEF InCall, TypeOK, ClientTypeOK, ServerTypeOK, Left
<1>5. data \in Seq(Bytes) /\ Len(data) \in Nat
  BY <1>4 DEF Data
<1>6. CASE Response.last \/ Response.data = <<>>
  <2>1. EndCall("ok") /\ result' = IF stream.size \in 1..Len(data)
                                  THEN SubSeq(data, 1, stream.size) ELSE data
    BY <1>6 DEF SegmentUploaded
  <2>2. data \o srvBuffer = data
    BY <1>3, <1>5, <1>6, ConcatEmptySeq
  <2>3. data \in held /\ stream.size = Len(data)
    BY <1>3, <2>2 DEF Left
  <2>4. result' = data
    BY <1>5, <2>1, <2>3, SubSeqFull
  <2> QED
    BY <1>2, <2>1, <2>3, <2>4, CallEnds DEF Uploading, Downloading
<1>7. CASE ~Response.last /\ Response.data # <<>>
  <2>1. /\ result' = data /\ pc' = "io" /\ UNCHANGED <<request, retries, outcome>>
        /\ stream' = [stream EXCEPT !.toggle = Flip(stream.toggle), !.pos = Len(data)]
    BY <1>7 DEF SegmentUploaded
  <2>2. stream'.toggle = Flip(stream.toggle) /\ stream'.size = stream.size
    BY <1>4, <2>1 DEF Streams
  <2>3. srvToggle = stream'.toggle
    BY <1>3, <1>4, <2>2 DEF Streams, Bit, Flip
  <2>4. UploadIo'
    BY <1>3, <2>1, <2>2, <2>3 DEF UploadIo, Left, InCall
  <2>5. DownloadIo'
    BY <1>2 DEF DownloadIo, Downloading, Uploading, InCall
  <2> QED
    BY <1>2, <2>1, <2>4, <2>5, LoopKeeps
<1> QED
  BY <1>6, <1>7 DEF SegmentUploaded

LEMMA ReadSegmentKeeps ==
  ASSUME InCall, ReadSegment
  PROVE  Kept'
<1>1. /\ pc = "io" /\ call.kind = "upload" /\ pc' = "send"
      /\ request' = ReqSegUpload(stream.toggle)
      /\ UNCHANGED <<responses, toClient, stream, result, outcome>>
  BY DEF ReadSegment, RequestResponse, busVars
<1>2. request'.kind = "seg_upload"
  BY <1>1 DEF ReqSegUpload
<1>3. srvIndex = call.obj /\ srvToggle = stream.toggle /\ Left(result)
  BY <1>1 DEF InCall, Kept, PhaseInv, UploadIo, Uploading
<1>4. \A f : ~Under(f)'
  BY <1>1, UnderNothing DEF InCall, Exchange, Under
<1>5. outcome = "running"
  BY <1>1 DEF InCall, Kept, Closing
<1>6. UploadSeg'
  BY <1>1, <1>3, <1>4 DEF UploadSeg, Left, InCall
<1>7. UploadIo' /\ UploadInit'
  BY <1>1, <1>2 DEF UploadIo, UploadInit, Pending
<1>8. ~Downloading'
  BY <1>1 DEF Downloading, InCall
<1>9. PhaseInv'
  BY <1>6, <1>7, <1>8 DEF PhaseInv, DownloadExp, DownloadInit, DownloadIo,
     DownloadSegStream, DownloadSegServer
<1> QED
  BY <1>1, <1>5, <1>9 DEF Kept, Closing, OnlyDownloads, UploadReadsOneValue, StoredInv,
     Finished, InCall

LEMMA ExpDownloadKeeps ==
  ASSUME InCall, OnlyUploads, ExpeditedDownloaded
  PROVE  Kept'
<1>1. /\ Under(Response) /\ Pending("exp_download") /\ Response.kind = "download"
      /\ EndCall("ok")
  BY AnswerRead DEF ExpeditedDownloaded
<1>2. Downloading
  BY <1>1, KindOfCall DEF DownloadKinds
<1>3. /\ commits # <<>> /\ Accepts(call.obj, call.data)
      /\ \A i \in 1..Len(commits) : commits[i] = TheCommit
  BY <1>1, <1>2 DEF InCall, Kept, PhaseInv, DownloadExp
<1>4. (DownloadStored /\ RefusedDownloadRaises)'
  BY <1>3 DEF DownloadStored, RefusedDownloadRaises, TheCommit, Accepts, InCall
<1> QED
  BY <1>1, <1>2, <1>4, CallEnds DEF Uploading, Downloading

LEMMA InitDownloadKeeps ==
  ASSUME InCall, OnlyUploads, InitDownloadAnswered
  PROVE  Kept'
<1>1. /\ Under(Response) /\ Pending("init_download") /\ Response.kind = "download"
      /\ pc' = "io" /\ UNCHANGED <<stream, request, retries, result, outcome>>
  BY AnswerRead DEF InitDownloadAnswered
<1>2. Downloading
  BY <1>1, KindOfCall DEF DownloadKinds
<1>3. /\ stream = [FreshStream EXCEPT !.size = Len(call.data)] /\ commits = <<>>
      /\ srvIndex = call.obj /\ srvToggle = 0 /\ srvBuffer = <<>>
  BY <1>1, <1>2 DEF InCall, Kept, PhaseInv, DownloadInit
<1>4. /\ stream.toggle = 0 /\ stream.pos = 0 /\ stream.size = Len(call.data)
      /\ ~stream.done /\ ~stream.closed
  BY <1>3 DEF FreshStream
<1>5. call.data \in Seq(Bytes) /\ Len(call.data) \in Nat
  BY <1>2, CallFields, LenProperties DEF InCall, Downloading, Data
<1>6. SubSeq(call.data, 1, 0) = <<>> /\ (0 = Len(call.data) => call.data = <<>>)
  BY <1>5, SubSeqEmpty, EmptySeq
<1>7. DownloadIo'
  BY <1>1, <1>3, <1>4, <1>5, <1>6 DEF DownloadIo, Moved, InCall
<1>8. UploadIo'
  BY <1>2 DEF UploadIo, Downloading, Uploading, InCall
<1> QED
  BY <1>1, <1>2, <1>7, <1>8, LoopKeeps DEF Downloading

\* The loop of a download sends the next segment.
LEMMA SegmentKeeps ==
  ASSUME InCall, pc = "io", call.kind = "download", pc' = "send", outcome' = outcome,
         UNCHANGED <<toClient, responses>>,
         request'.kind = "seg_download", request'.toggle = stream.toggle,
         stream'.pos = stream.pos,
         DownloadSegStream'
  PROVE  Kept'
<1>1. Downloading /\ outcome = "running"
  BY DEF InCall, Kept, Closing, Pending, Downloading
<1>2. srvToggle = stream.toggle /\ Moved(stream.pos) /\ commits = <<>>
  BY <1>1 DEF InCall, Kept, PhaseInv, DownloadIo
<1>3. \A f : ~Under(f)'
  BY UnderNothing DEF InCall, Exchange, Under
<1>4. Untaken'
  BY <1>2 DEF Untaken, Moved, InCall
<1>5. DownloadSegServer'
  BY <1>2, <1>3, <1>4 DEF DownloadSegServer, InCall
<1>6. ~Uploading'
  BY <1>1 DEF Uploading, InCall
<1>7. PhaseInv'
  BY <1>5, <1>6 DEF PhaseInv, UploadIo, UploadInit, UploadSeg, DownloadExp, DownloadInit,
     DownloadIo, Pending
<1> QED
  BY <1>1, <1>7 DEF Kept, Closing, OnlyDownloads, DownloadKinds, UploadReadsOneValue,
     StoredInv, Finished, InCall

LEMMA WriteSegmentKeeps ==
  ASSUME InCall, WriteSegment
  PROVE  Kept'
<1> DEFINE end == IF stream.pos + SegLen < Len(call.data)
                  THEN stream.pos + SegLen ELSE Len(call.data)
           chunk == SubSeq(call.data, stream.pos + 1, end)
           last == end >= stream.size
<1>1. /\ pc = "io" /\ call.kind = "download" /\ stream.pos < Len(call.data)
      /\ pc' = "send" /\ UNCHANGED <<toClient, responses, outcome>>
      /\ request' = ReqSegDownload(stream.toggle, chunk, last)
      /\ stream' = [stream EXCEPT !.toggle = Flip(stream.toggle), !.done = last]
  BY DEF WriteSegment, RequestResponse, busVars
<1>2. call.data \in Seq(Bytes) /\ Len(call.data) \in Nat /\ stream \in Streams
  BY <1>1, CallFields, LenProperties DEF InCall, TypeOK, ClientTypeOK, Data
<1>3. Downloading /\ outcome = "running"
  BY <1>1 DEF InCall, Kept, Closing, Pending, Downloading
<1>4. srvIndex = call.obj /\ stream.size = Len(call.data) /\ ~stream.closed
  BY <1>1, <1>3 DEF InCall, Kept, PhaseInv, DownloadIo
<1>5. /\ stream.pos \in Nat /\ end \in Nat /\ end \in 0..Len(call.data)
      /\ stream.pos + 1 <= end /\ end <= Len(call.data)
      /\ last <=> end = Len(call.data)
  BY <1>1, <1>2, <1>4, LengthAssumption DEF Streams
<1> HIDE DEF end, last
<1>6. Len(chunk) = end - stream.pos
  BY <1>2, <1>5, SubSeqProperties
<1> HIDE DEF chunk
<1>7. stream.pos + Len(chunk) = end
  BY <1>5, <1>6
<1>8. /\ request'.kind = "seg_download" /\ request'.toggle = stream.toggle
      /\ request'.data = chunk /\ request'.last = last
  BY <1>1 DEF ReqSegDownload
<1>9. /\ stream'.pos = stream.pos /\ stream'.size = stream.size
      /\ stream'.closed = stream.closed /\ stream'.done = last
      /\ stream'.toggle = Flip(stream.toggle)
  BY <1>1, <1>2 DEF Streams
<1>10. SegmentEnd' = end
  BY <1>7, <1>8, <1>9 DEF SegmentEnd
<1>11. DownloadSegStream'
  BY <1>4, <1>5, <1>8, <1>9, <1>10 DEF DownloadSegStream, InCall, chunk
<1> QED
  BY <1>1, <1>8, <1>9, <1>11, SegmentKeeps

LEMMA CloseEmptyKeeps ==
  ASSUME InCall, CloseEmpty
  PROVE  Kept'
<1>1. /\ pc = "io" /\ call.kind = "download" /\ call.data = <<>>
      /\ pc' = "send" /\ UNCHANGED <<toClient, responses, outcome>>
      /\ request' = ReqSegDownload(stream.toggle, <<>>, TRUE)
      /\ stream' = [stream EXCEPT !.closed = TRUE]
  BY DEF CloseEmpty, CloseStream, RequestResponse, busVars
<1>2. stream \in Streams
  BY DEF InCall, TypeOK, ClientTypeOK
<1>3. Downloading /\ outcome = "running"
  BY <1>1 DEF InCall, Kept, Closing, Pending, Downloading
<1>4. srvIndex = call.obj /\ stream.size = Len(call.data) /\ stream.pos \in 0..Len(call.data)
  BY <1>1, <1>3 DEF InCall, Kept, PhaseInv, DownloadIo
<1>5. /\ request'.kind = "seg_download" /\ request'.toggle = stream.toggle
      /\ request'.data = <<>> /\ request'.last = TRUE
  BY <1>1 DEF ReqSegDownload
<1>6. /\ stream'.pos = stream.pos /\ stream'.size = stream.size /\ stream'.closed
  BY <1>1, <1>2 DEF Streams
<1>7. Len(call.data) = 0 /\ stream.pos = 0
  BY <1>1, <1>4
<1>8. SegmentEnd' = 0
  BY <1>5, <1>6, <1>7 DEF SegmentEnd
<1>9. SubSeq(call.data, 0 + 1, 0) = <<>>
  BY SubSeqEmpty
<1>10. DownloadSegStream'
  BY <1>1, <1>4, <1>5, <1>6, <1>7, <1>8, <1>9 DEF DownloadSegStream, InCall
<1> QED
  BY <1>1, <1>5, <1>6, <1>10, SegmentKeeps

\* A segment's answer: the server has taken the segment.
LEMMA SegmentDownloadKeeps ==
  ASSUME InCall, OnlyUploads, SegmentDownloaded \/ StreamClosed
  PROVE  Kept'
<1>1. /\ Under(Response) /\ Response \in Responses /\ Pending("seg_download")
      /\ Response.kind # "abort" /\ request \in Requests /\ request.kind = "seg_download"
  BY AnswerRead DEF SegmentDownloaded, StreamClosed
<1>2. call.kind = "download"
  BY <1>1, KindOfCall DEF DownloadKinds
<1>3. CASE ~Downloading
  <2>1. StreamClosed
    BY <1>2, <1>3 DEF SegmentDownloaded, InCall, Kept, Closing, Downloading
  <2> QED
    BY <1>2, <1>3, <2>1, CallEnds DEF StreamClosed, Uploading
<1>4. CASE Downloading
  <2>1. /\ srvToggle # request.toggle /\ Taken
        /\ srvIndex = call.obj /\ stream.size = Len(call.data)
        /\ SegmentEnd \in 0..Len(call.data)
        /\ request.last <=> SegmentEnd = Len(call.data)
        /\ stream.closed => request.last
        /\ ~stream.closed =>
             (request.last <=> stream.done) /\ stream.toggle = Flip(request.toggle)
    BY <1>1, <1>4 DEF InCall, Kept, PhaseInv, DownloadSegServer, DownloadSegStream
  <2>2. ASSUME request.last, RefusedOnce
        PROVE  (DownloadStored /\ RefusedDownloadRaises)'
    <3>1. commits' = <<TheCommit>> /\ Accepts(call.obj, call.data) /\ call' = call
      BY <2>1, <2>2 DEF Taken, InCall
    <3>2. commits' # <<>> /\ \A i \in 1..Len(commits') : commits'[i] = TheCommit
      BY <3>1
    <3> QED
      BY <3>1, <3>2 DEF TheCommit, DownloadStored, RefusedDownloadRaises, Accepts
  <2>3. CASE EndCall("ok")
    <3>1. request.last
      BY <2>1, <2>3 DEF SegmentDownloaded, StreamClosed, EndCall
    <3> QED
      BY <1>2, <2>2, <2>3, <3>1, CallEnds DEF Uploading
  <2>4. CASE ~EndCall("ok")
    <3>1. /\ ~stream.closed /\ ~stream.done /\ pc' = "io" /\ outcome' = outcome
          /\ stream' = [stream EXCEPT !.pos = stream.pos + Len(request.data)]
      BY <2>4 DEF SegmentDownloaded, StreamClosed
    <3>2. /\ stream'.pos = SegmentEnd /\ stream'.size = stream.size
          /\ stream'.toggle = stream.toggle /\ ~stream'.done /\ ~stream'.closed
      BY <3>1 DEF SegmentEnd, InCall, TypeOK, ClientTypeOK, Streams
    <3>3. srvToggle = stream.toggle
      BY <1>1, <2>1, <3>1, RequestFields DEF InCall, TypeOK, ServerTypeOK, Bit, Flip
    <3>4. Moved(SegmentEnd) /\ commits = <<>> /\ SegmentEnd # Len(call.data)
      BY <2>1, <3>1 DEF Taken
    <3>5. DownloadIo'
      BY <2>1, <3>2, <3>3, <3>4 DEF DownloadIo, Moved, InCall
    <3>6. UploadIo'
      BY <1>2 DEF UploadIo, Uploading, InCall
    <3> QED
      BY <1>4, <3>1, <3>5, <3>6, LoopKeeps DEF Downloading
  <2> QED
    BY <2>3, <2>4
<1> QED
  BY <1>3, <1>4

LEMMA AnswerKeeps ==
  ASSUME InCall, OnlyUploads, ReadResponse
  PROVE  Kept'
<1>1. CASE InitUploadAnswered \/ InitUploadUnexpected
  BY <1>1, InitUploadKeeps
<1>2. CASE SegmentUploaded
  BY <1>2, SegmentUploadKeeps
<1>3. CASE ExpeditedDownloaded
  BY <1>3, ExpDownloadKeeps
<1>4. CASE InitDownloadAnswered
  BY <1>4, InitDownloadKeeps
<1>5. CASE SegmentDownloaded \/ StreamClosed
  BY <1>5, SegmentDownloadKeeps
<1>6. CASE \/ ReadAbort \/ SegmentUploadUnexpected \/ InitDownloadUnexpected
           \/ SegmentDownloadUnexpected
  <2>1. Raise
    BY <1>6 DEF ReadAbort, SegmentUploadUnexpected, InitDownloadUnexpected,
       SegmentDownloadUnexpected, AbortAndRaise
  <2> QED
    BY <2>1, RaiseKeeps
<1> QED
  BY <1>1, <1>2, <1>3, <1>4, <1>5, <1>6 DEF ReadResponse

\* The client asks when nothing else is asked.
LEMMA NothingAsked ==
  ASSUME Prompt, TypeOK, Exchange, ApplicationStep
  PROVE  Asked = {}
<1>1. CASE pc # "wait"
  BY <1>1 DEF Exchange, Quiet
<1>2. CASE ReadResponse
  <2>1. responses # <<>>
    BY <1>2 DEF ReadResponse, ReadAbort, Awaiting, InitUploadAnswered,
       InitUploadUnexpected, SegmentUploaded, SegmentUploadUnexpected,
       ExpeditedDownloaded, InitDownloadAnswered, InitDownloadUnexpected,
       SegmentDownloaded, SegmentDownloadUnexpected, StreamClosed
  <2> QED
    BY <2>1, AnswerTaken
<1>3. CASE TimeoutPossible /\ (RetryAfterTimeout \/ GiveUpAfterTimeout)
  BY <1>3 DEF TimeoutPossible, Asked
<1> QED
  BY <1>1, <1>2, <1>3 DEF ApplicationStep, SendRequest, SendRequestFails, ReadSegment,
     WriteSegment, CloseEmpty

LEMMA ClientAsksRequest ==
  ASSUME Prompt, TypeOK, Exchange, ApplicationStep
  PROVE  AskedIsRequest'
<1>1. Asked = {} /\ toServer \in Seq(Requests \cup AbortRequests)
  BY NothingAsked DEF TypeOK, BusTypeOK
<1>2. CASE SendRequest
  <2>1. /\ toServer' = Append(toServer, request) /\ request' = request
        /\ request \in Requests
    BY <1>2 DEF SendRequest, TypeOK, ClientTypeOK
  <2> QED
    BY <1>1, <2>1, AskedAfterAppend DEF AskedIsRequest
<1>3. CASE ~SendRequest
  <2>1. \/ toServer' = toServer
        \/ \E code \in ClientAbortCodes : toServer' = Append(toServer, ReqAbort(code))
    <3>1. \/ UNCHANGED toServer
          \/ \E code \in ClientAbortCodes : AbortAndRaise(code)
      BY <1>3 DEF ApplicationStep, SendRequestFails, RetryAfterTimeout, GiveUpAfterTimeout,
         ReadSegment, WriteSegment, CloseEmpty,
         ReadResponse, ReadAbort, InitUploadAnswered, InitUploadUnexpected,
         SegmentUploaded, SegmentUploadUnexpected, ExpeditedDownloaded,
         InitDownloadAnswered, InitDownloadUnexpected, SegmentDownloaded,
         SegmentDownloadUnexpected, StreamClosed, busVars, ClientAbortCodes
    <3> QED
      BY <3>1 DEF AbortAndRaise
  <2>2. Asked' = {}
    <3>1. CASE toServer' = toServer
      BY <1>1, <3>1 DEF Asked
    <3>2. ASSUME NEW code \in ClientAbortCodes, toServer' = Append(toServer, ReqAbort(code))
          PROVE  Asked' = {}
      BY <1>1, <3>2, AbortAppended
    <3> QED
      BY <2>1, <3>1, <3>2
  <2> QED
    BY <2>2 DEF AskedIsRequest
<1> QED
  BY <1>2, <1>3

LEMMA ClientKeeps ==
  ASSUME Prompt, IInv, Holds, Kept, call # NoCall, ClientStep
  PROVE  AskedIsRequest' /\ Holds' /\ Kept'
<1>1. /\ TypeOK /\ Exchange /\ OnlyUploads /\ ApplicationStep
      /\ UNCHANGED <<srvIndex, srvBuffer, srvToggle, store, held, commits>>
  BY DEF IInv, ClientStep, srvVars, historyVars
<1>2. call' = call /\ pc # "idle"
  BY <1>1 DEF ApplicationStep, SendRequest, SendRequestFails,
     RetryAfterTimeout, GiveUpAfterTimeout, ReadSegment, WriteSegment, CloseEmpty,
     ReadResponse, ReadAbort, Awaiting, InitUploadAnswered, InitUploadUnexpected,
     SegmentUploaded, SegmentUploadUnexpected, ExpeditedDownloaded,
     InitDownloadAnswered, InitDownloadUnexpected, SegmentDownloaded,
     SegmentDownloadUnexpected, StreamClosed
<1>3. call \in Calls
  BY <1>1, <1>2 DEF TypeOK, ClientTypeOK
<1>4. InCall
  BY <1>1, <1>2, <1>3 DEF InCall
<1>5. AskedIsRequest'
  BY <1>1, ClientAsksRequest
<1>6. Holds'
  BY <1>1, <1>2 DEF Holds
<1>7. CASE SendRequest \/ RetryAfterTimeout
  BY <1>4, <1>5, <1>6, <1>7, SendKeeps
<1>8. CASE SendRequestFails \/ GiveUpAfterTimeout
  BY <1>4, <1>5, <1>6, <1>8, RaiseKeeps DEF SendRequestFails, GiveUpAfterTimeout, AbortAndRaise
<1>9. CASE ReadResponse
  BY <1>1, <1>4, <1>5, <1>6, <1>9, AnswerKeeps
<1>10. CASE ReadSegment \/ WriteSegment \/ CloseEmpty
  BY <1>4, <1>5, <1>6, <1>10, ReadSegmentKeeps, WriteSegmentKeeps, CloseEmptyKeeps
<1> QED
  BY <1>1, <1>5, <1>6, <1>7, <1>8, <1>9, <1>10 DEF ApplicationStep

-----------------------------------------------------------------------------
\* The calls start with nothing under way.

LEMMA StartKeeps ==
  ASSUME TypeOK, Exchange, NEW o \in Objects,
         \/ StartUpload(o)
         \/ \E d \in Values, forced \in BOOLEAN : StartDownload(o, d, forced)
  PROVE  AskedIsRequest' /\ Holds' /\ Kept'
<1>1. /\ pc = "idle" /\ StartCall(o) /\ pc' = "send" /\ outcome' = "running"
      /\ call'.obj = o /\ UNCHANGED <<toServer, toClient, responses>>
  <2>1. ASSUME StartUpload(o)
        PROVE  /\ pc = "idle" /\ StartCall(o) /\ pc' = "send" /\ outcome' = "running"
               /\ call'.obj = o /\ UNCHANGED <<toServer, toClient, responses>>
    BY <2>1 DEF StartUpload, Upload, RequestResponse, busVars
  <2>2. ASSUME NEW d \in Values, NEW forced \in BOOLEAN, StartDownload(o, d, forced)
        PROVE  /\ pc = "idle" /\ StartCall(o) /\ pc' = "send" /\ outcome' = "running"
               /\ call'.obj = o /\ UNCHANGED <<toServer, toClient, responses>>
    BY <2>2 DEF StartDownload, Download, RequestResponse, busVars
  <2> QED
    BY <2>1, <2>2
<1>2. Asked' = {} /\ \A f : ~Under(f)'
  BY <1>1 DEF Exchange, Quiet, Asked, Under
<1>3. AskedIsRequest'
  BY <1>2 DEF AskedIsRequest
<1>4. Holds' /\ commits' = <<>>
  BY <1>1 DEF StartCall, Holds, srvVars
<1>5. Closing' /\ UploadReadsOneValue' /\ StoredInv'
  BY <1>1 DEF Closing, UploadReadsOneValue, StoredInv, Finished
<1>6. CASE StartUpload(o)
  <2>1. /\ call' = [kind |-> "upload", obj |-> o] /\ stream' = FreshStream
        /\ request' = ReqInitUpload(o) /\ result' = <<>>
    BY <1>6 DEF StartUpload, Upload, RequestResponse
  <2>2. call'.kind = "upload" /\ request'.kind = "init_upload"
    BY <2>1 DEF ReqInitUpload
  <2>3. UploadInit'
    BY <1>1, <1>2, <2>1 DEF UploadInit
  <2>4. UploadIo' /\ UploadSeg' /\ ~Downloading'
    BY <1>1, <2>2 DEF UploadIo, UploadSeg, Pending, Downloading
  <2>5. PhaseInv'
    BY <2>3, <2>4 DEF PhaseInv, DownloadExp, DownloadInit, DownloadIo,
       DownloadSegStream, DownloadSegServer
  <2> QED
    BY <1>3, <1>4, <1>5, <2>2, <2>5 DEF Kept, OnlyDownloads
<1>7. ASSUME NEW d \in Values, NEW forced \in BOOLEAN, StartDownload(o, d, forced)
      PROVE  AskedIsRequest' /\ Holds' /\ Kept'
  <2> DEFINE expedited == ExpeditedSize(d) /\ ~forced
  <2>1. /\ call' = [kind |-> "download", obj |-> o, data |-> d]
        /\ stream' = [FreshStream EXCEPT !.size = Len(d), !.expedited = expedited]
        /\ request' = IF expedited THEN ReqExpDownload(o, d) ELSE ReqInitDownload(o)
    BY <1>7 DEF StartDownload, Download, RequestResponse
  <2>5. expedited \in BOOLEAN
    BY DEF ExpeditedSize
  <2> HIDE DEF expedited
  <2>2. call'.kind = "download" /\ call'.data = d /\ ~Uploading'
    BY <2>1 DEF Uploading
  <2>3. CASE expedited
    <3>1. request' = ReqExpDownload(o, d) /\ request'.kind = "exp_download"
      BY <2>1, <2>3 DEF ReqExpDownload
    <3>2. \A i \in 1..Len(commits') : commits'[i] = TheCommit'
      BY <1>4
    <3>3. DownloadExp'
      BY <1>1, <1>2, <1>4, <2>2, <3>1, <3>2 DEF DownloadExp
    <3>4. PhaseInv'
      BY <1>1, <2>2, <3>1, <3>3 DEF PhaseInv, UploadIo, UploadInit, UploadSeg,
         DownloadInit, DownloadIo, DownloadSegStream, DownloadSegServer, Pending
    <3> QED
      BY <1>3, <1>4, <1>5, <3>1, <3>4 DEF Kept, OnlyDownloads, DownloadKinds
  <2>4. CASE ~expedited
    <3>1. request' = ReqInitDownload(o) /\ request'.kind = "init_download"
      BY <2>1, <2>4 DEF ReqInitDownload
    <3>2. stream' = [FreshStream EXCEPT !.size = Len(d)]
      <4>1. expedited = FALSE
        BY <2>4, <2>5
      <4>2. /\ stream' = [FreshStream EXCEPT !.size = Len(d), !.expedited = FALSE]
            /\ FreshStream.expedited = FALSE
        BY <2>1, <4>1 DEF FreshStream
      <4> QED
        BY <4>2 DEF FreshStream
    <3>3. DownloadInit'
      BY <1>1, <1>2, <1>4, <2>2, <3>1, <3>2 DEF DownloadInit
    <3>4. PhaseInv'
      BY <1>1, <2>2, <3>1, <3>3 DEF PhaseInv, UploadIo, UploadInit, UploadSeg,
         DownloadExp, DownloadIo, DownloadSegStream, DownloadSegServer, Pending
    <3> QED
      BY <1>3, <1>4, <1>5, <3>1, <3>4 DEF Kept, OnlyDownloads, DownloadKinds
  <2> QED
    BY <2>3, <2>4
<1> QED
  BY <1>6, <1>7

-----------------------------------------------------------------------------
LEMMA ValueInit == Init => AskedIsRequest /\ Holds /\ Kept
<1> SUFFICES ASSUME Init PROVE AskedIsRequest /\ Holds /\ Kept
  OBVIOUS
<1>1. /\ call = NoCall /\ pc = "idle" /\ toServer = <<>>
  BY DEF Init, BusInit, ClientInit
<1>2. ~Uploading /\ ~Downloading
  BY <1>1 DEF Uploading, Downloading
<1>3. PhaseInv
  BY <1>2 DEF PhaseInv, UploadIo, UploadInit, UploadSeg, DownloadExp, DownloadInit,
     DownloadIo, DownloadSegStream, DownloadSegServer
<1> QED
  BY <1>1, <1>3 DEF Kept, AskedIsRequest, Asked, Holds, Closing, OnlyDownloads,
     UploadReadsOneValue, StoredInv, Finished

ValueInv == IInv /\ AskedIsRequest /\ Holds /\ Kept

LEMMA ValueStep ==
  ASSUME Prompt, ValueInv, [Next]_vars
  PROVE  AskedIsRequest' /\ Holds' /\ Kept'
<1>1. TypeOK /\ Exchange /\ OnlyUploads /\ IInv
  BY DEF ValueInv, IInv
<1>2. CASE \/ \E o \in Objects : StartUpload(o)
           \/ \E o \in Objects, d \in Values, forced \in BOOLEAN : StartDownload(o, d, forced)
  BY <1>1, <1>2, StartKeeps
<1>3. CASE ClientStep /\ call # NoCall
  BY <1>1, <1>3, ClientKeeps DEF ValueInv
<1>4. CASE ServerStep
  BY <1>1, <1>4, ServerKeeps DEF ValueInv
<1>5. CASE \/ NotifierStep \/ BusStep
           \/ \E o \in Dictionary, d \in Values : LocalWriteStep(o, d)
  BY <1>1, <1>5, OthersKeep DEF ValueInv
<1>6. CASE UNCHANGED vars
  <2>1. /\ UNCHANGED <<pc, call, stream, request, result, outcome, held, commits, store>>
        /\ UNCHANGED <<toServer, toClient, responses, srvIndex, srvToggle, srvBuffer>>
    BY <1>6 DEF vars, busVars, clientVars, srvVars, historyVars
  <2>2. AskedIsRequest' /\ Holds' /\ (Spent => Spent') /\ \A f : Under(f)' => Under(f)
    BY <2>1 DEF ValueInv, AskedIsRequest, Asked, Holds, Spent, Under
  <2>3. PhaseInv'
    BY <2>1, <2>2, LeftAlone DEF ValueInv, Kept
  <2>4. Closing' /\ OnlyDownloads'
    BY <2>1, WaitsKept DEF ValueInv, Kept, ClientWaits
  <2>5. UploadReadsOneValue' /\ StoredInv'
    BY <2>1, FinishedStays DEF ValueInv, Kept
  <2> QED
    BY <2>2, <2>3, <2>4, <2>5 DEF Kept
<1>7. CASE ClientStep /\ call = NoCall
  <2>1. pc = "idle"
    BY <1>1, <1>7, NoCallAssumption DEF TypeOK, ClientTypeOK
  <2> QED
    BY <1>7, <2>1 DEF ClientStep, ApplicationStep, SendRequest, SendRequestFails,
       RetryAfterTimeout, GiveUpAfterTimeout, ReadSegment, WriteSegment, CloseEmpty,
       ReadResponse, ReadAbort, Awaiting, InitUploadAnswered, InitUploadUnexpected,
       SegmentUploaded, SegmentUploadUnexpected, ExpeditedDownloaded,
       InitDownloadAnswered, InitDownloadUnexpected, SegmentDownloaded,
       SegmentDownloadUnexpected, StreamClosed
<1> QED
  BY <1>2, <1>3, <1>4, <1>5, <1>6, <1>7 DEF Next

LEMMA ValueInductive == Prompt /\ Spec => []ValueInv
<1> SUFFICES ASSUME Prompt PROVE Spec => []ValueInv
  OBVIOUS
<1>1. Init /\ IInv => AskedIsRequest /\ Holds /\ Kept
  BY ValueInit
<1>2. ValueInv /\ [Next]_vars /\ IInv' => ValueInv'
  BY ValueStep DEF ValueInv
<1>3. Spec => []IInv
  BY ExchangeInductive
<1> QED
  BY <1>1, <1>2, <1>3, PTL DEF Spec, ValueInv

\* On a prompt bus the two ends of a segmented transfer agree between two exchanges
\* on object, toggle bit and bytes moved, whatever is lost, repeated or written
\* meanwhile (ReadableStream and WritableStream against the server's buffer).
THEOREM EndsAgree == Prompt /\ Spec => []InStep
<1>1. ValueInv => InStep
  <2> SUFFICES ASSUME ValueInv, pc = "io"
               PROVE  /\ srvIndex = call.obj
                      /\ srvToggle = stream.toggle
                      /\ call.kind = "download" => srvBuffer = SubSeq(call.data, 1, stream.pos)
                      /\ call.kind = "upload" => result \o srvBuffer \in held
    BY DEF InStep
  <2>1. /\ call \in Calls /\ call # NoCall
        /\ UploadIo /\ DownloadIo /\ outcome = "running"
    BY NoCallAssumption
       DEF ValueInv, IInv, TypeOK, ClientTypeOK, Kept, PhaseInv, Closing, Pending
  <2> QED
    BY <2>1, CallFields DEF UploadIo, DownloadIo, Uploading, Downloading, Left, Moved
<1> QED
  BY <1>1, ValueInductive, PTL

\* On a prompt bus an upload that returns has read one whole value that its object
\* held during the call, for values and segments of every size: the segments of a
\* value the server has copied are never mixed with a later one.
THEOREM UploadIsOneValue == Prompt /\ Spec => []UploadReadsOneValue
<1>1. ValueInv => UploadReadsOneValue
  BY DEF ValueInv, Kept
<1> QED
  BY <1>1, ValueInductive, PTL

\* On a prompt bus a download that returns has been stored, whole, in the object it
\* named and nowhere else, unless a refused value could be repeated.
THEOREM DownloadIsStored == Prompt /\ RefusedOnce /\ Spec => []DownloadStored
<1> SUFFICES ASSUME Prompt, RefusedOnce PROVE Spec => []DownloadStored
  OBVIOUS
<1>1. ValueInv => DownloadStored
  BY DEF ValueInv, Kept, StoredInv, DownloadStored
<1> QED
  BY <1>1, ValueInductive, PTL

\* Under the same conditions a download that the server refuses does not return: the
\* abort reaches the call as an exception, also from close().
THEOREM RefusalRaises == Prompt /\ RefusedOnce /\ Spec => []RefusedDownloadRaises
<1> SUFFICES ASSUME Prompt, RefusedOnce PROVE Spec => []RefusedDownloadRaises
  OBVIOUS
<1>1. ValueInv => RefusedDownloadRaises
  BY DEF ValueInv, Kept, StoredInv, RefusedDownloadRaises
<1> QED
  BY <1>1, ValueInductive, PTL

-----------------------------------------------------------------------------
(***************************************************************************)
(* On a bus that loses nothing every object holds the start of one value,  *)
(* however late requests and answers arrive.                               *)
(*                                                                         *)
(* The frames on their way to the server lead it from one session to the   *)
(* next: a session says which bytes of which value the server has, or that *)
(* it has what nothing will be appended to.  The session behind the last   *)
(* frame is the one that the client goes on with.                          *)
(***************************************************************************)

NothingLost == lossesLeft = MaxLosses /\ sendFailuresLeft = MaxSendFailures

StartOfValue(v) == \E d \in GivenValues : v \in Prefixes(d)

HoldsStarts == \A o \in Dictionary : store[o] # NoValue => StartOfValue(store[o])

\* A download that goes on: moved bytes of data have been sent.
Live(s) == s.phase = "live" /\ s.data \in GivenValues /\ s.moved \in 0 .. Len(s.data)

\* The server is in session s.  After the last segment of a download a repetition of
\* it finds another toggle bit or an object that cannot be written.
InSession(s) ==
  /\ s.phase = "live" =>
       Live(s) /\ srvBuffer = SubSeq(s.data, 1, s.moved) /\ srvToggle = s.toggle
  /\ s.phase = "ended" /\ MaxRetries # 1 => srvToggle # s.toggle \/ srvIndex \notin Writable

\* Bytes that follow the first n of d.
IsNext(bytes, d, n) ==
  /\ n + Len(bytes) \in 0 .. Len(d)
  /\ bytes = SubSeq(d, n + 1, n + Len(bytes))

\* A segment: the next one, one that is repeated, or the last one repeated.
NextSegment(s, f, r) ==
  /\ Live(s) /\ s.toggle = f.toggle /\ IsNext(f.data, s.data, s.moved)
  /\ IF f.last THEN r.phase = "ended" /\ r.toggle = f.toggle
     ELSE /\ r.phase = "live" /\ r.data = s.data
          /\ r.moved = s.moved + Len(f.data) /\ r.toggle = Flip(s.toggle)

Continues(s, f, r) ==
  \/ NextSegment(s, f, r)
  \/ Live(s) /\ s.toggle # f.toggle /\ r = s
  \/ s.phase = "ended" /\ MaxRetries # 1 /\ f.last /\ s.toggle = f.toggle /\ r = s

\* Frame f leads from session s to session r.
Follows(s, f, r) ==
  /\ f.kind = "init_download" => Live(r) /\ r.moved = 0 /\ r.toggle = 0
  /\ f.kind = "seg_download" => Continues(s, f, r)
  /\ f.kind = "abort" => r = s
  /\ f.kind = "exp_download" => f.data \in GivenValues
  /\ f.kind \in {"init_upload", "seg_upload", "exp_download"} => r.phase = "none"

\* So do the frames of a queue, one after the other.
LinkedBy(t, q) == \A i \in 1 .. Len(q) : Follows(t[i - 1], q[i], t[i])
Linked(q, s, r) == \E t : t[0] = s /\ t[Len(q)] = r /\ LinkedBy(t, q)

\* The request that the client is exchanging was sent before.
Sent == pc = "wait" \/ retries # 0

Agrees(r, n, toggle) == Live(r) /\ r.data = call.data /\ r.moved = n /\ r.toggle = toggle

AsksInit(r) ==
  Pending("init_download") =>
    /\ call.data \in GivenValues
    /\ stream.pos = 0 /\ stream.toggle = 0 /\ ~stream.done /\ ~stream.closed
    /\ Sent => Agrees(r, 0, 0)

AsksNext(r) ==
  pc = "io" /\ call.kind = "download" =>
    Agrees(r, stream.pos, stream.toggle) /\ ~stream.done /\ ~stream.closed

\* A segment that was not sent yet, or was.
Unsent(r) ==
  \E n \in Nat : /\ Agrees(r, n, request.toggle)
                 /\ IsNext(request.data, call.data, n)
                 /\ ~stream.closed => n = stream.pos
WasSent(r) ==
  IF request.last THEN r.phase = "ended" /\ r.toggle = request.toggle
  ELSE Agrees(r, stream.pos + Len(request.data), Flip(request.toggle))

AsksSegment(r) ==
  Pending("seg_download") =>
    /\ stream.closed => request.last
    /\ ~stream.closed => (request.last <=> stream.done) /\ stream.toggle = Flip(request.toggle)
    /\ IF Sent THEN WasSent(r) ELSE Unsent(r)

\* The client's requests fit its call.
AsksFitting ==
  /\ pc \in {"send", "wait"} => (call.kind = "upload" <=> request.kind \in UploadKinds)
  /\ Pending("exp_download") => request.data \in GivenValues /\ stream.expedited

\* The client goes on with session r.
Asks(r) == AsksFitting /\ AsksInit(r) /\ AsksNext(r) /\ AsksSegment(r)

SessionInv ==
  NothingLost => HoldsStarts /\ \E s, r : InSession(s) /\ Linked(toServer, s, r) /\ Asks(r)

\* An empty queue leads nowhere.
LEMMA LinkedEmpty == \A s : Linked(<<>>, s, s)
<1> SUFFICES ASSUME NEW s PROVE Linked(<<>>, s, s)
  OBVIOUS
<1>1. [i \in {0} |-> s][0] = s /\ Len(<<>>) = 0 /\ \A i \in 1 .. 0 : FALSE
  OBVIOUS
<1> QED BY <1>1, Zenon DEF Linked, LinkedBy

\* A frame at the end leads on.
LEMMA LinkedAppend ==
  ASSUME NEW S, NEW q \in Seq(S), NEW f \in S, NEW s, NEW r, NEW u,
         Linked(q, s, r), Follows(r, f, u)
  PROVE  Linked(Append(q, f), s, u)
<1>1. PICK t : t[0] = s /\ t[Len(q)] = r /\ LinkedBy(t, q)
  BY DEF Linked
<1>2. PICK n \in Nat : n = Len(q)
  OBVIOUS
<1>3. PICK v : v = [i \in 0 .. n + 1 |-> IF i = n + 1 THEN u ELSE t[i]]
  OBVIOUS
<1>4. PICK p : p = Append(q, f)
  OBVIOUS
<1>5. Len(p) = n + 1 /\ p[n + 1] = f /\ \A i \in 1 .. n : p[i] = q[i]
  BY <1>2, <1>4
<1>6. v[0] = s /\ v[n] = r /\ v[n + 1] = u /\ \A i \in 0 .. n : v[i] = t[i]
  BY <1>1, <1>2, <1>3
<1>7. ASSUME NEW i \in 1 .. n + 1 PROVE Follows(v[i - 1], p[i], v[i])
  <2>1. CASE i = n + 1
    <3>1. i - 1 = n
      BY <2>1
    <3> QED BY <1>5, <1>6, <2>1, <3>1, Zenon
  <2>2. CASE i # n + 1
    <3>1. i \in 1 .. n /\ i - 1 \in 0 .. n /\ i \in 0 .. n
      BY <2>2
    <3>2. Follows(t[i - 1], q[i], t[i])
      BY <1>1, <1>2, <3>1 DEF LinkedBy
    <3> QED BY <1>5, <1>6, <3>1, <3>2, Zenon
  <2> QED BY <2>1, <2>2
<1> QED BY <1>4, <1>5, <1>6, <1>7, Zenon DEF Linked, LinkedBy

\* The first frame leads to where the others begin.
LEMMA LinkedTail ==
  ASSUME NEW S, NEW q \in Seq(S), q # <<>>, NEW s, NEW r, Linked(q, s, r)
  PROVE  \E u : Follows(s, Head(q), u) /\ Linked(Tail(q), u, r)
<1>1. PICK t : t[0] = s /\ t[Len(q)] = r /\ LinkedBy(t, q)
  BY DEF Linked
<1>2. PICK n \in Nat : Len(q) = n + 1
  <2>1. Len(q) \in Nat /\ Len(q) # 0
    OBVIOUS
  <2> QED BY <2>1
<1>3. PICK v : v = [i \in 0 .. n |-> t[i + 1]]
  OBVIOUS
<1>4. PICK p : p = Tail(q)
  OBVIOUS
<1>5. Len(p) = n /\ Head(q) = q[1] /\ \A i \in 1 .. n : p[i] = q[i + 1]
  BY <1>2, <1>4, HeadTailProperties
<1>6. v[0] = t[1] /\ v[n] = r /\ \A i \in 0 .. n : v[i] = t[i + 1]
  BY <1>1, <1>2, <1>3
<1>7. Follows(s, Head(q), t[1])
  <2>1. 1 \in 1 .. n + 1 /\ 1 - 1 = 0
    OBVIOUS
  <2> QED BY <1>1, <1>2, <1>5, <2>1, Zenon DEF LinkedBy
<1>8. ASSUME NEW i \in 1 .. n PROVE Follows(v[i - 1], p[i], v[i])
  <2>1. /\ i \in 0 .. n /\ i - 1 \in 0 .. n /\ i + 1 \in 1 .. n + 1
        /\ (i - 1) + 1 = i /\ (i + 1) - 1 = i
    OBVIOUS
  <2>2. Follows(t[i], q[i + 1], t[i + 1])
    BY <1>1, <1>2, <2>1, Zenon DEF LinkedBy
  <2> QED BY <1>5, <1>6, <2>1, <2>2, Zenon
<1>9. Linked(p, t[1], r)
  BY <1>5, <1>6, <1>8, Zenon DEF Linked, LinkedBy
<1> QED BY <1>4, <1>7, <1>9, Zenon

-----------------------------------------------------------------------------
\* What the client does leads on from the session it asks in.

Frames == Requests \cup AbortRequests

Stays(r) == toServer' = toServer /\ Asks(r)'
Sends(r) ==
  \E f \in Frames : \E u :
    toServer' = Append(toServer, f) /\ Follows(r, f, u) /\ Asks(u)'
Goes(r) == Stays(r) \/ Sends(r)

\* An application that calls nothing asks for nothing.
LEMMA IdleAsks ==
  ASSUME NEW r, pc' = "idle"
  PROVE  Asks(r)'
BY Zenon DEF Asks, AsksFitting, AsksInit, AsksNext, AsksSegment, Pending

LEMMA EndCallAsks ==
  ASSUME NEW r, NEW how, EndCall(how)
  PROVE  Asks(r)'
<1>1. pc' = "idle"
  BY DEF EndCall
<1> QED BY <1>1, IdleAsks

\* Nor does one that has just been asking for an upload or an expedited download.
LEMMA OtherAsks ==
  ASSUME NEW r, AsksFitting', ~Pending("init_download")', ~Pending("seg_download")',
         pc' # "io" \/ call'.kind # "download"
  PROVE  Asks(r)'
BY Zenon DEF Asks, AsksInit, AsksNext, AsksSegment

\* No bytes are the next bytes anywhere.
LEMMA NothingNext ==
  ASSUME NEW d \in Data, NEW n \in 0 .. Len(d)
  PROVE  IsNext(<<>>, d, n)
<1>1. Len(d) \in Nat /\ Len(<<>>) = 0 /\ <<>> \in Data
  BY LenProperties DEF Data
<1>2. n + 0 = n /\ n \in Nat
  BY <1>1
<1>3. SubSeq(d, n + 1, n) = <<>>
  BY <1>2, SubSeqEmpty
<1> QED BY <1>1, <1>2, <1>3, Zenon DEF IsNext

\* close() asks to end where the stream stands.
LEMMA CloseAsks ==
  ASSUME TypeOK, NEW r, NEW n \in Nat, pc # "idle", call' = call, call.kind = "download",
         CloseStream, Agrees(r, n, stream.toggle)
  PROVE  Asks(r)'
<1>1. /\ request' = ReqSegDownload(stream.toggle, <<>>, TRUE)
      /\ retries' = 0 /\ pc' = "send"
      /\ stream' = [stream EXCEPT !.closed = TRUE]
  BY DEF CloseStream, RequestResponse
<1>2. /\ request'.kind = "seg_download" /\ request'.toggle = stream.toggle
      /\ request'.data = <<>> /\ request'.last
  BY <1>1 DEF ReqSegDownload
<1>3. stream'.closed
  BY <1>1 DEF TypeOK, ClientTypeOK, Streams
<1>4. call \in Calls
  BY DEF TypeOK, ClientTypeOK
<1>5. call.data \in Data
  BY <1>4, CallFields
<1>6. n \in 0 .. Len(call.data)
  BY DEF Agrees, Live
<1>7. Agrees(r, n, request.toggle)'
  BY <1>2 DEF Agrees
<1>8. IsNext(request.data, call.data, n)'
  BY <1>2, <1>5, <1>6, NothingNext
<1>9. Unsent(r)'
  BY <1>3, <1>7, <1>8, Zenon DEF Unsent
<1>10. ~Sent'
  BY <1>1 DEF Sent
<1>11. AsksSegment(r)'
  BY <1>2, <1>3, <1>9, <1>10, Zenon DEF AsksSegment
<1>12. AsksFitting'
  BY <1>1, <1>2 DEF AsksFitting, Pending, UploadKinds
<1> QED BY <1>1, <1>2, <1>11, <1>12 DEF Asks, AsksInit, AsksNext, Pending

\* An exception closes the stream behind what was sent.
LEMMA RaiseAsks ==
  ASSUME TypeOK, NEW r, Asks(r), pc = "wait", call' = call, Raise
  PROVE  Asks(r)'
<1>1. CASE UnfinishedDownload /\ CloseStream
  <2>1. call.kind = "download" /\ ~stream.done /\ ~stream.expedited /\ ~stream.closed
    BY <1>1 DEF UnfinishedDownload
  <2>2. Sent
    BY DEF Sent
  <2>3. request \in Requests /\ call \in Calls /\ stream \in Streams
    BY DEF TypeOK, ClientTypeOK
  <2>4. request.kind \in {"init_download", "seg_download"}
    <3>1. request.kind \in UploadKinds \cup DownloadKinds
      BY <2>3 DEF Requests, UploadKinds, DownloadKinds
    <3>2. request.kind \notin UploadKinds
      BY <2>1 DEF Asks, AsksFitting
    <3>3. request.kind # "exp_download"
      BY <2>1 DEF Asks, AsksFitting, Pending
    <3> QED BY <3>1, <3>2, <3>3 DEF DownloadKinds
  <2>5. \E n \in Nat : Agrees(r, n, stream.toggle)
    <3>1. CASE request.kind = "init_download"
      <4>1. Agrees(r, 0, 0) /\ stream.toggle = 0
        BY <2>2, <3>1, Zenon DEF Asks, AsksInit, Pending
      <4> QED BY <4>1
    <3>2. CASE request.kind = "seg_download"
      <4>1. WasSent(r) /\ (request.last <=> stream.done) /\ stream.toggle = Flip(request.toggle)
        BY <2>1, <2>2, <3>2, Zenon DEF Asks, AsksSegment, Pending
      <4>2. Agrees(r, stream.pos + Len(request.data), stream.toggle)
        BY <2>1, <4>1, Zenon DEF WasSent
      <4>3. request.data \in Data
        BY <2>3, <3>2, RequestFields
      <4>4. stream.pos + Len(request.data) \in Nat
        BY <2>3, <4>3 DEF Streams, Data
      <4> QED BY <4>2, <4>4
    <3> QED BY <2>4, <3>1, <3>2
  <2> QED BY <1>1, <2>1, <2>5, CloseAsks
<1>2. CASE EndCall("failed")
  BY <1>2, EndCallAsks
<1> QED BY <1>1, <1>2 DEF Raise

\* An abort frame leads nowhere else.
LEMMA AbortGoes ==
  ASSUME TypeOK, NEW r, Asks(r), pc = "wait", call' = call, NEW code \in ClientAbortCodes,
         AbortAndRaise(code), sendFailuresLeft' = sendFailuresLeft
  PROVE  Goes(r)
<1>1. Raise
  BY DEF AbortAndRaise
<1>2. toServer' = Append(toServer, ReqAbort(code))
  BY RetriesAssumption DEF AbortAndRaise, TypeOK, BusTypeOK
<1>3. ReqAbort(code) \in Frames /\ ReqAbort(code).kind = "abort"
  BY AbortRequestType DEF Frames, ReqAbort
<1>4. Follows(r, ReqAbort(code), r)
  BY <1>3 DEF Follows
<1> QED BY <1>1, <1>2, <1>3, <1>4, RaiseAsks, Zenon DEF Goes, Sends

\* Every request leads on, sent for the first time or once more.
LEMMA SendGoes ==
  ASSUME TypeOK, NEW r, Asks(r), SendRequest
  PROVE  Goes(r)
<1>1. /\ pc = "send" /\ pc' = "wait" /\ toServer' = Append(toServer, request)
      /\ UNCHANGED <<call, stream, request, retries>>
  BY DEF SendRequest
<1>2. request \in Requests /\ call \in Calls /\ stream \in Streams
  BY <1>1 DEF TypeOK, ClientTypeOK
<1>3. request \in Frames
  BY <1>2 DEF Frames
<1>4. Sent'
  BY <1>1 DEF Sent
<1>5. AsksFitting'
  BY <1>1 DEF Asks, AsksFitting, Pending
<1>6. SUFFICES \E u : Follows(r, request, u) /\ AsksInit(u)' /\ AsksSegment(u)'
  <2>1. \A u : AsksNext(u)'
    BY <1>1 DEF AsksNext
  <2> QED BY <1>1, <1>3, <1>5, <2>1, Zenon DEF Goes, Sends, Asks
<1>7. CASE request.kind \in {"init_upload", "seg_upload", "exp_download"}
  <2>1. PICK u : u = [phase |-> "none"]
    OBVIOUS
  <2>2. u.phase = "none"
    BY <2>1
  <2>3. request.kind = "exp_download" => request.data \in GivenValues
    BY <1>1 DEF Asks, AsksFitting, Pending
  <2>4. Follows(r, request, u)
    BY <1>7, <2>2, <2>3 DEF Follows
  <2>5. AsksInit(u)' /\ AsksSegment(u)'
    BY <1>1, <1>7 DEF AsksInit, AsksSegment, Pending
  <2> QED BY <2>4, <2>5
<1>8. CASE request.kind = "init_download"
  <2>1. PICK u : u = [phase |-> "live", data |-> call.data, moved |-> 0, toggle |-> 0]
    OBVIOUS
  <2>2. u.phase = "live" /\ u.data = call.data /\ u.moved = 0 /\ u.toggle = 0
    BY <2>1
  <2>3. /\ call.data \in GivenValues
        /\ stream.pos = 0 /\ stream.toggle = 0 /\ ~stream.done /\ ~stream.closed
    BY <1>1, <1>8, Zenon DEF Asks, AsksInit, Pending
  <2>4. request.kind \notin UploadKinds /\ call.kind = "download"
    <3>1. request.kind \notin UploadKinds
      BY <1>8 DEF UploadKinds
    <3>2. call.kind # "upload"
      BY <1>1, <3>1 DEF Asks, AsksFitting
    <3> QED BY <1>2, <3>1, <3>2, CallFields
  <2>5. call.data \in Data
    BY <1>2, <2>4, CallFields
  <2>6. 0 \in 0 .. Len(call.data)
    BY <2>5 DEF Data
  <2>7. Live(u)
    BY <2>2, <2>3, <2>6 DEF Live
  <2>8. Follows(r, request, u)
    BY <1>8, <2>2, <2>7 DEF Follows
  <2>9. Agrees(u, 0, 0)'
    BY <1>1, <2>2, <2>7 DEF Agrees
  <2>10. AsksInit(u)'
    BY <1>1, <2>3, <2>9 DEF AsksInit
  <2>11. AsksSegment(u)'
    BY <1>1, <1>8 DEF AsksSegment, Pending
  <2> QED BY <2>8, <2>10, <2>11
<1>9. CASE request.kind = "seg_download"
  <2>1. /\ stream.closed => request.last
        /\ ~stream.closed => (request.last <=> stream.done) /\ stream.toggle = Flip(request.toggle)
        /\ IF Sent THEN WasSent(r) ELSE Unsent(r)
    BY <1>1, <1>9, Zenon DEF Asks, AsksSegment, Pending
  <2>2. request.data \in Data /\ request.toggle \in Bit /\ request.last \in BOOLEAN
    BY <1>2, <1>9, RequestFields
  <2>3. Flip(request.toggle) # request.toggle
    BY <2>2 DEF Flip, Bit
  <2>4. SUFFICES \E u : Continues(r, request, u) /\ WasSent(u)'
    <3>1. \A u : AsksInit(u)'
      BY <1>1, <1>9 DEF AsksInit, Pending
    <3>2. ASSUME NEW u, Continues(r, request, u), WasSent(u)'
          PROVE  Follows(r, request, u) /\ AsksSegment(u)'
      <4>1. Follows(r, request, u)
        BY <1>9, <3>2 DEF Follows
      <4>2. AsksSegment(u)'
        BY <1>1, <1>4, <2>1, <3>2, Zenon DEF AsksSegment
      <4> QED BY <4>1, <4>2
    <3> QED BY <3>1, <3>2
  <2>5. \A u : WasSent(u)' <=> WasSent(u)
    BY <1>1, Zenon DEF WasSent, Agrees
  <2>6. CASE Sent
    <3>1. WasSent(r)
      BY <2>1, <2>6
    <3>2. CASE request.last
      <4>1. r.phase = "ended" /\ r.toggle = request.toggle
        BY <3>1, <3>2 DEF WasSent
      <4>2. MaxRetries # 1
        BY <1>1, <2>6, RetriesAssumption DEF Sent, TypeOK, ClientTypeOK
      <4>3. Continues(r, request, r)
        BY <3>2, <4>1, <4>2, Zenon DEF Continues
      <4> QED BY <2>5, <3>1, <4>3
    <3>3. CASE ~request.last
      <4>1. Live(r) /\ r.toggle = Flip(request.toggle)
        BY <3>1, <3>3 DEF WasSent, Agrees
      <4>2. Continues(r, request, r)
        BY <2>3, <4>1, Zenon DEF Continues
      <4> QED BY <2>5, <3>1, <4>2
    <3> QED BY <3>2, <3>3
  <2>7. CASE ~Sent
    <3>1. PICK n \in Nat : /\ Agrees(r, n, request.toggle)
                           /\ IsNext(request.data, call.data, n)
                           /\ ~stream.closed => n = stream.pos
      BY <2>1, <2>7 DEF Unsent
    <3>2. Live(r) /\ r.data = call.data /\ r.moved = n /\ r.toggle = request.toggle
      BY <3>1 DEF Agrees
    <3>3. CASE request.last
      <4>1. PICK u : u = [phase |-> "ended", toggle |-> request.toggle]
        OBVIOUS
      <4>2. u.phase = "ended" /\ u.toggle = request.toggle
        BY <4>1
      <4>3. NextSegment(r, request, u)
        BY <3>1, <3>2, <3>3, <4>2, Zenon DEF NextSegment
      <4>4. WasSent(u)
        BY <3>3, <4>2 DEF WasSent
      <4> QED BY <2>5, <4>3, <4>4, Zenon DEF Continues
    <3>4. CASE ~request.last
      <4>1. PICK u : u = [phase |-> "live", data |-> call.data, moved |-> n + Len(request.data),
                          toggle |-> Flip(request.toggle)]
        OBVIOUS
      <4>2. /\ u.phase = "live" /\ u.data = call.data /\ u.moved = n + Len(request.data)
            /\ u.toggle = Flip(request.toggle)
        BY <4>1
      <4>3. NextSegment(r, request, u)
        BY <3>1, <3>2, <3>4, <4>2, Zenon DEF NextSegment
      <4>4. n + Len(request.data) \in 0 .. Len(call.data)
        BY <3>1 DEF IsNext
      <4>5. call.data \in GivenValues
        BY <3>2 DEF Live
      <4>6. Live(u)
        BY <4>2, <4>4, <4>5, Zenon DEF Live
      <4>7. n = stream.pos
        BY <2>1, <3>1, <3>4
      <4>8. WasSent(u)
        BY <3>4, <4>2, <4>6, <4>7, Zenon DEF WasSent, Agrees
      <4> QED BY <2>5, <4>3, <4>8, Zenon DEF Continues
    <3> QED BY <3>3, <3>4
  <2> QED BY <2>6, <2>7
<1> QED
  <2>1. request.kind \in UploadKinds \cup DownloadKinds
    BY <1>2 DEF Requests, UploadKinds, DownloadKinds
  <2> QED BY <1>7, <1>8, <1>9, <2>1 DEF UploadKinds, DownloadKinds

\* A stream that asks for its next segment.
LEMMA StreamGoes ==
  ASSUME TypeOK, NEW r, Asks(r), ReadSegment \/ WriteSegment \/ CloseEmpty
  PROVE  Goes(r)
<1>1. toServer' = toServer /\ call' = call /\ pc = "io"
  BY DEF ReadSegment, WriteSegment, CloseEmpty, busVars
<1>2. call \in Calls /\ stream \in Streams
  BY <1>1 DEF TypeOK, ClientTypeOK
<1>3. CASE ReadSegment
  <2>1. call.kind = "upload" /\ request' = ReqSegUpload(stream.toggle)
    BY <1>3 DEF ReadSegment, RequestResponse
  <2>2. request'.kind = "seg_upload" /\ pc' = "send"
    BY <1>3, <2>1 DEF ReadSegment, RequestResponse, ReqSegUpload
  <2>3. AsksFitting' /\ ~Pending("init_download")' /\ ~Pending("seg_download")'
    BY <1>1, <2>1, <2>2 DEF AsksFitting, Pending, UploadKinds
  <2> QED BY <1>1, <2>2, <2>3, OtherAsks DEF Goes, Stays
<1>4. CASE WriteSegment
  <2> DEFINE end == IF stream.pos + SegLen < Len(call.data)
                    THEN stream.pos + SegLen ELSE Len(call.data)
             chunk == SubSeq(call.data, stream.pos + 1, end)
             last == end >= stream.size
  <2>1. /\ call.kind = "download" /\ stream.pos < Len(call.data)
        /\ pc' = "send" /\ retries' = 0
        /\ request' = ReqSegDownload(stream.toggle, chunk, last)
        /\ stream' = [stream EXCEPT !.toggle = Flip(stream.toggle), !.done = last]
    BY <1>4 DEF WriteSegment, RequestResponse
  <2>2. Agrees(r, stream.pos, stream.toggle) /\ ~stream.closed
    BY <1>1, <2>1, Zenon DEF Asks, AsksNext
  <2>3. call.data \in Seq(Bytes) /\ Len(call.data) \in Nat
    BY <1>2, <2>1, CallFields, LenProperties DEF Data
  <2>4. /\ stream.pos \in Nat /\ end \in 0 .. Len(call.data) /\ stream.pos + 1 <= end
        /\ stream.pos + 1 \in 1 .. Len(call.data) + 1
    BY <1>2, <2>1, <2>3, LengthAssumption DEF Streams
  <2> HIDE DEF end, last
  <2>5. Len(chunk) = end - stream.pos
    BY <2>3, <2>4, SubSeqProperties
  <2> HIDE DEF chunk
  <2>6. stream.pos + Len(chunk) = end
    BY <2>4, <2>5
  <2>7. IsNext(chunk, call.data, stream.pos)
    BY <2>4, <2>6, Zenon DEF IsNext, chunk
  <2>8. /\ request'.kind = "seg_download" /\ request'.toggle = stream.toggle
        /\ request'.data = chunk /\ request'.last = last
    BY <2>1 DEF ReqSegDownload
  <2>9. /\ stream'.pos = stream.pos /\ stream'.closed = stream.closed
        /\ stream'.done = last /\ stream'.toggle = Flip(stream.toggle)
    BY <1>2, <2>1 DEF Streams
  <2>10. Agrees(r, stream.pos, request.toggle)'
    BY <1>1, <2>2, <2>8, <2>9, Zenon DEF Agrees
  <2>11. IsNext(request.data, call.data, stream.pos)'
    BY <1>1, <2>7, <2>8, <2>9, Zenon
  <2>12. Unsent(r)'
    <3>1. stream'.pos \in Nat
      BY <2>4, <2>9
    <3> QED BY <2>10, <2>11, <3>1 DEF Unsent
  <2>13. AsksSegment(r)'
    BY <2>1, <2>2, <2>8, <2>9, <2>12 DEF AsksSegment, Sent
  <2>14. AsksFitting' /\ AsksInit(r)' /\ AsksNext(r)'
    BY <1>1, <2>1, <2>8 DEF AsksFitting, AsksInit, AsksNext, Pending, UploadKinds
  <2> QED BY <1>1, <2>13, <2>14 DEF Goes, Stays, Asks
<1>5. CASE CloseEmpty
  <2>1. call.kind = "download" /\ CloseStream
    BY <1>5 DEF CloseEmpty
  <2>2. Agrees(r, stream.pos, stream.toggle)
    BY <1>1, <2>1, Zenon DEF Asks, AsksNext
  <2>3. stream.pos \in Nat
    BY <1>2 DEF Streams
  <2> QED BY <1>1, <2>1, <2>2, <2>3, CloseAsks DEF Goes, Stays
<1> QED BY <1>3, <1>4, <1>5

\* A request is repeated after a wait, and its session stays as it is.
LEMMA RetryGoes ==
  ASSUME TypeOK, NEW r, Asks(r), RetryAfterTimeout
  PROVE  Goes(r)
<1>1. /\ pc = "wait" /\ pc' = "send" /\ retries' = retries + 1
      /\ UNCHANGED <<toServer, call, stream, request>>
  BY DEF RetryAfterTimeout, busVars
<1>2. retries' # 0
  BY <1>1, RetriesAssumption DEF TypeOK, ClientTypeOK
<1>3. Sent /\ Sent'
  BY <1>1, <1>2 DEF Sent
<1>4. AsksFitting' /\ AsksNext(r)'
  BY <1>1 DEF Asks, AsksFitting, AsksNext, Pending
<1>5. AsksInit(r)'
  BY <1>1, <1>3 DEF Asks, AsksInit, Pending, Agrees
<1>6. WasSent(r)' <=> WasSent(r)
  BY <1>1, Zenon DEF WasSent, Agrees
<1>7. AsksSegment(r)'
  BY <1>1, <1>3, <1>6 DEF Asks, AsksSegment, Pending
<1> QED BY <1>1, <1>4, <1>5, <1>7 DEF Goes, Stays, Asks

\* An answer.
LEMMA ReadGoes ==
  ASSUME TypeOK, NEW r, Asks(r), ReadResponse, sendFailuresLeft' = sendFailuresLeft
  PROVE  Goes(r)
<1>1. pc = "wait" /\ call' = call
  BY DEF ReadResponse, ReadAbort, InitUploadAnswered, InitUploadUnexpected, SegmentUploaded,
         SegmentUploadUnexpected, ExpeditedDownloaded, InitDownloadAnswered,
         InitDownloadUnexpected, SegmentDownloaded, SegmentDownloadUnexpected, StreamClosed,
         Awaiting
<1>2. call \in Calls /\ stream \in Streams /\ request \in Requests /\ Sent
  BY <1>1 DEF TypeOK, ClientTypeOK, Sent
<1>3. CASE ReadAbort
  <2>1. Raise /\ toServer' = toServer
    BY <1>3 DEF ReadAbort, busVars
  <2> QED BY <1>1, <2>1, RaiseAsks DEF Goes, Stays
<1>4. CASE SegmentUploadUnexpected \/ InitDownloadUnexpected \/ SegmentDownloadUnexpected
  <2>1. PICK code \in ClientAbortCodes : AbortAndRaise(code)
    BY <1>4 DEF SegmentUploadUnexpected, InitDownloadUnexpected, SegmentDownloadUnexpected,
         ClientAbortCodes
  <2> QED BY <1>1, <2>1, AbortGoes
<1>5. ASSUME NEW how, EndCall(how), toServer' = toServer PROVE Goes(r)
  BY <1>5, EndCallAsks DEF Goes, Stays
<1>6. CASE InitUploadUnexpected \/ ExpeditedDownloaded \/ StreamClosed
  <2>1. toServer' = toServer /\ (EndCall("ok") \/ EndCall("failed"))
    BY <1>6 DEF InitUploadUnexpected, ExpeditedDownloaded, StreamClosed, busVars
  <2> QED BY <1>5, <2>1
<1>7. CASE InitUploadAnswered \/ SegmentUploaded
  <2>1. toServer' = toServer /\ (EndCall("ok") \/ pc' = "io")
    BY <1>7 DEF InitUploadAnswered, SegmentUploaded, busVars
  <2>2. request.kind \in UploadKinds
    BY <1>7 DEF InitUploadAnswered, SegmentUploaded, Awaiting, UploadKinds
  <2>3. call'.kind = "upload"
    BY <1>1, <2>2 DEF Asks, AsksFitting
  <2>4. pc' = "io" => AsksFitting' /\ ~Pending("init_download")' /\ ~Pending("seg_download")'
    BY DEF AsksFitting, Pending
  <2>5. pc' = "io" => Asks(r)'
    BY <2>3, <2>4, OtherAsks
  <2> QED BY <1>5, <2>1, <2>5 DEF Goes, Stays
<1>8. CASE InitDownloadAnswered
  <2>1. /\ toServer' = toServer /\ pc' = "io" /\ request.kind = "init_download"
        /\ UNCHANGED <<call, stream>>
    BY <1>8 DEF InitDownloadAnswered, Awaiting, busVars
  <2>2. /\ Agrees(r, 0, 0)
        /\ stream.pos = 0 /\ stream.toggle = 0 /\ ~stream.done /\ ~stream.closed
    BY <1>1, <1>2, <2>1, Zenon DEF Asks, AsksInit, Pending
  <2>3. AsksNext(r)'
    BY <2>1, <2>2 DEF AsksNext, Agrees
  <2>4. AsksFitting' /\ AsksInit(r)' /\ AsksSegment(r)'
    BY <2>1 DEF AsksFitting, AsksInit, AsksSegment, Pending
  <2> QED BY <2>1, <2>3, <2>4 DEF Goes, Stays, Asks
<1>9. CASE SegmentDownloaded
  <2>1. /\ toServer' = toServer /\ request.kind = "seg_download" /\ ~stream.closed
        /\ \/ EndCall("ok")
           \/ /\ ~stream.done /\ pc' = "io"
              /\ stream' = [stream EXCEPT !.pos = stream.pos + Len(request.data)]
    BY <1>9 DEF SegmentDownloaded, Awaiting, busVars
  <2>2. CASE /\ ~stream.done /\ pc' = "io"
             /\ stream' = [stream EXCEPT !.pos = stream.pos + Len(request.data)]
    <3>1. WasSent(r) /\ (request.last <=> stream.done) /\ stream.toggle = Flip(request.toggle)
      BY <1>1, <1>2, <2>1, Zenon DEF Asks, AsksSegment, Pending
    <3>2. Agrees(r, stream.pos + Len(request.data), stream.toggle)
      BY <2>2, <3>1, Zenon DEF WasSent
    <3>3. /\ stream'.pos = stream.pos + Len(request.data) /\ stream'.toggle = stream.toggle
          /\ ~stream'.done /\ ~stream'.closed
      BY <1>2, <2>1, <2>2 DEF Streams
    <3>4. AsksNext(r)'
      BY <1>1, <3>2, <3>3, Zenon DEF AsksNext, Agrees
    <3>5. AsksFitting' /\ AsksInit(r)' /\ AsksSegment(r)'
      BY <2>2 DEF AsksFitting, AsksInit, AsksSegment, Pending
    <3> QED BY <2>1, <3>4, <3>5 DEF Goes, Stays, Asks
  <2> QED BY <1>5, <2>1, <2>2
<1> QED BY <1>3, <1>4, <1>6, <1>7, <1>8, <1>9 DEF ReadResponse

\* No send fails any more.
LEMMA FailureCounts ==
  ASSUME TypeOK, SendRequestFails
  PROVE  sendFailuresLeft' # sendFailuresLeft
BY RetriesAssumption DEF SendRequestFails, TypeOK, BusTypeOK

LEMMA ClientGoes ==
  ASSUME TypeOK, NEW r, Asks(r), ApplicationStep, sendFailuresLeft' = sendFailuresLeft
  PROVE  Goes(r)
<1>1. CASE GiveUpAfterTimeout
  <2>1. /\ pc = "wait" /\ call' = call /\ AbortAndRaise("timed_out")
        /\ "timed_out" \in ClientAbortCodes
    BY <1>1 DEF GiveUpAfterTimeout, ClientAbortCodes
  <2> QED BY <2>1, AbortGoes
<1> QED BY <1>1, SendGoes, FailureCounts, RetryGoes, ReadGoes, StreamGoes DEF ApplicationStep

\* A call asks for a session of its own.
LEMMA ValuesAreGiven == Values \subseteq GivenValues /\ GivenValues \subseteq Data
<1>1. \A o \in Dictionary : InitialValue[o] \in Values \cup {NoValue}
  BY ValueAssumption
<1> QED BY <1>1, ValueAssumption DEF GivenValues

LEMMA StartGoes ==
  ASSUME TypeOK, NEW r, NEW o \in Objects,
         Upload(o) \/ \E d \in Values, forced \in BOOLEAN : Download(o, d, forced)
  PROVE  Stays(r)
<1>1. toServer' = toServer /\ pc' = "send" /\ retries' = 0
  <2>1. CASE Upload(o)
    BY <2>1 DEF Upload, RequestResponse, busVars
  <2>2. ASSUME NEW d \in Values, NEW forced \in BOOLEAN, Download(o, d, forced)
        PROVE  toServer' = toServer /\ pc' = "send" /\ retries' = 0
    BY <2>2, Zenon DEF Download, RequestResponse, busVars
  <2> QED BY <2>1, <2>2, Zenon
<1>2. ~Sent'
  BY <1>1 DEF Sent
<1>3. CASE Upload(o)
  <2>1. call'.kind = "upload" /\ request'.kind = "init_upload"
    BY <1>3 DEF Upload, RequestResponse, ReqInitUpload
  <2>2. AsksFitting' /\ ~Pending("init_download")' /\ ~Pending("seg_download")'
    BY <1>1, <2>1 DEF AsksFitting, Pending, UploadKinds
  <2> QED BY <1>1, <2>1, <2>2, OtherAsks DEF Stays
<1>4. ASSUME NEW d \in Values, NEW forced \in BOOLEAN, Download(o, d, forced)
      PROVE  Stays(r)
  <2>1. PICK expedited \in BOOLEAN : expedited = (ExpeditedSize(d) /\ ~forced)
    OBVIOUS
  <2>2. /\ call' = [kind |-> "download", obj |-> o, data |-> d]
        /\ stream' = [FreshStream EXCEPT !.size = Len(d), !.expedited = expedited]
        /\ request' = IF expedited THEN ReqExpDownload(o, d) ELSE ReqInitDownload(o)
    BY <1>4, <2>1, Zenon DEF Download, RequestResponse
  <2>3. d \in GivenValues
    BY ValuesAreGiven
  <2>4. call'.kind = "download" /\ call'.data = d
    BY <2>2
  <2>5. /\ stream'.pos = 0 /\ stream'.toggle = 0 /\ ~stream'.done /\ ~stream'.closed
        /\ stream'.expedited = expedited
    BY <2>2 DEF FreshStream
  <2>6. CASE expedited
    <3>1. request'.kind = "exp_download" /\ request'.data = d
      BY <2>2, <2>6 DEF ReqExpDownload
    <3>2. AsksFitting'
      BY <1>1, <2>3, <2>4, <2>5, <2>6, <3>1 DEF AsksFitting, Pending, UploadKinds
    <3>3. AsksInit(r)' /\ AsksNext(r)' /\ AsksSegment(r)'
      BY <1>1, <3>1 DEF AsksInit, AsksNext, AsksSegment, Pending
    <3> QED BY <1>1, <3>2, <3>3 DEF Stays, Asks
  <2>7. CASE ~expedited
    <3>1. request'.kind = "init_download"
      BY <2>2, <2>7 DEF ReqInitDownload
    <3>2. AsksFitting'
      BY <1>1, <2>4, <3>1 DEF AsksFitting, Pending, UploadKinds
    <3>3. AsksInit(r)'
      BY <1>2, <2>3, <2>4, <2>5 DEF AsksInit
    <3>4. AsksNext(r)' /\ AsksSegment(r)'
      BY <1>1, <3>1 DEF AsksNext, AsksSegment, Pending
    <3> QED BY <1>1, <3>2, <3>3, <3>4 DEF Stays, Asks
  <2> QED BY <2>6, <2>7
<1> QED BY <1>3, <1>4

-----------------------------------------------------------------------------
\* The server follows a frame from its session to the next.

\* The whole of a value and its start.
LEMMA WholeIsStart ==
  ASSUME NEW d \in GivenValues
  PROVE  StartOfValue(d)
<1>1. d \in Seq(Bytes) /\ Len(d) \in Nat
  BY ValuesAreGiven, LenProperties DEF Data
<1>2. SubSeq(d, 1, Len(d)) = d
  BY <1>1
<1>3. Len(d) \in 0 .. Len(d)
  BY <1>1
<1>4. d \in Prefixes(d)
  BY <1>2, <1>3, Zenon DEF Prefixes
<1> QED BY <1>4 DEF StartOfValue

\* Storing the start of a value.
LEMMA StoreKeepsStarts ==
  ASSUME HoldsStarts, NEW o, NEW v, StartOfValue(v), store' = [store EXCEPT ![o] = v],
         store \in [Dictionary -> Data \cup {NoValue}]
  PROVE  HoldsStarts'
<1>1. \A p \in Dictionary : store'[p] = v \/ store'[p] = store[p]
  OBVIOUS
<1>2. ASSUME NEW p \in Dictionary, store'[p] # NoValue
      PROVE  StartOfValue(store'[p])
  <2>1. CASE store'[p] = v
    BY <2>1, Zenon
  <2>2. CASE store'[p] = store[p]
    BY <1>2, <2>2, Zenon DEF HoldsStarts
  <2> QED BY <1>1, <2>1, <2>2
<1> QED BY <1>2, Zenon DEF HoldsStarts, StartOfValue

LEMMA StoreUnchanged ==
  ASSUME HoldsStarts, store' = store
  PROVE  HoldsStarts'
BY Zenon DEF HoldsStarts, StartOfValue

\* Nothing follows the session of another request.
LEMMA NothingServed ==
  ASSUME NEW r, r.phase = "none"
  PROVE  InSession(r)'
BY DEF InSession

\* A session that the server stays in.
LEMMA StaysServed ==
  ASSUME NEW r, InSession(r), srvBuffer' = srvBuffer, srvToggle' = srvToggle, srvIndex' = srvIndex
  PROVE  InSession(r)'
BY Zenon DEF InSession, Live

LEMMA RequestServed ==
  ASSUME TypeOK, NEW s, NEW r, InSession(s), Follows(s, Head(toServer), r), HoldsStarts,
         \/ InitUploadExpedited \/ InitUploadSegmented \/ InitUploadRefused
         \/ SegmentedUpload \/ InitDownloadExpedited \/ InitDownloadSegmented
         \/ RequestAborted
  PROVE  InSession(r)' /\ HoldsStarts'
<1>1. CASE InitUploadExpedited \/ InitUploadSegmented \/ InitUploadRefused \/ SegmentedUpload
  <2>1. Head(toServer).kind \in {"init_upload", "seg_upload"} /\ store' = store
    BY <1>1 DEF InitUploadExpedited, InitUploadSegmented, InitUploadRefused, SegmentedUpload,
         Request
  <2>2. r.phase = "none"
    BY <2>1 DEF Follows
  <2> QED BY <2>1, <2>2, NothingServed, StoreUnchanged
<1>2. CASE InitDownloadExpedited
  <2>1. PICK f : f = Head(toServer)
    OBVIOUS
  <2>2. f.kind = "exp_download"
    BY <1>2, <2>1 DEF InitDownloadExpedited, Request
  <2>3. store' = [store EXCEPT ![f.obj] = f.data] \/ store' = store
    BY <1>2, <2>1 DEF InitDownloadExpedited
  <2>4. r.phase = "none" /\ f.data \in GivenValues
    BY <2>1, <2>2 DEF Follows
  <2>5. store \in [Dictionary -> Data \cup {NoValue}]
    BY DEF TypeOK, ServerTypeOK
  <2> QED BY <2>3, <2>4, <2>5, NothingServed, StoreUnchanged, StoreKeepsStarts, WholeIsStart
<1>3. CASE InitDownloadSegmented
  <2>1. Head(toServer).kind = "init_download" /\ store' = store
        /\ srvBuffer' = <<>> /\ srvToggle' = 0
    BY <1>3 DEF InitDownloadSegmented, Request
  <2>2. Live(r) /\ r.moved = 0 /\ r.toggle = 0
    BY <2>1 DEF Follows
  <2>3. SubSeq(r.data, 1, 0) = <<>>
    BY SubSeqEmpty
  <2>4. InSession(r)'
    BY <2>1, <2>2, <2>3 DEF InSession, Live
  <2> QED BY <2>1, <2>4, StoreUnchanged
<1>4. CASE RequestAborted
  <2>1. Head(toServer).kind = "abort" /\ UNCHANGED <<store, srvBuffer, srvToggle, srvIndex>>
    BY <1>4 DEF RequestAborted, Request
  <2>2. r = s
    BY <2>1 DEF Follows
  <2> QED BY <2>1, <2>2, StaysServed, StoreUnchanged
<1> QED BY <1>1, <1>2, <1>3, <1>4

\* A segment: it is the next one, or the server refuses it once more.
LEMMA SegmentServed ==
  ASSUME TypeOK, RefusedOnce, NEW s, NEW r, InSession(s), Follows(s, Head(toServer), r),
         HoldsStarts, SegmentedDownload \/ SegmentedDownloadRefused \/ SegmentRefused
  PROVE  InSession(r)' /\ HoldsStarts'
<1>1. PICK f : f = Head(toServer)
  OBVIOUS
<1>2. f.kind \in {"seg_upload", "seg_download"}
  BY <1>1 DEF SegmentedDownload, SegmentedDownloadRefused, SegmentRefused, Request
<1>3. CASE f.kind = "seg_upload"
  <2>1. r.phase = "none"
    BY <1>1, <1>3 DEF Follows
  <2>2. SegmentRefused
    BY <1>1, <1>3 DEF SegmentedDownload, SegmentedDownloadRefused, Request
  <2>3. store' = store
    BY <2>2 DEF SegmentRefused, srvVars
  <2> QED BY <2>1, <2>3, NothingServed, StoreUnchanged
<1>4. CASE f.kind = "seg_download"
  <2>1. Continues(s, f, r)
    BY <1>1, <1>4 DEF Follows
  <2>2. f \in Requests \cup AbortRequests
    <3>1. toServer # <<>>
      BY DEF SegmentedDownload, SegmentedDownloadRefused, SegmentRefused, Request
    <3> QED BY <1>1, <3>1 DEF TypeOK, BusTypeOK
  <2>3. f.data \in Data /\ f.toggle \in Bit /\ f.last \in BOOLEAN
    BY <1>4, <2>2, RequestFields
  <2>4. /\ store \in [Dictionary -> Data \cup {NoValue}] /\ srvToggle \in Bit
    BY DEF TypeOK, ServerTypeOK
  <2>5. CASE SegmentRefused
    <3>1. UNCHANGED <<store, srvBuffer, srvToggle, srvIndex>>
          /\ (f.toggle # srvToggle \/ srvBuffer = NoBuffer)
      BY <1>1, <2>5 DEF SegmentRefused, srvVars
    <3>2. r = s
      <4>1. SUFFICES ASSUME NextSegment(s, f, r) PROVE FALSE
        BY <2>1, Zenon DEF Continues
      <4>2. Live(s) /\ s.toggle = f.toggle
        BY <4>1 DEF NextSegment
      <4>3. srvBuffer = SubSeq(s.data, 1, s.moved) /\ srvToggle = s.toggle
        BY <4>2 DEF InSession, Live
      <4>4. s.data \in Seq(Bytes) /\ s.moved \in 0 .. Len(s.data)
        BY <4>2, ValuesAreGiven DEF Live, Data
      <4>5. SubSeq(s.data, 1, s.moved) \in Data
        BY <4>4, SubSeqProperties, LenProperties DEF Data
      <4> QED BY <3>1, <4>2, <4>3, <4>5, ValueAssumption
    <3> QED BY <3>1, <3>2, StaysServed, StoreUnchanged
  <2>6. CASE SegmentedDownload \/ SegmentedDownloadRefused
    <3>1. f.toggle = srvToggle /\ srvBuffer' = srvBuffer \o f.data /\ srvIndex' = srvIndex
      BY <1>1, <2>6 DEF SegmentedDownload, SegmentedDownloadRefused
    <3>2. SegmentedDownload =>
            /\ f.last => Accepts(srvIndex, srvBuffer')
            /\ store' = IF f.last THEN [store EXCEPT ![srvIndex] = srvBuffer'] ELSE store
            /\ srvToggle' = Flip(srvToggle)
      BY <1>1 DEF SegmentedDownload
    <3>3. ~SegmentedDownload =>
            f.last /\ ~Accepts(srvIndex, srvBuffer') /\ store' = store /\ srvToggle' = srvToggle
      BY <1>1, <2>6 DEF SegmentedDownloadRefused
    <3>4. ~(Live(s) /\ s.toggle # f.toggle)
      BY <3>1 DEF InSession, Live
    <3>5. CASE NextSegment(s, f, r)
      <4>1. /\ Live(s) /\ s.toggle = f.toggle /\ IsNext(f.data, s.data, s.moved)
            /\ f.last => r.phase = "ended" /\ r.toggle = f.toggle
            /\ ~f.last => /\ r.phase = "live" /\ r.data = s.data
                          /\ r.moved = s.moved + Len(f.data) /\ r.toggle = Flip(s.toggle)
        BY <3>5, Zenon DEF NextSegment
      <4>2. s.data \in GivenValues /\ s.moved \in 0 .. Len(s.data)
        BY <4>1 DEF Live
      <4>3. srvBuffer = SubSeq(s.data, 1, s.moved)
        BY <4>1 DEF InSession, Live
      <4>4. s.data \in Data /\ Len(s.data) \in Nat /\ Len(f.data) \in Nat
        BY <2>3, <4>2, ValuesAreGiven, LenProperties DEF Data
      <4>5. PICK m : m = s.moved + Len(f.data)
        OBVIOUS
      <4>6. m \in 0 .. Len(s.data) /\ f.data = SubSeq(s.data, s.moved + 1, m)
        BY <4>1, <4>5, Zenon DEF IsNext
      <4>7. s.moved \in Nat /\ s.moved <= m
        BY <4>2, <4>4, <4>5
      <4>8. srvBuffer' = SubSeq(s.data, 1, m)
        BY <3>1, <4>3, <4>4, <4>6, <4>7, SegmentMoved, Zenon
      <4>9. StartOfValue(srvBuffer')
        BY <4>2, <4>6, <4>8, Zenon DEF StartOfValue, Prefixes
      <4>10. HoldsStarts'
        <5>1. store' = store \/ store' = [store EXCEPT ![srvIndex] = srvBuffer']
          BY <3>2, <3>3
        <5> QED BY <2>4, <4>9, <5>1, StoreUnchanged, StoreKeepsStarts
      <4>11. CASE ~f.last
        <5>1. srvToggle' = Flip(s.toggle)
          BY <3>1, <3>2, <3>3, <4>1, <4>11
        <5>2. r.data = s.data /\ r.moved = m /\ r.phase = "live" /\ r.toggle = Flip(s.toggle)
          BY <4>1, <4>5, <4>11
        <5>3. Live(r)
          BY <4>2, <4>6, <5>2, Zenon DEF Live
        <5>4. InSession(r)'
          BY <4>8, <5>1, <5>2, <5>3 DEF InSession, Live
        <5> QED BY <4>10, <5>4
      <4>12. CASE f.last
        <5>1. r.phase = "ended" /\ r.toggle = f.toggle
          BY <4>1, <4>12
        <5>2. CASE SegmentedDownload
          <6>1. srvToggle' # r.toggle
            BY <2>4, <3>1, <3>2, <5>1, <5>2 DEF Flip, Bit
          <6> QED BY <4>10, <5>1, <6>1 DEF InSession
        <5>3. CASE ~SegmentedDownload /\ MaxRetries # 1
          <6>1. \A o \in Dictionary : Width[o] = 0
            BY <5>3 DEF RefusedOnce
          <6>2. srvIndex \notin Writable
            BY <3>3, <5>3, <6>1, DictionaryAssumption DEF Accepts
          <6> QED BY <3>1, <4>10, <5>1, <6>2 DEF InSession
        <5>4. CASE MaxRetries = 1
          BY <4>10, <5>1, <5>4 DEF InSession
        <5> QED BY <5>2, <5>3, <5>4
      <4> QED BY <4>11, <4>12
    <3>6. CASE s.phase = "ended" /\ MaxRetries # 1 /\ f.last /\ s.toggle = f.toggle /\ r = s
      <4>1. srvIndex \notin Writable
        BY <3>1, <3>6 DEF InSession
      <4>2. ~SegmentedDownload
        BY <3>2, <3>6, <4>1 DEF Accepts
      <4>3. InSession(r)'
        BY <3>1, <3>6, <4>1 DEF InSession
      <4> QED BY <3>3, <4>2, <4>3, StoreUnchanged
    <3> QED BY <2>1, <3>4, <3>5, <3>6 DEF Continues
  <2> QED BY <2>5, <2>6
<1> QED BY <1>2, <1>3, <1>4

LEMMA ServerFollows ==
  ASSUME TypeOK, RefusedOnce, OnRequest, NEW s, NEW r, InSession(s),
         Follows(s, Head(toServer), r), HoldsStarts
  PROVE  InSession(r)' /\ HoldsStarts'
BY RequestServed, SegmentServed DEF OnRequest

-----------------------------------------------------------------------------
\* Losses and failures are counted down, so what was lost stays lost.

Fewer == lossesLeft' <= lossesLeft /\ sendFailuresLeft' <= sendFailuresLeft

LEMMA Unspent ==
  ASSUME TypeOK, lossesLeft' = lossesLeft, sendFailuresLeft' = sendFailuresLeft
  PROVE  Fewer
BY DEF TypeOK, BusTypeOK, Fewer

LEMMA AbortSpends ==
  ASSUME TypeOK, NEW code, AbortAndRaise(code)
  PROVE  Fewer
<1>1. /\ lossesLeft' = lossesLeft
      /\ sendFailuresLeft' = sendFailuresLeft \/ sendFailuresLeft' = sendFailuresLeft - MaxRetries
  BY DEF AbortAndRaise
<1> QED BY <1>1, RetriesAssumption DEF Fewer, TypeOK, BusTypeOK

LEMMA ClientSpends ==
  ASSUME TypeOK, ApplicationStep
  PROVE  Fewer
<1>1. CASE SendRequestFails
  BY <1>1, RetriesAssumption DEF SendRequestFails, Fewer, TypeOK, BusTypeOK
<1>2. CASE SendRequest
  BY <1>2, Unspent DEF SendRequest
<1>3. CASE RetryAfterTimeout \/ ReadSegment \/ WriteSegment \/ CloseEmpty
  BY <1>3, Unspent DEF RetryAfterTimeout, ReadSegment, WriteSegment, CloseEmpty, busVars
<1>4. CASE GiveUpAfterTimeout
  BY <1>4, AbortSpends DEF GiveUpAfterTimeout
<1>5. CASE \/ ReadAbort \/ InitUploadAnswered \/ InitUploadUnexpected \/ SegmentUploaded
           \/ ExpeditedDownloaded \/ InitDownloadAnswered \/ SegmentDownloaded \/ StreamClosed
  BY <1>5, Unspent
     DEF ReadAbort, InitUploadAnswered, InitUploadUnexpected, SegmentUploaded,
         ExpeditedDownloaded, InitDownloadAnswered, SegmentDownloaded, StreamClosed, busVars
<1>6. CASE SegmentUploadUnexpected \/ InitDownloadUnexpected \/ SegmentDownloadUnexpected
  BY <1>6, AbortSpends
     DEF SegmentUploadUnexpected, InitDownloadUnexpected, SegmentDownloadUnexpected
<1> QED BY <1>1, <1>2, <1>3, <1>4, <1>5, <1>6 DEF ApplicationStep, ReadResponse

LEMMA ServerSpends ==
  ASSUME TypeOK, OnRequest
  PROVE  Fewer /\ toServer # <<>> /\ toServer' = Tail(toServer)
<1>1. toServer # <<>> /\ toServer' = Tail(toServer) /\ lossesLeft' = lossesLeft
  BY DEF OnRequest, InitUploadExpedited, InitUploadSegmented, InitUploadRefused,
         SegmentedUpload, InitDownloadExpedited, InitDownloadSegmented, SegmentedDownload,
         SegmentedDownloadRefused, SegmentRefused, RequestAborted, Request
<1>2. ASSUME NEW o, NEW response, SendResponse(o, response) PROVE Fewer
  BY <1>1, <1>2 DEF SendResponse, Fewer, TypeOK, BusTypeOK
<1>3. ASSUME NEW o, AbortTransfer(o) PROVE Fewer
  BY <1>1, <1>3 DEF AbortTransfer, Fewer, TypeOK, BusTypeOK
<1>4. CASE InitUploadExpedited \/ InitUploadSegmented \/ SegmentedUpload
           \/ InitDownloadSegmented \/ SegmentedDownload
  BY <1>1, <1>2, <1>4
     DEF InitUploadExpedited, InitUploadSegmented, SegmentedUpload, InitDownloadSegmented,
         SegmentedDownload
<1>5. CASE InitUploadRefused \/ SegmentedDownloadRefused \/ SegmentRefused
  BY <1>1, <1>3, <1>5 DEF InitUploadRefused, SegmentedDownloadRefused, SegmentRefused
<1>6. CASE InitDownloadExpedited
  BY <1>1, <1>2, <1>3, <1>6 DEF InitDownloadExpedited
<1>7. CASE RequestAborted
  BY <1>1, <1>7, Unspent DEF RequestAborted
<1> QED BY <1>1, <1>4, <1>5, <1>6, <1>7 DEF OnRequest

LEMMA BusSpends ==
  ASSUME TypeOK, BusStep
  PROVE  Fewer /\ lossesLeft' # lossesLeft
BY DEF BusStep, LoseRequest, LoseResponse, Fewer, TypeOK, BusTypeOK

LEMMA StepSpends ==
  ASSUME TypeOK, [Next]_vars
  PROVE  Fewer
<1>1. CASE \E o \in Objects : StartUpload(o)
  BY <1>1, Unspent DEF StartUpload, Upload, busVars
<1>2. ASSUME NEW o \in Objects, NEW d \in Values, NEW forced \in BOOLEAN,
             StartDownload(o, d, forced)
      PROVE  Fewer
  <2>1. busVars' = busVars
    BY <1>2, Zenon DEF StartDownload, Download
  <2> QED BY <2>1, Unspent DEF busVars
<1>3. CASE ClientStep
  BY <1>3, ClientSpends DEF ClientStep
<1>4. CASE NotifierStep
  BY <1>4, Unspent DEF NotifierStep, OnResponse
<1>5. CASE ServerStep
  BY <1>5, ServerSpends DEF ServerStep
<1>6. CASE \E o \in Dictionary, d \in Values : LocalWriteStep(o, d)
  BY <1>6, Unspent DEF LocalWriteStep, LocalWrite, busVars
<1>7. CASE BusStep
  BY <1>7, BusSpends
<1>8. CASE UNCHANGED vars
  BY <1>8, Unspent DEF vars, busVars
<1> QED BY <1>1, <1>2, <1>3, <1>4, <1>5, <1>6, <1>7, <1>8, Zenon DEF Next

LEMMA LostStaysLost ==
  ASSUME TypeOK, [Next]_vars, NothingLost'
  PROVE  NothingLost /\ lossesLeft' = lossesLeft /\ sendFailuresLeft' = sendFailuresLeft
BY StepSpends, BusBoundAssumption DEF Fewer, TypeOK, BusTypeOK, NothingLost

-----------------------------------------------------------------------------
\* Every step keeps the sessions of the queue.

\* What is asked and served does not change with anything else.
LEMMA AskedUnchanged ==
  ASSUME NEW r, Asks(r), UNCHANGED <<pc, call, stream, request, retries>>
  PROVE  Asks(r)'
BY Zenon DEF Asks, AsksFitting, AsksInit, AsksNext, AsksSegment, Pending, Unsent, WasSent,
     Agrees, Sent

\* The client goes on: the server and the objects are left alone.
LEMMA ClientKeepsSessions ==
  ASSUME TypeOK, NEW s, NEW r, InSession(s), Linked(toServer, s, r), HoldsStarts, Goes(r),
         UNCHANGED srvVars
  PROVE  HoldsStarts' /\ \E u, v : InSession(u)' /\ Linked(toServer', u, v) /\ Asks(v)'
<1>1. InSession(s)' /\ HoldsStarts'
  BY StaysServed, StoreUnchanged DEF srvVars
<1>2. CASE Stays(r)
  BY <1>1, <1>2, Zenon DEF Stays
<1>3. CASE Sends(r)
  <2>1. PICK f \in Frames : \E u :
          toServer' = Append(toServer, f) /\ Follows(r, f, u) /\ Asks(u)'
    BY <1>3 DEF Sends
  <2>2. PICK u : toServer' = Append(toServer, f) /\ Follows(r, f, u) /\ Asks(u)'
    BY <2>1
  <2>3. toServer \in Seq(Frames)
    BY DEF TypeOK, BusTypeOK, Frames
  <2>4. Linked(Append(toServer, f), s, u)
    BY <2>2, <2>3, LinkedAppend, Zenon
  <2> QED BY <1>1, <2>2, <2>4, Zenon
<1> QED BY <1>2, <1>3 DEF Goes

\* The server takes the first frame.
LEMMA ServerKeepsSessions ==
  ASSUME TypeOK, RefusedOnce, NEW s, NEW r, InSession(s), Linked(toServer, s, r), HoldsStarts,
         Asks(r), OnRequest, UNCHANGED clientVars
  PROVE  HoldsStarts' /\ \E u, v : InSession(u)' /\ Linked(toServer', u, v) /\ Asks(v)'
<1>1. toServer # <<>> /\ toServer' = Tail(toServer)
  BY ServerSpends
<1>2. toServer \in Seq(Frames)
  BY DEF TypeOK, BusTypeOK, Frames
<1>3. PICK u : Follows(s, Head(toServer), u) /\ Linked(Tail(toServer), u, r)
  BY <1>1, <1>2, LinkedTail, Zenon
<1>4. InSession(u)' /\ HoldsStarts'
  BY <1>3, ServerFollows
<1>5. Asks(r)'
  BY AskedUnchanged DEF clientVars
<1> QED BY <1>1, <1>3, <1>4, <1>5, Zenon

LEMMA SessionInit == Init => SessionInv
<1> SUFFICES ASSUME Init PROVE SessionInv
  OBVIOUS
<1>1. toServer = <<>> /\ pc = "idle" /\ store = InitialValue
  BY DEF Init, BusInit, ClientInit, ServerInit
<1>2. PICK s : s = [phase |-> "none"]
  OBVIOUS
<1>3. s.phase = "none"
  BY <1>2
<1>4. InSession(s)
  BY <1>3 DEF InSession
<1>5. Asks(s)
  BY <1>1, Zenon DEF Asks, AsksFitting, AsksInit, AsksNext, AsksSegment, Pending
<1>6. Linked(toServer, s, s)
  BY <1>1, LinkedEmpty, Zenon
<1>7. HoldsStarts
  <2>1. ASSUME NEW o \in Dictionary, store[o] # NoValue PROVE StartOfValue(store[o])
    <3>1. store[o] \in GivenValues
      BY <1>1, <2>1 DEF GivenValues
    <3> QED BY <3>1, WholeIsStart
  <2> QED BY <2>1 DEF HoldsStarts
<1> QED BY <1>4, <1>5, <1>6, <1>7, Zenon DEF SessionInv

LEMMA SessionNext ==
  ASSUME TypeOK, RefusedOnce, SessionInv, [Next]_vars
  PROVE  SessionInv'
<1>1. SUFFICES ASSUME NothingLost'
      PROVE  HoldsStarts' /\ \E s, r : InSession(s)' /\ Linked(toServer', s, r) /\ Asks(r)'
  BY Zenon DEF SessionInv, Linked, LinkedBy, Follows, Continues, NextSegment, Live, IsNext
<1>2. NothingLost /\ lossesLeft' = lossesLeft /\ sendFailuresLeft' = sendFailuresLeft
  BY <1>1, LostStaysLost
<1>3. HoldsStarts
  BY <1>2 DEF SessionInv
<1>4. PICK s, r : InSession(s) /\ Linked(toServer, s, r) /\ Asks(r)
  BY <1>2, Zenon DEF SessionInv
<1>5. ASSUME NEW o \in Objects, StartUpload(o)
      PROVE  HoldsStarts' /\ \E u, v : InSession(u)' /\ Linked(toServer', u, v) /\ Asks(v)'
  <2>1. Goes(r) /\ UNCHANGED srvVars
    BY <1>5, StartGoes, Zenon DEF StartUpload, StartCall, Goes
  <2> QED BY <1>3, <1>4, <2>1, ClientKeepsSessions
<1>6. ASSUME NEW o \in Objects, NEW d \in Values, NEW forced \in BOOLEAN,
             StartDownload(o, d, forced)
      PROVE  HoldsStarts' /\ \E u, v : InSession(u)' /\ Linked(toServer', u, v) /\ Asks(v)'
  <2>1. Goes(r) /\ UNCHANGED srvVars
    BY <1>6, StartGoes, Zenon DEF StartDownload, StartCall, Goes
  <2> QED BY <1>3, <1>4, <2>1, ClientKeepsSessions
<1>7. CASE ClientStep
  <2>1. Goes(r) /\ UNCHANGED srvVars
    BY <1>2, <1>4, <1>7, ClientGoes DEF ClientStep
  <2> QED BY <1>3, <1>4, <2>1, ClientKeepsSessions
<1>8. CASE NotifierStep
  <2>1. /\ toServer' = toServer /\ UNCHANGED srvVars
        /\ UNCHANGED <<pc, call, stream, request, retries>>
    BY <1>8 DEF NotifierStep, OnResponse
  <2>2. Goes(r)
    BY <1>4, <2>1, AskedUnchanged DEF Goes, Stays
  <2> QED BY <1>3, <1>4, <2>1, <2>2, ClientKeepsSessions
<1>9. CASE ServerStep
  BY <1>3, <1>4, <1>9, ServerKeepsSessions DEF ServerStep
<1>10. ASSUME NEW o \in Dictionary, NEW d \in Values, LocalWriteStep(o, d)
       PROVE  HoldsStarts' /\ \E u, v : InSession(u)' /\ Linked(toServer', u, v) /\ Asks(v)'
  <2>1. /\ store' = [store EXCEPT ![o] = d] /\ toServer' = toServer
        /\ UNCHANGED <<srvIndex, srvBuffer, srvToggle>>
        /\ UNCHANGED <<pc, call, stream, request, retries>>
    BY <1>10 DEF LocalWriteStep, LocalWrite, busVars, clientVars
  <2>2. StartOfValue(d)
    BY ValuesAreGiven, WholeIsStart
  <2>3. store \in [Dictionary -> Data \cup {NoValue}]
    BY DEF TypeOK, ServerTypeOK
  <2>4. HoldsStarts'
    BY <1>3, <2>1, <2>2, <2>3, StoreKeepsStarts
  <2>5. InSession(s)' /\ Asks(r)'
    BY <1>4, <2>1, StaysServed, AskedUnchanged
  <2> QED BY <1>4, <2>1, <2>4, <2>5, Zenon
<1>11. CASE BusStep
  BY <1>2, <1>11, BusSpends
<1>12. CASE UNCHANGED vars
  <2>1. /\ toServer' = toServer /\ UNCHANGED srvVars
        /\ UNCHANGED <<pc, call, stream, request, retries>>
    BY <1>12 DEF vars, busVars, clientVars
  <2>2. Goes(r)
    BY <1>4, <2>1, AskedUnchanged DEF Goes, Stays
  <2> QED BY <1>3, <1>4, <2>1, <2>2, ClientKeepsSessions
<1> QED BY <1>5, <1>6, <1>7, <1>8, <1>9, <1>10, <1>11, <1>12, Zenon DEF Next

\* StoreHoldsPrefixes: as long as no frame was lost and no send failed, what the server
\* stores is the start of a value that was given to it, in whatever order calls are made,
\* given up and repeated and however late the server handles their requests
\* (init_download, segmented_download, set_data).  Holds if a value that was refused can
\* only be refused again.
THEOREM ObjectsHoldStarts == RefusedOnce /\ Spec => []StoreHoldsPrefixes
<1> SUFFICES ASSUME RefusedOnce PROVE Spec => []StoreHoldsPrefixes
  OBVIOUS
<1>1. Init => TypeOK /\ SessionInv
  BY TypeInit, SessionInit
<1>2. TypeOK /\ SessionInv /\ [Next]_vars => (TypeOK /\ SessionInv)'
  BY TypeStep, SessionNext
<1>3. SessionInv => StoreHoldsPrefixes
  BY Zenon DEF SessionInv, HoldsStarts, StartOfValue, NothingLost, StoreHoldsPrefixes
<1> QED BY <1>1, <1>2, <1>3, PTL DEF Spec

-----------------------------------------------------------------------------
\* What comes late is not mixed.  A call is covered as long as at most one other one was
\* made before it.  If no request is repeated, then what the call before has left under
\* way is that of its last exchange: of the frames that the covered call meets, none
\* that belongs to a running transfer comes behind the first one of a transfer.

\* Frames of some kinds are not there, or not behind one of a kind.
None(frames, kinds) == \A i \in DOMAIN frames : frames[i].kind \notin kinds

NotBehind(frames, kind, kinds) ==
  \A i, j \in DOMAIN frames :
    i < j /\ frames[i].kind = kind => frames[j].kind \notin kinds

\* What is left of a queue when some of its frames are gone.
Thinned(rest, frames) ==
  \E from \in [DOMAIN rest -> DOMAIN frames] :
    /\ \A i \in DOMAIN rest : rest[i] = frames[from[i]]
    /\ \A i, j \in DOMAIN rest : i < j => from[i] < from[j]

First == callsLeft + 1 >= MaxCalls
Covered == First \/ (callsLeft + 2 = MaxCalls /\ Uploading)

Writing == call # NoCall /\ call.kind = "download"

\* The two stages of an upload.
Opens == Uploading /\ Pending("init_upload")
ReadsOn == Uploading /\ (pc = "io" \/ Pending("seg_upload"))

\* What begins or continues another transfer than an upload begins.
Disturbing == {"seg_upload"} \cup DownloadKinds

HasBuffer == srvBuffer # NoBuffer
BufferStarts == HasBuffer => StartOfValue(srvBuffer)

\* Whoever takes an answer to init_upload finds the server at the start of a value.
Ordered ==
  /\ NotBehind(toServer, "init_upload", Disturbing)
  /\ NotBehind(InFlight, "init_upload", {"seg_upload"})
  /\ ~None(InFlight, {"init_upload"}) =>
       /\ None(toServer, Disturbing)
       /\ HasBuffer /\ BufferStarts /\ srvToggle = 0

\* The server has what follows the bytes that were read.
KeepsUp == HasBuffer /\ StartOfValue(result \o srvBuffer) /\ srvToggle = stream.toggle

OpensInv == result = <<>> /\ stream.toggle = 0

\* Nothing is under way but late first requests of the upload itself, answers to them,
\* and the segment that is asked for.
ReadsInv ==
  /\ None(toServer, DownloadKinds)
  /\ pc # "wait" => None(toServer, {"seg_upload"})
  /\ pc # "wait" \/ ~None(toServer, UploadKinds) => KeepsUp /\ None(InFlight, {"seg_upload"})
  /\ NotBehind(toServer, "seg_upload", UploadKinds)
  /\ ~None(toServer, {"init_upload"}) => OpensInv
  /\ NotBehind(InFlight, "seg_upload", {"seg_upload"})
  /\ \A i \in DOMAIN InFlight : InFlight[i].kind = "seg_upload" =>
       /\ HasBuffer /\ StartOfValue((result \o InFlight[i].data) \o srvBuffer)
       /\ srvToggle = Flip(stream.toggle)
  /\ First => None(toServer, {"init_upload"}) /\ None(InFlight, {"init_upload"})

UploadsInv ==
  /\ pc # "idle" => ~stream.closed /\ outcome = "running" /\ (Opens \/ ReadsOn)
  /\ pc = "idle" /\ outcome = "ok" => StartOfValue(result)

\* One request or answer, unless a stream is closed after an answer failed to come.
OneAtOnce ==
  IF pc = "wait" THEN Len(toServer) + Len(InFlight) <= 1
  ELSE toServer = <<>> /\ InFlight = <<>>

\* The first call, if it is a download, and its stream is not being closed.
WritesSegment ==
  LET n == stream.pos + Len(request.data) IN
  /\ n <= Len(call.data) /\ request.data = SubSeq(call.data, stream.pos + 1, n)
  /\ stream.toggle = Flip(request.toggle)
  /\ pc = "send" \/ toServer # <<>> => Moved(stream.pos) /\ srvToggle = request.toggle
  /\ ~None(InFlight, {"seg_download"}) => Moved(n) /\ srvToggle = stream.toggle

WritesStream ==
  /\ pc = "io" => Moved(stream.pos) /\ srvToggle = stream.toggle
  /\ pc \in {"send", "wait"} => toServer \in {<<>>, <<request>>}
  /\ Pending("exp_download") => request.data \in GivenValues
  /\ Pending("init_download") =>
       /\ stream.pos = 0 /\ stream.toggle = 0
       /\ ~None(InFlight, {"download"}) => Moved(0) /\ srvToggle = 0
  /\ Pending("seg_download") => WritesSegment

WritesInv ==
  /\ None(toServer, UploadKinds) /\ None(InFlight, UploadKinds)
  /\ call.data \in GivenValues /\ BufferStarts
  /\ pc \in {"send", "wait"} => request.kind \in DownloadKinds
  /\ pc # "idle" /\ ~stream.closed => WritesStream
  /\ pc # "idle" /\ stream.closed =>
       pc # "io" /\ request.kind = "seg_download" /\ request.data = <<>>

\* What answers and requests carry, of whatever call.
AnswersInv ==
  \A i \in DOMAIN InFlight :
    InFlight[i].kind = "exp_upload" => StartOfValue(InFlight[i].data)

RequestsInv ==
  /\ None(toServer, {"seg_upload"}) \/ None(toServer, DownloadKinds)
  /\ ~None(toServer, DownloadKinds) => BufferStarts /\ StartOfValue(<<>>)
  /\ \A i \in DOMAIN toServer :
       /\ toServer[i].kind = "exp_download" => toServer[i].data \in GivenValues
       /\ toServer[i].kind = "seg_download" /\ toServer[i].data # <<>> =>
            i = 1 /\ HasBuffer /\ StartOfValue(srvBuffer \o toServer[i].data)

CoveredInv ==
  /\ HoldsStarts /\ AnswersInv /\ RequestsInv
  /\ First \/ Opens => Ordered
  /\ Opens => OpensInv
  /\ ReadsOn => ReadsInv
  /\ Uploading => UploadsInv
  /\ First /\ pc # "idle" /\ ~stream.closed => OneAtOnce
  /\ First /\ Writing => WritesInv

IsNew ==
  /\ pc = "idle" /\ call = NoCall
  /\ toServer = <<>> /\ InFlight = <<>> /\ srvBuffer = NoBuffer

LateInv ==
  /\ callsLeft = MaxCalls => IsNew
  /\ Covered => CoveredInv

-----------------------------------------------------------------------------
\* Queues that lose frames.

LEMMA ThinnedIsNone ==
  ASSUME NEW s, NEW t, Thinned(s, t), NEW kinds, None(t, kinds)
  PROVE  None(s, kinds)
<1>1. PICK from \in [DOMAIN s -> DOMAIN t] : \A i \in DOMAIN s : s[i] = t[from[i]]
  BY Zenon DEF Thinned
<1> QED BY <1>1 DEF None

LEMMA ThinnedNotBehind ==
  ASSUME NEW s, NEW t, Thinned(s, t), NEW kind, NEW kinds, NotBehind(t, kind, kinds)
  PROVE  NotBehind(s, kind, kinds)
<1>1. PICK from \in [DOMAIN s -> DOMAIN t] :
        /\ \A i \in DOMAIN s : s[i] = t[from[i]]
        /\ \A i, j \in DOMAIN s : i < j => from[i] < from[j]
  BY Zenon DEF Thinned
<1>2. ASSUME NEW i \in DOMAIN s, NEW j \in DOMAIN s, i < j, s[i].kind = kind
      PROVE  s[j].kind \notin kinds
  <2>1. from[i] \in DOMAIN t /\ from[j] \in DOMAIN t /\ from[i] < from[j]
    BY <1>1, <1>2
  <2>2. s[i] = t[from[i]] /\ s[j] = t[from[j]]
    BY <1>1
  <2> QED BY <1>2, <2>1, <2>2, Zenon DEF NotBehind
<1> QED BY <1>2 DEF NotBehind

LEMMA ThinnedIsAmong ==
  ASSUME NEW s, NEW t, Thinned(s, t)
  PROVE  \A i \in DOMAIN s : \E j \in DOMAIN t : s[i] = t[j]
<1>1. PICK from \in [DOMAIN s -> DOMAIN t] : \A j \in DOMAIN s : s[j] = t[from[j]]
  BY Zenon DEF Thinned
<1> QED BY <1>1

LEMMA TailIsThinned ==
  ASSUME NEW S, NEW s \in Seq(S), s # <<>>
  PROVE  Thinned(Tail(s), s)
<1>1. /\ Tail(s) \in Seq(S) /\ Len(Tail(s)) = Len(s) - 1 /\ Len(s) \in Nat
      /\ \A i \in 1 .. Len(Tail(s)) : Tail(s)[i] = s[i + 1]
  BY HeadTailProperties, LenProperties
<1>2. DOMAIN Tail(s) = 1 .. Len(Tail(s)) /\ DOMAIN s = 1 .. Len(s)
  BY <1>1, LenProperties
<1> DEFINE from == [i \in DOMAIN Tail(s) |-> i + 1]
<1>3. from \in [DOMAIN Tail(s) -> DOMAIN s]
  BY <1>1, <1>2
<1>4. /\ \A i \in DOMAIN Tail(s) : Tail(s)[i] = s[from[i]]
      /\ \A i, j \in DOMAIN Tail(s) : i < j => from[i] < from[j]
  BY <1>1, <1>2
<1> QED BY <1>3, <1>4, Zenon DEF Thinned

\* The front of a queue is gone, or the first of its back.
LEMMA BackIsThinned ==
  ASSUME NEW S, NEW s \in Seq(S), NEW t \in Seq(S)
  PROVE  Thinned(t, s \o t)
<1>1. /\ Len(s) \in Nat /\ DOMAIN t = 1 .. Len(t) /\ Len(t) \in Nat
      /\ s \o t \in Seq(S) /\ Len(s \o t) = Len(s) + Len(t)
      /\ \A i \in 1 .. Len(t) : (s \o t)[Len(s) + i] = t[i]
  BY ConcatProperties, LenProperties
<1>2. DOMAIN (s \o t) = 1 .. Len(s) + Len(t)
  BY <1>1, LenProperties
<1> DEFINE from == [i \in DOMAIN t |-> Len(s) + i]
<1>3. from \in [DOMAIN t -> DOMAIN (s \o t)]
  BY <1>1, <1>2
<1>4. /\ \A i \in DOMAIN t : t[i] = (s \o t)[from[i]]
      /\ \A i, j \in DOMAIN t : i < j => from[i] < from[j]
  BY <1>1
<1> QED BY <1>3, <1>4, Zenon DEF Thinned

LEMMA MiddleIsThinned ==
  ASSUME NEW S, NEW s \in Seq(S), NEW t \in Seq(S), t # <<>>
  PROVE  Thinned(s \o Tail(t), s \o t)
<1> DEFINE l == s \o Tail(t)
           r == s \o t
<1>1. /\ Tail(t) \in Seq(S) /\ Len(Tail(t)) = Len(t) - 1 /\ Len(t) \in Nat /\ Len(s) \in Nat
      /\ \A i \in 1 .. Len(Tail(t)) : Tail(t)[i] = t[i + 1]
  BY HeadTailProperties, LenProperties
<1>2. /\ l \in Seq(S) /\ Len(l) = Len(s) + Len(Tail(t))
      /\ \A i \in 1 .. Len(s) : l[i] = s[i]
      /\ \A i \in 1 .. Len(Tail(t)) : l[Len(s) + i] = Tail(t)[i]
  BY <1>1, ConcatProperties
<1>3. /\ r \in Seq(S) /\ Len(r) = Len(s) + Len(t)
      /\ \A i \in 1 .. Len(s) : r[i] = s[i]
      /\ \A i \in 1 .. Len(t) : r[Len(s) + i] = t[i]
  BY ConcatProperties
<1>4. DOMAIN l = 1 .. Len(s) + Len(Tail(t)) /\ DOMAIN r = 1 .. Len(s) + Len(t)
  BY <1>2, <1>3, LenProperties
<1> HIDE DEF l, r
<1> DEFINE from == [i \in DOMAIN l |-> IF i <= Len(s) THEN i ELSE i + 1]
<1>5. from \in [DOMAIN l -> DOMAIN r]
  BY <1>1, <1>4
<1>6. ASSUME NEW i \in DOMAIN l PROVE l[i] = r[from[i]]
  <2>1. CASE i <= Len(s)
    BY <1>2, <1>3, <1>4, <2>1
  <2>2. CASE i > Len(s)
    <3>1. PICK k \in 1 .. Len(Tail(t)) : i = Len(s) + k
      <4>1. i - Len(s) \in 1 .. Len(Tail(t)) /\ i = Len(s) + (i - Len(s))
        BY <1>1, <1>4, <2>2
      <4> QED BY <4>1
    <3>2. l[i] = t[k + 1] /\ k + 1 \in 1 .. Len(t)
      BY <1>1, <1>2, <3>1
    <3>3. from[i] = Len(s) + (k + 1)
      BY <1>1, <2>2, <3>1
    <3> QED BY <1>3, <3>2, <3>3
  <2> QED BY <1>1, <1>4, <2>1, <2>2
<1>7. \A i, j \in DOMAIN l : i < j => from[i] < from[j]
  BY <1>1, <1>4
<1> QED BY <1>5, <1>6, <1>7, Zenon DEF Thinned, l, r

LEMMA SameIsThinned ==
  ASSUME NEW S, NEW s \in Seq(S)
  PROVE  Thinned(s, s)
<1> DEFINE from == [i \in DOMAIN s |-> i]
<1>1. from \in [DOMAIN s -> DOMAIN s] /\ \A i \in DOMAIN s : s[i] = s[from[i]]
  OBVIOUS
<1>2. \A i, j \in DOMAIN s : i < j => from[i] < from[j]
  OBVIOUS
<1> QED BY <1>1, <1>2, Zenon DEF Thinned

\* Queues that get a frame.
LEMMA AppendedNone ==
  ASSUME NEW S, NEW s \in Seq(S), NEW f \in S, NEW kinds,
         None(s, kinds), f.kind \notin kinds
  PROVE  None(Append(s, f), kinds)
<1>1. /\ DOMAIN Append(s, f) = 1 .. Len(s) + 1 /\ Len(s) \in Nat /\ DOMAIN s = 1 .. Len(s)
      /\ \A i \in 1 .. Len(s) : Append(s, f)[i] = s[i]
      /\ Append(s, f)[Len(s) + 1] = f
  BY AppendProperties, LenProperties
<1>2. ASSUME NEW i \in DOMAIN Append(s, f) PROVE Append(s, f)[i].kind \notin kinds
  <2>1. CASE i = Len(s) + 1
    BY <1>1, <2>1, Zenon
  <2>2. CASE i # Len(s) + 1
    <3>1. i \in 1 .. Len(s)
      BY <1>1, <2>2
    <3> QED BY <1>1, <3>1, Zenon DEF None
  <2> QED BY <2>1, <2>2
<1> QED BY <1>2 DEF None

LEMMA AppendedNotBehind ==
  ASSUME NEW S, NEW s \in Seq(S), NEW f \in S, NEW kind, NEW kinds,
         NotBehind(s, kind, kinds), f.kind \notin kinds \/ None(s, {kind})
  PROVE  NotBehind(Append(s, f), kind, kinds)
<1>1. /\ DOMAIN Append(s, f) = 1 .. Len(s) + 1 /\ Len(s) \in Nat /\ DOMAIN s = 1 .. Len(s)
      /\ \A i \in 1 .. Len(s) : Append(s, f)[i] = s[i]
      /\ Append(s, f)[Len(s) + 1] = f
  BY AppendProperties, LenProperties
<1>2. ASSUME NEW i \in DOMAIN Append(s, f), NEW j \in DOMAIN Append(s, f), i < j,
             Append(s, f)[i].kind = kind
      PROVE  Append(s, f)[j].kind \notin kinds
  <2>1. i \in DOMAIN s /\ Append(s, f)[i] = s[i]
    BY <1>1, <1>2
  <2>2. CASE j = Len(s) + 1
    <3>1. ~None(s, {kind})
      BY <1>2, <2>1 DEF None
    <3> QED BY <1>1, <2>2, <3>1, Zenon
  <2>3. CASE j # Len(s) + 1
    <3>1. j \in DOMAIN s /\ Append(s, f)[j] = s[j]
      BY <1>1, <2>3
    <3> QED BY <1>2, <2>1, <3>1, Zenon DEF NotBehind
  <2> QED BY <2>2, <2>3
<1> QED BY <1>2 DEF NotBehind

\* The first frame and those behind it.
LEMMA FirstOfNone ==
  ASSUME NEW S, NEW s \in Seq(S), s # <<>>, NEW kinds, None(s, kinds)
  PROVE  Head(s).kind \notin kinds /\ None(Tail(s), kinds)
<1>1. 1 \in DOMAIN s /\ Head(s) = s[1]
  BY HeadTailProperties, LenProperties, EmptySeq
<1>2. None(Tail(s), kinds)
  BY TailIsThinned, ThinnedIsNone
<1> QED BY <1>1, <1>2 DEF None

LEMMA BehindFirst ==
  ASSUME NEW S, NEW s \in Seq(S), s # <<>>, NEW kinds, NotBehind(s, Head(s).kind, kinds)
  PROVE  None(Tail(s), kinds)
<1>1. /\ Tail(s) \in Seq(S) /\ Len(Tail(s)) = Len(s) - 1 /\ Len(s) \in Nat
      /\ \A i \in 1 .. Len(Tail(s)) : Tail(s)[i] = s[i + 1]
  BY HeadTailProperties, LenProperties
<1>2. DOMAIN Tail(s) = 1 .. Len(Tail(s)) /\ DOMAIN s = 1 .. Len(s) /\ Head(s) = s[1]
      /\ 1 \in DOMAIN s
  BY <1>1, LenProperties, HeadTailProperties, EmptySeq
<1>3. ASSUME NEW i \in DOMAIN Tail(s) PROVE Tail(s)[i].kind \notin kinds
  <2>1. i + 1 \in DOMAIN s /\ 1 < i + 1 /\ Tail(s)[i] = s[i + 1]
    BY <1>1, <1>2
  <2>2. s[1].kind = Head(s).kind
    BY <1>2
  <2> QED BY <1>2, <2>1, <2>2, Zenon DEF NotBehind
<1> QED BY <1>3 DEF None

LEMMA NoneInEmpty ==
  ASSUME NEW s, s = <<>>, NEW kinds, NEW kind
  PROVE  None(s, kinds) /\ NotBehind(s, kind, kinds)
<1>1. DOMAIN s = {}
  BY SMT
<1> QED BY <1>1, Zenon DEF None, NotBehind

LEMMA LateTypes ==
  ASSUME TypeOK
  PROVE  /\ toServer \in Seq(Frames) /\ InFlight \in Seq(Responses)
         /\ responses \in Seq(Responses) /\ toClient \in Seq(Responses)
         /\ Len(toServer) \in Nat /\ Len(InFlight) \in Nat
<1>1. /\ toServer \in Seq(Frames) /\ responses \in Seq(Responses)
      /\ toClient \in Seq(Responses)
  BY DEF TypeOK, BusTypeOK, ClientTypeOK, Frames
<1>2. InFlight \in Seq(Responses)
  BY <1>1, ConcatProperties DEF InFlight
<1> QED BY <1>1, <1>2, LenProperties

\* What the steps do to the answers that are under way.
LEMMA AnswersFlushed ==
  ASSUME TypeOK, toClient' = toClient, responses' \in {<<>>, responses}
  PROVE  Thinned(InFlight', InFlight)
<1>1. responses \in Seq(Responses) /\ toClient \in Seq(Responses) /\ InFlight \in Seq(Responses)
  BY LateTypes
<1>2. CASE responses' = <<>>
  <2>1. <<>> \o toClient = toClient
    BY <1>1, ConcatEmptySeq
  <2>2. InFlight' = toClient
    BY <1>2, <2>1, Zenon DEF InFlight
  <2> QED BY <1>1, <2>2, BackIsThinned, Zenon DEF InFlight
<1>3. CASE responses' = responses
  <2>1. InFlight' = InFlight
    BY <1>3, Zenon DEF InFlight
  <2> QED BY <1>1, <2>1, SameIsThinned, Zenon
<1> QED BY <1>2, <1>3

LEMMA AnswerIsTaken ==
  ASSUME TypeOK, responses # <<>>, responses' = Tail(responses), toClient' = toClient
  PROVE  /\ InFlight # <<>> /\ InFlight' = Tail(InFlight) /\ Head(InFlight) = Response
         /\ Thinned(InFlight', InFlight) /\ Response \in Responses
         /\ Len(InFlight') + 1 = Len(InFlight)
<1>1. responses \in Seq(Responses) /\ toClient \in Seq(Responses) /\ InFlight \in Seq(Responses)
  BY LateTypes
<1>2. PICK r \in Seq(Responses), c \in Seq(Responses) : r = responses /\ c = toClient
  BY <1>1
<1>3. r \o c # <<>> /\ Tail(r) \o c = Tail(r \o c) /\ Head(r \o c) = Head(r)
  <2>1. r # <<>>
    BY <1>2
  <2>2. r = <<Head(r)>> \o Tail(r) /\ Tail(r) \in Seq(Responses) /\ Head(r) \in Responses
    BY <1>2, <2>1
  <2>3. /\ Len(r \o c) = Len(r) + Len(c) /\ r \o c \in Seq(Responses) /\ Len(r) \in Nat \ {0}
        /\ Len(c) \in Nat
        /\ \A i \in 1 .. Len(r) : (r \o c)[i] = r[i]
        /\ \A i \in 1 .. Len(c) : (r \o c)[Len(r) + i] = c[i]
    BY <2>1
  <2>4. /\ Len(Tail(r)) = Len(r) - 1
        /\ \A i \in 1 .. Len(r) - 1 : Tail(r)[i] = r[i + 1]
    BY <2>1, <1>2
  <2>5. /\ Len(Tail(r) \o c) = Len(Tail(r)) + Len(c) /\ Tail(r) \o c \in Seq(Responses)
        /\ \A i \in 1 .. Len(Tail(r)) : (Tail(r) \o c)[i] = Tail(r)[i]
        /\ \A i \in 1 .. Len(c) : (Tail(r) \o c)[Len(Tail(r)) + i] = c[i]
    BY <2>2
  <2>6. r \o c # <<>> /\ Head(r \o c) = Head(r)
    BY <2>1, <2>3
  <2>7. /\ Len(Tail(r \o c)) = Len(r \o c) - 1 /\ Tail(r \o c) \in Seq(Responses)
        /\ \A i \in 1 .. Len(r \o c) - 1 : Tail(r \o c)[i] = (r \o c)[i + 1]
    BY <2>3, <2>6
  <2>8. Len(Tail(r) \o c) = Len(Tail(r \o c))
    BY <2>3, <2>4, <2>5, <2>7
  <2>9. ASSUME NEW i \in 1 .. Len(Tail(r \o c)) PROVE (Tail(r) \o c)[i] = Tail(r \o c)[i]
    <3>1. CASE i <= Len(Tail(r))
      BY <2>3, <2>4, <2>5, <2>7, <3>1
    <3>2. CASE i > Len(Tail(r))
      <4>1. PICK k \in 1 .. Len(c) : i = Len(Tail(r)) + k
        <5>1. i - Len(Tail(r)) \in 1 .. Len(c) /\ i = Len(Tail(r)) + (i - Len(Tail(r)))
          BY <2>3, <2>4, <2>7, <3>2
        <5> QED BY <5>1
      <4>2. (Tail(r) \o c)[i] = c[k]
        BY <2>5, <4>1
      <4>3. Tail(r \o c)[i] = (r \o c)[i + 1] /\ i + 1 = Len(r) + k
        BY <2>3, <2>4, <2>7, <4>1
      <4> QED BY <2>3, <4>2, <4>3
    <3> QED BY <2>3, <2>4, <2>7, <3>1, <3>2
  <2> QED BY <2>5, <2>6, <2>7, <2>8, <2>9, SeqEqual
<1>4. InFlight = r \o c /\ InFlight' = Tail(r) \o c /\ Response = Head(r)
  BY <1>2, Zenon DEF InFlight, Response
<1>5. InFlight # <<>> /\ InFlight' = Tail(InFlight) /\ Head(InFlight) = Response
  BY <1>3, <1>4, Zenon
<1>6. Response \in Responses
  BY <1>1 DEF Response
<1>7. Len(Tail(InFlight)) + 1 = Len(InFlight)
  BY <1>1, <1>5, HeadTailProperties, LenProperties
<1> QED BY <1>1, <1>5, <1>6, <1>7, TailIsThinned, Zenon

LEMMA AnswerIsLost ==
  ASSUME TypeOK, toClient # <<>>, toClient' = Tail(toClient), responses' = responses
  PROVE  Thinned(InFlight', InFlight) /\ Len(InFlight') <= Len(InFlight)
<1>1. responses \in Seq(Responses) /\ toClient \in Seq(Responses)
  BY LateTypes
<1>2. Thinned(responses \o Tail(toClient), responses \o toClient)
  BY <1>1, MiddleIsThinned
<1>3. Len(responses \o Tail(toClient)) <= Len(responses \o toClient)
  <2>1. Tail(toClient) \in Seq(Responses) /\ Len(Tail(toClient)) <= Len(toClient)
        /\ Len(Tail(toClient)) \in Nat /\ Len(toClient) \in Nat /\ Len(responses) \in Nat
    BY <1>1, HeadTailProperties, LenProperties
  <2>2. /\ Len(responses \o Tail(toClient)) = Len(responses) + Len(Tail(toClient))
        /\ Len(responses \o toClient) = Len(responses) + Len(toClient)
    BY <1>1, <2>1, ConcatProperties
  <2> QED BY <2>1, <2>2
<1>4. InFlight' = responses \o Tail(toClient)
  BY Zenon DEF InFlight
<1> QED BY <1>2, <1>3, <1>4, Zenon DEF InFlight

LEMMA AnswerIsDelivered ==
  ASSUME TypeOK, OnResponse
  PROVE  InFlight' = InFlight
<1>1. responses \in Seq(Responses) /\ toClient \in Seq(Responses) /\ toClient # <<>>
  BY LateTypes DEF OnResponse
<1>2. toClient = <<Head(toClient)>> \o Tail(toClient) /\ Head(toClient) \in Responses
      /\ Tail(toClient) \in Seq(Responses)
  BY <1>1
<1>3. Append(responses, Head(toClient)) = responses \o <<Head(toClient)>>
  BY <1>1, <1>2, AppendIsConcat
<1>4. (responses \o <<Head(toClient)>>) \o Tail(toClient)
        = responses \o (<<Head(toClient)>> \o Tail(toClient))
  <2>1. <<Head(toClient)>> \in Seq(Responses)
    BY <1>2
  <2> QED BY <1>1, <1>2, <2>1, ConcatAssociative
<1>5. responses' = Append(responses, Head(toClient)) /\ toClient' = Tail(toClient)
  BY DEF OnResponse
<1> QED BY <1>2, <1>3, <1>4, <1>5, Zenon DEF InFlight

\* The server may answer with f.
Answers(f) == InFlight' = InFlight \/ InFlight' = Append(InFlight, f)

LEMMA AnswerIsSent ==
  ASSUME TypeOK, responses' = responses, NEW f \in Responses, toClient' = Append(toClient, f)
  PROVE  Answers(f)
<1>1. responses \in Seq(Responses) /\ toClient \in Seq(Responses)
  BY LateTypes
<1>2. responses \o Append(toClient, f) = Append(responses \o toClient, f)
  <2>1. /\ Append(toClient, f) = toClient \o <<f>>
        /\ Append(responses \o toClient, f) = (responses \o toClient) \o <<f>>
    BY <1>1, AppendIsConcat, ConcatProperties
  <2>2. <<f>> \in Seq(Responses)
    OBVIOUS
  <2> QED BY <1>1, <2>1, <2>2, ConcatAssociative
<1> QED BY <1>2, Zenon DEF Answers, InFlight

LEMMA SendAnswers ==
  ASSUME TypeOK, responses' = responses, NEW o, NEW f \in Responses, SendResponse(o, f)
  PROVE  \E r \in {f, RspAbort} : r \in Responses /\ Answers(r)
<1>1. RspAbort \in Responses
  BY DEF Responses, RspAbort
<1>2. toClient' \in {toClient, Append(toClient, f), Append(toClient, RspAbort)}
  BY DEF SendResponse
<1>3. CASE toClient' = toClient
  BY <1>1, <1>3, Zenon DEF Answers, InFlight
<1>4. CASE toClient' = Append(toClient, f)
  BY <1>4, AnswerIsSent, Zenon
<1>5. CASE toClient' = Append(toClient, RspAbort)
  BY <1>1, <1>5, AnswerIsSent, Zenon
<1> QED BY <1>2, <1>3, <1>4, <1>5

LEMMA AbortAnswers ==
  ASSUME TypeOK, responses' = responses, NEW o, AbortTransfer(o)
  PROVE  RspAbort \in Responses /\ RspAbort.kind = "abort" /\ Answers(RspAbort)
<1>1. RspAbort \in Responses /\ RspAbort.kind = "abort"
  BY DEF Responses, RspAbort
<1>2. toClient' \in {toClient, Append(toClient, RspAbort)}
  BY DEF AbortTransfer
<1> QED BY <1>1, <1>2, AnswerIsSent, Zenon DEF Answers, InFlight

-----------------------------------------------------------------------------
\* What the server does with the first frame, by its kind.

LEMMA InitUploadIsServed ==
  ASSUME TypeOK, HoldsStarts, OnRequest, responses' = responses,
         Head(toServer).kind = "init_upload"
  PROVE  /\ store' = store
         /\ \E f \in Responses :
              /\ Answers(f)
              /\ f.kind \in {"abort", "exp_upload", "init_upload"}
              /\ f.kind = "exp_upload" => StartOfValue(f.data)
              /\ \/ f.kind # "init_upload" /\ srvBuffer' = srvBuffer /\ srvToggle' = srvToggle
                 \/ HasBuffer' /\ StartOfValue(srvBuffer') /\ srvToggle' = 0
<1> DEFINE o == Head(toServer).obj
<1>1. toServer # <<>> /\ o \in Objects
  <2>1. toServer # <<>>
    BY DEF OnRequest, InitUploadExpedited, InitUploadSegmented, InitUploadRefused,
       SegmentedUpload, InitDownloadExpedited, InitDownloadSegmented, SegmentedDownload,
       SegmentedDownloadRefused, SegmentRefused, RequestAborted, Request
  <2>2. Head(toServer) \in Requests \cup AbortRequests
    BY <2>1 DEF TypeOK, BusTypeOK
  <2> QED BY <2>1, <2>2 DEF Requests, AbortRequests
<1>2. Available(o) => store[o] \in Data /\ StartOfValue(store[o])
  BY <1>1, DictionaryAssumption DEF Available, TypeOK, ServerTypeOK, HoldsStarts
<1> HIDE DEF o
<1>3. CASE InitUploadExpedited
  <2>1. /\ Available(o) /\ SendResponse(o, RspExpUpload(o, store[o]))
        /\ UNCHANGED <<store, srvBuffer, srvToggle>>
    BY <1>3 DEF InitUploadExpedited, o
  <2>2. RspExpUpload(o, store[o]) \in Responses
    BY <1>1, <1>2, <2>1 DEF RspExpUpload, Responses
  <2>3. \E r \in {RspExpUpload(o, store[o]), RspAbort} : r \in Responses /\ Answers(r)
    BY <2>1, <2>2, SendAnswers, Zenon
  <2>4. \A r \in {RspExpUpload(o, store[o]), RspAbort} :
          /\ r.kind \in {"abort", "exp_upload"}
          /\ r.kind = "exp_upload" => StartOfValue(r.data)
    BY <1>2, <2>1 DEF RspExpUpload, RspAbort
  <2> QED BY <2>1, <2>3, <2>4
<1>4. CASE InitUploadSegmented
  <2>1. /\ Available(o) /\ SendResponse(o, RspInitUpload(o, Len(store[o])))
        /\ store' = store /\ srvBuffer' = store[o] /\ srvToggle' = 0
    BY <1>4 DEF InitUploadSegmented, o
  <2>2. RspInitUpload(o, Len(store[o])) \in Responses
    BY <1>1, <1>2, <2>1, LenProperties DEF RspInitUpload, Responses, Data
  <2>3. \E r \in {RspInitUpload(o, Len(store[o])), RspAbort} : r \in Responses /\ Answers(r)
    BY <2>1, <2>2, SendAnswers, Zenon
  <2>4. \A r \in {RspInitUpload(o, Len(store[o])), RspAbort} :
          r.kind \in {"abort", "init_upload"}
    BY DEF RspInitUpload, RspAbort
  <2>5. HasBuffer' /\ StartOfValue(srvBuffer')
    BY <1>2, <2>1, ValueAssumption DEF HasBuffer
  <2> QED BY <2>1, <2>3, <2>4, <2>5
<1>5. CASE InitUploadRefused
  <2>1. AbortTransfer(o) /\ UNCHANGED <<store, srvBuffer, srvToggle>>
    BY <1>5 DEF InitUploadRefused, o
  <2> QED BY <2>1, AbortAnswers
<1> QED
  BY <1>3, <1>4, <1>5
     DEF OnRequest, SegmentedUpload, InitDownloadExpedited, InitDownloadSegmented,
     SegmentedDownload, SegmentedDownloadRefused, SegmentRefused, RequestAborted, Request

\* A segment is taken from the buffer, or nothing changes.
LEMMA SegUploadIsServed ==
  ASSUME TypeOK, OnRequest, responses' = responses, Head(toServer).kind = "seg_upload"
  PROVE  /\ store' = store
         /\ \E f \in Responses :
              /\ Answers(f)
              /\ f.kind \in {"abort", "seg_upload"}
              /\ \/ f.kind = "abort" /\ srvBuffer' = srvBuffer /\ srvToggle' = srvToggle
                 \/ /\ HasBuffer /\ HasBuffer' /\ srvToggle' = Flip(srvToggle)
                    /\ Head(toServer).toggle = srvToggle
                    /\ f.kind = "seg_upload" =>
                         \A read \in Data : (read \o f.data) \o srvBuffer' = read \o srvBuffer
<1>1. CASE SegmentedUpload
  <2> DEFINE n == IF Len(srvBuffer) < SegLen THEN Len(srvBuffer) ELSE SegLen
             rest == SubSeq(srvBuffer, n + 1, Len(srvBuffer))
             sent == SubSeq(srvBuffer, 1, n)
             f == RspSegUpload(srvToggle, sent, rest = <<>>)
  <2>1. /\ Head(toServer).toggle = srvToggle /\ srvBuffer # NoBuffer /\ store' = store
        /\ srvBuffer' = rest /\ srvToggle' = Flip(srvToggle)
        /\ SendResponse(srvIndex, f)
    BY <1>1 DEF SegmentedUpload
  <2>2. srvBuffer \in Data /\ srvToggle \in Bit
    BY <2>1 DEF TypeOK, ServerTypeOK
  <2>3. n \in 0..Len(srvBuffer)
    <3>1. Len(srvBuffer) \in Nat
      BY <2>2, LenProperties DEF Data
    <3> QED BY <3>1, LengthAssumption
  <2> HIDE DEF n
  <2>4. \A read \in Data : (read \o sent) \o rest = read \o srvBuffer
    BY <2>2, <2>3, SegmentTaken
  <2>5. sent \in Data /\ rest \in Data
    <3>1. <<>> \in Data
      BY DEF Data
    <3> QED BY <2>2, <2>3, <3>1, SegmentTaken
  <2> HIDE DEF rest, sent
  <2>6. f \in Responses
    BY <2>2, <2>5 DEF RspSegUpload, Responses
  <2>7. HasBuffer /\ HasBuffer'
    BY <2>1, <2>5, ValueAssumption DEF HasBuffer
  <2>8. f.kind = "seg_upload" /\ f.data = sent
    BY DEF RspSegUpload
  <2>9. RspAbort.kind = "abort"
    BY DEF RspAbort
  <2> HIDE DEF f
  <2>10. \A read \in Data : (read \o f.data) \o srvBuffer' = read \o srvBuffer
    BY <2>1, <2>4, <2>8, Zenon
  <2>11. \E r \in {f, RspAbort} : r \in Responses /\ Answers(r)
    BY <2>1, <2>6, SendAnswers, Zenon
  <2>12. CASE Answers(f)
    BY <2>1, <2>6, <2>7, <2>8, <2>10, <2>12, Zenon
  <2>13. CASE RspAbort \in Responses /\ Answers(RspAbort)
    <3>1. RspAbort.kind # "seg_upload" /\ RspAbort.kind \in {"abort", "seg_upload"}
      BY <2>9
    <3> QED BY <2>1, <2>7, <2>13, <3>1, Zenon
  <2> QED BY <2>11, <2>12, <2>13
<1>2. CASE SegmentRefused
  <2>1. AbortTransfer(srvIndex) /\ UNCHANGED <<store, srvBuffer, srvToggle>>
    BY <1>2 DEF SegmentRefused, srvVars
  <2> QED BY <2>1, AbortAnswers
<1> QED
  BY <1>1, <1>2
     DEF OnRequest, InitUploadExpedited, InitUploadSegmented, InitUploadRefused,
     InitDownloadExpedited, InitDownloadSegmented, SegmentedDownload,
     SegmentedDownloadRefused, RequestAborted, Request

LEMMA AbortIsServed ==
  ASSUME TypeOK, OnRequest, responses' = responses,
         Head(toServer).kind \notin UploadKinds \cup DownloadKinds
  PROVE  store' = store /\ srvBuffer' = srvBuffer /\ srvToggle' = srvToggle /\ InFlight' = InFlight
<1>1. RequestAborted
  BY DEF OnRequest, InitUploadExpedited, InitUploadSegmented, InitUploadRefused,
     SegmentedUpload, InitDownloadExpedited, InitDownloadSegmented, SegmentedDownload,
     SegmentedDownloadRefused, SegmentRefused, Request, UploadKinds, DownloadKinds
<1> QED BY <1>1 DEF RequestAborted, InFlight

LEMMA RequestIsTaken ==
  ASSUME TypeOK, OnRequest
  PROVE  /\ toServer # <<>> /\ toServer' = Tail(toServer) /\ Head(toServer) \in Frames
         /\ Thinned(toServer', toServer)
<1>1. toServer # <<>> /\ toServer' = Tail(toServer) /\ toServer \in Seq(Frames)
  BY LateTypes DEF OnRequest, InitUploadExpedited, InitUploadSegmented, InitUploadRefused,
     SegmentedUpload, InitDownloadExpedited, InitDownloadSegmented, SegmentedDownload,
     SegmentedDownloadRefused, SegmentRefused, RequestAborted, Request
<1>2. Head(toServer) \in Frames
  BY <1>1
<1> QED BY <1>1, <1>2, TailIsThinned, Zenon

\* What a segment adds to the buffer.
LEMMA SegmentFits ==
  ASSUME TypeOK, RequestsInv, toServer # <<>>, Head(toServer).kind = "seg_download", HasBuffer
  PROVE  StartOfValue(srvBuffer \o Head(toServer).data) /\ srvBuffer \o Head(toServer).data \in Data
<1> DEFINE f == Head(toServer)
<1>1. toServer \in Seq(Frames) /\ 1 \in DOMAIN toServer /\ f = toServer[1]
  BY LateTypes, HeadTailProperties, LenProperties, EmptySeq
<1>2. srvBuffer \in Data /\ f.data \in Data
  <2>1. f \in Requests \cup AbortRequests
    BY <1>1 DEF Frames
  <2> QED BY <2>1 DEF HasBuffer, TypeOK, ServerTypeOK, Requests, AbortRequests
<1>3. ~None(toServer, DownloadKinds)
  BY <1>1 DEF None, DownloadKinds
<1> HIDE DEF f
<1>4. CASE f.data = <<>>
  <2>1. srvBuffer \o f.data = srvBuffer
    BY <1>2, <1>4, ConcatEmptySeq, Zenon DEF Data
  <2> QED BY <1>2, <1>3, <2>1, Zenon DEF RequestsInv, BufferStarts, f
<1>5. CASE f.data # <<>>
  <2>1. StartOfValue(srvBuffer \o f.data)
    BY <1>1, <1>5, Zenon DEF RequestsInv, f
  <2>2. srvBuffer \o f.data \in Data
    BY <1>2 DEF Data
  <2> QED BY <2>1, <2>2 DEF f
<1> QED BY <1>4, <1>5

LEMMA DownloadIsServed ==
  ASSUME TypeOK, HoldsStarts, RequestsInv, OnRequest, responses' = responses,
         Head(toServer).kind \in DownloadKinds
  PROVE  /\ HoldsStarts' /\ BufferStarts'
         /\ \E f \in Responses :
              /\ Answers(f)
              /\ f.kind \in {"abort", "download", "seg_download"}
              /\ f.kind = "download" /\ Head(toServer).kind = "init_download" =>
                   srvBuffer' = <<>> /\ srvToggle' = 0
              /\ f.kind = "seg_download" =>
                   /\ Head(toServer).kind = "seg_download" /\ Head(toServer).toggle = srvToggle
                   /\ srvBuffer' = srvBuffer \o Head(toServer).data
                   /\ srvToggle' = Flip(srvToggle)
<1>1. /\ toServer # <<>> /\ toServer \in Seq(Frames) /\ Head(toServer) \in Frames
      /\ Head(toServer) = toServer[1] /\ 1 \in DOMAIN toServer
  BY RequestIsTaken, LateTypes, HeadTailProperties, LenProperties, EmptySeq
<1>2. BufferStarts /\ StartOfValue(<<>>)
  <2>1. ~None(toServer, DownloadKinds)
    BY <1>1 DEF None
  <2> QED BY <2>1 DEF RequestsInv
<1>3. store \in [Dictionary -> Data \cup {NoValue}] /\ srvToggle \in Bit
  BY DEF TypeOK, ServerTypeOK
<1>4. RspAbort.kind = "abort"
  BY DEF RspAbort
<1>5. Head(toServer).kind = "init_download" => Head(toServer).obj \in Objects
  BY <1>1 DEF Frames, Requests, AbortRequests
<1>6. Head(toServer).kind = "exp_download" =>
        /\ Head(toServer).obj \in Objects /\ StartOfValue(Head(toServer).data)
  <2>1. Head(toServer).kind = "exp_download" => Head(toServer).data \in GivenValues
    BY <1>1, Zenon DEF RequestsInv
  <2> QED BY <1>1, <2>1, WholeIsStart DEF Frames, Requests, AbortRequests
<1>7. CASE InitDownloadExpedited
  <2> DEFINE o == Head(toServer).obj
             v == Head(toServer).data
  <2>1. Head(toServer).kind = "exp_download" /\ UNCHANGED <<srvBuffer, srvToggle>>
    BY <1>7 DEF InitDownloadExpedited, Request
  <2>2. BufferStarts'
    BY <1>2, <2>1, Zenon DEF BufferStarts, HasBuffer, StartOfValue
  <2>3. CASE store' = [store EXCEPT ![o] = v] /\ SendResponse(o, RspDownload(o))
    <3>1. HoldsStarts'
      BY <1>3, <1>6, <2>1, <2>3, StoreKeepsStarts
    <3>2. RspDownload(o) \in Responses /\ RspDownload(o).kind = "download"
      BY <1>6, <2>1 DEF RspDownload, Responses
    <3>3. \E r \in {RspDownload(o), RspAbort} : r \in Responses /\ Answers(r)
      BY <2>3, <3>2, SendAnswers, Zenon
    <3> QED BY <1>4, <2>1, <2>2, <3>1, <3>2, <3>3
  <2>4. CASE store' = store /\ AbortTransfer(o)
    BY <2>1, <2>2, <2>4, AbortAnswers, StoreUnchanged
  <2> QED BY <1>7, <2>3, <2>4 DEF InitDownloadExpedited
<1>8. CASE InitDownloadSegmented
  <2> DEFINE o == Head(toServer).obj
  <2>1. /\ Head(toServer).kind = "init_download" /\ store' = store
        /\ srvBuffer' = <<>> /\ srvToggle' = 0 /\ SendResponse(o, RspDownload(o))
    BY <1>8 DEF InitDownloadSegmented, Request
  <2>2. HoldsStarts'
    BY <2>1, StoreUnchanged
  <2>3. BufferStarts'
    BY <1>2, <2>1, Zenon DEF BufferStarts, StartOfValue
  <2>4. RspDownload(o) \in Responses /\ RspDownload(o).kind = "download"
    BY <1>5, <2>1 DEF RspDownload, Responses
  <2>5. \E r \in {RspDownload(o), RspAbort} : r \in Responses /\ Answers(r)
    BY <2>1, <2>4, SendAnswers, Zenon
  <2> QED BY <1>4, <2>1, <2>2, <2>3, <2>4, <2>5
<1>9. CASE SegmentedDownload
  <2> DEFINE f == Head(toServer)
             r == RspSegDownload(srvToggle)
  <2>1. /\ f.kind = "seg_download" /\ f.toggle = srvToggle /\ srvBuffer # NoBuffer
        /\ srvBuffer' = srvBuffer \o f.data /\ srvToggle' = Flip(srvToggle)
        /\ store' = IF f.last THEN [store EXCEPT ![srvIndex] = srvBuffer'] ELSE store
        /\ SendResponse(srvIndex, r)
    BY <1>9 DEF SegmentedDownload, Request
  <2>2. StartOfValue(srvBuffer')
    <3>1. HasBuffer
      BY <2>1 DEF HasBuffer
    <3>2. StartOfValue(srvBuffer \o f.data)
      BY <1>1, <2>1, <3>1, SegmentFits
    <3> QED BY <2>1, <3>2, Zenon
  <2>3. HoldsStarts'
    <3>1. CASE f.last
      <4>1. store' = [store EXCEPT ![srvIndex] = srvBuffer']
        BY <2>1, <3>1
      <4> QED BY <1>3, <2>2, <4>1, StoreKeepsStarts
    <3>2. CASE ~f.last
      BY <2>1, <3>2, StoreUnchanged
    <3> QED BY <3>1, <3>2
  <2>4. BufferStarts'
    BY <2>2, Zenon DEF BufferStarts, StartOfValue
  <2>5. r \in Responses /\ r.kind = "seg_download"
    BY <1>3 DEF RspSegDownload, Responses
  <2> HIDE DEF r
  <2>6. \E q \in {r, RspAbort} : q \in Responses /\ Answers(q)
    BY <2>1, <2>5, SendAnswers, Zenon
  <2> QED BY <1>4, <2>1, <2>3, <2>4, <2>5, <2>6
<1>10. CASE SegmentedDownloadRefused
  <2>1. /\ Head(toServer).kind = "seg_download" /\ srvBuffer # NoBuffer
        /\ srvBuffer' = srvBuffer \o Head(toServer).data
        /\ store' = store /\ AbortTransfer(srvIndex)
    BY <1>10 DEF SegmentedDownloadRefused, Request
  <2>2. StartOfValue(srvBuffer \o Head(toServer).data)
    BY <1>1, <2>1, SegmentFits DEF HasBuffer
  <2>3. BufferStarts'
    BY <2>1, <2>2, Zenon DEF BufferStarts, StartOfValue
  <2> QED BY <2>1, <2>3, AbortAnswers, StoreUnchanged
<1>11. CASE SegmentRefused
  <2>1. UNCHANGED <<store, srvBuffer, srvToggle>> /\ AbortTransfer(srvIndex)
    BY <1>11 DEF SegmentRefused, srvVars
  <2>2. BufferStarts'
    BY <1>2, <2>1, Zenon DEF BufferStarts, HasBuffer, StartOfValue
  <2> QED BY <2>1, <2>2, AbortAnswers, StoreUnchanged
<1> QED
  BY <1>7, <1>8, <1>9, <1>10, <1>11
     DEF OnRequest, InitUploadExpedited, InitUploadSegmented, InitUploadRefused,
     SegmentedUpload, RequestAborted, Request, DownloadKinds

\* The server has handled the first frame; f is its answer, if it could be sent.
Untouched == srvBuffer' = srvBuffer /\ srvToggle' = srvToggle
StartsAnew == HasBuffer' /\ StartOfValue(srvBuffer') /\ srvToggle' = 0
TakesSegment(f) ==
  /\ HasBuffer' /\ srvToggle' = Flip(srvToggle)
  /\ \A read \in Data : (read \o f.data) \o srvBuffer' = read \o srvBuffer
AddsSegment(r) ==
  /\ r.toggle = srvToggle /\ srvToggle' = Flip(srvToggle)
  /\ srvBuffer' = srvBuffer \o r.data

ServedBy(f) ==
  LET r == Head(toServer) IN
  /\ f \in Responses /\ Answers(f)
  /\ f.kind = "exp_upload" => StartOfValue(f.data)
  /\ f.kind = "init_upload" => r.kind = "init_upload" /\ StartsAnew
  /\ f.kind = "seg_upload" => r.kind = "seg_upload" /\ TakesSegment(f)
  /\ f.kind = "download" /\ r.kind = "init_download" => srvBuffer' = <<>> /\ srvToggle' = 0
  /\ f.kind = "seg_download" => r.kind = "seg_download" /\ AddsSegment(r)
  /\ r.kind = "init_upload" => Untouched \/ StartsAnew
  /\ r.kind \in DownloadKinds => BufferStarts'
  /\ r.kind \notin UploadKinds \cup DownloadKinds => Untouched /\ InFlight' = InFlight

LEMMA FrameIsServed ==
  ASSUME TypeOK, HoldsStarts, RequestsInv, OnRequest, responses' = responses
  PROVE  HoldsStarts' /\ \E f : ServedBy(f)
<1> DEFINE k == Head(toServer).kind
<1>1. CASE k = "init_upload"
  <2>1. PICK f \in Responses :
          /\ store' = store /\ Answers(f)
          /\ f.kind \in {"abort", "exp_upload", "init_upload"}
          /\ f.kind = "exp_upload" => StartOfValue(f.data)
          /\ \/ f.kind # "init_upload" /\ srvBuffer' = srvBuffer /\ srvToggle' = srvToggle
             \/ HasBuffer' /\ StartOfValue(srvBuffer') /\ srvToggle' = 0
    BY <1>1, InitUploadIsServed
  <2>2. ServedBy(f)
    BY <1>1, <2>1 DEF ServedBy, Untouched, StartsAnew, UploadKinds, DownloadKinds
  <2> QED BY <2>1, <2>2, StoreUnchanged
<1>2. CASE k = "seg_upload"
  <2>1. PICK f \in Responses :
          /\ store' = store /\ Answers(f)
          /\ f.kind \in {"abort", "seg_upload"}
          /\ f.kind = "seg_upload" =>
               /\ HasBuffer' /\ srvToggle' = Flip(srvToggle)
               /\ \A read \in Data : (read \o f.data) \o srvBuffer' = read \o srvBuffer
    <3>1. "abort" # "seg_upload"
      OBVIOUS
    <3> QED BY <1>2, <3>1, SegUploadIsServed, Zenon
  <2>2. ServedBy(f)
    BY <1>2, <2>1 DEF ServedBy, TakesSegment, UploadKinds, DownloadKinds
  <2> QED BY <2>1, <2>2, StoreUnchanged
<1>3. CASE k \in DownloadKinds
  <2>1. PICK f \in Responses :
          /\ HoldsStarts' /\ BufferStarts' /\ Answers(f)
          /\ f.kind \in {"abort", "download", "seg_download"}
          /\ f.kind = "download" /\ k = "init_download" => srvBuffer' = <<>> /\ srvToggle' = 0
          /\ f.kind = "seg_download" => k = "seg_download" /\ AddsSegment(Head(toServer))
    BY <1>3, DownloadIsServed, Zenon DEF AddsSegment
  <2>2. ServedBy(f)
    BY <1>3, <2>1 DEF ServedBy, UploadKinds, DownloadKinds
  <2> QED BY <2>1, <2>2
<1>4. CASE k \notin UploadKinds \cup DownloadKinds
  <2>1. store' = store /\ Untouched /\ InFlight' = InFlight
    BY <1>4, AbortIsServed DEF Untouched
  <2>2. RspAbort \in Responses /\ RspAbort.kind = "abort"
    BY DEF RspAbort, Responses
  <2>3. Answers(RspAbort)
    BY <2>1, Zenon DEF Answers
  <2>4. ServedBy(RspAbort)
    BY <1>4, <2>1, <2>2, <2>3 DEF ServedBy, UploadKinds
  <2> QED BY <2>1, <2>4, StoreUnchanged
<1> QED BY <1>1, <1>2, <1>3, <1>4 DEF UploadKinds

-----------------------------------------------------------------------------
\* A step of the server.
ServerAnswersLate ==
  /\ TypeOK /\ OnRequest /\ UNCHANGED clientVars /\ callsLeft' = callsLeft

LEMMA AnswersFacts ==
  ASSUME ServerAnswersLate
  PROVE  /\ TypeOK /\ OnRequest /\ responses' = responses /\ pc' = pc /\ call' = call
         /\ stream' = stream /\ request' = request /\ result' = result /\ outcome' = outcome
         /\ (First <=> First') /\ (Uploading <=> Uploading') /\ (Opens <=> Opens')
         /\ (ReadsOn <=> ReadsOn') /\ (Writing <=> Writing')
BY Zenon DEF ServerAnswersLate, clientVars, First, Uploading, Opens, ReadsOn, Pending, Writing

\* The answers after the step: those before it, or f behind them.
LEMMA WithAnswer ==
  ASSUME TypeOK, NEW f \in Responses, Answers(f)
  PROVE  /\ \A i \in DOMAIN InFlight' :
              InFlight'[i] = f \/ \E j \in DOMAIN InFlight : InFlight'[i] = InFlight[j]
         /\ \A kinds : None(InFlight, kinds) /\ f.kind \notin kinds => None(InFlight', kinds)
         /\ \A kind, kinds :
              /\ NotBehind(InFlight, kind, kinds)
              /\ f.kind \notin kinds \/ None(InFlight, {kind})
              => NotBehind(InFlight', kind, kinds)
         /\ Len(InFlight') <= Len(InFlight) + 1
<1>1. InFlight \in Seq(Responses) /\ Len(InFlight) \in Nat /\ DOMAIN InFlight = 1 .. Len(InFlight)
  BY LateTypes, LenProperties
<1>2. CASE InFlight' = InFlight
  <2>1. Len(InFlight) <= Len(InFlight) + 1
    BY <1>1
  <2> QED BY <1>2, <2>1, Zenon
<1>3. CASE InFlight' = Append(InFlight, f)
  <2>1. \A kinds : None(InFlight, kinds) /\ f.kind \notin kinds => None(InFlight', kinds)
    BY <1>1, <1>3, AppendedNone, Zenon
  <2>2. \A kind, kinds :
              /\ NotBehind(InFlight, kind, kinds)
              /\ f.kind \notin kinds \/ None(InFlight, {kind})
              => NotBehind(InFlight', kind, kinds)
    BY <1>1, <1>3, AppendedNotBehind, Zenon
  <2> DEFINE q == Append(InFlight, f)
  <2>3. /\ Len(q) = Len(InFlight) + 1 /\ q[Len(InFlight) + 1] = f /\ DOMAIN q = 1 .. Len(q)
        /\ \A i \in 1 .. Len(InFlight) : q[i] = InFlight[i]
    BY <1>1, AppendProperties, LenProperties
  <2> HIDE DEF q
  <2>4. ASSUME NEW i \in DOMAIN q
        PROVE  q[i] = f \/ \E j \in DOMAIN InFlight : q[i] = InFlight[j]
    <3>1. i = Len(InFlight) + 1 \/ i \in DOMAIN InFlight
      BY <1>1, <2>3
    <3> QED BY <1>1, <2>3, <3>1
  <2>5. Len(q) <= Len(InFlight) + 1
    BY <1>1, <2>3
  <2> QED BY <1>3, <2>1, <2>2, <2>4, <2>5, Zenon DEF q
<1> QED BY <1>2, <1>3 DEF Answers

LEMMA AnswersStayInv ==
  ASSUME TypeOK, AnswersInv, NEW f \in Responses, Answers(f),
         f.kind = "exp_upload" => StartOfValue(f.data)
  PROVE  AnswersInv'
<1>1. \A i \in DOMAIN InFlight' :
        InFlight'[i] = f \/ \E j \in DOMAIN InFlight : InFlight'[i] = InFlight[j]
  BY WithAnswer, Zenon
<1>2. ASSUME NEW i \in DOMAIN InFlight', InFlight'[i].kind = "exp_upload"
      PROVE  StartOfValue(InFlight'[i].data)
  <2>1. CASE InFlight'[i] = f
    BY <1>2, <2>1, Zenon
  <2>2. ASSUME NEW j \in DOMAIN InFlight, InFlight'[i] = InFlight[j]
        PROVE  StartOfValue(InFlight'[i].data)
    BY <1>2, <2>2, Zenon DEF AnswersInv
  <2> QED BY <1>1, <2>1, <2>2
<1> QED BY <1>2, Zenon DEF AnswersInv, StartOfValue

LEMMA ServerKeepsRequests ==
  ASSUME ServerAnswersLate, RequestsInv, NEW f, ServedBy(f)
  PROVE  RequestsInv'
<1> DEFINE q == Tail(toServer)
           r == Head(toServer)
<1>1. /\ TypeOK /\ toServer # <<>> /\ toServer' = q /\ r \in Frames
      /\ Thinned(q, toServer) /\ toServer \in Seq(Frames)
  BY RequestIsTaken, LateTypes, AnswersFacts, Zenon
<1>2. /\ r = toServer[1] /\ 1 \in DOMAIN toServer
      /\ \A i \in DOMAIN q : i + 1 \in DOMAIN toServer /\ i + 1 # 1 /\ q[i] = toServer[i + 1]
  BY <1>1
<1> HIDE DEF q, r
<1>3. None(q, {"seg_upload"}) \/ None(q, DownloadKinds)
  BY <1>1, ThinnedIsNone DEF RequestsInv
<1>4. ASSUME ~None(q, DownloadKinds) PROVE BufferStarts' /\ StartOfValue(<<>>)
  <2>1. ~None(toServer, DownloadKinds)
    BY <1>1, <1>4, ThinnedIsNone
  <2>2. BufferStarts /\ StartOfValue(<<>>) /\ None(toServer, {"seg_upload"})
    BY <2>1 DEF RequestsInv
  <2>3. r.kind # "seg_upload"
    BY <1>2, <2>2 DEF None
  <2>4. CASE Untouched
    BY <2>2, <2>4, Zenon DEF Untouched, BufferStarts, HasBuffer, StartOfValue
  <2>5. CASE StartsAnew
    BY <2>2, <2>5, Zenon DEF StartsAnew, BufferStarts, HasBuffer, StartOfValue
  <2>6. CASE r.kind \in DownloadKinds
    BY <2>2, <2>6 DEF ServedBy, r
  <2> QED BY <2>3, <2>4, <2>5, <2>6 DEF ServedBy, r, UploadKinds
<1>5. ASSUME NEW i \in DOMAIN q
      PROVE  /\ q[i].kind = "exp_download" => q[i].data \in GivenValues
             /\ q[i].kind = "seg_download" => q[i].data = <<>>
  <2>1. i + 1 \in DOMAIN toServer /\ i + 1 # 1 /\ q[i] = toServer[i + 1]
    BY <1>2
  <2> QED BY <2>1, Zenon DEF RequestsInv
<1> QED BY <1>1, <1>3, <1>4, <1>5, Zenon DEF RequestsInv, GivenValues

LEMMA ServerKeepsOrder ==
  ASSUME ServerAnswersLate, Ordered, NEW f, ServedBy(f)
  PROVE  Ordered'
<1> DEFINE q == Tail(toServer)
           r == Head(toServer)
<1>1. /\ TypeOK /\ toServer # <<>> /\ toServer' = q /\ r \in Frames
      /\ Thinned(q, toServer) /\ toServer \in Seq(Frames)
  BY RequestIsTaken, LateTypes, AnswersFacts, Zenon
<1>2. f \in Responses /\ Answers(f) /\ (f.kind = "seg_upload" => r.kind = "seg_upload")
      /\ (f.kind = "init_upload" => r.kind = "init_upload" /\ StartsAnew)
  BY DEF ServedBy, r
<1>3. NotBehind(q, "init_upload", Disturbing)
  BY <1>1, ThinnedNotBehind DEF Ordered
<1>4. NotBehind(InFlight', "init_upload", {"seg_upload"})
  <2>1. CASE f.kind = "seg_upload"
    <3>1. ~None(toServer, Disturbing)
      <4>1. r.kind \in Disturbing
        BY <1>2, <2>1 DEF Disturbing
      <4> QED BY <1>1, <4>1, FirstOfNone DEF r
    <3>2. None(InFlight, {"init_upload"}) /\ NotBehind(InFlight, "init_upload", {"seg_upload"})
      BY <3>1 DEF Ordered
    <3> QED BY <1>1, <1>2, <3>2, WithAnswer, Zenon
  <2>2. CASE f.kind # "seg_upload"
    <3>1. f.kind \notin {"seg_upload"} /\ NotBehind(InFlight, "init_upload", {"seg_upload"})
      BY <2>2 DEF Ordered
    <3> QED BY <1>1, <1>2, <3>1, WithAnswer, Zenon
  <2> QED BY <2>1, <2>2
<1>5. ASSUME ~None(InFlight', {"init_upload"})
      PROVE  None(q, Disturbing) /\ HasBuffer' /\ BufferStarts' /\ srvToggle' = 0
  <2>1. CASE f.kind = "init_upload"
    <3>1. r.kind = "init_upload" /\ StartsAnew
      BY <1>2, <2>1
    <3>2. None(q, Disturbing)
      BY <1>1, <3>1, BehindFirst DEF Ordered, r, q
    <3> QED BY <3>1, <3>2, Zenon DEF StartsAnew, BufferStarts, StartOfValue
  <2>2. CASE f.kind # "init_upload"
    <3>1. ~None(InFlight, {"init_upload"})
      <4>1. f.kind \notin {"init_upload"}
        BY <2>2
      <4> QED BY <1>1, <1>2, <1>5, <4>1, WithAnswer, Zenon
    <3>2. None(toServer, Disturbing) /\ HasBuffer /\ BufferStarts /\ srvToggle = 0
      BY <3>1 DEF Ordered
    <3>3. r.kind \notin Disturbing /\ None(q, Disturbing)
      BY <1>1, <3>2, FirstOfNone DEF r, q
    <3>4. Untouched \/ StartsAnew
      BY <3>3 DEF ServedBy, r, Disturbing, UploadKinds
    <3>5. CASE Untouched
      BY <3>2, <3>3, <3>5, Zenon DEF Untouched, BufferStarts, HasBuffer, StartOfValue
    <3>6. CASE StartsAnew
      BY <3>3, <3>6, Zenon DEF StartsAnew, BufferStarts, StartOfValue
    <3> QED BY <3>4, <3>5, <3>6
  <2> QED BY <2>1, <2>2
<1> QED BY <1>1, <1>3, <1>4, <1>5, Zenon DEF Ordered

LEMMA ServerKeepsOneAtOnce ==
  ASSUME ServerAnswersLate, OneAtOnce, NEW f, ServedBy(f)
  PROVE  OneAtOnce' /\ pc = "wait" /\ Len(toServer) = 1 /\ InFlight = <<>> /\ toServer' = <<>>
<1>1. /\ TypeOK /\ toServer # <<>> /\ toServer' = Tail(toServer) /\ toServer \in Seq(Frames)
      /\ Len(toServer) \in Nat /\ Len(InFlight) \in Nat /\ InFlight \in Seq(Responses)
  BY RequestIsTaken, LateTypes, AnswersFacts, Zenon
<1>2. pc = "wait" /\ Len(toServer) + Len(InFlight) <= 1
  BY <1>1 DEF OneAtOnce
<1>3. Len(toServer) = 1 /\ Len(InFlight) = 0
  <2>1. Len(toServer) # 0
    BY <1>1, EmptySeq, Zenon
  <2>2. PICK m \in Nat, n \in Nat : m = Len(toServer) /\ n = Len(InFlight)
    BY <1>1
  <2>3. m + n <= 1 /\ m # 0
    BY <1>2, <2>1, <2>2
  <2>4. m = 1 /\ n = 0
    BY <2>3
  <2> QED BY <2>2, <2>4
<1>4. InFlight = <<>>
  BY <1>1, <1>3, EmptySeq
<1>5. Len(Tail(toServer)) = 0 /\ Tail(toServer) = <<>>
  BY <1>1, <1>3
<1>6. Len(InFlight') <= 1
  <2>1. Len(InFlight') <= Len(InFlight) + 1
    BY <1>1, WithAnswer, Zenon DEF ServedBy
  <2> QED BY <1>3, <2>1
<1>7. Len(InFlight') \in Nat
  <2>1. CASE InFlight' = InFlight
    BY <1>1, <2>1, Zenon
  <2>2. CASE InFlight' = Append(InFlight, f)
    <3>1. Len(Append(InFlight, f)) = Len(InFlight) + 1
      BY <1>1, AppendProperties DEF ServedBy
    <3> QED BY <1>3, <2>2, <3>1
  <2> QED BY <2>1, <2>2 DEF ServedBy, Answers
<1>8. Len(toServer') + Len(InFlight') <= 1
  BY <1>1, <1>5, <1>6, <1>7
<1>9. pc' = "wait"
  BY <1>2, AnswersFacts, Zenon
<1> QED BY <1>1, <1>2, <1>3, <1>4, <1>5, <1>8, <1>9, Zenon DEF OneAtOnce

LEMMA ServerKeepsWrites ==
  ASSUME ServerAnswersLate, WritesInv, NEW f, ServedBy(f), Writing,
         pc # "idle" /\ ~stream.closed => OneAtOnce
  PROVE  WritesInv'
<1> DEFINE q == Tail(toServer)
           r == Head(toServer)
<1>1. /\ TypeOK /\ toServer # <<>> /\ toServer' = q /\ r \in Frames
      /\ Thinned(q, toServer) /\ toServer \in Seq(Frames)
      /\ pc' = pc /\ call' = call /\ stream' = stream /\ request' = request
  BY RequestIsTaken, LateTypes, AnswersFacts, Zenon
<1>2. r.kind \notin UploadKinds /\ None(q, UploadKinds)
  BY <1>1, FirstOfNone DEF WritesInv, r, q
<1>3. None(InFlight', UploadKinds)
  <2>1. f \in Responses /\ Answers(f) /\ f.kind \notin UploadKinds
    BY <1>2 DEF ServedBy, r, UploadKinds
  <2>2. None(InFlight, UploadKinds)
    BY DEF WritesInv
  <2> QED BY <1>1, <2>1, <2>2, WithAnswer, Zenon
<1>4. BufferStarts'
  <2>1. BufferStarts
    BY DEF WritesInv
  <2>2. CASE r.kind \in DownloadKinds
    BY <2>2 DEF ServedBy, r
  <2>3. CASE Untouched
    BY <2>1, <2>3, Zenon DEF Untouched, BufferStarts, HasBuffer, StartOfValue
  <2> QED BY <1>2, <2>2, <2>3 DEF ServedBy, r
<1>5. ASSUME pc # "idle", ~stream.closed
      PROVE  WritesStream'
  <2>1. pc = "wait" /\ InFlight = <<>> /\ toServer' = <<>>
    BY <1>5, ServerKeepsOneAtOnce
  <2>2. WritesStream /\ toServer = <<request>>
    BY <1>1, <1>5, <2>1 DEF WritesInv, WritesStream
  <2>3. r = request
    BY <2>2
  <2>4. \A kinds : ~None(InFlight', kinds) => f.kind \in kinds
    <3>1. \A kinds : None(InFlight, kinds)
      BY <2>1, NoneInEmpty
    <3> QED BY <1>1, <3>1, WithAnswer, Zenon DEF ServedBy
  <2>5. Pending("exp_download") => request.data \in GivenValues
    BY <2>2 DEF WritesStream
  <2>6. ASSUME Pending("init_download")
        PROVE  /\ stream.pos = 0 /\ stream.toggle = 0
               /\ ~None(InFlight', {"download"}) => Moved(0)' /\ srvToggle' = 0
    <3>1. stream.pos = 0 /\ stream.toggle = 0 /\ request.kind = "init_download"
      BY <2>2, <2>6 DEF WritesStream, Pending
    <3>2. ASSUME ~None(InFlight', {"download"}) PROVE Moved(0)' /\ srvToggle' = 0
      <4>1. f.kind = "download"
        BY <2>4, <3>2
      <4>2. srvBuffer' = <<>> /\ srvToggle' = 0
        BY <2>3, <3>1, <4>1 DEF ServedBy, r
      <4>3. SubSeq(call.data, 1, 0) = <<>>
        OBVIOUS
      <4> QED BY <1>1, <4>2, <4>3, Zenon DEF Moved
    <3> QED BY <3>1, <3>2
  <2>7. ASSUME Pending("seg_download") PROVE WritesSegment'
    <3> DEFINE n == stream.pos + Len(request.data)
    <3>1. /\ n <= Len(call.data) /\ request.data = SubSeq(call.data, stream.pos + 1, n)
          /\ stream.toggle = Flip(request.toggle)
          /\ Moved(stream.pos) /\ srvToggle = request.toggle
      <4>1. WritesSegment /\ toServer # <<>>
        BY <1>1, <2>2, <2>7 DEF WritesStream
      <4> QED BY <4>1, Zenon DEF WritesSegment
    <3>2. ASSUME ~None(InFlight', {"seg_download"}) PROVE Moved(n)' /\ srvToggle' = stream.toggle
      <4>1. f.kind = "seg_download"
        BY <2>4, <3>2
      <4>2. srvToggle' = Flip(srvToggle) /\ srvBuffer' = srvBuffer \o request.data
        BY <2>3, <4>1, Zenon DEF ServedBy, AddsSegment, r
      <4>3. call.data \in Data /\ stream.pos \in Nat /\ n \in 0 .. Len(call.data) /\ stream.pos <= n
        <5>1. call.data \in Data /\ stream.pos \in Nat /\ request.data \in Data
          BY <1>1, <1>5, <2>1, <2>7, CallFields, RequestFields
             DEF Writing, Pending, TypeOK, ClientTypeOK, Streams
        <5>2. Len(request.data) \in Nat /\ Len(call.data) \in Nat
          BY <5>1, LenProperties DEF Data
        <5>3. PICK k \in Nat, m \in Nat : k = Len(request.data) /\ m = Len(call.data)
          BY <5>2
        <5>4. n = stream.pos + k /\ n <= m
          BY <3>1, <5>3, Zenon
        <5>5. n \in 0 .. m /\ stream.pos <= n
          BY <5>1, <5>4
        <5> QED BY <5>1, <5>3, <5>5, Zenon
      <4> HIDE DEF n
      <4>4. SubSeq(call.data, 1, stream.pos) \o SubSeq(call.data, stream.pos + 1, n)
              = SubSeq(call.data, 1, n)
        BY <4>3, SegmentMoved, Zenon
      <4>5. srvBuffer' = SubSeq(call.data, 1, n)
        BY <3>1, <4>2, <4>4, Zenon DEF Moved
      <4>6. srvBuffer' = SubSeq(call'.data, 1, n')
        BY <1>1, <4>5, Zenon DEF n
      <4> QED BY <3>1, <4>2, <4>6, Zenon DEF Moved
    <3>3. pc' # "send" /\ toServer' = <<>>
      BY <1>1, <2>1
    <3> QED BY <1>1, <3>1, <3>2, <3>3, Zenon DEF WritesSegment
  <2>8. pc' = "wait" /\ pc' # "io" /\ toServer' \in {<<>>, <<request'>>}
    BY <1>1, <2>1
  <2> QED BY <1>1, <2>5, <2>6, <2>7, <2>8, Zenon DEF WritesStream, Pending, GivenValues
<1>6. pc # "idle" /\ stream.closed => pc # "io" /\ request.kind = "seg_download" /\ request.data = <<>>
  BY DEF WritesInv
<1>7. pc \in {"send", "wait"} => request.kind \in DownloadKinds
  BY DEF WritesInv
<1>8. call.data \in GivenValues
  BY DEF WritesInv
<1> QED BY <1>1, <1>2, <1>3, <1>4, <1>5, <1>6, <1>7, <1>8, Zenon DEF WritesInv, GivenValues

LEMMA ServerKeepsReads ==
  ASSUME ServerAnswersLate, ReadsInv, NEW f, ServedBy(f)
  PROVE  ReadsInv'
<1> DEFINE q == Tail(toServer)
           r == Head(toServer)
<1>1. /\ TypeOK /\ toServer # <<>> /\ toServer' = q /\ r \in Frames
      /\ Thinned(q, toServer) /\ toServer \in Seq(Frames)
      /\ pc' = pc /\ stream' = stream /\ result' = result
      /\ f \in Responses /\ Answers(f) /\ (First <=> First')
  BY RequestIsTaken, LateTypes, AnswersFacts, Zenon DEF ServedBy
<1>2. /\ None(q, DownloadKinds) /\ (pc # "wait" => None(q, {"seg_upload"}))
      /\ NotBehind(q, "seg_upload", UploadKinds)
      /\ ~None(q, {"init_upload"}) => OpensInv
  BY <1>1, ThinnedIsNone, ThinnedNotBehind DEF ReadsInv
<1>3. \A kinds : r.kind \in kinds => ~None(toServer, kinds)
  BY <1>1, FirstOfNone
<1>4. r.kind \notin DownloadKinds
  BY <1>3 DEF ReadsInv
<1>5. result \in Data
  BY <1>1 DEF TypeOK, ClientTypeOK
<1>6. CASE r.kind \notin UploadKinds
  <2>1. InFlight' = InFlight /\ Untouched
    BY <1>4, <1>6 DEF ServedBy, r
  <2>2. None(toServer, UploadKinds) => None(q, UploadKinds)
    BY <1>1, ThinnedIsNone
  <2>3. KeepsUp => KeepsUp'
    BY <1>1, <2>1, Zenon DEF KeepsUp, Untouched, HasBuffer, StartOfValue
  <2>4. pc # "wait" \/ ~None(q, UploadKinds) => KeepsUp' /\ None(InFlight, {"seg_upload"})
    BY <2>2, <2>3 DEF ReadsInv
  <2>5. First => None(q, {"init_upload"})
    BY <1>1, ThinnedIsNone DEF ReadsInv
  <2> QED BY <1>1, <1>2, <2>1, <2>4, <2>5, Zenon DEF ReadsInv, OpensInv, Untouched, HasBuffer, StartOfValue
<1>7. CASE r.kind \in UploadKinds
  <2>1. KeepsUp /\ None(InFlight, {"seg_upload"}) /\ ~None(toServer, UploadKinds)
    BY <1>3, <1>7 DEF ReadsInv
  <2>2. First => r.kind # "init_upload" /\ None(q, {"init_upload"}) /\ None(InFlight, {"init_upload"})
    BY <1>1, FirstOfNone DEF ReadsInv, r, q
  <2>3. First => None(InFlight', {"init_upload"})
    <3>1. f.kind = "init_upload" => r.kind = "init_upload"
      BY DEF ServedBy, r
    <3>2. First => f.kind \notin {"init_upload"}
      BY <2>2, <3>1
    <3> QED BY <1>1, <2>2, <3>2, WithAnswer, Zenon
  <2>4. NotBehind(InFlight', "seg_upload", {"seg_upload"})
    <3>1. NotBehind(InFlight, "seg_upload", {"seg_upload"})
      BY DEF ReadsInv
    <3> QED BY <1>1, <2>1, <3>1, WithAnswer, Zenon
  <2>5. CASE r.kind = "init_upload"
    <3>1. result = <<>> /\ stream.toggle = 0
      BY <1>3, <2>5 DEF ReadsInv, OpensInv
    <3>2. KeepsUp'
      <4>1. CASE Untouched
        BY <1>1, <2>1, <4>1, Zenon DEF KeepsUp, Untouched, HasBuffer, StartOfValue
      <4>2. CASE StartsAnew
        <5>1. srvBuffer' \in Data
          <6>1. BusTypeOK /\ ServerTypeOK
            BY <1>1 DEF TypeOK
          <6>2. ServerTypeOK'
            BY <6>1, AnswersFacts, ServerStepTypes
          <6> QED BY <4>2, <6>2 DEF ServerTypeOK, StartsAnew, HasBuffer
        <5>2. <<>> \o srvBuffer' = srvBuffer'
          BY <5>1, ConcatEmptySeq, Zenon DEF Data
        <5> QED BY <1>1, <3>1, <4>2, <5>2, Zenon DEF KeepsUp, StartsAnew, StartOfValue
      <4> QED BY <2>5, <4>1, <4>2 DEF ServedBy, r
    <3>3. None(InFlight', {"seg_upload"})
      <4>1. f.kind \notin {"seg_upload"}
        BY <2>5 DEF ServedBy, r
      <4> QED BY <1>1, <2>1, <4>1, WithAnswer, Zenon
    <3>4. \A i \in DOMAIN InFlight' : InFlight'[i].kind # "seg_upload"
      BY <3>3 DEF None
    <3> QED BY <1>1, <1>2, <2>2, <2>3, <2>4, <3>2, <3>3, <3>4, Zenon DEF ReadsInv, OpensInv
  <2>6. CASE r.kind = "seg_upload"
    <3>1. None(q, UploadKinds)
      BY <1>1, <2>6, BehindFirst DEF ReadsInv, r, q
    <3>2. pc = "wait"
      BY <1>3, <2>6 DEF ReadsInv
    <3>3. ASSUME NEW i \in DOMAIN InFlight', InFlight'[i].kind = "seg_upload"
          PROVE  /\ HasBuffer' /\ StartOfValue((result \o InFlight'[i].data) \o srvBuffer')
                 /\ srvToggle' = Flip(stream.toggle)
      <4>1. InFlight'[i] = f
        <5>1. \A j \in DOMAIN InFlight : InFlight[j].kind # "seg_upload"
          BY <2>1 DEF None
        <5>2. InFlight'[i] = f \/ \E j \in DOMAIN InFlight : InFlight'[i] = InFlight[j]
          BY <1>1, WithAnswer, Zenon
        <5> QED BY <3>3, <5>1, <5>2, Zenon
      <4>2. TakesSegment(f)
        BY <3>3, <4>1, Zenon DEF ServedBy
      <4>3. (result \o f.data) \o srvBuffer' = result \o srvBuffer
        BY <1>5, <4>2, Zenon DEF TakesSegment
      <4> QED BY <2>1, <4>1, <4>2, <4>3, Zenon DEF TakesSegment, KeepsUp
    <3>4. ~(pc # "wait" \/ ~None(q, UploadKinds))
      BY <3>1, <3>2
    <3> QED BY <1>1, <1>2, <2>2, <2>3, <2>4, <3>3, <3>4, Zenon DEF ReadsInv, OpensInv, StartOfValue, HasBuffer
  <2> QED BY <1>7, <2>5, <2>6 DEF UploadKinds
<1> QED BY <1>6, <1>7

LEMMA ServerKeepsLate ==
  ASSUME ServerAnswersLate, CoveredInv
  PROVE  CoveredInv'
<1>1. /\ TypeOK /\ OnRequest /\ responses' = responses /\ HoldsStarts /\ RequestsInv /\ AnswersInv
      /\ pc' = pc /\ stream' = stream /\ result' = result /\ outcome' = outcome
  BY AnswersFacts DEF CoveredInv
<1>2. HoldsStarts' /\ \E f : ServedBy(f)
  BY <1>1, FrameIsServed
<1>3. PICK f : ServedBy(f)
  BY <1>2
<1>4. AnswersInv'
  BY <1>1, <1>3, AnswersStayInv DEF ServedBy
<1>5. RequestsInv'
  BY <1>1, <1>3, ServerKeepsRequests
<1>6. First' \/ Opens' => Ordered'
  BY <1>3, ServerKeepsOrder, AnswersFacts DEF CoveredInv
<1>7. Opens' => OpensInv'
  BY <1>1, AnswersFacts, Zenon DEF CoveredInv, OpensInv
<1>8. ReadsOn' => ReadsInv'
  BY <1>3, ServerKeepsReads, AnswersFacts DEF CoveredInv
<1>9. Uploading' => UploadsInv'
  BY <1>1, AnswersFacts, Zenon DEF CoveredInv, UploadsInv, StartOfValue
<1>10. First' /\ pc' # "idle" /\ ~stream'.closed => OneAtOnce'
  BY <1>1, <1>3, ServerKeepsOneAtOnce, AnswersFacts DEF CoveredInv
<1>11. First' /\ Writing' => WritesInv'
  BY <1>1, <1>3, ServerKeepsWrites, AnswersFacts DEF CoveredInv
<1> QED BY <1>2, <1>4, <1>5, <1>6, <1>7, <1>8, <1>9, <1>10, <1>11, Zenon DEF CoveredInv

-----------------------------------------------------------------------------
\* Frames get lost or are delivered, and the application of the server's node writes.

LEMMA FewerRequests ==
  ASSUME TypeOK, RequestsInv, UNCHANGED <<srvBuffer, srvToggle>>,
         \/ toServer' = toServer
         \/ toServer # <<>> /\ toServer' = Tail(toServer)
  PROVE  RequestsInv'
<1>1. CASE toServer' = toServer
  BY <1>1, Zenon DEF RequestsInv, BufferStarts, HasBuffer, StartOfValue, GivenValues
<1>2. CASE toServer # <<>> /\ toServer' = Tail(toServer)
  <2> DEFINE q == Tail(toServer)
  <2>1. toServer \in Seq(Frames) /\ toServer # <<>> /\ Thinned(q, toServer)
    BY <1>2, LateTypes, TailIsThinned
  <2>2. \A i \in DOMAIN q : i + 1 \in DOMAIN toServer /\ i + 1 # 1 /\ q[i] = toServer[i + 1]
    BY <2>1
  <2> HIDE DEF q
  <2>3. None(q, {"seg_upload"}) \/ None(q, DownloadKinds)
    BY <2>1, ThinnedIsNone DEF RequestsInv
  <2>4. ~None(q, DownloadKinds) => BufferStarts /\ StartOfValue(<<>>)
    BY <2>1, ThinnedIsNone DEF RequestsInv
  <2>5. ASSUME NEW i \in DOMAIN q
        PROVE  /\ q[i].kind = "exp_download" => q[i].data \in GivenValues
               /\ q[i].kind = "seg_download" => q[i].data = <<>>
    <3>1. i + 1 \in DOMAIN toServer /\ i + 1 # 1 /\ q[i] = toServer[i + 1]
      BY <2>2
    <3> QED BY <3>1, Zenon DEF RequestsInv
  <2>6. toServer' = q
    BY <1>2 DEF q
  <2> QED BY <2>3, <2>4, <2>5, <2>6, Zenon DEF RequestsInv, BufferStarts, HasBuffer, StartOfValue, GivenValues
<1> QED BY <1>1, <1>2

LEMMA FewerAnswers ==
  ASSUME AnswersInv, Thinned(InFlight', InFlight)
  PROVE  AnswersInv'
<1>1. ASSUME NEW i \in DOMAIN InFlight', InFlight'[i].kind = "exp_upload"
      PROVE  StartOfValue(InFlight'[i].data)
  <2>1. \E j \in DOMAIN InFlight : InFlight'[i] = InFlight[j]
    BY <1>1, ThinnedIsAmong
  <2> QED BY <1>1, <2>1, Zenon DEF AnswersInv
<1> QED BY <1>1, Zenon DEF AnswersInv, StartOfValue

LEMMA FewerInOrder ==
  ASSUME Ordered, Thinned(toServer', toServer), Thinned(InFlight', InFlight),
         UNCHANGED <<srvBuffer, srvToggle>>
  PROVE  Ordered'
<1>1. NotBehind(toServer', "init_upload", Disturbing) /\ NotBehind(InFlight', "init_upload", {"seg_upload"})
  BY ThinnedNotBehind DEF Ordered
<1>2. ~None(InFlight', {"init_upload"}) => None(toServer', Disturbing)
  BY ThinnedIsNone DEF Ordered
<1>3. ~None(InFlight', {"init_upload"}) => HasBuffer /\ BufferStarts /\ srvToggle = 0
  BY ThinnedIsNone DEF Ordered
<1> QED BY <1>1, <1>2, <1>3, Zenon DEF Ordered, HasBuffer, BufferStarts, StartOfValue

LEMMA FewerRead ==
  ASSUME ReadsInv, Thinned(toServer', toServer), Thinned(InFlight', InFlight),
         UNCHANGED <<srvBuffer, srvToggle, pc, stream, result, callsLeft>>
  PROVE  ReadsInv'
<1>1. /\ None(toServer', DownloadKinds) /\ (pc # "wait" => None(toServer', {"seg_upload"}))
      /\ NotBehind(toServer', "seg_upload", UploadKinds)
      /\ NotBehind(InFlight', "seg_upload", {"seg_upload"})
      /\ ~None(toServer', {"init_upload"}) => OpensInv
  BY ThinnedIsNone, ThinnedNotBehind DEF ReadsInv
<1>2. /\ First => None(toServer', {"init_upload"}) /\ None(InFlight', {"init_upload"})
      /\ pc # "wait" \/ ~None(toServer', UploadKinds) => KeepsUp /\ None(InFlight', {"seg_upload"})
  BY ThinnedIsNone DEF ReadsInv
<1>3. ASSUME NEW i \in DOMAIN InFlight', InFlight'[i].kind = "seg_upload"
      PROVE  /\ HasBuffer /\ StartOfValue((result \o InFlight'[i].data) \o srvBuffer)
             /\ srvToggle = Flip(stream.toggle)
  <2>1. \E j \in DOMAIN InFlight : InFlight'[i] = InFlight[j]
    BY <1>3, ThinnedIsAmong
  <2> QED BY <1>3, <2>1, Zenon DEF ReadsInv
<1> QED
  BY <1>1, <1>2, <1>3, Zenon DEF ReadsInv, KeepsUp, HasBuffer, StartOfValue, OpensInv, First

LEMMA FewerWrites ==
  ASSUME WritesInv, Thinned(toServer', toServer), Thinned(InFlight', InFlight),
         \/ toServer' = toServer
         \/ toServer # <<>> /\ toServer' = Tail(toServer),
         UNCHANGED <<srvBuffer, srvToggle, pc, call, stream, request>>
  PROVE  WritesInv'
<1>1. None(toServer', UploadKinds) /\ None(InFlight', UploadKinds)
  BY ThinnedIsNone DEF WritesInv
<1>2. WritesStream => WritesStream'
  <2> SUFFICES ASSUME WritesStream PROVE WritesStream'
    OBVIOUS
  <2>1. /\ ~None(InFlight', {"download"}) => ~None(InFlight, {"download"})
        /\ ~None(InFlight', {"seg_download"}) => ~None(InFlight, {"seg_download"})
    BY ThinnedIsNone
  <2>2. pc \in {"send", "wait"} => toServer' \in {<<>>, <<request>>}
    <3>1. Tail(<<request>>) = <<>>
      OBVIOUS
    <3> QED BY <3>1, Zenon DEF WritesStream
  <2>3. toServer' # <<>> => toServer # <<>>
    OBVIOUS
  <2>4. WritesSegment => WritesSegment'
    BY <2>1, <2>3, Zenon DEF WritesSegment, Moved
  <2> QED BY <2>1, <2>2, <2>4, Zenon DEF WritesStream, Moved, Pending, GivenValues
<1> QED BY <1>1, <1>2, Zenon DEF WritesInv, BufferStarts, HasBuffer, StartOfValue, GivenValues

LEMMA FewerOneAtOnce ==
  ASSUME TypeOK, OneAtOnce, pc' = pc, InFlight' \in Seq(Responses),
         Len(InFlight') <= Len(InFlight),
         \/ toServer' = toServer
         \/ toServer # <<>> /\ toServer' = Tail(toServer)
  PROVE  OneAtOnce'
<1>1. Len(toServer') \in Nat /\ Len(toServer') <= Len(toServer) /\ Len(toServer) \in Nat
  BY LateTypes
<1>2. Len(InFlight) \in Nat /\ Len(InFlight') \in Nat
  BY LateTypes, LenProperties
<1>3. CASE pc = "wait"
  <2>1. Len(toServer) + Len(InFlight) <= 1
    BY <1>3 DEF OneAtOnce
  <2>2. Len(toServer') + Len(InFlight') <= 1
    BY <1>1, <1>2, <2>1
  <2> QED BY <1>3, <2>2, Zenon DEF OneAtOnce
<1>4. CASE pc # "wait"
  <2>1. toServer = <<>> /\ InFlight = <<>>
    BY <1>4 DEF OneAtOnce
  <2>2. Len(InFlight) = 0
    BY <2>1
  <2>3. Len(InFlight') = 0
    BY <1>2, <2>2
  <2>4. InFlight' = <<>>
    BY <2>3, EmptySeq
  <2> QED BY <1>4, <2>1, <2>4, Zenon DEF OneAtOnce
<1> QED BY <1>3, <1>4

LEMMA FewerKeepsLate ==
  ASSUME TypeOK, CoveredInv, HoldsStarts',
         UNCHANGED <<pc, call, stream, request, result, outcome, callsLeft>>,
         UNCHANGED <<srvBuffer, srvToggle>>,
         \/ toServer' = toServer
         \/ toServer # <<>> /\ toServer' = Tail(toServer),
         Thinned(InFlight', InFlight), InFlight' \in Seq(Responses),
         Len(InFlight') <= Len(InFlight)
  PROVE  CoveredInv'
<1>1. Thinned(toServer', toServer)
  BY LateTypes, SameIsThinned, TailIsThinned
<1>2. /\ (First <=> First') /\ (Uploading <=> Uploading') /\ (Opens <=> Opens')
      /\ (ReadsOn <=> ReadsOn') /\ (Writing <=> Writing')
  BY Zenon DEF First, Uploading, Opens, ReadsOn, Pending, Writing
<1>3. AnswersInv' /\ RequestsInv'
  BY FewerAnswers, FewerRequests DEF CoveredInv
<1>4. First' \/ Opens' => Ordered'
  BY <1>1, <1>2, FewerInOrder DEF CoveredInv
<1>5. Opens' => OpensInv'
  BY <1>2, Zenon DEF CoveredInv, OpensInv
<1>6. ReadsOn' => ReadsInv'
  BY <1>1, <1>2, FewerRead DEF CoveredInv
<1>7. Uploading' => UploadsInv'
  BY <1>2, Zenon DEF CoveredInv, UploadsInv, StartOfValue
<1>8. First' /\ pc' # "idle" /\ ~stream'.closed => OneAtOnce'
  BY <1>2, FewerOneAtOnce DEF CoveredInv
<1>9. First' /\ Writing' => WritesInv'
  BY <1>1, <1>2, FewerWrites DEF CoveredInv
<1> QED BY <1>3, <1>4, <1>5, <1>6, <1>7, <1>8, <1>9, Zenon DEF CoveredInv

-----------------------------------------------------------------------------
\* A call ends, or its stream is being closed.

\* The client's abort(), or nothing, is added.
AddsAbort == toServer' = toServer \/ \E code \in ClientAbortCodes : toServer' = Append(toServer, ReqAbort(code))

LEMMA AbortAdded ==
  ASSUME TypeOK, AddsAbort
  PROVE  /\ \A kinds : "abort" \notin kinds /\ None(toServer, kinds) => None(toServer', kinds)
         /\ \A kind, kinds : "abort" \notin kinds /\ NotBehind(toServer, kind, kinds)
              => NotBehind(toServer', kind, kinds)
         /\ \A i \in DOMAIN toServer' :
              toServer'[i].kind = "abort" \/ (i \in DOMAIN toServer /\ toServer'[i] = toServer[i])
<1>1. toServer \in Seq(Frames) /\ Len(toServer) \in Nat /\ DOMAIN toServer = 1 .. Len(toServer)
  BY LateTypes, LenProperties
<1>2. CASE toServer' = toServer
  BY <1>2, Zenon
<1>3. ASSUME NEW code \in ClientAbortCodes, toServer' = Append(toServer, ReqAbort(code))
      PROVE  /\ \A kinds : "abort" \notin kinds /\ None(toServer, kinds) => None(toServer', kinds)
             /\ \A kind, kinds : "abort" \notin kinds /\ NotBehind(toServer, kind, kinds)
                  => NotBehind(toServer', kind, kinds)
             /\ \A i \in DOMAIN toServer' :
                  \/ toServer'[i].kind = "abort"
                  \/ i \in DOMAIN toServer /\ toServer'[i] = toServer[i]
  <2> DEFINE f == ReqAbort(code)
             q == Append(toServer, f)
  <2>1. f \in Frames /\ f.kind = "abort"
    BY DEF ReqAbort, Frames, AbortRequests
  <2> HIDE DEF f
  <2>2. /\ Len(q) = Len(toServer) + 1 /\ q[Len(toServer) + 1] = f /\ DOMAIN q = 1 .. Len(q)
        /\ \A i \in 1 .. Len(toServer) : q[i] = toServer[i]
    BY <1>1, <2>1, AppendProperties, LenProperties
  <2>3. \A kinds : "abort" \notin kinds /\ None(toServer, kinds) => None(q, kinds)
    BY <1>1, <2>1, AppendedNone, Zenon
  <2>4. \A kind, kinds : "abort" \notin kinds /\ NotBehind(toServer, kind, kinds)
          => NotBehind(q, kind, kinds)
    BY <1>1, <2>1, AppendedNotBehind, Zenon
  <2> HIDE DEF q
  <2>5. ASSUME NEW i \in DOMAIN q
        PROVE  q[i].kind = "abort" \/ (i \in DOMAIN toServer /\ q[i] = toServer[i])
    <3>1. i = Len(toServer) + 1 \/ i \in 1 .. Len(toServer)
      BY <1>1, <2>2
    <3>2. CASE i = Len(toServer) + 1
      <4>1. q[i] = f
        BY <2>2, <3>2
      <4> QED BY <2>1, <4>1
    <3>3. CASE i \in 1 .. Len(toServer)
      BY <1>1, <2>2, <3>3, Zenon
    <3> QED BY <3>1, <3>2, <3>3
  <2>6. toServer' = q
    BY <1>3 DEF q, f
  <2> QED BY <2>3, <2>4, <2>5, <2>6, Zenon
<1> QED BY <1>2, <1>3 DEF AddsAbort

LEMMA StillOrdered ==
  ASSUME TypeOK, Ordered, AddsAbort, Thinned(InFlight', InFlight), UNCHANGED <<srvBuffer, srvToggle>>
  PROVE  Ordered'
<1>1. "abort" \notin Disturbing
  BY DEF Disturbing, DownloadKinds
<1>2. NotBehind(toServer', "init_upload", Disturbing) /\ NotBehind(InFlight', "init_upload", {"seg_upload"})
  BY <1>1, AbortAdded, ThinnedNotBehind, Zenon DEF Ordered
<1>3. ~None(InFlight', {"init_upload"}) =>
        None(toServer', Disturbing) /\ HasBuffer /\ BufferStarts /\ srvToggle = 0
  BY <1>1, AbortAdded, ThinnedIsNone, Zenon DEF Ordered
<1> QED BY <1>2, <1>3, Zenon DEF Ordered, HasBuffer, BufferStarts, StartOfValue

LEMMA StillRequests ==
  ASSUME TypeOK, RequestsInv, AddsAbort, UNCHANGED <<srvBuffer, srvToggle>>
  PROVE  RequestsInv'
<1>1. "abort" \notin DownloadKinds /\ "abort" \notin {"seg_upload"}
  BY DEF DownloadKinds
<1>2. None(toServer', {"seg_upload"}) \/ None(toServer', DownloadKinds)
  BY <1>1, AbortAdded, Zenon DEF RequestsInv
<1>3. ~None(toServer', DownloadKinds) => BufferStarts /\ StartOfValue(<<>>)
  BY <1>1, AbortAdded, Zenon DEF RequestsInv
<1>4. ASSUME NEW i \in DOMAIN toServer'
      PROVE  /\ toServer'[i].kind = "exp_download" => toServer'[i].data \in GivenValues
             /\ toServer'[i].kind = "seg_download" /\ toServer'[i].data # <<>> =>
                  i = 1 /\ HasBuffer /\ StartOfValue(srvBuffer \o toServer'[i].data)
  <2>1. \A j \in DOMAIN toServer' :
          toServer'[j].kind = "abort" \/ (j \in DOMAIN toServer /\ toServer'[j] = toServer[j])
    BY AbortAdded, Zenon
  <2>2. CASE toServer'[i].kind = "abort"
    BY <2>2
  <2>3. CASE i \in DOMAIN toServer /\ toServer'[i] = toServer[i]
    BY <2>3, Zenon DEF RequestsInv
  <2> QED BY <2>1, <2>2, <2>3, Zenon
<1> QED BY <1>2, <1>3, <1>4, Zenon DEF RequestsInv, HasBuffer, BufferStarts, StartOfValue, GivenValues

\* Nothing that is under way gets worse when a call ends.
LEMMA EndKeepsLate ==
  ASSUME TypeOK, CoveredInv, UNCHANGED <<store, srvBuffer, srvToggle, callsLeft, call>>,
         AddsAbort, Thinned(InFlight', InFlight),
         \/ pc' = "idle" /\ (Uploading /\ outcome' = "ok" => StartOfValue(result'))
         \/ /\ Writing /\ pc' = "send" /\ stream'.closed
            /\ request'.kind = "seg_download" /\ request'.data = <<>>
  PROVE  CoveredInv'
<1>1. (First <=> First') /\ (Uploading <=> Uploading') /\ (Writing <=> Writing')
  BY Zenon DEF First, Uploading, Writing
<1>2. ~(Uploading /\ Writing)
  BY DEF Uploading, Writing
<1>3. HoldsStarts' /\ AnswersInv' /\ RequestsInv'
  BY StoreUnchanged, FewerAnswers, StillRequests DEF CoveredInv
<1>4. ~Opens' /\ ~ReadsOn'
  BY <1>1, <1>2 DEF Opens, ReadsOn, Pending
<1>5. First => Ordered'
  BY StillOrdered DEF CoveredInv
<1>6. Uploading' => UploadsInv'
  BY <1>1, <1>2 DEF UploadsInv
<1>7. ~(pc' # "idle" /\ ~stream'.closed)
  OBVIOUS
<1>8. ASSUME First, Writing PROVE WritesInv'
  <2>1. WritesInv
    BY <1>8 DEF CoveredInv
  <2>2. None(toServer', UploadKinds) /\ None(InFlight', UploadKinds)
    <3>1. "abort" \notin UploadKinds
      BY DEF UploadKinds
    <3> QED BY <2>1, <3>1, AbortAdded, ThinnedIsNone, Zenon DEF WritesInv
  <2>3. "seg_download" \in DownloadKinds
    BY DEF DownloadKinds
  <2>4. /\ pc' \in {"send", "wait"} => request'.kind \in DownloadKinds
        /\ pc' # "idle" /\ stream'.closed =>
             pc' # "io" /\ request'.kind = "seg_download" /\ request'.data = <<>>
    BY <1>2, <1>8, <2>3
  <2> QED
    BY <1>7, <2>1, <2>2, <2>4, Zenon
       DEF WritesInv, BufferStarts, HasBuffer, StartOfValue, GivenValues
<1> QED BY <1>1, <1>3, <1>4, <1>5, <1>6, <1>7, <1>8, Zenon DEF CoveredInv

\* What raises ends the call or closes the stream of a download.
LEMMA RaiseKeepsLate ==
  ASSUME TypeOK, CoveredInv, UNCHANGED <<store, srvBuffer, srvToggle, callsLeft, call>>,
         AddsAbort, Thinned(InFlight', InFlight), pc # "idle", Raise
  PROVE  CoveredInv'
<1>1. CASE UnfinishedDownload /\ CloseStream
  <2>1. Writing
    <3>1. call \in Calls /\ call # NoCall
      BY NoCallAssumption DEF TypeOK, ClientTypeOK
    <3> QED BY <1>1, <3>1 DEF UnfinishedDownload, Writing
  <2>2. stream \in Streams
    BY DEF TypeOK, ClientTypeOK
  <2>3. pc' = "send" /\ stream'.closed /\ request'.kind = "seg_download" /\ request'.data = <<>>
    BY <1>1, <2>2 DEF CloseStream, RequestResponse, ReqSegDownload, Streams
  <2> QED BY <2>1, <2>3, EndKeepsLate
<1>2. CASE EndCall("failed")
  <2>1. Uploading => outcome = "running"
    BY DEF CoveredInv, UploadsInv
  <2>2. pc' = "idle" /\ (Uploading /\ outcome' = "ok" => StartOfValue(result'))
    BY <1>2, <2>1 DEF EndCall
  <2> QED BY <2>2, EndKeepsLate
<1> QED BY <1>1, <1>2 DEF Raise

\* The only frame under way is taken.
LEMMA OneIsAll ==
  ASSUME TypeOK, Len(toServer) + Len(InFlight) <= 1, InFlight # <<>>, InFlight' = Tail(InFlight)
  PROVE  toServer = <<>> /\ InFlight' = <<>>
<1>1. /\ toServer \in Seq(Frames) /\ InFlight \in Seq(Responses)
      /\ Len(toServer) \in Nat /\ Len(InFlight) \in Nat
  BY LateTypes
<1>2. PICK m \in Nat, n \in Nat : m = Len(toServer) /\ n = Len(InFlight)
  BY <1>1
<1>3. n # 0
  BY <1>1, <1>2, EmptySeq, Zenon
<1>4. m = 0 /\ n = 1
  <2>1. m + n <= 1
    BY <1>2
  <2> QED BY <1>3, <2>1
<1>5. toServer = <<>>
  BY <1>1, <1>2, <1>4, EmptySeq, Zenon
<1>6. Tail(InFlight) \in Seq(Responses) /\ Len(Tail(InFlight)) = Len(InFlight) - 1
  BY <1>1, HeadTailProperties
<1>7. Len(Tail(InFlight)) = 0
  BY <1>2, <1>4, <1>6
<1> QED BY <1>5, <1>6, <1>7, EmptySeq, Zenon

-----------------------------------------------------------------------------
\* The steps of an upload.

\* The start of a start of a value.
LEMMA StartIsStart ==
  ASSUME NEW v \in Data, StartOfValue(v), NEW n \in 0 .. Len(v)
  PROVE  StartOfValue(SubSeq(v, 1, n))
<1>1. PICK d \in GivenValues : \E m \in 0 .. Len(d) : v = SubSeq(d, 1, m)
  BY DEF StartOfValue, Prefixes
<1>0. PICK m \in 0 .. Len(d) : v = SubSeq(d, 1, m)
  BY <1>1
<1>2. d \in Seq(Bytes) /\ Len(d) \in Nat
  BY ValuesAreGiven, LenProperties DEF Data
<1>3. Len(v) = m
  BY <1>0, <1>2
<1>4. n \in 0 .. m /\ n \in 0 .. Len(d)
  BY <1>0, <1>2, <1>3
<1>5. SubSeq(SubSeq(d, 1, m), 1, n) = SubSeq(d, 1, n)
  BY <1>0, <1>2, <1>4
<1>6. SubSeq(v, 1, n) = SubSeq(d, 1, n)
  BY <1>0, <1>5, Zenon
<1> QED BY <1>4, <1>6, Zenon DEF StartOfValue, Prefixes

\* What comes before the rest.
LEMMA FrontIsStart ==
  ASSUME NEW v \in Data, NEW w \in Data, StartOfValue(v \o w)
  PROVE  StartOfValue(v)
<1>1. v \o w \in Data /\ Len(v) \in 0 .. Len(v \o w)
  BY DEF Data
<1>2. SubSeq(v \o w, 1, Len(v)) = v
  BY DEF Data
<1> QED BY <1>1, <1>2, StartIsStart

\* What an answer that is taken is known to say.
ClientWorks ==
  /\ TypeOK /\ pc # "idle"
  /\ UNCHANGED <<store, srvBuffer, srvToggle, callsLeft, call>>

LEMMA TakenFacts ==
  ASSUME ClientWorks, responses # <<>>, responses' = Tail(responses), UNCHANGED busVars
  PROVE  /\ InFlight # <<>> /\ InFlight \in Seq(Responses) /\ InFlight' = Tail(InFlight)
         /\ Head(InFlight) = Response /\ InFlight[1] = Response /\ 1 \in DOMAIN InFlight
         /\ Thinned(InFlight', InFlight) /\ Response \in Responses
         /\ toServer' = toServer /\ AddsAbort /\ InFlight' \in Seq(Responses)
         /\ \A kinds : Response.kind \in kinds => ~None(InFlight, kinds)
<1>1. /\ InFlight # <<>> /\ InFlight' = Tail(InFlight) /\ Head(InFlight) = Response
      /\ Thinned(InFlight', InFlight) /\ Response \in Responses /\ toServer' = toServer
  BY AnswerIsTaken DEF ClientWorks, busVars
<1>2. InFlight \in Seq(Responses)
  BY LateTypes DEF ClientWorks
<1>3. InFlight[1] = Response /\ 1 \in DOMAIN InFlight /\ Tail(InFlight) \in Seq(Responses)
  BY <1>1, <1>2, HeadTailProperties, LenProperties, EmptySeq
<1>4. \A kinds : Response.kind \in kinds => ~None(InFlight, kinds)
  BY <1>3 DEF None
<1> QED BY <1>1, <1>2, <1>3, <1>4 DEF AddsAbort

LEMMA InitUploadLate ==
  ASSUME ClientWorks, CoveredInv, InitUploadAnswered, Uploading
  PROVE  CoveredInv'
<1>1. /\ pc = "wait" /\ request.kind = "init_upload" /\ responses # <<>>
      /\ responses' = Tail(responses) /\ UNCHANGED busVars
  BY DEF InitUploadAnswered, Awaiting
<1>2. /\ InFlight # <<>> /\ InFlight \in Seq(Responses) /\ InFlight' = Tail(InFlight)
      /\ Head(InFlight) = Response /\ InFlight[1] = Response /\ 1 \in DOMAIN InFlight
      /\ Thinned(InFlight', InFlight) /\ toServer' = toServer /\ AddsAbort
      /\ \A kinds : Response.kind \in kinds => ~None(InFlight, kinds)
  BY <1>1, TakenFacts
<1>3. Opens /\ ~ReadsOn
  BY <1>1 DEF Opens, Pending, ReadsOn
<1>4. Ordered /\ OpensInv /\ UploadsInv /\ AnswersInv
  BY <1>3 DEF CoveredInv, Opens
<1>5. CASE Response.kind = "exp_upload" /\ result' = Response.data /\ EndCall("ok")
  <2>1. StartOfValue(result')
    BY <1>2, <1>4, <1>5, Zenon DEF AnswersInv
  <2> QED BY <1>2, <1>5, <2>1, EndKeepsLate DEF EndCall, ClientWorks
<1>6. CASE /\ Response.kind = "init_upload" /\ pc' = "io"
           /\ stream' = [stream EXCEPT !.size = Response.size]
           /\ UNCHANGED <<request, retries, result, outcome>>
  <2>1. stream'.toggle = stream.toggle /\ stream'.closed = stream.closed
    BY <1>6 DEF ClientWorks, TypeOK, ClientTypeOK, Streams
  <2>2. /\ None(toServer, Disturbing) /\ HasBuffer /\ BufferStarts /\ srvToggle = 0
        /\ ~None(InFlight, {"init_upload"})
    BY <1>2, <1>4, <1>6 DEF Ordered
  <2>3. /\ (First <=> First') /\ (Uploading <=> Uploading') /\ ~Writing' /\ ~Opens' /\ ReadsOn'
    <3>1. Uploading' /\ ~Writing'
      BY Zenon DEF Uploading, Writing, ClientWorks
    <3> QED BY <1>6, <3>1 DEF First, Opens, ReadsOn, Pending, ClientWorks
  <2>4. AnswersInv' /\ RequestsInv' /\ HoldsStarts' /\ Ordered'
    BY <1>2, <1>4, FewerAnswers, StillRequests, StoreUnchanged, StillOrdered DEF ClientWorks, CoveredInv
  <2>5. None(InFlight', {"seg_upload"})
    BY <1>2, <1>4, <1>6, BehindFirst DEF Ordered
  <2>6. None(toServer, DownloadKinds) /\ None(toServer, {"seg_upload"})
    BY <2>2 DEF None, Disturbing
  <2>7. KeepsUp'
    <3>1. result = <<>> /\ stream.toggle = 0 /\ StartOfValue(srvBuffer)
      BY <1>4, <2>2 DEF OpensInv, BufferStarts
    <3>2. srvBuffer \in Data
      BY <2>2 DEF ClientWorks, TypeOK, ServerTypeOK, HasBuffer
    <3>3. <<>> \o srvBuffer = srvBuffer
      BY <3>2, ConcatEmptySeq, Zenon DEF Data
    <3> QED BY <1>6, <2>1, <2>2, <3>1, <3>3, Zenon DEF KeepsUp, HasBuffer, StartOfValue, ClientWorks
  <2>8. First => toServer = <<>> /\ InFlight' = <<>>
    <3> SUFFICES ASSUME First PROVE toServer = <<>> /\ InFlight' = <<>>
      OBVIOUS
    <3>1. Len(toServer) + Len(InFlight) <= 1
      BY <1>1, <1>4 DEF CoveredInv, OneAtOnce, UploadsInv
    <3> QED BY <1>1, <1>2, <3>1, OneIsAll DEF ClientWorks
  <2>9. ReadsInv'
    <3>1. /\ None(toServer', DownloadKinds) /\ None(toServer', {"seg_upload"})
          /\ NotBehind(toServer', "seg_upload", UploadKinds)
          /\ NotBehind(InFlight', "seg_upload", {"seg_upload"})
          /\ \A i \in DOMAIN InFlight' : InFlight'[i].kind # "seg_upload"
      BY <1>2, <2>5, <2>6 DEF None, NotBehind
    <3>2. First => None(toServer', {"init_upload"}) /\ None(InFlight', {"init_upload"})
      BY <1>2, <2>8, NoneInEmpty
    <3>3. OpensInv'
      BY <1>4, <1>6, <2>1, Zenon DEF OpensInv
    <3> QED BY <2>3, <2>5, <2>7, <3>1, <3>2, <3>3, Zenon DEF ReadsInv
  <2>10. UploadsInv'
    BY <1>1, <1>4, <1>6, <2>1, <2>3 DEF UploadsInv
  <2>11. First' => OneAtOnce'
    BY <1>2, <1>6, <2>3, <2>8 DEF OneAtOnce
  <2> QED BY <2>3, <2>4, <2>9, <2>10, <2>11, Zenon DEF CoveredInv
<1> QED BY <1>5, <1>6 DEF InitUploadAnswered

LEMMA SegmentUploadLate ==
  ASSUME ClientWorks, CoveredInv, SegmentUploaded, Uploading
  PROVE  CoveredInv'
<1> DEFINE data == result \o Response.data
<1>1. /\ pc = "wait" /\ request.kind = "seg_upload" /\ responses # <<>>
      /\ responses' = Tail(responses) /\ UNCHANGED busVars
      /\ Response.kind = "seg_upload" /\ Response.toggle = stream.toggle
  BY DEF SegmentUploaded, Awaiting
<1>2. /\ InFlight # <<>> /\ InFlight \in Seq(Responses) /\ InFlight' = Tail(InFlight)
      /\ Head(InFlight) = Response /\ InFlight[1] = Response /\ 1 \in DOMAIN InFlight
      /\ Thinned(InFlight', InFlight) /\ toServer' = toServer /\ AddsAbort
      /\ Response \in Responses
      /\ \A kinds : Response.kind \in kinds => ~None(InFlight, kinds)
  BY <1>1, TakenFacts
<1>3. ReadsOn /\ ~Opens
  BY <1>1 DEF Opens, Pending, ReadsOn
<1>4. ReadsInv /\ UploadsInv
  BY <1>3 DEF CoveredInv, ReadsOn
<1>5. /\ HasBuffer /\ StartOfValue(data \o srvBuffer) /\ srvToggle = Flip(stream.toggle)
  BY <1>1, <1>2, <1>4, Zenon DEF ReadsInv
<1>6. data \in Data /\ srvBuffer \in Data
  <2>1. result \in Data /\ Response.data \in Data
    BY <1>1, <1>2, ResponseFields DEF ClientWorks, TypeOK, ClientTypeOK
  <2>2. srvBuffer \in Data
    BY <1>5 DEF ClientWorks, TypeOK, ServerTypeOK, HasBuffer
  <2> QED BY <2>1, <2>2 DEF Data
<1> HIDE DEF data
<1>7. StartOfValue(data)
  BY <1>5, <1>6, FrontIsStart
<1>8. CASE /\ result' = IF stream.size \in 1..Len(data) THEN SubSeq(data, 1, stream.size) ELSE data
           /\ EndCall("ok")
  <2>1. StartOfValue(result')
    <3>1. CASE stream.size \in 1..Len(data)
      <4>1. stream.size \in 0 .. Len(data)
        BY <3>1
      <4>2. result' = SubSeq(data, 1, stream.size)
        BY <1>8, <3>1
      <4> QED BY <1>6, <1>7, <4>1, <4>2, StartIsStart
    <3>2. CASE stream.size \notin 1..Len(data)
      BY <1>7, <1>8, <3>2
    <3> QED BY <3>1, <3>2
  <2> QED BY <1>2, <1>8, <2>1, EndKeepsLate DEF EndCall, ClientWorks
<1>9. CASE /\ result' = data /\ pc' = "io"
           /\ stream' = [stream EXCEPT !.toggle = Flip(@), !.pos = Len(data)]
           /\ UNCHANGED <<request, retries, outcome>>
  <2>1. stream'.toggle = Flip(stream.toggle) /\ stream'.closed = stream.closed
    BY <1>9 DEF ClientWorks, TypeOK, ClientTypeOK, Streams
  <2>2. /\ (First <=> First') /\ (Uploading <=> Uploading') /\ ~Writing' /\ ~Opens' /\ ReadsOn'
    <3>1. Uploading' /\ ~Writing'
      BY Zenon DEF Uploading, Writing, ClientWorks
    <3> QED BY <1>9, <3>1 DEF First, Opens, ReadsOn, Pending, ClientWorks
  <2>3. AnswersInv' /\ RequestsInv' /\ HoldsStarts'
    BY <1>2, FewerAnswers, StillRequests, StoreUnchanged DEF ClientWorks, CoveredInv
  <2>4. First' => Ordered'
    BY <1>2, <2>2, StillOrdered DEF ClientWorks, CoveredInv
  <2>5. None(InFlight', {"seg_upload"})
    BY <1>1, <1>2, <1>4, BehindFirst DEF ReadsInv
  <2>6. None(toServer, UploadKinds) /\ None(toServer, DownloadKinds)
    BY <1>1, <1>2, <1>4 DEF ReadsInv
  <2>7. KeepsUp'
    BY <1>5, <1>9, <2>1, Zenon DEF KeepsUp, HasBuffer, StartOfValue, ClientWorks
  <2>8. ReadsInv'
    <3>1. /\ None(toServer', DownloadKinds) /\ None(toServer', {"seg_upload"})
          /\ None(toServer', {"init_upload"})
          /\ NotBehind(toServer', "seg_upload", UploadKinds)
          /\ NotBehind(InFlight', "seg_upload", {"seg_upload"})
          /\ \A i \in DOMAIN InFlight' : InFlight'[i].kind # "seg_upload"
      BY <1>2, <2>5, <2>6 DEF None, NotBehind, UploadKinds
    <3>2. First => None(InFlight', {"init_upload"})
      BY <1>2, <1>4, ThinnedIsNone DEF ReadsInv
    <3> QED BY <2>2, <2>5, <2>7, <3>1, <3>2, Zenon DEF ReadsInv
  <2>9. UploadsInv'
    BY <1>1, <1>4, <1>9, <2>1, <2>2 DEF UploadsInv
  <2>10. First' => OneAtOnce'
    <3> SUFFICES ASSUME First PROVE OneAtOnce'
      BY <2>2
    <3>1. Len(toServer) + Len(InFlight) <= 1
      BY <1>1, <1>4 DEF CoveredInv, OneAtOnce, UploadsInv
    <3>2. toServer = <<>> /\ InFlight' = <<>>
      BY <1>1, <1>2, <3>1, OneIsAll DEF ClientWorks
    <3> QED BY <1>2, <1>9, <3>2 DEF OneAtOnce
  <2> QED BY <2>2, <2>3, <2>4, <2>8, <2>9, <2>10, Zenon DEF CoveredInv
<1> QED BY <1>8, <1>9 DEF SegmentUploaded, data

\* The request is sent to an emptied queue.
LEMMA SentFacts ==
  ASSUME ClientWorks, SendRequest, MaxRetries = 1
  PROVE  /\ pc = "send" /\ pc' = "wait" /\ UNCHANGED <<stream, request, result, outcome>>
         /\ responses' = <<>> /\ InFlight' = toClient /\ Thinned(InFlight', InFlight)
         /\ toServer \in Seq(Frames) /\ request \in Frames /\ request \in Requests
         /\ toServer' = Append(toServer, request)
         /\ \A kinds : None(toServer, kinds) /\ request.kind \notin kinds => None(toServer', kinds)
         /\ \A kind, kinds :
              /\ NotBehind(toServer, kind, kinds)
              /\ request.kind \notin kinds \/ None(toServer, {kind})
              => NotBehind(toServer', kind, kinds)
         /\ \A i \in DOMAIN toServer' :
              \/ i \in DOMAIN toServer /\ toServer'[i] = toServer[i]
              \/ toServer'[i] = request /\ (toServer = <<>> => i = 1)
         /\ (First <=> First') /\ (Uploading <=> Uploading') /\ (Opens <=> Opens')
         /\ (ReadsOn <=> ReadsOn') /\ (Writing <=> Writing')
<1>1. /\ pc = "send" /\ pc' = "wait" /\ UNCHANGED <<stream, request, result, outcome, toClient>>
      /\ toServer' = Append(toServer, request)
  BY DEF SendRequest
<1>2. retries = 0
  BY DEF ClientWorks, TypeOK, ClientTypeOK
<1>3. responses' = <<>>
  BY <1>2 DEF SendRequest
<1>4. /\ toServer \in Seq(Frames) /\ Len(toServer) \in Nat /\ DOMAIN toServer = 1 .. Len(toServer)
      /\ toClient \in Seq(Responses)
  BY LateTypes, LenProperties DEF ClientWorks
<1>5. InFlight' = toClient
  <2>1. <<>> \o toClient = toClient
    BY <1>4, ConcatEmptySeq
  <2> QED BY <1>1, <1>3, <2>1, Zenon DEF InFlight
<1>6. Thinned(InFlight', InFlight)
  BY <1>1, <1>3, AnswersFlushed DEF ClientWorks
<1>7. request \in Requests /\ request \in Frames
  BY <1>1 DEF ClientWorks, TypeOK, ClientTypeOK, Frames
<1>8. \A kinds : None(toServer, kinds) /\ request.kind \notin kinds => None(toServer', kinds)
  BY <1>1, <1>4, <1>7, AppendedNone, Zenon
<1>9. \A kind, kinds :
              /\ NotBehind(toServer, kind, kinds)
              /\ request.kind \notin kinds \/ None(toServer, {kind})
              => NotBehind(toServer', kind, kinds)
  BY <1>1, <1>4, <1>7, AppendedNotBehind, Zenon
<1>10. ASSUME NEW i \in DOMAIN toServer'
       PROVE  \/ i \in DOMAIN toServer /\ toServer'[i] = toServer[i]
              \/ toServer'[i] = request /\ (toServer = <<>> => i = 1)
  <2> DEFINE q == Append(toServer, request)
  <2>1. /\ Len(q) = Len(toServer) + 1 /\ q[Len(toServer) + 1] = request /\ DOMAIN q = 1 .. Len(q)
        /\ \A j \in 1 .. Len(toServer) : q[j] = toServer[j]
    BY <1>4, <1>7, AppendProperties, LenProperties
  <2> HIDE DEF q
  <2>2. toServer' = q
    BY <1>1 DEF q
  <2>3. i \in 1 .. Len(toServer) \/ i = Len(toServer) + 1
    BY <1>4, <1>10, <2>1, <2>2
  <2>4. CASE i \in 1 .. Len(toServer)
    BY <1>4, <2>1, <2>2, <2>4, Zenon
  <2>5. CASE i = Len(toServer) + 1
    <3>1. q[i] = request
      BY <2>1, <2>5
    <3>2. toServer = <<>> => i = 1
      BY <2>5
    <3> QED BY <2>2, <3>1, <3>2, Zenon
  <2> QED BY <2>3, <2>4, <2>5
<1>11. /\ (First <=> First') /\ (Uploading <=> Uploading') /\ (Opens <=> Opens')
       /\ (ReadsOn <=> ReadsOn') /\ (Writing <=> Writing')
  BY <1>1 DEF First, Uploading, Opens, ReadsOn, Pending, Writing, ClientWorks
<1> QED BY <1>1, <1>3, <1>4, <1>5, <1>6, <1>7, <1>8, <1>9, <1>10, <1>11

LEMMA SentRequests ==
  ASSUME ClientWorks, SendRequest, MaxRetries = 1, RequestsInv,
         request.kind = "seg_upload" => None(toServer, DownloadKinds),
         request.kind \in DownloadKinds =>
           None(toServer, {"seg_upload"}) /\ BufferStarts /\ StartOfValue(<<>>),
         request.kind = "exp_download" => request.data \in GivenValues,
         request.kind = "seg_download" /\ request.data # <<>> =>
           toServer = <<>> /\ HasBuffer /\ StartOfValue(srvBuffer \o request.data)
  PROVE  RequestsInv'
<1>1. \A kinds : None(toServer, kinds) /\ request.kind \notin kinds => None(toServer', kinds)
  BY SentFacts, Zenon
<1>2. "seg_upload" \notin DownloadKinds
  BY DEF DownloadKinds
<1>3. None(toServer', {"seg_upload"}) \/ None(toServer', DownloadKinds)
  <2>1. CASE request.kind = "seg_upload"
    BY <1>1, <1>2, <2>1, Zenon
  <2>2. CASE request.kind \in DownloadKinds
    <3>1. request.kind \notin {"seg_upload"}
      BY <1>2, <2>2
    <3> QED BY <1>1, <2>2, <3>1, Zenon
  <2>3. CASE request.kind \notin DownloadKinds /\ request.kind \notin {"seg_upload"}
    BY <1>1, <2>3, Zenon DEF RequestsInv
  <2> QED BY <2>1, <2>2, <2>3
<1>4. ~None(toServer', DownloadKinds) => BufferStarts /\ StartOfValue(<<>>)
  BY <1>1, Zenon DEF RequestsInv
<1>5. ASSUME NEW i \in DOMAIN toServer'
      PROVE  /\ toServer'[i].kind = "exp_download" => toServer'[i].data \in GivenValues
             /\ toServer'[i].kind = "seg_download" /\ toServer'[i].data # <<>> =>
                  i = 1 /\ HasBuffer /\ StartOfValue(srvBuffer \o toServer'[i].data)
  <2>1. \/ i \in DOMAIN toServer /\ toServer'[i] = toServer[i]
        \/ toServer'[i] = request /\ (toServer = <<>> => i = 1)
    BY SentFacts, Zenon
  <2>2. CASE i \in DOMAIN toServer /\ toServer'[i] = toServer[i]
    BY <2>2, Zenon DEF RequestsInv
  <2>3. CASE toServer'[i] = request /\ (toServer = <<>> => i = 1)
    BY <2>3, Zenon
  <2> QED BY <2>1, <2>2, <2>3
<1> QED
  BY <1>3, <1>4, <1>5, Zenon
     DEF RequestsInv, BufferStarts, HasBuffer, StartOfValue, GivenValues, ClientWorks

LEMMA SentAlone ==
  ASSUME ClientWorks, SendRequest, MaxRetries = 1, OneAtOnce
  PROVE  /\ OneAtOnce' /\ toServer = <<>> /\ InFlight = <<>>
         /\ toServer' = <<request>> /\ InFlight' = <<>>
<1>1. toServer = <<>> /\ InFlight = <<>> /\ pc' = "wait" /\ toServer' = Append(toServer, request)
  BY SentFacts DEF OneAtOnce
<1>2. toServer' = <<request>>
  BY <1>1
<1>3. InFlight' = <<>>
  <2>1. responses \in Seq(Responses) /\ toClient \in Seq(Responses)
    BY LateTypes DEF ClientWorks
  <2>2. Len(responses \o toClient) = Len(responses) + Len(toClient)
        /\ Len(responses) \in Nat /\ Len(toClient) \in Nat
    BY <2>1, ConcatProperties, LenProperties
  <2>3. Len(responses \o toClient) = 0
    BY <1>1 DEF InFlight
  <2>4. Len(toClient) = 0
    BY <2>2, <2>3
  <2>5. toClient = <<>>
    BY <2>1, <2>4, EmptySeq, Zenon
  <2> QED BY <2>5, SentFacts, Zenon
<1>4. Len(toServer') = 1 /\ Len(InFlight') = 0
  BY <1>2, <1>3
<1>5. OneAtOnce'
  <2>1. Len(toServer') + Len(InFlight') <= 1
    BY <1>4
  <2> QED BY <1>1, <2>1, Zenon DEF OneAtOnce
<1> QED BY <1>1, <1>2, <1>3, <1>5

LEMMA SendUploadLate ==
  ASSUME ClientWorks, CoveredInv, SendRequest, MaxRetries = 1, Uploading
  PROVE  CoveredInv'
<1>1. /\ pc = "send" /\ pc' = "wait" /\ UNCHANGED <<stream, request, result, outcome>>
      /\ Thinned(InFlight', InFlight) /\ UNCHANGED <<store, srvBuffer, srvToggle, call, callsLeft>>
      /\ (First <=> First') /\ (Uploading <=> Uploading') /\ (Opens <=> Opens')
      /\ (ReadsOn <=> ReadsOn') /\ (Writing <=> Writing') /\ ~Writing
  BY SentFacts DEF ClientWorks, Uploading, Writing
<1>2. \A kinds : None(toServer, kinds) /\ request.kind \notin kinds => None(toServer', kinds)
  BY SentFacts, Zenon
<1>3. \A kind, kinds :
              /\ NotBehind(toServer, kind, kinds)
              /\ request.kind \notin kinds \/ None(toServer, {kind})
              => NotBehind(toServer', kind, kinds)
  BY SentFacts, Zenon
<1>4. UploadsInv /\ (Opens \/ ReadsOn)
  BY <1>1 DEF CoveredInv, UploadsInv
<1>5. HoldsStarts' /\ AnswersInv'
  BY <1>1, StoreUnchanged, FewerAnswers DEF CoveredInv
<1>6. UploadsInv'
  BY <1>1, <1>4 DEF UploadsInv
<1>7. First => OneAtOnce'
  BY <1>1, <1>4, SentAlone DEF CoveredInv, UploadsInv
<1>8. CASE Opens
  <2>1. request.kind = "init_upload" /\ ~ReadsOn
    BY <1>1, <1>8 DEF Opens, Pending, ReadsOn
  <2>2. request.kind \notin Disturbing /\ request.kind \notin DownloadKinds
        /\ request.kind # "seg_upload"
    BY <2>1 DEF Disturbing, DownloadKinds
  <2>3. RequestsInv'
    <3>1. request.kind # "exp_download" /\ request.kind # "seg_download"
      BY <2>1
    <3> QED BY <2>2, <3>1, SentRequests DEF CoveredInv
  <2>4. Ordered'
    <3>1. Ordered
      BY <1>8 DEF CoveredInv
    <3>2. NotBehind(toServer', "init_upload", Disturbing)
      BY <1>3, <2>2, <3>1, Zenon DEF Ordered
    <3>3. NotBehind(InFlight', "init_upload", {"seg_upload"})
      BY <1>1, <3>1, ThinnedNotBehind DEF Ordered
    <3>4. ~None(InFlight', {"init_upload"}) => ~None(InFlight, {"init_upload"})
      BY <1>1, ThinnedIsNone
    <3>5. ~None(InFlight', {"init_upload"}) =>
            None(toServer', Disturbing) /\ HasBuffer /\ BufferStarts /\ srvToggle = 0
      BY <1>2, <2>2, <3>1, <3>4, Zenon DEF Ordered
    <3> QED BY <1>1, <3>2, <3>3, <3>5, Zenon DEF Ordered, HasBuffer, BufferStarts, StartOfValue
  <2>5. OpensInv'
    BY <1>1, <1>8, Zenon DEF CoveredInv, OpensInv
  <2> QED BY <1>1, <1>5, <1>6, <1>7, <2>1, <2>3, <2>4, <2>5, Zenon DEF CoveredInv
<1>9. CASE ~Opens
  <2>1. ReadsOn /\ request.kind = "seg_upload" /\ ReadsInv
    BY <1>1, <1>4, <1>9 DEF ReadsOn, Pending, CoveredInv
  <2>2. /\ None(toServer, DownloadKinds) /\ None(toServer, {"seg_upload"}) /\ KeepsUp
        /\ None(InFlight, {"seg_upload"})
        /\ First => None(toServer, {"init_upload"}) /\ None(InFlight, {"init_upload"})
    BY <1>1, <2>1 DEF ReadsInv
  <2>3. RequestsInv'
    <3>1. request.kind # "exp_download" /\ request.kind # "seg_download"
          /\ request.kind \notin DownloadKinds
      BY <2>1 DEF DownloadKinds
    <3> QED BY <2>2, <3>1, SentRequests DEF CoveredInv
  <2>4. First' => Ordered'
    <3> SUFFICES ASSUME First PROVE Ordered'
      BY <1>1
    <3>1. Ordered
      BY DEF CoveredInv
    <3>2. NotBehind(toServer', "init_upload", Disturbing)
      BY <1>3, <2>2, <3>1, Zenon DEF Ordered
    <3>3. NotBehind(InFlight', "init_upload", {"seg_upload"})
      BY <1>1, <3>1, ThinnedNotBehind DEF Ordered
    <3>4. None(InFlight', {"init_upload"})
      BY <1>1, <2>2, ThinnedIsNone
    <3> QED BY <3>2, <3>3, <3>4, Zenon DEF Ordered
  <2>5. ReadsInv'
    <3>1. "seg_upload" \notin DownloadKinds /\ "seg_upload" \notin {"init_upload"}
      BY DEF DownloadKinds
    <3>2. /\ None(toServer', DownloadKinds) /\ NotBehind(toServer', "seg_upload", UploadKinds)
          /\ ~None(toServer', {"init_upload"}) => OpensInv
          /\ First => None(toServer', {"init_upload"})
      BY <1>2, <1>3, <2>1, <2>2, <3>1, Zenon DEF ReadsInv
    <3>3. /\ None(InFlight', {"seg_upload"}) /\ (First => None(InFlight', {"init_upload"}))
          /\ NotBehind(InFlight', "seg_upload", {"seg_upload"})
      BY <1>1, <2>1, <2>2, ThinnedIsNone, ThinnedNotBehind DEF ReadsInv
    <3>4. \A i \in DOMAIN InFlight' : InFlight'[i].kind # "seg_upload"
      BY <3>3 DEF None
    <3>5. KeepsUp' /\ (OpensInv => OpensInv')
      BY <1>1, <2>2, Zenon DEF KeepsUp, HasBuffer, StartOfValue, OpensInv
    <3> QED BY <1>1, <3>2, <3>3, <3>4, <3>5, Zenon DEF ReadsInv
  <2> QED BY <1>1, <1>5, <1>6, <1>7, <1>9, <2>3, <2>4, <2>5, Zenon DEF CoveredInv
<1> QED BY <1>8, <1>9

LEMMA ReadSegmentLate ==
  ASSUME ClientWorks, CoveredInv, ReadSegment
  PROVE  CoveredInv'
<1>1. /\ pc = "io" /\ pc' = "send" /\ call.kind = "upload" /\ request'.kind = "seg_upload"
      /\ UNCHANGED <<toServer, toClient, responses, call, stream, result, outcome>>
  BY DEF ReadSegment, RequestResponse, ReqSegUpload, busVars
<1>2. Uploading
  <2>1. call \in Calls /\ call # NoCall
    BY NoCallAssumption DEF ClientWorks, TypeOK, ClientTypeOK
  <2> QED BY <1>1, <2>1 DEF Uploading
<1>3. ReadsOn /\ (First <=> First') /\ Uploading' /\ ~Writing' /\ ~Opens' /\ ReadsOn'
  <2>1. Uploading' /\ ~Writing'
    BY <1>2, Zenon DEF Uploading, Writing, ClientWorks
  <2> QED BY <1>1, <1>2, <2>1 DEF First, Opens, ReadsOn, Pending, ClientWorks
<1>4. InFlight' = InFlight
  BY <1>1, Zenon DEF InFlight
<1>5. HoldsStarts' /\ AnswersInv' /\ RequestsInv'
  <2>1. HoldsStarts'
    BY StoreUnchanged DEF CoveredInv, ClientWorks
  <2>2. AnswersInv' /\ RequestsInv'
    BY <1>1, <1>4, Zenon DEF CoveredInv, ClientWorks, AnswersInv, RequestsInv, BufferStarts,
       HasBuffer, StartOfValue, GivenValues
  <2> QED BY <2>1, <2>2
<1>6. First' => Ordered'
  BY <1>1, <1>3, <1>4, Zenon
     DEF CoveredInv, ClientWorks, Ordered, BufferStarts, HasBuffer, StartOfValue
<1>7. ReadsInv'
  <2>1. ReadsInv /\ pc # "wait" /\ pc' # "wait"
    BY <1>1, <1>3 DEF CoveredInv
  <2> QED
    BY <1>1, <1>3, <1>4, <2>1, Zenon
       DEF ClientWorks, ReadsInv, KeepsUp, HasBuffer, StartOfValue, OpensInv
<1>8. UploadsInv'
  <2>1. UploadsInv /\ pc # "idle" /\ pc' # "idle"
    BY <1>1, <1>2 DEF CoveredInv
  <2> QED BY <1>1, <1>3, <2>1, Zenon DEF UploadsInv
<1>9. First' => OneAtOnce'
  <2>1. First => OneAtOnce
    BY <1>1, <1>2 DEF CoveredInv, UploadsInv
  <2>2. pc # "wait" /\ pc' # "wait"
    BY <1>1
  <2> QED BY <1>1, <1>3, <1>4, <2>1, <2>2, Zenon DEF OneAtOnce
<1> QED BY <1>3, <1>5, <1>6, <1>7, <1>8, <1>9, Zenon DEF CoveredInv

-----------------------------------------------------------------------------
\* The ends of a call.

LEMMA AbortAndRaiseLate ==
  ASSUME ClientWorks, CoveredInv, NEW code \in ClientAbortCodes, AbortAndRaise(code),
         Thinned(InFlight', InFlight)
  PROVE  CoveredInv'
<1>1. AddsAbort /\ Raise
  BY DEF AbortAndRaise, AddsAbort
<1> QED BY <1>1, RaiseKeepsLate DEF ClientWorks

LEMMA RaisesLate ==
  ASSUME ClientWorks, CoveredInv,
         \/ ReadAbort \/ SendRequestFails \/ GiveUpAfterTimeout \/ InitUploadUnexpected
         \/ SegmentUploadUnexpected \/ InitDownloadUnexpected \/ SegmentDownloadUnexpected
  PROVE  CoveredInv'
<1>1. CASE ReadAbort
  <2>1. responses # <<>> /\ responses' = Tail(responses) /\ UNCHANGED busVars /\ Raise
    BY <1>1 DEF ReadAbort
  <2> QED BY <2>1, TakenFacts, RaiseKeepsLate DEF ClientWorks
<1>2. CASE SendRequestFails
  <2>1. /\ responses' \in {<<>>, responses} /\ toClient' = toClient /\ toServer' = toServer
        /\ Raise
    BY <1>2 DEF SendRequestFails
  <2>2. AddsAbort /\ Thinned(InFlight', InFlight)
    BY <2>1, AnswersFlushed DEF AddsAbort, ClientWorks
  <2> QED BY <2>1, <2>2, RaiseKeepsLate DEF ClientWorks
<1>3. CASE GiveUpAfterTimeout
  <2>1. responses' = responses /\ toClient' = toClient /\ AbortAndRaise("timed_out")
    BY <1>3 DEF GiveUpAfterTimeout, AbortAndRaise
  <2>2. Thinned(InFlight', InFlight)
    BY <2>1, AnswersFlushed DEF ClientWorks
  <2> QED BY <2>1, <2>2, AbortAndRaiseLate DEF ClientAbortCodes
<1>4. CASE InitUploadUnexpected
  <2>1. /\ responses # <<>> /\ responses' = Tail(responses) /\ UNCHANGED busVars
        /\ request.kind = "init_upload" /\ EndCall("failed")
    BY <1>4 DEF InitUploadUnexpected, Awaiting
  <2>2. pc' = "idle" /\ (Uploading /\ outcome' = "ok" => StartOfValue(result'))
    <3>1. Uploading => outcome = "running"
      BY DEF ClientWorks, CoveredInv, UploadsInv
    <3> QED BY <2>1, <3>1 DEF EndCall
  <2> QED BY <2>1, <2>2, TakenFacts, EndKeepsLate DEF ClientWorks
<1>5. ASSUME NEW code \in ClientAbortCodes, responses # <<>>, responses' = Tail(responses),
             AbortAndRaise(code)
      PROVE  CoveredInv'
  <2>1. Thinned(InFlight', InFlight)
    <3>1. toClient' = toClient
      BY <1>5 DEF AbortAndRaise
    <3> QED BY <1>5, <3>1, AnswerIsTaken DEF ClientWorks
  <2> QED BY <1>5, <2>1, AbortAndRaiseLate
<1>6. CASE SegmentUploadUnexpected \/ InitDownloadUnexpected \/ SegmentDownloadUnexpected
  <2>1. /\ responses # <<>> /\ responses' = Tail(responses)
        /\ \E code \in ClientAbortCodes : AbortAndRaise(code)
    BY <1>6 DEF SegmentUploadUnexpected, InitDownloadUnexpected, SegmentDownloadUnexpected,
       Awaiting, ClientAbortCodes
  <2> QED BY <1>5, <2>1
<1> QED BY <1>1, <1>2, <1>3, <1>4, <1>6

LEMMA UploadAnswersLate ==
  ASSUME ClientWorks, CoveredInv, pc = "wait", Uploading
  PROVE  request.kind \in UploadKinds
BY DEF ClientWorks, CoveredInv, UploadsInv, Opens, ReadsOn, Pending, UploadKinds

LEMMA DownloadEndsLate ==
  ASSUME ClientWorks, CoveredInv,
         \/ ExpeditedDownloaded \/ StreamClosed
         \/ SegmentDownloaded /\ EndCall("ok")
  PROVE  CoveredInv'
<1>1. /\ pc = "wait" /\ request.kind \in DownloadKinds
      /\ responses # <<>> /\ responses' = Tail(responses)
      /\ UNCHANGED busVars /\ EndCall("ok")
  BY DEF ExpeditedDownloaded, StreamClosed, SegmentDownloaded, Awaiting, DownloadKinds
<1>2. ~Uploading
  BY <1>1, UploadAnswersLate DEF UploadKinds, DownloadKinds
<1>3. pc' = "idle"
  BY <1>1 DEF EndCall
<1> QED BY <1>1, <1>2, <1>3, TakenFacts, EndKeepsLate DEF ClientWorks

-----------------------------------------------------------------------------
\* The steps of a download, which is the first call.

WriterWorks == ClientWorks /\ CoveredInv /\ First /\ Writing

LEMMA WriterFacts ==
  ASSUME WriterWorks
  PROVE  /\ TypeOK /\ pc # "idle" /\ UNCHANGED <<store, srvBuffer, srvToggle, callsLeft, call>>
         /\ WritesInv /\ HoldsStarts /\ AnswersInv /\ RequestsInv /\ Ordered
         /\ (~stream.closed => OneAtOnce /\ WritesStream)
         /\ call.data \in Data /\ call.data \in GivenValues /\ Len(call.data) \in Nat
         /\ stream \in Streams /\ stream.pos \in Nat /\ stream.toggle \in Bit
         /\ First' /\ Writing' /\ ~Uploading' /\ ~Opens' /\ ~ReadsOn' /\ HoldsStarts'
<1>1. /\ TypeOK /\ pc # "idle" /\ UNCHANGED <<store, srvBuffer, srvToggle, callsLeft, call>>
      /\ WritesInv /\ HoldsStarts /\ AnswersInv /\ RequestsInv /\ Ordered
      /\ (~stream.closed => OneAtOnce /\ WritesStream)
  BY DEF WriterWorks, ClientWorks, CoveredInv, WritesInv
<1>2. call.data \in Data /\ call.data \in GivenValues /\ Len(call.data) \in Nat
  <2>1. call.data \in GivenValues
    BY <1>1 DEF WritesInv
  <2> QED BY <2>1, ValuesAreGiven, LenProperties DEF Data
<1>3. stream \in Streams /\ stream.pos \in Nat /\ stream.toggle \in Bit
  BY <1>1 DEF TypeOK, ClientTypeOK, Streams
<1>4. First' /\ Writing'
  BY <1>1, Zenon DEF WriterWorks, First, Writing
<1>5. ~Uploading' /\ ~Opens' /\ ~ReadsOn'
  <2>1. ~Uploading'
    BY <1>4 DEF Writing, Uploading
  <2> QED BY <2>1 DEF Opens, ReadsOn
<1>6. HoldsStarts'
  BY <1>1, StoreUnchanged
<1> QED BY <1>1, <1>2, <1>3, <1>4, <1>5, <1>6

\* What is left to show when the queues lose frames at most.
LEMMA WriterKeeps ==
  ASSUME WriterWorks, AddsAbort, Thinned(InFlight', InFlight),
         ~stream'.closed, ~stream.closed, OneAtOnce', WritesStream',
         pc' \in {"send", "wait"} => request'.kind \in DownloadKinds
  PROVE  CoveredInv'
<1>1. AnswersInv' /\ RequestsInv' /\ Ordered'
  BY WriterFacts, FewerAnswers, StillRequests, StillOrdered
<1>2. None(toServer', UploadKinds) /\ None(InFlight', UploadKinds)
  <2>1. "abort" \notin UploadKinds
    BY DEF UploadKinds
  <2>2. None(toServer, UploadKinds) /\ None(InFlight, UploadKinds)
    BY WriterFacts DEF WritesInv
  <2> QED BY <2>1, <2>2, AbortAdded, ThinnedIsNone, WriterFacts, Zenon
<1>3. BufferStarts' /\ call'.data \in GivenValues
  BY WriterFacts, Zenon DEF WritesInv, BufferStarts, HasBuffer, StartOfValue
<1>4. WritesInv'
  BY <1>2, <1>3, Zenon DEF WritesInv, GivenValues
<1> QED BY <1>1, <1>4, WriterFacts, Zenon DEF CoveredInv

LEMMA InitDownloadLate ==
  ASSUME WriterWorks, InitDownloadAnswered
  PROVE  CoveredInv'
<1>1. /\ pc = "wait" /\ request.kind = "init_download" /\ responses # <<>>
      /\ responses' = Tail(responses) /\ UNCHANGED busVars /\ Response.kind = "download"
      /\ pc' = "io" /\ UNCHANGED <<stream, request, result, outcome>>
  BY DEF InitDownloadAnswered, Awaiting
<1>2. ~stream.closed
  BY <1>1, WriterFacts DEF WritesInv
<1>3. /\ InFlight # <<>> /\ InFlight' = Tail(InFlight) /\ Thinned(InFlight', InFlight)
      /\ toServer' = toServer /\ AddsAbort /\ ~None(InFlight, {"download"})
  BY <1>1, TakenFacts DEF WriterWorks
<1>4. toServer = <<>> /\ InFlight' = <<>>
  <2>1. Len(toServer) + Len(InFlight) <= 1
    BY <1>1, <1>2, WriterFacts DEF OneAtOnce
  <2> QED BY <1>3, <2>1, OneIsAll, WriterFacts
<1>5. OneAtOnce'
  BY <1>1, <1>3, <1>4 DEF OneAtOnce
<1>6. Moved(0) /\ srvToggle = 0 /\ stream.pos = 0 /\ stream.toggle = 0
  BY <1>1, <1>2, <1>3, WriterFacts DEF WritesStream, Pending
<1>7. WritesStream'
  <2>1. Moved(stream.pos)' /\ srvToggle' = stream'.toggle
    BY <1>1, <1>6, WriterFacts, Zenon DEF Moved
  <2>2. pc' \notin {"send", "wait"} /\ pc' = "io"
    BY <1>1
  <2> QED BY <2>1, <2>2, Zenon DEF WritesStream, Pending
<1> QED BY <1>1, <1>2, <1>3, <1>5, <1>7, WriterKeeps

LEMMA SegmentDownloadLate ==
  ASSUME WriterWorks, SegmentDownloaded
  PROVE  CoveredInv'
<1>1. CASE EndCall("ok")
  BY <1>1, DownloadEndsLate DEF WriterWorks
<1>2. CASE ~EndCall("ok")
  <2>1. /\ pc = "wait" /\ request.kind = "seg_download" /\ responses # <<>> /\ ~stream.closed
        /\ responses' = Tail(responses) /\ UNCHANGED busVars /\ Response.kind = "seg_download"
        /\ pc' = "io" /\ stream' = [stream EXCEPT !.pos = @ + Len(request.data)]
    BY <1>2 DEF SegmentDownloaded, Awaiting
  <2>2. stream'.pos = stream.pos + Len(request.data) /\ stream'.toggle = stream.toggle
        /\ stream'.closed = stream.closed
    BY <2>1, WriterFacts DEF Streams
  <2>3. /\ InFlight # <<>> /\ InFlight' = Tail(InFlight) /\ Thinned(InFlight', InFlight)
        /\ toServer' = toServer /\ AddsAbort /\ ~None(InFlight, {"seg_download"})
    BY <2>1, TakenFacts DEF WriterWorks
  <2>4. toServer = <<>> /\ InFlight' = <<>>
    <3>1. Len(toServer) + Len(InFlight) <= 1
      BY <2>1, WriterFacts DEF OneAtOnce
    <3> QED BY <2>3, <3>1, OneIsAll, WriterFacts
  <2>5. OneAtOnce'
    BY <2>1, <2>3, <2>4 DEF OneAtOnce
  <2>6. Moved(stream.pos + Len(request.data)) /\ srvToggle = stream.toggle
    <3>1. WritesSegment
      BY <2>1, WriterFacts DEF WritesStream, Pending
    <3> QED BY <2>3, <3>1, Zenon DEF WritesSegment
  <2>7. WritesStream'
    <3>1. Moved(stream.pos)' /\ srvToggle' = stream'.toggle
      BY <2>2, <2>6, WriterFacts, Zenon DEF Moved
    <3>2. pc' \notin {"send", "wait"} /\ pc' = "io"
      BY <2>1
    <3> QED BY <3>1, <3>2, Zenon DEF WritesStream, Pending
  <2> QED BY <2>1, <2>2, <2>3, <2>5, <2>7, WriterKeeps
<1> QED BY <1>1, <1>2

LEMMA WriteSegmentLate ==
  ASSUME WriterWorks, WriteSegment
  PROVE  CoveredInv'
<1> DEFINE end == IF stream.pos + SegLen < Len(call.data)
                  THEN stream.pos + SegLen ELSE Len(call.data)
           last == end >= stream.size
           bytes == SubSeq(call.data, stream.pos + 1, end)
<1>1. /\ pc = "io" /\ pc' = "send" /\ stream.pos < Len(call.data)
      /\ UNCHANGED busVars /\ responses' = responses
      /\ request' = ReqSegDownload(stream.toggle, bytes, last)
      /\ stream' = [stream EXCEPT !.toggle = Flip(@), !.done = last]
  BY DEF WriteSegment, RequestResponse
<1>2. ~stream.closed /\ Moved(stream.pos) /\ srvToggle = stream.toggle
  <2>1. ~stream.closed
    BY <1>1, WriterFacts DEF WritesInv
  <2> QED BY <1>1, <2>1, WriterFacts DEF WritesStream
<1>3. toServer' = toServer /\ InFlight' = InFlight /\ toServer = <<>> /\ InFlight = <<>>
  <2>1. toServer' = toServer /\ InFlight' = InFlight
    BY <1>1, Zenon DEF InFlight, busVars
  <2>2. toServer = <<>> /\ InFlight = <<>>
    BY <1>1, <1>2, WriterFacts DEF OneAtOnce
  <2> QED BY <2>1, <2>2
<1>4. end \in 0 .. Len(call.data) /\ stream.pos <= end /\ SegLen \in Nat
  BY <1>1, WriterFacts, LengthAssumption
<1>5. Len(bytes) = end - stream.pos
  <2>1. call.data \in Seq(Bytes) /\ stream.pos \in Nat /\ Len(call.data) \in Nat
    BY WriterFacts DEF Data
  <2>2. PICK d \in Seq(Bytes), p \in Nat, e \in Nat : d = call.data /\ p = stream.pos /\ e = end
    BY <1>4, <2>1
  <2>3. e \in 0 .. Len(d) /\ p <= e
    BY <1>4, <2>2, Zenon
  <2>4. Len(SubSeq(d, p + 1, e)) = e - p
    BY <2>3
  <2> QED BY <2>2, <2>4, Zenon
<1> HIDE DEF end
<1>6. stream.pos + Len(bytes) = end
  BY <1>4, <1>5, WriterFacts
<1>7. /\ request'.kind = "seg_download" /\ request'.toggle = stream.toggle /\ request'.data = bytes
      /\ stream'.pos = stream.pos /\ stream'.toggle = Flip(stream.toggle)
      /\ stream'.closed = stream.closed
  BY <1>1, WriterFacts DEF ReqSegDownload, Streams
<1> HIDE DEF bytes, last
<1>8. WritesSegment'
  <2>1. stream'.pos + Len(request'.data) = end
    BY <1>6, <1>7, Zenon
  <2>2. /\ end <= Len(call'.data) /\ request'.data = SubSeq(call'.data, stream'.pos + 1, end)
    <3>1. end <= Len(call.data)
      BY <1>4, WriterFacts
    <3> QED BY <1>7, <3>1, WriterFacts, Zenon DEF bytes
  <2>3. stream'.toggle = Flip(request'.toggle)
    BY <1>7, Zenon
  <2>4. Moved(stream.pos)' /\ srvToggle' = request'.toggle
    BY <1>2, <1>7, WriterFacts, Zenon DEF Moved
  <2>5. None(InFlight', {"seg_download"})
    BY <1>3, NoneInEmpty
  <2> QED BY <2>1, <2>2, <2>3, <2>4, <2>5, Zenon DEF WritesSegment
<1>9. WritesStream'
  <2>1. pc' # "io" /\ pc' \in {"send", "wait"} /\ toServer' = <<>> /\ ~Pending("exp_download")'
        /\ ~Pending("init_download")'
    BY <1>1, <1>3, <1>7 DEF Pending
  <2> QED BY <1>8, <2>1, Zenon DEF WritesStream
<1>10. OneAtOnce'
  BY <1>1, <1>3 DEF OneAtOnce
<1>11. AddsAbort /\ Thinned(InFlight', InFlight)
  <2>1. Thinned(InFlight, InFlight)
    BY SameIsThinned, LateTypes, WriterFacts
  <2> QED BY <1>3, <2>1, Zenon DEF AddsAbort
<1> QED BY <1>2, <1>7, <1>9, <1>10, <1>11, WriterKeeps DEF DownloadKinds

LEMMA CloseEmptyLate ==
  ASSUME ClientWorks, CoveredInv, Writing, CloseEmpty
  PROVE  CoveredInv'
<1>1. /\ pc' = "send" /\ UNCHANGED busVars /\ responses' = responses /\ CloseStream
  BY DEF CloseEmpty, CloseStream, RequestResponse
<1>2. stream'.closed /\ request'.kind = "seg_download" /\ request'.data = <<>>
  BY <1>1 DEF CloseStream, RequestResponse, ReqSegDownload, ClientWorks, TypeOK, ClientTypeOK, Streams
<1>3. AddsAbort /\ Thinned(InFlight', InFlight)
  <2>1. toClient' = toClient /\ toServer' = toServer
    BY <1>1 DEF busVars
  <2> QED BY <1>1, <2>1, AnswersFlushed DEF AddsAbort, ClientWorks
<1> QED BY <1>1, <1>2, <1>3, EndKeepsLate DEF ClientWorks

LEMMA SendDownloadLate ==
  ASSUME WriterWorks, SendRequest, MaxRetries = 1
  PROVE  CoveredInv'
<1>1. /\ pc = "send" /\ pc' = "wait" /\ UNCHANGED <<stream, request, result, outcome>>
      /\ Thinned(InFlight', InFlight) /\ request \in Requests
  BY SentFacts DEF WriterWorks
<1>2. \A kinds : None(toServer, kinds) /\ request.kind \notin kinds => None(toServer', kinds)
  BY SentFacts, Zenon DEF WriterWorks
<1>3. request.kind \in DownloadKinds /\ request.kind \notin UploadKinds
  BY <1>1, WriterFacts DEF WritesInv, DownloadKinds, UploadKinds
<1>4. None(toServer, UploadKinds) /\ None(InFlight, UploadKinds)
  BY WriterFacts DEF WritesInv
<1>5. None(toServer', UploadKinds) /\ None(InFlight', UploadKinds)
  BY <1>1, <1>2, <1>3, <1>4, ThinnedIsNone, Zenon
<1>6. Ordered'
  <2>1. /\ None(toServer', {"init_upload"}) /\ None(InFlight', {"init_upload"})
    BY <1>5 DEF None, UploadKinds
  <2>2. /\ NotBehind(toServer', "init_upload", Disturbing)
        /\ NotBehind(InFlight', "init_upload", {"seg_upload"})
    BY <2>1 DEF None, NotBehind
  <2> QED BY <2>1, <2>2, Zenon DEF Ordered
<1>7. BufferStarts /\ StartOfValue(<<>>)
  <2>1. BufferStarts
    BY WriterFacts DEF WritesInv
  <2>2. StartOfValue(call.data) /\ call.data \in Data /\ 0 \in 0 .. Len(call.data)
    BY WriterFacts, WholeIsStart
  <2>3. StartOfValue(SubSeq(call.data, 1, 0))
    BY <2>2, StartIsStart
  <2>4. SubSeq(call.data, 1, 0) = <<>>
    OBVIOUS
  <2> QED BY <2>1, <2>3, <2>4, Zenon
<1>8. request.kind = "exp_download" => request.data \in GivenValues
  <2> SUFFICES ASSUME request.kind = "exp_download" PROVE request.data \in GivenValues
    OBVIOUS
  <2>1. ~stream.closed
    BY <1>1, WriterFacts DEF WritesInv
  <2> QED BY <1>1, <2>1, WriterFacts DEF WritesStream, Pending
<1>9. ASSUME request.kind = "seg_download", request.data # <<>>
      PROVE  toServer = <<>> /\ HasBuffer /\ StartOfValue(srvBuffer \o request.data)
  <2> DEFINE n == stream.pos + Len(request.data)
  <2>1. ~stream.closed
    BY <1>1, <1>9, WriterFacts DEF WritesInv
  <2>2. /\ n <= Len(call.data) /\ request.data = SubSeq(call.data, stream.pos + 1, n)
        /\ Moved(stream.pos) /\ toServer = <<>>
    <3>1. WritesSegment /\ toServer = <<>>
      BY <1>1, <1>9, <2>1, WriterFacts DEF WritesStream, Pending, OneAtOnce
    <3> QED BY <1>1, <3>1, Zenon DEF WritesSegment
  <2>3. n \in 0 .. Len(call.data) /\ stream.pos <= n /\ stream.pos \in 0 .. Len(call.data)
    <3>1. request.data \in Data
      BY <1>1, <1>9, RequestFields
    <3>2. Len(request.data) \in Nat /\ Len(call.data) \in Nat /\ stream.pos \in Nat
      BY <3>1, WriterFacts, LenProperties DEF Data
    <3>3. PICK k \in Nat, m \in Nat : k = Len(request.data) /\ m = Len(call.data)
      BY <3>2
    <3>4. n = stream.pos + k /\ n <= m
      BY <2>2, <3>3, Zenon
    <3>5. n \in 0 .. m /\ stream.pos <= n /\ stream.pos \in 0 .. m
      BY <3>2, <3>4
    <3> QED BY <3>3, <3>5, Zenon
  <2> HIDE DEF n
  <2>4. srvBuffer \o request.data = SubSeq(call.data, 1, n)
    <3>1. SubSeq(call.data, 1, stream.pos) \o SubSeq(call.data, stream.pos + 1, n)
            = SubSeq(call.data, 1, n)
      BY <2>3, SegmentMoved, WriterFacts
    <3> QED BY <2>2, <3>1, Zenon DEF Moved
  <2>5. StartOfValue(SubSeq(call.data, 1, n))
    BY <2>3, WholeIsStart, StartIsStart, WriterFacts
  <2>6. srvBuffer \in Data
    <3>1. SubSeq(call.data, 1, stream.pos) \in Data
      BY <2>3, SegmentTaken, WriterFacts
    <3> QED BY <2>2, <3>1, Zenon DEF Moved
  <2> QED BY <2>2, <2>4, <2>5, <2>6, ValueAssumption DEF HasBuffer
<1>10. RequestsInv'
  <2>1. None(toServer, {"seg_upload"}) /\ request.kind # "seg_upload"
    BY <1>3, <1>4 DEF None, UploadKinds
  <2> QED BY <1>7, <1>8, <1>9, <2>1, SentRequests, WriterFacts DEF WriterWorks
<1>11. AnswersInv'
  BY <1>1, FewerAnswers, WriterFacts
<1>12. BufferStarts' /\ call'.data \in GivenValues
  BY WriterFacts, Zenon DEF WritesInv, BufferStarts, HasBuffer, StartOfValue
<1>13. ASSUME ~stream'.closed PROVE OneAtOnce' /\ WritesStream'
  <2>1. ~stream.closed
    BY <1>1, <1>13
  <2>2. OneAtOnce' /\ toServer' = <<request>> /\ InFlight' = <<>>
    BY <2>1, WriterFacts, SentAlone DEF WriterWorks
  <2>3. \A kinds : None(InFlight', kinds)
    BY <2>2, NoneInEmpty
  <2>4. WritesStream
    BY <2>1, WriterFacts
  <2>5. WritesSegment => WritesSegment'
    BY <1>1, <2>3, WriterFacts, Zenon DEF WritesSegment, Moved
  <2>6. pc' \in {"send", "wait"} /\ pc \in {"send", "wait"} /\ pc' # "io"
    BY <1>1
  <2>7. toServer' \in {<<>>, <<request>>}
    BY <2>2
  <2> QED
    BY <1>1, <2>2, <2>3, <2>4, <2>5, <2>6, <2>7, WriterFacts, Zenon
       DEF WritesStream, Pending, GivenValues
<1>14. /\ pc' \in {"send", "wait"} => request'.kind \in DownloadKinds
       /\ pc' # "idle" /\ stream'.closed =>
             pc' # "io" /\ request'.kind = "seg_download" /\ request'.data = <<>>
  <2>1. WritesInv
    BY WriterFacts
  <2> QED BY <1>1, <1>3, <2>1 DEF WritesInv
<1>15. WritesInv'
  BY <1>5, <1>12, <1>13, <1>14, Zenon DEF WritesInv, GivenValues
<1> QED BY <1>6, <1>10, <1>11, <1>13, <1>15, WriterFacts, Zenon DEF CoveredInv

-----------------------------------------------------------------------------
\* All the steps.

LEMMA ClientWorksInStep ==
  ASSUME TypeOK, ClientStep
  PROVE  ClientWorks
<1>1. UNCHANGED <<store, srvBuffer, srvToggle, callsLeft>> /\ ApplicationStep
  BY DEF ClientStep, srvVars, boundVars
<1>2. pc # "idle" /\ call' = call
  <2>1. CASE SendRequest \/ SendRequestFails
    BY <2>1 DEF SendRequest, SendRequestFails
  <2>2. CASE RetryAfterTimeout \/ GiveUpAfterTimeout
    BY <2>2 DEF RetryAfterTimeout, GiveUpAfterTimeout
  <2>3. CASE ReadResponse
    BY <2>3 DEF ReadResponse, ReadAbort, InitUploadAnswered, InitUploadUnexpected,
       SegmentUploaded, SegmentUploadUnexpected, ExpeditedDownloaded, InitDownloadAnswered,
       InitDownloadUnexpected, SegmentDownloaded, SegmentDownloadUnexpected, StreamClosed, Awaiting
  <2>4. CASE ReadSegment \/ WriteSegment \/ CloseEmpty
    BY <2>4 DEF ReadSegment, WriteSegment, CloseEmpty
  <2> QED BY <1>1, <2>1, <2>2, <2>3, <2>4 DEF ApplicationStep
<1> QED BY <1>1, <1>2 DEF ClientWorks

LEMMA ClientKeepsCovered ==
  ASSUME TypeOK, Covered, CoveredInv, ClientStep, MaxRetries = 1
  PROVE  CoveredInv'
<1>1. ClientWorks /\ ApplicationStep
  BY ClientWorksInStep DEF ClientStep
<1>2. call \in Calls /\ call # NoCall /\ pc # "idle"
  BY <1>1, NoCallAssumption DEF ClientWorks, TypeOK, ClientTypeOK
<1>3. Uploading \/ (Writing /\ ~Uploading)
  BY <1>2, CallFields DEF Uploading, Writing
<1>4. ~RetryAfterTimeout
  <2>1. retries = 0
    BY DEF TypeOK, ClientTypeOK
  <2> QED BY <2>1 DEF RetryAfterTimeout
<1>5. Writing /\ ~Uploading => WriterWorks
  BY <1>1 DEF Covered, WriterWorks
<1>6. pc = "wait" /\ request.kind \in DownloadKinds => ~Uploading
  BY <1>1, UploadAnswersLate DEF UploadKinds, DownloadKinds
<1>7. pc = "wait" /\ request.kind \in UploadKinds => Uploading
  <2> SUFFICES ASSUME pc = "wait", request.kind \in UploadKinds, Writing, First PROVE FALSE
    BY <1>3, <1>5 DEF WriterWorks
  <2>1. WritesInv
    BY DEF CoveredInv
  <2> QED BY <2>1 DEF WritesInv, UploadKinds, DownloadKinds
<1>8. CASE SendRequest
  BY <1>1, <1>3, <1>5, <1>8, SendUploadLate, SendDownloadLate
<1>9. CASE \/ ReadAbort \/ SendRequestFails \/ GiveUpAfterTimeout \/ InitUploadUnexpected
           \/ SegmentUploadUnexpected \/ InitDownloadUnexpected \/ SegmentDownloadUnexpected
  BY <1>1, <1>9, RaisesLate
<1>10. CASE InitUploadAnswered
  <2>1. Uploading
    BY <1>7, <1>10 DEF InitUploadAnswered, Awaiting, UploadKinds
  <2> QED BY <1>1, <1>10, <2>1, InitUploadLate
<1>11. CASE SegmentUploaded
  <2>1. Uploading
    BY <1>7, <1>11 DEF SegmentUploaded, Awaiting, UploadKinds
  <2> QED BY <1>1, <1>11, <2>1, SegmentUploadLate
<1>12. CASE ExpeditedDownloaded \/ StreamClosed
  BY <1>1, <1>12, DownloadEndsLate
<1>13. CASE InitDownloadAnswered
  <2>1. ~Uploading
    BY <1>6, <1>13 DEF InitDownloadAnswered, Awaiting, DownloadKinds
  <2> QED BY <1>3, <1>5, <1>13, <2>1, InitDownloadLate
<1>14. CASE SegmentDownloaded
  <2>1. ~Uploading
    BY <1>6, <1>14 DEF SegmentDownloaded, Awaiting, DownloadKinds
  <2> QED BY <1>3, <1>5, <1>14, <2>1, SegmentDownloadLate
<1>15. CASE ReadSegment
  BY <1>1, <1>15, ReadSegmentLate
<1>16. CASE WriteSegment
  <2>1. Writing /\ ~Uploading
    BY <1>2, <1>16 DEF WriteSegment, Writing, Uploading
  <2> QED BY <1>5, <1>16, <2>1, WriteSegmentLate
<1>17. CASE CloseEmpty
  <2>1. Writing
    BY <1>2, <1>17 DEF CloseEmpty, Writing
  <2> QED BY <1>1, <1>17, <2>1, CloseEmptyLate
<1> QED
  BY <1>1, <1>4, <1>8, <1>9, <1>10, <1>11, <1>12, <1>13, <1>14, <1>15, <1>16, <1>17
     DEF ApplicationStep, ReadResponse

\* The server, the notifier, the bus and the application of the server's node.
LEMMA OthersKeepCovered ==
  ASSUME TypeOK, TypeOK', CoveredInv,
         \/ NotifierStep \/ ServerStep \/ BusStep
         \/ \E o \in Dictionary, d \in Values : LocalWriteStep(o, d)
  PROVE  CoveredInv'
<1>1. CASE ServerStep
  <2>1. ServerAnswersLate
    BY <1>1 DEF ServerStep, ServerAnswersLate, boundVars
  <2> QED BY <2>1, ServerKeepsLate
<1>2. InFlight \in Seq(Responses) /\ toServer \in Seq(Frames)
  BY LateTypes
<1>3. InFlight' \in Seq(Responses)
  <2>1. responses' \in Seq(Responses) /\ toClient' \in Seq(Responses)
    BY DEF TypeOK, BusTypeOK, ClientTypeOK
  <2> QED BY <2>1, ConcatProperties, Zenon DEF InFlight
<1>4. CASE NotifierStep
  <2>1. /\ UNCHANGED <<pc, call, stream, request, result, outcome, callsLeft>>
        /\ UNCHANGED <<store, srvBuffer, srvToggle>> /\ toServer' = toServer /\ OnResponse
    BY <1>4 DEF NotifierStep, OnResponse, srvVars, boundVars
  <2>2. InFlight' = InFlight
    BY <2>1, AnswerIsDelivered
  <2>3. Thinned(InFlight', InFlight) /\ Len(InFlight') <= Len(InFlight)
    <3>1. Thinned(InFlight, InFlight) /\ Len(InFlight) <= Len(InFlight)
      BY <1>2, SameIsThinned, LateTypes
    <3> QED BY <2>2, <3>1, Zenon
  <2>4. HoldsStarts'
    BY <2>1, StoreUnchanged DEF CoveredInv
  <2> QED BY <1>3, <2>1, <2>3, <2>4, FewerKeepsLate
<1>5. CASE BusStep
  <2>1. /\ UNCHANGED <<pc, call, stream, request, result, outcome, callsLeft, responses>>
        /\ UNCHANGED <<store, srvBuffer, srvToggle>> /\ (LoseRequest \/ LoseResponse)
    BY <1>5 DEF BusStep, clientVars, srvVars, boundVars
  <2>2. HoldsStarts'
    BY <2>1, StoreUnchanged DEF CoveredInv
  <2>3. CASE LoseRequest
    <3>1. toServer # <<>> /\ toServer' = Tail(toServer) /\ toClient' = toClient
      BY <2>3 DEF LoseRequest
    <3>2. InFlight' = InFlight
      BY <2>1, <3>1, Zenon DEF InFlight
    <3>3. Thinned(InFlight', InFlight) /\ Len(InFlight') <= Len(InFlight)
      <4>1. Thinned(InFlight, InFlight) /\ Len(InFlight) <= Len(InFlight)
        BY <1>2, SameIsThinned, LateTypes
      <4> QED BY <3>2, <4>1, Zenon
    <3> QED BY <1>3, <2>1, <2>2, <3>1, <3>3, FewerKeepsLate
  <2>4. CASE LoseResponse
    <3>1. toServer' = toServer /\ toClient # <<>> /\ toClient' = Tail(toClient)
      BY <2>4 DEF LoseResponse
    <3>2. Thinned(InFlight', InFlight) /\ Len(InFlight') <= Len(InFlight)
      BY <2>1, <3>1, AnswerIsLost
    <3> QED BY <1>3, <2>1, <2>2, <3>1, <3>2, FewerKeepsLate
  <2> QED BY <2>1, <2>3, <2>4
<1>6. ASSUME NEW o \in Dictionary, NEW d \in Values, LocalWriteStep(o, d)
      PROVE  CoveredInv'
  <2>1. /\ UNCHANGED <<pc, call, stream, request, result, outcome, callsLeft>>
        /\ UNCHANGED <<srvBuffer, srvToggle>> /\ toServer' = toServer
        /\ responses' = responses /\ toClient' = toClient
        /\ store' = [store EXCEPT ![o] = d]
    BY <1>6 DEF LocalWriteStep, LocalWrite, clientVars, busVars
  <2>2. InFlight' = InFlight
    BY <2>1, Zenon DEF InFlight
  <2>3. Thinned(InFlight', InFlight) /\ Len(InFlight') <= Len(InFlight)
    <3>1. Thinned(InFlight, InFlight) /\ Len(InFlight) <= Len(InFlight)
      BY <1>2, SameIsThinned, LateTypes
    <3> QED BY <2>2, <3>1, Zenon
  <2>4. HoldsStarts'
    <3>1. d \in GivenValues
      BY ValueAssumption DEF GivenValues
    <3>2. StartOfValue(d) /\ HoldsStarts /\ store \in [Dictionary -> Data \cup {NoValue}]
      BY <3>1, WholeIsStart DEF CoveredInv, TypeOK, ServerTypeOK
    <3> QED BY <2>1, <3>2, StoreKeepsStarts
  <2> QED BY <1>3, <2>1, <2>3, <2>4, FewerKeepsLate
<1> QED BY <1>1, <1>4, <1>5, <1>6

\* A call begins.
LEMMA StartedFacts ==
  ASSUME TypeOK, LateInv, callsLeft > 0, callsLeft' = callsLeft - 1, Covered',
         UNCHANGED srvVars, UNCHANGED busVars, responses' = responses
  PROVE  /\ CoveredInv /\ callsLeft' # MaxCalls /\ (First' => IsNew) /\ (First' \/ First)
         /\ InFlight' = InFlight /\ toServer' = toServer
         /\ HoldsStarts' /\ AnswersInv' /\ RequestsInv' /\ Ordered'
<1>1. callsLeft \in 0 .. MaxCalls /\ MaxCalls \in Nat
  BY TransferAssumption DEF TypeOK
<1>2. callsLeft' # MaxCalls /\ (First' => callsLeft = MaxCalls) /\ First /\ (First' \/ First)
  <2>1. First' <=> callsLeft' + 1 >= MaxCalls
    BY Zenon DEF First
  <2>2. First' \/ callsLeft' + 2 = MaxCalls
    BY Zenon DEF Covered
  <2> QED BY <1>1, <2>1, <2>2 DEF First
<1>3. CoveredInv /\ (First' => IsNew)
  BY <1>2 DEF LateInv, Covered
<1>4. InFlight' = InFlight /\ toServer' = toServer
  BY Zenon DEF InFlight, busVars
<1>5. HoldsStarts' /\ AnswersInv' /\ RequestsInv' /\ Ordered'
  <2>1. store' = store /\ srvBuffer' = srvBuffer /\ srvToggle' = srvToggle
    BY DEF srvVars
  <2>2. HoldsStarts'
    BY <1>3, <2>1, StoreUnchanged DEF CoveredInv
  <2>3. AnswersInv /\ RequestsInv /\ Ordered
    BY <1>2, <1>3 DEF CoveredInv
  <2> QED BY <1>4, <2>1, <2>2, <2>3, Zenon DEF AnswersInv, RequestsInv, Ordered, BufferStarts,
          HasBuffer, StartOfValue, GivenValues
<1> QED BY <1>2, <1>3, <1>4, <1>5

LEMMA StartUploadLate ==
  ASSUME TypeOK, LateInv, NEW o \in Objects, StartUpload(o)
  PROVE  LateInv'
<1>1. /\ callsLeft > 0 /\ callsLeft' = callsLeft - 1 /\ UNCHANGED srvVars /\ UNCHANGED busVars
      /\ responses' = responses /\ pc' = "send" /\ stream' = FreshStream /\ result' = <<>>
      /\ outcome' = "running" /\ call' = [kind |-> "upload", obj |-> o]
      /\ request' = ReqInitUpload(o)
  BY DEF StartUpload, StartCall, Upload, RequestResponse
<1>2. call'.kind = "upload" /\ call' # NoCall /\ request'.kind = "init_upload"
      /\ ~stream'.closed /\ stream'.toggle = 0
  <2>1. call' \in Calls
    BY <1>1 DEF Calls
  <2> QED BY <1>1, <2>1, NoCallAssumption DEF ReqInitUpload, FreshStream
<1>3. Uploading' /\ ~Writing' /\ Opens' /\ ~ReadsOn'
  <2>1. Uploading' /\ ~Writing'
    BY <1>2, Zenon DEF Uploading, Writing
  <2> QED BY <1>1, <1>2, <2>1 DEF Opens, ReadsOn, Pending
<1>4. CASE Covered'
  <2>1. /\ callsLeft' # MaxCalls /\ (First' => IsNew)
        /\ InFlight' = InFlight /\ toServer' = toServer
        /\ HoldsStarts' /\ AnswersInv' /\ RequestsInv' /\ Ordered'
    BY <1>1, <1>4, StartedFacts
  <2>2. First' => OneAtOnce'
    BY <1>1, <2>1 DEF OneAtOnce, IsNew
  <2>3. OpensInv' /\ UploadsInv'
    BY <1>1, <1>2, <1>3 DEF OpensInv, UploadsInv
  <2>4. CoveredInv'
    BY <1>3, <2>1, <2>2, <2>3, Zenon DEF CoveredInv
  <2> QED BY <2>1, <2>4, Zenon DEF LateInv
<1>5. CASE ~Covered'
  <2>1. callsLeft' # MaxCalls
    BY <1>1 DEF TypeOK
  <2> QED BY <1>5, <2>1, Zenon DEF LateInv
<1> QED BY <1>4, <1>5

LEMMA StartDownloadLate ==
  ASSUME TypeOK, LateInv, NEW o \in Objects, NEW d \in Values, NEW forced \in BOOLEAN,
         StartDownload(o, d, forced)
  PROVE  LateInv'
<1>1. /\ callsLeft > 0 /\ callsLeft' = callsLeft - 1 /\ UNCHANGED srvVars /\ UNCHANGED busVars
      /\ responses' = responses /\ pc' = "send"
      /\ call' = [kind |-> "download", obj |-> o, data |-> d]
      /\ request' \in {ReqExpDownload(o, d), ReqInitDownload(o)}
      /\ stream'.pos = 0 /\ stream'.toggle = 0 /\ ~stream'.closed
  BY DEF StartDownload, StartCall, Download, RequestResponse, FreshStream
<1>2. d \in GivenValues /\ d \in Data
  BY ValueAssumption DEF GivenValues
<1>3. /\ call'.kind = "download" /\ call' # NoCall /\ call'.data = d
      /\ request'.kind \in {"exp_download", "init_download"}
      /\ request'.kind = "exp_download" => request'.data = d
  <2>1. call' \in Calls
    BY <1>1, <1>2 DEF Calls
  <2> QED BY <1>1, <2>1, NoCallAssumption DEF ReqExpDownload, ReqInitDownload
<1>4. ~Uploading' /\ ~Opens' /\ ~ReadsOn'
  <2>1. ~Uploading'
    BY <1>3 DEF Uploading
  <2> QED BY <2>1 DEF Opens, ReadsOn
<1>5. CASE Covered'
  <2>1. /\ callsLeft' # MaxCalls /\ (First' => IsNew)
        /\ InFlight' = InFlight /\ toServer' = toServer
        /\ HoldsStarts' /\ AnswersInv' /\ RequestsInv' /\ Ordered'
    BY <1>1, <1>5, StartedFacts
  <2>2. First'
    <3>1. First' \/ (callsLeft' + 2 = MaxCalls /\ Uploading')
      BY <1>5, Zenon DEF Covered
    <3> QED BY <1>4, <3>1
  <2>3. toServer' = <<>> /\ InFlight' = <<>> /\ srvBuffer' = NoBuffer
    BY <1>1, <2>1, <2>2 DEF IsNew, srvVars
  <2>4. OneAtOnce'
    BY <1>1, <2>3 DEF OneAtOnce
  <2>5. \A kinds : None(toServer', kinds) /\ None(InFlight', kinds)
    BY <2>3, NoneInEmpty
  <2>6. WritesStream'
    <3>1. pc' # "io" /\ pc' \in {"send", "wait"} /\ ~Pending("seg_download")'
      BY <1>1, <1>3 DEF Pending
    <3>2. Pending("exp_download")' => request'.data \in GivenValues
      BY <1>2, <1>3 DEF Pending
    <3>3. toServer' \in {<<>>, <<request'>>}
      BY <2>3
    <3> QED BY <1>1, <2>5, <3>1, <3>2, <3>3, Zenon DEF WritesStream, GivenValues
  <2>7. WritesInv'
    <3>1. BufferStarts' /\ call'.data \in GivenValues /\ request'.kind \in DownloadKinds
      BY <1>2, <1>3, <2>3 DEF BufferStarts, HasBuffer, DownloadKinds
    <3> QED BY <1>1, <2>5, <2>6, <3>1, Zenon DEF WritesInv, GivenValues
  <2>8. CoveredInv'
    BY <1>4, <2>1, <2>4, <2>7, Zenon DEF CoveredInv
  <2> QED BY <2>1, <2>8, Zenon DEF LateInv
<1>6. CASE ~Covered'
  <2>1. callsLeft' # MaxCalls
    BY <1>1 DEF TypeOK
  <2> QED BY <1>6, <2>1, Zenon DEF LateInv
<1> QED BY <1>5, <1>6

\* Before the first call nothing is there.
LEMMA StaysNew ==
  ASSUME TypeOK, IsNew,
         \/ ClientStep \/ NotifierStep \/ ServerStep \/ BusStep
         \/ \E o \in Dictionary, d \in Values : LocalWriteStep(o, d)
  PROVE  IsNew'
<1>1. toServer = <<>> /\ pc = "idle" /\ toClient = <<>>
  <2>1. Len(responses \o toClient) = 0
    BY DEF IsNew, InFlight
  <2>2. responses \in Seq(Responses) /\ toClient \in Seq(Responses)
    BY LateTypes
  <2>3. Len(toClient) = 0
    BY <2>1, <2>2
  <2> QED BY <2>2, <2>3, EmptySeq DEF IsNew
<1>2. ~ClientStep
  BY <1>1, ClientWorksInStep DEF ClientWorks
<1>3. ~NotifierStep
  BY <1>1 DEF NotifierStep, OnResponse
<1>4. ~ServerStep
  BY <1>1, RequestIsTaken DEF ServerStep
<1>5. ~BusStep
  BY <1>1 DEF BusStep, LoseRequest, LoseResponse
<1>6. PICK o \in Dictionary, d \in Values : LocalWriteStep(o, d)
  BY <1>2, <1>3, <1>4, <1>5
<1>7. UNCHANGED <<pc, call, toServer, responses, toClient, srvBuffer>>
  BY <1>6 DEF LocalWriteStep, LocalWrite, clientVars, busVars
<1> QED BY <1>7, Zenon DEF IsNew, InFlight

LEMMA LateStep ==
  ASSUME TypeOK, TypeOK', LateInv, [Next]_vars, MaxRetries = 1
  PROVE  LateInv'
<1>1. ASSUME NEW o \in Objects, StartUpload(o) PROVE LateInv'
  BY <1>1, StartUploadLate
<1>2. ASSUME NEW o \in Objects, NEW d \in Values, NEW forced \in BOOLEAN,
             StartDownload(o, d, forced)
      PROVE  LateInv'
  BY <1>2, StartDownloadLate
<1>3. CASE \/ ClientStep \/ NotifierStep \/ ServerStep \/ BusStep
           \/ \E o \in Dictionary, d \in Values : LocalWriteStep(o, d)
  <2>1. callsLeft' = callsLeft /\ call' = call
    <3>1. CASE ClientStep
      BY <3>1, ClientWorksInStep DEF ClientWorks
    <3>2. CASE NotifierStep
      BY <3>2 DEF NotifierStep, OnResponse, boundVars
    <3>3. CASE ServerStep \/ BusStep
      BY <3>3 DEF ServerStep, BusStep, clientVars, boundVars
    <3>4. CASE \E o \in Dictionary, d \in Values : LocalWriteStep(o, d)
      BY <3>4 DEF LocalWriteStep, clientVars
    <3> QED BY <1>3, <3>1, <3>2, <3>3, <3>4
  <2>2. Covered' <=> Covered
    BY <2>1, Zenon DEF Covered, First, Uploading
  <2>3. callsLeft' = MaxCalls => IsNew'
    BY <1>3, <2>1, StaysNew DEF LateInv
  <2>4. Covered => CoveredInv'
    BY <1>3, ClientKeepsCovered, OthersKeepCovered DEF LateInv
  <2> QED BY <2>2, <2>3, <2>4, Zenon DEF LateInv
<1>4. CASE UNCHANGED vars
  <2>1. /\ UNCHANGED <<pc, call, stream, request, result, outcome, callsLeft, responses>>
        /\ UNCHANGED <<store, srvBuffer, srvToggle>> /\ toServer' = toServer /\ toClient' = toClient
    BY <1>4 DEF vars, busVars, clientVars, srvVars, boundVars
  <2>2. InFlight' = InFlight
    BY <2>1, Zenon DEF InFlight
  <2>3. Covered' <=> Covered
    BY <2>1, Zenon DEF Covered, First, Uploading
  <2>4. InFlight \in Seq(Responses) /\ Thinned(InFlight, InFlight) /\ Len(InFlight) <= Len(InFlight)
    BY LateTypes, SameIsThinned
  <2>5. InFlight' \in Seq(Responses) /\ Thinned(InFlight', InFlight) /\ Len(InFlight') <= Len(InFlight)
    BY <2>2, <2>4, Zenon
  <2>6. CoveredInv => CoveredInv'
    <3> SUFFICES ASSUME CoveredInv PROVE CoveredInv'
      OBVIOUS
    <3>1. HoldsStarts'
      BY <2>1, StoreUnchanged DEF CoveredInv
    <3> QED BY <2>1, <2>5, <3>1, FewerKeepsLate
  <2>7. IsNew => IsNew'
    BY <2>1, <2>2, Zenon DEF IsNew
  <2> QED BY <2>1, <2>3, <2>6, <2>7, Zenon DEF LateInv
<1> QED BY <1>1, <1>2, <1>3, <1>4 DEF Next

LEMMA LateInit == Init => LateInv
<1> SUFFICES ASSUME Init PROVE LateInv
  OBVIOUS
<1>1. /\ toServer = <<>> /\ toClient = <<>> /\ responses = <<>> /\ pc = "idle" /\ call = NoCall
      /\ srvBuffer = NoBuffer /\ store = InitialValue
  BY DEF Init, BusInit, ClientInit, ServerInit
<1>2. InFlight = <<>>
  <2>1. <<>> \o <<>> = <<>>
    OBVIOUS
  <2> QED BY <1>1, <2>1, Zenon DEF InFlight
<1>3. IsNew
  BY <1>1, <1>2 DEF IsNew
<1>4. \A kinds : None(toServer, kinds) /\ None(InFlight, kinds)
  BY <1>1, <1>2, NoneInEmpty
<1>5. \A kind, kinds : NotBehind(toServer, kind, kinds) /\ NotBehind(InFlight, kind, kinds)
  BY <1>1, <1>2, NoneInEmpty
<1>6. HoldsStarts
  <2>1. ASSUME NEW o \in Dictionary, store[o] # NoValue PROVE StartOfValue(store[o])
    <3>1. store[o] \in GivenValues
      BY <1>1, <2>1 DEF GivenValues
    <3> QED BY <3>1, WholeIsStart
  <2> QED BY <2>1 DEF HoldsStarts
<1>7. DOMAIN toServer = {} /\ DOMAIN InFlight = {}
  BY <1>1, <1>2
<1>8. AnswersInv /\ RequestsInv /\ Ordered
  BY <1>4, <1>5, <1>7, Zenon DEF AnswersInv, RequestsInv, Ordered
<1>9. ~Uploading /\ ~Writing /\ ~Opens /\ ~ReadsOn
  BY <1>1 DEF Uploading, Writing, Opens, ReadsOn
<1>10. CoveredInv
  BY <1>1, <1>6, <1>8, <1>9, Zenon DEF CoveredInv
<1> QED BY <1>3, <1>10, Zenon DEF LateInv

LEMMA LateImplies ==
  ASSUME TypeOK, LateInv
  PROVE  UploadNeverMixes
<1> SUFFICES ASSUME OneCallBefore, Finished("upload")
             PROVE  \E d \in GivenValues : result \in Prefixes(d)
  BY DEF UploadNeverMixes
<1>1. Uploading /\ pc = "idle" /\ outcome = "ok"
  BY DEF Finished, Uploading
<1>2. Covered
  <2>1. callsLeft \in 0 .. MaxCalls /\ MaxCalls \in Nat
    BY TransferAssumption DEF TypeOK
  <2>2. callsLeft + 2 >= MaxCalls
    BY DEF OneCallBefore
  <2>3. callsLeft + 1 >= MaxCalls \/ callsLeft + 2 = MaxCalls
    BY <2>1, <2>2
  <2> QED BY <1>1, <2>3, Zenon DEF Covered, First
<1>3. StartOfValue(result)
  BY <1>1, <1>2 DEF LateInv, CoveredInv, UploadsInv
<1> QED BY <1>3 DEF StartOfValue

\* Without repeated requests the late answers of one abandoned call do not splice
\* values: what an upload returns is the start of one value that an application gave
\* (request_response, ReadableStream and init_upload).
THEOREM UploadsDoNotMix == Spec => []UploadNeverMixes
<1>1. CASE MaxRetries = 1
  <2>1. Init => LateInv
    BY LateInit
  <2>2. TypeOK /\ TypeOK' /\ LateInv /\ [Next]_vars => LateInv'
    BY <1>1, LateStep
  <2>3. TypeOK /\ LateInv => UploadNeverMixes
    BY LateImplies
  <2> QED
    BY <2>1, <2>2, <2>3, TypeCorrect, PTL DEF Spec
<1>2. CASE MaxRetries # 1
  <2>1. TypeOK => UploadNeverMixes
    BY <1>2 DEF UploadNeverMixes
  <2> QED BY <2>1, TypeCorrect, PTL DEF Spec
<1> QED BY <1>1, <1>2

-----------------------------------------------------------------------------
\* On a bus that loses nothing, where every send succeeds and answers come in time,
\* the transfers implement atomic access to objects: each step is a step of
\* AtomicObjects or changes nothing there.
\*
\* The invariant says where a call stands: its request is still to be handled, or it
\* has been answered, and then with the answer that fits.

Calm == Prompt /\ MaxLosses = 0 /\ MaxSendFailures = 0

Nothing == toServer = <<>> /\ toClient = <<>> /\ responses = <<>>

\* The server has not handled the request yet.
Asking ==
  \/ pc = "send" /\ Nothing
  \/ pc = "wait" /\ toServer = <<request>> /\ toClient = <<>> /\ responses = <<>>

\* It has, and this is the answer.
Answered(f) ==
  /\ pc = "wait" /\ toServer = <<>>
  /\ \/ toClient = <<f>> /\ responses = <<>>
     \/ toClient = <<>> /\ responses = <<f>>

Progress ==
  /\ pc \in {"idle", "io"} => Nothing
  /\ pc \in {"send", "wait"} => Asking \/ \E f \in Responses : Answered(f)
  /\ pc # "idle" => outcome = "running" /\ (call.kind = "download" => result = <<>>)

InitUploadFits ==
  Pending("init_upload") =>
    \A f : Answered(f) =>
      \/ f = RspAbort
      \/ f.kind \in {"exp_upload", "init_upload"} /\ f.obj = call.obj

SegUploadFits ==
  Pending("seg_upload") =>
    /\ Asking => srvToggle = stream.toggle
    /\ \A f : Answered(f) => f.kind = "seg_upload" /\ f.toggle = stream.toggle

ExpDownloadFits ==
  Pending("exp_download") =>
    /\ stream.expedited
    /\ Asking => commits = <<>>
    /\ \A f : Answered(f) =>
         IF commits = <<>> THEN f = RspAbort ELSE f.kind = "download"

InitDownloadFits ==
  Pending("init_download") => \A f : Answered(f) => f.kind = "download"

SegDownloadFits ==
  Pending("seg_download") =>
    /\ Asking => srvToggle = request.toggle /\ Moved(stream.pos) /\ commits = <<>>
    /\ \A f : Answered(f) =>
         \/ f.kind = "seg_download" /\ (request.last <=> commits # <<>>)
         \/ f = RspAbort /\ request.last /\ commits = <<>>

Fits ==
  /\ InitUploadFits /\ SegUploadFits
  /\ ExpDownloadFits /\ InitDownloadFits /\ SegDownloadFits

CalmInv == Progress /\ Fits

-----------------------------------------------------------------------------
\* What the mapping makes of the states of a call.

AnsweredUpload ==
  \A f : Answered(f) =>
    /\ f = RspAbort => Phase = "refused" /\ Answer = <<>>
    /\ f.kind = "exp_upload" => Phase = "applied" /\ Answer = f.data
    /\ f.kind = "init_upload" => Phase = "applied" /\ Answer = srvBuffer
    /\ f.kind = "seg_upload" =>
         Phase = "applied" /\ Answer = (result \o f.data) \o srvBuffer

AnsweredDownload ==
  \A f : Answered(f) =>
    /\ Answer = <<>>
    /\ commits # <<>> => Phase = "applied"
    /\ commits = <<>> => Phase = IF f = RspAbort THEN "refused" ELSE "pending"

Stages ==
  /\ pc = "idle" => Phase = "idle" /\ Answer = result
  /\ (Uploading /\ pc = "io") \/ (Asking /\ Pending("seg_upload")) =>
       Phase = "applied" /\ Answer = result \o srvBuffer
  /\ (Downloading /\ pc = "io") \/ (Asking /\ ~Pending("seg_upload")) =>
       Phase = "pending" /\ Answer = <<>>
  /\ Uploading => AnsweredUpload
  /\ Downloading => AnsweredDownload

LEMMA OneInFlight ==
  ASSUME NEW f \in Responses, NEW s, NEW t,
         (s = <<f>> /\ t = <<>>) \/ (s = <<>> /\ t = <<f>>)
  PROVE  s \o t = <<f>>
<1>1. <<f>> \in Seq(Responses)
  OBVIOUS
<1> QED
  BY <1>1, ConcatEmptySeq

\* What kind of call makes the request that is under way.
LEMMA RequestOfCall ==
  ASSUME TypeOK, OnlyUploads, OnlyDownloads, Progress, pc \in {"send", "wait"}
  PROVE  /\ call \in Calls /\ call # NoCall /\ request \in Requests
         /\ request.kind \in UploadKinds => Uploading
         /\ request.kind \in DownloadKinds => Downloading
         /\ request.kind \in UploadKinds \cup DownloadKinds
         /\ Uploading => request.kind \in UploadKinds
         /\ Downloading => request.kind \in DownloadKinds
<1>1. call \in Calls /\ call # NoCall /\ request \in Requests /\ outcome = "running"
  BY NoCallAssumption DEF TypeOK, ClientTypeOK, Progress
<1>2. /\ call.kind \in {"upload", "download"}
      /\ call.kind = "upload" => request.kind \in UploadKinds
      /\ call.kind = "download" => request.kind \in DownloadKinds
  BY <1>1, CallFields DEF OnlyUploads, OnlyDownloads
<1> QED
  BY <1>1, <1>2 DEF Uploading, Downloading, UploadKinds, DownloadKinds

LEMMA AnsweredKind ==
  ASSUME TypeOK, NEW f, Answered(f)
  PROVE  f \in Responses /\ responses \o toClient = <<f>>
<1>1. toClient \in Seq(Responses) /\ responses \in Seq(Responses)
  BY DEF TypeOK, BusTypeOK, ClientTypeOK
<1>2. f \in Responses
  <2>1. <<f>> \in Seq(Responses) /\ <<f>>[1] = f /\ 1 \in 1..Len(<<f>>)
    BY <1>1 DEF Answered
  <2> QED
    BY <2>1, ElementOfSeq
<1>3. (responses = <<f>> /\ toClient = <<>>) \/ (responses = <<>> /\ toClient = <<f>>)
  BY DEF Answered
<1> QED
  BY <1>2, <1>3, OneInFlight

LEMMA StagesHold ==
  ASSUME TypeOK, OnlyUploads, Kept, CalmInv
  PROVE  Stages
<1>1. Progress /\ OnlyDownloads /\ PhaseInv
  BY DEF CalmInv, Kept
<1>2. pc = "idle" => Phase = "idle" /\ Answer = result
  BY DEF Phase, Answer
<1>3. ASSUME Uploading, pc = "io" PROVE Phase = "applied" /\ Answer = result \o srvBuffer
  <2>1. InFlight = <<>> /\ PickedUp
    BY <1>1, <1>3 DEF Progress, Nothing, InFlight, PickedUp, Uploading
  <2> QED
    BY <1>3, <2>1 DEF Phase, Answer
<1>4. ASSUME Downloading, pc = "io" PROVE Phase = "pending" /\ Answer = <<>>
  <2>1. InFlight = <<>> /\ commits = <<>> /\ ~PickedUp
    BY <1>1, <1>4
       DEF Progress, Nothing, InFlight, PickedUp, Downloading, PhaseInv, DownloadIo
  <2> QED
    BY <1>4, <2>1 DEF Phase, Answer
<1>5. ASSUME Asking PROVE InFlight = <<>> /\ pc \in {"send", "wait"}
  BY <1>5 DEF Asking, Nothing, InFlight
<1>6. ASSUME Asking, Pending("seg_upload")
      PROVE  Phase = "applied" /\ Answer = result \o srvBuffer
  <2>1. Uploading /\ InFlight = <<>> /\ pc \in {"send", "wait"}
    BY <1>1, <1>5, <1>6, RequestOfCall DEF Pending, UploadKinds
  <2>2. PickedUp
    BY <1>6, <2>1 DEF PickedUp, Uploading, Pending
  <2> QED
    BY <2>1, <2>2 DEF Phase, Answer
<1>7. ASSUME Asking, ~Pending("seg_upload")
      PROVE  Phase = "pending" /\ Answer = <<>>
  <2>1. InFlight = <<>> /\ pc \in {"send", "wait"} /\ ~PickedUp
    BY <1>5, <1>7 DEF PickedUp, Pending
  <2>2. commits = <<>>
    BY <1>1, <1>7, <2>1, RequestOfCall
       DEF CalmInv, Fits, ExpDownloadFits, SegDownloadFits, PhaseInv, DownloadInit,
       UploadKinds, DownloadKinds, OnlyUploads, Uploading, Pending
  <2> QED
    BY <2>1, <2>2 DEF Phase, Answer
<1>8. ASSUME Uploading PROVE AnsweredUpload
  <2> SUFFICES ASSUME NEW f, Answered(f)
               PROVE  /\ f = RspAbort => Phase = "refused" /\ Answer = <<>>
                      /\ f.kind = "exp_upload" => Phase = "applied" /\ Answer = f.data
                      /\ f.kind = "init_upload" => Phase = "applied" /\ Answer = srvBuffer
                      /\ f.kind = "seg_upload" =>
                           Phase = "applied" /\ Answer = (result \o f.data) \o srvBuffer
    BY DEF AnsweredUpload
  <2>1. /\ InFlight = <<f>> /\ InFlight # <<>> /\ Head(InFlight) = f /\ pc = "wait"
        /\ request.kind \in UploadKinds /\ commits = <<>>
    BY <1>1, <1>8, AnsweredKind, RequestOfCall DEF InFlight, Answered, OnlyUploads, Uploading
  <2>2. CASE f = RspAbort
    <3>1. request.kind # "seg_upload" /\ f.kind = "abort"
      BY <2>1, <2>2 DEF CalmInv, Fits, SegUploadFits, Pending, RspAbort
    <3>2. ~PickedUp
      BY <2>1, <3>1 DEF PickedUp
    <3> QED
      BY <2>1, <2>2, <3>1, <3>2 DEF Phase, Answer
  <2>3. CASE f.kind \in {"exp_upload", "init_upload", "seg_upload"}
    <3>1. PickedUp /\ f # RspAbort
      BY <1>8, <2>1, <2>3 DEF PickedUp, Uploading, RspAbort
    <3> QED
      BY <2>1, <2>3, <3>1 DEF Phase, Answer
  <2> QED
    BY <2>2, <2>3
<1>9. ASSUME Downloading PROVE AnsweredDownload
  <2> SUFFICES ASSUME NEW f, Answered(f)
               PROVE  /\ Answer = <<>>
                      /\ commits # <<>> => Phase = "applied"
                      /\ commits = <<>> =>
                           Phase = IF f = RspAbort THEN "refused" ELSE "pending"
    BY DEF AnsweredDownload
  <2>1. InFlight = <<f>> /\ pc = "wait" /\ ~PickedUp
    BY <1>1, <1>9, AnsweredKind DEF InFlight, Answered, PickedUp, Downloading
  <2>2. (f = RspAbort) = (InFlight = <<RspAbort>>)
    BY <2>1
  <2>3. Answer = <<>>
    BY <2>1 DEF Answer
  <2>5. commits # <<>> => Phase = "applied"
    <3>1. request.kind \in DownloadKinds
      BY <1>1, <1>9, <2>1, RequestOfCall
    <3>2. f = RspAbort => commits = <<>>
      BY <2>1, <3>1 DEF CalmInv, Fits, ExpDownloadFits, InitDownloadFits, SegDownloadFits,
         Pending, DownloadKinds, RspAbort
    <3>3. commits # <<>> => InFlight # <<RspAbort>>
      BY <2>2, <3>2
    <3> QED
      BY <2>1, <3>3 DEF Phase
  <2>4. commits = <<>> => Phase = IF f = RspAbort THEN "refused" ELSE "pending"
    BY <2>1, <2>2 DEF Phase
  <2> QED
    BY <2>3, <2>4, <2>5
<1> QED
  BY <1>2, <1>3, <1>4, <1>6, <1>7, <1>8, <1>9 DEF Stages

-----------------------------------------------------------------------------
\* The steps of the server.

Maps == [Atomic!Next]_(Atomic!vars)

\* What is shown of each step.
Refines == CalmInv' /\ (Stages /\ Stages' => Maps)

LEMMA CalmBus ==
  ASSUME Calm, TypeOK
  PROVE  /\ lossesLeft = 0 /\ sendFailuresLeft = 0
         /\ ~BusStep /\ ~SendRequestFails
         /\ \A o, r : SendResponse(o, r) => toClient' = Append(toClient, r)
<1>1. lossesLeft = 0 /\ sendFailuresLeft = 0
  BY DEF Calm, TypeOK, BusTypeOK
<1>2. ~BusStep /\ ~SendRequestFails
  BY <1>1, RetriesAssumption DEF BusStep, LoseRequest, LoseResponse, SendRequestFails
<1>3. \A o, r : SendResponse(o, r) => toClient' = Append(toClient, r)
  BY <1>1 DEF SendResponse
<1> QED
  BY <1>1, <1>2, <1>3

\* The server handles the request that the client waits for.
Serving ==
  /\ ValueInv /\ CalmInv /\ Handling /\ TypeOK'
  /\ Asking /\ pc = "wait" /\ pc' = "wait" /\ toServer' = <<>>
  /\ UNCHANGED <<call, outcome, stream, request, result>>

LEMMA ServesRequest ==
  ASSUME Calm, ValueInv, CalmInv, ServerStep
  PROVE  Serving
<1>1. TypeOK /\ Exchange /\ AskedIsRequest /\ Progress /\ OnRequest
  BY DEF ValueInv, IInv, CalmInv, ServerStep
<1>2. toServer # <<>> /\ toServer' = Tail(toServer)
  BY <1>1, ServerAnswers
<1>3. Asking /\ pc = "wait" /\ toServer = <<request>> /\ request \in Requests
  BY <1>1, <1>2 DEF Progress, Nothing, Asking, Answered, TypeOK, ClientTypeOK
<1>4. Head(toServer) = request /\ toServer' = <<>>
  BY <1>2, <1>3
<1>5. Handling
  BY <1>1, <1>3, <1>4, HandlesRequest DEF Requests
<1>6. TypeOK'
  BY <1>1, TypeStep DEF Next
<1> QED
  BY <1>3, <1>4, <1>5, <1>6 DEF Serving, Handling

\* The answer that a handler sends is the one that is under way after it.
LEMMA Serves ==
  ASSUME Calm, Serving, NEW f, NEW o,
         SendResponse(o, f) \/ (f = RspAbort /\ o \in Objects /\ AbortTransfer(o))
  PROVE  Answered(f)' /\ (\A g : Answered(g)' => g = f) /\ ~Asking' /\ Progress'
<1>1. /\ toClient = <<>> /\ responses' = <<>> /\ pc' = "wait" /\ toServer' = <<>>
      /\ TypeOK /\ TypeOK' /\ Progress /\ pc # "idle"
      /\ UNCHANGED <<call, outcome, stream, request, result>>
  BY DEF Serving, Handling, CalmInv
<1>2. toClient' = <<f>>
  <2>1. SendResponse(o, f) => toClient' = Append(toClient, f)
    BY <1>1, CalmBus
  <2>2. f = RspAbort /\ o \in Objects /\ AbortTransfer(o) => toClient' = Append(toClient, f)
    BY <1>1, CalmBus, DictionaryAssumption DEF AbortTransfer
  <2> QED
    BY <1>1, <2>1, <2>2
<1>3. Answered(f)' /\ ~Asking'
  BY <1>1, <1>2 DEF Answered, Asking
<1>4. \A g : Answered(g)' => g = f
  BY <1>1, <1>2 DEF Answered
<1>5. f \in Responses
  <2>1. <<f>> \in Seq(Responses) /\ <<f>>[1] = f /\ 1 \in 1..Len(<<f>>)
    BY <1>1, <1>2 DEF TypeOK, BusTypeOK
  <2> QED
    BY <2>1, ElementOfSeq
<1>6. Progress'
  BY <1>1, <1>3, <1>5 DEF Progress
<1> QED
  BY <1>3, <1>4, <1>6

\* The request names the call that is under way.
LEMMA ServedCall ==
  ASSUME Serving
  PROVE  /\ TypeOK /\ Holds /\ PhaseInv /\ Fits
         /\ call \in Calls /\ call # NoCall /\ request \in Requests
         /\ request.kind \in UploadKinds => Uploading /\ Uploading' /\ commits = <<>>
         /\ request.kind \in DownloadKinds => Downloading /\ Downloading'
         /\ request.kind \in UploadKinds \cup DownloadKinds
         /\ \A kind : Pending(kind) <=> request.kind = kind
         /\ \A kind : Pending(kind)' <=> request.kind = kind
         /\ Head(toServer) = request
<1>1. /\ TypeOK /\ OnlyUploads /\ OnlyDownloads /\ Progress /\ Holds /\ PhaseInv /\ Fits
      /\ pc = "wait" /\ pc' = "wait" /\ request' = request /\ call' = call
      /\ outcome' = outcome /\ Head(toServer) = request
  BY DEF Serving, Handling, ValueInv, IInv, Kept, CalmInv
<1>2. /\ call \in Calls /\ call # NoCall /\ request \in Requests
      /\ request.kind \in UploadKinds => Uploading
      /\ request.kind \in DownloadKinds => Downloading
      /\ request.kind \in UploadKinds \cup DownloadKinds
  BY <1>1, RequestOfCall
<1>3. (Uploading => Uploading' /\ commits = <<>>) /\ (Downloading => Downloading')
  BY <1>1 DEF Uploading, Downloading, OnlyUploads
<1>4. \A kind : (Pending(kind) <=> request.kind = kind) /\ (Pending(kind)' <=> request.kind = kind)
  BY <1>1 DEF Pending
<1> QED
  BY <1>1, <1>2, <1>3, <1>4

LEMMA InitUploadRefines ==
  ASSUME Calm, Serving, ServerStep, request.kind = "init_upload"
  PROVE  Refines
<1>1. /\ Uploading /\ Uploading' /\ call \in Calls /\ commits = <<>>
      /\ TypeOK /\ Holds /\ PhaseInv /\ Head(toServer) = request
      /\ \A kind : Pending(kind) <=> kind = "init_upload"
      /\ \A kind : Pending(kind)' <=> kind = "init_upload"
  BY ServedCall DEF UploadKinds
<1>2. request = ReqInitUpload(call.obj) /\ request.obj = call.obj /\ call.obj \in Objects
  BY <1>1, CallFields DEF PhaseInv, UploadInit, ReqInitUpload
<1>3. /\ Asking /\ call' = call
      /\ Stages => Phase = "pending" /\ Answer = <<>>
  BY <1>1 DEF Serving, Stages
<1>4. call.kind = "upload"
  BY <1>1 DEF Uploading
<1>5. ASSUME NEW f, Answered(f)', \A g : Answered(g)' => g = f, Progress',
             \/ f = RspAbort
             \/ f.kind \in {"exp_upload", "init_upload"} /\ f.obj = call.obj
      PROVE  CalmInv'
  BY <1>1, <1>3, <1>5 DEF CalmInv, Fits, InitUploadFits, SegUploadFits, ExpDownloadFits,
     InitDownloadFits, SegDownloadFits
<1>6. InitUploadExpedited \/ InitUploadSegmented \/ InitUploadRefused
  BY <1>1
     DEF ServerStep, OnRequest, SegmentedUpload, InitDownloadExpedited,
     InitDownloadSegmented, SegmentedDownload, SegmentedDownloadRefused, SegmentRefused,
     RequestAborted, Request
<1>7. store' = store
  BY <1>6 DEF InitUploadExpedited, InitUploadSegmented, InitUploadRefused
<1>8. ASSUME Available(call.obj), store[call.obj] # <<>>
      PROVE  Atomic!Readable1(call.obj)
  BY <1>8 DEF Available, Atomic!Readable1
<1>9. CASE InitUploadExpedited
  <2>0. PICK f : f = RspExpUpload(call.obj, store[call.obj])
    OBVIOUS
  <2>1. /\ Available(call.obj) /\ Len(store[call.obj]) \in 1..ExpLen
        /\ SendResponse(call.obj, f)
    BY <1>1, <1>2, <1>9, <2>0 DEF InitUploadExpedited
  <2>2. f.kind = "exp_upload" /\ f.obj = call.obj /\ f.data = store[call.obj]
    BY <2>0 DEF RspExpUpload
  <2>3. Answered(f)' /\ (\A g : Answered(g)' => g = f) /\ Progress'
    BY <2>1, Serves
  <2>4. Stages' => Phase' = "applied" /\ Answer' = store[call.obj]
    BY <1>1, <2>2, <2>3 DEF Stages, AnsweredUpload
  <2>5. Atomic!Readable1(call.obj)
    BY <1>8, <2>1
  <2>6. Stages /\ Stages' => Atomic!ApplyUpload
    BY <1>3, <1>4, <1>7, <2>4, <2>5 DEF Atomic!ApplyUpload
  <2> QED
    BY <1>5, <2>2, <2>3, <2>6 DEF Refines, Maps, Atomic!Next, Atomic!Apply
<1>10. CASE InitUploadSegmented
  <2>0. PICK f : f = RspInitUpload(call.obj, Len(store[call.obj]))
    OBVIOUS
  <2>1. /\ Available(call.obj) /\ Len(store[call.obj]) > ExpLen
        /\ srvBuffer' = store[call.obj] /\ SendResponse(call.obj, f)
    BY <1>1, <1>2, <1>10, <2>0 DEF InitUploadSegmented
  <2>2. f.kind = "init_upload" /\ f.obj = call.obj
    BY <2>0 DEF RspInitUpload
  <2>3. Answered(f)' /\ (\A g : Answered(g)' => g = f) /\ Progress'
    BY <2>1, Serves
  <2>4. Stages' => Phase' = "applied" /\ Answer' = store[call.obj]
    BY <1>1, <2>1, <2>2, <2>3 DEF Stages, AnsweredUpload
  <2>5. store[call.obj] # <<>>
    BY <2>1, LengthAssumption
  <2>6. Atomic!Readable1(call.obj)
    BY <1>8, <2>1, <2>5
  <2>7. Stages /\ Stages' => Atomic!ApplyUpload
    BY <1>3, <1>4, <1>7, <2>4, <2>6 DEF Atomic!ApplyUpload
  <2> QED
    BY <1>5, <2>2, <2>3, <2>7 DEF Refines, Maps, Atomic!Next, Atomic!Apply
<1>11. CASE InitUploadRefused
  <2>1. (Available(call.obj) => store[call.obj] = <<>>) /\ AbortTransfer(call.obj)
    BY <1>1, <1>2, <1>11 DEF InitUploadRefused
  <2>2. Answered(RspAbort)' /\ (\A g : Answered(g)' => g = RspAbort) /\ Progress'
    BY <1>2, <2>1, Serves
  <2>3. Stages' => Phase' = "refused" /\ Answer' = <<>>
    BY <1>1, <2>2 DEF Stages, AnsweredUpload
  <2>4. ~Atomic!Readable1(call.obj)
    BY <2>1 DEF Available, Atomic!Readable1
  <2>5. Stages /\ Stages' => Atomic!Refuse
    BY <1>3, <1>4, <1>7, <2>3, <2>4 DEF Atomic!Refuse
  <2> QED
    BY <1>5, <2>2, <2>5 DEF Refines, Maps, Atomic!Next, Atomic!Apply
<1> QED
  BY <1>6, <1>9, <1>10, <1>11


LEMMA SegUploadRefines ==
  ASSUME Calm, Serving, ServerStep, request.kind = "seg_upload"
  PROVE  Refines
<1>1. /\ Uploading /\ Uploading' /\ TypeOK /\ PhaseInv /\ Fits /\ Head(toServer) = request
      /\ \A kind : Pending(kind) <=> kind = "seg_upload"
      /\ \A kind : Pending(kind)' <=> kind = "seg_upload"
  BY ServedCall DEF UploadKinds
<1>2. /\ Asking /\ call' = call /\ stream' = stream /\ result' = result
      /\ Stages => Phase = "applied" /\ Answer = result \o srvBuffer
  BY <1>1 DEF Serving, Stages
<1>3. /\ request.toggle = stream.toggle /\ srvToggle = stream.toggle
      /\ srvBuffer # NoBuffer
  BY <1>1, <1>2 DEF PhaseInv, UploadSeg, ReqSegUpload, Fits, SegUploadFits, Left
<1>4. result \in Data /\ srvBuffer \in Data
  BY <1>1, <1>3 DEF TypeOK, ClientTypeOK, ServerTypeOK
<1>5. SegmentedUpload
  BY <1>1, <1>3
     DEF ServerStep, OnRequest, InitUploadExpedited, InitUploadSegmented,
     InitUploadRefused, InitDownloadExpedited, InitDownloadSegmented, SegmentedDownload,
     SegmentedDownloadRefused, SegmentRefused, RequestAborted, Request
<1>6. PICK n : n = IF Len(srvBuffer) < SegLen THEN Len(srvBuffer) ELSE SegLen
  OBVIOUS
<1>7. PICK f : f = RspSegUpload(srvToggle, SubSeq(srvBuffer, 1, n),
                                SubSeq(srvBuffer, n + 1, Len(srvBuffer)) = <<>>)
  OBVIOUS
<1>8. /\ srvBuffer' = SubSeq(srvBuffer, n + 1, Len(srvBuffer))
      /\ SendResponse(srvIndex, f) /\ store' = store
  BY <1>5, <1>6, <1>7 DEF SegmentedUpload
<1>9. f.kind = "seg_upload" /\ f.toggle = srvToggle /\ f.data = SubSeq(srvBuffer, 1, n)
  BY <1>7 DEF RspSegUpload
<1>10. n \in 0..Len(srvBuffer)
  <2>1. Len(srvBuffer) \in Nat
    BY <1>4, LenProperties DEF Data
  <2> QED
    BY <1>6, <2>1, LengthAssumption
<1>11. (result \o f.data) \o srvBuffer' = result \o srvBuffer
  <2>1. (result \o SubSeq(srvBuffer, 1, n)) \o SubSeq(srvBuffer, n + 1, Len(srvBuffer))
          = result \o srvBuffer
    BY <1>4, <1>10, SegmentTaken
  <2> QED
    BY <1>8, <1>9, <2>1
<1>12. Answered(f)' /\ (\A g : Answered(g)' => g = f) /\ ~Asking' /\ Progress'
  BY <1>8, Serves
<1>13. CalmInv'
  BY <1>1, <1>2, <1>3, <1>9, <1>12 DEF CalmInv, Fits, InitUploadFits, SegUploadFits,
     ExpDownloadFits, InitDownloadFits, SegDownloadFits
<1>14. Stages' => Phase' = "applied" /\ Answer' = result \o srvBuffer
  BY <1>1, <1>2, <1>9, <1>11, <1>12 DEF Stages, AnsweredUpload
<1> QED
  BY <1>2, <1>8, <1>13, <1>14 DEF Refines, Maps, Atomic!vars

LEMMA ExpDownloadRefines ==
  ASSUME Calm, Serving, ServerStep, request.kind = "exp_download"
  PROVE  Refines
<1>1. /\ Downloading /\ Downloading' /\ TypeOK /\ PhaseInv /\ Fits
      /\ Head(toServer) = request /\ call \in Calls
      /\ \A kind : Pending(kind) <=> kind = "exp_download"
      /\ \A kind : Pending(kind)' <=> kind = "exp_download"
  BY ServedCall DEF DownloadKinds
<1>2. request.obj = call.obj /\ request.data = call.data /\ call.obj \in Objects
  BY <1>1, CallFields DEF PhaseInv, DownloadExp, ReqExpDownload
<1>3. /\ Asking /\ Handling /\ call' = call /\ stream' = stream
      /\ Stages => Phase = "pending" /\ Answer = <<>>
  BY <1>1 DEF Serving, Stages
<1>4. stream.expedited /\ commits = <<>> /\ call.kind = "download"
  BY <1>1, <1>3 DEF Fits, ExpDownloadFits, Downloading
<1>5. InitDownloadExpedited
  BY <1>1
     DEF ServerStep, OnRequest, InitUploadExpedited, InitUploadSegmented,
     InitUploadRefused, SegmentedUpload, InitDownloadSegmented, SegmentedDownload,
     SegmentedDownloadRefused, SegmentRefused, RequestAborted, Request
<1>6. commits' = IF Accepts(call.obj, call.data) THEN <<TheCommit>> ELSE <<>>
  BY <1>1, <1>2, <1>3, <1>4, <1>5, Committed DEF TheCommit
<1>7. Accepts(call.obj, call.data) <=> Atomic!Writable1(call.obj, call.data)
  BY DEF Accepts, Atomic!Writable1
<1>8. ASSUME NEW f, Answered(f)', \A g : Answered(g)' => g = f, ~Asking', Progress',
             IF commits' = <<>> THEN f = RspAbort ELSE f.kind = "download"
      PROVE  CalmInv'
  BY <1>1, <1>3, <1>4, <1>8 DEF CalmInv, Fits, InitUploadFits, SegUploadFits,
     ExpDownloadFits, InitDownloadFits, SegDownloadFits
<1>9. CASE Accepts(call.obj, call.data)
  <2>1. PICK f : f = RspDownload(call.obj)
    OBVIOUS
  <2>2. SendResponse(call.obj, f) /\ store' = [store EXCEPT ![call.obj] = call.data]
    BY <1>1, <1>2, <1>5, <1>9, <2>1 DEF InitDownloadExpedited
  <2>3. f.kind = "download" /\ commits' # <<>>
    BY <1>6, <1>9, <2>1 DEF RspDownload
  <2>4. Answered(f)' /\ (\A g : Answered(g)' => g = f) /\ ~Asking' /\ Progress'
    BY <2>2, Serves
  <2>5. Stages' => Phase' = "applied" /\ Answer' = <<>>
    BY <1>1, <2>3, <2>4 DEF Stages, AnsweredDownload
  <2>6. Stages /\ Stages' => Atomic!ApplyDownload
    BY <1>3, <1>4, <1>7, <1>9, <2>2, <2>5 DEF Atomic!ApplyDownload
  <2> QED
    BY <1>8, <2>3, <2>4, <2>6 DEF Refines, Maps, Atomic!Next, Atomic!Apply
<1>10. CASE ~Accepts(call.obj, call.data)
  <2>1. AbortTransfer(call.obj) /\ store' = store
    BY <1>1, <1>2, <1>5, <1>10 DEF InitDownloadExpedited
  <2>2. Answered(RspAbort)' /\ (\A g : Answered(g)' => g = RspAbort) /\ ~Asking' /\ Progress'
    BY <1>2, <2>1, Serves
  <2>3. commits' = <<>>
    BY <1>6, <1>10
  <2>4. Stages' => Phase' = "refused" /\ Answer' = <<>>
    BY <1>1, <2>2, <2>3 DEF Stages, AnsweredDownload
  <2>5. Stages /\ Stages' => Atomic!Refuse
    BY <1>3, <1>4, <1>7, <1>10, <2>1, <2>4 DEF Atomic!Refuse
  <2> QED
    BY <1>8, <2>2, <2>3, <2>5 DEF Refines, Maps, Atomic!Next, Atomic!Apply
<1> QED
  BY <1>9, <1>10

LEMMA InitDownloadRefines ==
  ASSUME Calm, Serving, ServerStep, request.kind = "init_download"
  PROVE  Refines
<1>1. /\ Downloading /\ Downloading' /\ TypeOK /\ PhaseInv /\ Head(toServer) = request
      /\ \A kind : Pending(kind) <=> kind = "init_download"
      /\ \A kind : Pending(kind)' <=> kind = "init_download"
  BY ServedCall DEF DownloadKinds
<1>2. /\ Asking /\ Handling /\ call' = call /\ commits = <<>>
      /\ Stages => Phase = "pending" /\ Answer = <<>>
  BY <1>1 DEF Serving, Stages, PhaseInv, DownloadInit
<1>3. InitDownloadSegmented
  BY <1>1
     DEF ServerStep, OnRequest, InitUploadExpedited, InitUploadSegmented,
     InitUploadRefused, SegmentedUpload, InitDownloadExpedited, SegmentedDownload,
     SegmentedDownloadRefused, SegmentRefused, RequestAborted, Request
<1>4. commits' = <<>>
  <2>1. ~StoresValue
    BY <1>1 DEF StoresValue, InitDownloadExpedited, SegmentedDownload, Request
  <2> QED
    BY <1>1, <1>2, <2>1, Committed
<1>5. PICK f : f = RspDownload(request.obj)
  OBVIOUS
<1>6. SendResponse(request.obj, f) /\ store' = store
  BY <1>1, <1>3, <1>5 DEF InitDownloadSegmented
<1>7. f.kind = "download" /\ f # RspAbort
  BY <1>5 DEF RspDownload, RspAbort
<1>8. Answered(f)' /\ (\A g : Answered(g)' => g = f) /\ ~Asking' /\ Progress'
  BY <1>6, Serves
<1>9. CalmInv'
  BY <1>1, <1>7, <1>8 DEF CalmInv, Fits, InitUploadFits, SegUploadFits,
     ExpDownloadFits, InitDownloadFits, SegDownloadFits
<1>10. Stages' => Phase' = "pending" /\ Answer' = <<>>
  BY <1>1, <1>4, <1>7, <1>8 DEF Stages, AnsweredDownload
<1> QED
  BY <1>2, <1>6, <1>9, <1>10 DEF Refines, Maps, Atomic!vars

LEMMA SegDownloadRefines ==
  ASSUME Calm, Serving, ServerStep, request.kind = "seg_download"
  PROVE  Refines
<1>1. /\ Downloading /\ Downloading' /\ TypeOK /\ PhaseInv /\ Fits
      /\ Head(toServer) = request /\ call \in Calls /\ request \in Requests
      /\ \A kind : Pending(kind) <=> kind = "seg_download"
      /\ \A kind : Pending(kind)' <=> kind = "seg_download"
  BY ServedCall DEF DownloadKinds
<1>2. /\ Asking /\ Handling /\ call' = call /\ request' = request
      /\ Stages => Phase = "pending" /\ Answer = <<>>
  BY <1>1 DEF Serving, Stages
<1>3. /\ srvToggle = request.toggle /\ Moved(stream.pos) /\ commits = <<>>
      /\ srvIndex = call.obj /\ SegmentEnd \in 0..Len(call.data)
      /\ request.data = SubSeq(call.data, stream.pos + 1, SegmentEnd)
      /\ request.last <=> SegmentEnd = Len(call.data)
  BY <1>1, <1>2 DEF Fits, SegDownloadFits, PhaseInv, DownloadSegStream
<1>4. /\ call.kind = "download" /\ call.obj \in Objects /\ call.data \in Data
      /\ request.data \in Data /\ Len(request.data) \in Nat /\ stream.pos \in Nat
      /\ request.last \in BOOLEAN
  BY <1>1, CallFields, RequestFields, LenProperties
     DEF Downloading, TypeOK, ClientTypeOK, Streams, Data
<1>5. srvBuffer # NoBuffer
  <2>1. stream.pos <= SegmentEnd /\ SegmentEnd \in Nat
    BY <1>3, <1>4, LenProperties DEF SegmentEnd, Data
  <2>2. stream.pos \in 0..Len(call.data)
    BY <1>3, <1>4, <2>1
  <2>3. srvBuffer \in Data
    BY <1>3, <1>4, <2>2, SegmentTaken DEF Moved
  <2> QED
    BY <2>3, ValueAssumption
<1>6. srvBuffer \o request.data = SubSeq(call.data, 1, SegmentEnd)
  <2>1. stream.pos <= SegmentEnd
    BY <1>4 DEF SegmentEnd
  <2>2. srvBuffer = SubSeq(call.data, 1, stream.pos)
    BY <1>3 DEF Moved
  <2> QED
    BY ZenonT(30), <1>3, <1>4, <2>1, <2>2, SegmentMoved
<1>7. request.last => srvBuffer \o request.data = call.data
  BY <1>3, <1>4, <1>6, SubSeqFull DEF Data
<1>8. SegmentedDownload \/ SegmentedDownloadRefused
  BY <1>1, <1>3, <1>5
     DEF ServerStep, OnRequest, InitUploadExpedited, InitUploadSegmented,
     InitUploadRefused, SegmentedUpload, InitDownloadExpedited, InitDownloadSegmented,
     SegmentRefused, RequestAborted, Request
<1>9. Accepts(call.obj, call.data) <=> Atomic!Writable1(call.obj, call.data)
  BY DEF Accepts, Atomic!Writable1
<1>10. ASSUME NEW f, Answered(f)', \A g : Answered(g)' => g = f, ~Asking', Progress',
              \/ f.kind = "seg_download" /\ (request.last <=> commits' # <<>>)
              \/ f = RspAbort /\ request.last /\ commits' = <<>>
       PROVE  CalmInv'
  BY <1>1, <1>2, <1>10 DEF CalmInv, Fits, InitUploadFits, SegUploadFits,
     ExpDownloadFits, InitDownloadFits, SegDownloadFits
<1>11. CASE SegmentedDownload
  <2>1. PICK f : f = RspSegDownload(srvToggle)
    OBVIOUS
  <2>2. /\ SendResponse(srvIndex, f)
        /\ srvBuffer' = srvBuffer \o request.data
        /\ request.last => Accepts(srvIndex, srvBuffer')
        /\ store' = IF request.last THEN [store EXCEPT ![srvIndex] = srvBuffer'] ELSE store
    BY <1>1, <1>11, <2>1 DEF SegmentedDownload
  <2>3. f.kind = "seg_download" /\ f # RspAbort
    BY <2>1 DEF RspSegDownload, RspAbort
  <2>4. Answered(f)' /\ (\A g : Answered(g)' => g = f) /\ ~Asking' /\ Progress'
    BY <2>2, Serves
  <2>5. commits' = IF request.last
                   THEN Append(commits, [obj |-> srvIndex, data |-> srvBuffer']) ELSE commits
    BY <1>1, <1>2, <1>11, Committed
  <2>6. request.last <=> commits' # <<>>
    BY <1>3, <1>4, <2>5
  <2>7. CASE request.last
    <3>1. /\ Accepts(call.obj, call.data)
          /\ store' = [store EXCEPT ![call.obj] = call.data]
      BY <1>3, <1>7, <2>2, <2>7
    <3>2. Stages' => Phase' = "applied" /\ Answer' = <<>>
      BY <1>1, <2>4, <2>6, <2>7 DEF Stages, AnsweredDownload
    <3>3. Stages /\ Stages' => Atomic!ApplyDownload
      BY <1>2, <1>4, <1>9, <3>1, <3>2 DEF Atomic!ApplyDownload
    <3> QED
      BY <1>10, <2>3, <2>4, <2>6, <3>3 DEF Refines, Maps, Atomic!Next, Atomic!Apply
  <2>8. CASE ~request.last
    <3>1. store' = store /\ commits' = <<>>
      BY <1>3, <2>2, <2>5, <2>8
    <3>2. Stages' => Phase' = "pending" /\ Answer' = <<>>
      BY <1>1, <2>3, <2>4, <3>1 DEF Stages, AnsweredDownload
    <3>3. Stages /\ Stages' => Maps
      BY <1>2, <3>1, <3>2 DEF Maps, Atomic!vars
    <3> QED
      BY <1>10, <2>3, <2>4, <2>6, <3>3 DEF Refines
  <2> QED
    BY <2>7, <2>8
<1>12. CASE SegmentedDownloadRefused
  <2>1. /\ AbortTransfer(srvIndex) /\ request.last
        /\ ~Accepts(srvIndex, srvBuffer \o request.data) /\ store' = store
    BY <1>1, <1>12 DEF SegmentedDownloadRefused
  <2>2. Answered(RspAbort)' /\ (\A g : Answered(g)' => g = RspAbort) /\ ~Asking' /\ Progress'
    BY <1>3, <1>4, <2>1, Serves
  <2>3. commits' = <<>>
    <3>1. ~StoresValue
      BY <1>1, <1>12
         DEF StoresValue, InitDownloadExpedited, SegmentedDownload,
         SegmentedDownloadRefused, Request
    <3> QED
      BY <1>1, <1>2, <1>3, <3>1, Committed
  <2>4. Stages' => Phase' = "refused" /\ Answer' = <<>>
    BY <1>1, <2>2, <2>3 DEF Stages, AnsweredDownload
  <2>5. ~Atomic!Writable1(call.obj, call.data)
    BY <1>3, <1>7, <1>9, <2>1
  <2>6. Stages /\ Stages' => Atomic!Refuse
    BY <1>2, <1>4, <2>1, <2>4, <2>5 DEF Atomic!Refuse
  <2> QED
    BY <1>10, <2>1, <2>2, <2>3, <2>6 DEF Refines, Maps, Atomic!Next, Atomic!Apply
<1> QED
  BY <1>8, <1>11, <1>12

LEMMA ServerRefines ==
  ASSUME Calm, ValueInv, CalmInv, ServerStep
  PROVE  Refines
<1>1. Serving
  BY ServesRequest
<1> QED
  BY <1>1, ServedCall, InitUploadRefines, SegUploadRefines, ExpDownloadRefines,
     InitDownloadRefines, SegDownloadRefines DEF UploadKinds, DownloadKinds


-----------------------------------------------------------------------------
\* The steps of the client.

\* What no step of a call changes.
Calling ==
  /\ InCall /\ OnlyUploads /\ CalmInv /\ TypeOK' /\ store' = store
  /\ call.kind \in {"upload", "download"} /\ outcome = "running"

\* An exchange that begins, or a request that is sent, has nothing under way.
LEMMA AsksRefines ==
  ASSUME Calm, Calling, TypeOK, Asking', UNCHANGED <<outcome, result>>, SegUploadFits',
         ExpDownloadFits', SegDownloadFits',
         Stages => Phase = IF Pending("seg_upload")' THEN "applied" ELSE "pending",
         Stages => Answer = IF Pending("seg_upload")' THEN result \o srvBuffer ELSE <<>>
  PROVE  Refines
<1>1. /\ call' = call /\ store' = store /\ srvBuffer' = srvBuffer /\ outcome = "running"
      /\ pc # "idle" /\ Progress
  BY DEF Calling, InCall, CalmInv
<1>2. \A f : ~Answered(f)'
  BY DEF Asking, Nothing, Answered
<1>3. pc' \in {"send", "wait"} /\ Progress'
  BY <1>1 DEF Asking, Progress
<1>4. CalmInv'
  BY <1>2, <1>3 DEF CalmInv, Fits, InitUploadFits, InitDownloadFits
<1>5. Stages' => /\ Phase' = IF Pending("seg_upload")' THEN "applied" ELSE "pending"
                 /\ Answer' = IF Pending("seg_upload")' THEN result \o srvBuffer ELSE <<>>
  BY <1>1 DEF Stages
<1> QED
  BY <1>1, <1>4, <1>5 DEF Refines, Maps, Atomic!vars

LEMMA SendRefines ==
  ASSUME Calm, Calling, SendRequest
  PROVE  Refines
<1>1. /\ pc = "send" /\ pc' = "wait" /\ toServer' = Append(toServer, request)
      /\ UNCHANGED <<stream, request, outcome, result, toClient>>
      /\ responses' = <<>> \/ responses' = responses
  BY DEF SendRequest
<1>2. TypeOK /\ Progress /\ Fits /\ UNCHANGED <<call, srvToggle, srvBuffer, commits>>
  BY DEF Calling, InCall, CalmInv
<1>3. Asking /\ Nothing
  BY <1>1, <1>2 DEF Progress, Asking, Answered
<1>4. Asking'
  BY <1>1, <1>3 DEF Asking, Nothing
<1>5. \A f : ~Answered(f)'
  BY <1>4 DEF Asking, Nothing, Answered
<1>6. \A kind : Pending(kind)' = Pending(kind)
  BY <1>1 DEF Pending
<1>7. SegUploadFits' /\ ExpDownloadFits' /\ SegDownloadFits'
  BY <1>1, <1>2, <1>3, <1>5, <1>6
     DEF Fits, SegUploadFits, ExpDownloadFits, SegDownloadFits, Moved
<1>8. Stages => /\ Phase = IF Pending("seg_upload") THEN "applied" ELSE "pending"
                /\ Answer = IF Pending("seg_upload") THEN result \o srvBuffer ELSE <<>>
  BY <1>3 DEF Stages
<1> QED
  BY <1>1, <1>2, <1>4, <1>6, <1>7, <1>8, AsksRefines

\* A timeout needs an empty bus and an empty queue, and a call that waits has neither.
LEMMA NoTimeout ==
  ASSUME Calm, Calling
  PROVE  ~(TimeoutPossible /\ (RetryAfterTimeout \/ GiveUpAfterTimeout))
<1> SUFFICES ASSUME toServer = <<>>, toClient = <<>>, responses = <<>>, pc = "wait"
             PROVE  FALSE
  BY DEF Calm, TimeoutPossible, RetryAfterTimeout, GiveUpAfterTimeout
<1>1. Progress
  BY DEF Calling, CalmInv
<1> QED
  BY <1>1 DEF Progress, Asking, Nothing, Answered

\* The request of the next segment.
LEMMA ReadSegmentRefines ==
  ASSUME Calm, Calling, ReadSegment
  PROVE  Refines
<1>1. /\ pc = "io" /\ pc' = "send" /\ call.kind = "upload"
      /\ request' = ReqSegUpload(stream.toggle)
      /\ UNCHANGED <<stream, outcome, result, toServer, toClient, responses>>
  BY DEF ReadSegment, RequestResponse, busVars
<1>2. /\ TypeOK /\ Progress /\ PhaseInv /\ Uploading
      /\ UNCHANGED <<call, srvToggle, srvBuffer, commits>>
  BY <1>1 DEF Calling, InCall, CalmInv, Kept, Uploading
<1>3. Asking' /\ \A f : ~Answered(f)'
  BY <1>1, <1>2 DEF Progress, Nothing, Asking, Answered
<1>4. request'.kind = "seg_upload" /\ Pending("seg_upload")'
  BY <1>1 DEF ReqSegUpload, Pending
<1>5. srvToggle = stream.toggle
  BY <1>1, <1>2 DEF PhaseInv, UploadIo
<1>6. SegUploadFits' /\ ExpDownloadFits' /\ SegDownloadFits'
  BY <1>1, <1>2, <1>3, <1>4, <1>5
     DEF SegUploadFits, ExpDownloadFits, SegDownloadFits, Pending
<1>7. Stages => Phase = "applied" /\ Answer = result \o srvBuffer
  BY <1>1, <1>2 DEF Stages
<1> QED
  BY <1>1, <1>2, <1>3, <1>4, <1>6, <1>7, AsksRefines

\* The next segment, or the empty one that close() sends.
LEMMA WriteSegmentRefines ==
  ASSUME Calm, Calling, WriteSegment \/ CloseEmpty
  PROVE  Refines
<1>1. /\ pc = "io" /\ pc' = "send" /\ call.kind = "download"
      /\ request'.kind = "seg_download" /\ request'.toggle = stream.toggle
      /\ UNCHANGED <<outcome, result, toServer, toClient, responses>>
  BY DEF WriteSegment, CloseEmpty, CloseStream, RequestResponse, busVars, ReqSegDownload
<1>2. /\ TypeOK /\ Progress /\ PhaseInv /\ Downloading /\ stream \in Streams
      /\ UNCHANGED <<call, srvToggle, srvBuffer, commits>>
  BY <1>1 DEF Calling, InCall, CalmInv, Kept, Downloading, TypeOK, ClientTypeOK
<1>3. stream'.pos = stream.pos
  BY <1>2 DEF WriteSegment, CloseEmpty, CloseStream, Streams
<1>4. Asking' /\ \A f : ~Answered(f)'
  BY <1>1, <1>2 DEF Progress, Nothing, Asking, Answered
<1>5. srvToggle = stream.toggle /\ Moved(stream.pos) /\ commits = <<>>
  BY <1>1, <1>2 DEF PhaseInv, DownloadIo
<1>6. SegUploadFits' /\ ExpDownloadFits' /\ SegDownloadFits' /\ ~Pending("seg_upload")'
  BY <1>1, <1>2, <1>3, <1>4, <1>5
     DEF SegUploadFits, ExpDownloadFits, SegDownloadFits, Pending, Moved
<1>7. Stages => Phase = "pending" /\ Answer = <<>>
  BY <1>1, <1>2 DEF Stages
<1> QED
  BY <1>1, <1>2, <1>4, <1>6, <1>7, AsksRefines


LEMMA AnswerRefines ==
  ASSUME Calling, pc = "wait", responses # <<>>
  PROVE  /\ Answered(Response) /\ Tail(responses) = <<>>
         /\ toServer = <<>> /\ toClient = <<>>
         /\ request \in Requests /\ request.kind \in UploadKinds \cup DownloadKinds
         /\ request.kind \in UploadKinds => Uploading /\ commits = <<>>
         /\ request.kind \in DownloadKinds => Downloading /\ result = <<>>
         /\ \A kind : Pending(kind) <=> request.kind = kind
         /\ TypeOK /\ PhaseInv /\ Fits
<1>1. /\ TypeOK /\ OnlyUploads /\ OnlyDownloads /\ Progress /\ PhaseInv /\ Fits
  BY DEF Calling, InCall, Kept, CalmInv
<1>2. PICK f \in Responses : Answered(f)
  BY <1>1 DEF Progress, Asking, Nothing
<1>3. responses = <<f>> /\ toClient = <<>> /\ toServer = <<>>
  BY <1>2 DEF Answered
<1>4. Response = f /\ Tail(responses) = <<>>
  BY <1>3 DEF Response
<1>5. \A kind : Pending(kind) <=> request.kind = kind
  BY DEF Pending
<1>6. Downloading => result = <<>>
  BY <1>1 DEF Progress, Downloading
<1>7. Uploading => commits = <<>>
  BY <1>1 DEF OnlyUploads, Uploading
<1> QED
  BY <1>1, <1>2, <1>3, <1>4, <1>5, <1>6, <1>7, RequestOfCall

\* The call ends, with the value that it picked up.
LEMMA EndRefines ==
  ASSUME Calling, NEW how, EndCall(how), Nothing',
         Stages => Phase \in {"applied", "refused"} /\ Answer = result'
  PROVE  Refines
<1>1. pc' = "idle" /\ call' = call /\ store' = store
  BY DEF EndCall, Calling, InCall
<1>2. CalmInv'
  BY <1>1 DEF CalmInv, Progress, Fits, InitUploadFits, SegUploadFits, ExpDownloadFits,
     InitDownloadFits, SegDownloadFits, Pending
<1>3. Stages' => Phase' = "idle" /\ Answer' = result'
  BY <1>1 DEF Stages
<1>4. Stages /\ Stages' => Atomic!End
  BY <1>1, <1>3 DEF Atomic!End
<1> QED
  BY <1>2, <1>4 DEF Refines, Maps, Atomic!Next

\* The stream's loop goes on.
LEMMA LoopRefines ==
  ASSUME Calling, pc' = "io", Nothing', outcome' = "running",
         Downloading => result' = <<>>,
         Stages => /\ Uploading => Phase = "applied" /\ Answer = result' \o srvBuffer
                   /\ Downloading => Phase = "pending" /\ Answer = <<>>
  PROVE  Refines
<1>1. call' = call /\ store' = store /\ srvBuffer' = srvBuffer /\ call # NoCall
  BY DEF Calling, InCall
<1>2. /\ Uploading <=> Uploading'
      /\ Downloading <=> Downloading'
      /\ Uploading \/ Downloading
      /\ call.kind = "download" => Downloading
  BY <1>1 DEF Uploading, Downloading, Calling
<1>3. CalmInv'
  BY <1>1, <1>2 DEF CalmInv, Progress, Fits, InitUploadFits, SegUploadFits,
     ExpDownloadFits, InitDownloadFits, SegDownloadFits, Pending
<1>4. Stages' => /\ Uploading => Phase' = "applied" /\ Answer' = result' \o srvBuffer
                 /\ Downloading => Phase' = "pending" /\ Answer' = <<>>
  BY <1>1, <1>2 DEF Stages
<1>5. Stages /\ Stages' => Phase' = Phase /\ Answer' = Answer
  BY <1>2, <1>4
<1> QED
  BY <1>1, <1>3, <1>5 DEF Refines, Maps, Atomic!vars

LEMMA InitAnswerRefines ==
  ASSUME Calling, InitUploadAnswered \/ InitUploadUnexpected
  PROVE  Refines
<1>1. Awaiting("init_upload") /\ UNCHANGED <<toServer, toClient>>
  BY DEF InitUploadAnswered, InitUploadUnexpected, busVars
<1>2. /\ Answered(Response) /\ Nothing' /\ Uploading /\ TypeOK /\ PhaseInv /\ Fits
      /\ Pending("init_upload") /\ ~Downloading
  <2>1. pc = "wait" /\ responses # <<>> /\ responses' = Tail(responses)
        /\ request.kind = "init_upload"
    BY <1>1 DEF Awaiting
  <2> QED
    BY <1>1, <2>1, AnswerRefines
       DEF UploadKinds, Nothing, Uploading, Downloading
<1>3. \/ Response = RspAbort
      \/ Response.kind \in {"exp_upload", "init_upload"} /\ Response.obj = call.obj
  BY <1>2 DEF Fits, InitUploadFits
<1>4. InitUploadAnswered
  BY <1>3 DEF InitUploadUnexpected, RspAbort
<1>5. Stages => AnsweredUpload
  BY <1>2 DEF Stages
<1>6. CASE Response.kind = "exp_upload"
  <2>1. EndCall("ok") /\ result' = Response.data
    BY <1>4, <1>6 DEF InitUploadAnswered
  <2>2. Stages => Phase = "applied" /\ Answer = result'
    BY <1>2, <1>5, <1>6, <2>1 DEF AnsweredUpload
  <2> QED
    BY <1>2, <2>1, <2>2, EndRefines
<1>7. CASE Response.kind = "init_upload"
  <2>1. pc' = "io" /\ UNCHANGED <<outcome, result>> /\ outcome = "running"
    BY <1>4, <1>7 DEF InitUploadAnswered, Calling
  <2>2. srvBuffer # NoBuffer /\ result = <<>>
    BY <1>2, <1>7, UnderRead DEF PhaseInv, UploadInit, Under, Answered
  <2>3. result' \o srvBuffer = srvBuffer
    <3>1. srvBuffer \in Seq(Bytes)
      BY <1>2, <2>2 DEF TypeOK, ServerTypeOK, Data
    <3> QED
      BY <2>1, <2>2, <3>1, ConcatEmptySeq
  <2>4. Stages => Phase = "applied" /\ Answer = result' \o srvBuffer
    BY <1>2, <1>5, <1>7, <2>3 DEF AnsweredUpload
  <2> QED
    BY <1>2, <2>1, <2>4, LoopRefines
<1> QED
  BY <1>4, <1>6, <1>7 DEF InitUploadAnswered

LEMMA SegmentAnswerRefines ==
  ASSUME Calling, SegmentUploaded \/ SegmentUploadUnexpected
  PROVE  Refines
<1>1. Awaiting("seg_upload")
  BY DEF SegmentUploaded, SegmentUploadUnexpected
<1>2. /\ Answered(Response) /\ Uploading /\ TypeOK /\ PhaseInv /\ Fits
      /\ Pending("seg_upload") /\ ~Downloading
      /\ toServer = <<>> /\ toClient = <<>> /\ responses' = <<>>
  <2>1. pc = "wait" /\ responses # <<>> /\ responses' = Tail(responses)
        /\ request.kind = "seg_upload"
    BY <1>1 DEF Awaiting
  <2> QED
    BY <2>1, AnswerRefines DEF UploadKinds, Uploading, Downloading
<1>3. Response.kind = "seg_upload" /\ Response.toggle = stream.toggle
  BY <1>2 DEF Fits, SegUploadFits
<1>4. SegmentUploaded
  BY <1>3 DEF SegmentUploadUnexpected
<1>5. Nothing'
  BY <1>2, <1>4 DEF SegmentUploaded, busVars, Nothing
<1>6. Stages => Phase = "applied" /\ Answer = (result \o Response.data) \o srvBuffer
  BY <1>2, <1>3 DEF Stages, AnsweredUpload
<1>7. PICK data : data = result \o Response.data
  OBVIOUS
<1>8. /\ srvBuffer # NoBuffer /\ stream.size = Len(data \o srvBuffer)
      /\ Response.last \/ Response.data = <<>> => srvBuffer = <<>>
  <2>1. Under(Response)
    BY <1>2 DEF Under, Answered
  <2> QED
    BY <1>2, <1>3, <1>7, <2>1 DEF PhaseInv, UploadSeg, Left
<1>9. data \in Seq(Bytes) /\ Len(data) \in Nat
  <2>1. Response \in Responses /\ result \in Seq(Bytes)
    BY <1>2, AnsweredKind DEF TypeOK, ClientTypeOK, Data
  <2>2. Response.data \in Seq(Bytes)
    BY <1>3, <2>1, ResponseFields DEF Data
  <2> QED
    BY <1>7, <2>1, <2>2, LenProperties
<1>10. CASE Response.last \/ Response.data = <<>>
  <2>1. EndCall("ok") /\ result' = IF stream.size \in 1..Len(data)
                                  THEN SubSeq(data, 1, stream.size) ELSE data
    BY <1>4, <1>7, <1>10 DEF SegmentUploaded
  <2>2. data \o srvBuffer = data
    BY <1>8, <1>9, <1>10, ConcatEmptySeq
  <2>3. result' = data
    BY <1>8, <1>9, <2>1, <2>2, SubSeqFull
  <2>4. Stages => Phase \in {"applied", "refused"} /\ Answer = result'
    BY <1>6, <1>7, <2>2, <2>3
  <2> QED
    BY <1>5, <2>1, <2>4, EndRefines
<1>11. CASE ~Response.last /\ Response.data # <<>>
  <2>1. pc' = "io" /\ outcome' = outcome /\ outcome = "running" /\ result' = data
    BY <1>4, <1>7, <1>11 DEF SegmentUploaded, Calling
  <2>2. Stages => Phase = "applied" /\ Answer = result' \o srvBuffer
    BY <1>6, <1>7, <2>1
  <2> QED
    BY <1>2, <1>5, <2>1, <2>2, LoopRefines
<1> QED
  BY <1>10, <1>11

LEMMA DownloadAnswerRefines ==
  ASSUME Calling,
         \/ ExpeditedDownloaded \/ InitDownloadAnswered \/ InitDownloadUnexpected
         \/ SegmentDownloaded \/ SegmentDownloadUnexpected \/ StreamClosed
  PROVE  Refines
<1>1. /\ \/ Awaiting("exp_download") \/ Awaiting("init_download") \/ Awaiting("seg_download")
      /\ result' = result
  BY DEF ExpeditedDownloaded, InitDownloadAnswered, InitDownloadUnexpected,
     SegmentDownloaded, SegmentDownloadUnexpected, StreamClosed
<1>2. pc = "wait" /\ responses # <<>> /\ responses' = Tail(responses)
      /\ request.kind \in DownloadKinds
  BY <1>1 DEF Awaiting, DownloadKinds
<1>3. /\ Answered(Response) /\ Downloading /\ ~Uploading /\ PhaseInv /\ Fits
      /\ toServer = <<>> /\ toClient = <<>> /\ responses' = <<>> /\ result = <<>>
      /\ \A kind : Pending(kind) <=> request.kind = kind
  BY <1>2, AnswerRefines DEF Uploading, Downloading
<1>4. Stages => AnsweredDownload
  BY <1>3 DEF Stages
<1>5. ASSUME UNCHANGED busVars PROVE Nothing'
  BY <1>3, <1>5 DEF busVars, Nothing
<1>6. ASSUME EndCall("ok"), UNCHANGED busVars, commits # <<>>
      PROVE  Refines
  <2>1. Stages => Phase = "applied" /\ Answer = result'
    BY <1>1, <1>3, <1>4, <1>6 DEF AnsweredDownload
  <2> QED
    BY <1>5, <1>6, <2>1, EndRefines
<1>7. ASSUME pc' = "io", outcome' = outcome, UNCHANGED busVars, commits = <<>>,
             Response # RspAbort
      PROVE  Refines
  <2>1. Stages => Phase = "pending" /\ Answer = <<>>
    BY <1>3, <1>4, <1>7 DEF AnsweredDownload
  <2>2. outcome' = "running" /\ Nothing' /\ result' = <<>>
    BY <1>1, <1>3, <1>5, <1>7 DEF Calling
  <2> QED
    BY <1>3, <1>7, <2>1, <2>2, LoopRefines
<1>8. CASE request.kind = "exp_download"
  <2>1. IF commits = <<>> THEN Response = RspAbort ELSE Response.kind = "download"
    BY <1>3, <1>8 DEF Fits, ExpDownloadFits
  <2>2. ExpeditedDownloaded /\ commits # <<>>
    BY <1>8, <2>1 DEF ExpeditedDownloaded, InitDownloadAnswered, InitDownloadUnexpected,
       SegmentDownloaded, SegmentDownloadUnexpected, StreamClosed, Awaiting, RspAbort
  <2> QED
    BY <1>6, <2>2 DEF ExpeditedDownloaded
<1>9. CASE request.kind = "init_download"
  <2>1. Response.kind = "download" /\ commits = <<>>
    BY <1>3, <1>9 DEF Fits, InitDownloadFits, PhaseInv, DownloadInit
  <2>2. InitDownloadAnswered /\ Response # RspAbort
    BY <1>9, <2>1 DEF ExpeditedDownloaded, InitDownloadAnswered, InitDownloadUnexpected,
       SegmentDownloaded, SegmentDownloadUnexpected, StreamClosed, Awaiting, RspAbort
  <2> QED
    BY <1>7, <2>1, <2>2 DEF InitDownloadAnswered
<1>10. CASE request.kind = "seg_download"
  <2>1. /\ \/ Response.kind = "seg_download" /\ (request.last <=> commits # <<>>)
           \/ Response = RspAbort /\ request.last /\ commits = <<>>
        /\ stream.closed => request.last
        /\ ~stream.closed => (request.last <=> stream.done)
    BY <1>3, <1>10 DEF Fits, SegDownloadFits, PhaseInv, DownloadSegStream
  <2>2. /\ SegmentDownloaded \/ StreamClosed
        /\ request.last <=> commits # <<>>
        /\ Response # RspAbort
    BY <1>10, <2>1 DEF ExpeditedDownloaded, InitDownloadAnswered, InitDownloadUnexpected,
       SegmentDownloaded, SegmentDownloadUnexpected, StreamClosed, Awaiting, RspAbort
  <2>3. CASE StreamClosed
    BY <1>6, <2>1, <2>2, <2>3 DEF StreamClosed
  <2>4. CASE SegmentDownloaded /\ stream.done
    BY <1>6, <2>1, <2>2, <2>4 DEF SegmentDownloaded
  <2>5. CASE SegmentDownloaded /\ ~stream.done
    BY <1>7, <2>1, <2>2, <2>5 DEF SegmentDownloaded
  <2> QED
    BY <2>2, <2>3, <2>4, <2>5
<1> QED
  BY <1>2, <1>8, <1>9, <1>10 DEF DownloadKinds

\* Only whole values are refused: there is nothing left to close.
LEMMA AbortRefines ==
  ASSUME Calling, ReadAbort
  PROVE  Refines
<1>1. /\ pc = "wait" /\ responses # <<>> /\ responses' = Tail(responses)
      /\ Response.kind = "abort" /\ Raise /\ result' = result
      /\ UNCHANGED <<toServer, toClient>>
  BY DEF ReadAbort, busVars
<1>2. /\ Answered(Response) /\ PhaseInv /\ Fits /\ Nothing'
      /\ request.kind \in UploadKinds \cup DownloadKinds
      /\ request.kind \in UploadKinds => Uploading /\ commits = <<>>
      /\ request.kind \in DownloadKinds => Downloading /\ result = <<>>
      /\ \A kind : Pending(kind) <=> request.kind = kind
  BY <1>1, AnswerRefines DEF Nothing
<1>3. CASE request.kind \in UploadKinds
  <2>1. request.kind = "init_upload" /\ Response = RspAbort
    BY <1>1, <1>2, <1>3 DEF Fits, InitUploadFits, SegUploadFits, UploadKinds
  <2>2. result = <<>>
    BY <1>2, <1>3, <2>1 DEF PhaseInv, UploadInit
  <2>3. Stages => Phase = "refused" /\ Answer = result'
    BY <1>1, <1>2, <1>3, <2>1, <2>2 DEF Stages, AnsweredUpload
  <2>4. EndCall("failed")
    BY <1>1, <1>2, <1>3 DEF Raise, UnfinishedDownload, Uploading
  <2> QED
    BY <1>2, <2>3, <2>4, EndRefines
<1>4. CASE request.kind \in DownloadKinds
  <2>1. Response = RspAbort /\ commits = <<>> /\ ~UnfinishedDownload
    <3>1. CASE request.kind = "exp_download"
      BY <1>1, <1>2, <3>1 DEF Fits, ExpDownloadFits, UnfinishedDownload
    <3>2. CASE request.kind = "init_download"
      BY <1>1, <1>2, <3>2 DEF Fits, InitDownloadFits
    <3>3. CASE request.kind = "seg_download"
      <4>1. /\ Response = RspAbort /\ request.last /\ commits = <<>>
            /\ ~stream.closed => (request.last <=> stream.done)
        BY <1>1, <1>2, <1>4, <3>3
           DEF Fits, SegDownloadFits, PhaseInv, DownloadSegStream
      <4> QED
        BY <4>1 DEF UnfinishedDownload
    <3> QED
      BY <1>4, <3>1, <3>2, <3>3 DEF DownloadKinds
  <2>2. Stages => Phase = "refused" /\ Answer = result'
    BY <1>1, <1>2, <1>4, <2>1 DEF Stages, AnsweredDownload
  <2>3. EndCall("failed")
    BY <1>1, <2>1 DEF Raise
  <2> QED
    BY <1>2, <2>2, <2>3, EndRefines
<1> QED
  BY <1>2, <1>3, <1>4


LEMMA ClientRefines ==
  ASSUME Calm, ValueInv, CalmInv, ClientStep
  PROVE  Refines
<1>1. /\ TypeOK /\ OnlyUploads /\ Progress /\ ApplicationStep /\ Exchange /\ Kept
      /\ UNCHANGED <<srvIndex, srvBuffer, srvToggle, store, held, commits>>
  BY DEF ValueInv, IInv, CalmInv, ClientStep, srvVars, historyVars
<1>2. call' = call /\ pc # "idle"
  BY <1>1 DEF ApplicationStep, SendRequest, SendRequestFails,
     RetryAfterTimeout, GiveUpAfterTimeout, ReadSegment, WriteSegment, CloseEmpty,
     ReadResponse, ReadAbort, Awaiting, InitUploadAnswered, InitUploadUnexpected,
     SegmentUploaded, SegmentUploadUnexpected, ExpeditedDownloaded,
     InitDownloadAnswered, InitDownloadUnexpected, SegmentDownloaded,
     SegmentDownloadUnexpected, StreamClosed
<1>3. call \in Calls /\ call # NoCall /\ call.kind \in {"upload", "download"}
  BY <1>1, <1>2, NoCallAssumption, CallFields DEF TypeOK, ClientTypeOK
<1>4. TypeOK'
  BY <1>1, TypeStep DEF Next
<1>5. Calling
  BY <1>1, <1>2, <1>3, <1>4 DEF Calling, InCall, Progress
<1>6. ~SendRequestFails /\ ~(TimeoutPossible /\ (RetryAfterTimeout \/ GiveUpAfterTimeout))
  BY <1>1, <1>5, CalmBus, NoTimeout
<1>7. CASE SendRequest \/ ReadSegment \/ WriteSegment \/ CloseEmpty
  BY <1>5, <1>7, SendRefines, ReadSegmentRefines, WriteSegmentRefines
<1>8. CASE ReadResponse
  BY <1>5, <1>8, InitAnswerRefines, SegmentAnswerRefines, DownloadAnswerRefines,
     AbortRefines DEF ReadResponse
<1> QED
  BY <1>1, <1>6, <1>7, <1>8 DEF ApplicationStep

-----------------------------------------------------------------------------
\* The other steps.

\* What starting an upload and a download have in common.
Starts(o) ==
  /\ pc = "idle" /\ pc' = "send" /\ outcome' = "running" /\ result' = <<>>
  /\ UNCHANGED <<toServer, toClient, responses, store>> /\ commits' = <<>>
  /\ request'.kind \in {"init_upload", "exp_download", "init_download"}
  /\ request'.kind = "exp_download" => stream'.expedited
  /\ \/ call' = [kind |-> "upload", obj |-> o]
     \/ \E d \in Values : call' = [kind |-> "download", obj |-> o, data |-> d]

LEMMA StartRefines ==
  ASSUME CalmInv, NEW o \in Objects,
         \/ StartUpload(o)
         \/ \E d \in Values, forced \in BOOLEAN : StartDownload(o, d, forced)
  PROVE  Refines
<1>0. Starts(o)
  <2>1. CASE StartUpload(o)
    BY <2>1 DEF Starts, StartUpload, Upload, StartCall, RequestResponse, ReqInitUpload,
       busVars, srvVars
  <2>2. ASSUME NEW d \in Values, NEW forced \in BOOLEAN, StartDownload(o, d, forced)
        PROVE  Starts(o)
    BY <2>2 DEF Starts, StartDownload, Download, StartCall, RequestResponse,
       ReqInitDownload, ReqExpDownload, FreshStream, busVars, srvVars
  <2> QED
    BY <2>1, <2>2
<1>1. /\ pc = "idle" /\ pc' = "send" /\ outcome' = "running" /\ result' = <<>>
      /\ UNCHANGED <<toServer, toClient, responses, store>> /\ commits' = <<>>
      /\ request'.kind \in {"init_upload", "exp_download", "init_download"}
      /\ request'.kind = "exp_download" => stream'.expedited
      /\ \/ call' = [kind |-> "upload", obj |-> o]
         \/ \E d \in Values : call' = [kind |-> "download", obj |-> o, data |-> d]
  BY <1>0 DEF Starts
<1>2. Nothing /\ Asking' /\ \A f : ~Answered(f)'
  BY <1>1 DEF CalmInv, Progress, Nothing, Asking, Answered
<1>3. CalmInv'
  BY <1>1, <1>2 DEF CalmInv, Progress, Fits, InitUploadFits, SegUploadFits,
     ExpDownloadFits, InitDownloadFits, SegDownloadFits, Pending
<1>4. Stages => Phase = "idle"
  BY <1>1 DEF Stages
<1>5. Stages' => Phase' = "pending" /\ Answer' = <<>>
  BY <1>1, <1>2 DEF Stages, Pending
<1>6. Stages /\ Stages' =>
        \/ Atomic!BeginUpload(o)
        \/ \E d \in Values : Atomic!BeginDownload(o, d)
  BY <1>1, <1>4, <1>5 DEF Atomic!BeginUpload, Atomic!BeginDownload
<1> QED
  BY <1>3, <1>6 DEF Refines, Maps, Atomic!Next

\* A step that changes nothing but where the answer is, or nothing that counts.
LEMMA DeliveryRefines ==
  ASSUME TypeOK, CalmInv, NotifierStep
  PROVE  Refines
<1>1. /\ toClient # <<>> /\ toClient' = Tail(toClient)
      /\ responses' = Append(responses, Head(toClient))
      /\ UNCHANGED <<toServer, pc, call, stream, request, result, outcome>>
      /\ UNCHANGED <<store, srvIndex, srvBuffer, srvToggle, commits>>
  BY DEF NotifierStep, OnResponse, srvVars, historyVars
<1>2. PICK f \in Responses : toClient = <<f>> /\ responses = <<>> /\ Answered(f)
  <2>1. ~Nothing /\ ~Asking /\ pc \in {"idle", "io", "send", "wait"}
    BY <1>1 DEF Nothing, Asking, TypeOK, ClientTypeOK
  <2>2. PICK f \in Responses : Answered(f)
    BY <2>1 DEF CalmInv, Progress
  <2> QED
    BY <1>1, <2>2 DEF Answered
<1>3. toClient' = <<>> /\ responses' = <<f>>
  BY <1>1, <1>2
<1>4. Answered(f)' /\ ~Asking' /\ \A g : Answered(g)' => g = f
  BY <1>1, <1>2, <1>3 DEF Answered, Asking
<1>5. \A kind : Pending(kind)' = Pending(kind)
  BY <1>1 DEF Pending
<1>6. Fits'
  BY <1>1, <1>2, <1>4, <1>5 DEF CalmInv, Fits, InitUploadFits, SegUploadFits,
     ExpDownloadFits, InitDownloadFits, SegDownloadFits
<1>7. Progress'
  BY <1>1, <1>2, <1>4 DEF CalmInv, Progress, Answered
<1>8. Phase' = Phase /\ Answer' = Answer
  <2>1. InFlight = <<f>> /\ InFlight' = <<f>>
    BY <1>2, <1>3, OneInFlight DEF InFlight
  <2>2. PickedUp' = PickedUp
    BY <1>1, <2>1 DEF PickedUp
  <2>3. Phase' = Phase
    BY <1>1, <2>1, <2>2 DEF Phase
  <2>4. Answer' = Answer
    BY <1>1, <2>1, <2>2 DEF Answer
  <2> QED
    BY <2>3, <2>4
<1> QED
  BY <1>1, <1>6, <1>7, <1>8 DEF Refines, CalmInv, Maps, Atomic!vars

\* What the invariant and the mapping speak of.
Spoken == <<toServer, toClient, responses, pc, call, stream, request, result, outcome,
            srvIndex, srvBuffer, srvToggle, commits>>

LEMMA SpokenStays ==
  ASSUME CalmInv, UNCHANGED Spoken
  PROVE  CalmInv' /\ Phase' = Phase /\ Answer' = Answer
<1>1. /\ UNCHANGED <<toServer, toClient, responses, pc, call, stream, request, result>>
      /\ UNCHANGED <<outcome, srvIndex, srvBuffer, srvToggle, commits>>
  BY DEF Spoken
<1>2. /\ \A f : Answered(f)' <=> Answered(f)
      /\ Asking' <=> Asking
      /\ \A kind : Pending(kind)' <=> Pending(kind)
      /\ Nothing' <=> Nothing
      /\ \A n : Moved(n)' <=> Moved(n)
  BY <1>1 DEF Answered, Asking, Pending, Nothing, Moved
<1>3. Progress'
  BY <1>1, <1>2 DEF CalmInv, Progress
<1>4. Fits'
  BY <1>1, <1>2 DEF CalmInv, Fits, InitUploadFits, SegUploadFits, ExpDownloadFits,
     InitDownloadFits, SegDownloadFits
<1>5. InFlight' = InFlight
  BY <1>1 DEF InFlight
<1>6. PickedUp' = PickedUp
  BY <1>1, <1>5 DEF PickedUp
<1>7. Phase' = Phase
  BY <1>1, <1>5, <1>6 DEF Phase
<1>8. Answer' = Answer
  BY <1>1, <1>5, <1>6 DEF Answer
<1> QED
  BY <1>3, <1>4, <1>7, <1>8 DEF CalmInv

LEMMA StepRefines ==
  ASSUME Calm, ValueInv, CalmInv, [Next]_vars
  PROVE  Refines
<1>1. TypeOK
  BY DEF ValueInv, IInv
<1>2. CASE \/ \E o \in Objects : StartUpload(o)
           \/ \E o \in Objects, d \in Values, forced \in BOOLEAN : StartDownload(o, d, forced)
  BY <1>2, StartRefines
<1>3. CASE ClientStep
  BY <1>3, ClientRefines
<1>4. CASE ServerStep
  BY <1>4, ServerRefines
<1>5. CASE NotifierStep
  BY <1>1, <1>5, DeliveryRefines
<1>6. ASSUME NEW o \in Dictionary, NEW d \in Values, LocalWriteStep(o, d)
      PROVE  Refines
  <2>1. UNCHANGED Spoken /\ call' = call /\ LocalWrite(o, d)
    BY <1>6 DEF LocalWriteStep, LocalWrite, clientVars, busVars, Spoken
  <2>2. CalmInv' /\ Phase' = Phase /\ Answer' = Answer
    BY <2>1, SpokenStays
  <2>3. Atomic!LocalWrite(o, d)
    BY <2>1, <2>2 DEF LocalWrite, Atomic!LocalWrite
  <2> QED
    BY <2>2, <2>3 DEF Refines, Maps, Atomic!Next
<1>7. ~BusStep
  BY <1>1, CalmBus
<1>8. CASE UNCHANGED vars
  <2>1. UNCHANGED Spoken /\ UNCHANGED <<call, store>>
    BY <1>8 DEF vars, busVars, clientVars, srvVars, historyVars, Spoken
  <2>2. CalmInv' /\ Phase' = Phase /\ Answer' = Answer
    BY <2>1, SpokenStays
  <2> QED
    BY <2>1, <2>2 DEF Refines, Maps, Atomic!vars
<1> QED
  BY <1>2, <1>3, <1>4, <1>5, <1>6, <1>7, <1>8 DEF Next

LEMMA CalmInit == Init => CalmInv /\ Atomic!Init
<1> SUFFICES ASSUME Init PROVE CalmInv /\ Atomic!Init
  OBVIOUS
<1>1. /\ pc = "idle" /\ Nothing /\ call = NoCall /\ result = <<>> /\ store = InitialValue
  BY DEF Init, BusInit, ClientInit, ServerInit, Nothing
<1>2. CalmInv
  BY <1>1 DEF CalmInv, Progress, Fits, InitUploadFits, SegUploadFits, ExpDownloadFits,
     InitDownloadFits, SegDownloadFits, Pending
<1>3. Phase = "idle" /\ Answer = <<>>
  BY <1>1 DEF Phase, Answer
<1> QED
  BY <1>1, <1>2, <1>3 DEF Atomic!Init

\* On a bus that loses nothing and delivers in time, every transfer is one atomic access
\* to its object: an upload picks up, and a download stores, a whole value in one step
\* between its start and its end, and a call that the server refuses has no effect.
\* This is the safety part of ImplementsAtomicObjects, for all values and sizes.
THEOREM TransfersAreAtomic ==
  Calm /\ Spec => Atomic!Init /\ [][Atomic!Next]_(Atomic!vars)
<1> SUFFICES ASSUME Calm PROVE Spec => Atomic!Init /\ [][Atomic!Next]_(Atomic!vars)
  OBVIOUS
<1> DEFINE CInv == ValueInv /\ CalmInv
<1>1. Spec => []ValueInv
  BY ValueInductive DEF Calm
<1>2. Init => CalmInv /\ Atomic!Init
  BY CalmInit
<1>3. ValueInv /\ CalmInv /\ [Next]_vars => CalmInv'
  BY StepRefines DEF Refines
<1>4. ValueInv /\ CalmInv => Stages
  BY StagesHold DEF ValueInv, IInv
<1>5. ValueInv /\ CalmInv /\ Stages /\ Stages' /\ [Next]_vars => [Atomic!Next]_(Atomic!vars)
  BY StepRefines DEF Refines, Maps
<1> QED
  BY <1>1, <1>2, <1>3, <1>4, <1>5, PTL DEF Spec


=============================================================================
