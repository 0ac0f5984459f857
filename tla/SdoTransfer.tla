----------------------------- MODULE SdoTransfer -----------------------------
(***************************************************************************)
(* One SdoClient and one SdoServer on a CAN bus: the application of the    *)
(* client's node uploads and downloads objects, the application of the     *)
(* server's node writes objects of its own.                                *)
(*                                                                         *)
(* Prompt says whether the server answers within RESPONSE_TIMEOUT.  When   *)
(* it does, a call times out only if the request or its answer was lost;   *)
(* when it does not, answers may arrive after the client gave up on them.  *)
(***************************************************************************)
EXTENDS SdoClient, SdoServer

CONSTANTS
  Prompt,         \* no answer takes longer than RESPONSE_TIMEOUT
  MaxCalls,       \* bound: calls of the client's application
  MaxLocalWrites  \* bound: writes of the server's application

ASSUME TransferAssumption ==
  /\ Prompt \in BOOLEAN
  /\ MaxCalls \in Nat
  /\ MaxLocalWrites \in Nat

VARIABLES
  callsLeft,        \* calls the bound still allows
  localWritesLeft,  \* local writes the bound still allows
  held,             \* history: values the object had during the call
  commits           \* history: what the server stored during the call

historyVars == <<held, commits>>
boundVars == <<callsLeft, localWritesLeft>>
vars == <<busVars, clientVars, srvVars, boundVars, historyVars>>

TypeOK ==
  /\ BusTypeOK
  /\ ClientTypeOK
  /\ ServerTypeOK
  /\ callsLeft \in 0..MaxCalls
  /\ localWritesLeft \in 0..MaxLocalWrites
  /\ held \subseteq Data \cup {NoValue}
  /\ commits \in Seq([obj : Objects, data : Data])

Init ==
  /\ BusInit
  /\ ClientInit
  /\ ServerInit
  /\ callsLeft = MaxCalls
  /\ localWritesLeft = MaxLocalWrites
  /\ held = {}
  /\ commits = <<>>

-----------------------------------------------------------------------------
\* The history of a call starts with the value its object has then.
StartCall(o) ==
  /\ callsLeft > 0
  /\ callsLeft' = callsLeft - 1
  /\ held' = IF o \in Dictionary THEN {store[o]} ELSE {}
  /\ commits' = <<>>
  /\ UNCHANGED <<srvVars, localWritesLeft>>

StartUpload(o) == Upload(o) /\ StartCall(o)

StartDownload(o, d, forceSegment) == Download(o, d, forceSegment) /\ StartCall(o)

\* A response in time: the client times out only when nothing is under way.
TimeoutPossible == Prompt => toServer = <<>> /\ toClient = <<>>

ApplicationStep ==
  \/ SendRequest
  \/ SendRequestFails
  \/ TimeoutPossible /\ (RetryAfterTimeout \/ GiveUpAfterTimeout)
  \/ ReadResponse
  \/ ReadSegment
  \/ WriteSegment
  \/ CloseEmpty

ClientStep ==
  /\ ApplicationStep
  /\ UNCHANGED <<srvVars, boundVars, historyVars>>

NotifierStep ==
  /\ OnResponse
  /\ UNCHANGED <<srvVars, boundVars, historyVars>>

\* What the current call's object holds now belongs to its history too.
RecordHeld ==
  held' = IF call # NoCall /\ call.obj \in Dictionary
          THEN held \cup {store'[call.obj]} ELSE held

StoresValue == InitDownloadExpedited \/ SegmentedDownload

ServerStep ==
  /\ OnRequest
  /\ RecordHeld
  /\ LET f == Head(toServer) IN
     commits' =
       IF StoresValue /\ f.kind = "exp_download" /\ Accepts(f.obj, f.data)
       THEN Append(commits, [obj |-> f.obj, data |-> f.data])
       ELSE IF StoresValue /\ f.kind = "seg_download" /\ f.last
       THEN Append(commits, [obj |-> srvIndex, data |-> srvBuffer'])
       ELSE commits
  /\ UNCHANGED <<clientVars, boundVars>>

LocalWriteStep(o, d) ==
  /\ localWritesLeft > 0
  /\ LocalWrite(o, d)
  /\ localWritesLeft' = localWritesLeft - 1
  /\ RecordHeld
  /\ UNCHANGED <<clientVars, callsLeft, commits>>

BusStep ==
  /\ LoseRequest \/ LoseResponse
  /\ UNCHANGED <<clientVars, srvVars, boundVars, historyVars>>

Next ==
  \/ \E o \in Objects : StartUpload(o)
  \/ \E o \in Objects, d \in Values, forced \in BOOLEAN : StartDownload(o, d, forced)
  \/ ClientStep
  \/ NotifierStep
  \/ ServerStep
  \/ \E o \in Dictionary, d \in Values : LocalWriteStep(o, d)
  \/ BusStep

\* The threads run and the frames are delivered; queue.get() returns after its
\* timeout.  Nothing forces the application to call, or the bus to lose.
Fairness ==
  /\ WF_vars(ClientStep)
  /\ WF_vars(NotifierStep)
  /\ WF_vars(ServerStep)

Spec == Init /\ [][Next]_vars /\ Fairness

-----------------------------------------------------------------------------
Finished(kind) == pc = "idle" /\ call # NoCall /\ call.kind = kind /\ outcome = "ok"

\* An upload that returns has read one whole value its object held at some
\* moment of the call: neither bytes of two values nor a part of one, whatever
\* was lost and whatever the node's application wrote meanwhile
\* (ReadableStream against init_upload's copy of the value).
UploadReadsOneValue ==
  Finished("upload") => result \in held

\* A download that returns has been stored by the server, whole, in the object that
\* was named; more than once if requests were repeated after a lost answer, but the
\* call stored nothing else.
DownloadStored ==
  Finished("download") =>
    /\ commits # <<>>
    /\ \A i \in 1..Len(commits) : commits[i] = [obj |-> call.obj, data |-> call.data]

\* Between two exchanges the ends of a segmented transfer agree: on the object,
\* on the toggle bit, and on which bytes have been moved.  What the client has
\* read and what the server still has to send make up one value the object held.
InStep ==
  pc = "io" =>
    /\ srvIndex = call.obj
    /\ srvToggle = stream.toggle
    /\ call.kind = "download" => srvBuffer = SubSeq(call.data, 1, stream.pos)
    /\ call.kind = "upload" => result \o srvBuffer \in held

\* Reading is safe: an upload, failed or not, makes the server store nothing.
UploadStoresNothing ==
  call # NoCall /\ call.kind = "upload" => commits = <<>>

\* Requests that the server has not handled yet.
Asked == {i \in DOMAIN toServer : toServer[i].kind # "abort"}

\* At most one request is unanswered: request_response never lets a second one
\* out while the first is on its way, so answers cannot be confused.
OneOutstanding ==
  /\ \A i, j \in Asked : i = j
  /\ Asked # {} => toClient = <<>> /\ responses = <<>>
  /\ Len(toClient) + Len(responses) <= 1

Prefixes(d) == {SubSeq(d, 1, n) : n \in 0..Len(d)}

GivenValues ==
  (Values \cup {InitialValue[o] : o \in Dictionary}) \ {NoValue}

\* Of this call and at most one before it.
OneCallBefore == callsLeft + 2 >= MaxCalls

\* As long as requests are not repeated (MAX_RETRIES = 1, the default), the late
\* answers of one abandoned call cannot splice values: an upload that returns has
\* read bytes of one value only, in order and from its start.  What is late then
\* belongs to the last exchange that the call gave up on, and request_response
\* empties the queue before the call after it.  Two abandoned calls are enough for a
\* mixture, or a repeated request in one: late answers then begin like a transfer of
\* their own.
UploadNeverMixes ==
  MaxRetries = 1 /\ OneCallBefore /\ Finished("upload") =>
    \E d \in GivenValues : result \in Prefixes(d)

\* Nor can late requests: as long as no frame was lost and no send failed, every
\* object holds the start of one value that an application gave it, never bytes of
\* two (init_download empties the buffer, and frames arrive in the order of the
\* stream).  With losses the answers of abandoned calls can stand in for those of
\* requests that never arrived, and a segment then lands behind what an earlier
\* transfer left; so does close()'s segment after an initiate request that could not
\* be sent.
StoreHoldsPrefixes ==
  lossesLeft = MaxLosses /\ sendFailuresLeft = MaxSendFailures =>
    \A o \in Dictionary :
      store[o] # NoValue => \E d \in GivenValues : store[o] \in Prefixes(d)

\* Each call ends, in a return or an exception: no wait lasts for ever, and
\* neither retries nor close() keep a failing transfer going.
CallsEnd == pc # "idle" ~> pc = "idle"

-----------------------------------------------------------------------------
\* The transfers implement atomic access to objects.  The value an upload picks
\* up is what the client has, what is in flight and what the server keeps.

InFlight == responses \o toClient

PickedUp ==
  /\ call # NoCall
  /\ call.kind = "upload"
  /\ \/ pc = "io"
     \/ pc \in {"send", "wait"} /\ request.kind = "seg_upload"
     \/ InFlight # <<>> /\ Head(InFlight).kind # "abort"

Phase ==
  CASE pc = "idle" -> "idle"
    [] pc # "idle" /\ (PickedUp \/ commits # <<>>) -> "applied"
    [] pc # "idle" /\ InFlight = <<RspAbort>> -> "refused"
    [] OTHER -> "pending"

Answer ==
  IF pc = "idle" THEN result
  ELSE IF ~PickedUp THEN <<>>
  ELSE IF InFlight = <<>> THEN result \o srvBuffer
  ELSE CASE Head(InFlight).kind = "init_upload" -> srvBuffer
         [] Head(InFlight).kind = "exp_upload" -> Head(InFlight).data
         [] OTHER -> result \o Head(InFlight).data \o srvBuffer

Atomic == INSTANCE AtomicObjects WITH op <- call, phase <- Phase, answer <- Answer

\* On a bus that loses nothing, with answers in time, every step of a transfer is
\* a step of atomic object access or changes nothing there, and each call that
\* the server can serve is served.
ImplementsAtomicObjects == Atomic!Spec

-----------------------------------------------------------------------------
\* "Index of object to write" (client.py): what a call makes the server store
\* goes to the object that the call named.
CommitsGoToNamedObject ==
  \A i \in 1..Len(commits) : commits[i].obj = call.obj

\* "When node responds with an error" (client.py): a download that the server
\* refuses raises SdoAbortedError, so one that returns was acceptable.
RefusedDownloadRaises ==
  Finished("download") =>
    call.obj \in Writable /\ Width[call.obj] \in {0, Len(call.data)}

=============================================================================
