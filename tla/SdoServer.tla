------------------------------ MODULE SdoServer ------------------------------
(***************************************************************************)
(* The SDO server of a local node (SdoServer.on_request and its handlers)  *)
(* and the data store it serves (LocalNode.get_data and set_data).         *)
(*                                                                         *)
(* on_request runs in the notifier thread, one frame at a time, so each    *)
(* handler is one atomic action.  It has one transfer buffer, one toggle   *)
(* bit and one current object, shared by uploads and downloads.            *)
(***************************************************************************)
EXTENDS SdoChannel

CONSTANTS
  Dictionary,    \* objects that exist in the server's object dictionary
  Readable,      \* objects with a readable access type
  Writable,      \* objects with a writable access type
  Width,         \* size in bytes of a numeric object, 0 for strings and domains
  InitialValue,  \* the EDS value or default of an object, NoValue without one
  Values,        \* values that applications write
  NoValue,       \* stands for a missing entry of data_store
  NoObject,      \* stands for None in _index
  NoBuffer       \* stands for None in _buffer

ASSUME DictionaryAssumption ==
  /\ Dictionary \subseteq Objects
  /\ Readable \subseteq Dictionary
  /\ Writable \subseteq Dictionary
  /\ Width \in [Dictionary -> Nat]
  /\ NoObject \notin Objects

ASSUME ValueAssumption ==
  /\ Values \subseteq Data
  /\ InitialValue \in [Dictionary -> Values \cup {NoValue}]
  /\ NoValue \notin Data
  /\ NoBuffer \notin Data

VARIABLES
  store,              \* value of each object: data_store, else value or default
  srvIndex,           \* _index and _subindex
  srvBuffer,          \* _buffer
  srvToggle,          \* _toggle
  lastReceivedError   \* last_received_error

srvVars == <<store, srvIndex, srvBuffer, srvToggle, lastReceivedError>>

ServerTypeOK ==
  /\ store \in [Dictionary -> Data \cup {NoValue}]
  /\ srvIndex \in Objects \cup {NoObject}
  /\ srvBuffer \in Data \cup {NoBuffer}
  /\ srvToggle \in Bit
  /\ lastReceivedError \in ClientAbortCodes \cup {"none"}

ServerInit ==
  /\ store = InitialValue
  /\ srvIndex = NoObject
  /\ srvBuffer = NoBuffer
  /\ srvToggle = 0
  /\ lastReceivedError = "none"

-----------------------------------------------------------------------------
\* The checks of get_data and set_data.

Available(o) == o \in Readable /\ store[o] # NoValue

\* Mutant: set_data without the check of the access type.
AcceptsReadOnly(o, d) == o \in Dictionary /\ Width[o] \in {0, Len(d)}

Accepts(o, d) == o \in Writable /\ Width[o] \in {0, Len(d)}

-----------------------------------------------------------------------------
\* Answers.  A handler's send_response may raise CanError: on_request then
\* sends a general abort in its place, with the handler's state changes made; if
\* that cannot be sent either, the notifier logs the exception and nothing is sent.
\* abort() packs _index: while that is None it raises and nothing is sent.

Request(kind) ==
  /\ toServer # <<>>
  /\ Head(toServer).kind = kind
  /\ toServer' = Tail(toServer)
  /\ UNCHANGED lossesLeft

AbortTransfer(o) ==
  \/ /\ toClient' = IF o = NoObject THEN toClient ELSE Append(toClient, RspAbort)
     /\ UNCHANGED sendFailuresLeft
  \/ /\ sendFailuresLeft > 0
     /\ sendFailuresLeft' = sendFailuresLeft - 1
     /\ UNCHANGED toClient

SendResponse(o, response) ==
  \/ /\ toClient' = Append(toClient, response)
     /\ UNCHANGED sendFailuresLeft
  \/ /\ sendFailuresLeft > 0
     /\ sendFailuresLeft' = sendFailuresLeft - 1
     /\ toClient' = IF o = NoObject THEN toClient ELSE Append(toClient, RspAbort)
  \/ /\ sendFailuresLeft > 1
     /\ sendFailuresLeft' = sendFailuresLeft - 2
     /\ UNCHANGED toClient

-----------------------------------------------------------------------------
\* init_upload: small values travel in the response itself, larger ones are
\* copied to the buffer, which later segment requests take apart.
InitUploadExpedited ==
  /\ Request("init_upload")
  /\ LET o == Head(toServer).obj IN
       /\ Available(o)
       /\ Len(store[o]) \in 1..ExpLen
       /\ srvIndex' = o
       /\ SendResponse(o, RspExpUpload(o, store[o]))
  /\ UNCHANGED <<store, srvBuffer, srvToggle, lastReceivedError>>

\* Mutant: the toggle bit of the last transfer is kept.
InitUploadKeepsToggle ==
  /\ Request("init_upload")
  /\ LET o == Head(toServer).obj IN
       /\ Available(o)
       /\ Len(store[o]) > ExpLen
       /\ srvIndex' = o
       /\ srvBuffer' = store[o]
       /\ SendResponse(o, RspInitUpload(o, Len(store[o])))
  /\ UNCHANGED <<store, srvToggle, lastReceivedError>>

\* Mutant: what an earlier transfer left in the buffer stays in front.
InitUploadKeepsBuffer ==
  /\ Request("init_upload")
  /\ LET o == Head(toServer).obj IN
       /\ Available(o)
       /\ Len(store[o]) > ExpLen
       /\ srvIndex' = o
       /\ srvBuffer' = IF srvBuffer = NoBuffer THEN store[o] ELSE srvBuffer \o store[o]
       /\ srvToggle' = 0
       /\ SendResponse(o, RspInitUpload(o, Len(store[o])))
  /\ UNCHANGED <<store, lastReceivedError>>

InitUploadSegmented ==
  /\ Request("init_upload")
  /\ LET o == Head(toServer).obj IN
       /\ Available(o)
       /\ Len(store[o]) > ExpLen
       /\ srvIndex' = o
       /\ srvBuffer' = store[o]
       /\ srvToggle' = 0
       /\ SendResponse(o, RspInitUpload(o, Len(store[o])))
  /\ UNCHANGED <<store, lastReceivedError>>

\* Mutant: no return after the abort for an empty value.
InitUploadAnswersTwice ==
  /\ Request("init_upload")
  /\ LET o == Head(toServer).obj IN
       /\ Available(o) => store[o] = <<>>
       /\ srvIndex' = o
       /\ toClient' = toClient \o <<RspAbort, RspExpUpload(o, <<>>)>>
  /\ UNCHANGED <<sendFailuresLeft, store, srvBuffer, srvToggle, lastReceivedError>>

InitUploadRefused ==
  /\ Request("init_upload")
  /\ LET o == Head(toServer).obj IN
       /\ Available(o) => store[o] = <<>>
       /\ srvIndex' = o
       /\ AbortTransfer(o)
  /\ UNCHANGED <<store, srvBuffer, srvToggle, lastReceivedError>>

\* Mutant: one byte too many is removed from the buffer.
SegmentedUploadSkips ==
  /\ Request("seg_upload")
  /\ Head(toServer).toggle = srvToggle
  /\ srvBuffer # NoBuffer
  /\ LET n == IF Len(srvBuffer) < SegLen THEN Len(srvBuffer) ELSE SegLen
         rest == SubSeq(srvBuffer, n + 2, Len(srvBuffer))
     IN /\ srvBuffer' = rest
        /\ SendResponse(srvIndex,
             RspSegUpload(srvToggle, SubSeq(srvBuffer, 1, n), rest = <<>>))
  /\ srvToggle' = Flip(srvToggle)
  /\ UNCHANGED <<store, srvIndex, lastReceivedError>>

\* segmented_upload: the next bytes of the buffer, if the toggle bit fits.
SegmentedUpload ==
  /\ Request("seg_upload")
  /\ Head(toServer).toggle = srvToggle
  /\ srvBuffer # NoBuffer
  /\ LET n == IF Len(srvBuffer) < SegLen THEN Len(srvBuffer) ELSE SegLen
         rest == SubSeq(srvBuffer, n + 1, Len(srvBuffer))
     IN /\ srvBuffer' = rest
        /\ SendResponse(srvIndex,
             RspSegUpload(srvToggle, SubSeq(srvBuffer, 1, n), rest = <<>>))
  /\ srvToggle' = Flip(srvToggle)
  /\ UNCHANGED <<store, srvIndex, lastReceivedError>>

\* init_download: an expedited value is stored at once, a segmented transfer
\* only empties the buffer (whether the object is writable is checked at its end).
InitDownloadExpedited ==
  /\ Request("exp_download")
  /\ LET f == Head(toServer) IN
       /\ srvIndex' = f.obj
       /\ \/ /\ Accepts(f.obj, f.data)
             /\ store' = [store EXCEPT ![f.obj] = f.data]
             /\ SendResponse(f.obj, RspDownload(f.obj))
          \/ /\ ~Accepts(f.obj, f.data)
             /\ AbortTransfer(f.obj)
             /\ UNCHANGED store
  /\ UNCHANGED <<srvBuffer, srvToggle, lastReceivedError>>

\* Mutant: the buffer of the last transfer is not emptied.
InitDownloadKeepsBuffer ==
  /\ Request("init_download")
  /\ srvIndex' = Head(toServer).obj
  /\ srvBuffer' = IF srvBuffer = NoBuffer THEN <<>> ELSE srvBuffer
  /\ srvToggle' = 0
  /\ SendResponse(Head(toServer).obj, RspDownload(Head(toServer).obj))
  /\ UNCHANGED <<store, lastReceivedError>>

InitDownloadSegmented ==
  /\ Request("init_download")
  /\ srvIndex' = Head(toServer).obj
  /\ srvBuffer' = <<>>
  /\ srvToggle' = 0
  /\ SendResponse(Head(toServer).obj, RspDownload(Head(toServer).obj))
  /\ UNCHANGED <<store, lastReceivedError>>

\* segmented_download: the segment is appended; the last one is stored.  A
\* refused value leaves the longer buffer and the toggle bit as they are.
SegmentedDownload ==
  /\ Request("seg_download")
  /\ LET f == Head(toServer) IN
       /\ f.toggle = srvToggle
       /\ srvBuffer # NoBuffer
       /\ srvBuffer' = srvBuffer \o f.data
       /\ f.last => Accepts(srvIndex, srvBuffer')
       /\ store' = IF f.last THEN [store EXCEPT ![srvIndex] = srvBuffer'] ELSE store
       /\ SendResponse(srvIndex, RspSegDownload(srvToggle))
  /\ srvToggle' = Flip(srvToggle)
  /\ UNCHANGED <<srvIndex, lastReceivedError>>

SegmentedDownloadRefused ==
  /\ Request("seg_download")
  /\ LET f == Head(toServer) IN
       /\ f.toggle = srvToggle
       /\ srvBuffer # NoBuffer
       /\ srvBuffer' = srvBuffer \o f.data
       /\ f.last /\ ~Accepts(srvIndex, srvBuffer')
  /\ AbortTransfer(srvIndex)
  /\ UNCHANGED <<store, srvIndex, srvToggle, lastReceivedError>>

\* A segment request that does not fit: the toggle bit differs, or no transfer
\* was ever initiated and the buffer is still None.
SegmentRefused ==
  /\ Request("seg_upload") \/ Request("seg_download")
  /\ Head(toServer).toggle # srvToggle \/ srvBuffer = NoBuffer
  /\ AbortTransfer(srvIndex)
  /\ UNCHANGED srvVars

\* request_aborted: the code is recorded, the transfer stays as it is.
RequestAborted ==
  /\ Request("abort")
  /\ lastReceivedError' = Head(toServer).code
  /\ UNCHANGED <<toClient, sendFailuresLeft, store, srvIndex, srvBuffer, srvToggle>>

OnRequest ==
  \/ InitUploadExpedited
  \/ InitUploadSegmented
  \/ InitUploadRefused
  \/ SegmentedUpload
  \/ InitDownloadExpedited
  \/ InitDownloadSegmented
  \/ SegmentedDownload
  \/ SegmentedDownloadRefused
  \/ SegmentRefused
  \/ RequestAborted

\* The node's application writes an object itself, through set_data.  An
\* application is free to write objects that are read-only for clients.
LocalWrite(o, d) ==
  /\ o \in Dictionary
  /\ Width[o] \in {0, Len(d)}
  /\ store' = [store EXCEPT ![o] = d]
  /\ UNCHANGED <<srvIndex, srvBuffer, srvToggle, lastReceivedError>>
  /\ UNCHANGED busVars

=============================================================================
