---------------------------- MODULE AtomicObjects ----------------------------
(***************************************************************************)
(* What remote object access promises when the bus loses nothing and the   *)
(* server answers in time: each upload and each download acts on the       *)
(* server's store once, at one moment of the call, with a whole value.  A  *)
(* call fails only if the server refuses it, and then it has no effect.    *)
(***************************************************************************)
EXTENDS Naturals, Sequences

CONSTANTS Objects, Dictionary, Readable, Writable, Width, Values, InitialValue,
          NoValue, NoCall

VARIABLES
  store,   \* the value of each object of the server
  op,      \* the call under way, or the last one
  phase,   \* "idle", "pending", "applied" or "refused"
  answer   \* the value an upload has picked up

vars == <<store, op, phase, answer>>

Init ==
  /\ store = InitialValue
  /\ op = NoCall
  /\ phase = "idle"
  /\ answer = <<>>

BeginUpload(o) ==
  /\ phase = "idle"
  /\ op' = [kind |-> "upload", obj |-> o]
  /\ phase' = "pending"
  /\ answer' = <<>>
  /\ UNCHANGED store

BeginDownload(o, d) ==
  /\ phase = "idle"
  /\ op' = [kind |-> "download", obj |-> o, data |-> d]
  /\ phase' = "pending"
  /\ answer' = <<>>
  /\ UNCHANGED store

Readable1(o) == o \in Readable /\ store[o] \notin {NoValue, <<>>}
Writable1(o, d) == o \in Writable /\ Width[o] \in {0, Len(d)}

ApplyUpload ==
  /\ phase = "pending" /\ op.kind = "upload"
  /\ Readable1(op.obj)
  /\ phase' = "applied"
  /\ answer' = store[op.obj]
  /\ UNCHANGED <<store, op>>

ApplyDownload ==
  /\ phase = "pending" /\ op.kind = "download"
  /\ Writable1(op.obj, op.data)
  /\ phase' = "applied"
  /\ store' = [store EXCEPT ![op.obj] = op.data]
  /\ UNCHANGED <<op, answer>>

Refuse ==
  /\ phase = "pending"
  /\ IF op.kind = "upload" THEN ~Readable1(op.obj) ELSE ~Writable1(op.obj, op.data)
  /\ phase' = "refused"
  /\ UNCHANGED <<store, op, answer>>

\* The call returns to its caller, or raises.
End ==
  /\ phase \in {"applied", "refused"}
  /\ phase' = "idle"
  /\ UNCHANGED <<store, op, answer>>

\* The server's own application writes.
LocalWrite(o, d) ==
  /\ Width[o] \in {0, Len(d)}
  /\ store' = [store EXCEPT ![o] = d]
  /\ UNCHANGED <<op, phase, answer>>

Apply == ApplyUpload \/ ApplyDownload \/ Refuse

Next ==
  \/ \E o \in Objects : BeginUpload(o)
  \/ \E o \in Objects, d \in Values : BeginDownload(o, d)
  \/ Apply
  \/ End
  \/ \E o \in Dictionary, d \in Values : LocalWrite(o, d)

Spec == Init /\ [][Next]_vars /\ WF_vars(Apply) /\ WF_vars(End)

=============================================================================
