---------------------------------- MODULE Emcy ----------------------------------
(***************************************************************************)
(* EmcyConsumer of a remote node and the EmcyProducer it listens to        *)
(* (emcy.py).  The notifier thread logs what arrives, threads of the       *)
(* application wait for a message, one of them may reset the log.          *)
(*                                                                         *)
(* The condition variable's lock is held by on_emcy and by a waiter that   *)
(* is awake, but not by reset.                                             *)
(***************************************************************************)
EXTENDS Naturals, Sequences, SequencesExt

CONSTANTS
  Codes,      \* error codes that the device sends
  NoError,    \* code 0, "Error Reset / No Error"
  Waiters,    \* threads that call wait
  AnyCode,    \* emcy_code = None
  Awaited,    \* what the threads wait for
  Nobody,     \* nobody holds the lock
  Budgets     \* bounds: scenarios, messages and calls of reset and wait in each

ASSUME EmcyAssumption ==
  /\ NoError \notin Codes
  /\ AnyCode \notin Codes
  /\ Awaited \subseteq Codes \cup {AnyCode}
  /\ Nobody \notin Waiters
  /\ Budgets \subseteq [sends : Nat, resets : Nat, waits : [Waiters -> Nat]]

VARIABLES
  log,       \* log
  active,    \* active
  logging,   \* on_emcy: the message whose entry has still to be logged
  resetting, \* reset: the log is new, active is not yet
  lock,      \* the waiter that holds emcy_received
  waiter,    \* the wait that each thread is in, or has done last
  came,      \* history: what was logged since each thread began to wait
  torn,      \* history: reset and on_emcy have overlapped
  left       \* what the bounds still allow

vars == <<log, active, logging, resetting, lock, waiter, came, torn, left>>

Init ==
  /\ log = <<>> /\ active = <<>>
  /\ logging = <<>> /\ resetting = FALSE
  /\ lock = Nobody
  /\ waiter = [w \in Waiters |->
       [pc |-> "idle", code |-> AnyCode, size |-> 0, expired |-> FALSE,
        outcome |-> "none", result |-> NoError, disturbed |-> FALSE]]
  /\ came = [w \in Waiters |-> {}]
  /\ torn = FALSE
  /\ left \in Budgets

At(w, pc) == waiter[w].pc = pc
Goto(w, pc) == waiter' = [waiter EXCEPT ![w].pc = pc]

-----------------------------------------------------------------------------
\* Mutant: an error reset is one more active error.
ActiveAlways(code) == Append(active, code)

\* An error reset clears the active errors, any other code is one more of them.
ActiveWith(code) == IF code = NoError THEN <<>> ELSE Append(active, code)

\* A message of EmcyProducer.send or reset arrives: on_emcy, in the notifier
\* thread, up to the update of active.
OnEmcy(code) ==
  /\ left.sends > 0 /\ logging = <<>> /\ lock = Nobody
  /\ left' = [left EXCEPT !.sends = @ - 1]
  /\ logging' = <<code>>
  /\ active' = ActiveWith(code)
  /\ torn' = (torn \/ resetting)
  /\ UNCHANGED <<log, resetting, lock, waiter, came>>

\* The rest: the entry is logged, all who wait are woken.
LogEntry ==
  /\ logging # <<>>
  /\ log' = log \o logging
  /\ logging' = <<>>
  /\ waiter' = [w \in Waiters |->
       IF At(w, "waiting") THEN [waiter[w] EXCEPT !.pc = "woken"] ELSE waiter[w]]
  /\ came' = [w \in Waiters |->
       IF At(w, "idle") THEN came[w] ELSE came[w] \cup ToSet(logging)]
  /\ torn' = (torn \/ resetting)
  /\ UNCHANGED <<active, resetting, lock, left>>

-----------------------------------------------------------------------------
\* reset replaces the log, then active, without the lock.
ResetLog ==
  /\ left.resets > 0 /\ ~resetting
  /\ left' = [left EXCEPT !.resets = @ - 1]
  /\ log' = <<>>
  /\ resetting' = TRUE
  /\ waiter' = [w \in Waiters |->
       IF At(w, "idle") THEN waiter[w] ELSE [waiter[w] EXCEPT !.disturbed = TRUE]]
  /\ torn' = (torn \/ logging # <<>>)
  /\ UNCHANGED <<active, logging, lock, came>>

ResetActive ==
  /\ resetting
  /\ active' = <<>>
  /\ resetting' = FALSE
  /\ torn' = (torn \/ logging # <<>>)
  /\ UNCHANGED <<log, logging, lock, waiter, came, left>>

-----------------------------------------------------------------------------
\* wait.  LockFree: neither on_emcy nor another waiter is inside the lock.
LockFree == lock = Nobody /\ logging = <<>>

BeginWait(w, code) ==
  /\ At(w, "idle") /\ left.waits[w] > 0
  /\ left' = [left EXCEPT !.waits[w] = @ - 1]
  /\ waiter' = [waiter EXCEPT ![w] =
       [pc |-> "loop", code |-> code, size |-> 0, expired |-> FALSE,
        outcome |-> "running", result |-> NoError, disturbed |-> FALSE]]
  /\ came' = [came EXCEPT ![w] = {}]
  /\ UNCHANGED <<log, active, logging, resetting, lock, torn>>

Remember(w) ==
  /\ At(w, "loop") /\ LockFree
  /\ waiter' = [waiter EXCEPT ![w].pc = "waiting", ![w].size = Len(log)]
  /\ UNCHANGED <<log, active, logging, resetting, lock, came, torn, left>>

\* Time passes: end_time of the call; a round, which waits for the full timeout
\* each time and so never ends before that.
Expire(w) ==
  /\ ~At(w, "idle") /\ ~waiter[w].expired
  /\ waiter' = [waiter EXCEPT ![w].expired = TRUE]
  /\ UNCHANGED <<log, active, logging, resetting, lock, came, torn, left>>

RoundTimesOut(w) ==
  /\ At(w, "waiting") /\ waiter[w].expired
  /\ Goto(w, "woken")
  /\ UNCHANGED <<log, active, logging, resetting, lock, came, torn, left>>

Return(w, outcome, result) ==
  waiter' = [waiter EXCEPT ![w].pc = "idle", ![w].outcome = outcome,
                           ![w].result = result]

\* Mutant: a wake-up without a message starts another round.
CompareSizesAgain(w) ==
  /\ At(w, "woken") /\ LockFree
  /\ IF Len(log) = waiter[w].size
     THEN Goto(w, "loop") /\ UNCHANGED lock
     ELSE Goto(w, "reading") /\ lock' = w
  /\ UNCHANGED <<log, active, logging, resetting, came, torn, left>>

\* Awake, with the lock: nothing was logged, or an entry is read next.
CompareSizes(w) ==
  /\ At(w, "woken") /\ LockFree
  /\ IF Len(log) = waiter[w].size
     THEN Return(w, "nothing", NoError) /\ UNCHANGED lock
     ELSE Goto(w, "reading") /\ lock' = w
  /\ UNCHANGED <<log, active, logging, resetting, came, torn, left>>

\* Mutant: no matter which code was awaited.
AnyMatches(w, code) == TRUE

Matches(w, code) == waiter[w].code \in {AnyCode, code}

\* The last entry counts.  A log that was reset in between is an IndexError.
ReadLast(w) ==
  /\ At(w, "reading")
  /\ lock' = Nobody
  /\ CASE log = <<>> -> Return(w, "raised", NoError)
       [] log # <<>> /\ waiter[w].expired -> Return(w, "nothing", NoError)
       [] log # <<>> /\ ~waiter[w].expired /\ Matches(w, Last(log)) ->
            Return(w, "emcy", Last(log))
       [] OTHER -> Goto(w, "loop")
  /\ UNCHANGED <<log, active, logging, resetting, came, torn, left>>

WaiterStep(w) == Remember(w) \/ RoundTimesOut(w) \/ CompareSizes(w) \/ ReadLast(w)

Next ==
  \/ \E code \in Codes \cup {NoError} : OnEmcy(code)
  \/ LogEntry
  \/ ResetLog \/ ResetActive
  \/ \E w \in Waiters, code \in Awaited : BeginWait(w, code)
  \/ \E w \in Waiters : WaiterStep(w) \/ Expire(w)

\* The threads run and time passes.
Fairness ==
  /\ WF_vars(LogEntry)
  /\ \A w \in Waiters : WF_vars(WaiterStep(w)) /\ WF_vars(Expire(w))

Spec == Init /\ [][Next]_vars /\ Fairness

-----------------------------------------------------------------------------
Finished(w, outcome) == At(w, "idle") /\ waiter[w].outcome = outcome

\* What wait() says is true, however many threads wait and whatever arrives at
\* the same time: it returns a message only if that was logged after the call
\* began and has the code that was asked for; it returns None only after its
\* time, and raises nothing, unless the log was reset meanwhile.
WaitsTellTheTruth ==
  \A w \in Waiters :
    /\ Finished(w, "emcy") => /\ waiter[w].code \in {AnyCode, waiter[w].result}
                               /\ waiter[w].result \in came[w]
    /\ Finished(w, "nothing") => waiter[w].expired \/ waiter[w].disturbed
    /\ Finished(w, "raised") => waiter[w].disturbed

\* Errors that were logged after the last error reset.
SinceErrorReset ==
  LET resets == {i \in DOMAIN log : log[i] = NoError}
  IN SubSeq(log, 1 + (IF resets = {} THEN 0 ELSE CHOOSE i \in resets : \A j \in resets : j <= i),
            Len(log))

\* "Only active EMCYs. Will be cleared on Error Reset" (emcy.py): between two
\* messages the active errors are those logged since the last error reset,
\* unless reset() was ever called in the middle of a message or the other way.
ActiveAreUnreset ==
  logging = <<>> /\ ~resetting /\ ~torn => active = SinceErrorReset

\* Each wait ends, though each message starts its full timeout again.
EmcyWaitsEnd == \A w \in Waiters : ~At(w, "idle") ~> At(w, "idle")

\* ":param emcy_code: EMCY code to wait for" (wait): when a thread awakes to a log that
\* has grown by an entry with that code, the entry it looks at has it.  Not if another
\* message followed; this does not hold (README, findings).
AwaitedIsSeen ==
  \A w \in Waiters :
    At(w, "reading") /\ ~waiter[w].disturbed =>
      \A k \in waiter[w].size + 1 .. Len(log) : Matches(w, log[k]) => Matches(w, Last(log))

=============================================================================
