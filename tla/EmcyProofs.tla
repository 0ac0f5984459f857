------------------------------- MODULE EmcyProofs -------------------------------
(***************************************************************************)
(* What EmcyConsumer.wait returns is true, for any number of threads that  *)
(* wait, any error codes and any bounds, whatever is reset meanwhile.      *)
(***************************************************************************)
EXTENDS Emcy, SequenceTheorems, TLAPS

Logged == Codes \cup {NoError}

Waits == [pc : {"idle", "loop", "waiting", "woken", "reading"}, code : Codes \cup {AnyCode},
          size : Nat, expired : BOOLEAN, outcome : {"none", "running", "emcy", "nothing", "raised"},
          result : Logged, disturbed : BOOLEAN]

LogTypes ==
  /\ log \in Seq(Logged)
  /\ logging = <<>> \/ \E code \in Logged : logging = <<code>>
WaitTypes ==
  /\ waiter \in [Waiters -> Waits]
  /\ came \in [Waiters -> SUBSET Logged]
Types == LogTypes /\ WaitTypes

\* Entries of the log that are new to a thread came during its wait: those behind
\* the size that it remembers, or all after a reset.
NewCame ==
  \A w \in Waiters : ~At(w, "idle") =>
    IF waiter[w].disturbed THEN \A i \in 1 .. Len(log) : log[i] \in came[w]
    ELSE At(w, "loop") \/ (waiter[w].size <= Len(log)
                            /\ \A i \in 1 .. Len(log) : i > waiter[w].size => log[i] \in came[w])

\* A thread that reads the last entry, or was woken before its time, has a new one.
HasNew ==
  \A w \in Waiters :
    /\ At(w, "woken") => waiter[w].disturbed \/ waiter[w].expired \/ waiter[w].size < Len(log)
    /\ At(w, "reading") => waiter[w].disturbed \/ waiter[w].size < Len(log)

Inv == Types /\ NewCame /\ HasNew /\ WaitsTellTheTruth

LEMMA EmcyInit == Init => Inv
<1> SUFFICES ASSUME Init PROVE Inv
  OBVIOUS
<1>1. /\ log = <<>> /\ logging = <<>>
      /\ waiter = [w \in Waiters |->
           [pc |-> "idle", code |-> AnyCode, size |-> 0, expired |-> FALSE,
            outcome |-> "none", result |-> NoError, disturbed |-> FALSE]]
      /\ came = [w \in Waiters |-> {}]
  BY DEF Init
<1>2. Types
  <2>1. LogTypes
    BY <1>1 DEF LogTypes
  <2>2. WaitTypes
    BY <1>1 DEF WaitTypes, Waits, Logged
  <2> QED BY <2>1, <2>2 DEF Types
<1>3. NewCame /\ HasNew /\ WaitsTellTheTruth
  BY <1>1 DEF NewCame, HasNew, WaitsTellTheTruth, Finished, At
<1> QED BY <1>2, <1>3 DEF Inv

\* A message is logged: the log grows by one entry, which all who wait know of.
LEMMA LogKeeps ==
  ASSUME Inv, LogEntry
  PROVE Inv'
<1> USE DEF Inv
<1>1. PICK code \in Logged : logging = <<code>>
  BY DEF Types, LogTypes, LogEntry
<1>2. /\ log' \in Seq(Logged)
      /\ Len(log') = Len(log) + 1 /\ Len(log) \in Nat
      /\ \A i \in 1 .. Len(log) : log'[i] = log[i]
      /\ log'[Len(log) + 1] = code
  BY <1>1 DEF Types, LogTypes, LogEntry
<1>3. ToSet(logging) = {code}
  BY <1>1 DEF ToSet
<1>4. /\ logging' = <<>>
      /\ waiter' = [w \in Waiters |->
           IF At(w, "waiting") THEN [waiter[w] EXCEPT !.pc = "woken"] ELSE waiter[w]]
      /\ came' = [w \in Waiters |->
           IF At(w, "idle") THEN came[w] ELSE came[w] \cup {code}]
  BY <1>3 DEF LogEntry
<1>5. Types'
  <2>1. LogTypes'
    BY <1>2, <1>4 DEF Types, LogTypes
  <2>2. WaitTypes'
    <3>1. waiter' \in [Waiters -> Waits]
      <4>1. \A w \in Waiters : waiter[w] \in Waits
        BY DEF Types, WaitTypes
      <4>2. \A w \in Waiters : [waiter[w] EXCEPT !.pc = "woken"] \in Waits
        BY <4>1 DEF Waits
      <4> QED BY <1>4, <4>1, <4>2
    <3>2. came' \in [Waiters -> SUBSET Logged]
      BY <1>2, <1>4 DEF Types, WaitTypes
    <3> QED BY <3>1, <3>2 DEF WaitTypes
  <2> QED BY <2>1, <2>2 DEF Types
<1>6. NewCame'
  <2> SUFFICES ASSUME NEW w \in Waiters, ~At(w, "idle")'
               PROVE  (IF waiter[w].disturbed THEN \A i \in 1 .. Len(log) : log[i] \in came[w]
                       ELSE At(w, "loop")
                              \/ (waiter[w].size <= Len(log)
                                   /\ \A i \in 1 .. Len(log) :
                                        i > waiter[w].size => log[i] \in came[w]))'
    BY DEF NewCame
  <2>1. /\ ~At(w, "idle") /\ waiter[w].size \in Nat
        /\ waiter'[w].disturbed = waiter[w].disturbed /\ waiter'[w].size = waiter[w].size
        /\ At(w, "loop") => At(w, "loop")'
        /\ came'[w] = came[w] \cup {code}
    BY <1>4 DEF Types, WaitTypes, Waits, At
  <2>2. \A i \in 1 .. Len(log') : i \in 1 .. Len(log) \/ i = Len(log) + 1
    BY <1>2
  <2>3. CASE waiter[w].disturbed
    <3>1. \A i \in 1 .. Len(log) : log[i] \in came[w]
      BY <2>1, <2>3 DEF NewCame
    <3> QED BY <1>2, <2>1, <2>2, <2>3, <3>1
  <2>4. CASE ~waiter[w].disturbed /\ At(w, "loop")
    BY <2>1, <2>4
  <2>5. CASE ~waiter[w].disturbed /\ ~At(w, "loop")
    <3>1. /\ waiter[w].size <= Len(log)
          /\ \A i \in 1 .. Len(log) : i > waiter[w].size => log[i] \in came[w]
      BY <2>1, <2>5 DEF NewCame
    <3>2. waiter'[w].size <= Len(log')
      BY <1>2, <2>1, <3>1
    <3>3. \A i \in 1 .. Len(log') : i > waiter'[w].size => log'[i] \in came'[w]
      BY <1>2, <2>1, <2>2, <3>1
    <3> QED BY <2>1, <2>5, <3>2, <3>3
  <2> QED BY <2>3, <2>4, <2>5
<1>7. HasNew'
  BY <1>2, <1>4 DEF Types, WaitTypes, Waits, NewCame, HasNew, At
<1>8. WaitsTellTheTruth'
  BY <1>4 DEF Types, WaitTypes, Waits, WaitsTellTheTruth, Finished, At
<1> QED BY <1>5, <1>6, <1>7, <1>8

LEMMA ResetKeeps ==
  ASSUME Inv, ResetLog
  PROVE Inv'
<1> USE DEF Inv
<1>1. /\ log' = <<>> /\ UNCHANGED <<logging, came>>
      /\ waiter' = [w \in Waiters |->
           IF At(w, "idle") THEN waiter[w] ELSE [waiter[w] EXCEPT !.disturbed = TRUE]]
  BY DEF ResetLog
<1>2. Types'
  <2>1. LogTypes'
    BY <1>1 DEF Types, LogTypes
  <2>2. WaitTypes'
    <3>1. waiter' \in [Waiters -> Waits]
      BY ZenonT(30), <1>1 DEF Types, WaitTypes, Waits
    <3>2. came' \in [Waiters -> SUBSET Logged]
      BY <1>1 DEF Types, WaitTypes
    <3> QED BY <3>1, <3>2 DEF WaitTypes
  <2> QED BY <2>1, <2>2 DEF Types
<1>3. NewCame' /\ HasNew'
  BY <1>1 DEF Types, WaitTypes, Waits, NewCame, HasNew, At
<1>4. WaitsTellTheTruth'
  BY <1>1 DEF Types, WaitTypes, Waits, WaitsTellTheTruth, Finished, At
<1> QED BY <1>2, <1>3, <1>4

LEMMA BeginKeeps ==
  ASSUME Inv, NEW v \in Waiters, NEW code \in Awaited, BeginWait(v, code)
  PROVE Inv'
<1> USE DEF Inv
<1>1. /\ UNCHANGED <<log, logging>>
      /\ waiter' = [waiter EXCEPT ![v] =
           [pc |-> "loop", code |-> code, size |-> 0, expired |-> FALSE,
            outcome |-> "running", result |-> NoError, disturbed |-> FALSE]]
      /\ came' = [came EXCEPT ![v] = {}]
  BY DEF BeginWait
<1>2. Types'
  <2>1. LogTypes'
    BY <1>1, EmcyAssumption DEF Types, LogTypes
  <2>2. WaitTypes'
    <3>1. waiter' \in [Waiters -> Waits]
      BY <1>1, EmcyAssumption DEF Types, WaitTypes, Waits, Logged
    <3>2. came' \in [Waiters -> SUBSET Logged]
      BY <1>1, EmcyAssumption DEF Types, WaitTypes
    <3> QED BY <3>1, <3>2 DEF WaitTypes
  <2> QED BY <2>1, <2>2 DEF Types
<1>3. NewCame' /\ HasNew'
  BY <1>1 DEF Types, WaitTypes, Waits, NewCame, HasNew, At
<1>4. WaitsTellTheTruth'
  BY <1>1 DEF Types, WaitTypes, Waits, WaitsTellTheTruth, Finished, At
<1> QED BY <1>2, <1>3, <1>4

LEMMA RememberKeeps ==
  ASSUME Inv, NEW v \in Waiters, Remember(v)
  PROVE Inv'
<1> USE DEF Inv
<1>1. /\ UNCHANGED <<log, logging, came>> /\ Len(log) \in Nat
      /\ At(v, "loop")
      /\ waiter' = [waiter EXCEPT ![v].pc = "waiting", ![v].size = Len(log)]
  BY DEF Remember, Types, LogTypes
<1>2. Types'
  <2>1. LogTypes'
    BY <1>1 DEF Types, LogTypes
  <2>2. WaitTypes'
    <3>1. waiter' \in [Waiters -> Waits]
      <4>1. waiter \in [Waiters -> Waits] /\ waiter[v] \in Waits
        BY DEF Types, WaitTypes
      <4>2. [waiter[v] EXCEPT !.pc = "waiting", !.size = Len(log)] \in Waits
        BY <1>1, <4>1 DEF Waits
      <4>3. waiter' = [waiter EXCEPT ![v] = [waiter[v] EXCEPT !.pc = "waiting", !.size = Len(log)]]
        BY <1>1, <4>1
      <4> QED BY <4>1, <4>2, <4>3
    <3>2. came' \in [Waiters -> SUBSET Logged]
      BY <1>1 DEF Types, WaitTypes
    <3> QED BY <3>1, <3>2 DEF WaitTypes
  <2> QED BY <2>1, <2>2 DEF Types
<1>3. NewCame' /\ HasNew'
  BY <1>1 DEF Types, WaitTypes, Waits, NewCame, HasNew, At
<1>4. WaitsTellTheTruth'
  BY <1>1 DEF Types, WaitTypes, Waits, WaitsTellTheTruth, Finished, At
<1> QED BY <1>2, <1>3, <1>4

LEMMA ExpireKeeps ==
  ASSUME Inv, NEW v \in Waiters, Expire(v)
  PROVE Inv'
<1> USE DEF Inv
<1>1. /\ UNCHANGED <<log, logging, came>> /\ ~At(v, "idle")
      /\ waiter' = [waiter EXCEPT ![v].expired = TRUE]
  BY DEF Expire
<1>2. Types'
  <2>1. LogTypes'
    BY <1>1 DEF Types, LogTypes
  <2>2. WaitTypes'
    <3>1. waiter' \in [Waiters -> Waits]
      BY ZenonT(30), <1>1 DEF Types, WaitTypes, Waits
    <3>2. came' \in [Waiters -> SUBSET Logged]
      BY <1>1 DEF Types, WaitTypes
    <3> QED BY <3>1, <3>2 DEF WaitTypes
  <2> QED BY <2>1, <2>2 DEF Types
<1>3. NewCame'
  BY <1>1 DEF Types, WaitTypes, Waits, NewCame, At
<1>4. HasNew'
  BY <1>1 DEF Types, WaitTypes, Waits, HasNew, At
<1>5. WaitsTellTheTruth'
  BY <1>1 DEF Types, WaitTypes, Waits, WaitsTellTheTruth, Finished, At
<1> QED BY <1>2, <1>3, <1>4, <1>5

LEMMA TimeoutKeeps ==
  ASSUME Inv, NEW v \in Waiters, RoundTimesOut(v)
  PROVE Inv'
<1> USE DEF Inv
<1>1. /\ UNCHANGED <<log, logging, came>> /\ At(v, "waiting") /\ waiter[v].expired
      /\ waiter' = [waiter EXCEPT ![v].pc = "woken"]
  BY DEF RoundTimesOut, Goto
<1>2. Types'
  <2>1. LogTypes'
    BY <1>1 DEF Types, LogTypes
  <2>2. WaitTypes'
    <3>1. waiter' \in [Waiters -> Waits]
      BY <1>1 DEF Types, WaitTypes, Waits
    <3>2. came' \in [Waiters -> SUBSET Logged]
      BY <1>1 DEF Types, WaitTypes
    <3> QED BY <3>1, <3>2 DEF WaitTypes
  <2> QED BY <2>1, <2>2 DEF Types
<1>3. NewCame'
  BY <1>1 DEF Types, WaitTypes, Waits, NewCame, At
<1>4. HasNew'
  BY <1>1 DEF Types, WaitTypes, Waits, HasNew, At
<1>5. WaitsTellTheTruth'
  BY <1>1 DEF Types, WaitTypes, Waits, WaitsTellTheTruth, Finished, At
<1> QED BY <1>2, <1>3, <1>4, <1>5

\* A thread that goes on in its wait without a new size.
LEMMA GotoKeeps ==
  ASSUME Inv, UNCHANGED <<log, logging, came>>, NEW v \in Waiters, NEW pc,
         Goto(v, pc), ~At(v, "idle"),
         \/ pc = "loop"
         \/ pc = "reading" /\ At(v, "woken") /\ Len(log) # waiter[v].size
  PROVE Inv'
<1> USE DEF Inv
<1>1. waiter' = [waiter EXCEPT ![v].pc = pc] /\ Len(log) \in Nat
  BY DEF Goto, Types, LogTypes
<1>2. Types'
  <2>1. LogTypes'
    BY <1>1 DEF Types, LogTypes
  <2>2. WaitTypes'
    <3>1. waiter' \in [Waiters -> Waits]
      BY ZenonT(30), <1>1 DEF Types, WaitTypes, Waits
    <3>2. came' \in [Waiters -> SUBSET Logged]
      BY <1>1 DEF Types, WaitTypes
    <3> QED BY <3>1, <3>2 DEF WaitTypes
  <2> QED BY <2>1, <2>2 DEF Types
<1>3. NewCame'
  BY <1>1 DEF Types, WaitTypes, Waits, NewCame, At
<1>4. HasNew'
  BY <1>1 DEF Types, WaitTypes, Waits, NewCame, HasNew, At
<1>5. WaitsTellTheTruth'
  BY <1>1 DEF Types, WaitTypes, Waits, WaitsTellTheTruth, Finished, At
<1> QED BY <1>2, <1>3, <1>4, <1>5

\* A thread that returns what is true.
LEMMA ReturnKeeps ==
  ASSUME Inv, UNCHANGED <<log, logging, came>>, NEW v \in Waiters, NEW result \in Logged,
         NEW outcome \in {"emcy", "nothing", "raised"}, Return(v, outcome, result),
         outcome = "emcy" => waiter[v].code \in {AnyCode, result} /\ result \in came[v],
         outcome = "nothing" => waiter[v].expired \/ waiter[v].disturbed,
         outcome = "raised" => waiter[v].disturbed
  PROVE Inv'
<1> USE DEF Inv
<1>1. waiter' = [waiter EXCEPT ![v].pc = "idle", ![v].outcome = outcome, ![v].result = result]
  BY DEF Return
<1>2. Types'
  <2>1. LogTypes'
    BY <1>1 DEF Types, LogTypes
  <2>2. WaitTypes'
    <3>1. waiter' \in [Waiters -> Waits]
      <4>1. waiter \in [Waiters -> Waits] /\ waiter[v] \in Waits
        BY DEF Types, WaitTypes
      <4>2. [waiter[v] EXCEPT !.pc = "idle", !.outcome = outcome, !.result = result] \in Waits
        BY <4>1 DEF Waits
      <4>3. waiter' = [waiter EXCEPT ![v] =
              [waiter[v] EXCEPT !.pc = "idle", !.outcome = outcome, !.result = result]]
        BY <1>1, <4>1
      <4> QED BY <4>1, <4>2, <4>3
    <3>2. came' \in [Waiters -> SUBSET Logged]
      BY <1>1 DEF Types, WaitTypes
    <3> QED BY <3>1, <3>2 DEF WaitTypes
  <2> QED BY <2>1, <2>2 DEF Types
<1>3. NewCame' /\ HasNew'
  BY <1>1 DEF Types, WaitTypes, Waits, NewCame, HasNew, At
<1>4. WaitsTellTheTruth'
  BY <1>1 DEF Types, WaitTypes, Waits, WaitsTellTheTruth, Finished, At
<1> QED BY <1>2, <1>3, <1>4

LEMMA CompareKeeps ==
  ASSUME Inv, NEW v \in Waiters, CompareSizes(v)
  PROVE Inv'
<1>1. /\ UNCHANGED <<log, logging, came>> /\ At(v, "woken") /\ ~At(v, "idle")
      /\ Types /\ NoError \in Logged
  BY DEF CompareSizes, Inv, At, Logged
<1>2. CASE Len(log) = waiter[v].size
  <2>1. waiter[v].expired \/ waiter[v].disturbed
    BY <1>1, <1>2 DEF Inv, Types, WaitTypes, Waits, HasNew
  <2>2. Return(v, "nothing", NoError)
    BY <1>2 DEF CompareSizes
  <2> QED BY <1>1, <2>1, <2>2, ReturnKeeps
<1>3. CASE Len(log) # waiter[v].size
  <2>1. Goto(v, "reading")
    BY <1>3 DEF CompareSizes
  <2> QED BY <1>1, <1>3, <2>1, GotoKeeps
<1> QED BY <1>2, <1>3

LEMMA ReadKeeps ==
  ASSUME Inv, NEW v \in Waiters, ReadLast(v)
  PROVE Inv'
<1>1. /\ UNCHANGED <<log, logging, came>> /\ At(v, "reading") /\ ~At(v, "idle")
      /\ NoError \in Logged /\ Len(log) \in Nat
  BY DEF ReadLast, Inv, Types, LogTypes, At, Logged
<1>2. waiter[v].disturbed \/ waiter[v].size < Len(log)
  BY <1>1 DEF Inv, HasNew
<1>3. CASE log = <<>>
  <2>1. waiter[v].disturbed
    BY <1>2, <1>3 DEF Inv, Types, WaitTypes, Waits
  <2>2. Return(v, "raised", NoError)
    BY <1>3 DEF ReadLast
  <2> QED BY <1>1, <2>1, <2>2, ReturnKeeps
<1>4. CASE log # <<>> /\ waiter[v].expired
  <2>1. Return(v, "nothing", NoError)
    BY <1>4 DEF ReadLast
  <2> QED BY <1>1, <1>4, <2>1, ReturnKeeps
<1>5. CASE log # <<>> /\ ~waiter[v].expired /\ Matches(v, Last(log))
  <2>1. Return(v, "emcy", Last(log))
    BY <1>5 DEF ReadLast
  <2>2. Len(log) > 0 /\ Last(log) = log[Len(log)] /\ Last(log) \in Logged
    BY <1>5 DEF Inv, Types, LogTypes, Last
  <2>3. Last(log) \in came[v]
    BY <1>1, <1>2, <2>2 DEF Inv, Types, WaitTypes, Waits, NewCame, At
  <2> QED BY <1>1, <1>5, <2>1, <2>2, <2>3, ReturnKeeps DEF Matches
<1>6. CASE log # <<>> /\ ~waiter[v].expired /\ ~Matches(v, Last(log))
  <2>1. Goto(v, "loop")
    BY <1>6 DEF ReadLast
  <2> QED BY <1>1, <2>1, GotoKeeps
<1> QED BY <1>3, <1>4, <1>5, <1>6

\* What is left does not touch the log, nor a wait.
LEMMA OthersKeep ==
  ASSUME Inv, UNCHANGED <<log, waiter, came>>,
         logging' = logging \/ \E code \in Logged : logging' = <<code>>
  PROVE Inv'
BY DEF Inv, Types, LogTypes, WaitTypes, NewCame, HasNew, WaitsTellTheTruth, Finished, At

LEMMA EmcyNext == Inv /\ [Next]_vars => Inv'
<1> SUFFICES ASSUME Inv, [Next]_vars PROVE Inv'
  OBVIOUS
<1>1. CASE \E code \in Codes \cup {NoError} : OnEmcy(code)
  BY <1>1, OthersKeep DEF OnEmcy, Logged
<1>2. CASE LogEntry
  BY <1>2, LogKeeps
<1>3. CASE ResetLog
  BY <1>3, ResetKeeps
<1>4. CASE ResetActive
  BY <1>4, OthersKeep DEF ResetActive
<1>5. CASE \E w \in Waiters, code \in Awaited : BeginWait(w, code)
  BY <1>5, BeginKeeps
<1>6. CASE \E w \in Waiters : WaiterStep(w) \/ Expire(w)
  BY <1>6, RememberKeeps, ExpireKeeps, TimeoutKeeps, CompareKeeps, ReadKeeps DEF WaiterStep
<1>7. CASE UNCHANGED vars
  BY <1>7, OthersKeep DEF vars
<1> QED BY <1>1, <1>2, <1>3, <1>4, <1>5, <1>6, <1>7 DEF Next

\* EmcyConsumer.wait returns only a message that was logged after the call began
\* and has the awaited code, returns None only after its time, and fails only on a
\* log that was reset: for every number of threads and of messages.
THEOREM EmcyWaitsAreTrue == Spec => []WaitsTellTheTruth
<1>1. Inv => WaitsTellTheTruth
  BY DEF Inv
<1> QED BY <1>1, EmcyInit, EmcyNext, PTL DEF Spec

-----------------------------------------------------------------------------
\* The active errors.

ErrorResets(s) == {i \in DOMAIN s : s[i] = NoError}

LastReset(s) ==
  IF ErrorResets(s) = {} THEN 0
  ELSE CHOOSE i \in ErrorResets(s) : \A j \in ErrorResets(s) : j <= i

Since(s) == SubSeq(s, 1 + LastReset(s), Len(s))

\* While a message is logged the list of active errors is one step ahead of the log.
ActiveInv ==
  /\ LastReset(log) \in 0..Len(log)
  /\ ~torn =>
       /\ logging = <<>> /\ ~resetting => active = Since(log)
       /\ resetting => logging = <<>> /\ log = <<>>
       /\ \A code \in Logged : logging = <<code>> =>
            active = IF code = NoError THEN <<>> ELSE Append(Since(log), code)

\* What is left of a sequence after its first k elements.
LEMMA RestOfSeq ==
  ASSUME NEW S, NEW s \in Seq(S), NEW k \in 0..Len(s)
  PROVE  LET r == SubSeq(s, 1 + k, Len(s))
         IN  r \in Seq(S) /\ Len(r) = Len(s) - k /\ \A i \in 1..Len(s) - k : r[i] = s[k + i]
<1> PICK n : n = Len(s)
  OBVIOUS
<1>1. n \in Nat /\ k \in Nat /\ k <= n /\ \A i \in 1..n : s[i] \in S
  BY LenProperties, ElementOfSeq
<1>2. 1 + k \in Int /\ n \in Int /\ \A i \in (1 + k)..n : s[i] \in S
  BY <1>1
<1> PICK r : r = SubSeq(s, 1 + k, n)
  OBVIOUS
<1>3. /\ r \in Seq(S)
      /\ Len(r) = (IF 1 + k <= n THEN n - (1 + k) + 1 ELSE 0)
      /\ \A i \in 1..(n - (1 + k) + 1) : r[i] = s[1 + k + i - 1]
  BY <1>2, SubSeqProperties
<1>4. n - (1 + k) + 1 = n - k
  BY <1>1
<1>5. ~(1 + k <= n) => n - k = 0
  BY <1>1
<1>6. \A i \in 1..n - k : 1 + k + i - 1 = k + i
  BY <1>1
<1>7. Len(r) = n - k
  BY <1>3, <1>4, <1>5
<1>8. \A i \in 1..n - k : r[i] = s[k + i]
  BY <1>3, <1>4, <1>6
<1> QED BY <1>3, <1>7, <1>8

\* One more entry: an error reset forgets all before it, an error is added.
LEMMA SinceOneMore ==
  ASSUME NEW s \in Seq(Logged), NEW code \in Logged, LastReset(s) \in 0..Len(s)
  PROVE  /\ LastReset(Append(s, code)) \in 0..Len(s) + 1
         /\ Since(Append(s, code)) =
              IF code = NoError THEN <<>> ELSE Append(Since(s), code)
<1> DEFINE n == Len(s)
           t == Append(s, code)
<1>1. /\ n \in Nat /\ DOMAIN s = 1..n /\ \A i \in 1..n : s[i] \in Logged
      /\ t \in Seq(Logged) /\ Len(t) = n + 1 /\ DOMAIN t = 1..n + 1
      /\ \A i \in 1..n : t[i] = s[i]
      /\ t[n + 1] = code
  BY LenProperties, AppendProperties, ElementOfSeq
<1> HIDE DEF n, t
<1>2. CASE code = NoError
  <2>1. n + 1 \in ErrorResets(t) /\ \A j \in ErrorResets(t) : j \in Int /\ j <= n + 1
    BY <1>1, <1>2 DEF ErrorResets
  <2>2. LastReset(t) = n + 1
    <3> DEFINE Latest(i) == \A j \in ErrorResets(t) : j <= i
    <3>1. Latest(n + 1)
      BY <2>1
    <3>2. PICK k \in ErrorResets(t) : Latest(k) /\ k = CHOOSE i \in ErrorResets(t) : Latest(i)
      BY <2>1, <3>1
    <3>3. k = n + 1
      BY <1>1, <2>1, <3>2
    <3>4. LastReset(t) = k
      BY <2>1, <3>2 DEF LastReset
    <3> QED BY <3>3, <3>4
  <2>3. Since(t) = <<>>
    BY <1>1, <2>2, SubSeqEmpty DEF Since
  <2> QED BY <1>1, <1>2, <2>2, <2>3 DEF n, t
<1>3. CASE code # NoError
  <2>1. ErrorResets(t) = ErrorResets(s)
    BY <1>1, <1>3 DEF ErrorResets
  <2>2. LastReset(t) = LastReset(s)
    BY <2>1 DEF LastReset
  <2> PICK k : k = LastReset(s)
    OBVIOUS
  <2>3. k \in 0..n /\ k \in 0..n + 1
    <3>1. k \in 0..n
      BY DEF n
    <3> QED BY <1>1, <3>1
  <2> PICK a, b : a = Since(s) /\ b = Since(t)
    OBVIOUS
  <2>4. a \in Seq(Logged) /\ Len(a) = n - k /\ \A i \in 1..n - k : a[i] = s[k + i]
    BY <2>3, RestOfSeq DEF Since, n
  <2>5. b \in Seq(Logged) /\ Len(b) = n + 1 - k /\ \A i \in 1..n + 1 - k : b[i] = t[k + i]
    <3>1. k \in 0..Len(t) /\ n + 1 = Len(t) /\ t \in Seq(Logged)
      BY <1>1, <2>3
    <3>2. b = SubSeq(t, 1 + k, Len(t))
      BY <2>2 DEF Since
    <3>3. /\ b \in Seq(Logged) /\ Len(b) = Len(t) - k
          /\ \A i \in 1..Len(t) - k : b[i] = t[k + i]
      <4>1. k \in 0..Len(t)
        BY <3>1
      <4> HIDE DEF LastReset
      <4>2. LET q == SubSeq(t, 1 + k, Len(t))
            IN  q \in Seq(Logged) /\ Len(q) = Len(t) - k /\ \A i \in 1..Len(t) - k : q[i] = t[k + i]
        BY <3>1, <4>1, RestOfSeq, Zenon
      <4> QED BY <3>2, <4>2, Zenon
    <3>4. Len(t) - k = n + 1 - k
      BY <1>1, <2>3
    <3> QED BY <3>3, <3>4
  <2> PICK c : c = Append(a, code)
    OBVIOUS
  <2>6. /\ c \in Seq(Logged) /\ Len(c) = n - k + 1 /\ c[n - k + 1] = code
        /\ \A i \in 1..n - k : c[i] = a[i]
    BY <2>4, AppendProperties
  <2>7. ASSUME NEW i \in 1..n - k + 1 PROVE b[i] = c[i]
    <3>1. i \in 1..n + 1 - k
      BY <1>1, <2>3
    <3>2. CASE i \in 1..n - k
      <4>1. k + i \in 1..n
        BY <1>1, <2>3, <3>2
      <4> QED BY <1>1, <2>4, <2>5, <2>6, <3>1, <3>2, <4>1
    <3>3. CASE i = n - k + 1
      <4>1. k + i = n + 1
        BY <1>1, <2>3, <3>3
      <4> QED BY SMTT(30), <1>1, <2>5, <2>6, <3>1, <3>3, <4>1
    <3>4. i \in 1..n - k \/ i = n - k + 1
      BY <1>1, <2>3
    <3> QED BY <3>2, <3>3, <3>4
  <2>8. n + 1 - k = n - k + 1
    BY <1>1, <2>3
  <2>9. b = c
    BY <2>5, <2>6, <2>7, <2>8, SeqEqual
  <2> QED BY <1>1, <1>3, <2>2, <2>3, <2>9 DEF n, t
<1> QED BY <1>2, <1>3

LEMMA SinceNothing == LastReset(<<>>) = 0 /\ Since(<<>>) = <<>>
<1>1. ErrorResets(<<>>) = {}
  BY DEF ErrorResets
<1>2. LastReset(<<>>) = 0
  BY <1>1 DEF LastReset
<1> QED BY <1>2, SubSeqEmpty DEF Since

LEMMA ActiveFrame ==
  ASSUME ActiveInv, UNCHANGED <<log, active, logging, resetting, torn>> PROVE ActiveInv'
BY DEF ActiveInv

LEMMA ActiveInit == Init => ActiveInv
BY SinceNothing DEF Init, ActiveInv

LEMMA ActiveNext == Types /\ ActiveInv /\ [Next]_vars => ActiveInv'
<1> SUFFICES ASSUME Types, ActiveInv, [Next]_vars PROVE ActiveInv'
  OBVIOUS
\* A message arrives: the list of active errors goes ahead.
<1>1. ASSUME NEW code \in Logged, OnEmcy(code) PROVE ActiveInv'
  <2>1. /\ logging = <<>> /\ logging' = <<code>> /\ torn' = (torn \/ resetting)
        /\ active' = IF code = NoError THEN <<>> ELSE Append(active, code)
        /\ UNCHANGED <<log, resetting>>
    BY <1>1 DEF OnEmcy, ActiveWith
  <2>2. \A code2 : logging' = <<code2>> => code2 = code
    BY <2>1
  <2>3. logging' # <<>>
    BY <2>1
  <2> QED BY <2>1, <2>2, <2>3 DEF ActiveInv
\* Its entry is logged: the log catches up.
<1>2. ASSUME LogEntry PROVE ActiveInv'
  <2>1. PICK code \in Logged : logging = <<code>>
    BY <1>2 DEF LogEntry, Types, LogTypes
  <2>2. /\ log' = Append(log, code) /\ log \in Seq(Logged)
    <3>1. log' = log \o <<code>> /\ log \in Seq(Logged)
      BY <1>2, <2>1 DEF LogEntry, Types, LogTypes
    <3> QED BY <3>1, AppendIsConcat
  <2>3. /\ logging' = <<>> /\ torn' = (torn \/ resetting) /\ UNCHANGED <<active, resetting>>
    BY <1>2 DEF LogEntry
  <2>4. /\ LastReset(log') \in 0..Len(log')
        /\ Since(log') = IF code = NoError THEN <<>> ELSE Append(Since(log), code)
    <3>1. LastReset(log) \in 0..Len(log)
      BY DEF ActiveInv
    <3>2. Len(log') = Len(log) + 1
      BY <2>2, AppendProperties
    <3> QED BY <2>2, <3>1, <3>2, SinceOneMore
  <2>5. ~torn' => active' = Since(log') /\ ~resetting'
    BY <2>1, <2>3, <2>4 DEF ActiveInv
  <2>6. \A code2 : logging' # <<code2>>
    BY <2>3
  <2> QED BY <2>3, <2>4, <2>5, <2>6 DEF ActiveInv
\* reset replaces the log, then the active errors.
<1>3. ASSUME ResetLog PROVE ActiveInv'
  <2>1. /\ log' = <<>> /\ resetting' = TRUE /\ torn' = (torn \/ logging # <<>>)
        /\ UNCHANGED logging
    BY <1>3 DEF ResetLog
  <2>2. \A code : <<code>> # <<>>
    OBVIOUS
  <2>3. Len(<<>>) = 0 /\ 0 \in 0..0
    OBVIOUS
  <2> QED BY <2>1, <2>2, <2>3, SinceNothing DEF ActiveInv
<1>4. ASSUME ResetActive PROVE ActiveInv'
  <2>1. /\ resetting /\ active' = <<>> /\ resetting' = FALSE
        /\ torn' = (torn \/ logging # <<>>) /\ UNCHANGED <<log, logging>>
    BY <1>4 DEF ResetActive
  <2>2. \A code : <<code>> # <<>>
    OBVIOUS
  <2> QED BY <2>1, <2>2, SinceNothing DEF ActiveInv
<1>5. ASSUME NEW w \in Waiters, NEW code \in Awaited, BeginWait(w, code) PROVE ActiveInv'
  BY <1>5, ActiveFrame DEF BeginWait
<1>6. ASSUME NEW w \in Waiters, WaiterStep(w) \/ Expire(w) PROVE ActiveInv'
  BY <1>6, ActiveFrame DEF WaiterStep, Remember, RoundTimesOut, CompareSizes, ReadLast, Expire
<1>7. ASSUME UNCHANGED vars PROVE ActiveInv'
  BY <1>7, ActiveFrame DEF vars
<1> QED BY <1>1, <1>2, <1>3, <1>4, <1>5, <1>6, <1>7 DEF Next, Logged

\* Between two messages the active errors are those that were logged since the last
\* error reset, for logs of every length: EmcyConsumer.active and log never drift
\* apart unless reset() and a message overlap.
THEOREM ActiveIsTrue == Spec => []ActiveAreUnreset
<1>1. ActiveInv => ActiveAreUnreset
  <2>1. Since(log) = SinceErrorReset
    BY DEF Since, LastReset, ErrorResets, SinceErrorReset
  <2> QED BY <2>1 DEF ActiveInv, ActiveAreUnreset
<1>2. Inv => Types
  BY DEF Inv
<1> QED BY <1>1, <1>2, EmcyInit, EmcyNext, ActiveInit, ActiveNext, PTL DEF Spec

=============================================================================
