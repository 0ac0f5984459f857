------------------------------- MODULE PdoProofs -------------------------------
(***************************************************************************)
(* What wait_for_reception returns is true, for any number of threads that *)
(* wait, any messages and any bounds, and whatever read and save do to the *)
(* map meanwhile.                                                          *)
(*                                                                         *)
(* And read and save of a map: what is in effect on the device is a whole  *)
(* setup at any time, and after a call that did not raise the map is what  *)
(* the device has, for any number of entries and any kinds of device, and  *)
(* wherever transfers are refused or lost.                                 *)
(*                                                                         *)
(* And the variables of a message: each reads as it was last written.      *)
(***************************************************************************)
EXTENDS PdoSetup, WellFoundedInduction, SequenceTheorems, TLAPS

-----------------------------------------------------------------------------
\* wait_for_reception.

\* The states of a wait, see BeginWait.
Waits == [pc : {"idle", "waiting", "woken"}, result : Nat \cup {None}, since : Nat,
          expired : BOOLEAN, passed : BOOLEAN]

WaitTypes ==
  /\ stamp \in Nat /\ received \in BOOLEAN
  /\ waiter \in [Waiters -> Waits]

\* While a thread is in its wait, a flag that is set was set after the wait began:
\* BeginWait clears it and only a message sets it.
FlagIsNew ==
  \A w \in Waiters : waiter[w].pc # "idle" =>
    /\ waiter[w].since <= stamp
    /\ received => waiter[w].since < stamp

\* A thread wakes up because of a message, whose flag another wait may have
\* cleared since, or because its time is up.
WokenForAReason ==
  \A w \in Waiters : waiter[w].pc = "woken" =>
    received \/ waiter[w].expired \/ waiter[w].passed

WaitInv == WaitTypes /\ FlagIsNew /\ WokenForAReason /\ PdoWaitsTellTheTruth

LEMMA WaitInit == Init => WaitInv
<1> SUFFICES ASSUME Init PROVE WaitInv
  OBVIOUS
<1>1. /\ received = FALSE /\ stamp = 0
      /\ waiter = [w \in Waiters |-> [pc |-> "idle", result |-> None, since |-> 0,
                                      expired |-> TRUE, passed |-> FALSE]]
  BY DEF Init
<1> QED BY <1>1
  DEF WaitInv, WaitTypes, Waits, FlagIsNew, WokenForAReason, PdoWaitsTellTheTruth

\* A message moves the time stamp past the beginning of every wait.
LEMMA MessageKeeps ==
  ASSUME WaitInv, NEW cob, NEW content, OnMessage(cob, content)
  PROVE WaitInv'
<1>1. /\ received' = TRUE /\ stamp' = stamp + 1
      /\ waiter' = [w \in Waiters |->
           IF waiter[w].pc = "waiting" THEN [waiter[w] EXCEPT !.pc = "woken"] ELSE waiter[w]]
  BY DEF OnMessage
<1>2. WaitTypes'
  BY <1>1 DEF WaitInv, WaitTypes, Waits
<1>3. FlagIsNew'
  BY <1>1 DEF WaitInv, WaitTypes, Waits, FlagIsNew
<1>4. WokenForAReason'
  BY <1>1 DEF WokenForAReason
<1>5. PdoWaitsTellTheTruth'
  BY <1>1 DEF WaitInv, WaitTypes, Waits, PdoWaitsTellTheTruth
<1> QED BY <1>2, <1>3, <1>4, <1>5 DEF WaitInv

\* A wait that begins clears the flag for all, and the others know.
LEMMA BeginKeeps ==
  ASSUME WaitInv, NEW v \in Waiters, BeginWait(v)
  PROVE WaitInv'
<1>1. /\ received' = FALSE /\ stamp' = stamp
      /\ waiter' = [w \in Waiters |->
           IF w = v THEN [pc |-> "waiting", result |-> None, since |-> stamp,
                          expired |-> FALSE, passed |-> FALSE]
           ELSE [waiter[w] EXCEPT !.passed = TRUE]]
  BY DEF BeginWait
<1>2. WaitTypes'
  BY <1>1 DEF WaitInv, WaitTypes, Waits
<1>3. FlagIsNew'
  BY <1>1 DEF WaitInv, WaitTypes, Waits, FlagIsNew
<1>4. WokenForAReason'
  BY <1>1 DEF WaitInv, WaitTypes, Waits, WokenForAReason
<1>5. PdoWaitsTellTheTruth'
  BY <1>1 DEF WaitInv, WaitTypes, Waits, PdoWaitsTellTheTruth
<1> QED BY <1>2, <1>3, <1>4, <1>5 DEF WaitInv

LEMMA TimeoutKeeps ==
  ASSUME WaitInv, NEW v \in Waiters, WaitTimesOut(v)
  PROVE WaitInv'
<1>1. /\ UNCHANGED <<received, stamp>>
      /\ waiter[v].pc = "waiting"
      /\ waiter' = [waiter EXCEPT ![v].pc = "woken", ![v].expired = TRUE]
  BY DEF WaitTimesOut
<1>2. WaitTypes'
  BY ZenonT(30), <1>1 DEF WaitInv, WaitTypes, Waits
<1>3. FlagIsNew'
  BY <1>1 DEF WaitInv, WaitTypes, Waits, FlagIsNew
<1>4. WokenForAReason'
  BY <1>1 DEF WaitInv, WaitTypes, Waits, WokenForAReason
<1>5. PdoWaitsTellTheTruth'
  BY <1>1 DEF WaitInv, WaitTypes, Waits, PdoWaitsTellTheTruth
<1> QED BY <1>2, <1>3, <1>4, <1>5 DEF WaitInv

\* What a wait returns is judged by the flag that it finds.
LEMMA EndKeeps ==
  ASSUME WaitInv, NEW v \in Waiters, EndWait(v)
  PROVE WaitInv'
<1>1. /\ UNCHANGED <<received, stamp>>
      /\ waiter[v].pc = "woken"
      /\ waiter' = [waiter EXCEPT ![v].pc = "idle", ![v].result = StampIfReceived]
  BY DEF EndWait
<1>2. StampIfReceived \in Nat \cup {None}
  BY DEF WaitInv, WaitTypes, StampIfReceived
<1>3. WaitTypes'
  BY ZenonT(30), <1>1, <1>2 DEF WaitInv, WaitTypes, Waits
<1>4. FlagIsNew'
  BY <1>1 DEF WaitInv, WaitTypes, Waits, FlagIsNew
<1>5. WokenForAReason'
  BY <1>1 DEF WaitInv, WaitTypes, Waits, WokenForAReason
<1>6. PdoWaitsTellTheTruth'
  <2>1. /\ StampIfReceived # None => StampIfReceived > waiter[v].since
        /\ StampIfReceived = None => waiter[v].expired \/ waiter[v].passed
    BY <1>1, PdoAssumption
    DEF WaitInv, WaitTypes, Waits, FlagIsNew, WokenForAReason, StampIfReceived
  <2> QED BY <1>1, <2>1 DEF WaitInv, WaitTypes, Waits, PdoWaitsTellTheTruth
<1> QED BY <1>3, <1>4, <1>5, <1>6 DEF WaitInv

\* Nothing else touches the flag, the time stamp or a wait.
LEMMA OthersKeep ==
  ASSUME WaitInv, UNCHANGED <<received, stamp, waiter>>
  PROVE WaitInv'
BY DEF WaitInv, WaitTypes, FlagIsNew, WokenForAReason, PdoWaitsTellTheTruth

LEMMA WaitNext == WaitInv /\ [Next]_vars => WaitInv'
<1> SUFFICES ASSUME WaitInv, [Next]_vars PROVE WaitInv'
  OBVIOUS
<1>1. CASE Uses
  <2>1. CASE \E w \in Waiters : BeginWait(w) \/ WaitTimesOut(w) \/ EndWait(w)
    BY <2>1, BeginKeeps, TimeoutKeeps, EndKeeps
  <2>2. CASE ~ \E w \in Waiters : BeginWait(w) \/ WaitTimesOut(w) \/ EndWait(w)
    BY <1>1, <2>2, OthersKeep DEF Uses, SetVariable, StartTask, StopTask
  <2> QED BY <2>1, <2>2
<1>2. CASE DeviceSends
  BY <1>2, MessageKeeps DEF DeviceSends
<1>3. CASE Clear \/ (\E obj \in Objects, len \in Lengths : AddVariable(obj, len))
             \/ (\E new \in Confs : Configure(new))
  BY <1>3, OthersKeep DEF Clear, AddVariable, Configure, Edit
<1>4. CASE SubscribeUnread \/ Save \/ Read
  BY <1>4, OthersKeep DEF SubscribeUnread, Save, Read, Begin, dataVars
<1>5. CASE Succeeds \/ IsRefused \/ IsLost
  BY <1>5, OthersKeep DEF Succeeds, IsRefused, IsLost, Goes
<1>6. CASE UNCHANGED vars
  BY <1>6, OthersKeep DEF vars
<1> QED BY <1>1, <1>2, <1>3, <1>4, <1>5, <1>6 DEF Next

\* wait_for_reception returns a time stamp only of a message that arrived while
\* the thread waited, and None only when its time is up or when another wait began
\* behind it: for every number of threads, with or without a periodic
\* transmission, while the PDO is read, saved or changed.
THEOREM ReceptionIsTrue == Spec => []PdoWaitsTellTheTruth
<1>1. WaitInv => PdoWaitsTellTheTruth
  BY DEF WaitInv
<1> QED BY <1>1, WaitInit, WaitNext, PTL DEF Spec

-----------------------------------------------------------------------------
\* The inductive invariant of read and save.

Entry == [obj : Objects \cup {None}, len : Nat]
Mapped == [obj : Objects \cup {None}, len : Nat, offset : Nat]
Total(m) == TotalBefore(m, Len(m) + 1)

DeviceTypes ==
  /\ device = [cob |-> device.cob, valid |-> device.valid, trans |-> device.trans,
               timer |-> device.timer, count |-> device.count, entries |-> device.entries]
  /\ device.valid \in BOOLEAN
  /\ device.count \in 0 .. Slots
  /\ device.entries \in [Slot -> Entry]
  /\ kind = "fixed" => device.count = Slots

\* The map without its dummies is packed: each variable follows the one before.
MapInv ==
  /\ map \in Seq(Mapped) /\ Len(map) <= Slots
  /\ length = Total(Real(Entries(map)))
  /\ Real(map) = Placed(Real(Entries(map)))

Doing(op) == app.op = op

\* A parameter that the application has set is on the device, or is yet to be written.
SetOrLeft(what, value, has) ==
  value = None \/ has = value \/ \E i \in DOMAIN app.todo : app.todo[i] = Write(what, value)

SetWrites ==
  {t \in {Write("trans", conf.trans), Write("timer", conf.timer)} : t.value # None}
OpeningWrites == {FirstWrite, Write("zero", 0)} \cup SetWrites

\* A save until it has written the zero: the PDO is invalid after the first write.
Opening ==
  /\ app.todo \in Seq(OpeningWrites)
  /\ \A i \in DOMAIN app.todo :
       /\ app.todo[i] = FirstWrite => i = 1
       /\ app.todo[i] = Write("zero", 0) <=> i = Len(app.todo)
  /\ Transfer = FirstWrite \/ (~device.valid /\ device.cob = conf.cob)
  /\ SetOrLeft("trans", conf.trans, device.trans)
  /\ SetOrLeft("timer", conf.timer, device.timer)

\* And after it: the PDO is invalid and has all parameters.
Prepared ==
  /\ ~device.valid /\ device.cob = conf.cob
  /\ conf.trans \in {None, device.trans} /\ conf.timer \in {None, device.timer}

\* Of the mapping's entries and its count, what is left to write after the first k.
ToWrite(m, k) == [i \in 1 .. Len(m) + 1 - k |-> EntryWrites(m)[k + i]]

WrittenUpTo(k) ==
  /\ app.todo = ToWrite(map, k)
  /\ \A j \in 1 .. k : device.entries[j] = Entries(map)[j]
  /\ kind = "fixed" => device.count = Len(map)

WholeMap == SubSeq(device.entries, 1, device.count) = Entries(map)

SaveInv ==
  Doing("save") =>
    /\ conf.cob # None
    /\ Intended \in app.good
    /\ \/ Opening
       \/ Prepared /\ \/ app.todo = <<ReadOf("size", 0)>>
                      \/ \E k \in 0 .. Len(map) : WrittenUpTo(k)
                      \/ app.todo = <<Write("enable", conf.cob)>> /\ WholeMap /\ conf.enabled

\* OnlyWholeSetups.
GoodInv == device.valid => Setup(device) \in app.good

AllKnown(entries) == \A k \in DOMAIN entries : entries[k].obj \in Known

\* The map is what the first k entries of the device are, if their objects are known.
ReadSoFar(k) ==
  LET entries == Real(SubSeq(device.entries, 1, k))
  IN AllKnown(entries) => Real(Entries(map)) = entries

\* What is left to read after the first k entries.
ToRead(k) == [i \in 1 .. device.count - k |-> ReadOf("entry", k + i)]

HasCob == conf.cob = device.cob /\ conf.enabled = device.valid
HasTrans == conf.trans = device.trans

\* What a read that has todo left has read.
ReadStage(todo) ==
  \/ todo = <<ReadOf("cob", 0), ReadOf("trans", 0)>>
  \/ todo = <<ReadOf("trans", 0)>> /\ HasCob
  \/ todo = <<ReadOf("timer", 0)>> /\ HasCob /\ HasTrans
  \/ todo = <<ReadOf("count", 0)>> /\ HasCob /\ HasTrans /\ map = <<>>
  \/ /\ HasCob /\ HasTrans
     /\ \E k \in 0 .. device.count - 1 : todo = ToRead(k) /\ Len(map) <= k /\ ReadSoFar(k)

ReadInv == Doing("read") => ReadStage(app.todo)

\* The types of the call and of what the application sets.
AppShape ==
  /\ conf = [cob |-> conf.cob, enabled |-> conf.enabled, trans |-> conf.trans,
             timer |-> conf.timer]
  /\ conf.enabled \in BOOLEAN
  /\ app = [op |-> app.op, outcome |-> app.outcome, todo |-> app.todo, stale |-> app.stale,
            good |-> app.good]
  /\ app.op \in {"none", "read", "save"}
  /\ IF Doing("none") THEN app.todo = <<>> ELSE app.todo # <<>> /\ app.stale = TRUE

SetupInv ==
  DeviceTypes /\ MapInv /\ AppShape /\ SaveInv /\ ReadInv /\ GoodInv /\ AgreeAfterSuccess

\* The stages of a save, by the transfer that is next; see SaveStages.
AtOpening ==
  /\ Opening /\ Len(app.todo) > 1
  /\ Transfer = FirstWrite \/ (~device.valid /\ Transfer \in SetWrites)
AtZero == Opening /\ Prepared /\ Len(app.todo) = 1 /\ Transfer = Write("zero", 0)
AtSize == Prepared /\ Len(app.todo) = 1 /\ Transfer = ReadOf("size", 0)
AtEntry(k) ==
  /\ Prepared /\ WrittenUpTo(k) /\ Len(app.todo) > 1 /\ Tail(app.todo) = ToWrite(map, k + 1)
  /\ Transfer = WriteEntry(k + 1, Entries(map)[k + 1])
AtCount ==
  /\ Prepared /\ WrittenUpTo(Len(map)) /\ Len(app.todo) = 1
  /\ Transfer = Write("count", Len(map))
AtEnable ==
  /\ Prepared /\ WholeMap /\ conf.enabled /\ Len(app.todo) = 1
  /\ Transfer = Write("enable", conf.cob)

-----------------------------------------------------------------------------
\* Induction, and the recursive functions behind Real and TotalBefore.

\* A set of numbers that is not empty has a smallest one.
LEMMA Least ==
  ASSUME NEW T \in SUBSET Nat, T # {}
  PROVE  \E n \in T : \A m \in T : n <= m
<1>1. IsWellFoundedOn(OpToRel(<, Nat), Nat)
  BY NatLessThanWellFounded
<1>2. PICK n \in T : \A m \in T : ~(<<m, n>> \in OpToRel(<, Nat))
  BY Zenon, <1>1, WFMin
<1>3. \A m \in T : ~(m < n)
  BY Zenon, <1>2 DEF OpToRel
<1> QED BY <1>3

\* Induction, for a set: one that has 0, and with each number the next, has them all.
LEMMA SetInduction ==
  ASSUME NEW T \in SUBSET Nat, 0 \in T, \A n \in T : n + 1 \in T
  PROVE  T = Nat
<1> SUFFICES ASSUME Nat \ T # {} PROVE FALSE
  OBVIOUS
<1>1. PICK n \in Nat \ T : \A m \in Nat \ T : n <= m
  BY Least
<1>2. n # 0 /\ n - 1 \in Nat
  BY <1>1
<1>3. n - 1 \in T
  BY <1>1, <1>2
<1>4. (n - 1) + 1 \in T
  BY <1>3
<1> QED BY <1>1, <1>4

\* The recursive functions behind Real and TotalBefore, as functions of their own.
RealUpTo(s) ==
  CHOOSE f : f = [k \in 0 .. Len(s) |->
    IF k = 0 THEN <<>>
    ELSE IF s[k].len # 0 THEN Append(f[k - 1], s[k])
    ELSE f[k - 1]]

TotalUpTo(s) ==
  CHOOSE f : f = [j \in 0 .. Len(s) |-> IF j = 0 THEN 0 ELSE f[j - 1] + s[j].len]

\* Real is the last value of its recursive function.
LEMMA RealIsLast == \A s : Real(s) = RealUpTo(s)[Len(s)]
BY DEF Real, RealUpTo

\* TotalBefore is a value of its recursive function.
LEMMA TotalIsLast == \A s, k : TotalBefore(s, k) = TotalUpTo(s)[k - 1]
BY DEF TotalBefore, TotalUpTo

RealStep(s, f, k) ==
  IF k = 0 THEN <<>>
  ELSE IF s[k].len # 0 THEN Append(f[k - 1], s[k])
  ELSE f[k - 1]

\* The recursive function of Real exists: it satisfies its own equation.
LEMMA RealFunction ==
  ASSUME NEW s, Len(s) \in Nat
  PROVE  RealUpTo(s) = [k \in 0 .. Len(s) |-> RealStep(s, RealUpTo(s), k)]
<1> DEFINE Upto(n) == \E f : f = [k \in 0 .. n |-> RealStep(s, f, k)]
<1>1. Upto(0)
  <2>1. [k \in 0 .. 0 |-> <<>>] =
          [k \in 0 .. 0 |-> RealStep(s, [i \in 0 .. 0 |-> <<>>], k)]
    BY DEF RealStep
  <2> QED BY <2>1
<1>2. ASSUME NEW n \in Nat, Upto(n) PROVE Upto(n + 1)
  <2>1. PICK f : f = [k \in 0 .. n |-> RealStep(s, f, k)]
    BY <1>2
  <2> DEFINE g == [k \in 0 .. n + 1 |-> IF k = n + 1 THEN RealStep(s, f, k) ELSE f[k]]
  <2>2. ASSUME NEW k \in 0 .. n + 1 PROVE g[k] = RealStep(s, g, k)
    <3>1. CASE k = 0
      BY <2>1, <3>1 DEF RealStep
    <3>2. CASE k > 0
      <4>1. k - 1 \in 0 .. n /\ g[k - 1] = f[k - 1]
        BY <3>2
      <4>2. RealStep(s, g, k) = RealStep(s, f, k)
        BY <3>2, <4>1 DEF RealStep
      <4>3. k # n + 1 => f[k] = RealStep(s, f, k)
        BY <2>1
      <4> HIDE DEF g
      <4>4. g[k] = IF k = n + 1 THEN RealStep(s, f, k) ELSE f[k]
        BY DEF g
      <4> QED BY <4>2, <4>3, <4>4
    <3> QED BY <3>1, <3>2
  <2>3. g = [k \in 0 .. n + 1 |-> RealStep(s, g, k)]
    BY <2>2
  <2> QED BY <2>3
<1>3. Upto(Len(s))
  <2> DEFINE T == {n \in Nat : Upto(n)}
  <2> HIDE DEF Upto
  <2>1. 0 \in T /\ (\A n \in T : n + 1 \in T)
    BY <1>1, <1>2
  <2>2. T \in SUBSET Nat
    OBVIOUS
  <2>3. T = Nat
    <3> HIDE DEF T
    <3> QED BY <2>1, <2>2, SetInduction
  <2> QED BY <2>3
<1>4. RealUpTo(s) = CHOOSE f : f = [k \in 0 .. Len(s) |-> RealStep(s, f, k)]
  BY DEF RealUpTo, RealStep
<1> QED BY Zenon, <1>3, <1>4

\* So does the one of TotalBefore.
LEMMA TotalFunction ==
  ASSUME NEW s, Len(s) \in Nat
  PROVE  TotalUpTo(s) =
           [j \in 0 .. Len(s) |-> IF j = 0 THEN 0 ELSE TotalUpTo(s)[j - 1] + s[j].len]
<1> DEFINE Upto(n) ==
      \E f : f = [j \in 0 .. n |-> IF j = 0 THEN 0 ELSE f[j - 1] + s[j].len]
<1>1. Upto(0)
  <2>1. [j \in 0 .. 0 |-> 0] =
          [j \in 0 .. 0 |-> IF j = 0 THEN 0 ELSE [i \in 0 .. 0 |-> 0][j - 1] + s[j].len]
    OBVIOUS
  <2> QED BY <2>1
<1>2. ASSUME NEW n \in Nat, Upto(n) PROVE Upto(n + 1)
  <2>1. PICK f : f = [j \in 0 .. n |-> IF j = 0 THEN 0 ELSE f[j - 1] + s[j].len]
    BY <1>2
  <2> DEFINE g == [j \in 0 .. n + 1 |-> IF j = n + 1 THEN f[n] + s[j].len ELSE f[j]]
  <2>2. ASSUME NEW j \in 0 .. n + 1
        PROVE g[j] = IF j = 0 THEN 0 ELSE g[j - 1] + s[j].len
    <3>1. CASE j = 0
      BY <2>1, <3>1
    <3>2. CASE j > 0
      <4>1. j - 1 \in 0 .. n /\ g[j - 1] = f[j - 1]
        BY <3>2
      <4>2. j # n + 1 => f[j] = f[j - 1] + s[j].len
        BY <2>1, <3>2
      <4>3. j = n + 1 => f[n] = f[j - 1]
        OBVIOUS
      <4>4. g[j] = IF j = n + 1 THEN f[n] + s[j].len ELSE f[j]
        OBVIOUS
      <4> HIDE DEF g
      <4> QED BY <3>2, <4>1, <4>2, <4>3, <4>4
    <3> QED BY <3>1, <3>2
  <2>3. g = [j \in 0 .. n + 1 |-> IF j = 0 THEN 0 ELSE g[j - 1] + s[j].len]
    BY <2>2
  <2> QED BY <2>3
<1>3. Upto(Len(s))
  <2> DEFINE T == {n \in Nat : Upto(n)}
  <2> HIDE DEF Upto
  <2>1. 0 \in T /\ (\A n \in T : n + 1 \in T)
    BY <1>1, <1>2
  <2>2. T \in SUBSET Nat
    OBVIOUS
  <2>3. T = Nat
    <3> HIDE DEF T
    <3> QED BY <2>1, <2>2, SetInduction
  <2> QED BY <2>3
<1>4. TotalUpTo(s) =
        CHOOSE f : f = [j \in 0 .. Len(s) |-> IF j = 0 THEN 0 ELSE f[j - 1] + s[j].len]
  BY DEF TotalUpTo
<1> QED BY Zenon, <1>3, <1>4

\* What the function of Real is, entry by entry.
LEMMA RealSteps ==
  ASSUME NEW S, NEW s \in Seq(S)
  PROVE  /\ RealUpTo(s)[0] = <<>>
         /\ \A k \in 1 .. Len(s) :
              RealUpTo(s)[k] = IF s[k].len # 0 THEN Append(RealUpTo(s)[k - 1], s[k])
                               ELSE RealUpTo(s)[k - 1]
<1>1. RealUpTo(s) = [k \in 0 .. Len(s) |-> RealStep(s, RealUpTo(s), k)]
  BY RealFunction
<1>2. \A k \in 0 .. Len(s) : RealUpTo(s)[k] = RealStep(s, RealUpTo(s), k)
  BY <1>1
<1> QED BY <1>2 DEF RealStep

\* What the function of TotalBefore is, entry by entry.
LEMMA TotalSteps ==
  ASSUME NEW S, NEW s \in Seq(S)
  PROVE  /\ TotalUpTo(s)[0] = 0
         /\ \A k \in 1 .. Len(s) : TotalUpTo(s)[k] = TotalUpTo(s)[k - 1] + s[k].len
<1>1. TotalUpTo(s) =
        [j \in 0 .. Len(s) |-> IF j = 0 THEN 0 ELSE TotalUpTo(s)[j - 1] + s[j].len]
  BY TotalFunction
<1>2. \A j \in 0 .. Len(s) :
        TotalUpTo(s)[j] = IF j = 0 THEN 0 ELSE TotalUpTo(s)[j - 1] + s[j].len
  BY <1>1
<1> QED BY <1>2

\* Real of the first entries does not depend on those that follow.
LEMMA RealPrefix ==
  ASSUME NEW S, NEW s \in Seq(S), NEW t \in Seq(S), Len(s) <= Len(t),
         \A i \in 1 .. Len(s) : t[i] = s[i]
  PROVE  \A k \in 0 .. Len(s) : RealUpTo(t)[k] = RealUpTo(s)[k]
<1> DEFINE T == {k \in Nat : k <= Len(s) => RealUpTo(t)[k] = RealUpTo(s)[k]}
<1>1. 0 \in T
  BY RealSteps
<1>2. ASSUME NEW n \in T PROVE n + 1 \in T
  <2> SUFFICES ASSUME n + 1 <= Len(s) PROVE RealUpTo(t)[n + 1] = RealUpTo(s)[n + 1]
    OBVIOUS
  <2>1. n \in Nat /\ n + 1 \in 1 .. Len(s) /\ n + 1 \in 1 .. Len(t) /\ (n + 1) - 1 = n
    OBVIOUS
  <2>2. RealUpTo(t)[n] = RealUpTo(s)[n]
    BY <2>1
  <2> HIDE DEF T
  <2> QED BY <2>1, <2>2, RealSteps
<1>3. T = Nat
  BY <1>1, <1>2, SetInduction
<1> QED BY <1>3

\* Nor do the offsets, and they depend on nothing but the lengths.
LEMMA TotalPrefix ==
  ASSUME NEW S, NEW R, NEW s \in Seq(S), NEW t \in Seq(R), Len(s) <= Len(t),
         \A i \in 1 .. Len(s) : t[i].len = s[i].len
  PROVE  \A k \in 0 .. Len(s) : TotalUpTo(t)[k] = TotalUpTo(s)[k]
<1> DEFINE T == {k \in Nat : k <= Len(s) => TotalUpTo(t)[k] = TotalUpTo(s)[k]}
<1>1. 0 \in T
  BY TotalSteps
<1>2. ASSUME NEW n \in T PROVE n + 1 \in T
  <2> SUFFICES ASSUME n + 1 <= Len(s) PROVE TotalUpTo(t)[n + 1] = TotalUpTo(s)[n + 1]
    OBVIOUS
  <2>1. n \in Nat /\ n + 1 \in 1 .. Len(s) /\ n + 1 \in 1 .. Len(t) /\ (n + 1) - 1 = n
    OBVIOUS
  <2>2. TotalUpTo(t)[n] = TotalUpTo(s)[n]
    BY <2>1
  <2> HIDE DEF T
  <2>3. TotalUpTo(t)[n + 1] = TotalUpTo(t)[n] + t[n + 1].len
    BY <2>1, TotalSteps
  <2>4. TotalUpTo(s)[n + 1] = TotalUpTo(s)[n] + s[n + 1].len
    BY <2>1, TotalSteps
  <2> QED BY <2>1, <2>2, <2>3, <2>4
<1>3. T = Nat
  BY <1>1, <1>2, SetInduction
<1> QED BY <1>3

\* Real keeps only entries with a length, and no more than there are.
LEMMA RealTypes ==
  ASSUME NEW S, NEW s \in Seq(S)
  PROVE  /\ Real(s) \in Seq(S) /\ Len(Real(s)) <= Len(s)
         /\ \A i \in 1 .. Len(Real(s)) : Real(s)[i].len # 0
<1> DEFINE Fits(r, k) == r \in Seq(S) /\ Len(r) <= k /\ \A i \in 1 .. Len(r) : r[i].len # 0
<1> DEFINE T == {k \in Nat : k <= Len(s) => Fits(RealUpTo(s)[k], k)}
<1>1. 0 \in T
  <2>1. RealUpTo(s)[0] = <<>>
    BY RealSteps
  <2>2. Fits(<<>>, 0)
    OBVIOUS
  <2> QED BY <2>1, <2>2
<1>2. ASSUME NEW n \in T PROVE n + 1 \in T
  <2> SUFFICES ASSUME n + 1 <= Len(s) PROVE Fits(RealUpTo(s)[n + 1], n + 1)
    OBVIOUS
  <2>1. n \in Nat /\ n + 1 \in 1 .. Len(s) /\ (n + 1) - 1 = n /\ s[n + 1] \in S
    OBVIOUS
  <2>2. PICK r : r = RealUpTo(s)[n]
    OBVIOUS
  <2>3. Fits(r, n)
    BY <2>1, <2>2
  <2>4. RealUpTo(s)[n + 1] = IF s[n + 1].len # 0 THEN Append(r, s[n + 1]) ELSE r
    BY <2>1, <2>2, RealSteps
  <2>5. Fits(r, n + 1)
    BY <2>1, <2>3
  <2>6. s[n + 1].len # 0 => Fits(Append(r, s[n + 1]), n + 1)
    BY <2>1, <2>3
  <2> HIDE DEF T, Fits
  <2> QED BY <2>4, <2>5, <2>6
<1>3. T = Nat
  <2> HIDE DEF T
  <2> QED BY <1>1, <1>2, SetInduction DEF T
<1>4. Fits(RealUpTo(s)[Len(s)], Len(s))
  BY <1>3
<1> QED BY <1>4, RealIsLast

\* An entry at the end is kept if it has a length.
LEMMA RealOfAppend ==
  ASSUME NEW S, NEW s \in Seq(S), NEW e \in S
  PROVE  Real(Append(s, e)) = IF e.len # 0 THEN Append(Real(s), e) ELSE Real(s)
<1>1. PICK t : t = Append(s, e)
  OBVIOUS
<1>2. t \in Seq(S) /\ Len(t) = Len(s) + 1 /\ t[Len(s) + 1] = e /\ \A i \in 1 .. Len(s) : t[i] = s[i]
  BY <1>1
<1>3. RealUpTo(t)[Len(s)] = RealUpTo(s)[Len(s)]
  BY <1>2, RealPrefix
<1>4. (Len(s) + 1) - 1 = Len(s) /\ Len(s) + 1 \in 1 .. Len(t)
  BY <1>2
<1>5. RealUpTo(t)[Len(s) + 1] =
        IF e.len # 0 THEN Append(RealUpTo(t)[Len(s)], e) ELSE RealUpTo(t)[Len(s)]
  BY <1>2, <1>4, RealSteps
<1>6. Real(t) = RealUpTo(t)[Len(s) + 1] /\ Real(s) = RealUpTo(s)[Len(s)]
  BY <1>2, RealIsLast
<1> QED BY <1>1, <1>3, <1>5, <1>6

\* Dummies at the end change nothing.
LEMMA RealOfFilled ==
  ASSUME NEW S, NEW s \in Seq(S), NEW t \in Seq(S), Len(s) <= Len(t),
         \A i \in 1 .. Len(s) : t[i] = s[i],
         \A i \in 1 .. Len(t) : i > Len(s) => t[i].len = 0
  PROVE  Real(t) = Real(s)
<1> DEFINE T == {k \in Nat : Len(s) + k <= Len(t) => RealUpTo(t)[Len(s) + k] = Real(s)}
<1>1. 0 \in T
  <2>1. RealUpTo(t)[Len(s)] = RealUpTo(s)[Len(s)]
    BY RealPrefix
  <2> QED BY <2>1, RealIsLast
<1>2. ASSUME NEW n \in T PROVE n + 1 \in T
  <2> SUFFICES ASSUME Len(s) + (n + 1) <= Len(t) PROVE RealUpTo(t)[Len(s) + (n + 1)] = Real(s)
    OBVIOUS
  <2>1. PICK k : k = Len(s) + (n + 1)
    OBVIOUS
  <2>2. n \in Nat /\ k \in 1 .. Len(t) /\ k > Len(s) /\ k - 1 = Len(s) + n
    BY <2>1
  <2>3. RealUpTo(t)[k - 1] = Real(s)
    BY <2>1, <2>2
  <2>4. t[k].len = 0
    BY <2>2
  <2> HIDE DEF T
  <2>5. RealUpTo(t)[k] = RealUpTo(t)[k - 1]
    BY <2>2, <2>4, RealSteps
  <2> QED BY <2>1, <2>3, <2>5
<1>3. T = Nat
  <2> HIDE DEF T
  <2> QED BY <1>1, <1>2, SetInduction DEF T
<1>4. PICK m \in Nat : Len(s) + m = Len(t)
  <2>1. Len(t) - Len(s) \in Nat /\ Len(s) + (Len(t) - Len(s)) = Len(t)
    OBVIOUS
  <2> QED BY <2>1
<1>5. RealUpTo(t)[Len(s) + m] = Real(s)
  <2>1. m \in T
    BY <1>3
  <2> QED BY <1>4, <2>1
<1> QED BY <1>4, <1>5, RealIsLast

\* Without dummies all is kept.
LEMMA RealOfReal ==
  ASSUME NEW S, NEW s \in Seq(S), \A i \in 1 .. Len(s) : s[i].len # 0
  PROVE  Real(s) = s
<1> DEFINE T == {k \in Nat : k <= Len(s) => RealUpTo(s)[k] = SubSeq(s, 1, k)}
<1>1. 0 \in T
  <2>1. RealUpTo(s)[0] = <<>> /\ SubSeq(s, 1, 0) = <<>>
    BY RealSteps
  <2> QED BY <2>1
<1>2. ASSUME NEW n \in T PROVE n + 1 \in T
  <2> SUFFICES ASSUME n + 1 <= Len(s) PROVE RealUpTo(s)[n + 1] = SubSeq(s, 1, n + 1)
    OBVIOUS
  <2>1. n \in Nat /\ n + 1 \in 1 .. Len(s) /\ (n + 1) - 1 = n
    OBVIOUS
  <2>2. RealUpTo(s)[n] = SubSeq(s, 1, n)
    BY <2>1
  <2>3. RealUpTo(s)[n + 1] = Append(RealUpTo(s)[n], s[n + 1])
    BY <2>1, RealSteps
  <2>4. SubSeq(s, 1, n + 1) = Append(SubSeq(s, 1, n), s[n + 1])
    BY <2>1
  <2> HIDE DEF T
  <2> QED BY <2>2, <2>3, <2>4
<1>3. T = Nat
  <2> HIDE DEF T
  <2> QED BY <1>1, <1>2, SetInduction DEF T
<1>4. RealUpTo(s)[Len(s)] = SubSeq(s, 1, Len(s))
  BY <1>3
<1>5. SubSeq(s, 1, Len(s)) = s
  OBVIOUS
<1> QED BY <1>4, <1>5, RealIsLast

\* Offsets are numbers.
LEMMA TotalTypes ==
  ASSUME NEW S, NEW s \in Seq(S), \A i \in 1 .. Len(s) : s[i].len \in Nat
  PROVE  /\ Total(s) \in Nat
         /\ \A k \in 1 .. Len(s) : TotalBefore(s, k) \in Nat
<1> DEFINE T == {k \in Nat : k <= Len(s) => TotalUpTo(s)[k] \in Nat}
<1>1. 0 \in T
  BY TotalSteps
<1>2. ASSUME NEW n \in T PROVE n + 1 \in T
  <2> SUFFICES ASSUME n + 1 <= Len(s) PROVE TotalUpTo(s)[n + 1] \in Nat
    OBVIOUS
  <2>1. n \in Nat /\ n + 1 \in 1 .. Len(s) /\ (n + 1) - 1 = n
    OBVIOUS
  <2>2. TotalUpTo(s)[n] \in Nat /\ s[n + 1].len \in Nat
    BY <2>1
  <2>3. TotalUpTo(s)[n + 1] = TotalUpTo(s)[n] + s[n + 1].len
    BY <2>1, TotalSteps
  <2> HIDE DEF T
  <2> QED BY <2>2, <2>3
<1>3. T = Nat
  <2> HIDE DEF T
  <2> QED BY <1>1, <1>2, SetInduction DEF T
<1>4. \A k \in 0 .. Len(s) : TotalUpTo(s)[k] \in Nat
  BY <1>3
<1>5. Total(s) = TotalUpTo(s)[Len(s)]
  <2>1. (Len(s) + 1) - 1 = Len(s)
    OBVIOUS
  <2> QED BY <2>1, TotalIsLast DEF Total
<1> QED BY <1>4, <1>5, TotalIsLast

\* The total length is the last value of the recursive function.
LEMMA TotalIs ==
  ASSUME NEW S, NEW s \in Seq(S)
  PROVE  Total(s) = TotalUpTo(s)[Len(s)]
<1>1. (Len(s) + 1) - 1 = Len(s)
  OBVIOUS
<1> QED BY <1>1, TotalIsLast DEF Total

\* A variable at the end is placed behind the others and moves none of them.
LEMMA PlacedOfAppend ==
  ASSUME NEW S, NEW s \in Seq(S), NEW e \in S
  PROVE  /\ Total(Append(s, e)) = Total(s) + e.len
         /\ Placed(Append(s, e)) =
              Append(Placed(s), [obj |-> e.obj, len |-> e.len, offset |-> Total(s)])
<1>1. PICK t : t = Append(s, e)
  OBVIOUS
<1>2. /\ t \in Seq(S) /\ Len(t) = Len(s) + 1 /\ t[Len(s) + 1] = e
      /\ \A i \in 1 .. Len(s) : t[i] = s[i]
  BY <1>1
<1>3. \A k \in 0 .. Len(s) : TotalUpTo(t)[k] = TotalUpTo(s)[k]
  BY <1>2, TotalPrefix
<1>4. (Len(s) + 1) - 1 = Len(s) /\ Len(s) + 1 \in 1 .. Len(t)
  BY <1>2
<1>5. TotalUpTo(t)[Len(s) + 1] = TotalUpTo(t)[Len(s)] + e.len
  BY <1>2, <1>4, TotalSteps
<1>6. Total(t) = TotalUpTo(t)[Len(s) + 1] /\ Total(s) = TotalUpTo(s)[Len(s)]
  BY <1>2, TotalIs
<1>7. Total(t) = Total(s) + e.len
  BY <1>3, <1>5, <1>6
<1>8. \A k \in 1 .. Len(s) : TotalBefore(t, k) = TotalBefore(s, k)
  BY <1>3, TotalIsLast
<1>9. TotalBefore(t, Len(s) + 1) = Total(s)
  BY <1>3, <1>4, <1>6, TotalIsLast
<1>10. PICK p : p = [obj |-> e.obj, len |-> e.len, offset |-> Total(s)]
  OBVIOUS
<1>11. Placed(t) = [k \in 1 .. Len(s) + 1 |-> IF k = Len(s) + 1 THEN p ELSE Placed(s)[k]]
  <2>1. DOMAIN t = 1 .. Len(s) + 1 /\ DOMAIN s = 1 .. Len(s)
    BY <1>2
  <2>2. \A k \in 1 .. Len(s) :
          [obj |-> t[k].obj, len |-> t[k].len, offset |-> TotalBefore(t, k)] = Placed(s)[k]
    BY <1>2, <1>8, <2>1 DEF Placed
  <2> QED BY <1>2, <1>9, <1>10, <2>1, <2>2 DEF Placed
<1>12. PICK R : Placed(s) \in Seq(R) /\ Len(Placed(s)) = Len(s) /\ p \in R
  <2>1. PICK q : q = Placed(s)
    OBVIOUS
  <2>2. q = [k \in 1 .. Len(s) |-> q[k]]
    BY <2>1 DEF Placed
  <2>3. q \in Seq({q[k] : k \in 1 .. Len(s)} \cup {p})
    BY <2>2
  <2>4. Len(q) = Len(s)
    BY <2>2, <2>3
  <2> QED BY <2>1, <2>3, <2>4
<1>13. Append(Placed(s), p) =
         [k \in 1 .. Len(s) + 1 |-> IF k = Len(s) + 1 THEN p ELSE Placed(s)[k]]
  <2>1. PICK q : q = Placed(s)
    OBVIOUS
  <2>2. q \in Seq(R) /\ Len(q) = Len(s) /\ p \in R
    BY <1>12, <2>1
  <2>3. PICK r : r = [k \in 1 .. Len(q) + 1 |-> IF k = Len(q) + 1 THEN p ELSE q[k]]
    OBVIOUS
  <2>4. r \in Seq(R) /\ Append(q, p) \in Seq(R)
    BY <2>2, <2>3
  <2>5. Len(r) = Len(Append(q, p)) /\ \A k \in 1 .. Len(r) : r[k] = Append(q, p)[k]
    BY <2>2, <2>3, <2>4
  <2>6. r = Append(q, p)
    BY <2>4, <2>5, SeqEqual
  <2> QED BY <2>1, <2>2, <2>3, <2>6
<1> QED BY <1>1, <1>7, <1>10, <1>11, <1>13

-----------------------------------------------------------------------------
\* The map and the entries of the device.

\* Entries has an entry for each variable.
LEMMA EntriesTypes ==
  ASSUME NEW m \in Seq(Mapped)
  PROVE  /\ Entries(m) \in Seq(Entry) /\ Len(Entries(m)) = Len(m)
         /\ \A k \in 1 .. Len(m) : Entries(m)[k] = [obj |-> m[k].obj, len |-> m[k].len]
<1>1. PICK q : q = Entries(m)
  OBVIOUS
<1>2. q = [k \in 1 .. Len(m) |-> [obj |-> m[k].obj, len |-> m[k].len]]
  BY <1>1 DEF Entries
<1>3. ASSUME NEW k \in 1 .. Len(m) PROVE [obj |-> m[k].obj, len |-> m[k].len] \in Entry
  <2>1. m[k] \in Mapped
    OBVIOUS
  <2> QED BY <2>1 DEF Mapped, Entry
<1>4. q \in Seq(Entry)
  BY <1>2, <1>3
<1>5. Len(q) = Len(m)
  BY <1>2, <1>4
<1> QED BY <1>1, <1>2, <1>4, <1>5

\* The empty map.
LEMMA EmptyMap ==
  /\ Real(<<>>) = <<>> /\ Total(<<>>) = 0
  /\ Entries(<<>>) = <<>> /\ Placed(<<>>) = <<>>
<1>1. <<>> \in Seq(Mapped) /\ Len(<<>>) = 0
  OBVIOUS
<1>2. Real(<<>>) = <<>>
  BY <1>1, RealIsLast, RealSteps
<1>3. Total(<<>>) = 0
  BY <1>1, TotalIs, TotalSteps
<1> QED BY <1>2, <1>3 DEF Entries, Placed

\* clear leaves a map that is packed.
LEMMA MapCleared ==
  ASSUME map' = <<>>, length' = 0
  PROVE  MapInv'
<1>1. Slots \in Nat
  BY SetupAssumption
<1> QED BY <1>1, EmptyMap DEF MapInv

\* add_variable leaves a packed map packed, and adds the entry to those that are real.
LEMMA MapAdded ==
  ASSUME MapInv, NEW obj \in Objects \cup {None}, NEW len \in Nat, Len(map) < Slots, Added(obj, len)
  PROVE  /\ MapInv' /\ Len(map') <= Len(map) + 1
         /\ obj \in Known /\ len # 0 =>
              Real(Entries(map'))
                = Append(Real(Entries(map)), [obj |-> obj, len |-> len])
<1> USE SetupAssumption
<1>1. CASE obj \notin Known
  BY <1>1 DEF Added, MapInv
<1>2. CASE obj \in Known
  <2>1. PICK v : v = [obj |-> obj, len |-> len, offset |-> length]
    OBVIOUS
  <2>2. PICK e : e = [obj |-> obj, len |-> len]
    OBVIOUS
  <2>3. map' = Append(map, v) /\ length' = length + len
    BY <1>2, <2>1 DEF Added
  <2>4. PICK r : r = Real(Entries(map))
    OBVIOUS
  <2>5. /\ map \in Seq(Mapped) /\ Entries(map) \in Seq(Entry) /\ r \in Seq(Entry)
        /\ length = Total(r) /\ Real(map) = Placed(r)
    BY <2>4, EntriesTypes, RealTypes DEF MapInv
  <2>6. Total(r) \in Nat
    <3>1. \A i \in 1 .. Len(r) : r[i] \in Entry
      BY <2>5
    <3>2. \A i \in 1 .. Len(r) : r[i].len \in Nat
      BY <3>1 DEF Entry
    <3> QED BY <2>5, <3>2, TotalTypes
  <2>7. v \in Mapped /\ e \in Entry
    BY <2>1, <2>2, <2>5, <2>6 DEF Mapped, Entry
  <2>8. map' \in Seq(Mapped) /\ Len(map') = Len(map) + 1
    BY <2>3, <2>5, <2>7
  <2>9. Entries(map') = Append(Entries(map), e)
    <3>1. /\ Entries(map') \in Seq(Entry) /\ Append(Entries(map), e) \in Seq(Entry)
          /\ Len(Entries(map')) = Len(map) + 1
          /\ Len(Append(Entries(map), e)) = Len(map) + 1
      BY <2>5, <2>7, <2>8, EntriesTypes
    <3>2. ASSUME NEW k \in 1 .. Len(map) + 1
          PROVE Entries(map')[k] = Append(Entries(map), e)[k]
      <4>1. Entries(map')[k] = [obj |-> map'[k].obj, len |-> map'[k].len]
        BY <2>8, EntriesTypes
      <4>2. CASE k = Len(map) + 1
        <5>1. map'[k] = v /\ Append(Entries(map), e)[k] = e
          BY <2>3, <2>5, <2>7, <4>2, EntriesTypes
        <5>2. v.obj = obj /\ v.len = len
          BY <2>1
        <5> QED BY <2>2, <4>1, <5>1, <5>2
      <4>3. CASE k # Len(map) + 1
        <5>1. map'[k] = map[k] /\ Append(Entries(map), e)[k] = Entries(map)[k]
          BY <2>3, <2>5, <2>7, <4>3, EntriesTypes
        <5>2. Entries(map)[k] = [obj |-> map[k].obj, len |-> map[k].len]
          BY <2>5, <4>3, EntriesTypes
        <5> QED BY <4>1, <5>1, <5>2
      <4> QED BY <4>2, <4>3
    <3> QED BY <3>1, <3>2, SeqEqual
  <2>10. /\ Real(map') = IF len # 0 THEN Append(Real(map), v) ELSE Real(map)
         /\ Real(Entries(map')) = IF len # 0 THEN Append(r, e) ELSE r
    <3>1. v.len = len /\ e.len = len
      BY <2>1, <2>2
    <3> QED BY SMTT(30), <2>3, <2>4, <2>5, <2>7, <2>9, <3>1, RealOfAppend
  <2>11. /\ Total(Append(r, e)) = Total(r) + len
         /\ Placed(Append(r, e)) = Append(Placed(r), v)
    <3>1. e.len = len /\ e.obj = obj
      BY <2>2
    <3> QED BY <2>1, <2>5, <2>7, <3>1, PlacedOfAppend
  <2>12. length' = Total(Real(Entries(map')))
    BY <2>3, <2>5, <2>6, <2>10, <2>11
  <2>13. Real(map') = Placed(Real(Entries(map')))
    BY <2>5, <2>10, <2>11
  <2>14. Len(map') <= Slots
    BY <2>5, <2>8
  <2>15. MapInv'
    BY <2>8, <2>12, <2>13, <2>14 DEF MapInv
  <2>16. Len(map') <= Len(map) + 1
    BY <2>5, <2>8
  <2>17. len # 0 => Real(Entries(map')) = Append(Real(Entries(map)), [obj |-> obj, len |-> len])
    BY <2>2, <2>4, <2>10
  <2> QED BY <2>15, <2>16, <2>17
<1> QED BY <1>1, <1>2

\* _fill_map leaves a packed map packed and changes none of the entries that are real.
LEMMA MapFilled ==
  ASSUME MapInv, NEW n \in 0 .. Slots, map' = Filled(n), length' = length
  PROVE  /\ MapInv' /\ Real(Entries(map')) = Real(Entries(map))
         /\ n >= Len(map) => Len(map') = n
<1> USE SetupAssumption
<1>1. PICK d : d = [obj |-> None, len |-> 0, offset |-> 0]
  OBVIOUS
<1>2. d \in Mapped /\ map \in Seq(Mapped) /\ Len(map) <= Slots /\ Len(map) \in Nat /\ n \in Nat
  BY <1>1 DEF Mapped, MapInv
<1>3. PICK z : z = [k \in 1 .. n - Len(map) |-> d]
  OBVIOUS
<1>4. PICK m \in Nat : m = IF n >= Len(map) THEN n - Len(map) ELSE 0
  <2>1. n >= Len(map) => n - Len(map) \in Nat
    BY <1>2
  <2> QED BY <2>1
<1>5. z = [k \in 1 .. m |-> d]
  <2>1. 1 .. n - Len(map) = 1 .. m
    BY <1>2, <1>4
  <2> QED BY <1>3, <2>1
<1>6. z \in Seq(Mapped) /\ Len(z) = m /\ \A k \in 1 .. m : z[k] = d
  BY <1>2, <1>5
<1>7. map' = map \o z
  BY <1>1, <1>3 DEF Filled
<1>8. /\ map' \in Seq(Mapped) /\ Len(map') = Len(map) + m
      /\ \A i \in 1 .. Len(map) : map'[i] = map[i]
      /\ \A i \in 1 .. Len(map') : i > Len(map) => map'[i] = d
  <2>1. map' \in Seq(Mapped) /\ Len(map') = Len(map) + m
    <3>1. map \o z \in Seq(Mapped) /\ Len(map \o z) = Len(map) + Len(z)
      BY <1>2, <1>6, ConcatProperties, Zenon
    <3> QED BY <1>6, <1>7, <3>1, Zenon
  <2>2. \A i \in 1 .. Len(map) : map'[i] = map[i]
    BY <1>2, <1>6, <1>7, <2>1, ConcatProperties
  <2>3. ASSUME NEW i \in 1 .. Len(map'), i > Len(map) PROVE map'[i] = d
    <3>1. i - Len(map) \in 1 .. m
      BY <1>2, <2>1, <2>3
    <3>2. map'[i] = z[i - Len(map)]
      BY <1>2, <1>6, <1>7, <2>1, <2>3, <3>1, ConcatProperties
    <3> QED BY <1>6, <3>1, <3>2
  <2> QED BY <2>1, <2>2, <2>3
<1>9. Real(map') = Real(map)
  <2>1. d.len = 0
    BY <1>1
  <2>2. \A i \in 1 .. Len(map') : i > Len(map) => map'[i].len = 0
    BY <1>8, <2>1
  <2> QED BY <1>2, <1>8, <2>2, RealOfFilled
<1>10. Real(Entries(map')) = Real(Entries(map))
  <2>1. /\ Entries(map') \in Seq(Entry) /\ Len(Entries(map')) = Len(map')
        /\ Entries(map) \in Seq(Entry) /\ Len(Entries(map)) = Len(map)
        /\ \A i \in 1 .. Len(map') :
             Entries(map')[i] = [obj |-> map'[i].obj, len |-> map'[i].len]
        /\ \A i \in 1 .. Len(map) : Entries(map)[i] = [obj |-> map[i].obj, len |-> map[i].len]
    BY <1>2, <1>8, EntriesTypes
  <2>2. \A i \in 1 .. Len(map) : Entries(map')[i] = Entries(map)[i]
    BY <1>8, <2>1
  <2>3. ASSUME NEW i \in 1 .. Len(map'), i > Len(map) PROVE Entries(map')[i].len = 0
    <3>1. map'[i].len = 0
      BY <1>1, <1>8, <2>3
    <3>2. Entries(map')[i] = [obj |-> map'[i].obj, len |-> map'[i].len]
      BY <2>1
    <3> QED BY <3>1, <3>2
  <2>4. Len(Entries(map)) <= Len(Entries(map'))
    BY <1>2, <1>8, <2>1
  <2>5. \A i \in 1 .. Len(Entries(map')) : i > Len(Entries(map)) => Entries(map')[i].len = 0
    BY <2>1, <2>3
  <2>6. \A i \in 1 .. Len(Entries(map)) : Entries(map')[i] = Entries(map)[i]
    BY <2>1, <2>2
  <2> QED BY <2>1, <2>4, <2>5, <2>6, RealOfFilled
<1>11. Len(map') <= Slots
  BY <1>2, <1>4, <1>8
<1>12. MapInv'
  BY <1>8, <1>9, <1>10, <1>11 DEF MapInv
<1> QED BY <1>2, <1>4, <1>8, <1>10, <1>12

\* Entries without dummies are what their placement has as entries.
LEMMA PlacedOfReal ==
  ASSUME NEW r \in Seq(Entry), \A i \in 1 .. Len(r) : r[i].len # 0
  PROVE  /\ Placed(r) \in Seq(Mapped) /\ Len(Placed(r)) = Len(r)
         /\ Entries(Placed(r)) = r /\ Real(Placed(r)) = Placed(r)
         /\ Total(Placed(r)) = Total(r)
<1>1. PICK p : p = Placed(r)
  OBVIOUS
<1>2. p = [k \in 1 .. Len(r) |-> [obj |-> r[k].obj, len |-> r[k].len, offset |-> TotalBefore(r, k)]]
  BY <1>1 DEF Placed
<1>3. ASSUME NEW k \in 1 .. Len(r)
      PROVE  /\ [obj |-> r[k].obj, len |-> r[k].len, offset |-> TotalBefore(r, k)] \in Mapped
             /\ [obj |-> r[k].obj, len |-> r[k].len] = r[k]
  <2>1. r[k] \in Entry
    OBVIOUS
  <2>2. \A i \in 1 .. Len(r) : r[i] \in Entry
    OBVIOUS
  <2>3. \A i \in 1 .. Len(r) : r[i].len \in Nat
    BY <2>2 DEF Entry
  <2>4. TotalBefore(r, k) \in Nat
    BY <2>3, TotalTypes
  <2> QED BY <2>1, <2>4 DEF Entry, Mapped
<1>4. p \in Seq(Mapped)
  <2>1. p \in [1 .. Len(r) -> Mapped]
    BY <1>2, <1>3
  <2> QED BY <2>1
<1>5. Len(p) = Len(r) /\ \A k \in 1 .. Len(r) : p[k].obj = r[k].obj /\ p[k].len = r[k].len
  BY <1>2, <1>4
<1>6. Entries(p) = r
  <2>1. Entries(p) \in Seq(Entry) /\ Len(Entries(p)) = Len(r)
    BY <1>4, <1>5, EntriesTypes
  <2>2. \A k \in 1 .. Len(r) : Entries(p)[k] = [obj |-> p[k].obj, len |-> p[k].len]
    BY <1>4, <1>5, EntriesTypes
  <2>3. \A k \in 1 .. Len(r) : Entries(p)[k] = r[k]
    BY <1>3, <1>5, <2>2
  <2> QED BY <2>1, <2>3, SeqEqual
<1>7. Real(p) = p
  <2>1. \A k \in 1 .. Len(p) : p[k].len # 0
    BY <1>5
  <2> QED BY <1>4, <2>1, RealOfReal
<1>8. Total(p) = Total(r)
  <2>1. \A k \in 0 .. Len(r) : TotalUpTo(p)[k] = TotalUpTo(r)[k]
    BY <1>4, <1>5, TotalPrefix
  <2> QED BY <1>4, <1>5, <2>1, TotalIs
<1> QED BY <1>1, <1>4, <1>5, <1>6, <1>7, <1>8

\* The first entries of the device are a sequence.
LEMMA FirstEntries ==
  ASSUME DeviceTypes, NEW k \in 0 .. Slots
  PROVE  /\ SubSeq(device.entries, 1, k) \in Seq(Entry)
         /\ Len(SubSeq(device.entries, 1, k)) = k
         /\ \A i \in 1 .. k : SubSeq(device.entries, 1, k)[i] = device.entries[i]
<1>1. PICK e : e = device.entries
  OBVIOUS
<1>2. e \in [1 .. Slots -> Entry] /\ Slots \in Nat
  BY <1>1, SetupAssumption DEF DeviceTypes, Slot
<1>3. e \in Seq(Entry) /\ Len(e) = Slots
  BY <1>2
<1> QED BY <1>1, <1>3

\* With the next entry it is one longer.
LEMMA NextEntry ==
  ASSUME DeviceTypes, NEW k \in 0 .. Slots, k < Slots
  PROVE  SubSeq(device.entries, 1, k + 1)
           = Append(SubSeq(device.entries, 1, k), device.entries[k + 1])
<1>1. PICK e : e = device.entries
  OBVIOUS
<1>2. e \in [1 .. Slots -> Entry] /\ Slots \in Nat
  BY <1>1, SetupAssumption DEF DeviceTypes, Slot
<1>3. e \in Seq(Entry) /\ Len(e) = Slots
  BY <1>2
<1> QED BY <1>1, <1>3

-----------------------------------------------------------------------------
\* The invariant: at first, and in steps outside of transfers.

\* The invariant holds at first.
LEMMA InitSetup == Init => SetupInv
<1> SUFFICES ASSUME Init PROVE SetupInv
  OBVIOUS
<1> USE SetupAssumption
<1>1. DeviceTypes
  <2>1. PICK content \in Contents, cob \in CobIds, valid \in BOOLEAN, trans \in {"sync", "event"} :
       device = [cob |-> cob, valid |-> valid, trans |-> trans, timer |-> 1,
                 count |-> IF kind = "fixed" THEN Slots ELSE Len(content),
                 entries |-> [k \in Slot |-> IF k <= Len(content) THEN content[k] ELSE Empty]]
    BY DEF Init
  <2>2. content \in Seq([obj : Objects, len : Nat]) /\ Len(content) \in 0 .. Slots
    <3>1. \A c \in Contents : c \in Seq([obj : Objects, len : Nat]) /\ Len(c) <= Slots
      OBVIOUS
    <3>2. content \in Seq([obj : Objects, len : Nat]) /\ Len(content) <= Slots
      BY <3>1
    <3> QED BY <3>2
  <2>3. ASSUME NEW k \in 1 .. Len(content) PROVE content[k] \in Entry
    <3>1. PICK R : R = [obj : Objects, len : Nat]
      OBVIOUS
    <3>2. content \in Seq(R)
      BY <2>2, <3>1
    <3>3. content[k] \in R
      BY <3>2, ElementOfSeq
    <3> QED BY <3>1, <3>3 DEF Entry
  <2>4. Empty \in Entry
    BY DEF Empty, Entry
  <2>5. [k \in Slot |-> IF k <= Len(content) THEN content[k] ELSE Empty] \in [Slot -> Entry]
    BY <2>2, <2>3, <2>4 DEF Slot
  <2>6. (IF kind = "fixed" THEN Slots ELSE Len(content)) \in 0 .. Slots
    BY <2>2
  <2> QED BY <2>1, <2>5, <2>6 DEF DeviceTypes
<1>2. MapInv
  <2>1. CASE left.calls # 0
    <3>1. map = <<>> /\ length = TotalBefore(map, Len(map) + 1)
      BY <2>1 DEF Init
    <3>2. map = <<>> /\ length = 0
      BY <3>1, EmptyMap DEF Total
    <3> QED BY <3>2, EmptyMap DEF MapInv
  <2>2. CASE left.calls = 0
    <3>1. PICK r : r = Real(SubSeq(device.entries, 1, device.count))
      OBVIOUS
    <3>2. map = Placed(r) /\ length = Total(map)
      BY <2>2, <3>1 DEF Init, Setup, Total
    <3>3. device.count \in 0 .. Slots
      BY <1>1 DEF DeviceTypes
    <3>4. r \in Seq(Entry) /\ Len(r) <= Slots /\ \A i \in 1 .. Len(r) : r[i].len # 0
      <4>1. PICK q : q = SubSeq(device.entries, 1, device.count)
        OBVIOUS
      <4>2. q \in Seq(Entry) /\ Len(q) <= Slots
        BY <1>1, <3>3, <4>1, FirstEntries
      <4>3. Real(q) \in Seq(Entry) /\ Len(Real(q)) <= Len(q) /\ \A i \in 1 .. Len(Real(q)) : Real(q)[i].len # 0
        BY <4>2, RealTypes
      <4> QED BY <3>1, <4>1, <4>2, <4>3
    <3>5. Real(r) = r
      BY <3>4, RealOfReal
    <3> QED BY <3>2, <3>4, <3>5, PlacedOfReal DEF MapInv
  <2> QED BY <2>1, <2>2
<1>3. app = [op |-> "none", outcome |-> "none", todo |-> <<>>, stale |-> TRUE, good |-> InEffect]
  BY DEF Init, Idle
<1>4. AppShape
  <2>1. \/ conf = [cob |-> device.cob, enabled |-> device.valid, trans |-> device.trans, timer |-> None]
        \/ conf = [cob |-> None, enabled |-> FALSE, trans |-> None, timer |-> None]
    BY DEF Init
  <2>2. device.valid \in BOOLEAN
    BY <1>1 DEF DeviceTypes
  <2>3. conf = [cob |-> conf.cob, enabled |-> conf.enabled, trans |-> conf.trans, timer |-> conf.timer]
    BY <2>1
  <2>4. conf.enabled \in BOOLEAN
    <3>1. conf.enabled = device.valid \/ conf.enabled = FALSE
      BY <2>1
    <3> QED BY Zenon, <2>2, <3>1
  <2>5. /\ app = [op |-> app.op, outcome |-> app.outcome, todo |-> app.todo,
                  stale |-> app.stale, good |-> app.good]
        /\ app.op = "none" /\ app.todo = <<>>
    BY <1>3
  <2> QED BY <2>3, <2>4, <2>5 DEF AppShape, Doing
<1>5. SaveInv /\ ReadInv /\ AgreeAfterSuccess
  BY <1>3 DEF SaveInv, ReadInv, AgreeAfterSuccess, Doing
<1>6. GoodInv
  BY <1>3 DEF GoodInv, InEffect
<1> QED BY <1>1, <1>2, <1>4, <1>5, <1>6 DEF SetupInv

\* The fields of conf.
ConfShape ==
  /\ conf = [cob |-> conf.cob, enabled |-> conf.enabled, trans |-> conf.trans, timer |-> conf.timer]
  /\ conf.enabled \in BOOLEAN

\* A map that is not changed stays packed.
LEMMA MapSame ==
  ASSUME MapInv, UNCHANGED <<map, length>>
  PROVE  MapInv'
BY DEF MapInv

\* A device that is not changed keeps its types.
LEMMA DeviceSame ==
  ASSUME DeviceTypes, UNCHANGED <<device, kind>>
  PROVE  DeviceTypes'
BY DEF DeviceTypes

\* Steps that change neither the map's setup, nor the device, nor the call.
LEMMA UseKeeps ==
  ASSUME SetupInv, UNCHANGED <<map, length, conf, device, kind, app>>, subscribed \subseteq subscribed'
  PROVE  SetupInv'
<1>1. DeviceTypes' /\ MapInv'
  BY MapSame, DeviceSame DEF SetupInv
<1>2. AppShape'
  BY DEF SetupInv, AppShape, Doing
<1>3. SaveInv'
  <2>1. Intended' = Intended
    BY DEF Intended
  <2>2. Opening => Opening'
    <3>1. FirstWrite' = FirstWrite /\ Transfer' = Transfer /\ OpeningWrites' = OpeningWrites
      BY DEF FirstWrite, Transfer, OpeningWrites, SetWrites
    <3>2. UNCHANGED <<conf, device, app>>
      OBVIOUS
    <3> QED BY <3>1, <3>2 DEF Opening, SetOrLeft
  <2>3. Prepared => Prepared'
    BY DEF Prepared
  <2>4. \A k : WrittenUpTo(k) => WrittenUpTo(k)'
    BY DEF WrittenUpTo, ToWrite
  <2>5. WholeMap => WholeMap'
    BY DEF WholeMap
  <2>6. UNCHANGED <<conf, app, map>>
    OBVIOUS
  <2> QED BY <2>1, <2>2, <2>3, <2>4, <2>5, <2>6 DEF SetupInv, SaveInv, Doing
<1>4. ReadInv'
  BY DEF SetupInv, ReadInv, ReadStage, Doing, HasCob, HasTrans, ToRead, ReadSoFar
<1>5. GoodInv'
  BY DEF SetupInv, GoodInv, Setup
<1>6. AgreeAfterSuccess'
  BY DEF SetupInv, AgreeAfterSuccess, Setup
<1> QED BY <1>1, <1>2, <1>3, <1>4, <1>5, <1>6 DEF SetupInv

\* Steps of the application that change the map's setup, between calls.
LEMMA EditKeeps ==
  ASSUME SetupInv, UNCHANGED <<device, kind>>, MapInv', ConfShape',
         app' = [op |-> "none", outcome |-> app.outcome, todo |-> <<>>, stale |-> TRUE,
                 good |-> app.good]
  PROVE  SetupInv'
<1>1. /\ app'.op = "none" /\ app'.todo = <<>> /\ app'.stale = TRUE /\ app'.good = app.good
      /\ app' = [op |-> app'.op, outcome |-> app'.outcome, todo |-> app'.todo,
                 stale |-> app'.stale, good |-> app'.good]
  OBVIOUS
<1>2. DeviceTypes'
  BY DeviceSame DEF SetupInv
<1>3. AppShape'
  BY <1>1 DEF AppShape, ConfShape, Doing
<1>4. SaveInv' /\ ReadInv' /\ AgreeAfterSuccess'
  BY <1>1 DEF SaveInv, ReadInv, AgreeAfterSuccess, Doing
<1>5. GoodInv'
  BY <1>1 DEF SetupInv, GoodInv, Setup
<1> QED BY <1>2, <1>3, <1>4, <1>5 DEF SetupInv

\* After an exception only what is in effect on the device counts.
LEMMA RaisesKeeps ==
  ASSUME SetupInv, app.op # "none", Raises, DeviceTypes', MapInv', ConfShape', GoodInv'
  PROVE  SetupInv'
<1>1. app' = [op |-> "none", outcome |-> "raised", todo |-> <<>>, stale |-> TRUE, good |-> app.good]
  BY DEF SetupInv, AppShape, Doing, Raises
<1>2. AppShape'
  BY <1>1 DEF AppShape, ConfShape, Doing
<1>3. SaveInv' /\ ReadInv' /\ AgreeAfterSuccess'
  BY <1>1 DEF SaveInv, ReadInv, AgreeAfterSuccess, Doing
<1> QED BY <1>2, <1>3 DEF SetupInv

\* The PDO in effect stays a good one if the device is not changed.
LEMMA GoodStays ==
  ASSUME GoodInv, UNCHANGED device, app'.good = app.good
  PROVE  GoodInv'
BY DEF GoodInv, Setup

\* clear, add_variable, and attributes that are set.
LEMMA EditSteps ==
  ASSUME SetupInv,
         \/ Clear \/ \E obj \in Objects, len \in Lengths : AddVariable(obj, len)
         \/ \E new \in Confs : Configure(new)
  PROVE  SetupInv'
<1>1. /\ app.op = "none" /\ app' = [app EXCEPT !.stale = TRUE] /\ UNCHANGED <<device, kind>>
  BY DEF Clear, AddVariable, Configure, Edit
<1>2. MapInv' /\ ConfShape'
  <2>1. CASE Clear
    BY <2>1, MapCleared DEF Clear, ConfShape, SetupInv, AppShape
  <2>2. CASE \E obj \in Objects, len \in Lengths : AddVariable(obj, len)
    <3>1. PICK obj \in Objects, len \in Lengths : AddVariable(obj, len)
      BY <2>2
    <3>2. len \in Nat
      BY SetupAssumption
    <3>3. Len(map) < Slots /\ Added(obj, len) /\ UNCHANGED conf
      BY <3>1 DEF AddVariable
    <3> QED BY <3>2, <3>3, MapAdded DEF SetupInv, AppShape, ConfShape
  <2>3. CASE \E new \in Confs : Configure(new)
    <3>1. PICK new \in Confs : Configure(new)
      BY <2>3
    <3>2. conf' = new /\ UNCHANGED <<map, length>>
      BY <3>1 DEF Configure
    <3> QED BY <3>2, MapSame DEF SetupInv, Confs, ConfShape
  <2> QED BY <2>1, <2>2, <2>3
<1>3. app' = [op |-> "none", outcome |-> app.outcome, todo |-> <<>>, stale |-> TRUE,
              good |-> app.good]
  BY <1>1 DEF SetupInv, AppShape, Doing
<1> QED BY <1>1, <1>2, <1>3, EditKeeps

\* A read begins.
LEMMA ReadBegins ==
  ASSUME SetupInv, Read
  PROVE  SetupInv'
<1>1. /\ UNCHANGED <<map, length, conf, subscribed, device, kind>>
      /\ app' = [op |-> "read", outcome |-> "running",
                 todo |-> <<ReadOf("cob", 0), ReadOf("trans", 0)>>, stale |-> TRUE, good |-> app.good]
  BY DEF Read, Begin, confVars
<1>2. DeviceTypes' /\ MapInv' /\ GoodInv'
  BY <1>1, DeviceSame, MapSame, GoodStays DEF SetupInv
<1>3. AppShape'
  BY <1>1 DEF SetupInv, AppShape, Doing
<1>4. SaveInv' /\ ReadInv' /\ AgreeAfterSuccess'
  BY <1>1 DEF SaveInv, ReadInv, ReadStage, AgreeAfterSuccess, Doing
<1> QED BY <1>2, <1>3, <1>4 DEF SetupInv

\* A save begins: the writes that make the PDO invalid come first, the one of the zero last.
LEMMA SaveBegins ==
  ASSUME SetupInv, Save
  PROVE  SetupInv'
<1>1. PICK todo : todo = <<FirstWrite>> \o ParameterWrites \o <<Write("zero", 0)>>
  OBVIOUS
<1>2. /\ UNCHANGED <<map, length, conf, subscribed, device, kind>>
      /\ app' = [op |-> "save", outcome |-> "running", todo |-> todo, stale |-> TRUE,
                 good |-> InEffect \cup {Intended}]
      /\ conf.cob # None
  BY <1>1 DEF Save, Begin, confVars
<1>3. DeviceTypes' /\ MapInv'
  BY <1>2, DeviceSame, MapSame DEF SetupInv
<1>4. GoodInv'
  BY <1>2 DEF GoodInv, InEffect, Setup
<1>5. todo # <<>> /\ Opening'
  <2>1. PICK f, t, m, z : /\ f = FirstWrite /\ t = Write("trans", conf.trans)
                          /\ m = Write("timer", conf.timer) /\ z = Write("zero", 0)
    OBVIOUS
  <2>2. f # z /\ t # f /\ m # f /\ t # z /\ m # z
    BY <2>1 DEF FirstWrite, Write
  <2>3. PICK p : p = ParameterWrites
    OBVIOUS
  <2>4. p = (IF conf.trans = None THEN <<>> ELSE <<t>>)
              \o (IF conf.timer = None THEN <<>> ELSE <<m>>)
    BY <2>1, <2>3 DEF ParameterWrites, WriteIfSet
  <2>5. app'.todo = todo /\ UNCHANGED <<conf, device>>
    BY <1>2
  <2>6. /\ FirstWrite' = f /\ Write("trans", conf'.trans) = t
        /\ Write("timer", conf'.timer) = m /\ Write("zero", 0) = z
    BY <2>1, <2>5 DEF FirstWrite
  <2>7. PICK P : P = {w \in {t, m} : w.value # None}
    OBVIOUS
  <2>8. /\ p \in Seq(P)
        /\ conf.trans = None \/ \E i \in 1 .. Len(p) : p[i] = t
        /\ conf.timer = None \/ \E i \in 1 .. Len(p) : p[i] = m
    <3>1. PICK a : a = IF conf.trans = None THEN <<>> ELSE <<t>>
      OBVIOUS
    <3>2. PICK b : b = IF conf.timer = None THEN <<>> ELSE <<m>>
      OBVIOUS
    <3>3. a \in Seq(P) /\ b \in Seq(P)
      <4>1. t.value = conf.trans /\ m.value = conf.timer
        BY <2>1 DEF Write
      <4>2. (conf.trans # None => t \in P) /\ (conf.timer # None => m \in P)
        BY <2>7, <4>1
      <4>3. (a = <<>> \/ (a = <<t>> /\ t \in P)) /\ (b = <<>> \/ (b = <<m>> /\ m \in P))
        BY <3>1, <3>2, <4>2
      <4>4. <<>> \in Seq(P) /\ (t \in P => <<t>> \in Seq(P)) /\ (m \in P => <<m>> \in Seq(P))
        OBVIOUS
      <4> QED BY <4>3, <4>4
    <3>4. p = a \o b
      BY <2>4, <3>1, <3>2
    <3>5. p \in Seq(P) /\ Len(p) = Len(a) + Len(b)
      BY <3>3, <3>4, ConcatProperties
    <3>6. /\ \A i \in 1 .. Len(a) : p[i] = a[i]
          /\ Len(b) = 1 => p[Len(a) + 1] = b[1]
      BY <3>3, <3>4, ConcatProperties
    <3>7. conf.trans # None => Len(a) = 1 /\ a[1] = t
      BY <3>1
    <3>8. conf.timer # None => Len(b) = 1 /\ b[1] = m
      BY <3>2
    <3>9. conf.trans # None => 1 \in 1 .. Len(p) /\ p[1] = t
      BY <3>3, <3>5, <3>6, <3>7
    <3>10. conf.timer # None => Len(a) + 1 \in 1 .. Len(p) /\ p[Len(a) + 1] = m
      BY <3>3, <3>5, <3>6, <3>8
    <3> QED BY <3>5, <3>9, <3>10
  <2>9. PICK S : S = {f, z} \cup P
    OBVIOUS
  <2>10. p \in Seq(S) /\ <<f>> \in Seq(S) /\ <<z>> \in Seq(S)
    <3>1. P \subseteq S /\ f \in S /\ z \in S
      BY <2>9
    <3> QED BY <2>8, <3>1
  <2>11. todo = (<<f>> \o p) \o <<z>>
    BY <1>1, <2>1, <2>3
  <2>12. /\ <<f>> \o p \in Seq(S) /\ Len(<<f>> \o p) = Len(p) + 1 /\ (<<f>> \o p)[1] = f
         /\ \A i \in 1 .. Len(p) : (<<f>> \o p)[i + 1] = p[i]
    BY <2>10, ConcatProperties
  <2>13. /\ todo \in Seq(S) /\ Len(todo) = Len(p) + 2 /\ todo[1] = f /\ todo[Len(p) + 2] = z
         /\ \A i \in 1 .. Len(p) : todo[i + 1] = p[i]
    <3>1. PICK q : q = <<f>> \o p
      OBVIOUS
    <3>2. /\ q \in Seq(S) /\ Len(q) = Len(p) + 1 /\ q[1] = f
          /\ \A i \in 1 .. Len(p) : q[i + 1] = p[i]
      BY <2>12, <3>1
    <3>3. /\ todo \in Seq(S) /\ Len(todo) = Len(q) + 1
          /\ \A i \in 1 .. Len(q) : todo[i] = q[i]
          /\ todo[Len(q) + 1] = z
      BY <2>10, <2>11, <3>1, <3>2, ConcatProperties
    <3> QED BY <2>10, <3>2, <3>3
  <2>14. todo # <<>> /\ Head(todo) = f
    BY <2>10, <2>13
  <2>15. todo \in Seq({f, z} \cup P)
    BY <2>9, <2>13
  <2>16. \A i \in DOMAIN todo : (todo[i] = f => i = 1) /\ (todo[i] = z <=> i = Len(todo))
    <3> SUFFICES ASSUME NEW i \in 1 .. Len(todo)
                 PROVE (todo[i] = f => i = 1) /\ (todo[i] = z <=> i = Len(todo))
      BY <2>13
    <3>1. CASE i = 1
      BY <2>2, <2>10, <2>13, <3>1
    <3>2. CASE i = Len(todo)
      BY <2>2, <2>10, <2>13, <3>2
    <3>3. CASE i # 1 /\ i # Len(todo)
      <4>1. i - 1 \in 1 .. Len(p) /\ (i - 1) + 1 = i
        BY <2>10, <2>13, <3>3
      <4>2. todo[i] = p[i - 1]
        BY <2>13, <4>1
      <4>3. p[i - 1] \in {t, m}
        <5>1. p[i - 1] \in P
          BY <2>8, <4>1, ElementOfSeq
        <5> QED BY <2>7, <5>1
      <4> QED BY <2>2, <3>3, <4>2, <4>3
    <3> QED BY <3>1, <3>2, <3>3
  <2>17. /\ conf.trans = None \/ \E i \in DOMAIN todo : todo[i] = t
         /\ conf.timer = None \/ \E i \in DOMAIN todo : todo[i] = m
    <3>1. \A i \in 1 .. Len(p) : i + 1 \in DOMAIN todo /\ todo[i + 1] = p[i]
      BY <2>10, <2>13
    <3> QED BY <2>8, <3>1
  <2>18. (app.todo \in Seq(OpeningWrites))'
    <3>1. SetWrites' = P
      BY <2>5, <2>6, <2>7 DEF SetWrites
    <3>2. OpeningWrites' = {f, z} \cup P
      BY <2>6, <3>1 DEF OpeningWrites
    <3> QED BY <2>5, <2>15, <3>2
  <2>19. (Transfer = FirstWrite)'
    BY <2>5, <2>6, <2>14 DEF Transfer
  <2>20. /\ SetOrLeft("trans", conf.trans, device.trans)'
         /\ SetOrLeft("timer", conf.timer, device.timer)'
    BY <2>1, <2>5, <2>17 DEF SetOrLeft
  <2> QED BY <2>5, <2>6, <2>14, <2>16, <2>18, <2>19, <2>20 DEF Opening
<1>6. AppShape'
  BY <1>2, <1>5 DEF SetupInv, AppShape, Doing
<1>7. SaveInv'
  <2>1. Intended' = Intended
    BY <1>2 DEF Intended
  <2> QED BY <1>2, <1>5, <2>1 DEF SaveInv
<1>8. ReadInv' /\ AgreeAfterSuccess'
  BY <1>2 DEF ReadInv, AgreeAfterSuccess, Doing
<1> QED BY <1>3, <1>4, <1>6, <1>7, <1>8 DEF SetupInv

-----------------------------------------------------------------------------
\* save.

\* What a step does to the call.
LEMMA CallSteps ==
  ASSUME AppShape
  PROVE  /\ \A todo : Left(todo) =>
              app' = [op |-> app.op, outcome |-> app.outcome, todo |-> todo,
                      stale |-> app.stale, good |-> app.good]
         /\ Ended => app' = [op |-> "none", outcome |-> app.op, todo |-> <<>>,
                             stale |-> FALSE, good |-> app.good]
         /\ Raises => app' = [op |-> "none", outcome |-> "raised", todo |-> <<>>,
                              stale |-> app.stale, good |-> app.good]
BY DEF AppShape, Left, Ended, Raises

\* What each write does to the device.
LEMMA DeviceSteps ==
  ASSUME DeviceTypes, NEW t
  PROVE  /\ t.what \in {"disable", "enable"} =>
              Written(t) = [cob |-> t.value, valid |-> t.what = "enable", trans |-> device.trans,
                timer |-> device.timer, count |-> device.count, entries |-> device.entries]
         /\ t.what = "trans" =>
              Written(t) = [cob |-> device.cob, valid |-> device.valid, trans |-> t.value,
                timer |-> device.timer, count |-> device.count, entries |-> device.entries]
         /\ t.what = "timer" =>
              Written(t) = [cob |-> device.cob, valid |-> device.valid, trans |-> device.trans,
                timer |-> t.value, count |-> device.count, entries |-> device.entries]
         /\ t.what \in {"zero", "count"} =>
              Written(t) = [cob |-> device.cob, valid |-> device.valid, trans |-> device.trans,
                timer |-> device.timer, count |-> t.value, entries |-> device.entries]
         /\ t.what = "entry" =>
              Written(t) = [cob |-> device.cob, valid |-> device.valid, trans |-> device.trans,
                timer |-> device.timer, count |-> device.count,
                entries |-> [device.entries EXCEPT ![t.slot] = t.value]]
         /\ t.what = "size" => Written(t) = device
<1>1. device = [cob |-> device.cob, valid |-> device.valid, trans |-> device.trans,
               timer |-> device.timer, count |-> device.count, entries |-> device.entries]
  BY DEF DeviceTypes
<1>2. CASE t.what = "disable"
  <2>1. Written(t) = [device EXCEPT !.cob = t.value, !.valid = FALSE]
    BY <1>2 DEF Written
  <2> QED BY <1>1, <1>2, <2>1
<1>3. CASE t.what = "enable"
  <2>1. Written(t) = [device EXCEPT !.cob = t.value, !.valid = TRUE]
    BY <1>3 DEF Written
  <2> QED BY <1>1, <1>3, <2>1
<1>4. CASE t.what = "trans"
  <2>1. Written(t) = [device EXCEPT !.trans = t.value]
    BY <1>4 DEF Written
  <2> QED BY <1>1, <1>4, <2>1
<1>5. CASE t.what = "timer"
  <2>1. Written(t) = [device EXCEPT !.timer = t.value]
    BY <1>5 DEF Written
  <2> QED BY <1>1, <1>5, <2>1
<1>6. CASE t.what \in {"zero", "count"}
  <2>1. Written(t) = [device EXCEPT !.count = t.value]
    BY <1>6 DEF Written
  <2> QED BY <1>1, <1>6, <2>1
<1>7. CASE t.what = "entry"
  <2>1. Written(t) = [device EXCEPT !.entries[t.slot] = t.value]
    BY <1>7 DEF Written
  <2> QED BY <1>1, <1>7, <2>1
<1>8. CASE t.what = "size"
  BY <1>8 DEF Written
<1> QED BY <1>2, <1>3, <1>4, <1>5, <1>6, <1>7, <1>8

\* A save that goes on, on a device whose PDO it has made invalid.
LEMMA SaveProceeds ==
  ASSUME SetupInv, app.op = "save", NEW todo, todo # <<>>, Left(todo), UNCHANGED conf,
         DeviceTypes', MapInv', ~device'.valid, Intended' = Intended,
         \/ Opening'
         \/ Prepared' /\ \/ todo = <<ReadOf("size", 0)>>
                         \/ \E k \in 0 .. Len(map') : WrittenUpTo(k)'
                         \/ todo = <<Write("enable", conf.cob)>> /\ WholeMap' /\ conf.enabled
  PROVE  SetupInv'
<1>1. app' = [op |-> "save", outcome |-> app.outcome, todo |-> todo, stale |-> TRUE,
              good |-> app.good]
  BY CallSteps DEF SetupInv, AppShape, Doing
<1>2. AppShape'
  BY <1>1 DEF SetupInv, AppShape, Doing
<1>3. SaveInv'
  <2>1. Doing("save") /\ conf.cob # None /\ Intended \in app.good
    BY DEF SetupInv, SaveInv, Doing
  <2> QED BY <1>1, <2>1 DEF SaveInv
<1>4. ReadInv' /\ AgreeAfterSuccess' /\ GoodInv'
  BY <1>1 DEF ReadInv, AgreeAfterSuccess, GoodInv, Doing
<1> QED BY <1>2, <1>3, <1>4 DEF SetupInv

\* A save that returns leaves the map and the device in agreement.
LEMMA SaveEnds ==
  ASSUME SetupInv, app.op = "save", Ended, UNCHANGED <<map, conf>>, DeviceTypes', MapInv',
         device'.cob = conf.cob, device'.valid = conf.enabled,
         conf.trans \in {None, device'.trans}, conf.timer \in {None, device'.timer},
         WholeMap', GoodInv', conf.enabled => conf.cob \in subscribed'
  PROVE  SetupInv'
<1>1. app' = [op |-> "none", outcome |-> "save", todo |-> <<>>, stale |-> FALSE, good |-> app.good]
  BY CallSteps DEF SetupInv
<1>2. AppShape'
  BY <1>1 DEF SetupInv, AppShape, Doing
<1>3. SaveInv' /\ ReadInv'
  BY <1>1 DEF SaveInv, ReadInv, Doing
<1>4. AgreeAfterSuccess'
  <2>1. Setup(device').map = Real(Entries(map'))
    BY DEF Setup, WholeMap
  <2>2. Real(map') = Placed(Setup(device').map)
    BY <2>1 DEF MapInv
  <2> QED BY <2>2 DEF AgreeAfterSuccess
<1> QED BY <1>2, <1>3, <1>4 DEF SetupInv

\* The writes of a mapping: entry by entry, and the count at the end.
LEMMA EntryWritesAre ==
  ASSUME NEW m \in Seq(Mapped)
  PROVE  /\ Len(EntryWrites(m)) = Len(m) + 1
         /\ \A i \in 1 .. Len(m) : EntryWrites(m)[i] = WriteEntry(i, Entries(m)[i])
         /\ EntryWrites(m)[Len(m) + 1] = Write("count", Len(m))
         /\ EntryWrites(m) = ToWrite(m, 0)
<1>1. PICK n \in Nat : n = Len(m)
  OBVIOUS
<1>2. PICK e, c : /\ e = [k \in 1 .. n |-> WriteEntry(k, Entries(m)[k])]
                  /\ c = Write("count", Len(m))
  OBVIOUS
<1>3. PICK S : S = {e[k] : k \in 1 .. n} \cup {c}
  OBVIOUS
<1>4. e \in Seq(S) /\ Len(e) = n /\ <<c>> \in Seq(S)
  <2>1. e \in [1 .. n -> S]
    BY <1>2, <1>3
  <2> QED BY <1>2, <1>3, <2>1
<1>5. PICK w : w = EntryWrites(m)
  OBVIOUS
<1>6. w = e \o <<c>>
  <2>1. DOMAIN m = 1 .. n
    BY <1>1
  <2> QED BY <1>1, <1>2, <1>5, <2>1 DEF EntryWrites
<1>7. /\ w \in Seq(S) /\ Len(w) = n + 1 /\ w[n + 1] = c
      /\ \A i \in 1 .. n : w[i] = e[i]
  <2>1. PICK d : d = <<c>>
    OBVIOUS
  <2>2. d \in Seq(S) /\ Len(d) = 1 /\ d[1] = c
    BY <1>4, <2>1
  <2>3. /\ w \in Seq(S) /\ Len(w) = n + 1
        /\ \A i \in 1 .. n + 1 : w[i] = IF i <= n THEN e[i] ELSE d[i - n]
    BY <1>4, <1>6, <2>1, <2>2, ConcatProperties
  <2>4. n + 1 \in 1 .. n + 1 /\ ~(n + 1 <= n) /\ (n + 1) - n = 1
    OBVIOUS
  <2> QED BY <2>2, <2>3, <2>4
<1>8. w = [i \in 1 .. n + 1 |-> w[i]]
  BY <1>7
<1>9. ToWrite(m, 0) = [i \in 1 .. n + 1 |-> w[i]]
  <2>1. 1 .. n + 1 - 0 = 1 .. n + 1 /\ \A i \in 1 .. n + 1 : 0 + i = i
    OBVIOUS
  <2> QED BY <1>1, <1>5, <2>1 DEF ToWrite
<1> QED BY <1>1, <1>2, <1>5, <1>7, <1>8, <1>9

\* What is left of them after the first k: the next one, and what is left after it.
LEMMA ToWriteIs ==
  ASSUME NEW m \in Seq(Mapped), NEW k \in 0 .. Len(m)
  PROVE  /\ ToWrite(m, k) # <<>> /\ Len(ToWrite(m, k)) = Len(m) + 1 - k
         /\ Head(ToWrite(m, k)) = IF k < Len(m) THEN WriteEntry(k + 1, Entries(m)[k + 1])
                               ELSE Write("count", Len(m))
         /\ k < Len(m) => Tail(ToWrite(m, k)) = ToWrite(m, k + 1)
<1>1. PICK n \in Nat : n = Len(m)
  OBVIOUS
<1>2. PICK w : w = EntryWrites(m)
  OBVIOUS
<1>3. PICK t : t = ToWrite(m, k)
  OBVIOUS
<1>4. t = [i \in 1 .. n + 1 - k |-> w[k + i]]
  BY <1>1, <1>2, <1>3 DEF ToWrite
<1>5. PICK S : S = {w[k + i] : i \in 1 .. n + 1 - k}
  OBVIOUS
<1>6. k \in Nat /\ k <= n /\ n + 1 - k \in Nat /\ n + 1 - k >= 1
  BY <1>1
<1>7. t \in Seq(S) /\ Len(t) = n + 1 - k /\ t # <<>> /\ Head(t) = w[k + 1]
  <2>1. t \in [1 .. n + 1 - k -> S]
    BY <1>4, <1>5
  <2>2. t \in Seq(S) /\ Len(t) = n + 1 - k
    BY <1>6, <2>1
  <2>3. t # <<>> /\ Head(t) = t[1] /\ 1 \in 1 .. n + 1 - k
    BY <1>6, <2>2
  <2>4. t[1] = w[k + 1]
    BY <1>4, <2>3
  <2> QED BY <2>2, <2>3, <2>4
<1>8. Head(t) = IF k < n THEN WriteEntry(k + 1, Entries(m)[k + 1]) ELSE Write("count", Len(m))
  <2>1. CASE k < n
    <3>1. k + 1 \in 1 .. Len(m)
      BY <1>1, <1>6, <2>1
    <3>2. w[k + 1] = WriteEntry(k + 1, Entries(m)[k + 1])
      BY <1>2, <3>1, EntryWritesAre
    <3> QED BY <1>7, <2>1, <3>2
  <2>2. CASE k = n
    BY <1>1, <1>2, <1>7, <2>2, EntryWritesAre
  <2> QED BY <1>6, <2>1, <2>2
<1>9. ASSUME k < n PROVE Tail(t) = ToWrite(m, k + 1)
  <2>1. Tail(t) = [i \in 1 .. Len(t) - 1 |-> t[i + 1]]
    <3>1. PICK r : r = Tail(t)
      OBVIOUS
    <3>2. /\ r \in Seq(S) /\ Len(r) = Len(t) - 1
          /\ \A i \in 1 .. Len(r) : r[i] = t[i + 1]
      BY <1>7, <3>1, HeadTailProperties
    <3>3. r = [i \in 1 .. Len(r) |-> r[i]]
      BY <3>2
    <3>4. r = [i \in 1 .. Len(t) - 1 |-> r[i]]
      BY <3>2, <3>3
    <3>5. \A i \in 1 .. Len(t) - 1 : r[i] = t[i + 1]
      BY <3>2
    <3> QED BY <3>1, <3>4, <3>5
  <2>2. Len(t) - 1 = n + 1 - (k + 1)
    BY <1>6, <1>7
  <2>3. ASSUME NEW i \in 1 .. Len(t) - 1 PROVE t[i + 1] = w[(k + 1) + i]
    <3>1. i + 1 \in 1 .. n + 1 - k /\ k + (i + 1) = (k + 1) + i
      BY <1>6, <1>7
    <3> QED BY <1>4, <3>1
  <2>4. Tail(t) = [i \in 1 .. n + 1 - (k + 1) |-> w[(k + 1) + i]]
    BY <2>1, <2>2, <2>3
  <2> QED BY <1>1, <1>2, <2>4 DEF ToWrite
<1> QED BY <1>1, <1>3, <1>7, <1>8, <1>9

\* A save is in one of six stages.
LEMMA SaveStages ==
  ASSUME SetupInv, app.op = "save"
  PROVE  \/ AtOpening \/ AtZero \/ AtSize
         \/ (\E k \in 0 .. Len(map) - 1 : AtEntry(k))
         \/ AtCount \/ AtEnable
<1>1. app.todo # <<>> /\ MapInv /\ map \in Seq(Mapped)
  BY DEF SetupInv, AppShape, Doing, MapInv
<1>2. \/ Opening
      \/ Prepared /\ \/ app.todo = <<ReadOf("size", 0)>>
                     \/ \E k \in 0 .. Len(map) : WrittenUpTo(k)
                     \/ app.todo = <<Write("enable", conf.cob)>> /\ WholeMap /\ conf.enabled
  BY DEF SetupInv, SaveInv, Doing
<1>3. CASE Opening
  <2>1. PICK s : s = app.todo
    OBVIOUS
  <2>2. s \in Seq(OpeningWrites) /\ s # <<>> /\ Transfer = s[1] /\ DOMAIN s = 1 .. Len(s)
    BY <1>1, <1>3, <2>1 DEF Opening, Transfer
  <2>3. PICK n \in Nat : n = Len(s) /\ n > 0
    <3>1. Len(s) \in Nat /\ Len(s) # 0
      BY <2>2
    <3>2. PICK n : n = Len(s)
      OBVIOUS
    <3>3. n \in Nat /\ n # 0
      BY <3>1, <3>2
    <3> QED BY <3>2, <3>3
  <2>4. 1 \in DOMAIN s
    BY <2>2, <2>3
  <2>5. Transfer = Write("zero", 0) <=> 1 = n
    BY <1>3, <2>1, <2>2, <2>4, <2>3 DEF Opening
  <2>6. Transfer \in OpeningWrites
    BY <2>2, <2>4, ElementOfSeq
  <2>7. CASE n > 1
    <3>1. Transfer = FirstWrite \/ (~device.valid /\ Transfer \in SetWrites)
      <4>1. Transfer # Write("zero", 0)
        BY <2>5, <2>7
      <4>2. Transfer = FirstWrite \/ Transfer \in SetWrites
        BY <2>6, <4>1 DEF OpeningWrites
      <4>3. Transfer = FirstWrite \/ ~device.valid
        BY <1>3 DEF Opening
      <4> QED BY <4>2, <4>3
    <3> QED BY <1>3, <2>1, <2>7, <2>3, <3>1 DEF AtOpening
  <2>8. CASE n = 1
    <3>1. Transfer = Write("zero", 0)
      BY <2>5, <2>8
    <3>2. ~device.valid /\ device.cob = conf.cob
      BY <1>3, <3>1 DEF Opening, FirstWrite, Write
    <3>3. DOMAIN app.todo = {1} /\ app.todo[1] = Write("zero", 0)
      <4>1. DOMAIN s = 1 .. n
        BY <2>2, <2>3
      <4>2. DOMAIN s = {1}
        BY <2>8, <4>1
      <4> QED BY <2>1, <2>2, <3>1, <4>2
    <3>4. conf.trans \in {None, device.trans}
      BY <1>3, <3>3 DEF Opening, SetOrLeft, Write
    <3>5. conf.timer \in {None, device.timer}
      BY <1>3, <3>3 DEF Opening, SetOrLeft, Write
    <3> QED BY <1>3, <2>1, <2>8, <2>3, <3>1, <3>2, <3>4, <3>5 DEF AtZero, Prepared
  <2>9. n = 1 \/ n > 1
    BY <2>3
  <2> QED BY <2>7, <2>8, <2>9
<1>4. CASE Prepared /\ app.todo = <<ReadOf("size", 0)>>
  BY <1>4 DEF AtSize, Transfer
<1>5. CASE Prepared /\ \E k \in 0 .. Len(map) : WrittenUpTo(k)
  <2>1. PICK k \in 0 .. Len(map) : WrittenUpTo(k)
    BY <1>5
  <2>2. app.todo = ToWrite(map, k) /\ Len(map) \in Nat
    BY <1>1, <2>1 DEF WrittenUpTo, MapInv
  <2>3. CASE k < Len(map)
    <3>1. Len(app.todo) > 1 /\ k \in 0 .. Len(map) - 1
      BY <1>1, <2>2, <2>3, ToWriteIs
    <3>2. AtEntry(k)
      BY <1>1, <1>5, <2>1, <2>2, <2>3, <3>1, ToWriteIs DEF AtEntry, Transfer
    <3> QED BY <3>1, <3>2
  <2>4. CASE k = Len(map)
    <3>1. Len(app.todo) = 1
      <4>1. Len(app.todo) = Len(map) + 1 - k
        BY <1>1, <2>2, ToWriteIs
      <4> QED BY <2>2, <2>4, <4>1
    <3>2. Transfer = Write("count", Len(map))
      BY <1>1, <2>2, <2>4, ToWriteIs DEF Transfer
    <3> QED BY <1>5, <2>1, <2>4, <3>1, <3>2 DEF AtCount
  <2> QED BY <2>2, <2>3, <2>4
<1>6. CASE Prepared /\ app.todo = <<Write("enable", conf.cob)>> /\ WholeMap /\ conf.enabled
  BY <1>6 DEF AtEnable, Transfer
<1> QED BY <1>2, <1>3, <1>4, <1>5, <1>6

\* What a write of a save does to the device, whether its answer arrives or not: only the
\* last one puts the PDO into effect, with all that the save intends.
LEMMA SaveWrites ==
  ASSUME SetupInv, app.op = "save", Accepts(Transfer), device' = Written(Transfer),
         UNCHANGED <<kind, conf>>, Real(Entries(map')) = Real(Entries(map))
  PROVE  /\ DeviceTypes' /\ Intended' = Intended
         /\ device'.valid => AtEnable /\ Setup(device') \in app.good
<1> USE SetupAssumption
<1>1. DeviceTypes /\ MapInv /\ Intended \in app.good
  BY DEF SetupInv, SaveInv, Doing
<1>2. /\ kind' = kind /\ device.valid \in BOOLEAN /\ device.count \in 0 .. Slots
      /\ device.entries \in [Slot -> Entry] /\ (kind = "fixed" => device.count = Slots)
  BY <1>1 DEF DeviceTypes
<1>3. CASE AtOpening
  <2>1. CASE Transfer = FirstWrite
    <3>1. Transfer.what = "disable" /\ Transfer.value = conf.cob
      BY <2>1 DEF FirstWrite, Write
    <3>2. device' = [cob |-> conf.cob, valid |-> FALSE, trans |-> device.trans,
                     timer |-> device.timer, count |-> device.count, entries |-> device.entries]
      BY <1>1, <3>1, DeviceSteps
    <3> QED BY <1>2, <3>2 DEF DeviceTypes, Intended
  <2>2. CASE ~device.valid /\ Transfer = Write("trans", conf.trans) /\ conf.trans # None
    <3>1. Transfer.what = "trans" /\ Transfer.value = conf.trans
      BY <2>2 DEF Write
    <3>2. device' = [cob |-> device.cob, valid |-> device.valid, trans |-> conf.trans,
                     timer |-> device.timer, count |-> device.count, entries |-> device.entries]
      BY <1>1, <3>1, DeviceSteps
    <3> QED BY <1>2, <2>2, <3>2 DEF DeviceTypes, Intended
  <2>3. CASE ~device.valid /\ Transfer = Write("timer", conf.timer) /\ conf.timer # None
    <3>1. Transfer.what = "timer" /\ Transfer.value = conf.timer
      BY <2>3 DEF Write
    <3>2. device' = [cob |-> device.cob, valid |-> device.valid, trans |-> device.trans,
                     timer |-> conf.timer, count |-> device.count, entries |-> device.entries]
      BY <1>1, <3>1, DeviceSteps
    <3> QED BY <1>2, <2>3, <3>2 DEF DeviceTypes, Intended
  <2> QED BY <1>3, <2>1, <2>2, <2>3 DEF AtOpening, SetWrites, Write
<1>4. CASE AtZero
  <2>1. Transfer.what = "zero" /\ Transfer.value = 0 /\ ~device.valid
    BY <1>4 DEF AtZero, Prepared, Write
  <2>2. kind # "fixed"
    BY <2>1 DEF Accepts, ReadOnly
  <2>3. device' = [cob |-> device.cob, valid |-> device.valid, trans |-> device.trans,
                   timer |-> device.timer, count |-> 0, entries |-> device.entries]
    BY <1>1, <2>1, DeviceSteps
  <2> QED BY <1>2, <2>1, <2>2, <2>3 DEF DeviceTypes, Intended
<1>5. CASE AtSize
  <2>1. Transfer.what = "size" /\ ~device.valid
    BY <1>5 DEF AtSize, Prepared, ReadOf
  <2>2. device' = device
    BY <1>1, <2>1, DeviceSteps
  <2> QED BY <1>1, <2>1, <2>2, DeviceSame DEF Intended
<1>6. CASE \E k \in 0 .. Len(map) - 1 : AtEntry(k)
  <2>1. PICK k \in 0 .. Len(map) - 1 : AtEntry(k)
    BY <1>6
  <2>2. PICK e : e = Entries(map)[k + 1]
    OBVIOUS
  <2>3. k + 1 \in 1 .. Slots /\ e \in Entry
    <3>1. Len(map) \in Nat /\ Len(map) <= Slots /\ Slots \in Nat /\ map \in Seq(Mapped)
      BY <1>1 DEF MapInv
    <3>2. k + 1 \in 1 .. Len(map) /\ k + 1 \in 1 .. Slots
      BY <3>1
    <3>3. Entries(map) \in Seq(Entry) /\ Len(Entries(map)) = Len(map)
      BY <3>1, EntriesTypes
    <3> QED BY <2>2, <3>2, <3>3, ElementOfSeq
  <2>4. Transfer.what = "entry" /\ Transfer.slot = k + 1 /\ Transfer.value = e /\ ~device.valid
    BY <2>1, <2>2 DEF AtEntry, Prepared, WriteEntry
  <2>5. device' = [cob |-> device.cob, valid |-> device.valid, trans |-> device.trans,
                   timer |-> device.timer, count |-> device.count,
                   entries |-> [device.entries EXCEPT ![k + 1] = e]]
    BY <1>1, <2>4, DeviceSteps
  <2>6. [device.entries EXCEPT ![k + 1] = e] \in [Slot -> Entry]
    BY <1>2, <2>3 DEF Slot
  <2>7. DeviceTypes'
    BY <1>2, <2>5, <2>6 DEF DeviceTypes, Slot
  <2> QED BY <2>4, <2>5, <2>7 DEF Intended
<1>7. CASE AtCount
  <2>1. Transfer.what = "count" /\ Transfer.value = Len(map) /\ ~device.valid
    BY <1>7 DEF AtCount, Prepared, Write
  <2>2. kind # "fixed" /\ Len(map) \in 0 .. Slots
    BY <1>1, <2>1 DEF Accepts, ReadOnly, MapInv
  <2>3. device' = [cob |-> device.cob, valid |-> device.valid, trans |-> device.trans,
                   timer |-> device.timer, count |-> Len(map), entries |-> device.entries]
    BY <1>1, <2>1, DeviceSteps
  <2> QED BY <1>2, <2>1, <2>2, <2>3 DEF DeviceTypes, Intended
<1>8. CASE AtEnable
  <2>1. Transfer.what = "enable" /\ Transfer.value = conf.cob
    BY <1>8 DEF AtEnable, Write
  <2>2. device' = [cob |-> conf.cob, valid |-> TRUE, trans |-> device.trans,
                   timer |-> device.timer, count |-> device.count, entries |-> device.entries]
    BY <1>1, <2>1, DeviceSteps
  <2>3. Setup(device') = Intended
    <3>1. SubSeq(device'.entries, 1, device'.count) = Entries(map)
      BY <1>8, <2>2 DEF AtEnable, WholeMap
    <3>2. conf.trans \in {None, device.trans} /\ conf.timer \in {None, device.timer}
      BY <1>8 DEF AtEnable, Prepared
    <3>3. Intended = [cob |-> conf.cob, trans |-> device.trans, timer |-> device.timer,
                      map |-> Real(Entries(map))]
      BY <3>2 DEF Intended
    <3>4. device'.cob = conf.cob /\ device'.trans = device.trans /\ device'.timer = device.timer
      BY <2>2
    <3>5. Setup(device') = [cob |-> conf.cob, trans |-> device.trans, timer |-> device.timer,
                            map |-> Real(SubSeq(device'.entries, 1, device'.count))]
      BY <3>4 DEF Setup
    <3> QED BY <3>1, <3>3, <3>5
  <2> QED BY <1>1, <1>2, <1>8, <2>2, <2>3 DEF DeviceTypes, Intended
<1> QED BY <1>3, <1>4, <1>5, <1>6, <1>7, <1>8, SaveStages

\* No answer arrives, and the device may have done what was asked.
LEMMA LostKeeps ==
  ASSUME SetupInv, IsLost
  PROVE  SetupInv'
<1>1. /\ app.op # "none" /\ Raises /\ UNCHANGED <<map, length, conf, kind>>
      /\ \/ UNCHANGED device
         \/ app.op = "save" /\ Accepts(Transfer) /\ device' = Written(Transfer)
  BY DEF IsLost, Goes, confVars
<1>2. app'.good = app.good
  <2>1. AppShape
    BY DEF SetupInv
  <2> QED BY <1>1, <2>1, CallSteps
<1>3. MapInv' /\ ConfShape'
  BY <1>1, MapSame DEF SetupInv, AppShape, ConfShape
<1>4. DeviceTypes' /\ GoodInv'
  <2>1. CASE UNCHANGED device
    BY <1>1, <1>2, <2>1, DeviceSame, GoodStays DEF SetupInv
  <2>2. CASE app.op = "save" /\ Accepts(Transfer) /\ device' = Written(Transfer)
    BY <1>1, <1>2, <2>2, SaveWrites DEF GoodInv
  <2> QED BY <1>1, <2>1, <2>2
<1> QED BY <1>1, <1>3, <1>4, RaisesKeeps

\* A save goes on before the count is written.
LEMMA SaveOpens ==
  ASSUME SetupInv, app.op = "save", AtOpening, Accepts(Transfer), SaveGoesOn, UNCHANGED kind
  PROVE  SetupInv'
<1>1. /\ device' = Written(Transfer) /\ UNCHANGED <<map, length, conf>> /\ Left(Tail(app.todo))
  BY DEF SaveGoesOn, AtOpening, SetWrites, FirstWrite, Write
<1>2. /\ DeviceTypes' /\ Intended' = Intended /\ MapInv'
      /\ device'.valid => AtEnable
  BY <1>1, SaveWrites, MapSame DEF SetupInv
<1>3. ~device'.valid
  BY <1>2 DEF AtEnable, AtOpening, FirstWrite, SetWrites, Write
<1>4. PICK s : s = app.todo
  OBVIOUS
<1>5. PICK r : r = Tail(s)
  OBVIOUS
<1>6. PICK n \in Nat : n = Len(s) /\ n > 1
  <2>1. s \in Seq(OpeningWrites) /\ Len(s) > 1
    BY <1>4 DEF AtOpening, Opening
  <2>2. PICK m : m = Len(s)
    OBVIOUS
  <2>3. m \in Nat
    BY <2>1, <2>2
  <2> QED BY <2>1, <2>2, <2>3
<1>7. /\ s \in Seq(OpeningWrites) /\ DOMAIN s = 1 .. n /\ Transfer = s[1]
      /\ \A i \in 1 .. n : /\ s[i] = FirstWrite => i = 1
                           /\ s[i] = Write("zero", 0) <=> i = n
      /\ SetOrLeft("trans", conf.trans, device.trans)
      /\ SetOrLeft("timer", conf.timer, device.timer)
  <2>1. s \in Seq(OpeningWrites)
    BY <1>4 DEF AtOpening, Opening
  <2>2. DOMAIN s = 1 .. n
    BY <1>6, <2>1
  <2>3. s # <<>>
    BY <1>6
  <2>4. Transfer = s[1]
    BY <1>4, <2>1, <2>3 DEF Transfer
  <2> QED BY <1>4, <1>6, <2>1, <2>2, <2>4 DEF AtOpening, Opening
<1>8. /\ r \in Seq(OpeningWrites) /\ r # <<>> /\ DOMAIN r = 1 .. n - 1 /\ Len(r) = n - 1
      /\ \A i \in 1 .. n - 1 : r[i] = s[i + 1]
      /\ Head(r) = s[2]
  <2>1. s # <<>>
    BY <1>6
  <2>2. /\ r \in Seq(OpeningWrites) /\ Len(r) = n - 1
        /\ \A i \in 1 .. Len(r) : r[i] = s[i + 1]
    BY <1>5, <1>6, <1>7, <2>1, HeadTailProperties
  <2>3. DOMAIN r = 1 .. n - 1 /\ r # <<>>
    BY <1>6, <2>2
  <2>4. 1 \in 1 .. n - 1 /\ 1 + 1 = 2
    BY <1>6
  <2>5. Head(r) = r[1]
    BY <2>2, <2>3
  <2> QED BY <2>2, <2>3, <2>4, <2>5
<1>9. app' = [op |-> app.op, outcome |-> app.outcome, todo |-> r,
              stale |-> app.stale, good |-> app.good]
  BY <1>1, <1>4, <1>5, CallSteps DEF SetupInv
<1>10. Opening'
  <2>1. app'.todo = r /\ FirstWrite' = FirstWrite /\ SetWrites' = SetWrites
        /\ OpeningWrites' = OpeningWrites
    BY <1>1, <1>9 DEF FirstWrite, SetWrites, OpeningWrites
  <2>2. \A i \in 1 .. n - 1 : /\ r[i] = FirstWrite => i = 1
                              /\ r[i] = Write("zero", 0) <=> i = n - 1
    <3>1. ASSUME NEW i \in 1 .. n - 1
          PROVE  r[i] # FirstWrite /\ (r[i] = Write("zero", 0) <=> i = n - 1)
      <4>1. i + 1 \in 1 .. n /\ i + 1 # 1 /\ (i + 1 = n <=> i = n - 1)
        BY <1>6
      <4> QED BY <1>7, <1>8, <4>1
    <3> QED BY <3>1
  <2>3. device'.cob = conf.cob
    <3>1. CASE Transfer = FirstWrite
      <4>1. Transfer.what = "disable" /\ Transfer.value = conf.cob
        BY <3>1 DEF FirstWrite, Write
      <4>2. device' = [cob |-> conf.cob, valid |-> FALSE, trans |-> device.trans,
                       timer |-> device.timer, count |-> device.count, entries |-> device.entries]
        BY <1>1, <4>1, DeviceSteps DEF SetupInv
      <4> QED BY <4>2
    <3>2. CASE Transfer \in SetWrites
      <4>1. Transfer.what \in {"trans", "timer"} /\ Transfer # FirstWrite
        BY <3>2 DEF SetWrites, Write, FirstWrite
      <4>2. device.cob = conf.cob
        BY <4>1 DEF AtOpening, Opening
      <4>3. device'.cob = device.cob
        BY <1>1, <4>1, DeviceSteps DEF SetupInv
      <4> QED BY <4>2, <4>3
    <3> QED BY <3>1, <3>2 DEF AtOpening
  <2>4. SetOrLeft("trans", conf.trans, device.trans)'
    <3>1. CASE Transfer = Write("trans", conf.trans)
      <4>1. Transfer.what = "trans" /\ Transfer.value = conf.trans
        BY <3>1 DEF Write
      <4>2. device'.trans = conf.trans
        BY <1>1, <4>1, DeviceSteps DEF SetupInv
      <4> QED BY <1>1, <4>2 DEF SetOrLeft
    <3>2. CASE Transfer # Write("trans", conf.trans)
      <4>1. device'.trans = device.trans
        <5>1. Transfer.what \in {"disable", "timer"}
          BY <3>2 DEF AtOpening, FirstWrite, SetWrites, Write
        <5> QED BY <1>1, <5>1, DeviceSteps DEF SetupInv
      <4>2. ASSUME NEW i \in 1 .. n, s[i] = Write("trans", conf.trans)
            PROVE  i - 1 \in 1 .. n - 1 /\ r[i - 1] = Write("trans", conf.trans)
        <5>1. i # 1
          BY <1>7, <3>2, <4>2
        <5>2. i - 1 \in 1 .. n - 1 /\ (i - 1) + 1 = i
          BY <1>6, <5>1
        <5> QED BY <1>8, <4>2, <5>2
      <4> QED BY <1>1, <1>4, <1>7, <1>8, <2>1, <4>1, <4>2 DEF SetOrLeft
    <3> QED BY <3>1, <3>2
  <2>5. SetOrLeft("timer", conf.timer, device.timer)'
    <3>1. CASE Transfer = Write("timer", conf.timer)
      <4>1. Transfer.what = "timer" /\ Transfer.value = conf.timer
        BY <3>1 DEF Write
      <4>2. device'.timer = conf.timer
        BY <1>1, <4>1, DeviceSteps DEF SetupInv
      <4> QED BY <1>1, <4>2 DEF SetOrLeft
    <3>2. CASE Transfer # Write("timer", conf.timer)
      <4>1. device'.timer = device.timer
        <5>1. Transfer.what \in {"disable", "trans"}
          BY <3>2 DEF AtOpening, FirstWrite, SetWrites, Write
        <5> QED BY <1>1, <5>1, DeviceSteps DEF SetupInv
      <4>2. ASSUME NEW i \in 1 .. n, s[i] = Write("timer", conf.timer)
            PROVE  i - 1 \in 1 .. n - 1 /\ r[i - 1] = Write("timer", conf.timer)
        <5>1. i # 1
          BY <1>7, <3>2, <4>2
        <5>2. i - 1 \in 1 .. n - 1 /\ (i - 1) + 1 = i
          BY <1>6, <5>1
        <5> QED BY <1>8, <4>2, <5>2
      <4> QED BY <1>1, <1>4, <1>7, <1>8, <2>1, <4>1, <4>2 DEF SetOrLeft
    <3> QED BY <3>1, <3>2
  <2>6. app'.todo \in Seq(OpeningWrites')
    BY <1>8, <2>1
  <2>7. \A i \in DOMAIN app'.todo :
          /\ app'.todo[i] = FirstWrite' => i = 1
          /\ app'.todo[i] = Write("zero", 0) <=> i = Len(app'.todo)
    BY <1>8, <2>1, <2>2
  <2>8. UNCHANGED conf
    BY <1>1
  <2> QED BY <1>3, <2>3, <2>4, <2>5, <2>6, <2>7, <2>8 DEF Opening, Write
<1> QED BY <1>1, <1>2, <1>3, <1>4, <1>5, <1>8, <1>10, SaveProceeds

\* Entries and count are written next, from the first entry on.
LEMMA SaveTurnsToEntries ==
  ASSUME SetupInv, app.op = "save", Left(EntryWrites(map')), UNCHANGED conf, DeviceTypes', MapInv',
         Prepared', Intended' = Intended, kind' = "fixed" => device'.count = Len(map')
  PROVE  SetupInv'
<1>1. PICK todo : todo = EntryWrites(map')
  OBVIOUS
<1>2. todo = ToWrite(map', 0) /\ ToWrite(map', 0) # <<>>
  <2>1. map' \in Seq(Mapped) /\ 0 \in 0 .. Len(map')
    BY DEF MapInv
  <2> QED BY <1>1, <2>1, EntryWritesAre, ToWriteIs
<1>3. todo # <<>> /\ Left(todo)
  BY <1>1, <1>2
<1>4. app' = [op |-> app.op, outcome |-> app.outcome, todo |-> todo,
              stale |-> app.stale, good |-> app.good]
  BY <1>3, CallSteps DEF SetupInv
<1>5. WrittenUpTo(0)' /\ 0 \in 0 .. Len(map')
  <2>1. app'.todo = ToWrite(map', 0)
    BY <1>2, <1>4
  <2>2. 0 \in 0 .. Len(map')
    BY DEF MapInv
  <2> QED BY <2>1, <2>2 DEF WrittenUpTo
<1>6. ~device'.valid
  BY DEF Prepared
<1> QED BY <1>3, <1>5, <1>6, SaveProceeds

\* When all entries and the count are written the device has the whole mapping.
LEMMA WholeWhenWritten ==
  ASSUME MapInv, DeviceTypes, UNCHANGED map, device'.entries = device.entries,
         device'.count = Len(map), \A j \in 1 .. Len(map) : device.entries[j] = Entries(map)[j]
  PROVE  WholeMap'
<1>1. Len(map) \in 0 .. Slots /\ map \in Seq(Mapped)
  BY SetupAssumption DEF MapInv
<1>2. PICK q : q = SubSeq(device.entries, 1, Len(map))
  OBVIOUS
<1>3. q \in Seq(Entry) /\ Len(q) = Len(map) /\ \A i \in 1 .. Len(map) : q[i] = device.entries[i]
  BY <1>1, <1>2, FirstEntries
<1>4. Entries(map) \in Seq(Entry) /\ Len(Entries(map)) = Len(map)
  BY <1>1, EntriesTypes
<1>5. q = Entries(map)
  BY <1>3, <1>4, SeqEqual
<1> QED BY <1>2, <1>5 DEF WholeMap

\* A save goes on after a write that succeeded.
LEMMA SaveGoesOnKeeps ==
  ASSUME SetupInv, app.op = "save", Accepts(Transfer), SaveGoesOn, UNCHANGED kind
  PROVE  SetupInv'
<1> USE SetupAssumption
<1>1. DeviceTypes /\ MapInv /\ AppShape
  BY DEF SetupInv
<1>2. device' = Written(Transfer) /\ UNCHANGED <<length, conf>>
  BY DEF SaveGoesOn
<1>3. CASE AtOpening
  BY <1>3, SaveOpens
<1>4. CASE AtZero
  <2>1. Transfer.what = "zero" /\ Transfer.value = 0
    BY <1>4 DEF AtZero, Write
  <2>2. UNCHANGED map /\ Left(EntryWrites(map'))
    BY <1>4, <2>1 DEF SaveGoesOn, AtZero
  <2>3. MapInv' /\ DeviceTypes' /\ Intended' = Intended
    BY <1>1, <1>2, <2>2, MapSame, SaveWrites
  <2>4. device' = [cob |-> device.cob, valid |-> device.valid, trans |-> device.trans,
                   timer |-> device.timer, count |-> 0, entries |-> device.entries]
    BY <1>1, <1>2, <2>1, DeviceSteps
  <2>5. Prepared'
    BY <1>2, <1>4, <2>4 DEF AtZero, Prepared
  <2>6. kind' # "fixed"
    BY <2>1 DEF Accepts, ReadOnly
  <2> QED BY <1>2, <2>2, <2>3, <2>5, <2>6, SaveTurnsToEntries
<1>5. CASE AtSize
  <2>1. Transfer.what = "size"
    BY <1>5 DEF AtSize, ReadOf
  <2>2. map' = Filled(device.count) /\ Left(EntryWrites(map'))
    BY <1>5, <2>1 DEF SaveGoesOn, AtSize
  <2>3. device' = device
    BY <1>1, <1>2, <2>1, DeviceSteps
  <2>4. device.count \in 0 .. Slots /\ (kind = "fixed" => device.count = Slots)
    BY <1>1 DEF DeviceTypes
  <2>5. /\ MapInv' /\ Real(Entries(map')) = Real(Entries(map))
        /\ device.count >= Len(map) => Len(map') = device.count
    BY <1>1, <1>2, <2>2, <2>4, MapFilled
  <2>6. DeviceTypes' /\ Intended' = Intended
    BY <1>2, <2>5, SaveWrites
  <2>7. Prepared'
    BY <1>2, <1>5, <2>3 DEF AtSize, Prepared
  <2>8. kind' = "fixed" => device'.count = Len(map')
    BY <1>1, <2>3, <2>4, <2>5 DEF MapInv
  <2> QED BY <1>2, <2>2, <2>5, <2>6, <2>7, <2>8, SaveTurnsToEntries
<1>6. CASE \E k \in 0 .. Len(map) - 1 : AtEntry(k)
  <2>1. PICK k \in 0 .. Len(map) - 1 : AtEntry(k)
    BY <1>6
  <2>2. PICK e : e = Entries(map)[k + 1]
    OBVIOUS
  <2>3. k \in Nat /\ k + 1 \in 0 .. Len(map) /\ k + 1 \in Slot
    BY <1>1 DEF MapInv, Slot
  <2>4. Transfer.what = "entry" /\ Transfer.slot = k + 1 /\ Transfer.value = e
    BY <2>1, <2>2 DEF AtEntry, WriteEntry
  <2>5. UNCHANGED map /\ Left(Tail(app.todo)) /\ Tail(app.todo) = ToWrite(map, k + 1)
    BY <2>1, <2>4 DEF SaveGoesOn, AtEntry
  <2>6. device' = [cob |-> device.cob, valid |-> device.valid, trans |-> device.trans,
                   timer |-> device.timer, count |-> device.count,
                   entries |-> [device.entries EXCEPT ![k + 1] = e]]
    BY <1>1, <1>2, <2>4, DeviceSteps
  <2>7. MapInv' /\ DeviceTypes' /\ Intended' = Intended
    BY <1>1, <1>2, <2>5, MapSame, SaveWrites
  <2>8. Prepared'
    BY <1>2, <2>1, <2>6 DEF AtEntry, Prepared
  <2>9. ToWrite(map, k + 1) # <<>>
    BY <1>1, <2>3, ToWriteIs DEF MapInv
  <2>10. app' = [op |-> app.op, outcome |-> app.outcome, todo |-> ToWrite(map, k + 1),
                 stale |-> app.stale, good |-> app.good]
    BY <1>1, <2>5, CallSteps
  <2>11. WrittenUpTo(k + 1)'
    <3>1. app'.todo = ToWrite(map', k + 1)
      BY <2>5, <2>10
    <3>2. ASSUME NEW j \in 1 .. k + 1 PROVE device'.entries[j] = Entries(map)[j]
      <4>1. device'.entries = [device.entries EXCEPT ![k + 1] = e]
        BY <2>6
      <4>2. device.entries \in [Slot -> Entry]
        BY <1>1 DEF DeviceTypes
      <4>3. CASE j = k + 1
        BY <2>2, <2>3, <4>1, <4>2, <4>3
      <4>4. CASE j # k + 1
        <5>1. j \in 1 .. k /\ j \in Slot
          BY <2>3, <4>4 DEF Slot
        <5>2. device'.entries[j] = device.entries[j]
          BY <4>1, <4>2, <4>4, <5>1
        <5> QED BY <2>1, <5>1, <5>2 DEF AtEntry, WrittenUpTo
      <4> QED BY <4>3, <4>4
    <3>3. kind' = "fixed" => device'.count = Len(map')
      BY <2>1, <2>5, <2>6 DEF AtEntry, WrittenUpTo
    <3> QED BY <2>5, <3>1, <3>2, <3>3 DEF WrittenUpTo
  <2>12. ~device'.valid
    BY <2>8 DEF Prepared
  <2> QED BY <1>2, <2>3, <2>5, <2>7, <2>8, <2>9, <2>11, <2>12, SaveProceeds
<1>7. CASE AtCount
  <2>1. Transfer.what = "count" /\ Transfer.value = Len(map)
    BY <1>7 DEF AtCount, Write
  <2>2. /\ UNCHANGED map /\ Len(app.todo) = 1 /\ UNCHANGED subscribed
        /\ IF conf.enabled THEN Left(<<Write("enable", conf.cob)>>) ELSE Ended
    BY <1>7, <2>1 DEF SaveGoesOn, AtCount
  <2>3. device' = [cob |-> device.cob, valid |-> device.valid, trans |-> device.trans,
                   timer |-> device.timer, count |-> Len(map), entries |-> device.entries]
    BY <1>1, <1>2, <2>1, DeviceSteps
  <2>4. MapInv' /\ DeviceTypes' /\ Intended' = Intended
    BY <1>1, <1>2, <2>2, MapSame, SaveWrites
  <2>5. Prepared' /\ ~device'.valid
    BY <1>2, <1>7, <2>3 DEF AtCount, Prepared
  <2>6. WholeMap'
    BY <1>1, <1>7, <2>2, <2>3, WholeWhenWritten DEF AtCount, WrittenUpTo
  <2>7. CASE conf.enabled
    BY <1>2, <2>2, <2>4, <2>5, <2>6, <2>7, SaveProceeds
  <2>8. CASE ~conf.enabled
    <3>1. Ended
      BY <2>2, <2>8
    <3>2. device'.cob = conf.cob /\ device'.valid = conf.enabled
      <4>1. device'.cob = conf.cob
        BY <1>2, <2>5 DEF Prepared
      <4>2. device'.valid \in BOOLEAN /\ conf.enabled \in BOOLEAN
        BY <1>1, <2>4 DEF DeviceTypes, AppShape
      <4> QED BY Zenon, <2>5, <2>8, <4>1, <4>2
    <3>3. conf.trans \in {None, device'.trans} /\ conf.timer \in {None, device'.timer}
      BY <1>2, <2>5 DEF Prepared
    <3>4. GoodInv'
      BY <2>5 DEF GoodInv
    <3> QED BY <1>2, <2>2, <2>4, <2>6, <2>8, <3>1, <3>2, <3>3, <3>4, SaveEnds
  <2> QED BY <2>7, <2>8
<1>8. CASE AtEnable
  <2>1. Transfer.what = "enable" /\ Transfer.value = conf.cob
    BY <1>8 DEF AtEnable, Write
  <2>2. UNCHANGED map /\ Subscribe /\ Ended
    BY <1>8, <2>1 DEF SaveGoesOn, AtEnable
  <2>3. device' = [cob |-> conf.cob, valid |-> TRUE, trans |-> device.trans,
                   timer |-> device.timer, count |-> device.count, entries |-> device.entries]
    BY <1>1, <1>2, <2>1, DeviceSteps
  <2>4. MapInv' /\ DeviceTypes' /\ (device'.valid => Setup(device') \in app.good)
    BY <1>1, <1>2, <2>2, MapSame, SaveWrites
  <2>5. app'.good = app.good
    BY <1>1, <2>2, CallSteps
  <2>6. GoodInv'
    BY <2>4, <2>5 DEF GoodInv
  <2>7. WholeMap'
    BY <1>8, <2>2, <2>3 DEF AtEnable, WholeMap
  <2>8. device'.cob = conf.cob /\ device'.valid = conf.enabled
    <3>1. device'.cob = conf.cob /\ device'.valid = TRUE
      BY <2>3
    <3>2. conf.enabled = TRUE
      BY <1>1, <1>8 DEF AtEnable, AppShape
    <3> QED BY <3>1, <3>2
  <2>9. conf.trans \in {None, device'.trans} /\ conf.timer \in {None, device'.timer}
    BY <1>8, <2>3 DEF AtEnable, Prepared
  <2>10. conf.enabled => conf.cob \in subscribed'
    BY <1>2, <2>2 DEF Subscribe
  <2> QED BY <1>2, <2>2, <2>4, <2>6, <2>7, <2>8, <2>9, <2>10, SaveEnds
<1> QED BY <1>3, <1>4, <1>5, <1>6, <1>7, <1>8, SaveStages

\* A save goes on or raises after a write that was refused.
LEMMA SaveRefusedKeeps ==
  ASSUME SetupInv, app.op = "save", SaveIsRefused(ReadOnly(Transfer)), UNCHANGED kind
  PROVE  SetupInv'
<1>1. DeviceTypes /\ MapInv /\ AppShape
  BY DEF SetupInv
<1>2. UNCHANGED <<map, length, conf, subscribed, device, kind>>
  BY DEF SaveIsRefused, confVars
<1>3. DeviceTypes' /\ MapInv' /\ Intended' = Intended
  BY <1>1, <1>2, MapSame, DeviceSame DEF Intended
<1>4. CASE Transfer.what = "zero"
  <2>1. Left(<<ReadOf("size", 0)>>)
    BY <1>4 DEF SaveIsRefused
  <2>2. AtZero
    BY <1>4, SaveStages DEF AtOpening, FirstWrite, SetWrites, Write, AtSize, ReadOf, AtEntry, WriteEntry,
         AtCount, AtEnable
  <2>3. Prepared' /\ ~device'.valid
    BY <1>2, <2>2 DEF AtZero, Prepared
  <2> QED BY <1>2, <1>3, <2>1, <2>3, SaveProceeds
<1>5. CASE Transfer.what = "count" /\ ReadOnly(Transfer)
  <2>1. IF conf.enabled THEN Left(<<Write("enable", conf.cob)>>) ELSE Ended
    BY <1>5 DEF SaveIsRefused
  <2>2. AtCount
    BY <1>5, SaveStages DEF AtOpening, FirstWrite, SetWrites, Write, AtSize, ReadOf, AtEntry, WriteEntry,
         AtZero, AtEnable
  <2>3. kind = "fixed"
    BY <1>5 DEF ReadOnly
  <2>4. Prepared' /\ ~device'.valid
    BY <1>2, <2>2 DEF AtCount, Prepared
  <2>5. WholeMap'
    BY <1>1, <1>2, <2>2, <2>3, WholeWhenWritten DEF AtCount, WrittenUpTo
  <2>6. CASE conf.enabled
    BY <1>2, <1>3, <2>1, <2>4, <2>5, <2>6, SaveProceeds
  <2>7. CASE ~conf.enabled
    <3>1. Ended
      BY <2>1, <2>7
    <3>2. device'.cob = conf.cob /\ device'.valid = conf.enabled
      <4>1. device'.cob = conf.cob
        BY <1>2, <2>4 DEF Prepared
      <4>2. device'.valid \in BOOLEAN /\ conf.enabled \in BOOLEAN
        BY <1>1, <1>3 DEF DeviceTypes, AppShape
      <4> QED BY Zenon, <2>4, <2>7, <4>1, <4>2
    <3>3. conf.trans \in {None, device'.trans} /\ conf.timer \in {None, device'.timer}
      BY <1>2, <2>4 DEF Prepared
    <3>4. GoodInv'
      BY <2>4 DEF GoodInv
    <3> QED BY <1>2, <1>3, <2>5, <2>7, <3>1, <3>2, <3>3, <3>4, SaveEnds
  <2> QED BY <2>6, <2>7
<1>6. CASE ~(Transfer.what = "zero") /\ ~(Transfer.what = "count" /\ ReadOnly(Transfer))
  <2>1. Raises
    BY <1>6 DEF SaveIsRefused
  <2>2. app'.good = app.good
    BY <1>1, <2>1, CallSteps
  <2>3. GoodInv' /\ ConfShape'
    BY <1>1, <1>2, <2>2, GoodStays DEF SetupInv, AppShape, ConfShape
  <2> QED BY <1>3, <2>1, <2>3, RaisesKeeps
<1> QED BY <1>4, <1>5, <1>6

-----------------------------------------------------------------------------
\* read.

\* A read goes on, or ends with the map and the device in agreement.
LEMMA ReadOnKeeps ==
  ASSUME SetupInv, app.op = "read", UNCHANGED <<device, kind>>, MapInv', ConfShape', NEW todo,
         ReadOn(todo), todo # <<>> => ReadStage(todo)',
         todo = <<>> => HasCob' /\ HasTrans' /\ ReadSoFar(device.count)'
  PROVE  SetupInv'
<1>1. DeviceTypes' /\ (app'.good = app.good => GoodInv')
  BY DeviceSame, GoodStays DEF SetupInv
<1>2. CASE todo = <<>>
  <2>1. Ended /\ Subscribe
    BY <1>2 DEF ReadOn
  <2>2. app' = [op |-> "none", outcome |-> "read", todo |-> <<>>, stale |-> FALSE, good |-> app.good]
    BY <2>1, CallSteps DEF SetupInv
  <2>3. AppShape'
    BY <2>2 DEF AppShape, ConfShape, Doing
  <2>4. SaveInv' /\ ReadInv'
    BY <2>2 DEF SaveInv, ReadInv, Doing
  <2>5. AgreeAfterSuccess'
    <3>1. conf'.cob = device'.cob /\ conf'.enabled = device'.valid /\ conf'.trans \in {None, device'.trans}
      BY <1>2 DEF HasCob, HasTrans
    <3>2. app'.outcome # "save"
      BY <2>2
    <3>3. ASSUME \A k \in DOMAIN Setup(device').map : Setup(device').map[k].obj \in Known
          PROVE  Real(map') = Placed(Setup(device').map)
      <4>1. PICK r : r = Real(SubSeq(device'.entries, 1, device'.count))
        OBVIOUS
      <4>2. Setup(device').map = r
        BY <4>1 DEF Setup
      <4>3. AllKnown(r)
        BY <3>3, <4>2 DEF AllKnown
      <4>4. Real(Entries(map')) = r
        BY <1>2, <4>1, <4>3 DEF ReadSoFar
      <4> QED BY <4>2, <4>4 DEF MapInv
    <3>4. conf'.enabled => conf'.cob \in subscribed'
      BY <2>1 DEF Subscribe
    <3> QED BY <3>1, <3>2, <3>3, <3>4 DEF AgreeAfterSuccess
  <2> QED BY <1>1, <2>2, <2>3, <2>4, <2>5 DEF SetupInv
<1>3. CASE todo # <<>>
  <2>1. Left(todo)
    BY <1>3 DEF ReadOn
  <2>2. app' = [op |-> "read", outcome |-> app.outcome, todo |-> todo, stale |-> app.stale,
                good |-> app.good]
    BY <2>1, CallSteps DEF SetupInv
  <2>3. app.stale = TRUE
    BY DEF SetupInv, AppShape, Doing
  <2>4. AppShape'
    BY <1>3, <2>2, <2>3 DEF AppShape, ConfShape, Doing
  <2>5. SaveInv' /\ AgreeAfterSuccess'
    BY <2>2 DEF SaveInv, AgreeAfterSuccess, Doing
  <2>6. ReadInv'
    BY <1>3, <2>2 DEF ReadInv
  <2> QED BY <1>1, <2>2, <2>4, <2>5, <2>6 DEF SetupInv
<1> QED BY <1>2, <1>3

\* A read comes to the mapping: the map is cleared first.
LEMMA CountNextKeeps ==
  ASSUME SetupInv, app.op = "read", UNCHANGED <<device, kind>>, ConfShape', HasCob', HasTrans',
         CountNext
  PROVE  SetupInv'
<1>1. map' = <<>> /\ length' = 0 /\ ReadOn(<<ReadOf("count", 0)>>)
  BY DEF CountNext
<1>2. MapInv'
  BY <1>1, MapCleared
<1>3. PICK todo : todo = <<ReadOf("count", 0)>>
  OBVIOUS
<1>4. todo # <<>> /\ ReadStage(todo)' /\ ReadOn(todo)
  BY <1>1, <1>3 DEF ReadStage
<1> QED BY <1>2, <1>4, ReadOnKeeps

\* Of no entries nothing is to be read.
LEMMA NothingReadYet ==
  ASSUME map' = <<>>
  PROVE  ReadSoFar(0)'
<1>1. SubSeq(device'.entries, 1, 0) = <<>>
  OBVIOUS
<1> QED BY <1>1, EmptyMap DEF ReadSoFar

\* One more entry is read.
LEMMA EntryIsRead ==
  ASSUME DeviceTypes, MapInv, UNCHANGED device, NEW k \in 0 .. device.count - 1,
         Len(map) <= k, ReadSoFar(k),
         IF device.entries[k + 1].len # 0
         THEN Added(device.entries[k + 1].obj, device.entries[k + 1].len)
         ELSE UNCHANGED <<map, length, data>>
  PROVE  MapInv' /\ Len(map') <= k + 1 /\ ReadSoFar(k + 1)'
<1> USE SetupAssumption
<1>1. PICK e : e = device.entries[k + 1]
  OBVIOUS
<1>2. k \in 0 .. Slots /\ k < Slots /\ Len(map) \in Nat /\ Len(map) < Slots /\ k \in Nat
  BY DEF DeviceTypes, MapInv
<1>3. e \in Entry /\ e.obj \in Objects \cup {None} /\ e.len \in Nat
      /\ e = [obj |-> e.obj, len |-> e.len]
  <2>1. k + 1 \in Slot
    BY <1>2 DEF Slot
  <2>2. e \in Entry
    BY <1>1, <2>1 DEF DeviceTypes
  <2> QED BY <2>2 DEF Entry
<1>4. PICK s : s = SubSeq(device.entries, 1, k)
  OBVIOUS
<1>5. s \in Seq(Entry) /\ SubSeq(device'.entries, 1, k + 1) = Append(s, e)
  BY <1>1, <1>2, <1>4, FirstEntries, NextEntry
<1>6. Real(Append(s, e)) = IF e.len # 0 THEN Append(Real(s), e) ELSE Real(s)
  BY <1>3, <1>5, RealOfAppend
<1>7. AllKnown(Real(s)) => Real(Entries(map)) = Real(s)
  BY <1>4 DEF ReadSoFar
<1>8. CASE e.len = 0
  <2>1. UNCHANGED <<map, length>>
    BY <1>1, <1>8
  <2>2. MapInv' /\ Len(map') <= k + 1
    BY <1>2, <2>1, MapSame
  <2>3. Real(Append(s, e)) = Real(s)
    BY <1>6, <1>8
  <2>4. ReadSoFar(k + 1)'
    BY <1>5, <1>7, <2>1, <2>3 DEF ReadSoFar
  <2> QED BY <2>2, <2>4
<1>9. CASE e.len # 0
  <2>1. Added(e.obj, e.len)
    BY <1>1, <1>9
  <2>2. MapInv' /\ Len(map') <= Len(map) + 1
        /\ (e.obj \in Known => Real(Entries(map')) = Append(Real(Entries(map)), e))
    BY <1>2, <1>3, <1>9, <2>1, MapAdded
  <2>3. Len(map') <= k + 1
    BY <1>2, <2>2 DEF MapInv
  <2>4. ASSUME AllKnown(Append(Real(s), e)) PROVE AllKnown(Real(s)) /\ e.obj \in Known
    <3>1. PICK r : r = Real(s)
      OBVIOUS
    <3>2. r \in Seq(Entry)
      BY <1>5, <3>1, RealTypes
    <3>3. \A i \in 1 .. Len(r) + 1 : Append(r, e)[i].obj \in Known
      BY <1>3, <2>4, <3>1, <3>2 DEF AllKnown
    <3>4. \A i \in 1 .. Len(r) : r[i].obj \in Known
      BY <1>3, <3>2, <3>3
    <3>5. Append(r, e)[Len(r) + 1] = e /\ Len(r) + 1 \in 1 .. Len(r) + 1
      BY <1>3, <3>2
    <3>6. e.obj \in Known
      BY <3>3, <3>5
    <3>7. DOMAIN r = 1 .. Len(r)
      BY <3>2
    <3> QED BY <3>1, <3>4, <3>6, <3>7 DEF AllKnown
  <2>5. Real(Append(s, e)) = Append(Real(s), e)
    BY <1>6, <1>9
  <2>6. AllKnown(Real(Append(s, e))) => Real(Entries(map')) = Real(Append(s, e))
    BY <1>7, <2>2, <2>4, <2>5
  <2>7. ReadSoFar(k + 1)'
    BY <1>5, <2>6 DEF ReadSoFar
  <2> QED BY <2>2, <2>3, <2>7
<1> QED BY <1>8, <1>9

\* What is left to read after the first k entries: the next one, and what is left after it.
LEMMA ToReadIs ==
  ASSUME DeviceTypes, NEW k \in 0 .. device.count
  PROVE  /\ ToRead(k) = <<>> <=> k = device.count
         /\ k < device.count =>
              /\ Head(ToRead(k)) = ReadOf("entry", k + 1)
              /\ Tail(ToRead(k)) = ToRead(k + 1)
<1>1. PICK n : n = device.count
  OBVIOUS
<1>2. n \in Nat /\ k \in Nat /\ k <= n /\ n - k \in Nat
  BY <1>1, SetupAssumption DEF DeviceTypes
<1>3. PICK t : t = ToRead(k)
  OBVIOUS
<1>4. t = [i \in 1 .. n - k |-> ReadOf("entry", k + i)]
  BY <1>1, <1>3 DEF ToRead
<1>5. PICK S : S = {ReadOf("entry", k + i) : i \in 1 .. n - k}
  OBVIOUS
<1>6. t \in Seq(S) /\ Len(t) = n - k
  <2>1. t \in [1 .. n - k -> S]
    BY <1>4, <1>5
  <2> QED BY <1>2, <2>1
<1>7. t = <<>> <=> k = n
  <2>1. t = <<>> <=> Len(t) = 0
    BY <1>6
  <2> QED BY <1>2, <1>6, <2>1
<1>8. ASSUME k < n
      PROVE  Head(t) = ReadOf("entry", k + 1) /\ Tail(t) = ToRead(k + 1)
  <2>1. t # <<>> /\ 1 \in 1 .. n - k
    BY <1>2, <1>7, <1>8
  <2>2. Head(t) = t[1]
    BY <1>6, <2>1
  <2>3. t[1] = ReadOf("entry", k + 1)
    BY <1>4, <2>1
  <2>4. PICK r : r = Tail(t)
    OBVIOUS
  <2>5. /\ r \in Seq(S) /\ Len(r) = Len(t) - 1
        /\ \A i \in 1 .. Len(r) : r[i] = t[i + 1]
    BY <1>6, <2>1, <2>4, HeadTailProperties
  <2>6. Len(r) = n - (k + 1)
    BY <1>2, <1>6, <2>5
  <2>7. ASSUME NEW i \in 1 .. n - (k + 1) PROVE r[i] = ReadOf("entry", (k + 1) + i)
    <3>1. i + 1 \in 1 .. n - k /\ k + (i + 1) = (k + 1) + i
      BY <1>2
    <3>2. t[i + 1] = ReadOf("entry", k + (i + 1))
      BY <1>4, <3>1
    <3> QED BY <2>5, <2>6, <3>1, <3>2
  <2>8. r = [i \in 1 .. Len(r) |-> r[i]]
    BY <2>5
  <2>9. r = [i \in 1 .. n - (k + 1) |-> ReadOf("entry", (k + 1) + i)]
    <3>1. r = [i \in 1 .. n - (k + 1) |-> r[i]]
      BY <2>6, <2>8
    <3> QED BY <2>7, <3>1
  <2> QED BY <1>1, <2>2, <2>3, <2>4, <2>9 DEF ToRead
<1> QED BY <1>1, <1>3, <1>7, <1>8

\* A read goes on after a transfer that succeeded.
LEMMA ReadGoesOnKeeps ==
  ASSUME SetupInv, app.op = "read", ReadGoesOn, UNCHANGED kind
  PROVE  SetupInv'
<1>1. DeviceTypes /\ MapInv /\ AppShape /\ ReadStage(app.todo)
  BY DEF SetupInv, ReadInv, Doing
<1>2. UNCHANGED <<device, kind>>
  BY DEF ReadGoesOn
<1>3. CASE app.todo = <<ReadOf("cob", 0), ReadOf("trans", 0)>>
  <2>1. Transfer.what = "cob" /\ Tail(app.todo) = <<ReadOf("trans", 0)>>
    BY <1>3 DEF Transfer, ReadOf
  <2>2. /\ conf' = [conf EXCEPT !.cob = device.cob, !.enabled = device.valid]
        /\ ReadOn(Tail(app.todo)) /\ UNCHANGED <<map, length>>
    BY <2>1 DEF ReadGoesOn
  <2>3. conf' = [cob |-> device.cob, enabled |-> device.valid, trans |-> conf.trans,
                 timer |-> conf.timer]
    BY <1>1, <2>2 DEF AppShape
  <2>4. device.valid \in BOOLEAN
    BY <1>1 DEF DeviceTypes
  <2>5. ConfShape' /\ HasCob'
    BY <1>2, <2>3, <2>4 DEF ConfShape, HasCob
  <2>6. MapInv'
    BY <1>1, <2>2, MapSame
  <2>7. PICK todo : todo = <<ReadOf("trans", 0)>>
    OBVIOUS
  <2>8. todo # <<>> /\ ReadOn(todo) /\ ReadStage(todo)'
    BY <2>1, <2>2, <2>5, <2>7 DEF ReadStage
  <2> QED BY <1>2, <2>5, <2>6, <2>8, ReadOnKeeps
<1>4. CASE app.todo = <<ReadOf("trans", 0)>> /\ HasCob
  <2>1. Transfer.what = "trans"
    BY <1>4 DEF Transfer, ReadOf
  <2>2. CASE device.trans = "event"
    <3>1. /\ conf' = [conf EXCEPT !.trans = "event"]
          /\ ReadOn(<<ReadOf("timer", 0)>>) /\ UNCHANGED <<map, length>>
      BY <2>1, <2>2 DEF ReadGoesOn
    <3>2. conf' = [cob |-> conf.cob, enabled |-> conf.enabled, trans |-> "event",
                   timer |-> conf.timer]
      BY <1>1, <3>1 DEF AppShape
    <3>3. ConfShape' /\ HasCob' /\ HasTrans'
      BY <1>1, <1>2, <1>4, <2>2, <3>2 DEF AppShape, ConfShape, HasCob, HasTrans
    <3>4. MapInv'
      BY <1>1, <3>1, MapSame
    <3>5. PICK todo : todo = <<ReadOf("timer", 0)>>
      OBVIOUS
    <3>6. todo # <<>> /\ ReadOn(todo) /\ ReadStage(todo)'
      BY <3>1, <3>3, <3>5 DEF ReadStage
    <3> QED BY <1>2, <3>3, <3>4, <3>6, ReadOnKeeps
  <2>3. CASE device.trans # "event"
    <3>1. conf' = [conf EXCEPT !.trans = device.trans] /\ CountNext
      BY <2>1, <2>3 DEF ReadGoesOn
    <3>2. conf' = [cob |-> conf.cob, enabled |-> conf.enabled, trans |-> device.trans,
                   timer |-> conf.timer]
      BY <1>1, <3>1 DEF AppShape
    <3>3. ConfShape' /\ HasCob' /\ HasTrans'
      BY <1>1, <1>2, <1>4, <3>2 DEF AppShape, ConfShape, HasCob, HasTrans
    <3> QED BY <1>2, <3>1, <3>3, CountNextKeeps
  <2> QED BY <2>2, <2>3
<1>5. CASE app.todo = <<ReadOf("timer", 0)>> /\ HasCob /\ HasTrans
  <2>1. Transfer.what = "timer"
    BY <1>5 DEF Transfer, ReadOf
  <2>2. conf' = [conf EXCEPT !.timer = device.timer] /\ CountNext
    BY <2>1 DEF ReadGoesOn
  <2>3. conf' = [cob |-> conf.cob, enabled |-> conf.enabled, trans |-> conf.trans,
                 timer |-> device.timer]
    BY <1>1, <2>2 DEF AppShape
  <2>4. ConfShape' /\ HasCob' /\ HasTrans'
    BY <1>1, <1>2, <1>5, <2>3 DEF AppShape, ConfShape, HasCob, HasTrans
  <2> QED BY <1>2, <2>2, <2>4, CountNextKeeps
<1>6. CASE app.todo = <<ReadOf("count", 0)>> /\ HasCob /\ HasTrans /\ map = <<>>
  <2>1. Transfer.what = "count"
    BY <1>6 DEF Transfer, ReadOf
  <2>2. PICK todo : todo = [k \in 1 .. device.count |-> ReadOf("entry", k)]
    OBVIOUS
  <2>3. UNCHANGED <<map, length, conf>> /\ ReadOn(todo)
    BY <2>1, <2>2 DEF ReadGoesOn
  <2>4. MapInv' /\ ConfShape' /\ HasCob' /\ HasTrans'
    BY <1>1, <1>2, <1>6, <2>3, MapSame DEF AppShape, ConfShape, HasCob, HasTrans
  <2>5. device.count \in Nat
    BY <1>1, SetupAssumption DEF DeviceTypes
  <2>6. todo = ToRead(0)
    <3>1. device.count - 0 = device.count /\ \A i \in 1 .. device.count : 0 + i = i
      BY <2>5
    <3> QED BY <2>2, <3>1 DEF ToRead
  <2>7. ToRead(0)' = ToRead(0)
    BY <1>2 DEF ToRead
  <2>8. ReadSoFar(0)' /\ Len(map') <= 0
    BY <1>6, <2>3, NothingReadYet
  <2>9. todo = <<>> <=> device.count = 0
    BY <1>1, <2>5, <2>6, ToReadIs
  <2>10. todo # <<>> => ReadStage(todo)'
    <3> SUFFICES ASSUME todo # <<>> PROVE ReadStage(todo)'
      OBVIOUS
    <3>1. 0 \in 0 .. device'.count - 1
      BY <1>2, <2>5, <2>9
    <3> QED BY <2>4, <2>6, <2>7, <2>8, <3>1 DEF ReadStage
  <2>11. todo = <<>> => ReadSoFar(device.count)'
    BY <1>2, <2>8, <2>9
  <2> QED BY <1>2, <2>3, <2>4, <2>10, <2>11, ReadOnKeeps
<1>7. CASE /\ HasCob /\ HasTrans
           /\ \E k \in 0 .. device.count - 1 : app.todo = ToRead(k) /\ Len(map) <= k /\ ReadSoFar(k)
  <2>1. PICK k \in 0 .. device.count - 1 : app.todo = ToRead(k) /\ Len(map) <= k /\ ReadSoFar(k)
    BY <1>7
  <2>2. device.count \in Nat /\ k \in 0 .. device.count /\ k < device.count
        /\ k + 1 \in 0 .. device.count
    BY <1>1, SetupAssumption DEF DeviceTypes
  <2>3. Transfer = ReadOf("entry", k + 1) /\ Tail(app.todo) = ToRead(k + 1)
    BY <1>1, <2>1, <2>2, ToReadIs DEF Transfer
  <2>4. Transfer.what = "entry" /\ Transfer.slot = k + 1
    BY <2>3 DEF ReadOf
  <2>5. /\ IF device.entries[k + 1].len # 0
           THEN Added(device.entries[k + 1].obj, device.entries[k + 1].len)
           ELSE UNCHANGED <<map, length, data>>
        /\ UNCHANGED conf /\ ReadOn(ToRead(k + 1))
    BY <2>3, <2>4 DEF ReadGoesOn
  <2>6. MapInv' /\ Len(map') <= k + 1 /\ ReadSoFar(k + 1)'
    BY <1>1, <1>2, <2>1, <2>5, EntryIsRead
  <2>7. ConfShape' /\ HasCob' /\ HasTrans'
    BY <1>1, <1>2, <1>7, <2>5 DEF AppShape, ConfShape, HasCob, HasTrans
  <2>8. PICK todo : todo = ToRead(k + 1)
    OBVIOUS
  <2>9. todo = <<>> <=> k + 1 = device.count
    BY <1>1, <2>2, <2>8, ToReadIs
  <2>10. todo # <<>> => ReadStage(todo)'
    <3> SUFFICES ASSUME todo # <<>> PROVE ReadStage(todo)'
      OBVIOUS
    <3>1. k + 1 \in 0 .. device'.count - 1
      BY <1>2, <2>2, <2>9
    <3>2. todo = ToRead(k + 1)'
      BY <1>2, <2>8 DEF ToRead
    <3> QED BY <2>6, <2>7, <3>1, <3>2 DEF ReadStage
  <2>11. todo = <<>> => ReadSoFar(device.count)'
    BY <1>2, <2>6, <2>9
  <2> QED BY <1>2, <2>5, <2>6, <2>7, <2>8, <2>10, <2>11, ReadOnKeeps
<1> QED BY <1>1, <1>3, <1>4, <1>5, <1>6, <1>7 DEF ReadStage

\* A read goes on or raises after a transfer that was refused.
LEMMA ReadRefusedKeeps ==
  ASSUME SetupInv, app.op = "read", ReadIsRefused, UNCHANGED kind
  PROVE  SetupInv'
<1>1. DeviceTypes /\ MapInv /\ AppShape /\ ReadStage(app.todo)
  BY DEF SetupInv, ReadInv, Doing
<1>2. UNCHANGED <<device, kind>>
  BY DEF ReadIsRefused
<1>3. CASE Transfer.what = "timer"
  <2>1. CountNext /\ UNCHANGED conf
    BY <1>3 DEF ReadIsRefused
  <2>2. HasCob /\ HasTrans
    <3>1. app.todo # <<ReadOf("cob", 0), ReadOf("trans", 0)>> /\ app.todo # <<ReadOf("trans", 0)>>
      BY <1>3 DEF Transfer, ReadOf
    <3> QED BY <1>1, <3>1 DEF ReadStage
  <2>3. ConfShape' /\ HasCob' /\ HasTrans'
    BY <1>1, <1>2, <2>1, <2>2 DEF AppShape, ConfShape, HasCob, HasTrans
  <2> QED BY <1>2, <2>1, <2>3, CountNextKeeps
<1>4. CASE Transfer.what # "timer"
  <2>1. Raises /\ UNCHANGED <<map, length, conf>>
    BY <1>4 DEF ReadIsRefused, confVars
  <2>2. app'.good = app.good
    BY <1>1, <2>1, CallSteps
  <2>3. DeviceTypes' /\ MapInv' /\ ConfShape' /\ GoodInv'
    BY <1>1, <1>2, <2>1, <2>2, DeviceSame, MapSame, GoodStays DEF SetupInv, AppShape, ConfShape
  <2> QED BY <2>1, <2>3, RaisesKeeps
<1> QED BY <1>3, <1>4

-----------------------------------------------------------------------------
\* The theorems.

\* Every step keeps the invariant: one case per action.
LEMMA SetupNext == SetupInv /\ [Next]_vars => SetupInv'
<1> SUFFICES ASSUME SetupInv, [Next]_vars PROVE SetupInv'
  OBVIOUS
<1>1. CASE Uses
  <2>1. UNCHANGED <<map, length, conf, subscribed, device, kind, app>>
    BY <1>1 DEF Uses, SetVariable, StartTask, StopTask, BeginWait, WaitTimesOut, EndWait, confVars
  <2> QED BY <2>1, UseKeeps
<1>2. CASE DeviceSends
  <2>1. UNCHANGED <<map, length, conf, subscribed, device, kind, app>>
    BY <1>2 DEF DeviceSends, OnMessage, confVars
  <2> QED BY <2>1, UseKeeps
<1>3. CASE \/ Clear \/ \E obj \in Objects, len \in Lengths : AddVariable(obj, len)
           \/ \E new \in Confs : Configure(new)
  BY <1>3, EditSteps
<1>4. CASE SubscribeUnread
  <2>1. UNCHANGED <<map, length, conf, device, kind, app>> /\ subscribed \subseteq subscribed'
    BY <1>4 DEF SubscribeUnread, Subscribe
  <2> QED BY <2>1, UseKeeps
<1>5. CASE Save
  BY <1>5, SaveBegins
<1>6. CASE Read
  BY <1>6, ReadBegins
<1>7. CASE Succeeds
  <2>1. /\ UNCHANGED kind
        /\ \/ app.op = "save" /\ Accepts(Transfer) /\ SaveGoesOn
           \/ app.op = "read" /\ ReadGoesOn
    BY <1>7 DEF Succeeds, Goes
  <2> QED BY <2>1, SaveGoesOnKeeps, ReadGoesOnKeeps
<1>8. CASE IsRefused
  <2>1. /\ UNCHANGED kind
        /\ \/ app.op = "save" /\ SaveIsRefused(ReadOnly(Transfer))
           \/ app.op = "read" /\ ReadIsRefused
    BY <1>8 DEF IsRefused, Goes
  <2> QED BY <2>1, SaveRefusedKeeps, ReadRefusedKeeps
<1>9. CASE IsLost
  BY <1>9, LostKeeps
<1>10. CASE UNCHANGED vars
  BY <1>10, UseKeeps DEF vars
<1> QED BY <1>1, <1>2, <1>3, <1>4, <1>5, <1>6, <1>7, <1>8, <1>9, <1>10 DEF Next

\* A PDO that is valid on the device has the whole setup that it had before a save or
\* the whole one that was saved, for any device of the three kinds, any number of entries,
\* and whatever transfers are refused or lost on the way.
THEOREM SetupsAreWhole == Spec => []OnlyWholeSetups
<1>1. SetupInv => OnlyWholeSetups
  BY DEF SetupInv, GoodInv, OnlyWholeSetups
<1> QED BY <1>1, InitSetup, SetupNext, PTL DEF Spec

\* After a read or a save that did not raise the map is what the device has, variable by
\* variable and bit offset by bit offset, and a map that is enabled is subscribed.
THEOREM SuccessIsAgreement == Spec => []AgreeAfterSuccess
<1>1. SetupInv => AgreeAfterSuccess
  BY DEF SetupInv
<1> QED BY <1>1, InitSetup, SetupNext, PTL DEF Spec

-----------------------------------------------------------------------------
\* What set_data writes is what get_data reads: the bits of one variable.

\* A byte offset and the bits behind it.
LEMMA OffsetParts ==
  ASSUME NEW o \in Nat
  PROVE  /\ (o \div Byte) * Byte \in Nat /\ o % Byte \in Nat
         /\ (o \div Byte) * Byte + (o % Byte) = o
<1>1. PICK q \in Nat, r \in Nat : q = o \div Byte /\ r = o % Byte
  BY PdoAssumption
<1>2. Byte * (o \div Byte) + (o % Byte) = o
  BY PdoAssumption
<1>3. Byte * q + r = o
  BY <1>1, <1>2, Zenon
<1>4. q * Byte \in Nat /\ q * Byte + r = o
  BY <1>3, PdoAssumption
<1> QED BY <1>1, <1>4, Zenon

\* The window of w bits from bit f of a message, and a field of n bits from bit s of it.
Cut(bits, f, w) == {b - f : b \in bits \cap (f .. f + w - 1)}
Moved(bits, s, w) == {b + s : b \in bits} \cap (0 .. w - 1)
Replaced(bits, f, s, n, w, value) == (Cut(bits, f, w) \ (s .. s + n - 1)) \cup Moved(value, s, w)
Put(bits, f, w, new) == (bits \ (f .. f + w - 1)) \cup {b + f : b \in new}

\* A field holds the bits of the message that it covers.
LEMMA FieldOfWindow ==
  ASSUME NEW bits, NEW f \in Nat, NEW s \in Nat, NEW n \in Nat, NEW w \in Nat, s + n <= w
  PROVE  Cut(Cut(bits, f, w), s, n) = {i \in 0 .. n - 1 : f + s + i \in bits}
<1>1. ASSUME NEW x \in Cut(Cut(bits, f, w), s, n)
      PROVE  x \in 0 .. n - 1 /\ f + s + x \in bits
  <2>1. PICK c \in Cut(bits, f, w) : c \in s .. s + n - 1 /\ x = c - s
    BY <1>1 DEF Cut
  <2>2. PICK b \in bits : b \in f .. f + w - 1 /\ c = b - f
    BY <2>1 DEF Cut
  <2>3. x \in 0 .. n - 1 /\ f + s + x = b
    BY <2>1, <2>2
  <2> QED BY <2>2, <2>3
<1>2. ASSUME NEW i \in 0 .. n - 1, f + s + i \in bits
      PROVE  i \in Cut(Cut(bits, f, w), s, n)
  <2>1. PICK b \in bits : b = f + s + i
    BY <1>2
  <2>2. b \in f .. f + w - 1 /\ b - f = s + i /\ s + i \in s .. s + n - 1 /\ (s + i) - s = i
    BY <2>1
  <2>3. s + i \in Cut(bits, f, w)
    BY <2>2 DEF Cut
  <2> QED BY <2>2, <2>3 DEF Cut
<1> QED BY <1>1, <1>2

\* A window that is put back changes the bits that it covers.
LEMMA BitsPut ==
  ASSUME NEW bits, NEW f \in Nat, NEW w \in Nat, NEW new \in SUBSET (0 .. w - 1), NEW p \in Nat
  PROVE  p \in Put(bits, f, w, new) <=>
           IF p \in f .. f + w - 1 THEN p - f \in new ELSE p \in bits
<1>1. CASE p \in f .. f + w - 1
  <2>1. ASSUME p - f \in new PROVE p \in {b + f : b \in new}
    <3>1. PICK b \in new : b = p - f
      BY <2>1
    <3>2. b + f = p
      BY <3>1
    <3> QED BY <3>2
  <2>2. ASSUME p \in {b + f : b \in new} PROVE p - f \in new
    <3>1. PICK b \in new : p = b + f
      BY <2>2
    <3>2. b \in 0 .. w - 1
      OBVIOUS
    <3>3. p - f = b
      BY <3>1, <3>2
    <3> QED BY <3>3
  <2>3. p \notin bits \ (f .. f + w - 1)
    BY <1>1
  <2> QED BY <1>1, <2>1, <2>2, <2>3, Zenon DEF Put
<1>2. CASE p \notin f .. f + w - 1
  <2>1. p \notin {b + f : b \in new}
    <3> SUFFICES ASSUME NEW b \in new, p = b + f PROVE FALSE
      OBVIOUS
    <3>1. b \in 0 .. w - 1
      OBVIOUS
    <3> QED BY <1>2, <3>1
  <2> QED BY <1>2, <2>1, Zenon DEF Put
<1> QED BY <1>1, <1>2

\* A value that is merged into its window replaces the field, if it does not reach beyond it.
LEMMA BitsMerged ==
  ASSUME NEW bits, NEW f \in Nat, NEW s \in Nat, NEW n \in Nat, NEW w \in Nat, s + n <= w,
         NEW value \in SUBSET Nat, s + n = w \/ value \subseteq 0 .. n - 1, NEW p \in Nat
  PROVE  p \in Put(bits, f, w, Replaced(bits, f, s, n, w, value)) <=>
           IF p \in f + s .. f + s + n - 1 THEN p - (f + s) \in value ELSE p \in bits
<1>1. PICK new : /\ new = Replaced(bits, f, s, n, w, value)
                 /\ new = (Cut(bits, f, w) \ (s .. s + n - 1)) \cup Moved(value, s, w)
  BY DEF Replaced
<1>2. ASSUME NEW c \in Nat
      PROVE  c \in new <=> \/ c \in 0 .. w - 1 /\ c \notin s .. s + n - 1 /\ f + c \in bits
                           \/ c \in s .. s + n - 1 /\ c - s \in value
  <2>1. c \in Cut(bits, f, w) <=> c \in 0 .. w - 1 /\ f + c \in bits
    <3>1. ASSUME c \in Cut(bits, f, w) PROVE c \in 0 .. w - 1 /\ f + c \in bits
      <4>1. PICK b \in bits : b \in f .. f + w - 1 /\ c = b - f
        BY <3>1 DEF Cut
      <4>2. f + c = b /\ c \in 0 .. w - 1
        BY <4>1
      <4> QED BY <4>2
    <3>2. ASSUME c \in 0 .. w - 1, f + c \in bits PROVE c \in Cut(bits, f, w)
      <4>1. f + c \in f .. f + w - 1 /\ (f + c) - f = c
        BY <3>2
      <4> QED BY <3>2, <4>1 DEF Cut
    <3> QED BY <3>1, <3>2
  <2>2. c \in Moved(value, s, w) <=> c \in s .. s + n - 1 /\ c - s \in value
    <3>1. ASSUME c \in Moved(value, s, w) PROVE c \in s .. s + n - 1 /\ c - s \in value
      <4>1. PICK b \in value : c = b + s /\ c \in 0 .. w - 1
        BY <3>1 DEF Moved
      <4>2. b \in Nat /\ c - s = b
        BY <4>1
      <4>3. c \in s .. s + n - 1
        <5>1. CASE s + n = w
          BY <4>1, <4>2, <5>1
        <5>2. CASE value \subseteq 0 .. n - 1
          <6>1. b \in 0 .. n - 1
            BY <4>1, <5>2
          <6> QED BY <4>1, <6>1
        <5> QED BY <5>1, <5>2
      <4> QED BY <4>2, <4>3
    <3>2. ASSUME c \in s .. s + n - 1, c - s \in value PROVE c \in Moved(value, s, w)
      <4>1. PICK b \in value : b = c - s
        BY <3>2
      <4>2. b + s = c /\ c \in 0 .. w - 1
        BY <3>2, <4>1
      <4> QED BY <4>2 DEF Moved
    <3> QED BY <3>1, <3>2
  <2> QED BY <1>1, <2>1, <2>2, Zenon
<1>3. new \in SUBSET (0 .. w - 1)
  <2>1. Cut(bits, f, w) \subseteq 0 .. w - 1
    <3> SUFFICES ASSUME NEW b \in bits, b \in f .. f + w - 1 PROVE b - f \in 0 .. w - 1
      BY DEF Cut
    <3> QED OBVIOUS
  <2> QED BY <1>1, <2>1 DEF Moved
<1>4. p \in Put(bits, f, w, new) <=> IF p \in f .. f + w - 1 THEN p - f \in new ELSE p \in bits
  BY <1>3, BitsPut
<1>5. CASE p \in f .. f + w - 1
  <2>1. PICK c \in 0 .. w - 1 : c = p - f /\ p = f + c
    BY <1>5
  <2>2. c \in Nat /\ (c \in s .. s + n - 1 <=> p \in f + s .. f + s + n - 1) /\ c - s = p - (f + s)
    BY <2>1
  <2> QED BY <1>1, <1>2, <1>4, <1>5, <2>1, <2>2, Zenon
<1>6. CASE p \notin f .. f + w - 1
  <2>1. p \notin f + s .. f + s + n - 1
    BY <1>6
  <2> QED BY <1>1, <1>4, <1>6, <2>1, Zenon
<1> QED BY <1>5, <1>6

\* The field of a variable in a message.
FieldOf(bits, var) == Cut(Cut(bits, First(var), Size[var.obj]), Shift(var), var.len)

LEMMA FieldIs == \A var : Field(var) = FieldOf(data, var)
BY DEF Field, Window, FieldOf, Cut

\* Where a variable is, in numbers.
LEMMA VariableIs ==
  ASSUME NEW var \in Mapped, var.obj \in Objects
  PROVE  /\ First(var) \in Nat /\ Shift(var) \in Nat /\ First(var) + Shift(var) = var.offset
         /\ var.len \in Nat /\ var.offset \in Nat /\ Size[var.obj] \in Nat
<1>1. var.len \in Nat /\ var.offset \in Nat
  BY DEF Mapped
<1>2. Size[var.obj] \in Nat
  <2>1. Size[var.obj] \in {n * Byte : n \in 1 .. 4}
    BY PdoAssumption
  <2> QED BY <2>1, PdoAssumption
<1> QED BY <1>1, <1>2, OffsetParts DEF First, Shift

LEMMA FieldBits ==
  ASSUME NEW bits, NEW var \in Mapped, var.obj \in Objects,
         Shift(var) + var.len <= Size[var.obj]
  PROVE  FieldOf(bits, var) = {i \in 0 .. var.len - 1 : var.offset + i \in bits}
<1>1. PICK f \in Nat, s \in Nat, n \in Nat, w \in Nat, o \in Nat :
        /\ f = First(var) /\ s = Shift(var) /\ n = var.len /\ w = Size[var.obj]
        /\ o = var.offset /\ f + s = o /\ s + n <= w
  BY VariableIs
<1>2. Cut(Cut(bits, f, w), s, n) = {i \in 0 .. n - 1 : f + s + i \in bits}
  BY <1>1, FieldOfWindow
<1> QED BY <1>1, <1>2 DEF FieldOf

\* A value of a field of n bits in a type of w: bits of the field, and ones above them
\* if it is negative.
FitsIn(value, obj, n, w) ==
  /\ value \in SUBSET (0 .. w - 1)
  /\ obj \in Signed \/ value \subseteq 0 .. n - 1
  /\ value = IF obj \in Signed /\ n - 1 \in value
             THEN (value \cap (0 .. n - 1)) \cup (n .. w - 1)
             ELSE value \cap (0 .. n - 1)

LEMMA FittingIs ==
  ASSUME NEW var \in Mapped, var.obj \in Objects, var.len # 0, NEW value \in Fitting(var),
         var.len <= Size[var.obj]
  PROVE  FitsIn(value, var.obj, var.len, Size[var.obj])
<1>1. PICK n \in Nat, w \in Nat : n = var.len /\ w = Size[var.obj] /\ n # 0 /\ n <= w
  BY VariableIs
<1>2. PICK low \in SUBSET (0 .. n - 1) :
        value = IF Negative(var, low) THEN low \cup (n .. w - 1) ELSE low
  BY <1>1 DEF Fitting
<1>3. CASE Negative(var, low)
  <2>1. value = low \cup (n .. w - 1) /\ var.obj \in Signed /\ n - 1 \in low
    BY <1>1, <1>2, <1>3 DEF Negative
  <2>2. /\ \A x \in low : x \in 0 .. n - 1 /\ x \in 0 .. w - 1
        /\ \A x \in n .. w - 1 : x \notin 0 .. n - 1 /\ x \in 0 .. w - 1
    BY <1>1
  <2>3. value \cap (0 .. n - 1) = low /\ value \in SUBSET (0 .. w - 1) /\ n - 1 \in value
    BY <2>1, <2>2, Zenon
  <2>4. FitsIn(value, var.obj, n, w)
    BY <2>1, <2>3, Zenon DEF FitsIn
  <2> QED BY <1>1, <2>4, Zenon
<1>4. CASE ~Negative(var, low)
  <2>1. value = low /\ ~(var.obj \in Signed /\ n - 1 \in low)
    BY <1>1, <1>2, <1>4 DEF Negative
  <2>2. \A x \in low : x \in 0 .. n - 1 /\ x \in 0 .. w - 1
    BY <1>1
  <2>3. value \cap (0 .. n - 1) = value /\ value \in SUBSET (0 .. w - 1)
        /\ value \subseteq 0 .. n - 1
    BY <2>1, <2>2, Zenon
  <2>4. FitsIn(value, var.obj, n, w)
    BY <2>1, <2>3, Zenon DEF FitsIn
  <2> QED BY <1>1, <2>4, Zenon
<1> QED BY <1>3, <1>4

\* set_data changes the bits of its variable, and no others.
LEMMA BitsWritten ==
  ASSUME NEW var \in Mapped, var.obj \in Objects, var.len # 0, Sound(var),
         NEW value \in Fitting(var), NEW p \in Nat
  PROVE  p \in WithValue(var, value) <=>
           IF p \in var.offset .. var.offset + var.len - 1 THEN p - var.offset \in value
           ELSE p \in data
<1>1. PICK f \in Nat, s \in Nat, n \in Nat, w \in Nat, o \in Nat :
        /\ f = First(var) /\ s = Shift(var) /\ n = var.len /\ w = Size[var.obj]
        /\ o = var.offset /\ f + s = o /\ s + n <= w
  BY VariableIs DEF Sound
<1>2. var.len <= Size[var.obj]
  BY <1>1
<1>3. /\ value \in SUBSET (0 .. w - 1) /\ value \in SUBSET Nat
      /\ s + n = w \/ value \subseteq 0 .. n - 1
  <2>1. /\ value \in SUBSET (0 .. w - 1)
        /\ var.obj \in Signed \/ value \subseteq 0 .. n - 1
    <3>1. FitsIn(value, var.obj, n, w)
      BY <1>1, <1>2, FittingIs, Zenon
    <3> QED BY <3>1 DEF FitsIn
  <2>2. var.obj \in Signed => s + n = w
    BY <1>1 DEF Sound
  <2> QED BY <2>1, <2>2
<1>4. WithValue(var, value) = Put(data, f, w, NewWindow(var, value))
  BY <1>1 DEF WithValue, Put
<1>5. CASE Packed(var)
  <2>1. NewWindow(var, value) = Replaced(data, f, s, n, w, value)
    BY <1>1, <1>5 DEF NewWindow, Merged, Window, Cut, Moved, Replaced
  <2>2. p \in Put(data, f, w, Replaced(data, f, s, n, w, value)) <=>
          IF p \in f + s .. f + s + n - 1 THEN p - (f + s) \in value ELSE p \in data
    BY <1>1, <1>3, BitsMerged
  <2> QED BY <1>1, <1>4, <2>1, <2>2, Zenon
<1>6. CASE ~Packed(var)
  <2>1. s = 0 /\ n = w /\ NewWindow(var, value) = value
    BY <1>1, <1>6 DEF Packed, Sound, NewWindow
  <2>2. p \in Put(data, f, w, value) <=>
          IF p \in f .. f + w - 1 THEN p - f \in value ELSE p \in data
    BY <1>3, BitsPut
  <2>3. f = o
    BY <1>1, <2>1
  <2> QED BY <1>1, <1>4, <2>1, <2>2, <2>3, Zenon
<1> QED BY <1>5, <1>6

\* get_data puts the sign back.
LEMMA FieldIsRead ==
  ASSUME NEW var \in Mapped, var.obj \in Objects, var.len # 0, Sound(var),
         NEW value \in Fitting(var), Field(var) = value \cap (0 .. var.len - 1),
         Field(var) # {var.len - 1}
  PROVE  GetData(var) = value
<1>1. PICK f \in Nat, s \in Nat, n \in Nat, w \in Nat :
        /\ f = First(var) /\ s = Shift(var) /\ n = var.len /\ w = Size[var.obj]
        /\ s + n <= w /\ n # 0
  BY VariableIs DEF Sound
<1>2. var.len <= Size[var.obj]
  BY <1>1
<1>3. value = IF var.obj \in Signed /\ n - 1 \in value
              THEN (value \cap (0 .. n - 1)) \cup (n .. w - 1)
              ELSE value \cap (0 .. n - 1)
  <2>1. FitsIn(value, var.obj, n, w)
    BY <1>1, <1>2, FittingIs, Zenon
  <2> QED BY <2>1, Zenon DEF FitsIn
<1>4. n - 1 \in value <=> n - 1 \in Field(var)
  BY <1>1
<1>5. CASE Packed(var)
  <2>1. GetData(var) = IF var.obj \in Signed /\ n - 1 \in Field(var)
                       THEN Field(var) \cup (n .. w - 1) ELSE Field(var)
    BY <1>1, <1>5 DEF GetData
  <2> QED BY <1>1, <1>3, <1>4, <2>1, Zenon
<1>6. CASE ~Packed(var)
  <2>1. s = 0 /\ n = w /\ GetData(var) = Window(var)
    BY <1>1, <1>6 DEF Packed, Sound, GetData
  <2>2. Window(var) = Cut(data, f, w) /\ Field(var) = Cut(Window(var), s, n)
    BY <1>1 DEF Field, Window, Cut
  <2>3. \A b \in Cut(data, f, w) : b \in 0 .. w - 1
    BY <1>1 DEF Cut
  <2>4. Cut(Window(var), 0, w) = Window(var)
    <3>1. PICK c : c = Window(var)
      OBVIOUS
    <3>2. \A b \in c : b \in 0 .. w - 1 /\ b - 0 = b
      BY <2>2, <2>3, <3>1
    <3>3. c \cap (0 .. 0 + w - 1) = c
      BY <3>2
    <3>4. {b - 0 : b \in c} = c
      BY <3>2
    <3> QED BY <3>1, <3>3, <3>4 DEF Cut
  <2>5. n .. w - 1 = {}
    BY <2>1
  <2>6. value = value \cap (0 .. n - 1)
    BY <1>3, <2>5, Zenon
  <2> QED BY <1>1, <2>1, <2>2, <2>4, <2>6, Zenon
<1> QED BY <1>5, <1>6

-----------------------------------------------------------------------------
\* The inductive invariant of the message.

\* Of the variables with a length none reaches into the next, or beyond the l bits of the map.
InLayout(m, l) ==
  \A k \in DOMAIN m : m[k].len # 0 =>
    /\ m[k].obj \in Objects
    /\ m[k].offset + m[k].len <= l
    /\ \A j \in 1 .. k - 1 : m[j].len # 0 => m[j].offset + m[j].len <= m[k].offset

LayoutInv == length \in Nat /\ InLayout(map, length)

\* What the history holds was written to a variable with a length, and fits it.
WrittenInv ==
  /\ written = [k \in DOMAIN map |-> written[k]]
  /\ \A k \in DOMAIN map : written[k] # None =>
       map[k].len # 0 /\ written[k] \in Fitting(map[k])

AllSound == \A k \in DOMAIN map : map[k].len = 0 \/ Sound(map[k])

FieldInv ==
  AllSound => \A k \in DOMAIN map : written[k] # None =>
    Field(map[k]) = written[k] \cap (0 .. map[k].len - 1)

SentInv ==
  /\ task = [on |-> task.on, data |-> task.data]
  /\ \A k \in DOMAIN map : written[k] # None => (task.on => task.data = data)

MessageInv == LayoutInv /\ WrittenInv /\ FieldInv /\ SentInv

\* Two variables with a length do not overlap.
LEMMA Apart ==
  ASSUME NEW m \in Seq(Mapped), NEW l \in Nat, InLayout(m, l),
         NEW j \in DOMAIN m, NEW k \in DOMAIN m, j # k, m[j].len # 0, m[k].len # 0
  PROVE  m[j].offset + m[j].len <= m[k].offset \/ m[k].offset + m[k].len <= m[j].offset
<1>1. j \in 1 .. Len(m) /\ k \in 1 .. Len(m)
  OBVIOUS
<1>2. j \in 1 .. k - 1 \/ k \in 1 .. j - 1
  BY <1>1
<1> QED BY <1>2 DEF InLayout

\* add_variable puts its variable behind the others.
LEMMA LayoutOfAppend ==
  ASSUME NEW m \in Seq(Mapped), NEW l \in Nat, InLayout(m, l), NEW v \in Mapped,
         v.obj \in Objects, v.offset = l
  PROVE  InLayout(Append(m, v), l + v.len)
<1>1. PICK t : t = Append(m, v)
  OBVIOUS
<1>2. /\ DOMAIN t = 1 .. Len(m) + 1 /\ t[Len(m) + 1] = v /\ Len(m) \in Nat
      /\ \A i \in 1 .. Len(m) : t[i] = m[i] /\ m[i] \in Mapped
  BY <1>1
<1>3. v.len \in Nat /\ v.offset \in Nat
  BY DEF Mapped
<1>4. \A i \in 1 .. Len(m) : /\ m[i].len \in Nat /\ m[i].offset \in Nat
                             /\ m[i].len # 0 => m[i].obj \in Objects /\ m[i].offset + m[i].len <= l
  BY <1>2 DEF Mapped, InLayout
<1>5. ASSUME NEW k \in DOMAIN t, t[k].len # 0
      PROVE  /\ t[k].obj \in Objects
             /\ t[k].offset + t[k].len <= l + v.len
             /\ \A j \in 1 .. k - 1 : t[j].len # 0 => t[j].offset + t[j].len <= t[k].offset
  <2>1. CASE k = Len(m) + 1
    <3>1. t[k] = v /\ \A j \in 1 .. k - 1 : j \in 1 .. Len(m)
      BY <1>2, <2>1
    <3>2. \A j \in 1 .. k - 1 : t[j].len # 0 => t[j].offset + t[j].len <= l
      BY <1>2, <1>4, <3>1, Zenon
    <3>3. t[k].obj \in Objects /\ t[k].offset = l /\ t[k].len = v.len
      BY <3>1, Zenon
    <3>4. t[k].offset + t[k].len <= l + v.len
      <4>1. l + v.len <= l + v.len
        BY <1>3
      <4> QED BY <3>3, <4>1, Zenon
    <3> QED BY <3>2, <3>3, <3>4, Zenon
  <2>2. CASE k # Len(m) + 1
    <3>1. k \in 1 .. Len(m) /\ t[k] = m[k] /\ \A j \in 1 .. k - 1 : j \in 1 .. Len(m)
      BY <1>2, <2>2
    <3>2. /\ m[k].obj \in Objects /\ m[k].offset + m[k].len <= l
          /\ \A j \in 1 .. k - 1 : m[j].len # 0 => m[j].offset + m[j].len <= m[k].offset
      BY <1>5, <3>1 DEF InLayout
    <3>3. \A j \in 1 .. k - 1 : t[j].len # 0 => t[j].offset + t[j].len <= t[k].offset
      BY <1>2, <3>1, <3>2, Zenon
    <3>4. t[k].offset + t[k].len <= l + v.len
      <4>1. \A a \in Nat, b \in Nat, c \in Nat : a + b <= l => a + b <= l + c
        OBVIOUS
      <4>2. m[k].offset + m[k].len <= l + v.len
        BY <1>3, <1>4, <3>1, <3>2, <4>1, Zenon
      <4> QED BY <3>1, <4>2, Zenon
    <3> QED BY <3>1, <3>2, <3>3, <3>4, Zenon
  <2> QED BY <2>1, <2>2
<1> QED BY <1>1, <1>5 DEF InLayout

\* Dummies change nothing.
LEMMA LayoutOfFilled ==
  ASSUME NEW n \in Nat, map \in Seq(Mapped), InLayout(map, length)
  PROVE  InLayout(Filled(n), length)
<1>1. PICK t : t = Filled(n)
  OBVIOUS
<1>2. PICK d : d = [obj |-> None, len |-> 0, offset |-> 0]
  OBVIOUS
<1>3. PICK z : z = [k \in 1 .. n - Len(map) |-> d]
  OBVIOUS
<1>4. z \in Seq(Mapped) /\ \A i \in 1 .. Len(z) : z[i].len = 0
  <2>1. d \in Mapped /\ d.len = 0 /\ Len(map) \in Nat
    BY <1>2 DEF Mapped
  <2>2. PICK m \in Nat : 1 .. n - Len(map) = 1 .. m
    <3>1. CASE n - Len(map) \in Nat
      BY <3>1
    <3>2. CASE n - Len(map) \notin Nat
      <4>1. 1 .. n - Len(map) = 1 .. 0
        BY <2>1, <3>2
      <4> QED BY <4>1
    <3> QED BY <3>1, <3>2
  <2>3. z = [k \in 1 .. m |-> d]
    BY <1>3, <2>2
  <2> QED BY <2>1, <2>3
<1>5. t = map \o z
  BY <1>1, <1>2, <1>3 DEF Filled
<1>6. /\ t \in Seq(Mapped) /\ Len(t) = Len(map) + Len(z) /\ DOMAIN t = 1 .. Len(t)
      /\ \A i \in 1 .. Len(map) : t[i] = map[i]
      /\ \A i \in Len(map) + 1 .. Len(t) : t[i] = z[i - Len(map)]
      /\ Len(map) \in Nat /\ Len(z) \in Nat
  BY <1>4, <1>5
<1>7. \A i \in DOMAIN t : t[i].len # 0 => i \in 1 .. Len(map)
  <2> SUFFICES ASSUME NEW i \in DOMAIN t, i \notin 1 .. Len(map) PROVE t[i].len = 0
    OBVIOUS
  <2>1. i \in Len(map) + 1 .. Len(t) /\ i - Len(map) \in 1 .. Len(z)
    BY <1>6
  <2> QED BY <1>4, <1>6, <2>1
<1>8. ASSUME NEW k \in DOMAIN t, t[k].len # 0
      PROVE  /\ t[k].obj \in Objects
             /\ t[k].offset + t[k].len <= length
             /\ \A j \in 1 .. k - 1 : t[j].len # 0 => t[j].offset + t[j].len <= t[k].offset
  <2>1. k \in 1 .. Len(map) /\ k \in DOMAIN map /\ t[k] = map[k]
    BY <1>6, <1>7, <1>8
  <2>2. \A j \in 1 .. k - 1 : t[j] = map[j]
    BY <1>6, <2>1
  <2> QED BY <1>8, <2>1, <2>2 DEF InLayout
<1> QED BY <1>1, <1>8 DEF InLayout

\* Offsets that follow from the lengths before.
LEMMA LayoutOfPlaced ==
  ASSUME NEW r \in Seq(Entry), \A i \in 1 .. Len(r) : r[i].len # 0 /\ r[i].obj \in Objects
  PROVE  InLayout(Placed(r), Total(r))
<1>1. PICK f : f = TotalUpTo(r)
  OBVIOUS
<1>2. PICK n \in Nat : n = Len(r)
  OBVIOUS
<1>3. \A i \in 1 .. n : r[i].len \in Nat
  <2> SUFFICES ASSUME NEW i \in 1 .. n PROVE r[i].len \in Nat
    OBVIOUS
  <2>1. r[i] \in Entry
    BY <1>2, ElementOfSeq
  <2> QED BY <2>1 DEF Entry
<1>4. f[0] = 0 /\ \A k \in 1 .. n : f[k] = f[k - 1] + r[k].len
  BY <1>1, <1>2, TotalSteps
<1> DEFINE T == {k \in Nat : k <= n => f[k] \in Nat /\ \A j \in 0 .. k : f[j] \in Nat /\ f[j] <= f[k]}
<1>5. 0 \in T
  BY <1>4
<1>6. ASSUME NEW k \in T PROVE k + 1 \in T
  <2> SUFFICES ASSUME k + 1 <= n
               PROVE f[k + 1] \in Nat /\ \A j \in 0 .. k + 1 : f[j] \in Nat /\ f[j] <= f[k + 1]
    OBVIOUS
  <2>1. k \in Nat /\ k + 1 \in 1 .. n /\ (k + 1) - 1 = k
    OBVIOUS
  <2>2. f[k] \in Nat /\ \A j \in 0 .. k : f[j] \in Nat /\ f[j] <= f[k]
    BY <2>1
  <2>3. f[k + 1] = f[k] + r[k + 1].len /\ r[k + 1].len \in Nat
    BY <1>3, <1>4, <2>1
  <2> HIDE DEF T
  <2>4. ASSUME NEW j \in 0 .. k + 1 PROVE j = k + 1 \/ j \in 0 .. k
    BY <2>1
  <2> QED BY <2>2, <2>3, <2>4
<1>7. T = Nat
  <2> HIDE DEF T
  <2> QED BY <1>5, <1>6, SetInduction DEF T
<1>8. \A k \in 0 .. n : f[k] \in Nat /\ \A j \in 0 .. k : f[j] \in Nat /\ f[j] <= f[k]
  <2> SUFFICES ASSUME NEW k \in 0 .. n
               PROVE  f[k] \in Nat /\ \A j \in 0 .. k : f[j] \in Nat /\ f[j] <= f[k]
    OBVIOUS
  <2>1. k \in T /\ k <= n
    BY <1>7
  <2> QED BY <2>1
<1> HIDE DEF T
<1>9. PICK t : t = Placed(r)
  OBVIOUS
<1>10. DOMAIN t = 1 .. n
  BY <1>2, <1>9 DEF Placed
<1>11. ASSUME NEW k \in 1 .. n
       PROVE  t[k].obj = r[k].obj /\ t[k].len = r[k].len /\ t[k].offset = f[k - 1]
              /\ f[k] = f[k - 1] + r[k].len
  <2>1. TotalBefore(r, k) = f[k - 1]
    BY <1>1, TotalIsLast, Zenon
  <2>2. t[k] = [obj |-> r[k].obj, len |-> r[k].len, offset |-> f[k - 1]]
    BY <1>2, <1>9, <2>1 DEF Placed
  <2> QED BY <1>4, <2>2
<1>12. Total(r) = f[n]
  BY <1>1, <1>2, TotalIs, Zenon
<1>13. ASSUME NEW k \in 1 .. n
       PROVE  /\ t[k].obj \in Objects
              /\ t[k].offset + t[k].len <= f[n]
              /\ \A j \in 1 .. k - 1 : t[j].offset + t[j].len <= t[k].offset
  <2>1. t[k].offset + t[k].len = f[k] /\ f[k] <= f[n]
    <3>1. n \in 0 .. n /\ k \in 0 .. n
      OBVIOUS
    <3> QED BY <1>8, <1>11, <3>1, Zenon
  <2>2. ASSUME NEW j \in 1 .. k - 1 PROVE t[j].offset + t[j].len <= t[k].offset
    <3>1. k - 1 \in 0 .. n /\ j \in 0 .. k - 1 /\ j \in 1 .. n
      OBVIOUS
    <3>2. f[j] <= f[k - 1]
      BY <1>8, <3>1, Zenon
    <3>3. t[j].offset + t[j].len = f[j] /\ t[k].offset = f[k - 1]
      BY <1>11, <3>1, Zenon
    <3> QED BY <3>2, <3>3, Zenon
  <2>3. t[k].obj \in Objects
    BY <1>2, <1>11, Zenon
  <2> QED BY <2>1, <2>2, <2>3, Zenon
<1> QED BY <1>9, <1>10, <1>12, <1>13, Zenon DEF InLayout

\* The variables of a map that is packed.
LEMMA VariablesAre ==
  ASSUME MapInv, LayoutInv, NEW k \in DOMAIN map
  PROVE  map[k] \in Mapped /\ (map[k].len # 0 => map[k].obj \in Objects)
<1>1. map \in Seq(Mapped) /\ k \in 1 .. Len(map)
  BY DEF MapInv
<1>2. map[k] \in Mapped
  BY <1>1, ElementOfSeq
<1> QED BY <1>2 DEF LayoutInv, InLayout

\* What is written to a variable is in its field, and the fields of the others stay as they were.
LEMMA FieldsWritten ==
  ASSUME MapInv, MessageInv, NEW k \in DOMAIN map, NEW value \in Fitting(map[k]),
         SetVariable(k, value)
  PROVE  FieldInv'
<1>1. /\ map[k].len # 0 /\ data' = WithValue(map[k], value)
      /\ written' = [written EXCEPT ![k] = value]
      /\ UNCHANGED <<map, length>>
  <2>1. map[k].len > 0 => map[k].len # 0
    <3>1. map[k].len \in Nat
      BY VariablesAre DEF MessageInv, Mapped
    <3> QED BY <3>1
  <2> QED BY <2>1 DEF SetVariable, confVars
<1>2. AllSound' <=> AllSound
  BY <1>1 DEF AllSound, Sound, Packed, Shift, First
<1>3. SUFFICES ASSUME AllSound, NEW j \in DOMAIN map, written'[j] # None
               PROVE  Field(map[j])' = written'[j] \cap (0 .. map[j].len - 1)
  BY <1>1, <1>2 DEF FieldInv
<1>4. DOMAIN written = DOMAIN map
  BY DEF MessageInv, WrittenInv
<1>5. map[j].len # 0 /\ written'[j] = IF j = k THEN value ELSE written[j]
  <2>1. written'[j] = IF j = k THEN value ELSE written[j]
    BY <1>1, <1>4
  <2> QED BY <1>1, <1>3, <2>1 DEF MessageInv, WrittenInv
<1>6. PICK u : u = map[j]
  OBVIOUS
<1>7. PICK v : v = map[k]
  OBVIOUS
<1>8. /\ u \in Mapped /\ u.obj \in Objects /\ Sound(u) /\ u.len # 0
      /\ v \in Mapped /\ v.obj \in Objects /\ Sound(v) /\ v.len # 0
  BY <1>1, <1>3, <1>5, <1>6, <1>7, VariablesAre DEF MessageInv, AllSound
<1>9. u.len \in Nat /\ u.offset \in Nat /\ v.len \in Nat /\ v.offset \in Nat
  BY <1>8 DEF Mapped
<1>10. Shift(u) + u.len <= Size[u.obj]
  BY <1>8 DEF Sound
<1>11. /\ FieldOf(data', u) = {i \in 0 .. u.len - 1 : u.offset + i \in data'}
       /\ FieldOf(data, u) = {i \in 0 .. u.len - 1 : u.offset + i \in data}
  BY <1>8, <1>10, FieldBits
<1>12. Field(map[j])' = FieldOf(data', u) /\ Field(u) = FieldOf(data, u)
  BY <1>1, <1>6 DEF Field, Window, FieldOf, Cut, First, Shift
<1>13. \A p \in Nat : p \in data' <=>
         IF p \in v.offset .. v.offset + v.len - 1 THEN p - v.offset \in value ELSE p \in data
  BY <1>1, <1>7, <1>8, BitsWritten
<1>14. CASE j = k
  <2>1. u = v /\ written'[j] = value
    BY <1>5, <1>6, <1>7, <1>14
  <2>2. ASSUME NEW i \in 0 .. v.len - 1 PROVE v.offset + i \in data' <=> i \in value
    <3>1. PICK p \in Nat : p = v.offset + i
      BY <1>9
    <3>2. p \in v.offset .. v.offset + v.len - 1 /\ p - v.offset = i
      BY <1>9, <3>1
    <3> QED BY <1>13, <3>1, <3>2, Zenon
  <2>3. FieldOf(data', v) = value \cap (0 .. v.len - 1)
    BY <1>11, <2>1, <2>2, Zenon
  <2> QED BY <1>6, <1>12, <2>1, <2>3, Zenon
<1>15. CASE j # k
  <2>1. u.offset + u.len <= v.offset \/ v.offset + v.len <= u.offset
    BY <1>6, <1>7, <1>8, <1>15, Apart DEF MapInv, MessageInv, LayoutInv
  <2>2. ASSUME NEW i \in 0 .. u.len - 1 PROVE u.offset + i \in data' <=> u.offset + i \in data
    <3>1. PICK p \in Nat : p = u.offset + i
      BY <1>9
    <3>2. p \notin v.offset .. v.offset + v.len - 1
      BY <1>9, <2>1, <3>1
    <3> QED BY <1>13, <3>1, <3>2, Zenon
  <2>3. FieldOf(data', u) = FieldOf(data, u)
    BY <1>11, <2>2, Zenon
  <2>4. written'[j] = written[j]
    BY <1>5, <1>15
  <2>5. Field(map[j]) = written[j] \cap (0 .. map[j].len - 1)
    BY <1>3, <2>4 DEF MessageInv, FieldInv
  <2> QED BY <1>6, <1>12, <2>3, <2>4, <2>5, Zenon
<1> QED BY <1>14, <1>15

\* set_data keeps the invariant: the periodic message is updated too.
LEMMA SetKeeps ==
  ASSUME MapInv, MessageInv, NEW k \in DOMAIN map, NEW value \in Fitting(map[k]),
         SetVariable(k, value)
  PROVE  MessageInv'
<1>1. /\ map[k].len > 0 /\ UNCHANGED <<map, length>>
      /\ task' = IF task.on THEN [task EXCEPT !.data = data'] ELSE task
      /\ written' = [written EXCEPT ![k] = value]
  BY DEF SetVariable, confVars
<1>2. map[k].len # 0
  <2>1. map[k].len \in Nat
    BY VariablesAre DEF MessageInv, Mapped
  <2> QED BY <1>1, <2>1
<1>3. LayoutInv'
  BY <1>1 DEF MessageInv, LayoutInv
<1>4. WrittenInv'
  <2>1. \A j \in DOMAIN map : Fitting(map[j])' = Fitting(map[j])
    BY <1>1 DEF Fitting, Negative
  <2>2. \A j \in DOMAIN map : written'[j] = IF j = k THEN value ELSE written[j]
    BY <1>1 DEF MessageInv, WrittenInv
  <2>3. written' = [j \in DOMAIN map |-> written'[j]]
    BY <1>1 DEF MessageInv, WrittenInv
  <2> QED BY <1>1, <1>2, <2>1, <2>2, <2>3 DEF MessageInv, WrittenInv
<1>5. SentInv'
  <2>1. /\ task' = [on |-> task'.on, data |-> task'.data]
        /\ task'.on = task.on /\ (task.on => task'.data = data')
    BY <1>1 DEF MessageInv, SentInv
  <2> QED BY <2>1 DEF SentInv
<1>6. FieldInv'
  BY FieldsWritten
<1> QED BY <1>3, <1>4, <1>5, <1>6 DEF MessageInv

\* Steps that change neither the map nor the message nor its history.
LEMMA MessageStays ==
  ASSUME MessageInv, UNCHANGED <<map, length, data, written>>,
         task' = [on |-> task'.on, data |-> task'.data],
         task'.on => task'.data = data \/ task' = task
  PROVE  MessageInv'
<1>1. LayoutInv'
  BY DEF MessageInv, LayoutInv
<1>2. WrittenInv'
  BY DEF MessageInv, WrittenInv, Fitting, Negative
<1>3. FieldInv'
  BY DEF MessageInv, FieldInv, AllSound, Sound, Packed, Shift, First, Field, Window
<1>4. SentInv'
  BY DEF MessageInv, SentInv
<1> QED BY <1>1, <1>2, <1>3, <1>4 DEF MessageInv

\* Steps after which nothing has been written to the message.
LEMMA NothingWritten ==
  ASSUME MessageInv, written' = Unwritten(map'), UNCHANGED task, LayoutInv'
  PROVE  MessageInv'
<1>1. \A k \in DOMAIN map' : written'[k] = None
  BY DEF Unwritten
<1>2. WrittenInv'
  BY <1>1 DEF WrittenInv, Unwritten
<1>3. FieldInv'
  BY <1>1 DEF FieldInv
<1>4. SentInv'
  BY <1>1 DEF MessageInv, SentInv
<1> QED BY <1>2, <1>3, <1>4 DEF MessageInv

\* How the map changes: not at all, to no variables, by one more, or by dummies.
MapMoves ==
  \/ UNCHANGED <<map, length>>
  \/ map' = <<>> /\ length' = 0
  \/ \E obj, len : len \in Nat /\ Added(obj, len)
  \/ \E n \in Nat : map' = Filled(n) /\ UNCHANGED length

LEMMA LayoutKeeps ==
  ASSUME MapInv, LayoutInv, MapMoves
  PROVE  LayoutInv'
<1>1. CASE UNCHANGED <<map, length>>
  BY <1>1 DEF LayoutInv
<1>2. CASE map' = <<>> /\ length' = 0
  <2>1. DOMAIN map' = {}
    BY <1>2
  <2> QED BY <1>2, <2>1 DEF LayoutInv, InLayout
<1>3. CASE \E obj, len : len \in Nat /\ Added(obj, len)
  <2>1. PICK obj, len : len \in Nat /\ Added(obj, len)
    BY <1>3
  <2>2. CASE obj \notin Known
    BY <1>1, <2>1, <2>2 DEF Added
  <2>3. CASE obj \in Known
    <3>1. PICK v : v = [obj |-> obj, len |-> len, offset |-> length]
      OBVIOUS
    <3>2. map' = Append(map, v) /\ length' = length + v.len
      BY <2>1, <2>3, <3>1 DEF Added
    <3>3. v \in Mapped /\ v.obj \in Objects /\ v.offset = length /\ v.len \in Nat
      BY <2>1, <2>3, <3>1, SetupAssumption DEF LayoutInv, Mapped
    <3>4. InLayout(Append(map, v), length + v.len)
      BY <3>3, LayoutOfAppend DEF MapInv, LayoutInv
    <3>5. length + v.len \in Nat
      BY <3>3 DEF LayoutInv
    <3> QED BY <3>2, <3>4, <3>5, Zenon DEF LayoutInv
  <2> QED BY <2>2, <2>3
<1>4. CASE \E n \in Nat : map' = Filled(n) /\ UNCHANGED length
  BY <1>4, LayoutOfFilled DEF MapInv, LayoutInv
<1> QED BY <1>1, <1>2, <1>3, <1>4 DEF MapMoves

\* How a save changes the map.
LEMMA SaveMoves ==
  ASSUME DeviceTypes, SaveGoesOn
  PROVE  MapMoves
<1>1. device.count \in Nat
  BY SetupAssumption DEF DeviceTypes
<1>2. UNCHANGED length /\ (map' = Filled(device.count) \/ UNCHANGED map)
  BY DEF SaveGoesOn
<1> QED BY <1>1, <1>2 DEF MapMoves

\* How a read changes it.
LEMMA ReadMoves ==
  ASSUME SetupInv, Doing("read"), ReadGoesOn
  PROVE  MapMoves
<1>1. DeviceTypes /\ ReadStage(app.todo)
  BY DEF SetupInv, ReadInv
<1>2. CASE \E k \in 0 .. device.count - 1 : app.todo = ToRead(k)
  <2>1. PICK k \in 0 .. device.count - 1 : app.todo = ToRead(k)
    BY <1>2
  <2>2. k \in 0 .. device.count /\ k < device.count /\ k + 1 \in Slot
    BY <1>1, SetupAssumption DEF DeviceTypes, Slot
  <2>3. Transfer = ReadOf("entry", k + 1)
    BY <1>1, <2>1, <2>2, ToReadIs DEF Transfer
  <2>4. Transfer.what = "entry" /\ Transfer.slot = k + 1
    BY <2>3 DEF ReadOf
  <2>5. IF device.entries[k + 1].len # 0
        THEN Added(device.entries[k + 1].obj, device.entries[k + 1].len)
        ELSE UNCHANGED <<map, length, data>>
    BY <2>4 DEF ReadGoesOn
  <2>6. device.entries[k + 1].len \in Nat
    BY <1>1, <2>2 DEF DeviceTypes, Entry
  <2> QED BY <2>5, <2>6 DEF MapMoves
<1>3. CASE ~\E k \in 0 .. device.count - 1 : app.todo = ToRead(k)
  <2>1. Transfer.what \in {"cob", "trans", "timer", "count"}
    BY <1>1, <1>3 DEF ReadStage, Transfer, ReadOf
  <2>2. UNCHANGED <<map, length>> \/ CountNext
    <3>1. CASE Transfer.what \in {"cob", "count"}
      BY <3>1 DEF ReadGoesOn
    <3>2. CASE Transfer.what = "trans"
      BY <3>2 DEF ReadGoesOn
    <3>3. CASE Transfer.what = "timer"
      BY <3>3 DEF ReadGoesOn
    <3> QED BY <2>1, <3>1, <3>2, <3>3
  <2> QED BY <2>2 DEF MapMoves, CountNext
<1> QED BY <1>2, <1>3

\* The message that the PDO starts with.
LEMMA MessageInit == Init => MessageInv
<1> SUFFICES ASSUME Init PROVE MessageInv
  OBVIOUS
<1> USE SetupAssumption
<1>1. DeviceTypes /\ MapInv
  BY InitSetup DEF SetupInv
<1>2. length = Total(map) /\ task = [on |-> FALSE, data |-> {}] /\ written = Unwritten(map)
  BY DEF Init, Total
<1>3. LayoutInv
  <2>1. CASE left.calls # 0
    <3>1. map = <<>>
      BY <2>1 DEF Init
    <3>2. length = 0 /\ DOMAIN map = {}
      BY <1>2, <3>1, EmptyMap
    <3> QED BY <3>2 DEF LayoutInv, InLayout
  <2>2. CASE left.calls = 0
    <3>1. PICK q : q = SubSeq(device.entries, 1, device.count)
      OBVIOUS
    <3>2. PICK r : r = Real(q)
      OBVIOUS
    <3>3. map = Placed(r)
      BY <2>2, <3>1, <3>2 DEF Init, Setup
    <3>4. PICK S : S = {e \in Entry : e.len # 0 => e.obj \in Objects}
      OBVIOUS
    <3>5. device.entries \in [Slot -> S] /\ device.count \in 0 .. Slots
      <4>1. PICK content \in Contents, cob \in CobIds, valid \in BOOLEAN, trans \in {"sync", "event"} :
           device = [cob |-> cob, valid |-> valid, trans |-> trans, timer |-> 1,
                     count |-> IF kind = "fixed" THEN Slots ELSE Len(content),
                     entries |-> [k \in Slot |-> IF k <= Len(content) THEN content[k] ELSE Empty]]
        BY DEF Init
      <4>2. PICK R : R = [obj : Objects, len : Nat]
        OBVIOUS
      <4>3. content \in Seq(R)
        <5>1. \A c \in Contents : c \in Seq([obj : Objects, len : Nat])
          OBVIOUS
        <5> QED BY <4>2, <5>1
      <4>4. ASSUME NEW k \in 1 .. Len(content) PROVE content[k] \in S
        <5>1. content[k] \in R
          BY <4>3, ElementOfSeq
        <5> QED BY <3>4, <4>2, <5>1 DEF Entry
      <4>5. Empty \in S
        BY <3>4 DEF Empty, Entry
      <4>6. ASSUME NEW k \in Slot, k <= Len(content) PROVE k \in 1 .. Len(content)
        BY <4>6, <4>3 DEF Slot
      <4>7. [k \in Slot |-> IF k <= Len(content) THEN content[k] ELSE Empty] \in [Slot -> S]
        BY <4>4, <4>5, <4>6, Zenon
      <4> QED BY <1>1, <4>1, <4>7 DEF DeviceTypes
    <3>6. q \in Seq(S) /\ Len(q) <= Slots
      <4>1. PICK n \in 0 .. Slots : n = device.count
        BY <3>5
      <4>2. /\ q \in Seq(Entry) /\ Len(q) = n
            /\ \A i \in 1 .. n : q[i] = device.entries[i]
        BY <1>1, <3>1, <4>1, FirstEntries
      <4>3. \A i \in 1 .. n : i \in Slot
        BY DEF Slot
      <4>4. \A i \in 1 .. Len(q) : q[i] \in S
        BY <3>5, <4>2, <4>3, Zenon
      <4>5. q \in Seq(S)
        BY <4>2, <4>4
      <4> QED BY <4>2, <4>5
    <3>7. r \in Seq(S) /\ \A i \in 1 .. Len(r) : r[i].len # 0
      BY <3>2, <3>6, RealTypes
    <3>8. r \in Seq(Entry) /\ \A i \in 1 .. Len(r) : r[i].len # 0 /\ r[i].obj \in Objects
      <4>1. S \subseteq Entry
        BY <3>4
      <4>2. \A i \in 1 .. Len(r) : r[i] \in S
        BY <3>7, ElementOfSeq
      <4>3. \A i \in 1 .. Len(r) : r[i].obj \in Objects
        BY <3>4, <3>7, <4>2, Zenon
      <4>4. r \in Seq(Entry)
        BY <3>7, <4>1, SeqMonotonic
      <4> QED BY <3>7, <4>3, <4>4
    <3>9. length = Total(r) /\ InLayout(map, Total(r))
      BY <1>2, <3>3, <3>8, PlacedOfReal, LayoutOfPlaced
    <3>10. Total(r) \in Nat
      <4>1. \A i \in 1 .. Len(r) : r[i].len \in Nat
        <5> SUFFICES ASSUME NEW i \in 1 .. Len(r) PROVE r[i].len \in Nat
          OBVIOUS
        <5>1. r[i] \in Entry
          BY <3>8, ElementOfSeq
        <5> QED BY <5>1 DEF Entry
      <4> QED BY <3>8, <4>1, TotalTypes
    <3> QED BY <3>9, <3>10 DEF LayoutInv
  <2> QED BY <2>1, <2>2
<1>4. WrittenInv /\ FieldInv /\ SentInv
  <2>1. \A k \in DOMAIN map : written[k] = None
    BY <1>2 DEF Unwritten
  <2>2. written = [k \in DOMAIN map |-> written[k]]
    BY <1>2 DEF Unwritten
  <2> QED BY <1>2, <2>1, <2>2 DEF WrittenInv, FieldInv, SentInv
<1> QED BY <1>3, <1>4 DEF MessageInv

\* Every step keeps the invariant: one case per action.
LEMMA MessageNext == SetupInv /\ MessageInv /\ [Next]_vars => MessageInv'
<1> SUFFICES ASSUME SetupInv, MessageInv, [Next]_vars PROVE MessageInv'
  OBVIOUS
<1>1. DeviceTypes /\ MapInv /\ LayoutInv
  BY DEF SetupInv, MessageInv
<1>2. CASE Uses
  <2>1. CASE \E k \in DOMAIN map : \E value \in Fitting(map[k]) : SetVariable(k, value)
    BY <1>1, <2>1, SetKeeps
  <2>2. CASE StartTask
    <3>1. /\ UNCHANGED <<map, length, data, written>>
          /\ task' = [on |-> TRUE, data |-> data] \/ task' = [on |-> FALSE, data |-> Cleared]
      BY <2>2 DEF StartTask, confVars
    <3> QED BY <3>1, MessageStays
  <2>3. CASE StopTask
    <3>1. UNCHANGED <<map, length, data, written>> /\ task' = [on |-> FALSE, data |-> Cleared]
      BY <2>3 DEF StopTask, confVars
    <3> QED BY <3>1, MessageStays
  <2>4. CASE \E w \in Waiters : BeginWait(w) \/ WaitTimesOut(w) \/ EndWait(w)
    <3>1. UNCHANGED <<map, length, data, written, task>>
      BY <2>4 DEF BeginWait, WaitTimesOut, EndWait, confVars
    <3> QED BY <3>1, MessageStays DEF MessageInv, SentInv
  <2> QED BY <1>2, <2>1, <2>2, <2>3, <2>4 DEF Uses
<1>3. CASE DeviceSends
  <2>1. UNCHANGED <<map, length, task>> /\ written' = Unwritten(map)
    BY <1>3 DEF DeviceSends, OnMessage, confVars
  <2>2. LayoutInv' /\ written' = Unwritten(map')
    BY <1>1, <2>1 DEF LayoutInv
  <2> QED BY <2>1, <2>2, NothingWritten
<1>4. CASE SubscribeUnread \/ Save \/ Read
  <2>1. UNCHANGED <<map, length, data, written, task>>
    BY <1>4 DEF SubscribeUnread, Save, Read, Begin, dataVars, confVars
  <2> QED BY <2>1, MessageStays DEF MessageInv, SentInv
<1>5. CASE UNCHANGED vars
  <2>1. UNCHANGED <<map, length, data, written, task>>
    BY <1>5 DEF vars
  <2> QED BY <2>1, MessageStays DEF MessageInv, SentInv
<1>6. ASSUME Forget, UNCHANGED task, MapMoves PROVE MessageInv'
  <2>1. LayoutInv'
    BY <1>1, <1>6, LayoutKeeps
  <2> QED BY <1>6, <2>1, NothingWritten DEF Forget
<1>7. CASE Clear \/ \E new \in Confs : Configure(new)
  <2>1. Forget /\ UNCHANGED task /\ MapMoves
    BY <1>7 DEF Clear, Configure, Edit, MapMoves
  <2> QED BY <1>6, <2>1
<1>8. CASE \E obj \in Objects, len \in Lengths : AddVariable(obj, len)
  <2>1. PICK obj \in Objects, len \in Lengths : AddVariable(obj, len)
    BY <1>8
  <2>2. Forget /\ UNCHANGED task /\ Added(obj, len) /\ len \in Nat
    BY <2>1, SetupAssumption DEF AddVariable, Edit
  <2> QED BY <1>6, <2>2 DEF MapMoves
<1>9. CASE Succeeds
  <2>1. Forget /\ Goes
    BY <1>9 DEF Succeeds
  <2>2. UNCHANGED task
    BY <2>1 DEF Goes
  <2>3. (app.op = "save" /\ SaveGoesOn) \/ (app.op = "read" /\ ReadGoesOn)
    BY <1>9 DEF Succeeds
  <2>4. MapMoves
    BY <1>1, <2>3, SaveMoves, ReadMoves DEF Doing
  <2> QED BY <1>6, <2>1, <2>2, <2>4
<1>10. CASE IsRefused
  <2>1. Forget /\ UNCHANGED task
        /\ (SaveIsRefused(ReadOnly(Transfer)) \/ ReadIsRefused)
    BY <1>10 DEF IsRefused, Goes
  <2>2. MapMoves
    BY <2>1 DEF SaveIsRefused, ReadIsRefused, confVars, CountNext, MapMoves
  <2> QED BY <1>6, <2>1, <2>2
<1>11. CASE IsLost
  <2>1. Forget /\ UNCHANGED <<task, map, length>>
    BY <1>11 DEF IsLost, Goes, confVars
  <2> QED BY <1>6, <2>1 DEF MapMoves
<1> QED BY <1>2, <1>3, <1>4, <1>5, <1>7, <1>8, <1>9, <1>10, <1>11 DEF Next

\* A variable of a sound map reads as it was last written, whatever is written to the
\* variables around it, at every length and offset, signed or not, and what the task sends
\* is the message with it: for any objects and types, any messages and any number of
\* variables.
THEOREM WritesAreRead == Spec => []ReadsAsWritten
<1>1. SetupInv /\ MessageInv => ReadsAsWritten
  <2> SUFFICES ASSUME SetupInv, MessageInv, NEW k \in DOMAIN map, written[k] # None, AllSound
               PROVE  /\ Field(map[k]) = written[k] \cap (0 .. map[k].len - 1)
                      /\ Field(map[k]) # {map[k].len - 1} => GetData(map[k]) = written[k]
                      /\ task.on => task.data = data
    BY DEF ReadsAsWritten, AllSound
  <2>1. map[k].len # 0 /\ written[k] \in Fitting(map[k])
    BY DEF MessageInv, WrittenInv
  <2>2. map[k] \in Mapped /\ map[k].obj \in Objects /\ Sound(map[k])
    BY <2>1, VariablesAre DEF SetupInv, MessageInv, AllSound
  <2>3. Field(map[k]) = written[k] \cap (0 .. map[k].len - 1)
    BY DEF MessageInv, FieldInv
  <2>4. Field(map[k]) # {map[k].len - 1} => GetData(map[k]) = written[k]
    BY <2>1, <2>2, <2>3, FieldIsRead
  <2>5. task.on => task.data = data
    BY DEF MessageInv, SentInv
  <2> QED BY <2>3, <2>4, <2>5
<1>2. Init => MessageInv
  BY MessageInit
<1>3. SetupInv /\ MessageInv /\ [Next]_vars => MessageInv'
  BY MessageNext
<1> QED BY <1>1, <1>2, <1>3, InitSetup, SetupNext, PTL DEF Spec

================================================================================
