--------------------------- MODULE Drive402Proofs ---------------------------
(***************************************************************************)
(* Theorems about Drive402 for every set of ways in which status words     *)
(* arrive and every number of moves of the drive's own.                    *)
(*                                                                         *)
(* The invariant has two halves.  LevelInv bounds how high the drive, the  *)
(* command it has and the command it gets next can take it.  CalmInv says  *)
(* that a calm drive is at rest whenever the caller decides, and on its    *)
(* way to the next state whenever the caller waits for it.                 *)
(***************************************************************************)
EXTENDS Drive402, TLAPS

\* The commands that fit a state: a drive in that state stays in it.
Fits(cw, state) ==
  CASE state = Disabled -> cw \in {"disable_voltage", "fault_reset"}
    [] state = Ready -> cw = "shutdown" [] state = SwitchedOn -> cw = "switch_on"
    [] state = Enabled -> cw = "enable_operation" [] state = QuickStop -> cw = "quick_stop"
    [] OTHER -> FALSE

-----------------------------------------------------------------------------
\* Both properties are about what the setter decides from the status words it reads.

DriveStates == {NotReady, Disabled, Ready, SwitchedOn, Enabled, Fault, Reaction, QuickStop}

\* What a calm drive can be in, and what it can be asked to be in.
CalmStates == {Disabled, Ready, SwitchedOn, Enabled, Fault, QuickStop}
Reachable == {Disabled, Ready, SwitchedOn, Enabled, QuickStop}
Low == {Disabled, Ready, SwitchedOn}

DriveInv ==
  drive \in [state : DriveStates, cw : Commands \cup {None}, edge : BOOLEAN]

Reading == {"loop", "next", "change", "confirm", "was_faulted"}
Places == Reading \cup {"idle", "still_faulted", "check", "wait"}
Backs == {"loop", "confirm", "still_faulted"}
Outcomes ==
  {"none", "running", "returned", "not_faulted", "RuntimeError", "ValueError", "SdoError"}

Calls ==
  [pc : Places, target : Targets \cup {None}, next : DriveStates \cup {None}, mask : 1 .. 8,
   back : Backs \cup {"idle"}, single : BOOLEAN, final : BOOLEAN, outcome : Outcomes,
   highest : 0 .. 3]

CallInv ==
  /\ call \in Calls
  /\ call.pc \in {"check", "wait"} <=> call.back # "idle"
  /\ call.pc = "wait" => IsPeriodic
  /\ call.pc # "idle" => call.target \in Targets

Slack == IF calm THEN 0 ELSE 1
Within(level) == level <= call.highest \/ level <= Level(call.target) + Slack

\* Neither the drive nor its command nor the next command goes too high.
LevelInv ==
  call.pc # "idle" /\ call.target \in Low =>
    Within(Level(drive.state)) /\ Within(Heading) /\ Within(Level(call.next))

\* The drive stays where it is, and is seen there.
Settled == Obeyed = drive.state /\ \A word \in StatusWords : word \in Words(drive.state)

Confirming == call.pc = "confirm" \/ call.back = "confirm"

\* At rest, and ready for a fault reset.
AtRest == Settled /\ ~(drive.state = Fault /\ drive.cw = "fault_reset")

\* The drive is on its way to the next state or there, and is not seen there before.
UnderWay ==
  /\ call.next \in Reachable /\ Obeyed = call.next /\ ~call.single
  /\ Fits(drive.cw, call.next)
  /\ \A word \in StatusWords : Matches(word, call.next) =>
       drive.state = call.next /\ word \in Words(drive.state)

\* No mask that fits has been passed over.
MaskInv == \A k \in 1 .. 8 : States[k] = drive.state => call.mask <= k

Asked == call.target \in Targets \ {NotReady, Reaction, Fault, drive.state}

CalmInv ==
  calm =>
    /\ moves = 0 /\ drive.state \in CalmStates
    /\ IF Confirming THEN UnderWay ELSE AtRest
    /\ call.pc \in Reading \ {"confirm"} => MaskInv
    /\ call.pc \in {"next", "change"} => Asked
    /\ call.pc = "change" => call.next = NextState(drive.state, call.target)
    /\ CalmCallsSucceed

CallsInv == calm \in BOOLEAN /\ DriveInv /\ CallInv /\ LevelInv /\ CalmInv

USE DEF NotReady, Disabled, Ready, SwitchedOn, Enabled, Fault, Reaction, QuickStop

-----------------------------------------------------------------------------
\* The tables.

LEMMA StatesAre ==
  /\ States[1] = NotReady /\ States[2] = Disabled /\ States[3] = Ready
  /\ States[4] = SwitchedOn /\ States[5] = Enabled /\ States[6] = Fault
  /\ States[7] = Reaction /\ States[8] = QuickStop /\ Len(States) = 8
BY DEF States

LEMMA StatesRange ==
  /\ \A k \in 1 .. 8 : States[k] \in DriveStates
  /\ \A s \in DriveStates : \E k \in 1 .. 8 : States[k] = s
<1>1. ASSUME NEW k \in 1 .. 8 PROVE States[k] \in DriveStates
  <2>1. k = 1 \/ k = 2 \/ k = 3 \/ k = 4 \/ k = 5 \/ k = 6 \/ k = 7 \/ k = 8
    OBVIOUS
  <2> QED BY <2>1, StatesAre DEF DriveStates
<1>2. ASSUME NEW s \in DriveStates PROVE \E k \in 1 .. 8 : States[k] = s
  <2>1. 1 \in 1 .. 8 /\ 2 \in 1 .. 8 /\ 3 \in 1 .. 8 /\ 4 \in 1 .. 8
        /\ 5 \in 1 .. 8 /\ 6 \in 1 .. 8 /\ 7 \in 1 .. 8 /\ 8 \in 1 .. 8
    OBVIOUS
  <2> QED BY <2>1, StatesAre DEF DriveStates
<1> QED BY <1>1, <1>2

LEMMA NoneIsNoState == None \notin DriveStates
BY StatesRange, NoneAssumption

LEMMA TargetsAre == Targets = DriveStates \cup {"DISABLE_VOLTAGE"}
BY StatesRange DEF Targets

\* A status word of a state fits the mask of that state and no other: bits 0 to 3, 5 and
\* 6 tell the states apart.
LEMMA OtherWord ==
  ASSUME NEW s \in DriveStates, NEW t \in DriveStates, NEW word \in Words(s)
  PROVE  Matches(word, t) <=> t = s
<1>1. PICK extra \in SUBSET ({5} \ Mask(s)) : word = Value(s) \cup extra
  BY DEF Words
<1>2. \A b \in {0, 1, 2, 3, 6} : b \in word <=> b \in Value(s)
  BY <1>1
<1>3. 5 \in Mask(s) => (5 \in word <=> 5 \in Value(s))
  BY <1>1
<1>4. \A b \in word : b \in {0, 1, 2, 3, 5, 6}
  BY <1>1 DEF Value, DriveStates
<1>5. CASE t = s
  <2>1. ASSUME NEW b PROVE b \in word \cap Mask(s) <=> b \in Value(s)
    BY <1>2, <1>3, <1>4 DEF Value, Mask, DriveStates
  <2>2. word \cap Mask(s) = Value(s)
    BY <2>1
  <2> QED BY <1>5, <2>2 DEF Matches
<1>6. CASE t # s
  <2>1. SUFFICES ASSUME word \cap Mask(t) = Value(t) PROVE FALSE
    BY <1>6 DEF Matches
  <2>2. \A b \in {0, 1, 2, 3, 6} : b \in Value(s) <=> b \in Value(t)
    BY <1>2, <2>1 DEF Mask
  <2>3. 5 \in Mask(s) /\ 5 \in Mask(t) => (5 \in Value(s) <=> 5 \in Value(t))
    BY <1>3, <2>1
  <2>4. /\ 0 \in Value(s) <=> 0 \in Value(t)
        /\ 1 \in Value(s) <=> 1 \in Value(t)
        /\ 2 \in Value(s) <=> 2 \in Value(t)
        /\ 3 \in Value(s) <=> 3 \in Value(t)
        /\ 6 \in Value(s) <=> 6 \in Value(t)
    BY <2>2
  <2>5. CASE s \in {NotReady, Disabled, Fault, Reaction}
    BY <1>6, <2>4, <2>5 DEF Value, DriveStates
  <2>6. CASE s \in {Ready, SwitchedOn, Enabled, QuickStop}
    <3>1. t \in {Ready, SwitchedOn, Enabled, QuickStop}
      BY <2>4, <2>6 DEF Value, DriveStates
    <3> QED BY <1>6, <2>3, <2>4, <2>6, <3>1 DEF Value, Mask
  <2> QED BY <2>5, <2>6 DEF DriveStates
<1> QED BY <1>5, <1>6

\* The next state is at most one step above a low target, and never above the target if
\* the drive is known and calm.
LEMMA NextIsLow ==
  ASSUME NEW s \in DriveStates \cup {"UNKNOWN"}, NEW t \in Low
  PROVE  /\ Level(NextState(s, t)) \in 0 .. 3 /\ Level(NextState(s, t)) <= Level(t) + 1
         /\ s \in CalmStates \ {t} => Level(NextState(s, t)) <= Level(t)
BY NoneIsNoState, CommandAssumption, SMTT(60)
   DEF NextState, NextStateIndirect, Command, Commands, Level, DriveStates, CalmStates, Low

LEMMA NextIsState ==
  ASSUME NEW s \in DriveStates \cup {"UNKNOWN"}, NEW t \in Targets
  PROVE  NextState(s, t) \in DriveStates \cup {None}
<1>1. CASE t \in DriveStates
  BY <1>1 DEF NextState, NextStateIndirect, DriveStates
<1>2. CASE t = "DISABLE_VOLTAGE"
  BY <1>2 DEF NextState, NextStateIndirect, Command, DriveStates
<1> QED BY <1>1, <1>2, TargetsAre

\* A command takes the drive no higher than the state it is meant to lead to.
LEMMA CommandIsMeant ==
  ASSUME NEW s \in DriveStates \cup {"UNKNOWN"}, NEW n \in DriveStates \cup {None},
         Command(s, n) # None, drive'.cw = Command(s, n)
  PROVE  Heading' \in 0 .. 3 /\ Heading' <= Level(n)
BY NoneIsNoState, CommandAssumption, SMTT(60)
   DEF Heading, Command, Commands, Level, DriveStates

\* What a calm drive is told leads to the next state, and that exists for every target
\* that can be reached.
LEMMA NextIsCommanded ==
  ASSUME NEW s \in CalmStates, NEW t \in Targets \ {NotReady, Reaction, Fault, s},
         NEW n, n = NextState(s, t)
  PROVE  /\ t \in Reachable => Command(s, n) # None
         /\ Command(s, n) # None => n \in Reachable /\ n # s /\ Fits(Command(s, n), n)
<1>1. t \in {Disabled, Ready, SwitchedOn, Enabled, QuickStop, "DISABLE_VOLTAGE"}
  BY TargetsAre DEF DriveStates
<1>2. None \notin Reachable /\ None \notin Commands
  BY NoneIsNoState, CommandAssumption DEF DriveStates, Reachable
<1>3. CASE s = Disabled
  BY <1>1, <1>2, <1>3 DEF NextState, NextStateIndirect, Command, Commands, Reachable, Fits
<1>7. CASE s = Fault
  BY <1>1, <1>2, <1>7 DEF NextState, NextStateIndirect, Command, Commands, Reachable, Fits
<1>8. CASE s = QuickStop
  BY <1>1, <1>2, <1>8 DEF NextState, NextStateIndirect, Command, Commands, Reachable, Fits
<1>4. CASE s = Ready
  BY <1>1, <1>2, <1>4 DEF NextState, NextStateIndirect, Command, Commands, Reachable, Fits
<1>5. CASE s = SwitchedOn
  BY <1>1, <1>2, <1>5 DEF NextState, NextStateIndirect, Command, Commands, Reachable, Fits
<1>6. CASE s = Enabled
  BY <1>1, <1>2, <1>6 DEF NextState, NextStateIndirect, Command, Commands, Reachable, Fits
<1> QED BY <1>3, <1>4, <1>5, <1>6, <1>7, <1>8 DEF CalmStates

\* A drive that has such a command goes to the next state.
LEMMA CommandIsObeyed ==
  ASSUME NEW s \in CalmStates, NEW n \in Reachable, Command(s, n) # None, s # n,
         drive'.state = s, drive'.cw = Command(s, n), s = Fault => drive'.edge
  PROVE  Obeyed' = n
<1>1. CASE s = Disabled
  <2>1. Command(Disabled, n) # None /\ n # Disabled /\ drive'.state = Disabled /\ drive'.cw = Command(Disabled, n)
    BY <1>1
  <2> QED BY <1>1, <2>1 DEF Obeyed, Command, Reachable
<1>2. CASE s = Ready
  <2>1. Command(Ready, n) # None /\ n # Ready /\ drive'.state = Ready /\ drive'.cw = Command(Ready, n)
    BY <1>2
  <2> QED BY <1>2, <2>1 DEF Obeyed, Command, Reachable
<1>3. CASE s = SwitchedOn
  <2>1. Command(SwitchedOn, n) # None /\ n # SwitchedOn /\ drive'.state = SwitchedOn /\ drive'.cw = Command(SwitchedOn, n)
    BY <1>3
  <2> QED BY <1>3, <2>1 DEF Obeyed, Command, Reachable
<1>4. CASE s = Enabled
  <2>1. Command(Enabled, n) # None /\ n # Enabled /\ drive'.state = Enabled /\ drive'.cw = Command(Enabled, n)
    BY <1>4
  <2> QED BY <1>4, <2>1 DEF Obeyed, Command, Reachable
<1>5. CASE s = Fault
  <2>1. Command(Fault, n) # None /\ n # Fault /\ drive'.state = Fault /\ drive'.cw = Command(Fault, n)
    BY <1>5
  <2> QED BY <1>5, <2>1 DEF Obeyed, Command, Reachable
<1>6. CASE s = QuickStop
  <2>1. Command(QuickStop, n) # None /\ n # QuickStop /\ drive'.state = QuickStop /\ drive'.cw = Command(QuickStop, n)
    BY <1>6
  <2> QED BY <1>6, <2>1 DEF Obeyed, Command, Reachable
<1> QED BY <1>1, <1>2, <1>3, <1>4, <1>5, <1>6 DEF CalmStates

\* Obeying takes the drive no higher than it is or is heading.
LEMMA ObeyedIsLow ==
  ASSUME drive.state \in DriveStates
  PROVE  /\ Obeyed \in DriveStates /\ Level(Obeyed) \in 0 .. 3
         /\ Level(drive.state) \in 0 .. 3 /\ Heading \in 0 .. 3
         /\ Level(Obeyed) <= Level(drive.state) \/ Level(Obeyed) <= Heading
<1>1. Heading \in 0 .. 3
  BY DEF Heading
<1>2. \A s \in DriveStates : Level(s) \in 0 .. 3
  BY DEF Level, DriveStates
<1>3. Obeyed \in DriveStates
  BY DEF Obeyed, DriveStates
<1>4. Level(Obeyed) <= Level(drive.state) \/ Level(Obeyed) <= Heading
  <2>1. Obeyed = drive.state => Level(Obeyed) <= Level(drive.state)
    BY <1>2
  <2>2. Obeyed # drive.state =>
          \/ Obeyed = Disabled
          \/ Obeyed = Ready /\ drive.cw = "shutdown"
          \/ Obeyed = SwitchedOn /\ drive.cw \in {"switch_on", "enable_operation"}
          \/ Obeyed = Enabled /\ drive.cw = "enable_operation"
          \/ Obeyed = QuickStop /\ drive.state = Enabled
    BY DEF Obeyed
  <2>3. Level(Enabled) = 3 /\ Level(QuickStop) = 3 /\ Level(SwitchedOn) = 2
        /\ Level(Ready) = 1 /\ Level(Disabled) = 0
    BY DEF Level
  <2> HIDE DEF Obeyed
  <2>4. CASE Obeyed # drive.state
    BY <1>1, <1>2, <2>2, <2>3, <2>4 DEF Heading
  <2> QED BY <2>1, <2>4
<1> QED BY <1>1, <1>2, <1>3, <1>4

-----------------------------------------------------------------------------
\* What the caller's steps keep, whatever it has read.

Deciding ==
  /\ CallsInv /\ call.pc # "idle" /\ UNCHANGED <<tpdo, heard, way, calm, moves>>

LEMMA NothingMoves ==
  ASSUME UNCHANGED <<drive, tpdo, way>>
  PROVE  /\ Obeyed' = Obeyed /\ Heading' = Heading /\ (Settled' <=> Settled)
         /\ (AtRest' <=> AtRest) /\ StatusWords' = StatusWords
<1>1. StatusWords' = StatusWords
  BY Zenon DEF StatusWords
<1>2. Obeyed' = Obeyed /\ Heading' = Heading
  BY Zenon DEF Obeyed, Heading
<1> QED BY <1>1, <1>2, Zenon DEF Settled, AtRest

\* Commands and the drive as before: the levels stay.
LEMMA LevelStays ==
  ASSUME LevelInv, UNCHANGED <<drive, calm>>, call'.highest = call.highest,
         call'.target = call.target, call'.next \in {call.next, None}, call.pc # "idle"
  PROVE  LevelInv'
<1>1. Heading' = Heading /\ Slack' = Slack
  BY Zenon DEF Heading, Slack
<1>2. Level(None) = 0
  BY NoneIsNoState DEF Level, DriveStates
<1>3. SUFFICES ASSUME call.target \in Low
      PROVE  (Within(Level(drive.state)) /\ Within(Heading) /\ Within(Level(call.next)))'
  BY DEF LevelInv
<1>4. Within(Level(drive.state)) /\ Within(Heading) /\ Within(Level(call.next))
  BY <1>3 DEF LevelInv
<1>5. \A level : Within(level)' <=> Within(level)
  BY <1>1, Zenon DEF Within
<1>6. Within(0)
  BY <1>3 DEF Within, Level, Low, Slack
<1> QED BY <1>1, <1>2, <1>4, <1>5, <1>6, Zenon

LEMMA GotoKeeps ==
  ASSUME Deciding, NEW pc \in {"loop", "next", "confirm", "still_faulted"}, Goto(pc),
         calm => /\ IF pc = "confirm" THEN UnderWay ELSE AtRest
                 /\ pc = "next" => Asked
  PROVE  CallsInv'
<1>1. /\ call'.pc = pc /\ call'.mask = 1 /\ call'.back = "idle"
      /\ call'.highest = call.highest /\ call'.target = call.target
      /\ call'.next \in {call.next, None} /\ UNCHANGED <<drive, fresh>>
      /\ pc # "loop" => call'.next = call.next /\ call'.single = call.single
  BY DEF Deciding, CallsInv, CallInv, Calls, Goto
<1>2. CallInv'
  <2>1. call' \in Calls
    <3>1. /\ call \in Calls /\ pc \in Places /\ 1 \in 1 .. 8 /\ "idle" \in Backs \cup {"idle"}
          /\ (IF pc = "loop" THEN None ELSE call.next) \in DriveStates \cup {None}
          /\ (IF pc = "loop" THEN FALSE ELSE call.single) \in BOOLEAN
      <4>1. call \in Calls /\ call.next \in DriveStates \cup {None} /\ call.single \in BOOLEAN
        BY DEF Deciding, CallsInv, CallInv, Calls
      <4>2. 1 \in 1 .. 8
        OBVIOUS
      <4> QED BY <4>1, <4>2, Zenon DEF Places, Reading
    <3> QED BY <3>1, Zenon DEF Goto, Calls
  <2> QED BY <1>1, <2>1 DEF Deciding, CallsInv, CallInv
<1>3. LevelInv'
  BY <1>1, LevelStays DEF Deciding, CallsInv
<1>4. CalmInv'
  <2>1. SUFFICES ASSUME calm PROVE CalmInv'
    BY DEF CalmInv, Deciding
  <2>2. moves' = 0 /\ drive'.state \in CalmStates
    BY <1>1, <2>1 DEF Deciding, CallsInv, CalmInv
  <2>3. IF Confirming' THEN UnderWay' ELSE AtRest'
    <3>1. Confirming' <=> pc = "confirm"
      BY <1>1 DEF Confirming
    <3>2. pc = "confirm" => (UnderWay' <=> UnderWay)
      BY <1>1, NothingMoves, Zenon DEF UnderWay, Deciding
    <3> QED BY <1>1, <2>1, <3>1, <3>2, NothingMoves DEF Deciding
  <2>4. MaskInv'
    BY <1>1 DEF MaskInv
  <2>5. call'.pc \in {"next", "change"} => Asked'
    BY <1>1, <2>1 DEF Asked
  <2>6. call'.pc # "change" /\ call'.pc # "idle"
    BY <1>1
  <2> QED BY <2>2, <2>3, <2>4, <2>5, <2>6 DEF CalmInv, CalmCallsSucceed
<1> QED BY <1>1, <1>2, <1>3, <1>4 DEF CallsInv, Deciding, DriveInv

LEMMA CheckKeeps ==
  ASSUME Deciding, NEW back \in Backs, Check(back),
         calm => IF back = "confirm" THEN UnderWay ELSE AtRest
  PROVE  CallsInv'
<1>1. /\ call'.pc = "check" /\ call'.back = back /\ UNCHANGED drive
      /\ call'.highest = call.highest /\ call'.target = call.target
      /\ call'.next = call.next /\ call'.single = call.single
  BY DEF Deciding, CallsInv, CallInv, Calls, Check
<1>2. CallInv'
  <2>1. call' \in Calls
    <3>1. /\ call \in Calls /\ "check" \in Places /\ 1 \in 1 .. 8
          /\ back \in Backs \cup {"idle"}
      BY DEF Deciding, CallsInv, CallInv, Places
    <3> QED BY <3>1, Zenon DEF Check, Calls
  <2> QED BY <1>1, <2>1 DEF Deciding, CallsInv, CallInv, Backs
<1>3. LevelInv'
  BY <1>1, LevelStays DEF Deciding, CallsInv
<1>4. CalmInv'
  <2>1. SUFFICES ASSUME calm PROVE CalmInv'
    BY DEF CalmInv, Deciding
  <2>2. moves' = 0 /\ drive'.state \in CalmStates
    BY <1>1, <2>1 DEF Deciding, CallsInv, CalmInv
  <2>3. IF Confirming' THEN UnderWay' ELSE AtRest'
    <3>1. Confirming' <=> back = "confirm"
      BY <1>1 DEF Confirming
    <3>2. UnderWay' <=> UnderWay
      BY <1>1, NothingMoves, Zenon DEF UnderWay, Deciding
    <3> QED BY <1>1, <2>1, <3>1, <3>2, NothingMoves DEF Deciding
  <2> QED BY <1>1, <2>2, <2>3 DEF CalmInv, CalmCallsSucceed, Reading
<1> QED BY <1>1, <1>2, <1>3, <1>4 DEF CallsInv, Deciding, DriveInv

LEMMA EndKeeps ==
  ASSUME Deciding, NEW outcome \in Outcomes, End(outcome),
         calm => /\ AtRest
                 /\ call.target \in Reachable =>
                      \/ outcome = "returned" /\ drive.state = call.target
                      \/ outcome = "not_faulted" /\ drive.state # Fault
                      \/ outcome = "RuntimeError" /\ way = "event" /\ heard = 2
  PROVE  CallsInv'
<1>1. /\ call'.pc = "idle" /\ call'.back = "idle" /\ UNCHANGED drive
      /\ call'.target = call.target /\ call'.outcome = outcome
  BY DEF Deciding, CallsInv, CallInv, Calls, End, NoCall
<1>2. CallInv'
  <2>1. call' \in Calls
    <3>1. call.target \in Targets \cup {None}
      BY DEF Deciding, CallsInv, CallInv, Calls
    <3>2. 1 \in 1 .. 8 /\ 0 \in 0 .. 3
      OBVIOUS
    <3> QED BY <3>1, <3>2, Zenon DEF End, NoCall, Calls, Places
  <2> QED BY <1>1, <2>1 DEF CallInv
<1>3. LevelInv'
  BY <1>1 DEF LevelInv
<1>4. CalmInv'
  <2>1. SUFFICES ASSUME calm PROVE CalmInv'
    BY DEF CalmInv, Deciding
  <2>2. moves' = 0 /\ drive'.state \in CalmStates
    BY <1>1, <2>1 DEF Deciding, CallsInv, CalmInv
  <2>3. ~Confirming' /\ AtRest'
    <3>1. ~Confirming'
      BY <1>1 DEF Confirming
    <3> QED BY <1>1, <2>1, <3>1, NothingMoves DEF Deciding
  <2>4. CalmCallsSucceed'
    BY <1>1, <2>1 DEF CalmCallsSucceed, Reachable, Deciding
  <2> QED BY <1>1, <2>2, <2>3, <2>4 DEF CalmInv, Reading
<1> QED BY <1>1, <1>2, <1>3, <1>4 DEF CallsInv, Deciding, DriveInv

\* What stays below the levels that a call allows.
LEMMA WithinIsLow ==
  ASSUME CallInv, call.target \in Low, NEW high \in 0 .. 3, NEW low \in 0 .. 3,
         low <= high, Within(high)
  PROVE  Within(low)
<1>1. call.highest \in 0 .. 3 /\ Level(call.target) \in 0 .. 3 /\ Slack \in 0 .. 1
  BY DEF CallInv, Calls, Level, Low, Slack
<1> QED BY <1>1 DEF Within

\* The caller sends a command.
LEMMA SendKeeps ==
  ASSUME Deciding, call.pc \in Reading,
         NEW cw \in Commands, NEW pc \in {"confirm", "still_faulted"},
         NEW next \in DriveStates \cup {None}, Send(cw, pc, next),
         call.target \in Low => Within(Heading') /\ Within(Level(next)),
         calm => /\ AtRest
                 /\ IF pc = "confirm"
                      THEN next \in Reachable \ {drive.state} /\ Obeyed' = next /\ Fits(cw, next)
                      ELSE Obeyed' = drive.state /\ cw # "fault_reset"
  PROVE  CallsInv'
<1>1. call.back = "idle"
  BY DEF Deciding, CallsInv, CallInv, Reading
<1>2. /\ call'.pc = pc /\ call'.back = "idle" /\ call'.next = next
      /\ call'.highest = call.highest /\ call'.target = call.target /\ call'.single = FALSE
  BY <1>1 DEF Deciding, CallsInv, CallInv, Calls, Send
<1>3. drive'.state = drive.state /\ drive'.cw = cw
  BY DEF Deciding, CallsInv, Send, DriveInv
<1>4. CallInv'
  <2>1. call' \in Calls
    <3>1. call \in Calls /\ pc \in Places /\ 1 \in 1 .. 8
      BY DEF Deciding, CallsInv, CallInv, Places, Reading
    <3> QED BY <3>1, Zenon DEF Send, Calls
  <2> QED BY <1>2, <2>1 DEF Deciding, CallsInv, CallInv
<1>5. DriveInv'
  <2>1. drive \in [state : DriveStates, cw : Commands \cup {None}, edge : BOOLEAN]
    BY DEF Deciding, CallsInv, DriveInv
  <2> QED BY <2>1, Zenon DEF Send, DriveInv
<1>6. LevelInv'
  <2>1. SUFFICES ASSUME call.target \in Low
        PROVE  (Within(Level(drive.state)) /\ Within(Heading) /\ Within(Level(call.next)))'
    BY <1>2 DEF LevelInv
  <2>2. Within(Level(drive.state)) /\ Within(Heading') /\ Within(Level(next))
    BY <2>1 DEF LevelInv, Deciding, CallsInv
  <2>3. Slack' = Slack
    BY Zenon DEF Slack, Deciding
  <2>4. /\ Within(Level(drive.state))' <=> Within(Level(drive.state))
        /\ Within(Heading)' <=> Within(Heading')
        /\ Within(Level(call.next))' <=> Within(Level(next))
    BY <1>2, <1>3, <2>3, Zenon DEF Within
  <2> QED BY <2>2, <2>4, Zenon
<1>7. CalmInv'
  <2>1. SUFFICES ASSUME calm PROVE CalmInv'
    BY DEF CalmInv, Deciding
  <2>2. moves' = 0 /\ drive'.state \in CalmStates
    BY <1>3, <2>1 DEF Deciding, CallsInv, CalmInv
  <2>3. StatusWords' = StatusWords
    BY <1>3, Zenon DEF StatusWords, Deciding
  <2>4. \A word \in StatusWords : word \in Words(drive.state)
    BY <2>1 DEF AtRest, Settled
  <2>5. CASE pc = "confirm"
    <3>1. Confirming'
      BY <1>2, <2>5 DEF Confirming
    <3>2. /\ next \in Reachable /\ next # drive.state /\ Obeyed' = next /\ Fits(cw, next)
          /\ drive.state \in DriveStates /\ next \in DriveStates
      BY <2>1, <2>5 DEF Deciding, CallsInv, DriveInv, Reachable, DriveStates
    <3>3. \A word \in StatusWords : ~Matches(word, next)
      BY <2>4, <3>2, OtherWord
    <3>4. UnderWay'
      BY <1>2, <1>3, <2>3, <3>2, <3>3, Zenon DEF UnderWay
    <3> QED BY <1>2, <2>2, <2>5, <3>1, <3>4 DEF CalmInv, CalmCallsSucceed, Reading
  <2>6. CASE pc = "still_faulted"
    <3>1. ~Confirming'
      BY <1>2, <2>6 DEF Confirming
    <3>2. Obeyed' = drive.state /\ cw # "fault_reset"
      BY <2>1, <2>6
    <3>3. AtRest'
      BY <1>3, <2>3, <2>4, <3>2, Zenon DEF AtRest, Settled
    <3> QED BY <1>2, <2>2, <2>6, <3>1, <3>3 DEF CalmInv, CalmCallsSucceed, Reading
  <2> QED BY <2>5, <2>6
<1> QED BY <1>4, <1>5, <1>6, <1>7 DEF CallsInv, Deciding

\* The next state is chosen.
LEMMA NextKeeps ==
  ASSUME Deciding, call.pc = "next", NEW s \in DriveStates \cup {"UNKNOWN"},
         calm => AtRest /\ s = drive.state /\ Asked,
         call' = [call EXCEPT !.pc = "change", !.mask = 1, !.next = NextState(s, call.target)],
         UNCHANGED <<drive, fresh>>
  PROVE  CallsInv'
<1> DEFINE next == NextState(s, call.target)
<1>1. call.back = "idle" /\ call.target \in Targets
  BY DEF Deciding, CallsInv, CallInv, Calls
<1>2. next \in DriveStates \cup {None}
  BY <1>1, NextIsState
<1>3. call.target \in Low => Within(Level(next))
  <2>1. SUFFICES ASSUME call.target \in Low PROVE Within(Level(next))
    OBVIOUS
  <2>2. call.highest \in 0 .. 3 /\ Level(call.target) \in 0 .. 3
    BY <2>1 DEF Deciding, CallsInv, CallInv, Calls, Level, Low
  <2>3. /\ Level(next) \in 0 .. 3 /\ Level(next) <= Level(call.target) + 1
        /\ s \in CalmStates \ {call.target} => Level(next) <= Level(call.target)
    BY <2>1, NextIsLow
  <2>4. calm => s \in CalmStates \ {call.target}
    BY DEF Asked, Deciding, CallsInv, CalmInv
  <2> HIDE DEF next
  <2>5. CASE calm
    BY <2>2, <2>3, <2>4, <2>5 DEF Within, Slack
  <2>6. CASE ~calm
    BY <2>2, <2>3, <2>6 DEF Within, Slack
  <2> QED BY <2>5, <2>6
<1> HIDE DEF next
<1>4. /\ call'.pc = "change" /\ call'.back = "idle" /\ call'.next = next
      /\ call'.highest = call.highest /\ call'.target = call.target
  BY <1>1 DEF Deciding, CallsInv, CallInv, Calls, next
<1>5. CallInv'
  <2>1. call' \in Calls
    <3>1. call \in Calls /\ "change" \in Places /\ 1 \in 1 .. 8
      BY DEF Deciding, CallsInv, CallInv, Places, Reading
    <3> QED BY <1>2, <3>1, Zenon DEF Calls, next
  <2> QED BY <1>4, <2>1 DEF Deciding, CallsInv, CallInv
<1>6. LevelInv'
  <2>1. SUFFICES ASSUME call.target \in Low
        PROVE  (Within(Level(drive.state)) /\ Within(Heading) /\ Within(Level(call.next)))'
    BY <1>4 DEF LevelInv
  <2>2. Within(Level(drive.state)) /\ Within(Heading) /\ Within(Level(next))
    BY <1>3, <2>1 DEF LevelInv, Deciding, CallsInv
  <2>3. Slack' = Slack /\ Heading' = Heading
    BY Zenon DEF Slack, Deciding, Heading
  <2>4. /\ Within(Level(drive.state))' <=> Within(Level(drive.state))
        /\ Within(Heading)' <=> Within(Heading)
        /\ Within(Level(call.next))' <=> Within(Level(next))
    BY <1>4, <2>3, Zenon DEF Within
  <2> QED BY <2>2, <2>4, Zenon
<1>7. CalmInv'
  <2>1. SUFFICES ASSUME calm PROVE CalmInv'
    BY DEF CalmInv, Deciding
  <2>2. moves' = 0 /\ drive'.state \in CalmStates
    BY <2>1 DEF Deciding, CallsInv, CalmInv
  <2>3. ~Confirming' /\ AtRest'
    <3>1. ~Confirming'
      BY <1>4 DEF Confirming
    <3>2. AtRest' <=> AtRest
      BY NothingMoves DEF Deciding
    <3> QED BY <2>1, <3>1, <3>2
  <2>4. MaskInv'
    <3>1. call'.mask = 1
      BY DEF Deciding, CallsInv, CallInv, Calls
    <3> QED BY <3>1 DEF MaskInv
  <2>5. Asked'
    BY <1>4, <2>1 DEF Asked
  <2>6. call'.next = NextState(drive'.state, call'.target)
    BY <1>4, <2>1, Zenon DEF next
  <2> QED BY <1>4, <2>2, <2>3, <2>4, <2>5, <2>6 DEF CalmInv, CalmCallsSucceed
<1> QED BY <1>5, <1>6, <1>7 DEF CallsInv, Deciding, DriveInv

-----------------------------------------------------------------------------
\* What the caller does with the state that it has read.

Seen(s) ==
  /\ s \in DriveStates \cup {"UNKNOWN"} /\ call.pc \in Reading
  /\ calm => IF call.pc = "confirm" THEN UnderWay /\ (s = call.next => AtRest)
             ELSE AtRest /\ s = drive.state

LEMMA SawInLoop ==
  ASSUME Deciding, call.pc = "loop", NEW s, Seen(s), Saw(s)
  PROVE  CallsInv'
<1>1. CASE s = call.target
  <2>1. End("returned")
    BY <1>1 DEF Saw
  <2>2. calm => AtRest /\ drive.state = call.target
    BY <1>1 DEF Seen
  <2> QED BY <2>1, <2>2, EndKeeps DEF Outcomes
<1>2. CASE s # call.target /\ call.target \in {NotReady, Reaction, Fault}
  <2>1. End("ValueError")
    BY <1>2 DEF Saw
  <2>2. call.target \notin Reachable
    BY <1>2 DEF Reachable
  <2>3. calm => AtRest
    BY DEF Seen
  <2> QED BY <2>1, <2>2, <2>3, EndKeeps DEF Outcomes
<1>3. CASE s # call.target /\ call.target \notin {NotReady, Reaction, Fault}
  <2>1. Goto("next")
    BY <1>3 DEF Saw
  <2>2. call.target \in Targets
    BY DEF Deciding, CallsInv, CallInv, Calls
  <2>3. calm => AtRest /\ Asked
    BY <1>3, <2>2 DEF Seen, Asked
  <2> QED BY <2>1, <2>3, GotoKeeps
<1> QED BY <1>1, <1>2, <1>3

LEMMA SawInNext ==
  ASSUME Deciding, call.pc = "next", NEW s, Seen(s), Saw(s)
  PROVE  CallsInv'
<1>1. /\ call' = [call EXCEPT !.pc = "change", !.mask = 1, !.next = NextState(s, call.target)]
      /\ UNCHANGED <<drive, fresh>>
  BY DEF Saw
<1>2. calm => AtRest /\ s = drive.state /\ Asked
  BY DEF Seen, Deciding, CallsInv, CalmInv
<1>3. s \in DriveStates \cup {"UNKNOWN"}
  BY DEF Seen
<1> QED BY <1>1, <1>2, <1>3, NextKeeps, Zenon

LEMMA SawInChange ==
  ASSUME Deciding, call.pc = "change", NEW s, Seen(s), Saw(s)
  PROVE  CallsInv'
<1>1. /\ call.target \in Targets /\ call.next \in DriveStates \cup {None}
      /\ s \in DriveStates \cup {"UNKNOWN"}
  BY DEF Deciding, CallsInv, CallInv, Calls, Seen
<1>2. calm => /\ AtRest /\ s = drive.state /\ s \in CalmStates
              /\ call.target \in Targets \ {NotReady, Reaction, Fault, s}
              /\ call.next = NextState(s, call.target)
  BY DEF Seen, Deciding, CallsInv, CalmInv, Asked
<1>3. calm => /\ call.target \in Reachable => Command(s, call.next) # None
              /\ Command(s, call.next) # None =>
                   /\ call.next \in Reachable /\ call.next # s
                   /\ Fits(Command(s, call.next), call.next)
  <2>1. SUFFICES ASSUME calm
        PROVE  /\ call.target \in Reachable => Command(s, call.next) # None
               /\ Command(s, call.next) # None =>
                    /\ call.next \in Reachable /\ call.next # s
                    /\ Fits(Command(s, call.next), call.next)
    OBVIOUS
  <2>2. /\ s \in CalmStates /\ call.next = NextState(s, call.target)
        /\ call.target \in Targets \ {NotReady, Reaction, Fault, s}
    BY <1>2, <2>1
  <2> QED BY <2>2, NextIsCommanded, Zenon
<1>4. CASE Command(s, call.next) = None
  <2>1. End("ValueError")
    BY <1>4 DEF Saw
  <2>2. calm => AtRest /\ call.target \notin Reachable
    BY <1>2, <1>3, <1>4
  <2> QED BY <2>1, <2>2, EndKeeps DEF Outcomes
<1>5. CASE Command(s, call.next) # None
  <2> DEFINE cw == Command(s, call.next)
  <2>1. Send(cw, "confirm", call.next)
    BY <1>5 DEF Saw
  <2>2. cw \in Commands
    BY <1>5 DEF Command, Commands
  <2>3. drive' = [drive EXCEPT !.cw = cw, !.edge = (cw = "fault_reset" /\ (@ \/ drive.cw # cw))]
    BY <2>1, Zenon DEF Send
  <2>4. /\ drive'.cw = cw /\ drive'.state = drive.state
        /\ cw = "fault_reset" /\ drive.cw # cw => drive'.edge
    <3> HIDE DEF cw
    <3> QED BY <2>3 DEF Deciding, CallsInv, DriveInv
  <2>5. call.target \in Low => Within(Heading') /\ Within(Level(call.next))
    <3>1. Heading' \in 0 .. 3 /\ Heading' <= Level(call.next)
      BY <1>1, <1>5, <2>4, CommandIsMeant
    <3>2. Level(call.next) \in 0 .. 3
      BY <1>1, NoneIsNoState DEF Level, DriveStates
    <3>3. call.target \in Low => Within(Level(call.next))
      BY DEF Deciding, CallsInv, LevelInv
    <3> QED BY <3>1, <3>2, <3>3, WithinIsLow DEF Deciding, CallsInv
  <2>6. calm => call.next \in Reachable \ {drive.state} /\ Obeyed' = call.next /\ Fits(cw, call.next)
    <3>1. SUFFICES ASSUME calm PROVE Obeyed' = call.next
      BY <1>2, <1>3, <1>5
    <3>2. s = Fault => drive'.edge
      <4>1. SUFFICES ASSUME s = Fault PROVE drive.cw # "fault_reset" /\ cw = "fault_reset"
        BY <2>4
      <4>2. drive.cw # "fault_reset"
        BY <1>2, <3>1, <4>1 DEF AtRest
      <4>3. call.next # Fault /\ call.next \in Reachable
        BY <1>2, <1>3, <1>5, <3>1, <4>1
      <4>4. cw = "fault_reset"
        BY <1>5, <4>1, <4>3 DEF Command, Reachable
      <4> QED BY <4>2, <4>4
    <3>3. /\ drive'.state = s /\ drive'.cw = Command(s, call.next) /\ s # call.next
          /\ s \in CalmStates /\ call.next \in Reachable
      BY <1>2, <1>3, <1>5, <2>4, <3>1
    <3> QED BY <1>5, <3>2, <3>3, CommandIsObeyed
  <2>7. calm => AtRest
    BY <1>2
  <2>8. call.pc \in Reading
    BY DEF Reading
  <2> HIDE DEF cw
  <2> QED BY <1>1, <2>1, <2>2, <2>5, <2>6, <2>7, <2>8, SendKeeps
<1> QED BY <1>4, <1>5

LEMMA SawInConfirm ==
  ASSUME Deciding, call.pc = "confirm", NEW s, Seen(s), Saw(s)
  PROVE  CallsInv'
<1>1. Confirm(s)
  BY DEF Saw
<1>2. calm => UnderWay /\ (s = call.next => AtRest) /\ ~call.single
  BY DEF Seen, UnderWay
<1>3. CASE s = call.next
  <2>1. Goto("loop")
    BY <1>1, <1>3 DEF Confirm
  <2> QED BY <1>2, <1>3, <2>1, GotoKeeps
<1>4. CASE s # call.next /\ ~call.single
  <2>1. Check("confirm")
    BY <1>1, <1>4 DEF Confirm
  <2> QED BY <1>2, <2>1, CheckKeeps DEF Backs
<1>5. CASE s # call.next /\ call.single /\ call.final
  <2>1. End("RuntimeError")
    BY <1>1, <1>5 DEF Confirm
  <2> QED BY <1>2, <1>5, <2>1, EndKeeps DEF Outcomes
<1>6. CASE s # call.next /\ call.single /\ ~call.final
  <2>1. Check("loop")
    BY <1>1, <1>6 DEF Confirm
  <2> QED BY <1>2, <1>6, <2>1, CheckKeeps DEF Backs
<1> QED BY <1>3, <1>4, <1>5, <1>6

LEMMA SawInReset ==
  ASSUME Deciding, call.pc = "was_faulted", NEW s, Seen(s), Saw(s)
  PROVE  CallsInv'
<1>1. CASE s # Fault
  <2>1. End("not_faulted")
    BY <1>1 DEF Saw
  <2>2. calm => AtRest /\ drive.state # Fault
    BY <1>1 DEF Seen
  <2> QED BY <2>1, <2>2, EndKeeps DEF Outcomes
<1>2. CASE s = Fault
  <2>1. Send("disable_voltage", "still_faulted", None)
    BY <1>2 DEF Saw
  <2>2. drive'.cw = "disable_voltage" /\ drive'.state = drive.state
    BY <2>1 DEF Send, Deciding, CallsInv, DriveInv
  <2>3. Heading' = 0 /\ Level(None) = 0
    BY <2>2, NoneIsNoState DEF Heading, Level, DriveStates
  <2>4. call.target \in Low => Within(0)
    BY DEF Within, Level, Low, Slack
  <2>5. calm => AtRest /\ drive.state = Fault
    BY <1>2 DEF Seen
  <2>6. calm => Obeyed' = drive.state
    BY <2>2, <2>5 DEF Obeyed
  <2>7. call.pc \in Reading /\ "disable_voltage" \in Commands
    BY DEF Reading, Commands
  <2> QED BY <2>1, <2>3, <2>4, <2>5, <2>6, <2>7, SendKeeps
<1> QED BY <1>1, <1>2

LEMMA SawKeeps ==
  ASSUME Deciding, NEW s, Seen(s), Saw(s)
  PROVE  CallsInv'
BY SawInLoop, SawInNext, SawInChange, SawInConfirm, SawInReset, Zenon DEF Seen, Reading

-----------------------------------------------------------------------------
\* The steps of the caller.

\* What is read of a calm drive is its state, or the mask is passed over rightly.
LEMMA CalmReads ==
  ASSUME CallsInv, calm, call.pc \in Reading, call.pc # "confirm", NEW word \in StatusWords
  PROVE  /\ AtRest /\ MaskInv
         /\ Matches(word, States[call.mask]) <=> States[call.mask] = drive.state
<1>1. AtRest /\ MaskInv
  BY DEF CallsInv, CalmInv, CallInv, Confirming, Reading
<1>2. word \in Words(drive.state) /\ drive.state \in DriveStates
  BY <1>1 DEF AtRest, Settled, CallsInv, DriveInv
<1>3. States[call.mask] \in DriveStates
  BY StatesRange DEF CallsInv, CallInv, Calls
<1> QED BY <1>1, <1>2, <1>3, OtherWord

LEMMA ReadKeeps ==
  ASSUME CallsInv, ReadState
  PROVE  CallsInv'
<1>1. call.pc \in Reading /\ Deciding /\ call.mask \in 1 .. 8 /\ States[call.mask] \in DriveStates
  BY StatesRange DEF ReadState, Reading, Deciding, CallsInv, CallInv, Calls
<1>2. calm /\ call.pc = "confirm" => UnderWay
  BY DEF CallsInv, CalmInv, Confirming
<1>3. PICK word \in StatusWords :
        IF Matches(word, States[call.mask]) THEN Saw(States[call.mask])
        ELSE IF call.mask = Len(States) THEN Saw("UNKNOWN")
        ELSE call' = [call EXCEPT !.mask = @ + 1] /\ UNCHANGED <<drive, fresh>>
  BY Zenon DEF ReadState
<1>4. CASE Matches(word, States[call.mask])
  <2>1. Saw(States[call.mask])
    BY <1>3, <1>4, Zenon
  <2>2. calm /\ call.pc # "confirm" => AtRest /\ States[call.mask] = drive.state
    <3>1. SUFFICES ASSUME calm, call.pc # "confirm"
          PROVE  AtRest /\ States[call.mask] = drive.state
      OBVIOUS
    <3> QED BY <1>1, <1>4, <3>1, CalmReads
  <2>3. calm /\ call.pc = "confirm" /\ States[call.mask] = call.next => AtRest
    <3>1. SUFFICES ASSUME calm, call.pc = "confirm", States[call.mask] = call.next
          PROVE  AtRest
      OBVIOUS
    <3>2. UnderWay
      BY <1>2, <3>1
    <3>3. /\ drive.state = call.next /\ word \in Words(drive.state) /\ Obeyed = drive.state
          /\ call.next \in Reachable
      BY <1>4, <3>1, <3>2, Zenon DEF UnderWay
    <3>4. \A other \in StatusWords : other \in Words(drive.state)
      <4>1. CASE way = "sdo"
        BY <4>1 DEF StatusWords
      <4>2. CASE way # "sdo"
        BY <3>3, <4>2 DEF StatusWords
      <4> QED BY <4>1, <4>2
    <3>5. drive.state # Fault
      BY <3>3 DEF Reachable
    <3> QED BY <3>3, <3>4, <3>5, Zenon DEF AtRest, Settled
  <2>4. Seen(States[call.mask])
    BY <1>1, <1>2, <2>2, <2>3, Zenon DEF Seen
  <2> QED BY <1>1, <2>1, <2>4, SawKeeps, Zenon
<1>5. CASE ~Matches(word, States[call.mask]) /\ call.mask = 8
  <2>1. Saw("UNKNOWN")
    BY <1>3, <1>5, StatesAre, Zenon
  <2>2. ASSUME calm, call.pc # "confirm" PROVE FALSE
    <3>1. MaskInv /\ States[8] # drive.state
      BY <1>1, <1>5, <2>2, CalmReads
    <3>2. PICK k \in 1 .. 8 : States[k] = drive.state
      BY StatesRange DEF CallsInv, DriveInv
    <3>3. call.mask <= k
      BY <3>1, <3>2, Zenon DEF MaskInv
    <3>4. k = 8
      BY <1>5, <3>3
    <3> QED BY <3>1, <3>2, <3>4, Zenon
  <2>3. calm /\ call.pc = "confirm" => "UNKNOWN" # call.next
    BY <1>2 DEF UnderWay, Reachable
  <2>4. Seen("UNKNOWN")
    BY <1>1, <1>2, <2>2, <2>3, Zenon DEF Seen
  <2> QED BY <1>1, <2>1, <2>4, SawKeeps, Zenon
<1>6. CASE ~Matches(word, States[call.mask]) /\ call.mask # 8
  <2>1. call' = [call EXCEPT !.mask = @ + 1] /\ UNCHANGED <<drive, fresh>>
    BY <1>3, <1>6, StatesAre, Zenon
  <2>2. /\ call'.pc = call.pc /\ call'.back = call.back /\ call'.next = call.next
        /\ call'.highest = call.highest /\ call'.target = call.target
        /\ call'.single = call.single /\ call'.mask = call.mask + 1
    BY <2>1 DEF CallsInv, CallInv, Calls
  <2>3. call.mask + 1 \in 1 .. 8
    BY <1>1, <1>6
  <2>4. CallInv'
    <3>1. call' \in Calls
      BY <2>1, <2>3, Zenon DEF CallsInv, CallInv, Calls
    <3> QED BY <1>1, <2>2, <3>1 DEF CallsInv, CallInv, Reading
  <2>5. LevelInv'
    BY <1>1, <2>1, <2>2, LevelStays, Zenon DEF Deciding, CallsInv
  <2>6. CalmInv'
    <3>1. SUFFICES ASSUME calm PROVE CalmInv'
      BY <1>1 DEF CalmInv, Deciding
    <3>2. moves' = 0 /\ drive'.state \in CalmStates
      BY <1>1, <2>1, <3>1 DEF Deciding, CallsInv, CalmInv
    <3>3. (Confirming' <=> Confirming) /\ (UnderWay' <=> UnderWay) /\ (AtRest' <=> AtRest)
      <4>1. Obeyed' = Obeyed /\ (AtRest' <=> AtRest) /\ StatusWords' = StatusWords
        BY <1>1, <2>1, NothingMoves, Zenon DEF Deciding
      <4>2. Confirming' <=> Confirming
        BY <2>2, Zenon DEF Confirming
      <4>3. UnderWay' <=> UnderWay
        BY <2>1, <2>2, <4>1, Zenon DEF UnderWay
      <4> QED BY <4>1, <4>2, <4>3
    <3>4. IF Confirming' THEN UnderWay' ELSE AtRest'
      BY <3>1, <3>3 DEF CallsInv, CalmInv
    <3>5. call'.pc \in Reading \ {"confirm"} => MaskInv'
      <4>1. SUFFICES ASSUME call.pc \in Reading \ {"confirm"} PROVE MaskInv'
        BY <2>2
      <4>2. MaskInv /\ States[call.mask] # drive.state
        BY <1>6, <3>1, <4>1, CalmReads
      <4>3. SUFFICES ASSUME NEW k \in 1 .. 8, States[k] = drive.state PROVE call.mask + 1 <= k
        BY <2>1, <2>2, Zenon DEF MaskInv
      <4>4. call.mask <= k
        BY <4>2, <4>3, Zenon DEF MaskInv
      <4>5. call.mask # k
        BY <4>2, <4>3
      <4> QED BY <1>1, <4>4, <4>5
    <3>6. call'.pc \in {"next", "change"} => Asked'
      BY <2>1, <2>2, <3>1 DEF Asked, CallsInv, CalmInv
    <3>7. call'.pc = "change" => call'.next = NextState(drive'.state, call'.target)
      BY <2>1, <2>2, <3>1, Zenon DEF CallsInv, CalmInv
    <3>8. call'.pc # "idle"
      BY <1>1, <2>2 DEF Reading
    <3> QED BY <3>2, <3>4, <3>5, <3>6, <3>7, <3>8 DEF CalmInv, CalmCallsSucceed
  <2> QED BY <1>1, <2>1, <2>4, <2>5, <2>6 DEF CallsInv, Deciding, DriveInv
<1> QED BY <1>4, <1>5, <1>6

LEMMA IsFaultedKeeps ==
  ASSUME CallsInv, IsFaulted
  PROVE  CallsInv'
<1>1. Deciding /\ call.back = "idle"
  BY DEF IsFaulted, Deciding, CallsInv, CallInv
<1>2. calm => AtRest
  BY <1>1 DEF IsFaulted, CallsInv, CalmInv, Confirming
<1>3. Check("still_faulted") \/ Goto("loop")
  BY DEF IsFaulted
<1>4. CASE Check("still_faulted")
  BY <1>1, <1>2, <1>4, CheckKeeps DEF Backs
<1>5. CASE Goto("loop")
  BY <1>1, <1>2, <1>5, GotoKeeps
<1> QED BY <1>3, <1>4, <1>5

LEMMA WaitKeeps ==
  ASSUME CallsInv, WaitForTpdo
  PROVE  CallsInv'
<1>1. /\ call.pc = "check" /\ call' = [call EXCEPT !.pc = "wait"] /\ IsPeriodic
      /\ UNCHANGED <<drive, tpdo, heard, way, calm, moves>>
  BY Zenon DEF WaitForTpdo
<1>2. /\ call'.pc = "wait" /\ call'.back = call.back /\ call'.next = call.next
      /\ call'.highest = call.highest /\ call'.target = call.target
      /\ call'.single = call.single /\ call' \in Calls
  <2>1. call \in Calls /\ "wait" \in Places
    BY DEF CallsInv, CallInv, Places
  <2> QED BY <1>1, <2>1 DEF Calls
<1>3. CallInv'
  <2>1. IsPeriodic'
    BY <1>1, Zenon DEF IsPeriodic
  <2> QED BY <1>1, <1>2, <2>1 DEF CallsInv, CallInv
<1>4. LevelInv'
  BY <1>1, <1>2, LevelStays DEF CallsInv
<1>5. CalmInv'
  <2>1. SUFFICES ASSUME calm PROVE CalmInv'
    BY <1>1 DEF CalmInv
  <2>2. Confirming' <=> Confirming
    BY <1>1, <1>2 DEF Confirming
  <2>3. (AtRest' <=> AtRest) /\ Obeyed' = Obeyed /\ StatusWords' = StatusWords
    BY <1>1, NothingMoves
  <2>4. UnderWay' <=> UnderWay
    BY <1>1, <1>2, <2>3, Zenon DEF UnderWay
  <2>5. IF Confirming' THEN UnderWay' ELSE AtRest'
    BY <2>1, <2>2, <2>3, <2>4 DEF CallsInv, CalmInv
  <2>6. moves' = 0 /\ drive'.state \in CalmStates
    BY <1>1, <2>1 DEF CallsInv, CalmInv
  <2> QED BY <1>2, <2>5, <2>6 DEF CalmInv, CalmCallsSucceed, Reading
<1> QED BY <1>1, <1>3, <1>4, <1>5 DEF CallsInv, DriveInv

LEMMA ReturnKeeps ==
  ASSUME CallsInv, Uploaded \/ Received
  PROVE  CallsInv'
<1>1. Deciding /\ call.back \in Backs
  BY DEF Uploaded, Received, Deciding, CallsInv, CallInv, Calls
<1>2. call.pc \in {"check", "wait"} /\ Goto(call.back)
  BY DEF Uploaded, Received
<1>3. calm => IF call.back = "confirm" THEN UnderWay ELSE AtRest
  BY <1>2 DEF CallsInv, CalmInv, Confirming
<1>4. call.back \in {"loop", "next", "confirm", "still_faulted"} /\ call.back # "next"
  BY <1>1 DEF Backs
<1> QED BY <1>1, <1>2, <1>3, <1>4, GotoKeeps

\* A calm drive lets the caller wait in vain only if it has nothing left to do and has
\* said so already: then it is at rest also where the caller waits for the next state.
LEMMA TimedOutKeeps ==
  ASSUME CallsInv, TimedOut
  PROVE  CallsInv'
<1>1. Deciding /\ call.pc = "wait" /\ End("RuntimeError")
  BY DEF TimedOut, Deciding
<1>2. calm => way = "event" /\ heard = 2
  BY <1>1 DEF TimedOut, CallsInv, CallInv, IsPeriodic
<1>3. calm => AtRest
  <2>1. SUFFICES ASSUME calm, Confirming PROVE AtRest
    BY DEF CallsInv, CalmInv
  <2>2. /\ call.next \in Reachable /\ Obeyed = call.next
        /\ \A word \in StatusWords : Matches(word, call.next) =>
             drive.state = call.next /\ word \in Words(drive.state)
    BY <2>1 DEF CallsInv, CalmInv, UnderWay
  <2>3. StatusWords = {tpdo} /\ Obeyed = drive.state /\ Matches(tpdo, drive.state)
    BY <1>2, <2>1 DEF TimedOut, StatusWords
  <2>4. \A word \in StatusWords : word \in Words(drive.state)
    BY <2>2, <2>3, Zenon
  <2>5. drive.state # Fault
    BY <2>2, <2>3 DEF Reachable
  <2> QED BY <2>3, <2>4, <2>5, Zenon DEF AtRest, Settled
<1> QED BY <1>1, <1>2, <1>3, EndKeeps DEF Outcomes

LEMMA FailsKeeps ==
  ASSUME CallsInv, Fails
  PROVE  CallsInv'
<1>1. Deciding /\ ~calm
  BY DEF Fails, Deciding
<1>2. End("SdoError")
  BY DEF Fails
<1> QED BY <1>1, <1>2, EndKeeps DEF Outcomes

LEMMA BeginKeeps ==
  ASSUME CallsInv, NEW pc \in {"loop", "was_faulted"}, NEW target \in Targets, Begin(pc, target)
  PROVE  CallsInv'
<1> DEFINE highest == IF target \notin {Disabled, Ready, SwitchedOn, "DISABLE_VOLTAGE"} THEN 0
                      ELSE IF Level(drive.state) >= Heading THEN Level(drive.state) ELSE Heading
<1>1. Level(drive.state) \in 0 .. 3 /\ Heading \in 0 .. 3
  BY ObeyedIsLow DEF CallsInv, DriveInv
<1>2. /\ highest \in 0 .. 3
      /\ target \in Low => Level(drive.state) <= highest /\ Heading <= highest
  BY <1>1 DEF Low
<1>3. call' = [NoCall EXCEPT !.pc = pc, !.target = target, !.outcome = "running", !.highest = highest]
  BY Zenon DEF Begin
<1> HIDE DEF highest
<1>4. /\ call'.pc = pc /\ call'.back = "idle" /\ call'.next = None /\ call'.mask = 1
      /\ call'.highest = highest /\ call'.target = target
  BY <1>3 DEF NoCall
<1>5. call.pc = "idle" /\ call.back = "idle" /\ UNCHANGED <<drive, tpdo, fresh, heard, way, calm, moves>>
  BY DEF Begin, CallsInv, CallInv
<1>6. CallInv'
  <2>1. call' \in Calls
    <3>1. 1 \in 1 .. 8 /\ pc \in Places
      BY DEF Places, Reading
    <3> QED BY <1>2, <1>3, <3>1, Zenon DEF Calls, NoCall, Outcomes
  <2> QED BY <1>4, <2>1 DEF CallInv
<1>7. LevelInv'
  <2>1. SUFFICES ASSUME target \in Low
        PROVE  (Within(Level(drive.state)) /\ Within(Heading) /\ Within(Level(call.next)))'
    BY <1>4 DEF LevelInv
  <2>2. Heading' = Heading /\ Level(drive'.state) = Level(drive.state)
    BY <1>5, Zenon DEF Heading
  <2>3. Level(call'.next) = 0
    BY <1>4, NoneIsNoState DEF Level, DriveStates
  <2>4. 0 <= highest
    BY <1>2
  <2> QED BY <1>2, <1>4, <2>1, <2>2, <2>3, <2>4, Zenon DEF Within
<1>8. CalmInv'
  <2>1. SUFFICES ASSUME calm PROVE CalmInv'
    BY <1>5 DEF CalmInv
  <2>2. moves' = 0 /\ drive'.state \in CalmStates
    BY <1>5, <2>1 DEF CallsInv, CalmInv
  <2>3. ~Confirming /\ ~Confirming'
    BY <1>4, <1>5 DEF Confirming
  <2>4. AtRest'
    <3>1. AtRest
      BY <2>1, <2>3 DEF CallsInv, CalmInv
    <3> QED BY <1>5, <3>1, NothingMoves
  <2>5. MaskInv'
    BY <1>4 DEF MaskInv
  <2> QED BY <1>4, <2>2, <2>3, <2>4, <2>5 DEF CalmInv, CalmCallsSucceed
<1> QED BY <1>5, <1>6, <1>7, <1>8 DEF CallsInv, DriveInv

-----------------------------------------------------------------------------
\* The drive, its TPDO and the deadlines.

\* The drive changes its state: it is no higher than it was or was heading.
LEMMA DriveMoves ==
  ASSUME CallsInv, NEW to \in DriveStates, UNCHANGED <<tpdo, fresh, heard, call, way, calm>>,
         drive'.state = to, drive'.cw = drive.cw, DriveInv',
         Level(to) <= Level(drive.state) \/ Level(to) <= Heading
  PROVE  CallInv' /\ LevelInv'
<1>1. CallInv'
  BY Zenon DEF CallsInv, CallInv, IsPeriodic
<1>2. LevelInv'
  <2>1. SUFFICES ASSUME call.pc # "idle", call.target \in Low
        PROVE  (Within(Level(drive.state)) /\ Within(Heading) /\ Within(Level(call.next)))'
    BY Zenon DEF LevelInv
  <2>2. Within(Level(drive.state)) /\ Within(Heading) /\ Within(Level(call.next))
    BY <2>1 DEF LevelInv, CallsInv
  <2>3. Level(to) \in 0 .. 3
    BY DEF Level, DriveStates
  <2>4. Within(Level(to))
    BY <2>1, <2>2, <2>3, ObeyedIsLow, WithinIsLow DEF CallsInv, DriveInv
  <2>5. Slack' = Slack /\ Heading' = Heading
    BY Zenon DEF Slack, Heading
  <2>6. /\ Within(Level(drive.state))' <=> Within(Level(to))
        /\ Within(Heading)' <=> Within(Heading)
        /\ Within(Level(call.next))' <=> Within(Level(call.next))
    BY <2>5, Zenon DEF Within
  <2> QED BY <2>2, <2>4, <2>6, Zenon
<1> QED BY <1>1, <1>2

LEMMA ObeyKeeps ==
  ASSUME CallsInv, Obey
  PROVE  CallsInv'
<1>1. /\ drive' = [drive EXCEPT !.state = Obeyed, !.edge = FALSE] /\ Obeyed # drive.state
      /\ UNCHANGED <<tpdo, fresh, heard, call, way, calm, moves>>
  BY Zenon DEF Obey
<1>2. Obeyed \in DriveStates /\ (Level(Obeyed) <= Level(drive.state) \/ Level(Obeyed) <= Heading)
  BY ObeyedIsLow DEF CallsInv, DriveInv
<1> DEFINE to == Obeyed
<1> HIDE DEF to
<1>3. drive'.state = Obeyed /\ drive'.cw = drive.cw /\ DriveInv'
  BY <1>1, <1>2 DEF CallsInv, DriveInv
<1>4. CallInv' /\ LevelInv'
  BY <1>1, <1>2, <1>3, DriveMoves
<1>5. CalmInv'
  <2>1. SUFFICES ASSUME calm PROVE CalmInv'
    BY <1>1 DEF CalmInv
  <2>2. Confirming /\ UnderWay
    BY <1>1, <2>1, Zenon DEF CallsInv, CalmInv, AtRest, Settled
  <2>3. /\ call.next \in Reachable /\ Obeyed = call.next /\ ~call.single
        /\ Fits(drive.cw, call.next)
        /\ \A word \in StatusWords : ~Matches(word, call.next)
    BY <1>1, <2>2, Zenon DEF UnderWay
  <2>4. Confirming'
    BY <1>1, <2>2, Zenon DEF Confirming
  <2>5. drive'.state = call.next /\ drive'.state \in CalmStates
    BY <1>3, <2>3 DEF Reachable, CalmStates
  <2>6. Obeyed' = call.next
    <3>1. Fits(drive'.cw, drive'.state) /\ drive'.state \in Reachable
      BY <1>3, <2>3, <2>5, Zenon
    <3> QED BY <2>5, <3>1, SMTT(60) DEF Obeyed, Fits, Reachable
  <2>7. \A word \in StatusWords' : Matches(word, call.next) => word \in Words(drive'.state)
    <3>1. CASE way = "sdo"
      BY <1>1, <3>1 DEF StatusWords
    <3>2. CASE way # "sdo"
      BY <1>1, <2>3, <3>2 DEF StatusWords
    <3> QED BY <3>1, <3>2
  <2>8. UnderWay'
    BY <1>1, <1>3, <2>3, <2>5, <2>6, <2>7, Zenon DEF UnderWay
  <2>9. moves' = 0 /\ call.pc # "idle" /\ call.pc \notin Reading \ {"confirm"}
    BY <1>1, <2>1, <2>2 DEF CallsInv, CalmInv, CallInv, Confirming, Reading
  <2> QED BY <1>1, <2>4, <2>5, <2>8, <2>9 DEF CalmInv, CalmCallsSucceed, Reading
<1> QED BY <1>1, <1>3, <1>4, <1>5 DEF CallsInv

LEMMA GoesOnKeeps ==
  ASSUME CallsInv, GoesOn
  PROVE  CallsInv'
<1> DEFINE to == IF drive.state = Reaction THEN Fault ELSE Disabled
<1>1. /\ drive' = [drive EXCEPT !.state = to]
      /\ UNCHANGED <<tpdo, fresh, heard, call, way, calm, moves>>
  BY Zenon DEF GoesOn
<1>2. to \in DriveStates /\ Level(to) = 0 /\ Level(drive.state) \in 0 .. 3
  BY ObeyedIsLow DEF Level, DriveStates, CallsInv, DriveInv
<1> HIDE DEF to
<1>3. drive'.state = to /\ drive'.cw = drive.cw /\ DriveInv'
  BY <1>1, <1>2 DEF CallsInv, DriveInv
<1>4. CallInv' /\ LevelInv'
  BY <1>1, <1>2, <1>3, DriveMoves
<1>5. ~calm
  BY DEF GoesOn, CallsInv, CalmInv, CalmStates
<1> QED BY <1>1, <1>3, <1>4, <1>5 DEF CallsInv, CalmInv

LEMMA MovesKeeps ==
  ASSUME CallsInv, NEW to \in {Reaction, Disabled}, Moves(to)
  PROVE  CallsInv'
<1>1. drive' = [drive EXCEPT !.state = to] /\ UNCHANGED <<tpdo, fresh, heard, call, way, calm>>
  BY Zenon DEF Moves
<1>2. to \in DriveStates /\ Level(to) = 0 /\ Level(drive.state) \in 0 .. 3
  BY ObeyedIsLow DEF Level, DriveStates, CallsInv, DriveInv
<1>3. drive'.state = to /\ drive'.cw = drive.cw /\ DriveInv'
  BY <1>1, <1>2 DEF CallsInv, DriveInv
<1>4. CallInv' /\ LevelInv'
  BY <1>1, <1>2, <1>3, DriveMoves
<1>5. ~calm
  BY DEF Moves, CallsInv, CalmInv
<1> QED BY <1>1, <1>3, <1>4, <1>5 DEF CallsInv, CalmInv

\* Nothing moves but what the words or the deadlines say.
LEMMA OthersKeep ==
  ASSUME CallsInv, UNCHANGED <<drive, way, calm, moves>>, heard = 2 => heard' = 2,
         \/ UNCHANGED call
         \/ call' = [call EXCEPT !.single = TRUE]
         \/ call' = [call EXCEPT !.final = TRUE],
         calm => IF Confirming THEN UnderWay' ELSE AtRest'
  PROVE  CallsInv'
<1>1. /\ call'.pc = call.pc /\ call'.back = call.back /\ call'.next = call.next
      /\ call'.highest = call.highest /\ call'.target = call.target
      /\ call'.mask = call.mask /\ call'.outcome = call.outcome
      /\ call' \in Calls
  <2>1. call \in Calls
    BY DEF CallsInv, CallInv
  <2>2. CASE UNCHANGED call
    BY <2>1, <2>2, Zenon
  <2>3. CASE call' = [call EXCEPT !.single = TRUE]
    BY <2>1, <2>3 DEF Calls
  <2>4. CASE call' = [call EXCEPT !.final = TRUE]
    BY <2>1, <2>4 DEF Calls
  <2> QED BY <2>2, <2>3, <2>4
<1>2. CallInv'
  <2>1. IsPeriodic => IsPeriodic'
    BY Zenon DEF IsPeriodic
  <2> QED BY <1>1, <2>1 DEF CallsInv, CallInv
<1>3. LevelInv'
  BY <1>1, LevelStays DEF CallsInv, LevelInv
<1>4. CalmInv'
  <2>1. SUFFICES ASSUME calm PROVE CalmInv'
    BY DEF CalmInv
  <2>2. IF Confirming' THEN UnderWay' ELSE AtRest'
    BY <1>1, <2>1 DEF Confirming
  <2>3. MaskInv' <=> MaskInv
    BY <1>1, Zenon DEF MaskInv
  <2>4. Asked' <=> Asked
    BY <1>1, Zenon DEF Asked
  <2>5. CalmCallsSucceed => CalmCallsSucceed'
    BY <1>1 DEF CalmCallsSucceed
  <2>6. call'.pc = "change" => call'.next = NextState(drive'.state, call'.target)
    BY <1>1, <2>1, Zenon DEF CallsInv, CalmInv
  <2> QED BY <1>1, <2>1, <2>2, <2>3, <2>4, <2>5, <2>6 DEF CallsInv, CalmInv
<1> QED BY <1>2, <1>3, <1>4 DEF CallsInv, DriveInv

LEMMA PublishKeeps ==
  ASSUME CallsInv, Publish
  PROVE  CallsInv'
<1>1. way # "sdo" /\ tpdo' \in Words(drive.state) /\ UNCHANGED <<drive, call, way, calm, moves>>
      /\ (heard = 2 => heard' = 2)
  BY DEF Publish
<1>2. StatusWords' = {tpdo'}
  BY <1>1 DEF StatusWords
<1>3. Obeyed' = Obeyed
  BY <1>1, Zenon DEF Obeyed
<1>4. calm /\ Confirming => UnderWay'
  <2>1. SUFFICES ASSUME calm, Confirming PROVE UnderWay'
    OBVIOUS
  <2>2. UnderWay
    BY <2>1 DEF CallsInv, CalmInv
  <2>3. call.next \in DriveStates /\ drive.state \in DriveStates
    BY <2>2 DEF UnderWay, Reachable, DriveStates, CallsInv, DriveInv
  <2>4. Matches(tpdo', call.next) => drive.state = call.next
    BY <1>1, <2>3, OtherWord
  <2> QED BY <1>1, <1>2, <1>3, <2>2, <2>4 DEF UnderWay
<1>5. calm /\ ~Confirming => AtRest'
  <2>1. SUFFICES ASSUME calm, ~Confirming PROVE AtRest'
    OBVIOUS
  <2>2. AtRest
    BY <2>1 DEF CallsInv, CalmInv
  <2> QED BY <1>1, <1>2, <1>3, <2>2 DEF AtRest, Settled
<1> QED BY <1>1, <1>4, <1>5, OthersKeep, Zenon

LEMMA DeadlinesKeep ==
  ASSUME CallsInv, SinglePasses \/ FinalPasses
  PROVE  CallsInv'
<1>1. /\ call' = [call EXCEPT !.single = TRUE] \/ call' = [call EXCEPT !.final = TRUE]
      /\ UNCHANGED <<drive, tpdo, heard, way, calm, moves>>
  BY Zenon DEF SinglePasses, FinalPasses
<1>2. calm => ~Confirming
  <2>1. SUFFICES ASSUME calm, Confirming PROVE FALSE
    OBVIOUS
  <2>2. SinglePasses
    BY <2>1 DEF FinalPasses
  <2>3. {call.pc, call.back} \cap {"still_faulted"} # {}
    BY <2>1, <2>2 DEF SinglePasses
  <2> QED BY <2>1, <2>3 DEF Confirming, CallsInv, CallInv
<1>3. calm => AtRest'
  BY <1>1, <1>2, NothingMoves DEF CallsInv, CalmInv
<1> QED BY <1>1, <1>2, <1>3, OthersKeep, Zenon

LEMMA CallsInit ==
  ASSUME Init
  PROVE  CallsInv
<1>1. calm \in BOOLEAN /\ call = NoCall
  BY DEF Init
<1>2. /\ drive.state \in DriveStates /\ drive.cw = None /\ drive.edge = FALSE
      /\ calm => drive.state \in CalmStates
      /\ DriveInv
  <2>1. CASE calm
    BY <2>1 DEF Init, DriveInv, DriveStates, CalmStates
  <2>2. CASE ~calm
    <3>1. drive \in [state : {States[k] : k \in 1 .. 8}, cw : {None}, edge : {FALSE}]
      BY <2>2, Zenon DEF Init
    <3> QED BY <2>2, <3>1, StatesRange DEF DriveInv
  <2> QED BY <1>1, <2>1, <2>2
<1>3. call.pc = "idle" /\ call.back = "idle" /\ call.target = None
  BY <1>1 DEF NoCall
<1>4. CallInv
  <2>1. call \in Calls
    BY <1>1 DEF NoCall, Calls, Places, Outcomes
  <2> QED BY <1>3, <2>1 DEF CallInv
<1>5. LevelInv
  BY <1>3 DEF LevelInv
<1>6. CalmInv
  <2>1. SUFFICES ASSUME calm PROVE CalmInv
    BY DEF CalmInv
  <2>2. moves = 0 /\ tpdo \in Words(drive.state)
    BY <2>1 DEF Init
  <2>3. AtRest
    <3>1. Obeyed = drive.state /\ drive.cw # "fault_reset"
      BY <1>2, CommandAssumption DEF Obeyed, Commands
    <3>2. \A word \in StatusWords : word \in Words(drive.state)
      BY <2>2 DEF StatusWords
    <3> QED BY <3>1, <3>2 DEF AtRest, Settled
  <2>4. ~Confirming
    BY <1>3 DEF Confirming
  <2>5. CalmCallsSucceed
    BY <1>3, NoneIsNoState DEF CalmCallsSucceed, DriveStates
  <2> QED BY <1>2, <1>3, <2>1, <2>2, <2>3, <2>4, <2>5 DEF CalmInv, Reading
<1> QED BY <1>1, <1>2, <1>4, <1>5, <1>6 DEF CallsInv

LEMMA CallsNext ==
  ASSUME CallsInv, [Next]_vars
  PROVE  CallsInv'
<1>1. ASSUME NEW target \in Targets, SetState(target) PROVE CallsInv'
  BY <1>1, BeginKeeps, Zenon DEF SetState
<1>2. CASE ResetFromFault
  BY <1>2, BeginKeeps, TargetsAre DEF ResetFromFault, DriveStates
<1>3. CASE CallerStep
  BY <1>3, ReadKeeps, IsFaultedKeeps, WaitKeeps, ReturnKeeps, TimedOutKeeps, Zenon DEF CallerStep
<1>4. CASE Fails
  BY <1>4, FailsKeeps
<1>5. CASE SinglePasses \/ FinalPasses
  BY <1>5, DeadlinesKeep
<1>6. CASE Publish
  BY <1>6, PublishKeeps
<1>7. CASE Obey
  BY <1>7, ObeyKeeps
<1>8. CASE GoesOn
  BY <1>8, GoesOnKeeps
<1>9. ASSUME NEW to \in {Reaction, Disabled}, Moves(to) PROVE CallsInv'
  BY <1>9, MovesKeeps
<1>10. CASE UNCHANGED vars
  <2>1. UNCHANGED <<drive, tpdo, heard, call, way, calm, moves>>
    BY <1>10 DEF vars
  <2>2. calm => IF Confirming THEN UnderWay' ELSE AtRest'
    <3>1. (AtRest' <=> AtRest) /\ Obeyed' = Obeyed /\ StatusWords' = StatusWords
      BY <2>1, NothingMoves
    <3>2. UnderWay' <=> UnderWay
      BY <2>1, <3>1, Zenon DEF UnderWay
    <3> QED BY <3>1, <3>2 DEF CallsInv, CalmInv
  <2> QED BY <2>1, <2>2, OthersKeep, Zenon
<1> QED
  BY <1>1, <1>2, <1>3, <1>4, <1>5, <1>6, <1>7, <1>8, <1>9, <1>10, Zenon DEF Next

-----------------------------------------------------------------------------
\* A request to come down never takes power higher than the state that was asked for,
\* or was there before, if the drive is calm, and one step higher at most if it is not:
\* _change_state and the tables of State402, however often the drive moves.
THEOREM DriveIsNotOvershot == Spec => []OneStepTooFar
<1>1. Init => CallsInv
  BY CallsInit
<1>2. CallsInv /\ [Next]_vars => CallsInv'
  BY CallsNext
<1>3. CallsInv => OneStepTooFar
  BY DEF CallsInv, LevelInv, OneStepTooFar, Within, Slack, Low
<1> QED BY <1>1, <1>2, <1>3, PTL DEF Spec

\* A call to a calm drive does what it promises: the setter returns in the state that
\* was asked for, from every state and in each way in which status words arrive; or a
\* TPDO on events has been received twice, and check_statusword waits for it in vain.
THEOREM CalmCallsAreDone == Spec => []CalmCallsSucceed
<1>1. Init => CallsInv
  BY CallsInit
<1>2. CallsInv /\ [Next]_vars => CallsInv'
  BY CallsNext
<1>3. CallsInv => CalmCallsSucceed
  BY DEF CallsInv, CalmInv, CalmCallsSucceed
<1> QED BY <1>1, <1>2, <1>3, PTL DEF Spec
=============================================================================
