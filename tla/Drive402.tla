-------------------------------- MODULE Drive402 --------------------------------
(***************************************************************************)
(* The state machine of a DS402 drive as BaseNode402 (profiles/p402.py)    *)
(* handles it: the tables of State402, the state property, which reads a   *)
(* status word that changes meanwhile, its setter, and reset_from_fault.   *)
(*                                                                         *)
(* A status word is the set of the positions of its ones, and has the bits *)
(* that SW_MASK looks at.  A control word has the name of its command.     *)
(*                                                                         *)
(* Status words arrive in one of three ways:                               *)
(*   periodic  a TPDO that is sent all the time, on SYNC or with a period  *)
(*             that is known from the start                                *)
(*   event     a TPDO that is sent when the status word has changed; from  *)
(*             its second reception on, PdoMap takes it for a periodic one *)
(*   sdo       without TPDO, each look at the word is an SDO upload        *)
(* check_statusword waits for a TPDO that is_periodic, and raises if none  *)
(* comes.  Otherwise it uploads the object, and the state property, which  *)
(* goes on with the last TPDO, does not see what has been uploaded.        *)
(***************************************************************************)
EXTENDS Naturals, Sequences, FiniteSets

CONSTANTS
  Ways,       \* the ways in which status words arrive
  MaxMoves,   \* bound: changes of state of the drive's own
  None        \* no state, no command

ASSUME DriveAssumption == Ways \subseteq {"periodic", "event", "sdo"} /\ MaxMoves \in Nat

Commands ==
  {"disable_voltage", "shutdown", "switch_on", "enable_operation", "quick_stop", "fault_reset"}

ASSUME CommandAssumption == None \notin Commands

-----------------------------------------------------------------------------
\* The names have underscores for blanks.
NotReady == "NOT_READY_TO_SWITCH_ON"
Disabled == "SWITCH_ON_DISABLED"
Ready == "READY_TO_SWITCH_ON"
SwitchedOn == "SWITCHED_ON"
Enabled == "OPERATION_ENABLED"
Fault == "FAULT"
Reaction == "FAULT_REACTION_ACTIVE"
QuickStop == "QUICK_STOP_ACTIVE"

\* SW_MASK, in the order of the dictionary.
States == <<NotReady, Disabled, Ready, SwitchedOn, Enabled, Fault, Reaction, QuickStop>>

ASSUME NoneAssumption == \A k \in 1 .. 8 : None # States[k]

\* Mutant: bit 5 does not tell an enabled drive from one that stops.
LooseMask(state) == IF state \in {Ready, SwitchedOn, QuickStop} THEN {0, 1, 2, 3, 5, 6} ELSE {0, 1, 2, 3, 6}

Mask(state) ==
  IF state \in {Ready, SwitchedOn, Enabled, QuickStop} THEN {0, 1, 2, 3, 5, 6} ELSE {0, 1, 2, 3, 6}

Value(state) ==
  CASE state = NotReady -> {}               [] state = Disabled -> {6}
    [] state = Ready -> {0, 5}              [] state = SwitchedOn -> {0, 1, 5}
    [] state = Enabled -> {0, 1, 2, 5}      [] state = Fault -> {3}
    [] state = Reaction -> {0, 1, 2, 3}     [] state = QuickStop -> {0, 1, 2}

Matches(word, state) == word \cap Mask(state) = Value(state)

\* TRANSITIONTABLE: the command that takes the drive from one state to another.
Command(from, to) ==
  CASE to = Disabled /\ from \in {Ready, Enabled, SwitchedOn, QuickStop} -> "disable_voltage"
    [] to = Disabled /\ from = NotReady -> "disable_voltage"
    [] to = Fault /\ from = Reaction -> "disable_voltage"
    [] to = Ready /\ from \in {Disabled, SwitchedOn, Enabled} -> "shutdown"
    [] to = SwitchedOn /\ from \in {Ready, Enabled} -> "switch_on"
    [] to = Enabled /\ from \in {SwitchedOn, QuickStop} -> "enable_operation"
    [] to = QuickStop /\ from = Enabled -> "quick_stop"
    [] to = Disabled /\ from = Fault -> "fault_reset"
    [] OTHER -> None

\* NEXTSTATE2ANY; a state that is in none of the keys has no next one.
NextStateIndirect(from) ==
  CASE from \in {Fault, NotReady, QuickStop} -> Disabled
    [] from = Disabled -> Ready
    [] from = Ready -> SwitchedOn
    [] from = SwitchedOn -> Enabled
    [] from = Reaction -> Fault
    [] OTHER -> None

\* Mutant: every change of state takes the indirect path.
NextIndirectly(from, target) == NextStateIndirect(from)

NextState(from, target) ==
  IF Command(from, target) # None THEN target ELSE NextStateIndirect(from)

-----------------------------------------------------------------------------
VARIABLES
  drive, \* state of the drive, its control word, a fault reset that it has not seen
  tpdo,  \* tpdo_values[0x6041]
  fresh, \* is_received of that TPDO
  heard, \* how often a TPDO on events has been received, up to two
  call,  \* the caller of the state property
  way,   \* how status words arrive
  calm,  \* the drive does what it is told in time, nothing of its own, and is heard
  moves  \* what the bound still allows

vars == <<drive, tpdo, fresh, heard, call, way, calm, moves>>

\* mask counts the masks that the state property has tried.  single and final are
\* deadlines that have passed.  highest is history: see OneStepTooFar.
NoCall == [pc |-> "idle", target |-> None, next |-> None, mask |-> 1, back |-> "idle",
           single |-> FALSE, final |-> FALSE, outcome |-> "none", highest |-> 0]

\* The words that stand for a state: the bits outside its mask are arbitrary.
Words(state) == {Value(state) \cup extra : extra \in SUBSET ({5} \ Mask(state))}

\* Before the first TPDO the status word is 0 (_init_tpdo_values).
Init ==
  /\ way \in Ways /\ calm \in BOOLEAN
  /\ drive \in [state : IF calm THEN {Disabled, Ready, SwitchedOn, Enabled, Fault, QuickStop}
                               ELSE {States[k] : k \in 1 .. 8},
                cw : {None}, edge : {FALSE}]
  /\ tpdo \in IF calm THEN Words(drive.state) ELSE {{}}
  /\ fresh = FALSE
  /\ heard \in IF calm /\ way = "event" THEN {1, 2} ELSE {0}
  /\ call = NoCall
  /\ moves = IF calm THEN 0 ELSE MaxMoves

-----------------------------------------------------------------------------
\* The drive, as CiA 402 has it.
Obeyed ==
  LET s == drive.state  cw == drive.cw
  IN CASE cw = "shutdown" /\ s \in {Disabled, SwitchedOn, Enabled} -> Ready
       [] cw \in {"switch_on", "enable_operation"} /\ s = Ready -> SwitchedOn
       [] cw = "switch_on" /\ s = Enabled -> SwitchedOn
       [] cw = "enable_operation" /\ s \in {SwitchedOn, QuickStop} -> Enabled
       [] cw = "quick_stop" /\ s = Enabled -> QuickStop
       [] cw = "quick_stop" /\ s \in {Ready, SwitchedOn} -> Disabled
       [] cw \in {"disable_voltage", "fault_reset"} /\ s \in {Ready, SwitchedOn, Enabled, QuickStop} -> Disabled
       [] cw = "fault_reset" /\ s = Fault /\ drive.edge -> Disabled
       [] OTHER -> s

Obey ==
  /\ Obeyed # drive.state
  /\ drive' = [drive EXCEPT !.state = Obeyed, !.edge = FALSE]
  /\ UNCHANGED <<tpdo, fresh, heard, call, way, calm, moves>>

\* Transitions 1 and 14 happen on their own.
GoesOn ==
  /\ drive.state \in {NotReady, Reaction}
  /\ drive' = [drive EXCEPT !.state = IF @ = Reaction THEN Fault ELSE Disabled]
  /\ UNCHANGED <<tpdo, fresh, heard, call, way, calm, moves>>

\* A fault, or the voltage is gone, or a quick stop is completed.
Moves(to) ==
  /\ moves > 0 /\ drive.state \notin {Fault, Reaction, to}
  /\ to = Disabled => drive.state \in {Ready, SwitchedOn, Enabled, QuickStop}
  /\ drive' = [drive EXCEPT !.state = to]
  /\ moves' = moves - 1
  /\ UNCHANGED <<tpdo, fresh, heard, call, way, calm>>

\* A TPDO arrives: PdoMap.on_message, which sets the period from the second one on,
\* and on_TPDOs_update_callback.
Publish ==
  /\ way # "sdo"
  /\ (way = "periodic" /\ ~fresh) \/ ~Matches(tpdo, drive.state)
  /\ tpdo' \in Words(drive.state)
  /\ fresh' = TRUE
  /\ heard' = IF way = "event" /\ heard < 2 THEN heard + 1 ELSE heard
  /\ UNCHANGED <<drive, call, way, calm, moves>>

\* PdoMap.is_periodic.
IsPeriodic == way = "periodic" \/ (way = "event" /\ heard = 2)

-----------------------------------------------------------------------------
\* How high a state is: what a command may never exceed.
Level(state) ==
  CASE state = Ready -> 1 [] state = SwitchedOn -> 2 [] state \in {Enabled, QuickStop} -> 3 [] OTHER -> 0

\* Where the control word that the drive has takes it in the end.
Heading ==
  CASE drive.cw = "shutdown" -> 1 [] drive.cw = "switch_on" -> 2
    [] drive.cw = "enable_operation" -> 3 [] OTHER -> 0

Begin(pc, target) ==
  /\ call.pc = "idle"
  /\ call' = [NoCall EXCEPT
       !.pc = pc, !.target = target, !.outcome = "running",
       !.highest = IF target \notin {Disabled, Ready, SwitchedOn, "DISABLE_VOLTAGE"} THEN 0
                   ELSE IF Level(drive.state) >= Heading THEN Level(drive.state) ELSE Heading]
  /\ UNCHANGED <<drive, tpdo, fresh, heard, way, calm, moves>>

SetState(target) == Begin("loop", target)
ResetFromFault == Begin("was_faulted", Enabled)

\* From one read of the status word to the next.
Goto(pc) ==
  /\ call' = [call EXCEPT !.pc = pc, !.mask = 1, !.back = "idle",
                          !.next = IF pc = "loop" THEN None ELSE @,
                          !.single = IF pc = "loop" THEN FALSE ELSE @]
  /\ UNCHANGED <<drive, fresh>>

End(outcome) ==
  /\ call' = [NoCall EXCEPT !.target = call.target, !.outcome = outcome]
  /\ UNCHANGED <<drive, fresh>>

\* check_statusword is called.
Check(back) ==
  /\ call' = [call EXCEPT !.pc = "check", !.mask = 1, !.back = back]
  /\ UNCHANGED <<drive, fresh>>

\* The controlword goes out by RPDO or SDO, and the caller goes on.
Send(cw, pc, next) ==
  /\ drive' = [drive EXCEPT !.cw = cw, !.edge = (cw = "fault_reset" /\ (@ \/ drive.cw # cw))]
  /\ call' = [call EXCEPT !.pc = pc, !.mask = 1, !.next = next, !.single = FALSE]
  /\ UNCHANGED fresh

\* Mutant: a step that is not confirmed is tried again without end.
ConfirmForever(s) == IF s = call.next THEN Goto("loop") ELSE Check("confirm")

\* _change_state waits for the state; the setter gives up when both deadlines
\* have passed.
Confirm(s) ==
  IF s = call.next THEN Goto("loop")
  ELSE IF ~call.single THEN Check("confirm")
  ELSE IF call.final THEN End("RuntimeError")
  ELSE Check("loop")

\* What the caller does with the state it has read: the loop of the setter,
\* _next_state, _change_state, reset_from_fault.
Saw(s) ==
  CASE call.pc = "loop" ->
         IF s = call.target THEN End("returned")
         ELSE IF call.target \in {NotReady, Reaction, Fault} THEN End("ValueError")
         ELSE Goto("next")
    [] call.pc = "next" ->
         call' = [call EXCEPT !.pc = "change", !.mask = 1, !.next = NextState(s, call.target)]
         /\ UNCHANGED <<drive, fresh>>
    [] call.pc = "change" ->
         IF Command(s, call.next) = None THEN End("ValueError")
         ELSE Send(Command(s, call.next), "confirm", call.next)
    [] call.pc = "confirm" -> Confirm(s)
    [] call.pc = "was_faulted" ->
         IF s = Fault THEN Send("disable_voltage", "still_faulted", None) ELSE End("not_faulted")

\* statusword: the last TPDO, or an upload.
StatusWords == IF way = "sdo" THEN Words(drive.state) ELSE {tpdo}

\* state: one mask after the other, each on a status word that is read anew.
ReadState ==
  /\ call.pc \in {"loop", "next", "change", "confirm", "was_faulted"}
  /\ \E word \in StatusWords :
       IF Matches(word, States[call.mask]) THEN Saw(States[call.mask])
       ELSE IF call.mask = Len(States) THEN Saw("UNKNOWN")
       ELSE call' = [call EXCEPT !.mask = @ + 1] /\ UNCHANGED <<drive, fresh>>
  /\ UNCHANGED <<tpdo, heard, way, calm, moves>>

\* is_faulted, until reset_from_fault has waited long enough.
IsFaulted ==
  /\ call.pc = "still_faulted"
  /\ \E word \in StatusWords :
       IF Matches(word, Fault) /\ ~call.single THEN Check("still_faulted") ELSE Goto("loop")
  /\ UNCHANGED <<tpdo, heard, way, calm, moves>>

\* check_statusword: it waits for a TPDO that arrives from now on, or uploads the word.
WaitForTpdo ==
  /\ call.pc = "check" /\ IsPeriodic
  /\ call' = [call EXCEPT !.pc = "wait"]
  /\ fresh' = FALSE
  /\ UNCHANGED <<drive, tpdo, heard, way, calm, moves>>

Uploaded ==
  /\ call.pc = "check" /\ ~IsPeriodic
  /\ Goto(call.back)
  /\ UNCHANGED <<tpdo, heard, way, calm, moves>>

Received ==
  /\ call.pc = "wait" /\ fresh
  /\ Goto(call.back)
  /\ UNCHANGED <<tpdo, heard, way, calm, moves>>

\* TIMEOUT_CHECK_TPDO has passed; a calm drive is late with no TPDO that it has to send.
TimedOut ==
  /\ call.pc = "wait" /\ ~fresh
  /\ calm => way = "event" /\ Obeyed = drive.state /\ Matches(tpdo, drive.state)
  /\ End("RuntimeError")
  /\ UNCHANGED <<tpdo, heard, way, calm, moves>>

\* An upload fails.
Fails ==
  /\ ~calm
  /\ (call.pc = "check" /\ ~IsPeriodic) \/ (call.pc \notin {"check", "idle"} /\ way = "sdo")
  /\ End("SdoError")
  /\ UNCHANGED <<tpdo, heard, way, calm, moves>>

\* TIMEOUT_SWITCH_STATE_SINGLE or TIMEOUT_RESET_FAULT, and TIMEOUT_SWITCH_STATE_FINAL.
\* A fault reset of a calm drive has only the way out of its deadline (the FIXME
\* in reset_from_fault).
SinglePasses ==
  /\ ~call.single
  /\ {call.pc, call.back} \cap (IF calm THEN {"still_faulted"} ELSE {"still_faulted", "confirm"}) # {}
  /\ call' = [call EXCEPT !.single = TRUE]
  /\ UNCHANGED <<drive, tpdo, fresh, heard, way, calm, moves>>

FinalPasses ==
  /\ ~calm /\ call.pc # "idle" /\ ~call.final
  /\ call' = [call EXCEPT !.final = TRUE]
  /\ UNCHANGED <<drive, tpdo, fresh, heard, way, calm, moves>>

Targets == {States[k] : k \in 1 .. 8} \cup {"DISABLE_VOLTAGE"}

CallerStep ==
  ReadState \/ IsFaulted \/ WaitForTpdo \/ Uploaded \/ Received \/ TimedOut

Next ==
  \/ \E target \in Targets : SetState(target)
  \/ ResetFromFault
  \/ CallerStep \/ Fails
  \/ SinglePasses \/ FinalPasses
  \/ Publish \/ Obey \/ GoesOn
  \/ \E to \in {Reaction, Disabled} : Moves(to)

\* Threads run, deadlines pass, the drive obeys and is heard.
Fairness ==
  /\ WF_vars(CallerStep) /\ WF_vars(SinglePasses) /\ WF_vars(FinalPasses)
  /\ WF_vars(Publish) /\ WF_vars(Obey) /\ WF_vars(GoesOn)

Spec == Init /\ [][Next]_vars /\ Fairness

-----------------------------------------------------------------------------
\* A request to come down does not switch power on: commands take a calm drive
\* never higher than the state that was asked for, or than where it was or was
\* heading before.  A drive that changes its state while the setter reads it anew
\* for each decision goes one step too far at most, however old the status word
\* is: if it reaches the target between two reads, the next one is commanded.
\* (A quick stop is reached through operation; DISABLE VOLTAGE is no state.)
OneStepTooFar ==
  call.pc # "idle" /\ call.target \in {Disabled, Ready, SwitchedOn} =>
    \/ Level(drive.state) <= call.highest
    \/ Level(drive.state) <= Level(call.target) + (IF calm THEN 0 ELSE 1)

\* Unless a TPDO on events is taken for a periodic one, the setter ends in the state
\* that was asked for, and raises nothing, if the drive does nothing of its own, is
\* heard and is in time; from every state to every state that can be asked for.  With
\* such a TPDO nothing else can go wrong than that check_statusword waits for it in vain.
CalmCallsSucceed ==
  calm /\ call.pc = "idle" /\ call.target \in {Disabled, Ready, SwitchedOn, Enabled, QuickStop} =>
    \/ call.outcome = "returned" /\ drive.state = call.target
    \/ call.outcome = "not_faulted" /\ drive.state # Fault
    \/ call.outcome = "RuntimeError" /\ way = "event" /\ heard = 2

\* check_statusword waits for a TPDO only if it is configured as periodic, says its
\* docstring; else it uploads the object, which a calm drive always answers.  This does
\* not hold (README, findings).
EventsAreNotAwaited ==
  calm /\ way = "event" /\ call.pc = "idle" => call.outcome # "RuntimeError"

\* "(only as a command when writing)" (state): the command to disable the voltage does
\* not switch power on, on a drive that does what it is told and nothing else.  This does
\* not hold (README, findings).
VoltageIsDisabled ==
  calm /\ call.pc # "idle" /\ call.target = "DISABLE_VOLTAGE" => Level(drive.state) <= call.highest

\* Each call ends, although the setter looks at its deadline only after a step
\* that was not confirmed: a drive does not fall back for ever.
DriveCallsEnd == call.pc # "idle" ~> call.pc = "idle"

=============================================================================
