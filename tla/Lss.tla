----------------------------------- MODULE Lss -----------------------------------
(***************************************************************************)
(* LssMaster (lss.py) and the slaves it finds, selects and configures.     *)
(*                                                                         *)
(* A number of Bits bits is the set of the positions of its ones.  An      *)
(* identity is one such number for each part (vendor, product, revision    *)
(* and serial number; 4 parts of 32 bits in the code).                     *)
(*                                                                         *)
(* Every slave answers for itself, on the same CAN ID: a request may have  *)
(* several answers, and the master takes the first one that is queued.     *)
(***************************************************************************)
EXTENDS Naturals, Sequences

CONSTANTS
  Slaves,      \* the LSS slaves on the bus
  Parts, Bits, \* the shape of an identity
  NodeIds,     \* node ids that a slave accepts
  BadId,       \* one that it refuses
  Unset,       \* node id 255: not configured
  None,        \* no result
  Population,  \* who may be on the bus: identities and node ids
  Wanted,      \* identities that are asked for
  MaxCalls,    \* bound: calls of the master
  MaxLost      \* bound: answers that are lost

Part == 0 .. Parts - 1
Numbers == SUBSET (0 .. Bits - 1)
Identities == [Part -> Numbers]

ASSUME LssAssumption ==
  /\ Parts \in Nat \ {0, 1} /\ Bits \in Nat \ {0}
  /\ BadId \notin NodeIds /\ Unset \notin NodeIds \cup {BadId}
  /\ Population \subseteq {who \in [Slaves -> [id : Identities, node : NodeIds \cup {Unset}]] :
                           \A s, t \in Slaves : s # t => who[s].id # who[t].id}
  /\ Wanted \subseteq Identities
  /\ MaxCalls \in Nat /\ MaxLost \in Nat

VARIABLES
  slave,     \* identity, node id, state and scan position of each slave
  answers,   \* what each slave has sent and the master has not received
  responses, \* responses: the queue of the master
  call,      \* the master's call, or its last one
  left       \* what the bounds still allow

vars == <<slave, answers, responses, call, left>>

\* todo: messages still to be sent; slow: the master slept before the next one; phase,
\* found (lss_id), sub and check are those of a fast scan.  asked, before,
\* undisturbed, unmistakable and late are history: what was asked for, who was
\* selected before, that no answer to an earlier call was left, or none to such a
\* call, and that a sleep was over before all answers had come.
NoCall == [op |-> "none", pc |-> "done", todo |-> <<>>, slow |-> FALSE,
           phase |-> "begin", found |-> [p \in Part |-> {}], sub |-> 0, check |-> 0,
           outcome |-> "none", result |-> None,
           asked |-> None, before |-> {}, undisturbed |-> TRUE, unmistakable |-> TRUE, late |-> FALSE]

Init ==
  /\ \E who \in Population :
       slave = [s \in Slaves |-> [id |-> who[s].id, node |-> who[s].node,
                                 state |-> "waiting", pos |-> 0, matched |-> 0]]
  /\ answers = [s \in Slaves |-> <<>>]
  /\ responses = <<>>
  /\ call = NoCall
  /\ left = [calls |-> MaxCalls, lost |-> MaxLost]

-----------------------------------------------------------------------------
\* The slaves, as CiA 305 has them.  A reply is an empty or one-element sequence.
Reply(cs, sub, value) == <<[cs |-> cs, sub |-> sub, value |-> value, error |-> FALSE]>>
Verdict(cs, error) == <<[cs |-> cs, sub |-> 0, value |-> None, error |-> error]>>

Above(number, bit) == {b \in number : b >= bit}

TakesPart(s) == slave[s].node = Unset /\ slave[s].state = "waiting"

ScanMatches(s, msg) ==
  \/ msg.check > Bits
  \/ /\ msg.sub = slave[s].pos
     /\ Above(msg.value, msg.check) = Above(slave[s].id[msg.sub], msg.check)

\* The slave after a fast scan message; the last of all selects it.
Scanned(s, msg) ==
  CASE msg.check > Bits -> [slave[s] EXCEPT !.pos = 0]
    [] msg.check = 0 /\ msg.next < msg.sub -> [slave[s] EXCEPT !.pos = msg.next, !.state = "configuration"]
    [] msg.check = 0 /\ msg.next >= msg.sub -> [slave[s] EXCEPT !.pos = msg.next]
    [] OTHER -> slave[s]

\* Parts of the address that the messages of a selection have matched so far.
Matched(s, msg) ==
  IF slave[s].id[msg.sub] = msg.value /\ msg.sub \in {0, slave[s].matched} THEN msg.sub + 1 ELSE 0

Selects(s, msg) == slave[s].state = "waiting" /\ Matched(s, msg) = Parts

\* How a slave changes, and what it answers.
React(s, msg) ==
  CASE msg.cs = "switch_global" -> [slave[s] EXCEPT !.state = msg.value]
    [] msg.cs = "select" ->
         [slave[s] EXCEPT !.matched = Matched(s, msg),
                          !.state = IF Selects(s, msg) THEN "configuration" ELSE @]
    [] msg.cs = "fast_scan" /\ TakesPart(s) /\ ScanMatches(s, msg) -> Scanned(s, msg)
    [] msg.cs = "configure_node" /\ slave[s].state = "configuration" /\ msg.value # BadId ->
         [slave[s] EXCEPT !.node = msg.value]
    [] OTHER -> slave[s]

Answer(s, msg) ==
  LET selected == slave[s].state = "configuration"
  IN CASE msg.cs = "select" /\ Selects(s, msg) -> Reply("selected", 0, None)
       [] msg.cs = "fast_scan" /\ TakesPart(s) /\ ScanMatches(s, msg) -> Reply("identify_slave", 0, None)
       [] msg.cs = "identify" /\ slave[s].id \in msg.value -> Reply("identify_slave", 0, None)
       [] msg.cs = "identify_unset" /\ slave[s].node = Unset -> Reply("identify_unset", 0, None)
       [] msg.cs = "inquire_node" /\ selected -> Reply(msg.cs, 0, slave[s].node)
       [] msg.cs = "inquire_part" /\ selected -> Reply(msg.cs, msg.sub, slave[s].id[msg.sub])
       [] msg.cs = "configure_node" /\ selected -> Verdict(msg.cs, msg.value = BadId)
       [] msg.cs \in {"bit_timing", "store"} /\ selected -> Verdict(msg.cs, FALSE)
       [] OTHER -> <<>>

-----------------------------------------------------------------------------
\* The messages of each call.  lss_id is a number for each part.
Msg(cs, value) == [cs |-> cs, value |-> value, sub |-> 0, check |-> 0, next |-> 0]
PartMsg(cs, value, sub) == [Msg(cs, value) EXCEPT !.sub = sub]
ScanMsg(id_number, check, sub, next) ==
  [Msg("fast_scan", id_number) EXCEPT !.check = check, !.sub = sub, !.next = next]

\* ListMessageNeedResponse, and the last of the four messages of a selection.
NeedsResponse(msg) ==
  \/ msg.cs \in {"configure_node", "bit_timing", "store", "fast_scan", "inquire_part", "inquire_node"}
  \/ msg.cs = "select" /\ msg.sub = Parts - 1

Selected == {s \in Slaves : slave[s].state = "configuration"}

Silent == \A s \in Slaves : answers[s] = <<>>

\* The messages of a call.  Six identify slaves; what they say together is an
\* identity, which the last one completes.  A fast scan begins with a message
\* that every slave without a node id answers.
MessagesOf(op, asked) ==
  CASE op = "select" -> [k \in 1 .. Parts |-> PartMsg(op, asked[k - 1], k - 1)]
    [] op = "identify" -> [k \in 1 .. 6 |-> Msg(op, IF k = 6 THEN {asked} ELSE {})]
    [] op = "inquire_part" -> <<PartMsg(op, None, asked)>>
    [] op = "fast_scan" -> <<ScanMsg({}, Bits + 1, 0, 0)>>
    [] OTHER -> <<Msg(op, asked)>>

\* The command specifier that its answer must have.
AnswerTo(op) == IF op = "select" THEN "selected" ELSE op

Start(op, asked) ==
  /\ call.pc = "done" /\ left.calls > 0
  /\ left' = [left EXCEPT !.calls = @ - 1]
  /\ call' = [NoCall EXCEPT
       !.op = op, !.pc = "sending", !.outcome = "running",
       !.todo = MessagesOf(op, asked),
       !.asked = IF op = "fast_scan" THEN {s \in Slaves : TakesPart(s)} ELSE asked,
       !.before = Selected, !.undisturbed = Silent,
       !.unmistakable = \A s \in Slaves : \A k \in DOMAIN answers[s] : answers[s][k].cs # AnswerTo(op)]
  /\ UNCHANGED <<slave, answers, responses>>

SwitchGlobal(mode) == Start("switch_global", mode)
SwitchSelective(id) == Start("select", id)
InquireNodeId == Start("inquire_node", None)
InquireAddress(part) == Start("inquire_part", part)
ConfigureNodeId(node) == Start("configure_node", node)
ConfigureBitTiming == Start("bit_timing", None)
ActivateBitTiming == Start("activate", None)
StoreConfiguration == Start("store", None)
\* No answer to these two is awaited: what arrives stays in the queue.
IdentifyRemote(id) == Start("identify", id)
IdentifyNonConfigured == Start("identify_unset", None)
FastScan == Start("fast_scan", None)

-----------------------------------------------------------------------------
\* __send_lss_address sleeps 0.2 s behind each message, fast_scan 10 ms.  An answer
\* may take longer, up to RESPONSE_TIMEOUT.
Overtakes == call.slow /\ ~Silent

\* What is left of the call with one message sent.
Sent(msg) ==
  LET now == [call EXCEPT !.late = @ \/ Overtakes]
  IN IF NeedsResponse(msg) THEN [now EXCEPT !.pc = "waiting", !.todo = Tail(@)]
     ELSE IF Len(call.todo) > 1 THEN [now EXCEPT !.todo = Tail(@), !.slow = TRUE]
     ELSE [now EXCEPT !.pc = "done", !.todo = <<>>, !.outcome = "returned"]

\* The message goes to every slave, with the queue of the master as given.
Broadcast(queue) ==
  LET msg == Head(call.todo)
  IN /\ call.pc = "sending"
     /\ responses' = queue
     /\ slave' = [s \in Slaves |-> React(s, msg)]
     /\ answers' = [s \in Slaves |-> answers[s] \o Answer(s, msg)]
     /\ call' = Sent(msg)
     /\ UNCHANGED left

\* Mutant: what is in the queue stays there.
SendKeeping == Broadcast(responses)

\* __send_command empties the queue first.
SendCommand == Broadcast(<<>>)

\* on_message_received; or the answer is lost.
Arrive(s) ==
  /\ answers[s] # <<>>
  /\ responses' = Append(responses, Head(answers[s]))
  /\ answers' = [answers EXCEPT ![s] = Tail(@)]
  /\ UNCHANGED <<slave, call, left>>

Lose(s) ==
  /\ answers[s] # <<>> /\ left.lost > 0
  /\ answers' = [answers EXCEPT ![s] = Tail(@)]
  /\ left' = [left EXCEPT !.lost = @ - 1]
  /\ UNCHANGED <<slave, responses, call>>

-----------------------------------------------------------------------------
Finish(outcome, result) ==
  call' = [call EXCEPT !.pc = "done", !.outcome = outcome, !.result = result]

\* The next message of a fast scan.
Scan(phase, id, sub, check, next) ==
  call' = [call EXCEPT !.pc = "sending", !.slow = TRUE, !.phase = phase, !.found = id,
                       !.sub = sub, !.check = check,
                       !.todo = <<ScanMsg(id[sub], check, sub, next)>>]

\* Mutant: the last part is followed by one more.
NoWrap(sub) == sub + 1

Succ(sub) == (sub + 1) % Parts

\* Mutant: a bit that somebody answered for is one.
WithAnswered(answered) ==
  IF answered THEN [call.found EXCEPT ![call.sub] = @ \cup {call.check}] ELSE call.found

\* A bit that nobody answered for is one.
WithBit(answered) ==
  IF answered THEN call.found ELSE [call.found EXCEPT ![call.sub] = @ \cup {call.check}]

\* fast_scan goes on with or without an answer: to the first bit; to the next bit
\* or to the message that confirms a number; to the next part or the end.
ScanStep(answered) ==
  LET sub == call.sub
  IN CASE call.phase # "bits" /\ ~answered -> Finish("nothing", None)
       [] call.phase = "begin" /\ answered -> Scan("bits", call.found, 0, Bits - 1, 0)
       [] call.phase = "bits" /\ call.check > 0 ->
            Scan("bits", WithBit(answered), sub, call.check - 1, sub)
       [] call.phase = "bits" /\ call.check = 0 ->
            Scan("confirm", WithBit(answered), sub, 0, Succ(sub))
       [] call.phase = "confirm" /\ answered /\ sub + 1 < Parts ->
            Scan("bits", call.found, sub + 1, Bits - 1, sub + 1)
       [] OTHER -> Finish("found", call.found)

\* The command specifier is that of the request: one for each part of an address.
Fits(msg) == msg.cs = call.op /\ (call.op = "inquire_part" => msg.sub = call.asked)

\* What each call makes of its answer.
Conclude(msg) ==
  CASE call.op = "fast_scan" -> ScanStep(msg.cs = "identify_slave")
    [] call.op = "select" ->
         Finish(IF msg.cs = "selected" THEN "returned" ELSE "refused", None)
    [] call.op \notin {"fast_scan", "select"} /\ (~Fits(msg) \/ msg.error) ->
         Finish("raised", None)
    [] OTHER -> Finish("returned", msg.value)

TakeResponse ==
  /\ call.pc = "waiting" /\ responses # <<>>
  /\ responses' = Tail(responses)
  /\ Conclude(Head(responses))
  /\ UNCHANGED <<slave, answers, left>>

\* RESPONSE_TIMEOUT: a slave that answers at all does so in less time.
TimeOut ==
  /\ call.pc = "waiting" /\ responses = <<>> /\ Silent
  /\ IF call.op = "fast_scan" THEN ScanStep(FALSE) ELSE Finish("raised", None)
  /\ UNCHANGED <<slave, answers, responses, left>>

Calls ==
  \/ \E mode \in {"waiting", "configuration"} : SwitchGlobal(mode)
  \/ \E id \in Wanted : SwitchSelective(id) \/ IdentifyRemote(id)
  \/ InquireNodeId
  \/ \E part \in Part : InquireAddress(part)
  \/ \E node \in NodeIds \cup {BadId} : ConfigureNodeId(node)
  \/ ConfigureBitTiming \/ ActivateBitTiming \/ StoreConfiguration
  \/ IdentifyNonConfigured \/ FastScan

MasterStep == SendCommand \/ TakeResponse \/ TimeOut

Next ==
  \/ Calls
  \/ MasterStep
  \/ \E s \in Slaves : Arrive(s) \/ Lose(s)

Spec == Init /\ [][Next]_vars

-----------------------------------------------------------------------------
Ended(op, outcome) == call.pc = "done" /\ call.op = op /\ call.outcome = outcome

\* fast_scan: the identity it returns is that of a slave, and that slave (no
\* other that took part) is now the one to configure.  However many slaves
\* answer at once, whichever answers are lost, and whatever answers to earlier
\* calls are still to come when it begins; but every answer to a message of the
\* scan must come before the 10 ms behind it are over.
FoundIsSelected ==
  Ended("fast_scan", "found") /\ ~call.late =>
    \E s \in call.asked : /\ slave[s].id = call.result
                          /\ Selected \cap call.asked = {s}

\* "True if a slave is found ... list is the LSS identities" (lss.py): without that
\* condition.  It does not hold: an answer that takes longer than 10 ms is read
\* as the answer to a later message of the scan.
FoundIsASlave == Ended("fast_scan", "found") => \E s \in Slaves : slave[s].id = call.result

\* The number whose highest differing bit is clear is the lower one.
LowerNumber(m, n) == \E b \in n \ m : \A c \in (m \ n) \cup (n \ m) : c <= b
Lower(x, y) == \E p \in Part : LowerNumber(x[p], y[p]) /\ \A q \in 0 .. p - 1 : x[q] = y[q]

\* "find unconfigured slave with lowest number of LSS identities" (lss.py): if
\* nothing is lost, no earlier request is still being answered and no answer takes
\* longer than the 10 ms behind a message, a scan finds the lowest of the slaves
\* that take part, and fails only if there is none.
ScanFindsLowest ==
  call.op = "fast_scan" /\ call.pc = "done" /\ call.undisturbed /\ ~call.late /\ left.lost = MaxLost =>
    IF call.asked = {} THEN call.outcome = "nothing"
    ELSE /\ call.outcome = "found"
         /\ \A s \in call.asked : slave[s].id = call.result \/ Lower(call.result, slave[s].id)

\* What the other calls report is so: a selection that succeeded has selected that
\* slave and, if nothing was lost or overtaken by the next of its messages, one
\* that failed has not; a node id was accepted by a slave that is selected, an
\* answer to an inquiry is of such a slave.
\* Whatever answers to other calls come in between, but not if a late answer to
\* a call of the same kind was under way: nothing tells it from the new one.
ReportsAreTrue ==
  call.pc = "done" /\ call.unmistakable =>
    /\ Ended("select", "returned") => \E s \in Selected : slave[s].id = call.asked
    /\ call.op = "select" /\ call.outcome \in {"refused", "raised"} /\ ~call.late /\ left.lost = MaxLost =>
         \A s \in Slaves : slave[s].id = call.asked => s \in call.before
    /\ Ended("configure_node", "returned") => \E s \in Selected : slave[s].node = call.asked
    /\ Ended("inquire_node", "returned") => \E s \in Selected : slave[s].node = call.result
    /\ Ended("inquire_part", "returned") =>
         \E s \in Selected : call.result = slave[s].id[call.asked]

=============================================================================
