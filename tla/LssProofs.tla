------------------------------- MODULE LssProofs -------------------------------
(***************************************************************************)
(* A fast scan finds the slave with the lowest identity and selects it, and *)
(* the other calls report what is so: for identities of any shape, and any  *)
(* number of slaves, of calls and of answers that are lost.                *)
(***************************************************************************)
EXTENDS Lss, SequenceTheorems, TLAPS

-----------------------------------------------------------------------------
\* Types.

Specifiers == {"selected", "identify_slave", "identify_unset", "inquire_node",
               "inquire_part", "configure_node", "bit_timing", "store"}

Replies ==
  [cs : Specifiers, sub : Part, value : {None, Unset} \cup NodeIds \cup Numbers, error : BOOLEAN]

SlaveRecords ==
  [id : Identities, node : NodeIds \cup {Unset}, state : {"waiting", "configuration"},
   pos : Part, matched : Nat]

CallFields == {"op", "pc", "todo", "slow", "phase", "found", "sub", "check", "outcome",
               "result", "asked", "before", "undisturbed", "unmistakable", "late"}

SlaveTypes ==
  /\ slave \in [Slaves -> SlaveRecords]
  /\ \A s, t \in Slaves : s # t => slave[s].id # slave[t].id

AnswerTypes ==
  /\ answers \in [Slaves -> Seq(Replies)]
  /\ responses \in Seq(Replies)

LossTypes ==
  /\ DOMAIN left = {"calls", "lost"}
  /\ left.lost \in Nat /\ left.lost <= MaxLost

-----------------------------------------------------------------------------
\* What is under way.

Coming ==
  {responses[i] : i \in DOMAIN responses}
    \cup UNION {{answers[s][i] : i \in DOMAIN answers[s]} : s \in Slaves}

Quiet == responses = <<>> /\ Silent

NothingLost == left.lost = MaxLost

-----------------------------------------------------------------------------
\* What each call has still to send.

Calling(op) == call.op = op /\ call.pc # "done"
Sending(op) == call.op = op /\ call.pc = "sending"
Awaiting(op) == call.op = op /\ call.pc = "waiting"

\* The messages of a selection behind the first k.
Rest(k) == [i \in 1 .. Parts - k |-> PartMsg("select", call.asked[k + i - 1], k + i - 1)]

\* After k messages of a selection the slaves know who agrees so far.
Addressed(k) ==
  k > 0 => \A s \in Slaves :
    slave[s].matched = k <=> \A p \in 0 .. k - 1 : slave[s].id[p] = call.asked[p]

\* The message of a fast scan.
Probe ==
  CASE call.phase = "begin" -> ScanMsg({}, Bits + 1, 0, 0)
    [] call.phase = "bits" -> ScanMsg(call.found[call.sub], call.check, call.sub, call.sub)
    [] call.phase = "confirm" -> ScanMsg(call.found[call.sub], 0, call.sub, Succ(call.sub))

Identifying == {Msg("identify", v) : v \in {{}, {call.asked}}}

CallShape ==
  /\ DOMAIN call = CallFields
  /\ call.pc \in {"done", "sending", "waiting"}
  /\ Calling("switch_global") => call.asked \in {"waiting", "configuration"}
  /\ Calling("configure_node") => call.asked \in NodeIds \cup {BadId}
  /\ Calling("inquire_part") => call.asked \in Part /\ call.todo \in {<<>>, <<PartMsg("inquire_part", None, call.asked)>>}
  /\ Sending("identify") => call.todo \in Seq(Identifying) /\ call.todo # <<>>
  /\ call.op \in {"switch_global", "inquire_node", "configure_node", "bit_timing", "activate",
                  "store", "identify_unset"} /\ call.pc = "sending" =>
       call.todo = <<Msg(call.op, call.asked)>>
  /\ Sending("inquire_part") => call.todo = <<PartMsg("inquire_part", None, call.asked)>>
  /\ call.op \in {"none", "switch_global", "inquire_node", "inquire_part", "configure_node", "bit_timing",
                  "activate", "store", "identify", "identify_unset", "select", "fast_scan"}
  /\ call.op = "none" => call.pc = "done"

-----------------------------------------------------------------------------
\* A selection.

SelectInv ==
  /\ Calling("select") => call.asked \in Identities /\ call.before \subseteq Slaves
  /\ Sending("select") =>
       /\ \E k \in 0 .. Parts - 1 : call.todo = Rest(k) /\ Addressed(k) /\ (k > 0 => call.slow)
       /\ \A s \in Slaves : slave[s].state = "configuration" => s \in call.before
       /\ call.unmistakable =>
            \A s \in Slaves : \A i \in DOMAIN answers[s] : answers[s][i].cs # "selected"
  /\ Awaiting("select") =>
       /\ ~call.late => \A m \in Coming : m.cs = "selected"
       /\ call.unmistakable =>
            \A m \in Coming : m.cs = "selected" => \E s \in Selected : slave[s].id = call.asked
       /\ ~call.late /\ Quiet /\ NothingLost =>
            \A s \in Slaves : slave[s].id = call.asked => s \in call.before

-----------------------------------------------------------------------------
\* An inquiry, and the configuration of a node id.

\* What an answer to the call would say truly.
IsTrue(m) ==
  \E s \in Selected :
    CASE call.op = "configure_node" -> m.error \/ slave[s].node = call.asked
      [] call.op = "inquire_node" -> slave[s].node = m.value
      [] call.op = "inquire_part" -> m.sub = call.asked => slave[s].id[call.asked] = m.value
      [] OTHER -> TRUE

Reporting == {"configure_node", "inquire_node", "inquire_part"}

ReportInv ==
  call.op \in Reporting /\ call.unmistakable =>
    /\ call.pc = "sending" =>
         \A s \in Slaves : \A i \in DOMAIN answers[s] : answers[s][i].cs # call.op
    /\ call.pc = "waiting" => \A m \in Coming : m.cs = call.op => IsTrue(m)

-----------------------------------------------------------------------------
\* A fast scan.

Agrees(s, k) == \A p \in 0 .. k - 1 : slave[s].id[p] = call.found[p]

ScanShape ==
  Calling("fast_scan") =>
    /\ call.phase \in {"begin", "bits", "confirm"}
    /\ call.found \in Identities /\ call.sub \in Part /\ call.check \in 0 .. Bits - 1
    /\ call.phase = "begin" => call.sub = 0 /\ call.found[0] = {}
    /\ \A p \in Part : p > call.sub => call.found[p] = {}
    /\ call.phase = "bits" => \A b \in call.found[call.sub] : b > call.check
    /\ call.pc = "sending" => call.todo = <<Probe>> /\ (call.phase # "begin" => call.slow)

\* The last message is under way, or answered.
AtTheEnd == call.phase = "confirm" /\ call.pc = "waiting" /\ call.sub = Parts - 1

\* How far those who agree have come.
Reached == IF call.phase = "confirm" /\ call.pc = "waiting" THEN call.sub + 1 ELSE call.sub

Begun == call.phase # "begin" \/ call.pc = "waiting"

\* Who takes part, and where they are.
PartsInv ==
  Calling("fast_scan") =>
    /\ call.asked \subseteq Slaves
    /\ \A s \in Slaves : s \notin call.asked => ~TakesPart(s)
    /\ \A s \in call.asked : slave[s].node = Unset
    /\ ~AtTheEnd => \A s \in call.asked : slave[s].state = "waiting"
    /\ Begun /\ ~AtTheEnd =>
         \A s \in call.asked : slave[s].pos <= Reached /\ (slave[s].pos = Reached <=> Agrees(s, Reached))
    /\ AtTheEnd => \A s \in call.asked : slave[s].state = "configuration" <=> Agrees(s, Parts)

\* Whom the message under way fits.
Fitted(s) ==
  CASE call.phase = "begin" -> TRUE
    [] call.phase = "bits" ->
         /\ Agrees(s, call.sub)
         /\ Above(slave[s].id[call.sub], call.check) = Above(call.found[call.sub], call.check)
    [] call.phase = "confirm" -> Agrees(s, call.sub + 1)

\* An answer to a message of the scan comes from a slave whom it fits, as long
\* as no answer to an earlier one was still to come.
AnswersInv ==
  /\ Sending("fast_scan") /\ call.phase = "begin" /\ call.undisturbed => Silent
  /\ Awaiting("fast_scan") /\ ~call.late /\ (call.phase # "begin" \/ call.undisturbed) =>
       /\ \A m \in Coming : m.cs = "identify_slave"
       /\ ~Quiet => \E s \in call.asked : Fitted(s)

-----------------------------------------------------------------------------
\* The lowest identity.

Undisturbed == call.undisturbed /\ ~call.late /\ NothingLost

AllAnswer ==
  Awaiting("fast_scan") /\ Undisturbed /\ Quiet => \A s \in call.asked : ~Fitted(s)

\* What is known of the part of the identity that is scanned: its bits above.
Known == IF call.phase = "bits" THEN call.check + 1 ELSE 0

\* The number n is above m as far as the bits from k on tell.
HigherFrom(k, n, m) ==
  \E b \in n \ m : b >= k /\ \A c \in (m \ n) \cup (n \ m) : c >= k => c <= b

SameFrom(k, n, m) == Above(n, k) = Above(m, k)

\* Slaves that the scan has left behind, and those that it may still find.
LeftBehind(s) ==
  \/ \E p \in 0 .. call.sub - 1 :
       Agrees(s, p) /\ HigherFrom(0, slave[s].id[p], call.found[p])
  \/ Agrees(s, call.sub) /\ HigherFrom(Known, slave[s].id[call.sub], call.found[call.sub])

MayBeFound(s) ==
  Agrees(s, call.sub) /\ SameFrom(Known, slave[s].id[call.sub], call.found[call.sub])

LowestInv ==
  Calling("fast_scan") /\ call.phase # "begin" /\ Undisturbed =>
    /\ \E s \in call.asked : MayBeFound(s)
    /\ \A s \in call.asked : LeftBehind(s) \/ MayBeFound(s)

ScanInv == ScanShape /\ PartsInv /\ AnswersInv /\ AllAnswer /\ LowestInv

Inv ==
  /\ SlaveTypes /\ AnswerTypes /\ LossTypes /\ CallShape
  /\ SelectInv /\ ReportInv /\ ScanInv
  /\ FoundIsSelected /\ ScanFindsLowest /\ ReportsAreTrue

-----------------------------------------------------------------------------
\* Numbers and their bits.

LEMMA PartsAre ==
  /\ Parts \in Nat /\ Parts >= 2 /\ Bits \in Nat /\ Bits >= 1
  /\ 0 \in Part /\ Parts - 1 \in Part
  /\ \A p \in Part : p \in Nat /\ p < Parts
  /\ \A p \in Nat : p < Parts => p \in Part
  /\ BadId \notin NodeIds /\ Unset \notin NodeIds /\ MaxLost \in Nat
<1>1. Parts \in Nat /\ Parts # 0 /\ Parts # 1 /\ Bits \in Nat /\ Bits # 0
  BY LssAssumption
<1>2. BadId \notin NodeIds /\ Unset \notin NodeIds /\ MaxLost \in Nat
  BY LssAssumption
<1> QED BY <1>1, <1>2 DEF Part

LEMMA AllBits ==
  ASSUME NEW n \in Numbers
  PROVE  /\ \A b \in n : b \in Nat /\ b < Bits
         /\ Above(n, 0) = n /\ Above(n, Bits) = {}
<1>1. \A b \in n : b \in Nat /\ b < Bits
  BY PartsAre DEF Numbers
<1>2. \A b \in n : b >= 0 /\ ~(b >= Bits)
  BY <1>1, PartsAre
<1>3. Above(n, 0) = n
  BY <1>2 DEF Above
<1>4. Above(n, Bits) = {}
  BY <1>2 DEF Above
<1> QED BY <1>1, <1>3, <1>4

\* One bit more is compared, c, of which m has none yet.
LEMMA OneBitMore ==
  ASSUME NEW n \in Numbers, NEW m \in Numbers, NEW c \in 0 .. Bits - 1, \A b \in m : b > c
  PROVE  /\ SameFrom(c + 1, n, m) => IF c \in n THEN HigherFrom(c, n, m) /\ SameFrom(c, n, m \cup {c})
                                     ELSE SameFrom(c, n, m)
         /\ SameFrom(c + 1, n, m) /\ SameFrom(c, n, m) => c \notin n
         /\ HigherFrom(c + 1, n, m) => HigherFrom(c, n, m) /\ HigherFrom(c, n, m \cup {c})
<1>1. /\ \A b \in n : b \in Nat
      /\ \A b \in m : b \in Nat /\ b > c
      /\ c \in Nat
  BY AllBits, PartsAre
<1>2. \A b \in Nat : b >= c <=> b >= c + 1 \/ b = c
  BY <1>1
<1>3. ASSUME SameFrom(c + 1, n, m) PROVE \A b \in Nat : b >= c + 1 => (b \in n <=> b \in m)
  BY <1>1, <1>3 DEF SameFrom, Above
<1>4. ASSUME SameFrom(c + 1, n, m), c \notin n PROVE SameFrom(c, n, m)
  <2>1. \A b : b \in Above(n, c) <=> b \in Above(m, c)
    BY <1>1, <1>2, <1>3, <1>4 DEF Above
  <2> QED BY <2>1 DEF SameFrom
<1>5. ASSUME SameFrom(c + 1, n, m), c \in n PROVE SameFrom(c, n, m \cup {c})
  <2>1. \A b : b \in Above(n, c) <=> b \in Above(m \cup {c}, c)
    BY <1>1, <1>2, <1>3, <1>5 DEF Above
  <2> QED BY <2>1 DEF SameFrom
<1>6. ASSUME SameFrom(c + 1, n, m), c \in n PROVE HigherFrom(c, n, m)
  <2>1. c \in n \ m /\ c >= c
    BY <1>1, <1>6
  <2>2. \A d \in (m \ n) \cup (n \ m) : d >= c => d <= c
    BY <1>1, <1>2, <1>3, <1>6
  <2> QED BY <2>1, <2>2 DEF HigherFrom
<1>7. ASSUME SameFrom(c, n, m) PROVE c \notin n
  <2>1. c \in Above(n, c) <=> c \in Above(m, c)
    BY <1>7 DEF SameFrom
  <2> QED BY <1>1, <2>1 DEF Above
<1>8. ASSUME HigherFrom(c + 1, n, m) PROVE HigherFrom(c, n, m) /\ HigherFrom(c, n, m \cup {c})
  <2>1. PICK b \in n \ m : b >= c + 1 /\ \A d \in (m \ n) \cup (n \ m) : d >= c + 1 => d <= b
    BY <1>8 DEF HigherFrom
  <2>2. b \in Nat /\ b >= c /\ c <= b /\ b # c
    BY <1>1, <2>1
  <2>3. \A d \in (m \ n) \cup (n \ m) : d >= c => d <= b
    BY <1>1, <1>2, <2>1, <2>2
  <2>4. HigherFrom(c, n, m)
    BY <2>1, <2>2, <2>3 DEF HigherFrom
  <2>5. b \in n \ (m \cup {c})
    BY <2>1, <2>2
  <2>6. \A d \in ((m \cup {c}) \ n) \cup (n \ (m \cup {c})) : d >= c => d <= b
    BY <1>1, <1>2, <2>2, <2>3
  <2>7. HigherFrom(c, n, m \cup {c})
    BY <2>2, <2>5, <2>6 DEF HigherFrom
  <2> QED BY <2>4, <2>7
<1> QED BY <1>4, <1>5, <1>6, <1>7, <1>8

\* All bits are compared.
LEMMA AllCompared ==
  ASSUME NEW n \in Numbers, NEW m \in Numbers
  PROVE  /\ SameFrom(0, n, m) <=> n = m
         /\ HigherFrom(0, n, m) => LowerNumber(m, n)
         /\ m = {} => SameFrom(Bits, n, m)
<1>1. \A b \in n \cup m : b \in Nat
  BY AllBits
<1>2. SameFrom(0, n, m) <=> n = m
  BY AllBits DEF SameFrom
<1>3. HigherFrom(0, n, m) => LowerNumber(m, n)
  BY <1>1 DEF HigherFrom, LowerNumber
<1>4. m = {} => SameFrom(Bits, n, m)
  BY AllBits DEF SameFrom
<1> QED BY <1>2, <1>3, <1>4

-----------------------------------------------------------------------------
\* The bus delivers an answer, or loses one.

LEMMA TailIs ==
  ASSUME NEW S, NEW q \in Seq(S), q # <<>>
  PROVE  /\ Head(q) \in S /\ Head(q) = q[1] /\ 1 \in DOMAIN q
         /\ Tail(q) \in Seq(S)
         /\ \A i \in DOMAIN Tail(q) : i + 1 \in DOMAIN q /\ Tail(q)[i] = q[i + 1]
<1>1. Len(q) \in Nat /\ Len(q) # 0 /\ DOMAIN q = 1 .. Len(q)
  BY LenProperties, EmptySeq
<1>2. /\ Tail(q) \in Seq(S) /\ Len(Tail(q)) = Len(q) - 1
      /\ \A i \in 1 .. Len(Tail(q)) : Tail(q)[i] = q[i + 1]
  BY HeadTailProperties
<1>3. DOMAIN Tail(q) = 1 .. Len(q) - 1
  BY <1>2, LenProperties
<1>4. Head(q) \in S /\ Head(q) = q[1]
  BY HeadTailProperties
<1>5. \A i \in 1 .. Len(q) - 1 : i + 1 \in 1 .. Len(q)
  BY <1>1
<1> QED BY <1>1, <1>2, <1>3, <1>4, <1>5

LEMMA TrafficIs ==
  ASSUME AnswerTypes, LossTypes, NEW s \in Slaves, Arrive(s) \/ Lose(s)
  PROVE  /\ UNCHANGED <<slave, call>>
         /\ AnswerTypes' /\ LossTypes'
         /\ ~Quiet /\ ~Silent /\ Coming' \subseteq Coming
         /\ NothingLost' => NothingLost /\ ~Quiet'
         /\ \A t \in Slaves : \A i \in DOMAIN answers'[t] :
              \E j \in DOMAIN answers[t] : answers'[t][i] = answers[t][j]
<1> DEFINE q == answers[s]
<1>1. /\ q # <<>> /\ q \in Seq(Replies)
      /\ answers' = [answers EXCEPT ![s] = Tail(q)]
      /\ UNCHANGED <<slave, call>>
  BY DEF Arrive, Lose, AnswerTypes
<1>2. /\ Head(q) \in Replies /\ Head(q) = q[1] /\ 1 \in DOMAIN q
      /\ Tail(q) \in Seq(Replies)
      /\ \A i \in DOMAIN Tail(q) : i + 1 \in DOMAIN q /\ Tail(q)[i] = q[i + 1]
  BY <1>1, TailIs
<1>3. ~Quiet /\ ~Silent
  BY <1>1 DEF Quiet, Silent
<1>4. answers' \in [Slaves -> Seq(Replies)]
  BY <1>1, <1>2 DEF AnswerTypes
<1>5. \A t \in Slaves : \A i \in DOMAIN answers'[t] :
        \E j \in DOMAIN answers[t] : answers'[t][i] = answers[t][j]
  <2>1. ASSUME NEW t \in Slaves, NEW i \in DOMAIN answers'[t]
        PROVE  \E j \in DOMAIN answers[t] : answers'[t][i] = answers[t][j]
    <3>1. CASE t = s
      BY <1>1, <1>2, <2>1, <3>1 DEF AnswerTypes
    <3>2. CASE t # s
      BY <1>1, <2>1, <3>2 DEF AnswerTypes
    <3> QED BY <3>1, <3>2
  <2> QED BY <2>1
<1> HIDE DEF q
<1>6. CASE Arrive(s)
  <2>1. responses' = Append(responses, q[1]) /\ UNCHANGED left
    BY <1>2, <1>6 DEF Arrive, q
  <2>2. /\ responses' \in Seq(Replies) /\ responses' # <<>>
        /\ \A i \in DOMAIN responses' :
             \/ i \in DOMAIN responses /\ responses'[i] = responses[i]
             \/ responses'[i] = q[1]
    <3>1. responses \in Seq(Replies) /\ q[1] \in Replies
      BY <1>2 DEF AnswerTypes
    <3>2. /\ responses' \in Seq(Replies) /\ Len(responses') = Len(responses) + 1
          /\ \A i \in 1 .. Len(responses) : responses'[i] = responses[i]
          /\ responses'[Len(responses) + 1] = q[1]
      BY <2>1, <3>1, AppendProperties
    <3>3. /\ Len(responses) \in Nat /\ DOMAIN responses = 1 .. Len(responses)
          /\ DOMAIN responses' = 1 .. Len(responses) + 1
      BY <3>1, <3>2, LenProperties
    <3>4. \A i \in 1 .. Len(responses) + 1 : i \in 1 .. Len(responses) \/ i = Len(responses) + 1
      BY <3>3
    <3>5. responses' # <<>>
      BY <3>2, <3>3, EmptySeq
    <3> QED BY <3>2, <3>3, <3>4, <3>5
  <2>3. Coming' \subseteq Coming
    BY <1>2, <1>5, <2>2 DEF Coming, q
  <2>4. AnswerTypes' /\ LossTypes' /\ ~Quiet' /\ (NothingLost' => NothingLost)
    BY <1>4, <2>1, <2>2 DEF AnswerTypes, LossTypes, Quiet, NothingLost
  <2> QED BY <1>1, <1>3, <1>5, <2>3, <2>4
<1>7. CASE Lose(s)
  <2>1. responses' = responses /\ left' = [left EXCEPT !.lost = left.lost - 1] /\ left.lost > 0
    BY <1>7 DEF Lose
  <2>2. Coming' \subseteq Coming
    BY <1>5, <2>1 DEF Coming
  <2>3. LossTypes' /\ ~NothingLost'
    BY <2>1, PartsAre DEF LossTypes, NothingLost
  <2>4. AnswerTypes'
    BY <1>4, <2>1 DEF AnswerTypes
  <2> QED BY <1>1, <1>3, <1>5, <2>2, <2>3, <2>4
<1> QED BY <1>6, <1>7

\* The parts of the invariant that the bus leaves alone.
LEMMA TrafficKeeps ==
  ASSUME Inv, NEW s \in Slaves, Arrive(s) \/ Lose(s)
  PROVE  Inv'
<1>1. /\ UNCHANGED <<slave, call>>
      /\ AnswerTypes' /\ LossTypes'
      /\ ~Quiet /\ ~Silent /\ Coming' \subseteq Coming
      /\ NothingLost' => NothingLost /\ ~Quiet'
      /\ \A t \in Slaves : \A i \in DOMAIN answers'[t] :
           \E j \in DOMAIN answers[t] : answers'[t][i] = answers[t][j]
  BY TrafficIs DEF Inv
<1>2. SlaveTypes' /\ CallShape'
  <2>1. SlaveTypes'
    BY <1>1 DEF Inv, SlaveTypes
  <2>2. CallShape'
    BY <1>1 DEF Inv, CallShape, Calling, Sending, Identifying
  <2> QED BY <2>1, <2>2
<1>3. SelectInv'
  <2>1. SelectInv
    BY DEF Inv
  <2> QED BY <1>1, <2>1 DEF SelectInv, Calling, Sending, Awaiting, Addressed, Rest, Selected
<1>4. ReportInv'
  <2>1. ReportInv
    BY DEF Inv
  <2>2. \A m : IsTrue(m) = IsTrue(m)'
    BY <1>1 DEF IsTrue, Selected
  <2> QED BY <1>1, <2>1, <2>2 DEF ReportInv
<1>5. ScanShape' /\ PartsInv'
  BY <1>1 DEF Inv, ScanInv, ScanShape, PartsInv, Calling, Probe, TakesPart, Begun, AtTheEnd, Reached, Agrees
<1>6. AnswersInv'
  <2>1. AnswersInv /\ \A t : Fitted(t) = Fitted(t)'
    BY <1>1 DEF Inv, ScanInv, Fitted, Agrees
  <2> QED BY <1>1, <2>1 DEF AnswersInv, Awaiting, Sending
<1>7. AllAnswer'
  <2>1. AllAnswer /\ \A t : Fitted(t) = Fitted(t)'
    BY <1>1 DEF Inv, ScanInv, Fitted, Agrees
  <2> QED BY <1>1, <2>1 DEF AllAnswer, Undisturbed, Awaiting, Sending
<1>8. LowestInv'
  BY <1>1 DEF Inv, ScanInv, LowestInv, Calling, Undisturbed, MayBeFound, LeftBehind, Agrees, Known
<1>9. FoundIsSelected' /\ ReportsAreTrue'
  BY <1>1 DEF Inv, FoundIsSelected, ReportsAreTrue, Ended, Selected, NothingLost
<1>10. ScanFindsLowest'
  BY <1>1 DEF Inv, ScanFindsLowest, NothingLost
<1> QED BY <1>1, <1>2, <1>3, <1>4, <1>5, <1>6, <1>7, <1>8, <1>9, <1>10 DEF Inv, ScanInv

-----------------------------------------------------------------------------
\* The beginning.

LEMMA LssInit == Init => Inv
<1> SUFFICES ASSUME Init PROVE Inv
  OBVIOUS
<1>1. PICK who \in Population :
        slave = [s \in Slaves |-> [id |-> who[s].id, node |-> who[s].node,
                                   state |-> "waiting", pos |-> 0, matched |-> 0]]
  BY DEF Init
<1>2. /\ answers = [s \in Slaves |-> <<>>] /\ responses = <<>>
      /\ call = NoCall /\ left = [calls |-> MaxCalls, lost |-> MaxLost]
  BY DEF Init
<1>3. SlaveTypes
  <2>1. /\ who \in [Slaves -> [id : Identities, node : NodeIds \cup {Unset}]]
        /\ \A s, t \in Slaves : s # t => who[s].id # who[t].id
    BY LssAssumption
  <2> QED BY <1>1, <2>1, PartsAre DEF SlaveTypes, SlaveRecords
<1>4. AnswerTypes /\ LossTypes
  BY <1>2, PartsAre DEF AnswerTypes, LossTypes
<1>5. /\ DOMAIN call = CallFields /\ call.op = "none" /\ call.pc = "done"
  BY <1>2 DEF NoCall, CallFields
<1>6. CallShape
  BY <1>5 DEF CallShape, Calling, Sending
<1>7. SelectInv /\ ReportInv /\ ScanInv
  BY <1>5 DEF SelectInv, ReportInv, ScanInv, ScanShape, PartsInv, AnswersInv, AllAnswer, LowestInv,
              Calling, Sending, Awaiting, Reporting
<1>8. FoundIsSelected /\ ScanFindsLowest /\ ReportsAreTrue
  BY <1>5 DEF FoundIsSelected, ScanFindsLowest, ReportsAreTrue, Ended
<1> QED BY <1>3, <1>4, <1>6, <1>7, <1>8 DEF Inv

-----------------------------------------------------------------------------
\* A call begins.

LEMMA StartIs ==
  ASSUME NEW op, NEW asked, LossTypes, Start(op, asked)
  PROVE  /\ UNCHANGED <<slave, answers, responses>> /\ LossTypes'
         /\ call.pc = "done"
         /\ DOMAIN call' = CallFields
         /\ call'.op = op /\ call'.pc = "sending" /\ call'.todo = MessagesOf(op, asked)
         /\ call'.phase = "begin" /\ call'.found = [p \in Part |-> {}]
         /\ call'.sub = 0 /\ call'.check = 0
         /\ call'.asked = IF op = "fast_scan" THEN {s \in Slaves : TakesPart(s)} ELSE asked
         /\ call'.before = Selected /\ call'.undisturbed = Silent
         /\ call'.unmistakable =
              (\A s \in Slaves : \A k \in DOMAIN answers[s] : answers[s][k].cs # AnswerTo(op))
<1> DEFINE todo == MessagesOf(op, asked)
           who == IF op = "fast_scan" THEN {s \in Slaves : TakesPart(s)} ELSE asked
           alone == \A s \in Slaves : \A k \in DOMAIN answers[s] : answers[s][k].cs # AnswerTo(op)
<1>1. call' = [NoCall EXCEPT
        !.op = op, !.pc = "sending", !.outcome = "running",
        !.todo = todo, !.asked = who,
        !.before = Selected, !.undisturbed = Silent, !.unmistakable = alone]
  BY DEF Start
<1>2. UNCHANGED <<slave, answers, responses>> /\ call.pc = "done"
  BY DEF Start
<1>3. LossTypes'
  BY DEF Start, LossTypes
<1> HIDE DEF todo, who, alone
<1>4. /\ DOMAIN call' = CallFields
      /\ call'.op = op /\ call'.pc = "sending" /\ call'.todo = todo
      /\ call'.phase = "begin" /\ call'.found = [p \in Part |-> {}]
      /\ call'.sub = 0 /\ call'.check = 0
      /\ call'.asked = who
      /\ call'.before = Selected /\ call'.undisturbed = Silent
      /\ call'.unmistakable = alone
  BY <1>1 DEF NoCall, CallFields
<1> QED BY <1>2, <1>3, <1>4 DEF todo, who, alone

\* What holds of every call that begins.
LEMMA StartKeeps ==
  ASSUME Inv, NEW op, NEW asked, Start(op, asked),
         op \in {"switch_global", "inquire_node", "inquire_part", "configure_node", "bit_timing",
                 "activate", "store", "identify", "identify_unset", "select", "fast_scan"},
         op = "switch_global" => asked \in {"waiting", "configuration"},
         op = "configure_node" => asked \in NodeIds \cup {BadId},
         op = "inquire_part" => asked \in Part,
         op = "select" => asked \in Identities
  PROVE  Inv'
<1>1. /\ UNCHANGED <<slave, answers, responses>> /\ LossTypes'
      /\ DOMAIN call' = CallFields
      /\ call'.op = op /\ call'.pc = "sending" /\ call'.todo = MessagesOf(op, asked)
      /\ call'.phase = "begin" /\ call'.found = [p \in Part |-> {}]
      /\ call'.sub = 0 /\ call'.check = 0
      /\ call'.asked = IF op = "fast_scan" THEN {s \in Slaves : TakesPart(s)} ELSE asked
      /\ call'.before = Selected /\ call'.undisturbed = Silent
      /\ call'.unmistakable =
           (\A s \in Slaves : \A k \in DOMAIN answers[s] : answers[s][k].cs # AnswerTo(op))
  BY StartIs DEF Inv
<1>2. SlaveTypes' /\ AnswerTypes'
  BY <1>1 DEF Inv, SlaveTypes, AnswerTypes
<1>3. /\ op = "identify" => call'.todo \in Seq(Identifying)' /\ call'.todo # <<>>
      /\ op = "inquire_part" => call'.todo = <<PartMsg("inquire_part", None, call'.asked)>>
      /\ op \in {"switch_global", "inquire_node", "configure_node", "bit_timing", "activate",
                 "store", "identify_unset"} => call'.todo = <<Msg(op, call'.asked)>>
      /\ op = "fast_scan" => call'.todo = <<ScanMsg({}, Bits + 1, 0, 0)>>
  <2>1. ASSUME op = "identify" PROVE call'.todo \in Seq(Identifying)' /\ call'.todo # <<>>
    <3> DEFINE q == [k \in 1 .. 6 |-> Msg(op, IF k = 6 THEN {asked} ELSE {})]
    <3>1. call'.todo = q /\ call'.asked = asked
      BY <1>1, <2>1 DEF MessagesOf
    <3>2. \A k \in 1 .. 6 : Msg(op, IF k = 6 THEN {asked} ELSE {}) \in Identifying'
      BY <2>1, <3>1 DEF Identifying
    <3>3. q \in [1 .. 6 -> Identifying']
      BY <3>2
    <3>4. q \in Seq(Identifying') /\ q # <<>>
      BY <3>3, SeqDef, EmptySeq
    <3> QED BY <3>1, <3>4
  <2>2. op = "inquire_part" => call'.todo = <<PartMsg("inquire_part", None, call'.asked)>>
    BY <1>1 DEF MessagesOf
  <2>3. op \in {"switch_global", "inquire_node", "configure_node", "bit_timing", "activate",
                "store", "identify_unset"} => call'.todo = <<Msg(op, call'.asked)>>
    BY <1>1 DEF MessagesOf
  <2>4. op = "fast_scan" => call'.todo = <<ScanMsg({}, Bits + 1, 0, 0)>>
    BY <1>1 DEF MessagesOf
  <2> QED BY <2>1, <2>2, <2>3, <2>4
<1>4. CallShape'
  BY <1>1, <1>3 DEF CallShape, Calling, Sending
<1>5. SelectInv'
  <2> SUFFICES ASSUME op = "select" PROVE SelectInv'
    BY <1>1 DEF SelectInv, Calling, Sending, Awaiting
  <2>1. call'.todo = [k \in 1 .. Parts |-> PartMsg(op, asked[k - 1], k - 1)] /\ call'.asked = asked
    BY <1>1 DEF MessagesOf
  <2>2. call'.todo = Rest(0)'
    <3>1. 1 .. Parts - 0 = 1 .. Parts /\ \A i \in 1 .. Parts : 0 + i - 1 = i - 1
      BY PartsAre
    <3> QED BY <2>1, <3>1 DEF Rest
  <2>3. 0 \in 0 .. Parts - 1 /\ Addressed(0)'
    BY PartsAre DEF Addressed
  <2>4. AnswerTo(op) = "selected"
    BY DEF AnswerTo
  <2> QED BY <1>1, <2>1, <2>2, <2>3, <2>4 DEF SelectInv, Calling, Sending, Awaiting, Selected
<1>6. ReportInv'
  <2>1. op \in Reporting => AnswerTo(op) = op
    BY DEF AnswerTo, Reporting
  <2>2. CASE op \in Reporting
    <3>1. call'.unmistakable = (\A s \in Slaves : \A k \in DOMAIN answers[s] : answers[s][k].cs # op)
      BY <1>1, <2>1, <2>2
    <3> QED BY <1>1, <3>1 DEF ReportInv
  <2>3. CASE op \notin Reporting
    <3>1. call'.op \notin Reporting
      BY <1>1, <2>3
    <3> QED BY <3>1 DEF ReportInv, Reporting
  <2> QED BY <2>2, <2>3
<1>7. ScanInv'
  <2> SUFFICES ASSUME op = "fast_scan" PROVE ScanInv'
    BY <1>1 DEF ScanInv, ScanShape, PartsInv, AnswersInv, AllAnswer, LowestInv, Calling, Sending, Awaiting
  <2>1. ScanShape'
    <3>1. call'.found \in Identities /\ \A p \in Part : call'.found[p] = {}
      BY <1>1 DEF Identities, Numbers
    <3>2. call'.todo = <<Probe>>'
      BY <1>1, <1>3 DEF Probe
    <3>3. call'.check \in 0 .. Bits - 1 /\ call'.sub \in Part /\ call'.found[0] = {}
      BY <1>1, <3>1, PartsAre
    <3> QED BY <1>1, <3>1, <3>2, <3>3 DEF ScanShape, Calling
  <2>2. PartsInv'
    <3>1. call'.asked = {s \in Slaves : slave[s].node = Unset /\ slave[s].state = "waiting"}
      BY <1>1 DEF TakesPart
    <3> QED BY <1>1, <3>1 DEF PartsInv, Calling, TakesPart, Begun, AtTheEnd
  <2>3. AnswersInv' /\ AllAnswer' /\ LowestInv'
    BY <1>1 DEF AnswersInv, AllAnswer, LowestInv, Calling, Sending, Awaiting, Undisturbed, Silent
  <2> QED BY <2>1, <2>2, <2>3 DEF ScanInv
<1>8. FoundIsSelected' /\ ScanFindsLowest' /\ ReportsAreTrue'
  BY <1>1 DEF FoundIsSelected, ScanFindsLowest, ReportsAreTrue, Ended
<1> QED BY <1>1, <1>2, <1>4, <1>5, <1>6, <1>7, <1>8 DEF Inv

-----------------------------------------------------------------------------
\* A message reaches every slave.

\* What the slaves do with the messages of each kind.
LEMMA ReactIs ==
  ASSUME NEW s \in Slaves, NEW msg
  PROVE  /\ msg.cs = "switch_global" =>
              React(s, msg) = [slave[s] EXCEPT !.state = msg.value] /\ Answer(s, msg) = <<>>
         /\ msg.cs = "select" =>
              /\ React(s, msg) = [slave[s] EXCEPT !.matched = Matched(s, msg),
                   !.state = IF Selects(s, msg) THEN "configuration" ELSE slave[s].state]
              /\ Answer(s, msg) = IF Selects(s, msg) THEN Reply("selected", 0, None) ELSE <<>>
         /\ msg.cs = "fast_scan" =>
              IF TakesPart(s) /\ ScanMatches(s, msg)
              THEN React(s, msg) = Scanned(s, msg) /\ Answer(s, msg) = Reply("identify_slave", 0, None)
              ELSE React(s, msg) = slave[s] /\ Answer(s, msg) = <<>>
         /\ msg.cs = "identify" => React(s, msg) = slave[s] /\
              Answer(s, msg) = IF slave[s].id \in msg.value THEN Reply("identify_slave", 0, None) ELSE <<>>
         /\ msg.cs = "identify_unset" => React(s, msg) = slave[s] /\
              Answer(s, msg) = IF slave[s].node = Unset THEN Reply("identify_unset", 0, None) ELSE <<>>
         /\ msg.cs = "inquire_node" => React(s, msg) = slave[s] /\
              Answer(s, msg) = IF slave[s].state = "configuration"
                               THEN Reply("inquire_node", 0, slave[s].node) ELSE <<>>
         /\ msg.cs = "inquire_part" => React(s, msg) = slave[s] /\
              Answer(s, msg) = IF slave[s].state = "configuration"
                               THEN Reply("inquire_part", msg.sub, slave[s].id[msg.sub]) ELSE <<>>
         /\ msg.cs = "configure_node" =>
              /\ React(s, msg) = IF slave[s].state = "configuration" /\ msg.value # BadId
                                 THEN [slave[s] EXCEPT !.node = msg.value] ELSE slave[s]
              /\ Answer(s, msg) = IF slave[s].state = "configuration"
                                  THEN Verdict("configure_node", msg.value = BadId) ELSE <<>>
         /\ msg.cs \in {"bit_timing", "store"} => React(s, msg) = slave[s] /\
              Answer(s, msg) = IF slave[s].state = "configuration" THEN Verdict(msg.cs, FALSE) ELSE <<>>
         /\ msg.cs = "activate" => React(s, msg) = slave[s] /\ Answer(s, msg) = <<>>
BY DEF React, Answer

\* What is under way after a message: answers to it, and late ones.
LEMMA AnswersAre ==
  ASSUME AnswerTypes, NEW msg,
         \A s \in Slaves : Answer(s, msg) = <<>> \/ \E r \in Replies : Answer(s, msg) = <<r>>,
         responses' = <<>>, answers' = [s \in Slaves |-> answers[s] \o Answer(s, msg)]
  PROVE  /\ AnswerTypes'
         /\ \A m \in Coming' : \/ \E s \in Slaves : \E i \in DOMAIN answers[s] : m = answers[s][i]
                               \/ \E s \in Slaves : Answer(s, msg) = <<m>>
         /\ Silent => \A m \in Coming' : \E s \in Slaves : Answer(s, msg) = <<m>>
         /\ Silent => (Quiet' <=> \A s \in Slaves : Answer(s, msg) = <<>>)
<1>1. ASSUME NEW s \in Slaves
      PROVE  /\ answers'[s] \in Seq(Replies)
             /\ \A i \in DOMAIN answers'[s] :
                  \/ i \in DOMAIN answers[s] /\ answers'[s][i] = answers[s][i]
                  \/ Answer(s, msg) = <<answers'[s][i]>>
             /\ answers[s] = <<>> => answers'[s] = Answer(s, msg)
  <2> PICK a, q : a = answers[s] /\ q = Answer(s, msg)
    OBVIOUS
  <2>1. a \in Seq(Replies) /\ answers'[s] = a \o q
    BY DEF AnswerTypes
  <2>2. CASE q = <<>>
    <3>1. q \in Seq(Replies) /\ a \o q = a
      BY <2>1, <2>2, ConcatEmptySeq
    <3>2. a = <<>> => a \o q = q
      BY <2>2, <3>1
    <3> QED BY <2>1, <3>1, <3>2
  <2>3. CASE \E r \in Replies : q = <<r>>
    <3>1. PICK r \in Replies : q = <<r>>
      BY <2>3
    <3>2. q \in Seq(Replies) /\ Len(q) = 1 /\ q[1] = r
      BY <3>1
    <3>3. /\ a \o q \in Seq(Replies) /\ Len(a \o q) = Len(a) + 1
          /\ \A i \in 1 .. Len(a) + 1 : (a \o q)[i] = IF i <= Len(a) THEN a[i] ELSE q[i - Len(a)]
      BY <2>1, <3>2, ConcatProperties
    <3>4. /\ Len(a) \in Nat /\ DOMAIN a = 1 .. Len(a) /\ DOMAIN (a \o q) = 1 .. Len(a) + 1
      BY <2>1, <3>3, LenProperties
    <3>5. ASSUME NEW i \in 1 .. Len(a) + 1
          PROVE  (i \in 1 .. Len(a) /\ (a \o q)[i] = a[i]) \/ (a \o q)[i] = r
      <4>1. CASE i <= Len(a)
        BY <3>3, <3>4, <4>1
      <4>2. CASE ~(i <= Len(a))
        <5>1. i - Len(a) = 1
          BY <3>4, <4>2
        <5> QED BY <3>2, <3>3, <4>2, <5>1
      <4> QED BY <4>1, <4>2
    <3>6. a = <<>> => a \o q = q
      BY <3>2, ConcatEmptySeq
    <3> QED BY <2>1, <3>1, <3>3, <3>4, <3>5, <3>6
  <2> QED BY <2>2, <2>3
<1>2. AnswerTypes'
  BY <1>1 DEF AnswerTypes
<1>3. Coming' = UNION {{answers'[s][i] : i \in DOMAIN answers'[s]} : s \in Slaves}
  BY DEF Coming
<1>4. \A m \in Coming' : \/ \E s \in Slaves : \E i \in DOMAIN answers[s] : m = answers[s][i]
                         \/ \E s \in Slaves : Answer(s, msg) = <<m>>
  BY <1>1, <1>3
<1>5. Silent => \A m \in Coming' : \E s \in Slaves : Answer(s, msg) = <<m>>
  BY <1>4 DEF Silent
<1>6. Silent => (Quiet' <=> \A s \in Slaves : Answer(s, msg) = <<>>)
  BY <1>1 DEF Silent, Quiet
<1> QED BY <1>2, <1>4, <1>5, <1>6

LEMMA FunctionIsSeq ==
  ASSUME NEW S, NEW n \in Nat, NEW q \in [1 .. n -> S]
  PROVE  q \in Seq(S) /\ Len(q) = n
<1>1. q \in Seq(S)
  BY SeqDef
<1>2. DOMAIN q = 1 .. Len(q) /\ Len(q) \in Nat /\ DOMAIN q = 1 .. n
  BY <1>1, LenProperties
<1> QED BY <1>1, <1>2

\* The message that is sent next.
LEMMA RestIs ==
  ASSUME NEW k \in 0 .. Parts - 1
  PROVE  /\ Rest(k) # <<>> /\ Head(Rest(k)) = PartMsg("select", call.asked[k], k)
         /\ Tail(Rest(k)) = Rest(k + 1)
         /\ Len(Rest(k)) > 1 <=> k # Parts - 1
<1> PICK n \in Nat \ {0} : n = Parts - k
  BY PartsAre
<1> DEFINE e(i) == PartMsg("select", call.asked[k + i - 1], k + i - 1)
           q == [i \in 1 .. n |-> e(i)]
<1>1. Rest(k) = q
  BY DEF Rest
<1> PICK S : S = {e(i) : i \in 1 .. n}
  OBVIOUS
<1>2. q \in Seq(S) /\ Len(q) = n
  <2>1. q \in [1 .. n -> S]
    OBVIOUS
  <2> HIDE DEF q
  <2> QED BY <2>1, FunctionIsSeq
<1>3. /\ q # <<>> /\ Head(q) = q[1] /\ Len(Tail(q)) = n - 1
      /\ Tail(q) \in Seq(S)
      /\ \A i \in 1 .. n - 1 : Tail(q)[i] = q[i + 1]
  <2> HIDE DEF q
  <2>1. q # <<>>
    BY <1>2, EmptySeq
  <2> QED BY <1>2, <2>1, HeadTailProperties
<1>4. q[1] = PartMsg("select", call.asked[k], k)
  <2>1. k + 1 - 1 = k /\ 1 \in 1 .. n
    BY PartsAre
  <2> QED BY <2>1
<1>5. Tail(q) = Rest(k + 1)
  <2>1. Parts - (k + 1) = n - 1 /\ n - 1 \in Nat
    BY PartsAre
  <2> PICK l \in Nat : l = n - 1
    BY <2>1
  <2>2. Tail(q) \in [1 .. l -> S]
    <3> HIDE DEF q
    <3> QED BY <1>3, LenProperties
  <2>3. Rest(k + 1) = [i \in 1 .. l |-> PartMsg("select", call.asked[(k + 1) + i - 1], (k + 1) + i - 1)]
    BY <2>1 DEF Rest
  <2>4. ASSUME NEW i \in 1 .. l PROVE Tail(q)[i] = Rest(k + 1)[i]
    <3>1. i + 1 \in 1 .. n /\ k + (i + 1) - 1 = (k + 1) + i - 1
      BY PartsAre
    <3>2. Tail(q)[i] = e(i + 1)
      BY <1>3, <3>1
    <3>3. Rest(k + 1)[i] = PartMsg("select", call.asked[(k + 1) + i - 1], (k + 1) + i - 1)
      BY <2>3
    <3> QED BY <3>1, <3>2, <3>3
  <2>5. Tail(q) = [i \in 1 .. l |-> Tail(q)[i]]
    <3> HIDE DEF q
    <3> QED BY <2>2
  <2>6. Rest(k + 1) = [i \in 1 .. l |-> Rest(k + 1)[i]]
    BY <2>3
  <2> HIDE DEF q
  <2> QED BY <2>4, <2>5, <2>6
<1>6. n > 1 <=> k # Parts - 1
  BY PartsAre
<1> HIDE DEF q
<1> QED BY <1>1, <1>2, <1>3, <1>4, <1>5, <1>6

LEMMA MessageIs ==
  ASSUME Inv, call.pc = "sending"
  PROVE  LET msg == Head(call.todo)
         IN  /\ msg.cs = call.op
             /\ call.op = "select" => \E k \in 0 .. Parts - 1 :
                  /\ call.todo = Rest(k) /\ Addressed(k) /\ (k > 0 => call.slow)
                  /\ msg.value = call.asked[k] /\ msg.sub = k
             /\ call.op = "fast_scan" => call.todo = <<Probe>> /\ msg = Probe
             /\ call.op \in {"switch_global", "inquire_node", "configure_node", "bit_timing",
                             "activate", "store", "identify_unset"} =>
                  msg.value = call.asked /\ call.todo = <<msg>>
             /\ call.op = "inquire_part" => msg.sub = call.asked /\ call.todo = <<msg>>
             /\ call.op = "identify" => call.todo \in Seq(Identifying) /\ call.todo # <<>>
<1> PICK msg : msg = Head(call.todo)
  OBVIOUS
<1>1. call.op \in {"switch_global", "inquire_node", "inquire_part", "configure_node", "bit_timing",
                   "activate", "store", "identify", "identify_unset", "select", "fast_scan"}
  BY DEF Inv, CallShape
<1>2. CASE call.op = "select"
  <2>1. PICK k \in 0 .. Parts - 1 : call.todo = Rest(k) /\ Addressed(k) /\ (k > 0 => call.slow)
    BY <1>2 DEF Inv, SelectInv, Sending
  <2>2. msg = PartMsg("select", call.asked[k], k)
    BY <2>1, RestIs
  <2>3. msg.cs = "select" /\ msg.value = call.asked[k] /\ msg.sub = k
    BY <2>2 DEF PartMsg, Msg
  <2> QED BY <1>2, <2>1, <2>3
<1>3. CASE call.op = "fast_scan"
  <2>1. call.todo = <<Probe>> /\ call.phase \in {"begin", "bits", "confirm"}
    BY <1>3 DEF Inv, ScanInv, ScanShape, Calling
  <2>2. msg = Probe
    BY <2>1
  <2>3. Probe.cs = "fast_scan"
    BY <2>1 DEF Probe, ScanMsg, Msg
  <2> QED BY <1>3, <2>1, <2>2, <2>3
<1>4. CASE call.op \in {"switch_global", "inquire_node", "configure_node", "bit_timing", "activate",
                        "store", "identify_unset"}
  <2>1. call.todo = <<Msg(call.op, call.asked)>>
    BY <1>4 DEF Inv, CallShape
  <2>2. msg = Msg(call.op, call.asked)
    BY <2>1
  <2>3. msg.cs = call.op /\ msg.value = call.asked
    BY <2>2 DEF Msg
  <2> QED BY <1>4, <2>1, <2>2, <2>3
<1>5. CASE call.op = "inquire_part"
  <2>1. call.todo = <<PartMsg("inquire_part", None, call.asked)>>
    BY <1>5 DEF Inv, CallShape, Sending
  <2>2. msg = PartMsg("inquire_part", None, call.asked)
    BY <2>1
  <2>3. msg.cs = "inquire_part" /\ msg.sub = call.asked
    BY <2>2 DEF PartMsg, Msg
  <2> QED BY <1>5, <2>1, <2>2, <2>3
<1>6. CASE call.op = "identify"
  <2>1. call.todo \in Seq(Identifying) /\ call.todo # <<>>
    BY <1>6 DEF Inv, CallShape, Sending
  <2>2. msg \in Identifying
    BY <2>1, TailIs
  <2>3. msg.cs = "identify"
    BY <2>2 DEF Identifying, Msg
  <2> QED BY <1>6, <2>1, <2>3
<1> QED BY <1>1, <1>2, <1>3, <1>4, <1>5, <1>6

-----------------------------------------------------------------------------
\* What sending a message does to the call.
LEMMA SendIs ==
  ASSUME Inv, SendCommand
  PROVE  LET msg == Head(call.todo)
         IN  /\ call.pc = "sending"
             /\ responses' = <<>> /\ UNCHANGED left
             /\ slave' = [s \in Slaves |-> React(s, msg)]
             /\ answers' = [s \in Slaves |-> answers[s] \o Answer(s, msg)]
             /\ DOMAIN call' = CallFields
             /\ call'.op = call.op /\ call'.phase = call.phase /\ call'.found = call.found
             /\ call'.sub = call.sub /\ call'.check = call.check /\ call'.asked = call.asked
             /\ call'.before = call.before /\ call'.undisturbed = call.undisturbed
             /\ call'.unmistakable = call.unmistakable
             /\ ~call'.late => ~call.late /\ (call.slow => Silent)
             /\ IF NeedsResponse(msg) THEN call'.pc = "waiting" /\ call'.todo = Tail(call.todo)
                ELSE IF Len(call.todo) > 1
                     THEN call'.pc = "sending" /\ call'.todo = Tail(call.todo) /\ call'.slow = TRUE
                     ELSE call'.pc = "done"
<1> PICK msg : msg = Head(call.todo)
  OBVIOUS
<1>1. /\ call.pc = "sending"
      /\ responses' = <<>> /\ UNCHANGED left
      /\ slave' = [s \in Slaves |-> React(s, msg)]
      /\ answers' = [s \in Slaves |-> answers[s] \o Answer(s, msg)]
      /\ call' = Sent(msg)
  BY DEF SendCommand, Broadcast
<1> PICK now : now = [call EXCEPT !.late = call.late \/ Overtakes]
  OBVIOUS
<1>0. DOMAIN call = CallFields
  BY DEF Inv, CallShape
<1>2. /\ DOMAIN now = CallFields
      /\ now.op = call.op /\ now.pc = call.pc /\ now.phase = call.phase /\ now.found = call.found
      /\ now.sub = call.sub /\ now.check = call.check /\ now.asked = call.asked
      /\ now.before = call.before /\ now.undisturbed = call.undisturbed
      /\ now.unmistakable = call.unmistakable
      /\ ~now.late => ~call.late /\ (call.slow => Silent)
  <2> PICK late : late = (call.late \/ Overtakes)
    OBVIOUS
  <2>1. now = [call EXCEPT !.late = late]
    OBVIOUS
  <2>2. ~late => ~call.late /\ (call.slow => Silent)
    BY DEF Overtakes
  <2> QED BY <1>0, <2>1, <2>2 DEF CallFields
<1>3. CASE NeedsResponse(msg)
  <2>1. call' = [now EXCEPT !.pc = "waiting", !.todo = Tail(call.todo)]
    BY <1>1, <1>3 DEF Sent
  <2> QED BY <1>1, <1>2, <1>3, <2>1, ZenonT(60) DEF CallFields
<1>4. CASE ~NeedsResponse(msg) /\ Len(call.todo) > 1
  <2>1. call' = [now EXCEPT !.todo = Tail(call.todo), !.slow = TRUE]
    BY <1>1, <1>4 DEF Sent
  <2> QED BY <1>1, <1>2, <1>4, <2>1, ZenonT(60) DEF CallFields
<1>5. CASE ~NeedsResponse(msg) /\ ~(Len(call.todo) > 1)
  <2>1. call' = [now EXCEPT !.pc = "done", !.todo = <<>>, !.outcome = "returned"]
    BY <1>1, <1>5 DEF Sent
  <2> QED BY <1>1, <1>2, <1>5, <2>1, ZenonT(60) DEF CallFields
<1> QED BY <1>3, <1>4, <1>5

\* Slaves whose identity stays, and who may be selected and get a node id.
LEMMA SlaveTypesStay ==
  ASSUME SlaveTypes, NEW msg, slave' = [s \in Slaves |-> React(s, msg)],
         \A s \in Slaves : React(s, msg) \in SlaveRecords /\ React(s, msg).id = slave[s].id
  PROVE  SlaveTypes' /\ \A s \in Slaves : slave'[s].id = slave[s].id
BY DEF SlaveTypes

LEMMA ReplyIs ==
  ASSUME NEW cs \in Specifiers, NEW sub \in Part,
         NEW value \in {None, Unset} \cup NodeIds \cup Numbers, NEW error \in BOOLEAN
  PROVE  LET r == [cs |-> cs, sub |-> sub, value |-> value, error |-> error]
         IN  r \in Replies /\ r.cs = cs /\ r.sub = sub /\ r.value = value /\ r.error = error
BY DEF Replies

-----------------------------------------------------------------------------
\* A message of a call that nobody has to answer truly: the switch of all slaves,
\* the identifications, the bit timing and the stored configuration.
Others == {"switch_global", "bit_timing", "activate", "store", "identify", "identify_unset"}

LEMMA OtherSendKeeps ==
  ASSUME Inv, SendCommand, call.op \in Others
  PROVE  Inv'
<1> PICK msg : msg = Head(call.todo)
  OBVIOUS
<1>1. /\ call.pc = "sending"
      /\ responses' = <<>> /\ UNCHANGED left
      /\ slave' = [s \in Slaves |-> React(s, msg)]
      /\ answers' = [s \in Slaves |-> answers[s] \o Answer(s, msg)]
      /\ DOMAIN call' = CallFields
      /\ call'.op = call.op /\ call'.asked = call.asked
      /\ IF NeedsResponse(msg) THEN call'.pc = "waiting" /\ call'.todo = Tail(call.todo)
         ELSE IF Len(call.todo) > 1
              THEN call'.pc = "sending" /\ call'.todo = Tail(call.todo) /\ call'.slow = TRUE
              ELSE call'.pc = "done"
  BY SendIs
<1>2. /\ msg.cs = call.op
      /\ call.op \in {"switch_global", "bit_timing", "activate", "store", "identify_unset"} =>
           msg.value = call.asked /\ call.todo = <<msg>>
      /\ call.op = "identify" => call.todo \in Seq(Identifying) /\ call.todo # <<>>
  BY <1>1, MessageIs
<1>3. ASSUME NEW s \in Slaves
      PROVE  /\ React(s, msg) \in SlaveRecords /\ React(s, msg).id = slave[s].id
             /\ Answer(s, msg) = <<>> \/ \E r \in Replies : Answer(s, msg) = <<r>>
  <2>1. slave[s] \in SlaveRecords
    BY DEF Inv, SlaveTypes
  <2> DEFINE isDone ==
        /\ React(s, msg) = slave[s]
              \/ (call.op = "switch_global" /\ React(s, msg) = [slave[s] EXCEPT !.state = msg.value])
        /\ Answer(s, msg) \in {<<>>, Reply("identify_slave", 0, None), Reply("identify_unset", 0, None),
                                Verdict("bit_timing", FALSE), Verdict("store", FALSE)}
  <2>2. isDone
    <3>1. CASE msg.cs = "switch_global"
      BY <1>2, <3>1, ReactIs
    <3>2. CASE msg.cs \in {"bit_timing", "store"}
      BY ZenonT(30), <3>2, ReactIs
    <3>3. CASE msg.cs = "activate"
      BY <3>3, ReactIs
    <3>4. CASE msg.cs = "identify"
      BY <3>4, ReactIs
    <3>5. CASE msg.cs = "identify_unset"
      BY <3>5, ReactIs
    <3> HIDE DEF isDone
    <3> QED BY <1>2, <3>1, <3>2, <3>3, <3>4, <3>5 DEF Others
  <2>3. call.op = "switch_global" => msg.value \in {"waiting", "configuration"}
    BY <1>1, <1>2 DEF Inv, CallShape, Calling
  <2>4. React(s, msg) \in SlaveRecords /\ React(s, msg).id = slave[s].id
    BY <2>1, <2>2, <2>3 DEF SlaveRecords
  <2>5. Answer(s, msg) \in {<<>>, Reply("identify_slave", 0, None), Reply("identify_unset", 0, None),
                           Verdict("bit_timing", FALSE), Verdict("store", FALSE)}
    BY <2>2
  <2>6. \A cs \in Specifiers : /\ \E r \in Replies : Reply(cs, 0, None) = <<r>>
                               /\ \E r \in Replies : Verdict(cs, FALSE) = <<r>>
    BY ReplyIs, PartsAre DEF Reply, Verdict
  <2> QED BY <2>4, <2>5, <2>6 DEF Specifiers
<1>4. SlaveTypes' /\ AnswerTypes'
  BY <1>1, <1>3, SlaveTypesStay, AnswersAre DEF Inv
<1>5. CallShape'
  <2>1. CASE call.op = "identify"
    <3>1. Tail(call.todo) \in Seq(Identifying)
      BY <1>2, <2>1, TailIs
    <3>2. Identifying' = Identifying
      BY <1>1 DEF Identifying
    <3>3. ~NeedsResponse(msg)
      BY <1>2, <2>1 DEF NeedsResponse
    <3>4. Len(call.todo) > 1 => Tail(call.todo) # <<>>
      <4>1. Len(call.todo) \in Nat /\ Len(Tail(call.todo)) = Len(call.todo) - 1
        BY <1>2, <2>1, HeadTailProperties, LenProperties
      <4> PICK q, n : q = Tail(call.todo) /\ n = Len(call.todo)
        OBVIOUS
      <4>2. q \in Seq(Identifying) /\ Len(q) = n - 1 /\ n \in Nat
        BY <3>1, <4>1
      <4>3. q = <<>> => Len(q) = 0
        BY <4>2, EmptySeq
      <4>4. n > 1 => n - 1 # 0
        BY <4>2
      <4> QED BY <4>2, <4>3, <4>4
    <3> QED BY <1>1, <2>1, <3>1, <3>2, <3>3, <3>4 DEF CallShape, Calling, Sending
  <2>2. CASE call.op # "identify"
    <3>1. ~(Len(call.todo) > 1)
      <4>1. call.todo = <<msg>>
        BY <1>2, <2>2 DEF Others
      <4> QED BY <4>1
    <3>2. call'.pc \in {"waiting", "done"}
      BY <1>1, <3>1
    <3>3. call.op = "switch_global" => call'.asked \in {"waiting", "configuration"}
      BY <1>1 DEF Inv, CallShape, Calling
    <3> QED BY <1>1, <2>2, <3>2, <3>3 DEF CallShape, Calling, Sending, Others
  <2> QED BY <2>1, <2>2
<1>6. SelectInv' /\ ReportInv' /\ ScanInv'
  BY <1>1 DEF Others, SelectInv, ReportInv, ScanInv, ScanShape, PartsInv, AnswersInv, AllAnswer,
              LowestInv, Calling, Sending, Awaiting, Reporting
<1>7. FoundIsSelected' /\ ScanFindsLowest' /\ ReportsAreTrue'
  BY <1>1 DEF Others, FoundIsSelected, ScanFindsLowest, ReportsAreTrue, Ended
<1>8. LossTypes'
  BY <1>1 DEF Inv, LossTypes
<1> QED BY <1>4, <1>5, <1>6, <1>7, <1>8 DEF Inv

-----------------------------------------------------------------------------
\* A message of an inquiry or of the configuration of a node id.
LEMMA ReportSendKeeps ==
  ASSUME Inv, SendCommand, call.op \in Reporting
  PROVE  Inv'
<1> PICK msg : msg = Head(call.todo)
  OBVIOUS
<1>1. /\ call.pc = "sending" /\ responses' = <<>> /\ UNCHANGED left
      /\ slave' = [s \in Slaves |-> React(s, msg)]
      /\ answers' = [s \in Slaves |-> answers[s] \o Answer(s, msg)]
      /\ DOMAIN call' = CallFields
      /\ call'.op = call.op /\ call'.asked = call.asked /\ call'.unmistakable = call.unmistakable
      /\ NeedsResponse(msg) => call'.pc = "waiting" /\ call'.todo = Tail(call.todo)
  BY SendIs
<1>2. /\ msg.cs = call.op /\ call.todo = <<msg>>
      /\ call.op \in {"inquire_node", "configure_node"} => msg.value = call.asked
      /\ call.op = "inquire_part" => msg.sub = call.asked
  BY <1>1, MessageIs DEF Reporting
<1>3. call'.pc = "waiting" /\ call'.todo = <<>>
  BY <1>1, <1>2 DEF NeedsResponse, Reporting
<1>4. /\ call.op = "configure_node" => call.asked \in NodeIds \cup {BadId}
      /\ call.op = "inquire_part" => call.asked \in Part
  BY <1>1 DEF Inv, CallShape, Calling
<1>5. ASSUME NEW s \in Slaves
      PROVE  /\ React(s, msg) \in SlaveRecords /\ React(s, msg).id = slave[s].id
             /\ React(s, msg).state = slave[s].state
             /\ slave[s].state # "configuration" => Answer(s, msg) = <<>>
             /\ slave[s].state = "configuration" =>
                  \E r \in Replies :
                    /\ Answer(s, msg) = <<r>>
                    /\ call.op = "configure_node" => r.error \/ React(s, msg).node = call.asked
                    /\ call.op = "inquire_node" => r.value = React(s, msg).node
                    /\ call.op = "inquire_part" => r.value = slave[s].id[call.asked]
  <2> PICK w : w = slave[s]
    OBVIOUS
  <2>1. w \in SlaveRecords
    BY DEF Inv, SlaveTypes
  <2>2. CASE call.op = "inquire_node"
    <3> DEFINE r == [cs |-> "inquire_node", sub |-> 0, value |-> w.node, error |-> FALSE]
    <3>1. r \in Replies /\ r.value = w.node
      BY <2>1, ReplyIs, PartsAre DEF SlaveRecords, Specifiers
    <3>2. React(s, msg) = w /\ Answer(s, msg) = IF w.state = "configuration" THEN <<r>> ELSE <<>>
      <4>1. msg.cs = "inquire_node"
        BY <1>2, <2>2
      <4>2. /\ React(s, msg) = slave[s]
            /\ Answer(s, msg) = IF slave[s].state = "configuration"
                                THEN Reply("inquire_node", 0, slave[s].node) ELSE <<>>
        BY <4>1, ReactIs
      <4> QED BY <4>2 DEF Reply
    <3> HIDE DEF r
    <3> QED BY <2>1, <2>2, <3>1, <3>2
  <2>3. CASE call.op = "inquire_part"
    <3> DEFINE n == w.id[call.asked]
               r == [cs |-> "inquire_part", sub |-> call.asked, value |-> n, error |-> FALSE]
    <3>1. call.asked \in Part /\ n \in Numbers
      BY <1>4, <2>1, <2>3 DEF SlaveRecords, Identities
    <3>2. r \in Replies /\ r.value = n
      BY <3>1, ReplyIs DEF Specifiers
    <3>3. React(s, msg) = w /\ Answer(s, msg) = IF w.state = "configuration" THEN <<r>> ELSE <<>>
      <4>1. msg.cs = "inquire_part" /\ msg.sub = call.asked
        BY <1>2, <2>3
      <4>2. /\ React(s, msg) = slave[s]
            /\ Answer(s, msg) = IF slave[s].state = "configuration"
                                THEN Reply("inquire_part", msg.sub, slave[s].id[msg.sub]) ELSE <<>>
        BY <4>1, ReactIs
      <4> QED BY <4>1, <4>2 DEF Reply
    <3> HIDE DEF r
    <3> QED BY <2>1, <2>3, <3>2, <3>3
  <2>4. CASE call.op = "configure_node"
    <3> DEFINE e == call.asked = BadId
               r == [cs |-> "configure_node", sub |-> 0, value |-> None, error |-> e]
    <3>1. r \in Replies /\ r.error = e
      BY ReplyIs, PartsAre DEF Specifiers
    <3>2. /\ React(s, msg) = IF w.state = "configuration" /\ call.asked # BadId
                             THEN [w EXCEPT !.node = call.asked] ELSE w
          /\ Answer(s, msg) = IF w.state = "configuration" THEN <<r>> ELSE <<>>
      <4>1. msg.cs = "configure_node" /\ msg.value = call.asked
        BY <1>2, <2>4
      <4>2. /\ React(s, msg) = IF slave[s].state = "configuration" /\ msg.value # BadId
                               THEN [slave[s] EXCEPT !.node = msg.value] ELSE slave[s]
            /\ Answer(s, msg) = IF slave[s].state = "configuration"
                                THEN Verdict("configure_node", msg.value = BadId) ELSE <<>>
        BY ZenonT(30), <4>1, ReactIs
      <4> QED BY <4>1, <4>2 DEF Verdict
    <3>3. /\ React(s, msg) \in SlaveRecords /\ React(s, msg).id = w.id /\ React(s, msg).state = w.state
          /\ w.state = "configuration" /\ call.asked # BadId => React(s, msg).node = call.asked
      BY <1>4, <2>1, <2>4, <3>2 DEF SlaveRecords
    <3>4. e \/ call.asked # BadId
      OBVIOUS
    <3> HIDE DEF r, e
    <3> QED BY <2>4, <3>1, <3>2, <3>3, <3>4
  <2> QED BY <2>2, <2>3, <2>4 DEF Reporting
<1>6. SlaveTypes' /\ \A s \in Slaves : slave'[s].id = slave[s].id
  BY <1>1, <1>5, SlaveTypesStay DEF Inv
<1>7. \A s \in Slaves : Answer(s, msg) = <<>> \/ \E r \in Replies : Answer(s, msg) = <<r>>
  BY <1>5
<1>8. /\ AnswerTypes'
      /\ \A m \in Coming' : \/ \E s \in Slaves : \E i \in DOMAIN answers[s] : m = answers[s][i]
                            \/ \E s \in Slaves : Answer(s, msg) = <<m>>
  BY <1>1, <1>7, AnswersAre DEF Inv
<1>9. CallShape'
  BY <1>1, <1>3, <1>4 DEF CallShape, Calling, Sending, Reporting
<1>10. ReportInv'
  <2> SUFFICES ASSUME call.unmistakable, NEW m \in Coming', m.cs = call.op PROVE IsTrue(m)'
    BY <1>1, <1>3 DEF ReportInv
  <2>1. PICK s \in Slaves : Answer(s, msg) = <<m>>
    BY <1>1, <1>8 DEF Inv, ReportInv
  <2>2. slave[s].state = "configuration" /\ slave'[s] = React(s, msg)
    <3>1. Answer(s, msg) # <<>>
      BY <2>1, SMTT(30)
    <3>2. slave'[s] = React(s, msg)
      BY <1>1
    <3> QED BY <1>5, <3>1, <3>2
  <2>3. s \in Selected'
    BY <1>5, <2>2 DEF Selected
  <2>4. PICK r \in Replies :
          /\ Answer(s, msg) = <<r>>
          /\ call.op = "configure_node" => r.error \/ slave'[s].node = call.asked
          /\ call.op = "inquire_node" => r.value = slave'[s].node
          /\ call.op = "inquire_part" => r.value = slave'[s].id[call.asked]
    BY <1>5, <1>6, <2>2
  <2>5. r = m
    BY <2>1, <2>4
  <2> QED BY <1>1, <2>3, <2>4, <2>5 DEF IsTrue, Reporting
<1>11. SelectInv' /\ ScanInv'
  BY <1>1 DEF Reporting, SelectInv, ScanInv, ScanShape, PartsInv, AnswersInv, AllAnswer,
              LowestInv, Calling, Sending, Awaiting
<1>12. FoundIsSelected' /\ ScanFindsLowest' /\ ReportsAreTrue'
  BY <1>3 DEF FoundIsSelected, ScanFindsLowest, ReportsAreTrue, Ended
<1>13. LossTypes'
  BY <1>1 DEF Inv, LossTypes
<1> QED BY <1>6, <1>8, <1>9, <1>10, <1>11, <1>12, <1>13 DEF Inv

-----------------------------------------------------------------------------
\* A message of a selection.
LEMMA SelectSendKeeps ==
  ASSUME Inv, SendCommand, call.op = "select"
  PROVE  Inv'
<1> PICK msg : msg = Head(call.todo)
  OBVIOUS
<1>1. /\ call.pc = "sending" /\ responses' = <<>> /\ UNCHANGED left
      /\ slave' = [s \in Slaves |-> React(s, msg)]
      /\ answers' = [s \in Slaves |-> answers[s] \o Answer(s, msg)]
      /\ DOMAIN call' = CallFields
      /\ call'.op = "select" /\ call'.asked = call.asked /\ call'.before = call.before
      /\ call'.unmistakable = call.unmistakable
      /\ ~call'.late => ~call.late /\ (call.slow => Silent)
      /\ IF NeedsResponse(msg) THEN call'.pc = "waiting"
         ELSE IF Len(call.todo) > 1
              THEN call'.pc = "sending" /\ call'.todo = Tail(call.todo) /\ call'.slow = TRUE
              ELSE call'.pc = "done"
  BY SendIs
<1>2. msg.cs = "select" /\ \E k \in 0 .. Parts - 1 :
        /\ call.todo = Rest(k) /\ Addressed(k) /\ (k > 0 => call.slow)
        /\ msg.value = call.asked[k] /\ msg.sub = k
  BY <1>1, MessageIs
<1>3. PICK k \in 0 .. Parts - 1 :
        /\ call.todo = Rest(k) /\ Addressed(k) /\ (k > 0 => call.slow)
        /\ msg.value = call.asked[k] /\ msg.sub = k
  BY <1>2
<1>4. k \in Nat /\ k < Parts /\ k \in Part
  BY PartsAre
<1>5. /\ call.asked \in Identities /\ call.before \subseteq Slaves
      /\ \A s \in Slaves : slave[s].state = "configuration" => s \in call.before
      /\ call.unmistakable =>
           \A s \in Slaves : \A i \in DOMAIN answers[s] : answers[s][i].cs # "selected"
  BY <1>1 DEF Inv, SelectInv, Calling, Sending
<1>6. ASSUME NEW s \in Slaves
      PROVE  /\ Matched(s, msg) = k + 1 \/ Matched(s, msg) = 0
             /\ Matched(s, msg) = k + 1 <=> \A p \in 0 .. k : slave[s].id[p] = call.asked[p]
  <2>1. Matched(s, msg) = IF slave[s].id[k] = call.asked[k] /\ k \in {0, slave[s].matched}
                          THEN k + 1 ELSE 0
    BY <1>3 DEF Matched
  <2>2. CASE k = 0
    <3>1. \A p \in 0 .. 0 : p = 0
      OBVIOUS
    <3> QED BY <2>1, <2>2, <3>1
  <2>3. CASE k > 0
    <3>1. slave[s].matched = k <=> \A p \in 0 .. k - 1 : slave[s].id[p] = call.asked[p]
      BY <1>3, <2>3 DEF Addressed
    <3>2. \A p : p \in 0 .. k <=> p \in 0 .. k - 1 \/ p = k
      BY <1>4
    <3>3. k + 1 # 0 /\ k # 0
      BY <1>4, <2>3
    <3> QED BY <2>1, <3>1, <3>2, <3>3
  <2> QED BY <1>4, <2>2, <2>3
<1>7. ASSUME NEW s \in Slaves
      PROVE  /\ React(s, msg) \in SlaveRecords /\ React(s, msg).id = slave[s].id
             /\ React(s, msg).matched = Matched(s, msg)
             /\ React(s, msg).state = IF Selects(s, msg) THEN "configuration" ELSE slave[s].state
             /\ Answer(s, msg) = IF Selects(s, msg) THEN Reply("selected", 0, None) ELSE <<>>
  <2> DEFINE state == IF Selects(s, msg) THEN "configuration" ELSE slave[s].state
  <2>1. slave[s] \in SlaveRecords
    BY DEF Inv, SlaveTypes
  <2>2. Matched(s, msg) \in Nat
    BY <1>4, <1>6
  <2>3. /\ React(s, msg) = [slave[s] EXCEPT !.matched = Matched(s, msg),
             !.state = IF Selects(s, msg) THEN "configuration" ELSE slave[s].state]
        /\ Answer(s, msg) = IF Selects(s, msg) THEN Reply("selected", 0, None) ELSE <<>>
    <3>1. msg.cs = "select"
      BY <1>2
    <3> QED BY <3>1, ReactIs
  <2>4. state \in {"waiting", "configuration"}
    BY <2>1 DEF SlaveRecords
  <2> PICK now, m : now = state /\ m = Matched(s, msg)
    OBVIOUS
  <2>5. React(s, msg) = [slave[s] EXCEPT !.matched = m, !.state = now]
    BY <2>3
  <2> HIDE DEF state
  <2>6. /\ React(s, msg) \in SlaveRecords /\ React(s, msg).id = slave[s].id
        /\ React(s, msg).matched = Matched(s, msg) /\ React(s, msg).state = state
    BY <2>1, <2>2, <2>4, <2>5 DEF SlaveRecords
  <2> QED BY <2>3, <2>6 DEF state
<1>8. PICK r \in Replies : Reply("selected", 0, None) = <<r>> /\ r.cs = "selected"
  <2> DEFINE r == [cs |-> "selected", sub |-> 0, value |-> None, error |-> FALSE]
  <2>1. r \in Replies /\ r.cs = "selected"
    BY ReplyIs, PartsAre DEF Specifiers
  <2>2. Reply("selected", 0, None) = <<r>>
    BY DEF Reply
  <2> HIDE DEF r
  <2> QED BY <2>1, <2>2
<1>9. SlaveTypes' /\ \A s \in Slaves : slave'[s].id = slave[s].id
  BY <1>1, <1>7, SlaveTypesStay DEF Inv
<1>10. \A s \in Slaves : Answer(s, msg) = <<>> \/ \E q \in Replies : Answer(s, msg) = <<q>>
  BY <1>7, <1>8
<1>11. /\ AnswerTypes'
       /\ \A m \in Coming' : \/ \E s \in Slaves : \E i \in DOMAIN answers[s] : m = answers[s][i]
                             \/ \E s \in Slaves : Answer(s, msg) = <<m>>
       /\ Silent => \A m \in Coming' : \E s \in Slaves : Answer(s, msg) = <<m>>
       /\ Silent => (Quiet' <=> \A s \in Slaves : Answer(s, msg) = <<>>)
  BY <1>1, <1>10, AnswersAre DEF Inv
<1>12. NeedsResponse(msg) <=> k = Parts - 1
  BY <1>2, <1>3 DEF NeedsResponse
<1>13. ASSUME k # Parts - 1 PROVE call'.pc = "sending" /\ SelectInv'
  <2>1. call'.pc = "sending" /\ call'.todo = Rest(k + 1) /\ call'.slow
    BY <1>1, <1>3, <1>12, <1>13, RestIs
  <2>2. k + 1 \in 0 .. Parts - 1 /\ k + 1 # Parts
    BY <1>4, <1>13, PartsAre
  <2>3. Rest(k + 1)' = Rest(k + 1)
    BY <1>1 DEF Rest
  <2>4. \A s \in Slaves : slave'[s].state = slave[s].state
    BY <1>1, <1>4, <1>6, <1>7, <2>2, PartsAre DEF Selects
  <2>5. Addressed(k + 1)'
    <3>1. k + 1 - 1 = k
      BY <1>4
    <3> QED BY <1>1, <1>6, <1>7, <3>1 DEF Addressed
  <2>6. SelectInv'
    <3>1. (\E j \in 0 .. Parts - 1 : call.todo = Rest(j) /\ Addressed(j) /\ (j > 0 => call.slow))'
      BY <2>1, <2>2, <2>3, <2>5
    <3>2. (\A s \in Slaves : slave[s].state = "configuration" => s \in call.before)'
      BY <1>1, <1>5, <2>4
    <3>3. ASSUME call.unmistakable, NEW s \in Slaves, NEW i \in DOMAIN answers'[s]
          PROVE  answers'[s][i].cs # "selected"
      <4>1. Answer(s, msg) = <<>>
        BY <1>4, <1>6, <1>7, <2>2, PartsAre DEF Selects
      <4>2. answers[s] \in Seq(Replies) /\ answers'[s] = answers[s] \o Answer(s, msg)
        BY <1>1 DEF Inv, AnswerTypes
      <4>3. answers'[s] = answers[s]
        BY <4>1, <4>2, ConcatEmptySeq
      <4> QED BY <1>5, <3>3, <4>3
    <3> QED BY <1>1, <1>5, <2>1, <3>1, <3>2, <3>3 DEF SelectInv, Calling, Sending, Awaiting
  <2> QED BY <2>1, <2>6
<1>14. ASSUME k = Parts - 1 PROVE call'.pc = "waiting" /\ SelectInv'
  <2>1. call'.pc = "waiting" /\ (~call'.late => Silent)
    BY <1>1, <1>3, <1>4, <1>12, <1>14, PartsAre
  <2>2. \A s \in Slaves : Matched(s, msg) = Parts <=> slave[s].id = call.asked
    <3>1. ASSUME NEW s \in Slaves PROVE Matched(s, msg) = Parts <=> slave[s].id = call.asked
      <4>1. k + 1 = Parts /\ 0 .. k = Part
        BY <1>14, PartsAre DEF Part
      <4>2. slave[s].id \in Identities
        BY DEF Inv, SlaveTypes, SlaveRecords
      <4>3. slave[s].id = call.asked <=> \A p \in Part : slave[s].id[p] = call.asked[p]
        BY <1>5, <4>2 DEF Identities
      <4> QED BY <1>6, <4>1, <4>3
    <3> QED BY <3>1
  <2>3. ~call'.late => \A m \in Coming' : m.cs = "selected"
    BY <1>7, <1>8, <1>11, <2>1
  <2>4. ASSUME call.unmistakable, NEW m \in Coming', m.cs = "selected"
        PROVE  \E s \in Selected' : slave'[s].id = call.asked
    <3>0. PICK s \in Slaves : Answer(s, msg) = <<m>>
      BY <1>5, <1>11, <2>4
    <3>1. Answer(s, msg) # <<>>
      <4>1. <<m>> # <<>>
        OBVIOUS
      <4> QED BY <3>0, <4>1, Zenon
    <3>2. Selects(s, msg)
      BY <1>7, <3>1
    <3>3. slave[s].id = call.asked /\ slave'[s].state = "configuration"
      BY <1>1, <1>7, <2>2, <3>2 DEF Selects
    <3> QED BY <1>9, <3>3 DEF Selected
  <2>5. ~call'.late /\ Quiet' => \A s \in Slaves : slave'[s].id = call.asked => s \in call.before
    <3> SUFFICES ASSUME ~call'.late, Quiet', NEW s \in Slaves, slave'[s].id = call.asked PROVE s \in call.before
      OBVIOUS
    <3>0. Answer(s, msg) = <<>>
      BY <1>11, <2>1
    <3>1. ~Selects(s, msg)
      <4>1. Selects(s, msg) => Answer(s, msg) = <<r>>
        BY <1>7, <1>8
      <4>2. <<r>> # <<>>
        OBVIOUS
      <4> QED BY <3>0, <4>1, <4>2, Zenon
    <3>2. slave[s].state \in {"waiting", "configuration"}
      BY DEF Inv, SlaveTypes, SlaveRecords
    <3> QED BY <1>5, <1>9, <2>2, <3>1, <3>2 DEF Selects
  <2>6. SelectInv'
    <3>1. call'.asked \in Identities /\ call'.before \subseteq Slaves
      BY <1>1, <1>5
    <3>2. (call.unmistakable =>
             \A m \in Coming : m.cs = "selected" => \E s \in Selected : slave[s].id = call.asked)'
      BY <1>1, <2>4
    <3>3. (~call.late /\ Quiet => \A s \in Slaves : slave[s].id = call.asked => s \in call.before)'
      BY <1>1, <2>5
    <3> QED BY <1>1, <2>1, <2>3, <3>1, <3>2, <3>3 DEF SelectInv, Calling, Sending, Awaiting
  <2> QED BY <2>1, <2>6
<1>15. call'.pc \in {"sending", "waiting"} /\ SelectInv'
  BY <1>13, <1>14
<1>16. CallShape'
  BY <1>1, <1>15 DEF CallShape, Calling, Sending
<1>17. ReportInv' /\ ScanInv'
  BY <1>1 DEF Reporting, ReportInv, ScanInv, ScanShape, PartsInv, AnswersInv, AllAnswer,
              LowestInv, Calling, Sending, Awaiting
<1>18. FoundIsSelected' /\ ScanFindsLowest' /\ ReportsAreTrue'
  BY <1>15 DEF FoundIsSelected, ScanFindsLowest, ReportsAreTrue, Ended
<1>19. LossTypes'
  BY <1>1 DEF Inv, LossTypes
<1> QED BY <1>9, <1>11, <1>15, <1>16, <1>17, <1>18, <1>19 DEF Inv

-----------------------------------------------------------------------------
\* A message of a fast scan.

LEMMA SuccIs ==
  ASSUME NEW p \in Part
  PROVE  Succ(p) \in Part /\ (p = Parts - 1 => Succ(p) = 0) /\ (p # Parts - 1 => Succ(p) = p + 1)
<1>1. p \in Nat /\ p < Parts /\ Parts \in Nat /\ Parts >= 2
  BY PartsAre
<1>2. CASE p = Parts - 1
  <2>1. p + 1 = Parts /\ Parts % Parts = 0
    BY <1>1, <1>2
  <2> QED BY <1>2, <2>1, PartsAre DEF Succ
<1>3. CASE p # Parts - 1
  <2>1. p + 1 \in Nat /\ p + 1 < Parts
    BY <1>1, <1>3
  <2>2. (p + 1) % Parts = p + 1
    BY <1>1, <2>1
  <2> QED BY <1>3, <2>1, <2>2, PartsAre DEF Succ
<1> QED BY <1>2, <1>3

LEMMA ScanStateIs ==
  ASSUME Inv, Calling("fast_scan")
  PROVE  /\ call.phase \in {"begin", "bits", "confirm"}
         /\ call.found \in Identities /\ call.sub \in Part /\ call.check \in 0 .. Bits - 1
         /\ call.sub \in Nat /\ call.sub < Parts /\ call.check \in Nat /\ ~(call.check > Bits)
         /\ call.found[call.sub] \in Numbers
         /\ \A s \in Slaves : slave[s].id \in Identities /\ slave[s].id[call.sub] \in Numbers
<1>1. /\ call.phase \in {"begin", "bits", "confirm"}
      /\ call.found \in Identities /\ call.sub \in Part /\ call.check \in 0 .. Bits - 1
  BY DEF Inv, ScanInv, ScanShape
<1>2. \A s \in Slaves : slave[s].id \in Identities
  BY DEF Inv, SlaveTypes, SlaveRecords
<1>3. call.found[call.sub] \in Numbers /\ \A s \in Slaves : slave[s].id[call.sub] \in Numbers
  BY <1>1, <1>2 DEF Identities
<1>4. call.check \in Nat /\ ~(call.check > Bits)
  BY <1>1, PartsAre
<1> QED BY <1>1, <1>2, <1>3, <1>4, PartsAre

\* Who answers the message.
Believes(s) ==
  /\ slave[s].pos = call.sub
  /\ call.phase = "bits" =>
       Above(call.found[call.sub], call.check) = Above(slave[s].id[call.sub], call.check)
  /\ call.phase = "confirm" => call.found[call.sub] = slave[s].id[call.sub]

AnswersProbe(s) == TakesPart(s) /\ (call.phase = "begin" \/ Believes(s))

\* What the slave s answers to the message, and what it becomes.
LEMMA ScanReact ==
  ASSUME Inv, Sending("fast_scan"), NEW s \in Slaves
  PROVE  LET r == React(s, Probe)
         IN  /\ Answer(s, Probe) = IF AnswersProbe(s) THEN Reply("identify_slave", 0, None) ELSE <<>>
             /\ r \in SlaveRecords /\ r.id = slave[s].id /\ r.node = slave[s].node
             /\ IF ~AnswersProbe(s) THEN r = slave[s]
                ELSE CASE call.phase = "begin" -> r.pos = 0 /\ r.state = slave[s].state
                       [] call.phase = "bits" -> r.pos = call.sub /\ r.state = slave[s].state
                       [] call.phase = "confirm" /\ call.sub # Parts - 1 ->
                            r.pos = call.sub + 1 /\ r.state = slave[s].state
                       [] call.phase = "confirm" /\ call.sub = Parts - 1 -> r.state = "configuration"
<1>0. ASSUME NEW m, m.cs = "fast_scan"
      PROVE  IF TakesPart(s) /\ ScanMatches(s, m)
             THEN React(s, m) = Scanned(s, m) /\ Answer(s, m) = Reply("identify_slave", 0, None)
             ELSE React(s, m) = slave[s] /\ Answer(s, m) = <<>>
  <2>1. CASE TakesPart(s) /\ ScanMatches(s, m)
    BY <1>0, <2>1 DEF React, Answer
  <2>2. CASE ~(TakesPart(s) /\ ScanMatches(s, m))
    BY <1>0, <2>2 DEF React, Answer
  <2> QED BY <2>1, <2>2
<1> PICK w, msg, r : w = slave[s] /\ msg = Probe /\ r = React(s, Probe)
  OBVIOUS
<1>1. /\ call.phase \in {"begin", "bits", "confirm"}
      /\ call.sub \in Part /\ call.sub \in Nat /\ call.sub < Parts /\ call.check \in Nat /\ ~(call.check > Bits)
      /\ call.found[call.sub] \in Numbers /\ w.id[call.sub] \in Numbers
  BY ScanStateIs DEF Calling, Sending
<1>2. w \in SlaveRecords
  BY DEF Inv, SlaveTypes
<1>3. /\ msg.cs = "fast_scan"
      /\ call.phase = "begin" => msg.check = Bits + 1
      /\ call.phase = "bits" => /\ msg.check = call.check /\ msg.sub = call.sub /\ msg.next = call.sub
                                /\ msg.value = call.found[call.sub]
      /\ call.phase = "confirm" => /\ msg.check = 0 /\ msg.sub = call.sub /\ msg.next = Succ(call.sub)
                                   /\ msg.value = call.found[call.sub]
  BY <1>1 DEF Probe, ScanMsg, Msg
<1>4. IF TakesPart(s) /\ ScanMatches(s, msg)
      THEN r = Scanned(s, msg) /\ Answer(s, msg) = Reply("identify_slave", 0, None)
      ELSE r = w /\ Answer(s, msg) = <<>>
  <2>1. msg.cs = "fast_scan"
    BY <1>3
  <2> QED BY <1>0, <2>1
<1>5. CASE call.phase = "begin"
  <2>1. msg.check > Bits /\ ~(msg.check = 0)
    BY <1>3, <1>5, PartsAre
  <2>2. ScanMatches(s, msg)
    BY <2>1 DEF ScanMatches
  <2>3. Scanned(s, msg) = [w EXCEPT !.pos = 0]
    BY <2>1 DEF Scanned
  <2>4. LET q == [w EXCEPT !.pos = 0]
        IN  q \in SlaveRecords /\ q.id = w.id /\ q.node = w.node /\ q.pos = 0 /\ q.state = w.state
    BY <1>2, PartsAre DEF SlaveRecords
  <2> QED BY <1>2, <1>4, <1>5, <2>2, <2>3, <2>4 DEF AnswersProbe
<1>6. CASE call.phase = "bits"
  <2>1. ~(msg.check > Bits) /\ ~(msg.next < msg.sub) /\ msg.next >= msg.sub
    BY <1>1, <1>3, <1>6
  <2>2. ScanMatches(s, msg) <=>
          call.sub = w.pos /\ Above(call.found[call.sub], call.check) = Above(w.id[call.sub], call.check)
    BY <1>3, <1>6, <2>1 DEF ScanMatches
  <2>3. Scanned(s, msg) = w \/ Scanned(s, msg) = [w EXCEPT !.pos = call.sub]
    BY <1>3, <1>6, <2>1 DEF Scanned
  <2>4. LET q == [w EXCEPT !.pos = call.sub]
        IN  q \in SlaveRecords /\ q.id = w.id /\ q.node = w.node /\ q.pos = call.sub /\ q.state = w.state
    BY <1>1, <1>2 DEF SlaveRecords
  <2> QED BY <1>2, <1>4, <1>6, <2>2, <2>3, <2>4 DEF AnswersProbe, Believes
<1>7. CASE call.phase = "confirm"
  <2>1. ~(msg.check > Bits) /\ msg.check = 0
    BY <1>3, <1>7, PartsAre
  <2>2. ScanMatches(s, msg) <=> call.sub = w.pos /\ call.found[call.sub] = w.id[call.sub]
    BY <1>1, <1>3, <1>7, <2>1, AllBits DEF ScanMatches
  <2>3. CASE call.sub # Parts - 1
    <3>1. msg.next = call.sub + 1 /\ call.sub + 1 \in Part
      BY <1>1, <1>3, <1>7, <2>3, SuccIs, PartsAre
    <3>2. ~(msg.next < msg.sub) /\ msg.next >= msg.sub
      BY <1>1, <1>3, <1>7, <3>1
    <3>3. Scanned(s, msg) = [w EXCEPT !.pos = call.sub + 1]
      BY <2>1, <3>1, <3>2 DEF Scanned
    <3>4. LET q == [w EXCEPT !.pos = call.sub + 1]
          IN  q \in SlaveRecords /\ q.id = w.id /\ q.node = w.node /\ q.pos = call.sub + 1 /\ q.state = w.state
      BY <1>2, <3>1 DEF SlaveRecords
    <3> QED BY <1>2, <1>4, <1>7, <2>2, <2>3, <3>3, <3>4 DEF AnswersProbe, Believes
  <2>4. CASE call.sub = Parts - 1
    <3>1. msg.next < msg.sub /\ ~(msg.next >= msg.sub) /\ msg.next = 0
      BY <1>1, <1>3, <1>7, <2>4, SuccIs, PartsAre
    <3>2. Scanned(s, msg) = [w EXCEPT !.pos = 0, !.state = "configuration"]
      BY <2>1, <3>1 DEF Scanned
    <3>3. LET q == [w EXCEPT !.pos = 0, !.state = "configuration"]
          IN  q \in SlaveRecords /\ q.id = w.id /\ q.node = w.node /\ q.state = "configuration"
      BY <1>2, PartsAre DEF SlaveRecords
    <3> QED BY <1>2, <1>4, <1>7, <2>2, <2>4, <3>2, <3>3 DEF AnswersProbe, Believes
  <2> QED BY <2>3, <2>4
<1> QED BY <1>1, <1>5, <1>6, <1>7

\* A message of a fast scan is answered by the slaves that it fits.
LEMMA WhoAnswers ==
  ASSUME Inv, Sending("fast_scan"), NEW s \in Slaves
  PROVE  AnswersProbe(s) <=> s \in call.asked /\ Fitted(s)
<1>1. /\ call.phase \in {"begin", "bits", "confirm"} /\ call.sub \in Part
      /\ call.sub \in Nat
  BY ScanStateIs DEF Calling, Sending
<1>2. ~AtTheEnd /\ Reached = call.sub
  BY DEF Sending, AtTheEnd, Reached
<1>3. /\ s \notin call.asked => ~TakesPart(s)
      /\ s \in call.asked => TakesPart(s)
      /\ s \in call.asked /\ call.phase # "begin" => (slave[s].pos = call.sub <=> Agrees(s, call.sub))
  BY <1>2 DEF Inv, ScanInv, PartsInv, Calling, Sending, TakesPart, Begun
<1>4. CASE call.phase = "begin"
  BY <1>3, <1>4 DEF AnswersProbe, Fitted
<1>5. CASE call.phase = "bits"
  BY <1>3, <1>5 DEF AnswersProbe, Believes, Fitted
<1>6. CASE call.phase = "confirm"
  <2>1. \A p : p \in 0 .. call.sub + 1 - 1 <=> p \in 0 .. call.sub - 1 \/ p = call.sub
    BY <1>1
  <2>2. Agrees(s, call.sub + 1) <=> Agrees(s, call.sub) /\ slave[s].id[call.sub] = call.found[call.sub]
    BY <2>1 DEF Agrees
  <2>3. Fitted(s) <=> Agrees(s, call.sub + 1)
    BY <1>6 DEF Fitted
  <2> QED BY <1>3, <1>6, <2>2, <2>3 DEF AnswersProbe, Believes
<1> QED BY <1>1, <1>4, <1>5, <1>6

LEMMA ScanSendKeeps ==
  ASSUME Inv, SendCommand, call.op = "fast_scan"
  PROVE  Inv'
<1>0. PICK probe : probe = Probe
  OBVIOUS
<1> DEFINE r(s) == React(s, probe)
<1>1. /\ Sending("fast_scan") /\ call.pc = "sending"
      /\ responses' = <<>> /\ UNCHANGED left
      /\ slave' = [s \in Slaves |-> React(s, probe)]
      /\ answers' = [s \in Slaves |-> answers[s] \o Answer(s, probe)]
      /\ DOMAIN call' = CallFields
      /\ call'.op = "fast_scan" /\ call'.phase = call.phase /\ call'.found = call.found
      /\ call'.sub = call.sub /\ call'.check = call.check /\ call'.asked = call.asked
      /\ call'.undisturbed = call.undisturbed /\ call'.pc = "waiting"
      /\ ~call'.late => ~call.late /\ (call.slow => Silent)
  <2> PICK msg : msg = Head(call.todo)
    OBVIOUS
  <2>1. /\ call.pc = "sending"
        /\ responses' = <<>> /\ UNCHANGED left
        /\ slave' = [s \in Slaves |-> React(s, msg)]
        /\ answers' = [s \in Slaves |-> answers[s] \o Answer(s, msg)]
        /\ DOMAIN call' = CallFields
        /\ call'.op = call.op /\ call'.phase = call.phase /\ call'.found = call.found
        /\ call'.sub = call.sub /\ call'.check = call.check /\ call'.asked = call.asked
        /\ call'.undisturbed = call.undisturbed
        /\ ~call'.late => ~call.late /\ (call.slow => Silent)
        /\ NeedsResponse(msg) => call'.pc = "waiting"
    BY SendIs
  <2>2. msg = Probe /\ msg.cs = "fast_scan"
    BY <2>1, MessageIs
  <2>3. NeedsResponse(msg)
    BY <2>2 DEF NeedsResponse
  <2> QED BY <1>0, <2>1, <2>2, <2>3 DEF Sending
<1>2. /\ call.phase \in {"begin", "bits", "confirm"} /\ call.sub \in Part
      /\ call.sub \in Nat /\ call.sub < Parts
  BY <1>1, ScanStateIs DEF Calling, Sending
<1>3. ASSUME NEW s \in Slaves
      PROVE  /\ Answer(s, probe) = IF AnswersProbe(s) THEN Reply("identify_slave", 0, None) ELSE <<>>
             /\ r(s) \in SlaveRecords /\ r(s).id = slave[s].id /\ r(s).node = slave[s].node
             /\ ~AnswersProbe(s) => r(s) = slave[s]
             /\ AnswersProbe(s) /\ call.phase = "begin" => r(s).pos = 0 /\ r(s).state = slave[s].state
             /\ AnswersProbe(s) /\ call.phase = "bits" => r(s).pos = call.sub /\ r(s).state = slave[s].state
             /\ AnswersProbe(s) /\ call.phase = "confirm" /\ call.sub # Parts - 1 =>
                  r(s).pos = call.sub + 1 /\ r(s).state = slave[s].state
             /\ AnswersProbe(s) /\ call.phase = "confirm" /\ call.sub = Parts - 1 =>
                  r(s).state = "configuration"
  BY <1>0, <1>1, ScanReact
<1>4. SlaveTypes' /\ \A s \in Slaves : slave'[s].id = slave[s].id
  BY <1>1, <1>3, SlaveTypesStay DEF Inv
<1>5. \A s \in Slaves : slave'[s] = r(s)
  BY <1>1
<1> HIDE DEF r
<1>6. PICK reply, one : /\ reply \in Replies /\ reply.cs = "identify_slave" /\ one = <<reply>>
                        /\ Reply("identify_slave", 0, None) = one
  <2> DEFINE e == [cs |-> "identify_slave", sub |-> 0, value |-> None, error |-> FALSE]
  <2>1. e \in Replies /\ e.cs = "identify_slave"
    BY ReplyIs, PartsAre DEF Specifiers
  <2>2. Reply("identify_slave", 0, None) = <<e>>
    BY DEF Reply
  <2> HIDE DEF e
  <2> QED BY <2>1, <2>2
<1>7. ASSUME NEW s \in Slaves
      PROVE  /\ AnswersProbe(s) => Answer(s, probe) = one
             /\ ~AnswersProbe(s) => Answer(s, probe) = <<>>
             /\ Answer(s, probe) = <<>> => ~AnswersProbe(s)
  <2>1. one # <<>>
    BY <1>6
  <2>2. Answer(s, probe) = IF AnswersProbe(s) THEN one ELSE <<>>
    BY <1>3, <1>6
  <2> QED BY <2>1, <2>2
<1>8. /\ AnswerTypes'
      /\ Silent => \A m \in Coming' : \E s \in Slaves : Answer(s, probe) = <<m>>
      /\ Silent => (Quiet' <=> \A s \in Slaves : Answer(s, probe) = <<>>)
  <2>1. ASSUME NEW s \in Slaves
        PROVE  Answer(s, probe) = <<>> \/ \E q \in Replies : Answer(s, probe) = <<q>>
    <3>1. CASE AnswersProbe(s)
      <4>1. Answer(s, probe) = one
        BY <1>7, <3>1
      <4> QED BY <1>6, <4>1
    <3>2. CASE ~AnswersProbe(s)
      BY <1>7, <3>2
    <3> QED BY <3>1, <3>2
  <2> QED BY <1>1, <2>1, AnswersAre DEF Inv
<1>9. \A s \in Slaves : AnswersProbe(s) <=> s \in call.asked /\ Fitted(s)
  BY <1>1, WhoAnswers
<1>10. /\ call.asked \subseteq Slaves
       /\ \A s \in call.asked : slave[s].node = Unset /\ slave[s].state = "waiting"
       /\ \A s \in Slaves : s \notin call.asked => ~TakesPart(s)
       /\ call.phase # "begin" => \A s \in call.asked :
            slave[s].pos <= call.sub /\ (slave[s].pos = call.sub <=> Agrees(s, call.sub))
  <2>1. ~AtTheEnd /\ Reached = call.sub
    BY <1>1 DEF AtTheEnd, Reached
  <2> QED BY <1>1, <2>1 DEF Inv, ScanInv, PartsInv, Calling, Begun
<1>11. /\ \A s \in call.asked : Fitted(s)' = Fitted(s)
       /\ \A s \in call.asked : \A k : Agrees(s, k)' = Agrees(s, k)
  <2>1. ASSUME NEW s \in call.asked, NEW k PROVE Agrees(s, k)' = Agrees(s, k)
    <3>1. slave'[s].id = slave[s].id /\ call'.found = call.found
      BY <1>1, <1>4, <1>10
    <3> QED BY <3>1 DEF Agrees
  <2>2. ASSUME NEW s \in call.asked PROVE Fitted(s)' = Fitted(s)
    <3>1. slave'[s].id = slave[s].id
      BY <1>4, <1>10
    <3>2. /\ call'.sub = call.sub /\ call'.found = call.found /\ call'.phase = call.phase
          /\ call'.check = call.check
      BY <1>1
    <3>3. Agrees(s, call.sub)' = Agrees(s, call.sub)
      BY <3>1, <3>2 DEF Agrees
    <3>4. Agrees(s, call.sub + 1)' = Agrees(s, call.sub + 1)
      BY <3>1, <3>2 DEF Agrees
    <3> QED BY <1>2, <3>1, <3>2, <3>3, <3>4 DEF Fitted
  <2> QED BY <2>1, <2>2
<1>12. ~call'.late /\ (call.phase # "begin" \/ call.undisturbed) => Silent
  BY <1>1 DEF Inv, ScanInv, ScanShape, AnswersInv, Calling
<1>13. AnswersInv' /\ AllAnswer'
  <2>1. ASSUME Silent
        PROVE  /\ \A m \in Coming' : m.cs = "identify_slave"
               /\ ~Quiet' => \E s \in call.asked : Fitted(s)'
               /\ Quiet' => \A s \in call.asked : ~Fitted(s)'
    <3>1. ASSUME NEW m \in Coming' PROVE m.cs = "identify_slave"
      <4>1. PICK s \in Slaves : Answer(s, probe) = <<m>>
        BY <1>8, <2>1
      <4>2. Answer(s, probe) # <<>>
        BY <4>1
      <4>3. Answer(s, probe) = one
        BY <1>7, <4>2
      <4>4. <<m>> = <<reply>>
        BY <1>6, <4>1, <4>3
      <4> QED BY <1>6, <4>4
    <3>2. ~Quiet' => \E s \in call.asked : Fitted(s)'
      BY <1>7, <1>8, <1>9, <1>11, <2>1
    <3>3. Quiet' => \A s \in call.asked : ~Fitted(s)'
      <4> SUFFICES ASSUME Quiet', NEW s \in call.asked PROVE ~Fitted(s)'
        OBVIOUS
      <4>1. Answer(s, probe) = <<>> /\ s \in Slaves
        BY <1>8, <1>10, <2>1
      <4>2. ~AnswersProbe(s)
        BY <1>7, <4>1
      <4> QED BY <1>9, <1>11, <4>1, <4>2
    <3> QED BY <3>1, <3>2, <3>3
  <2>2. AnswersInv'
    BY <1>1, <1>12, <2>1 DEF AnswersInv, Awaiting, Sending
  <2>3. AllAnswer'
    BY <1>1, <1>12, <2>1 DEF AllAnswer, Awaiting, Undisturbed
  <2> QED BY <2>2, <2>3
<1>14. PartsInv'
  <2>1. AtTheEnd' <=> call.phase = "confirm" /\ call.sub = Parts - 1
    BY <1>1 DEF AtTheEnd
  <2>2. Reached' = IF call.phase = "confirm" THEN call.sub + 1 ELSE call.sub
    BY <1>1 DEF Reached
  <2>3. \A s \in Slaves : s \notin call.asked => ~TakesPart(s)'
    BY <1>3, <1>5, <1>9, <1>10 DEF TakesPart
  <2>4. \A s \in call.asked : slave'[s].node = Unset
    BY <1>3, <1>5, <1>10
  <2>5. ~AtTheEnd' => \A s \in call.asked : slave'[s].state = "waiting"
    BY <1>2, <1>3, <1>5, <1>10, <2>1
  <2>6. AtTheEnd' => \A s \in call.asked : slave'[s].state = "configuration" <=> Agrees(s, Parts)'
    <3> SUFFICES ASSUME AtTheEnd', NEW s \in call.asked
                 PROVE  slave'[s].state = "configuration" <=> Agrees(s, Parts)'
      OBVIOUS
    <3>1. call.sub + 1 = Parts
      BY <1>2, <2>1, PartsAre
    <3>2. Fitted(s) <=> Agrees(s, Parts)
      BY <2>1, <3>1 DEF Fitted
    <3> QED BY <1>3, <1>5, <1>9, <1>10, <1>11, <2>1, <3>2
  <2>7. ~AtTheEnd' => \A s \in call.asked :
          slave'[s].pos <= Reached' /\ (slave'[s].pos = Reached' <=> Agrees(s, Reached)')
    <3> SUFFICES ASSUME ~AtTheEnd', NEW s \in call.asked
                 PROVE  slave'[s].pos <= Reached' /\ (slave'[s].pos = Reached' <=> Agrees(s, Reached)')
      OBVIOUS
    <3>0. Agrees(s, Reached)' = Agrees(s, Reached') /\ s \in Slaves /\ slave'[s] = r(s) /\ slave[s].pos \in Nat
      <4>1. Agrees(s, Reached)' = Agrees(s, Reached')
        <5>1. slave'[s].id = slave[s].id /\ call'.found = call.found
          BY <1>1, <1>4, <1>10
        <5> QED BY <5>1 DEF Agrees
      <4>2. slave[s].pos \in Part
        BY <1>10 DEF Inv, SlaveTypes, SlaveRecords
      <4> QED BY <1>5, <1>10, <4>1, <4>2, PartsAre
    <3>1. CASE call.phase = "begin"
      <4>0. call.sub = 0
        BY <1>1, <3>1 DEF Inv, ScanInv, ScanShape, Calling
      <4>1. call.sub = 0 /\ AnswersProbe(s)
        BY <1>9, <3>0, <3>1, <4>0 DEF Fitted
      <4>2. Reached' = 0 /\ slave'[s].pos = 0
        BY <1>3, <2>2, <3>0, <3>1, <4>1
      <4>3. Agrees(s, 0)
        BY DEF Agrees
      <4> QED BY <3>0, <4>2, <4>3
    <3>2. CASE call.phase = "bits"
      <4>1. Reached' = call.sub
        BY <2>2, <3>2
      <4>2. slave'[s].pos = slave[s].pos
        BY <1>3, <3>0, <3>2 DEF AnswersProbe, Believes
      <4> QED BY <1>10, <3>0, <3>2, <4>1, <4>2
    <3>3. CASE call.phase = "confirm"
      <4>1. Reached' = call.sub + 1 /\ call.sub # Parts - 1
        BY <2>1, <2>2, <3>3
      <4>2. Fitted(s) <=> Agrees(s, call.sub + 1)
        BY <3>3 DEF Fitted
      <4>3. CASE AnswersProbe(s)
        BY <1>2, <1>3, <1>9, <3>0, <3>3, <4>1, <4>2, <4>3
      <4>4. CASE ~AnswersProbe(s)
        <5>1. slave'[s].pos = slave[s].pos /\ slave[s].pos <= call.sub
          BY <1>3, <1>10, <3>0, <3>3, <4>4
        <5>2. slave'[s].pos <= call.sub + 1 /\ slave'[s].pos # call.sub + 1
          BY <1>2, <3>0, <5>1
        <5> QED BY <1>9, <3>0, <4>1, <4>2, <4>4, <5>2
      <4> QED BY <4>3, <4>4
    <3> QED BY <1>2, <3>1, <3>2, <3>3
  <2> QED BY <1>1, <1>10, <2>3, <2>4, <2>5, <2>6, <2>7 DEF PartsInv, Calling
<1>15. ScanShape'
  <2>1. ScanShape /\ Calling("fast_scan")
    BY <1>1 DEF Inv, ScanInv, Calling
  <2> QED BY <1>1, <2>1 DEF ScanShape, Calling
<1>16. LowestInv'
  <2>1. LowestInv /\ Calling("fast_scan")
    BY <1>1 DEF Inv, ScanInv, Calling
  <2>2. ASSUME NEW s \in call.asked
        PROVE  LeftBehind(s)' = LeftBehind(s) /\ MayBeFound(s)' = MayBeFound(s)
    <3>1. slave'[s].id = slave[s].id
      BY <1>4, <1>10
    <3>2. Known' = Known /\ \A k : Agrees(s, k)' = Agrees(s, k)
      BY <1>1, <1>11 DEF Known
    <3>3. (\E p \in 0 .. call.sub - 1 : Agrees(s, p) /\ HigherFrom(0, slave[s].id[p], call.found[p]))'
            = (\E p \in 0 .. call.sub - 1 : Agrees(s, p) /\ HigherFrom(0, slave[s].id[p], call.found[p]))
      BY <1>1, <3>1 DEF Agrees
    <3>4. Agrees(s, call.sub)' = Agrees(s, call.sub)
      BY <1>1, <3>1 DEF Agrees
    <3> QED BY <1>1, <3>1, <3>2, <3>3, <3>4 DEF LeftBehind, MayBeFound
  <2> QED BY <1>1, <2>1, <2>2 DEF LowestInv, Calling, Undisturbed, NothingLost
<1>17. CallShape' /\ SelectInv' /\ ReportInv'
  BY <1>1 DEF CallShape, SelectInv, ReportInv, Calling, Sending, Awaiting, Reporting
<1>18. FoundIsSelected' /\ ScanFindsLowest' /\ ReportsAreTrue'
  BY <1>1 DEF FoundIsSelected, ScanFindsLowest, ReportsAreTrue, Ended
<1>19. LossTypes'
  BY <1>1 DEF Inv, LossTypes
<1> QED BY <1>4, <1>8, <1>13, <1>14, <1>15, <1>16, <1>17, <1>18, <1>19 DEF Inv, ScanInv

LEMMA SendKeeps ==
  ASSUME Inv, SendCommand
  PROVE  Inv'
<1>1. call.op \in Others \cup Reporting \cup {"select", "fast_scan"}
  BY DEF Inv, CallShape, SendCommand, Broadcast, Others, Reporting
<1> QED BY <1>1, OtherSendKeeps, ReportSendKeeps, SelectSendKeeps, ScanSendKeeps

-----------------------------------------------------------------------------
\* The master takes an answer, or waits in vain.

LEMMA FinishIs ==
  ASSUME DOMAIN call = CallFields, NEW outcome, NEW result, Finish(outcome, result)
  PROVE  /\ DOMAIN call' = CallFields
         /\ call'.pc = "done" /\ call'.outcome = outcome /\ call'.result = result
         /\ call'.op = call.op /\ call'.asked = call.asked /\ call'.before = call.before
         /\ call'.undisturbed = call.undisturbed /\ call'.unmistakable = call.unmistakable
         /\ call'.late = call.late
BY DEF Finish, CallFields

\* A call that has ended leaves only what it has reported to show.
LEMMA EndKeeps ==
  ASSUME Inv, UNCHANGED <<slave, left>>, AnswerTypes',
         DOMAIN call' = CallFields, call'.pc = "done", call'.op = call.op,
         FoundIsSelected', ScanFindsLowest', ReportsAreTrue'
  PROVE  Inv'
<1>1. SlaveTypes' /\ LossTypes'
  BY DEF Inv, SlaveTypes, LossTypes
<1>2. CallShape'
  BY DEF Inv, CallShape, Calling, Sending
<1>3. SelectInv' /\ ReportInv'
  BY DEF SelectInv, ReportInv, Calling, Sending, Awaiting
<1>4. ScanInv'
  BY DEF ScanInv, ScanShape, PartsInv, AnswersInv, AllAnswer, LowestInv, Calling, Sending, Awaiting
<1> QED BY <1>1, <1>2, <1>3, <1>4 DEF Inv

\* An answer that was under way, and the end of every other call.
LEMMA ConcludeKeeps ==
  ASSUME Inv, call.pc = "waiting", call.op # "fast_scan", UNCHANGED <<slave, left>>, AnswerTypes',
         \/ \E m \in Coming : ~Quiet /\ Conclude(m)
         \/ Quiet /\ Finish("raised", None)
  PROVE  Inv'
<1>1. PICK outcome, result :
        /\ Finish(outcome, result)
        /\ \/ /\ ~Quiet
              /\ \E m \in Coming :
                   IF call.op = "select"
                   THEN outcome = (IF m.cs = "selected" THEN "returned" ELSE "refused")
                   ELSE outcome = "returned" => Fits(m) /\ ~m.error /\ result = m.value
           \/ Quiet /\ outcome = "raised"
  <2>1. CASE Quiet /\ Finish("raised", None)
    BY <2>1
  <2>2. ASSUME NEW m \in Coming, ~Quiet, Conclude(m)
        PROVE  \E outcome, result :
                 /\ Finish(outcome, result)
                 /\ ~Quiet
                 /\ IF call.op = "select"
                    THEN outcome = (IF m.cs = "selected" THEN "returned" ELSE "refused")
                    ELSE outcome = "returned" => Fits(m) /\ ~m.error /\ result = m.value
    <3>1. CASE call.op = "select"
      <4>1. Finish(IF m.cs = "selected" THEN "returned" ELSE "refused", None)
        BY <2>2, <3>1 DEF Conclude
      <4> QED BY <2>2, <3>1, <4>1
    <3>2. CASE call.op # "select" /\ (~Fits(m) \/ m.error)
      <4>1. Finish("raised", None)
        BY <2>2, <3>2 DEF Conclude
      <4> QED BY <2>2, <3>2, <4>1
    <3>3. CASE call.op # "select" /\ Fits(m) /\ ~m.error
      <4>1. Finish("returned", m.value)
        BY <2>2, <3>3 DEF Conclude
      <4> QED BY <2>2, <3>3, <4>1
    <3> QED BY <3>1, <3>2, <3>3
  <2> QED BY <2>1, <2>2
<1>2. /\ DOMAIN call' = CallFields
      /\ call'.pc = "done" /\ call'.outcome = outcome /\ call'.result = result
      /\ call'.op = call.op /\ call'.asked = call.asked /\ call'.before = call.before
      /\ call'.unmistakable = call.unmistakable /\ call'.late = call.late
  BY <1>1, FinishIs DEF Inv, CallShape
<1>3. Selected' = Selected /\ NothingLost' = NothingLost
  BY DEF Selected, NothingLost
<1>4. CASE call.op = "select"
  <2>1. SelectInv /\ Awaiting("select")
    BY <1>4 DEF Inv, Awaiting
  <2>2. /\ outcome = "returned" /\ call.unmistakable => \E s \in Selected : slave[s].id = call.asked
        /\ outcome \in {"refused", "raised"} /\ ~call.late /\ NothingLost =>
             \A s \in Slaves : slave[s].id = call.asked => s \in call.before
    BY <1>1, <1>4, <2>1 DEF SelectInv
  <2> QED BY <1>2, <1>3, <1>4, <2>2, EndKeeps
        DEF FoundIsSelected, ScanFindsLowest, ReportsAreTrue, Ended, NothingLost
<1>5. CASE call.op \in Reporting
  <2>1. ASSUME outcome = "returned", call.unmistakable
        PROVE  \E m \in Coming : Fits(m) /\ ~m.error /\ result = m.value /\ IsTrue(m)
    <3>1. PICK m \in Coming : Fits(m) /\ ~m.error /\ result = m.value
      BY <1>1, <1>5, <2>1 DEF Reporting
    <3> QED BY <1>5, <2>1, <3>1 DEF Inv, ReportInv, Fits
  <2>2. ASSUME outcome = "returned", call.unmistakable
        PROVE  \E s \in Selected :
                 /\ call.op = "configure_node" => slave[s].node = call.asked
                 /\ call.op = "inquire_node" => slave[s].node = result
                 /\ call.op = "inquire_part" => result = slave[s].id[call.asked]
    BY <1>5, <2>1, <2>2 DEF IsTrue, Fits, Reporting
  <2> QED BY <1>2, <1>3, <1>5, <2>2, EndKeeps
        DEF FoundIsSelected, ScanFindsLowest, ReportsAreTrue, Ended, Reporting
<1>6. CASE call.op \notin Reporting \cup {"select"}
  BY <1>2, <1>6, EndKeeps DEF FoundIsSelected, ScanFindsLowest, ReportsAreTrue, Ended, Reporting
<1> QED BY <1>4, <1>5, <1>6

-----------------------------------------------------------------------------
\* A fast scan goes on.

\* What is the same after every message: only what is known of the identities
\* is a matter of its own.
LEMMA ScanGoesOn ==
  ASSUME Inv, Awaiting("fast_scan"), ~AtTheEnd, UNCHANGED <<slave, left>>, AnswerTypes',
         NEW phase \in {"bits", "confirm"}, NEW id \in Identities, NEW sub \in Part,
         NEW check \in 0 .. Bits - 1,
         phase = "confirm" => check = 0,
         Scan(phase, id, sub, check, IF phase = "bits" THEN sub ELSE Succ(sub)),
         sub = Reached,
         \A p \in Part : p > sub => id[p] = {},
         phase = "bits" => \A b \in id[sub] : b > check,
         \A p \in 0 .. sub - 1 : id[p] = call.found[p],
         LowestInv'
  PROVE  Inv'
<1>1. /\ DOMAIN call' = CallFields
      /\ call'.pc = "sending" /\ call'.slow = TRUE /\ call'.phase = phase /\ call'.found = id
      /\ call'.sub = sub /\ call'.check = check
      /\ call'.todo = <<ScanMsg(id[sub], check, sub, IF phase = "bits" THEN sub ELSE Succ(sub))>>
      /\ call'.op = "fast_scan" /\ call'.asked = call.asked
      /\ call'.undisturbed = call.undisturbed
  <2> PICK next : next = IF phase = "bits" THEN sub ELSE Succ(sub)
    OBVIOUS
  <2>1. DOMAIN call = CallFields /\ call.op = "fast_scan" /\ Scan(phase, id, sub, check, next)
    BY DEF Inv, CallShape, Awaiting
  <2>2. /\ DOMAIN call' = CallFields
        /\ call'.pc = "sending" /\ call'.slow = TRUE /\ call'.phase = phase /\ call'.found = id
        /\ call'.sub = sub /\ call'.check = check
        /\ call'.todo = <<ScanMsg(id[sub], check, sub, next)>>
        /\ call'.op = call.op /\ call'.asked = call.asked /\ call'.undisturbed = call.undisturbed
    <3> PICK todo : todo = <<ScanMsg(id[sub], check, sub, next)>>
      OBVIOUS
    <3>1. call' = [call EXCEPT !.pc = "sending", !.slow = TRUE, !.phase = phase, !.found = id,
                              !.sub = sub, !.check = check, !.todo = todo]
      BY <2>1 DEF Scan
    <3> QED BY <2>1, <3>1 DEF CallFields
  <2> QED BY <2>1, <2>2
<1>2. SlaveTypes' /\ LossTypes'
  BY DEF Inv, SlaveTypes, LossTypes
<1>3. ScanShape'
  <2>1. call'.todo = <<Probe>>'
    <3>1. CASE phase = "bits"
      BY <1>1, <3>1 DEF Probe
    <3>2. CASE phase = "confirm"
      <4>1. /\ call'.phase = "confirm" /\ call'.found = id /\ call'.sub = sub
            /\ call'.todo = <<ScanMsg(id[sub], 0, sub, Succ(sub))>>
        BY <1>1, <3>2
      <4> QED BY <4>1 DEF Probe
    <3> QED BY <3>1, <3>2
  <2> QED BY <1>1, <2>1 DEF ScanShape, Calling
<1>4. PartsInv'
  <2>1. /\ call.asked \subseteq Slaves
        /\ \A s \in Slaves : s \notin call.asked => ~TakesPart(s)
        /\ \A s \in call.asked : /\ slave[s].node = Unset /\ slave[s].state = "waiting"
                                 /\ slave[s].pos <= sub /\ (slave[s].pos = sub <=> Agrees(s, sub))
    <3>1. PartsInv /\ Calling("fast_scan") /\ Begun
      BY DEF Inv, ScanInv, Awaiting, Calling, Begun
    <3> QED BY <3>1 DEF PartsInv
  <2>2. ~AtTheEnd' /\ Reached' = sub
    BY <1>1 DEF AtTheEnd, Reached
  <2>3. \A s \in call.asked : Agrees(s, Reached)' <=> Agrees(s, sub)
    BY <1>1, <2>2 DEF Agrees
  <2> QED BY <1>1, <2>1, <2>2, <2>3 DEF PartsInv, TakesPart
<1>5. AnswersInv' /\ AllAnswer'
  BY <1>1 DEF AnswersInv, AllAnswer, Sending, Awaiting
<1>6. CallShape' /\ SelectInv' /\ ReportInv'
  BY <1>1 DEF CallShape, SelectInv, ReportInv, Calling, Sending, Awaiting, Reporting
<1>7. FoundIsSelected' /\ ScanFindsLowest' /\ ReportsAreTrue'
  BY <1>1 DEF FoundIsSelected, ScanFindsLowest, ReportsAreTrue, Ended
<1> QED BY <1>2, <1>3, <1>4, <1>5, <1>6, <1>7 DEF Inv, ScanInv

-----------------------------------------------------------------------------
\* What an answer tells, and that there is none.

\* The slaves that take part, and what they are compared with.
LEMMA AskedAre ==
  ASSUME Inv, Calling("fast_scan")
  PROVE  /\ call.asked \subseteq Slaves
         /\ \A s \in call.asked : slave[s].id \in Identities /\ \A p \in Part : slave[s].id[p] \in Numbers
         /\ \A p \in Part : call.found[p] \in Numbers
         /\ \A s \in call.asked : Agrees(s, 0)
         /\ \A s \in call.asked :
              Agrees(s, call.sub + 1) <=>
                Agrees(s, call.sub) /\ slave[s].id[call.sub] = call.found[call.sub]
<1>1. call.asked \subseteq Slaves
  BY DEF Inv, ScanInv, PartsInv
<1>2. /\ call.found \in Identities /\ call.sub \in Nat
      /\ \A s \in Slaves : slave[s].id \in Identities
  BY ScanStateIs
<1>3. \A s \in Slaves : Agrees(s, 0)
  BY DEF Agrees
<1>4. \A s \in Slaves : Agrees(s, call.sub + 1) <=>
                          Agrees(s, call.sub) /\ slave[s].id[call.sub] = call.found[call.sub]
  <2>1. \A p : p \in 0 .. call.sub + 1 - 1 <=> p \in 0 .. call.sub - 1 \/ p = call.sub
    BY <1>2
  <2> QED BY <2>1 DEF Agrees
<1> QED BY <1>1, <1>2, <1>3, <1>4 DEF Identities

\* Nobody answers: there is nobody, or an answer is lost or not to be told from
\* a late one.
LEMMA NothingKeeps ==
  ASSUME Inv, Awaiting("fast_scan"), UNCHANGED <<slave, left>>, AnswerTypes',
         call.phase # "bits", Finish("nothing", None),
         Undisturbed => \A s \in call.asked : ~Fitted(s)
  PROVE  Inv'
<1>1. /\ DOMAIN call' = CallFields /\ call'.pc = "done" /\ call'.op = call.op
      /\ call'.outcome = "nothing" /\ call'.asked = call.asked
      /\ call'.undisturbed = call.undisturbed /\ call'.late = call.late
  BY FinishIs DEF Inv, CallShape
<1>2. call.phase \in {"begin", "confirm"} /\ Calling("fast_scan")
  BY ScanStateIs DEF Awaiting, Calling
<1>3. ASSUME Undisturbed PROVE call.asked = {}
  <2>1. CASE call.phase = "begin"
    BY <1>3, <2>1 DEF Fitted
  <2>2. CASE call.phase = "confirm"
    <3>1. PICK s \in call.asked : MayBeFound(s)
      BY <1>2, <1>3, <2>2 DEF Inv, ScanInv, LowestInv
    <3>2. Agrees(s, call.sub) /\ SameFrom(0, slave[s].id[call.sub], call.found[call.sub])
      BY <2>2, <3>1 DEF MayBeFound, Known
    <3>3. slave[s].id[call.sub] \in Numbers /\ call.found[call.sub] \in Numbers
      BY <1>2, AskedAre, ScanStateIs
    <3>4. slave[s].id[call.sub] = call.found[call.sub]
      BY <3>2, <3>3, AllCompared
    <3>5. Agrees(s, call.sub + 1)
      BY <1>2, <3>2, <3>4, AskedAre
    <3> QED BY <1>3, <2>2, <3>5 DEF Fitted
  <2> QED BY <1>2, <2>1, <2>2
<1>4. FoundIsSelected' /\ ReportsAreTrue'
  BY <1>1 DEF Awaiting, FoundIsSelected, ReportsAreTrue, Ended
<1>5. ScanFindsLowest'
  BY <1>1, <1>3 DEF ScanFindsLowest, Undisturbed, NothingLost
<1> QED BY <1>1, <1>4, <1>5, EndKeeps

\* The first answer: somebody takes part.
LEMMA BeginKeeps ==
  ASSUME Inv, Awaiting("fast_scan"), UNCHANGED <<slave, left>>, AnswerTypes',
         call.phase = "begin", Scan("bits", call.found, 0, Bits - 1, 0),
         call.undisturbed /\ ~call.late => \E s \in call.asked : Fitted(s)
  PROVE  Inv'
<1>1. /\ call.sub = 0 /\ call.found \in Identities /\ call.found[0] = {}
      /\ \A p \in Part : p > 0 => call.found[p] = {}
      /\ Calling("fast_scan")
  BY DEF Inv, ScanInv, ScanShape, Awaiting, Calling
<1>2. ~AtTheEnd /\ Reached = 0
  BY <1>1 DEF AtTheEnd, Reached
<1>3. /\ call'.phase = "bits" /\ call'.found = call.found /\ call'.sub = 0 /\ call'.check = Bits - 1
      /\ call'.asked = call.asked /\ call'.undisturbed = call.undisturbed /\ call'.late = call.late
  BY DEF Scan, Inv, CallShape, CallFields
<1>4. LowestInv'
  <2>1. Known' = Bits
    BY <1>3, PartsAre DEF Known
  <2>2. ASSUME NEW s \in call.asked PROVE MayBeFound(s)'
    <3>1. slave[s].id[0] \in Numbers /\ call.found[0] \in Numbers
      BY <1>1, AskedAre, PartsAre
    <3>2. SameFrom(Bits, slave[s].id[0], call.found[0])
      BY <1>1, <3>1, AllCompared
    <3>3. Agrees(s, call.sub)'
      BY <1>3 DEF Agrees
    <3>4. SameFrom(Known, slave[s].id[call.sub], call.found[call.sub])'
      BY <1>3, <2>1, <3>2 DEF SameFrom, Above
    <3> QED BY <3>3, <3>4 DEF MayBeFound
  <2> QED BY <1>3, <2>2 DEF LowestInv, Undisturbed
<1>5. 0 \in Part /\ Bits - 1 \in 0 .. Bits - 1
  BY PartsAre
<1>6. \A p \in 0 .. 0 - 1 : call.found[p] = call.found[p]
  OBVIOUS
<1>7. \A b \in call.found[0] : b > Bits - 1
  BY <1>1
<1> PICK phase, id, sub, check : phase = "bits" /\ id = call.found /\ sub = 0 /\ check = Bits - 1
  OBVIOUS
<1>8. /\ phase \in {"bits", "confirm"} /\ id \in Identities /\ sub \in Part /\ check \in 0 .. Bits - 1
      /\ phase = "confirm" => check = 0
      /\ Scan(phase, id, sub, check, IF phase = "bits" THEN sub ELSE Succ(sub))
      /\ sub = Reached
      /\ \A p \in Part : p > sub => id[p] = {}
      /\ phase = "bits" => \A b \in id[sub] : b > check
      /\ \A p \in 0 .. sub - 1 : id[p] = call.found[p]
  BY <1>1, <1>2, <1>5, <1>7
<1> QED BY <1>2, <1>4, <1>8, ScanGoesOn

\* A bit: where somebody answers it is clear, and set where nobody does.
LEMMA BitKeeps ==
  ASSUME Inv, Awaiting("fast_scan"), UNCHANGED <<slave, left>>, AnswerTypes',
         call.phase = "bits", NEW answered \in BOOLEAN, ScanStep(answered),
         answered /\ ~call.late => \E s \in call.asked : Fitted(s),
         ~answered /\ Undisturbed => \A s \in call.asked : ~Fitted(s)
  PROVE  Inv'
<1>1. /\ Calling("fast_scan") /\ call.found \in Identities /\ call.sub \in Part /\ call.sub \in Nat
      /\ call.check \in 0 .. Bits - 1 /\ call.check \in Nat
      /\ \A p \in Part : p > call.sub => call.found[p] = {}
      /\ \A b \in call.found[call.sub] : b > call.check
  BY ScanStateIs DEF Inv, ScanInv, ScanShape, Awaiting, Calling
<1> PICK sub, c, m : sub = call.sub /\ c = call.check /\ m = call.found[call.sub]
  OBVIOUS
<1>2. PICK id : id = WithBit(answered)
  OBVIOUS
<1>3. /\ id \in Identities
      /\ id[sub] = IF answered THEN m ELSE m \cup {c}
      /\ \A p \in Part : p # sub => id[p] = call.found[p]
  <2>1. m \in Numbers /\ m \cup {c} \in Numbers
    BY <1>1 DEF Identities, Numbers
  <2>2. CASE answered
    BY <1>1, <1>2, <2>2 DEF WithBit
  <2>3. CASE ~answered
    <3>1. id = [call.found EXCEPT ![sub] = m \cup {c}]
      BY <1>2, <2>3 DEF WithBit
    <3> QED BY <1>1, <2>1, <2>3, <3>1 DEF Identities
  <2> QED BY <2>2, <2>3
<1>4. PICK phase, check :
        /\ Scan(phase, id, sub, check, IF phase = "bits" THEN sub ELSE Succ(sub))
        /\ \/ phase = "bits" /\ c > 0 /\ check = c - 1
           \/ phase = "confirm" /\ c = 0 /\ check = 0
  <2>1. CASE c > 0
    <3>1. Scan("bits", id, sub, c - 1, sub)
      BY <1>2, <2>1 DEF ScanStep
    <3> QED BY <2>1, <3>1
  <2>2. CASE c = 0
    <3>1. Scan("confirm", id, sub, 0, Succ(sub))
      BY <1>2, <2>2 DEF ScanStep
    <3> QED BY <2>2, <3>1
  <2> QED BY <1>1, <2>1, <2>2
<1>5. ~AtTheEnd /\ Reached = sub
  BY DEF AtTheEnd, Reached
<1>6. /\ call'.phase = phase /\ call'.found = id /\ call'.sub = sub /\ call'.check = check
      /\ call'.asked = call.asked /\ call'.undisturbed = call.undisturbed /\ call'.late = call.late
  <2> PICK next : next = IF phase = "bits" THEN sub ELSE Succ(sub)
    OBVIOUS
  <2>1. DOMAIN call = CallFields /\ Scan(phase, id, sub, check, next)
    BY <1>4 DEF Inv, CallShape
  <2> PICK todo : todo = <<ScanMsg(id[sub], check, sub, next)>>
    OBVIOUS
  <2>2. call' = [call EXCEPT !.pc = "sending", !.slow = TRUE, !.phase = phase, !.found = id,
                            !.sub = sub, !.check = check, !.todo = todo]
    BY <2>1 DEF Scan
  <2> QED BY <2>1, <2>2 DEF CallFields
<1>7. LowestInv'
  <2> SUFFICES ASSUME Undisturbed
               PROVE  /\ \E s \in call.asked : MayBeFound(s)'
                      /\ \A s \in call.asked : LeftBehind(s)' \/ MayBeFound(s)'
    BY <1>6 DEF LowestInv, Undisturbed, NothingLost
  <2>1. Known' = c /\ Known = c + 1
    BY <1>1, <1>4, <1>6 DEF Known
  <2>2. /\ \E s \in call.asked : MayBeFound(s)
        /\ \A s \in call.asked : LeftBehind(s) \/ MayBeFound(s)
    BY <1>1 DEF Inv, ScanInv, LowestInv
  <2>3. ASSUME NEW s \in call.asked
        PROVE  /\ MayBeFound(s) <=> Agrees(s, sub) /\ SameFrom(c + 1, slave[s].id[sub], m)
               /\ MayBeFound(s)' <=> Agrees(s, sub) /\ SameFrom(c, slave[s].id[sub], id[sub])
               /\ LeftBehind(s) =>
                    \/ LeftBehind(s)'
                    \/ Agrees(s, sub) /\ HigherFrom(c + 1, slave[s].id[sub], m)
               /\ Agrees(s, sub) /\ HigherFrom(c, slave[s].id[sub], id[sub]) => LeftBehind(s)'
               /\ Fitted(s) <=> Agrees(s, sub) /\ SameFrom(c, slave[s].id[sub], m)
    <3>1. \A k \in 0 .. sub : Agrees(s, k)' <=> Agrees(s, k)
      <4> SUFFICES ASSUME NEW k \in 0 .. sub PROVE Agrees(s, k)' <=> Agrees(s, k)
        OBVIOUS
      <4>1. \A p \in 0 .. k - 1 : p \in Part /\ p # sub
        BY <1>1, PartsAre
      <4>2. \A p \in 0 .. k - 1 : call'.found[p] = call.found[p]
        BY <1>3, <1>6, <4>1
      <4> QED BY <4>2 DEF Agrees
    <3>2. Agrees(s, sub)' <=> Agrees(s, sub)
      BY <1>1, <3>1
    <3>3. Agrees(s, call.sub)' <=> Agrees(s, sub)
      BY <1>6, <3>2 DEF Agrees
    <3>4. MayBeFound(s)' <=> Agrees(s, sub) /\ SameFrom(c, slave[s].id[sub], id[sub])
      BY <1>6, <2>1, <3>3 DEF MayBeFound, SameFrom, Above
    <3>5. MayBeFound(s) <=> Agrees(s, sub) /\ SameFrom(c + 1, slave[s].id[sub], m)
      BY <2>1 DEF MayBeFound
    <3>6. Agrees(s, sub) /\ HigherFrom(c, slave[s].id[sub], id[sub]) => LeftBehind(s)'
      BY <1>6, <2>1, <3>3 DEF LeftBehind, HigherFrom
    <3>7. LeftBehind(s) => \/ LeftBehind(s)'
                           \/ Agrees(s, sub) /\ HigherFrom(c + 1, slave[s].id[sub], m)
      <4> SUFFICES ASSUME NEW p \in 0 .. sub - 1, Agrees(s, p),
                          HigherFrom(0, slave[s].id[p], call.found[p])
                   PROVE  LeftBehind(s)'
        BY <2>1 DEF LeftBehind
      <4>1. p \in Part /\ p # sub /\ p \in 0 .. sub
        BY <1>1, PartsAre
      <4>2. Agrees(s, p)' /\ call'.found[p] = call.found[p] /\ p \in 0 .. call'.sub - 1
        BY <1>3, <1>6, <3>1, <4>1
      <4>3. HigherFrom(0, slave'[s].id[p], call'.found[p])
        BY <4>2
      <4>4. (Agrees(s, p) /\ HigherFrom(0, slave[s].id[p], call.found[p]))'
        BY <4>2, <4>3 DEF HigherFrom
      <4> QED BY <4>2, <4>4 DEF LeftBehind
    <3>8. Fitted(s) <=> Agrees(s, sub) /\ SameFrom(c, slave[s].id[sub], m)
      BY DEF Fitted, SameFrom
    <3> QED BY <3>4, <3>5, <3>6, <3>7, <3>8
  <2>4. ASSUME NEW s \in call.asked
        PROVE  LET n == slave[s].id[sub]
               IN  /\ SameFrom(c + 1, n, m) => IF c \in n THEN HigherFrom(c, n, m) /\ SameFrom(c, n, m \cup {c})
                                               ELSE SameFrom(c, n, m)
                   /\ SameFrom(c + 1, n, m) /\ SameFrom(c, n, m) => c \notin n
                   /\ HigherFrom(c + 1, n, m) => HigherFrom(c, n, m) /\ HigherFrom(c, n, m \cup {c})
    <3>1. slave[s].id[sub] \in Numbers /\ m \in Numbers /\ c \in 0 .. Bits - 1 /\ \A b \in m : b > c
      BY <1>1, AskedAre
    <3> QED BY <3>1, OneBitMore
  <2>5. CASE answered
    <3>1. id[sub] = m
      BY <1>3, <2>5
    <3>2. PICK s \in call.asked : Fitted(s)
      BY <2>5 DEF Undisturbed
    <3>3. MayBeFound(s)'
      BY <2>3, <3>1, <3>2
    <3>4. ASSUME NEW t \in call.asked PROVE LeftBehind(t)' \/ MayBeFound(t)'
      BY <2>2, <2>3, <2>4, <3>1
    <3> QED BY <3>3, <3>4
  <2>6. CASE ~answered
    <3>1. id[sub] = m \cup {c} /\ \A s \in call.asked : ~Fitted(s)
      BY <1>3, <2>6
    <3>2. ASSUME NEW t \in call.asked, MayBeFound(t) PROVE MayBeFound(t)'
      BY <2>3, <2>4, <3>1, <3>2
    <3>3. ASSUME NEW t \in call.asked, LeftBehind(t) PROVE LeftBehind(t)'
      BY <2>3, <2>4, <3>1, <3>3
    <3> QED BY <2>2, <3>2, <3>3
  <2> QED BY <2>5, <2>6
<1>8. /\ phase \in {"bits", "confirm"} /\ check \in 0 .. Bits - 1 /\ sub \in Part
      /\ phase = "confirm" => check = 0
      /\ \A p \in Part : p > sub => id[p] = {}
      /\ \A p \in 0 .. sub - 1 : id[p] = call.found[p]
  <2>1. check \in 0 .. Bits - 1
    BY <1>1, <1>4, PartsAre
  <2>2. \A p \in Part : p > sub => p # sub
    BY <1>1, PartsAre
  <2>3. \A p \in 0 .. sub - 1 : p \in Part /\ p # sub
    BY <1>1, PartsAre
  <2> QED BY <1>1, <1>3, <1>4, <2>1, <2>2, <2>3
<1>9. phase = "bits" => \A b \in id[sub] : b > check
  <2>1. \A b \in id[sub] : b = c \/ (b \in m /\ b > c)
    BY <1>1, <1>3
  <2>2. m \in Numbers /\ \A b \in m : b \in Nat
    BY <1>1, AllBits DEF Identities
  <2> QED BY <1>1, <1>4, <2>1, <2>2
<1> QED BY <1>3, <1>4, <1>5, <1>7, <1>8, <1>9, ScanGoesOn

\* A number is confirmed: the next part of the identity.
LEMMA PartKeeps ==
  ASSUME Inv, Awaiting("fast_scan"), UNCHANGED <<slave, left>>, AnswerTypes',
         call.phase = "confirm", call.sub + 1 < Parts,
         Scan("bits", call.found, call.sub + 1, Bits - 1, call.sub + 1)
  PROVE  Inv'
<1>1. /\ Calling("fast_scan") /\ call.found \in Identities /\ call.sub \in Part /\ call.sub \in Nat
      /\ \A p \in Part : p > call.sub => call.found[p] = {}
  BY ScanStateIs DEF Inv, ScanInv, ScanShape, Awaiting, Calling
<1> PICK sub, id, check : sub = call.sub + 1 /\ id = call.found /\ check = Bits - 1
  OBVIOUS
<1>2. /\ sub \in Part /\ sub \in Nat /\ check \in 0 .. Bits - 1 /\ call.sub \in 0 .. sub - 1
      /\ \A p \in 0 .. call.sub - 1 : p \in 0 .. sub - 1
      /\ \A p \in Part : p >= sub => p > call.sub
      /\ \A p \in Part : p > sub => p > call.sub
      /\ sub >= sub
  BY <1>1, PartsAre
<1>3. id[sub] = {} /\ \A p \in Part : p > sub => id[p] = {}
  BY <1>1, <1>2
<1>4. ~AtTheEnd /\ Reached = sub
  BY <1>1, PartsAre DEF AtTheEnd, Reached, Awaiting
<1>5. /\ call'.phase = "bits" /\ call'.found = id /\ call'.sub = sub /\ call'.check = Bits - 1
      /\ call'.asked = call.asked /\ call'.undisturbed = call.undisturbed /\ call'.late = call.late
  BY DEF Scan, Inv, CallShape, CallFields
<1>6. LowestInv'
  <2> SUFFICES ASSUME Undisturbed
               PROVE  /\ \E s \in call.asked : MayBeFound(s)'
                      /\ \A s \in call.asked : LeftBehind(s)' \/ MayBeFound(s)'
    BY <1>5 DEF LowestInv, Undisturbed, NothingLost
  <2>1. Known' = Bits /\ Known = 0
    BY <1>5, PartsAre DEF Known
  <2>2. /\ \E s \in call.asked : MayBeFound(s)
        /\ \A s \in call.asked : LeftBehind(s) \/ MayBeFound(s)
    BY <1>1 DEF Inv, ScanInv, LowestInv
  <2>3. ASSUME NEW s \in call.asked
        PROVE  (MayBeFound(s) => MayBeFound(s)') /\ (LeftBehind(s) => LeftBehind(s)')
    <3>1. \A k : Agrees(s, k)' <=> Agrees(s, k)
      BY <1>5 DEF Agrees
    <3>2. Agrees(s, call.sub)' <=> Agrees(s, sub)
      BY <1>5 DEF Agrees
    <3>3. slave[s].id[call.sub] \in Numbers /\ call.found[call.sub] \in Numbers /\ slave[s].id[sub] \in Numbers
      BY <1>1, <1>2, AskedAre
    <3>4. ASSUME MayBeFound(s) PROVE MayBeFound(s)'
      <4>1. Agrees(s, call.sub) /\ SameFrom(0, slave[s].id[call.sub], call.found[call.sub])
        BY <2>1, <3>4 DEF MayBeFound
      <4>2. Agrees(s, sub)
        BY <1>1, <3>3, <4>1, AskedAre, AllCompared
      <4>3. {} \in Numbers
        BY DEF Numbers
      <4>4. SameFrom(Bits, slave[s].id[sub], {})
        BY <3>3, <4>3, AllCompared
      <4>5. SameFrom(Known, slave[s].id[call.sub], call.found[call.sub])'
        BY <1>3, <1>5, <2>1, <4>4 DEF SameFrom, Above
      <4> QED BY <3>2, <4>2, <4>5 DEF MayBeFound
    <3>5. ASSUME LeftBehind(s) PROVE LeftBehind(s)'
      <4>1. PICK p \in 0 .. sub - 1 : Agrees(s, p) /\ HigherFrom(0, slave[s].id[p], call.found[p])
        BY <1>2, <2>1, <3>5 DEF LeftBehind
      <4>2. (Agrees(s, p) /\ HigherFrom(0, slave[s].id[p], call.found[p]))'
        BY <1>5, <3>1, <4>1 DEF HigherFrom
      <4> QED BY <1>5, <4>2 DEF LeftBehind
    <3> QED BY <3>4, <3>5
  <2> QED BY <2>2, <2>3
<1> PICK phase : phase = "bits"
  OBVIOUS
<1>7. /\ phase \in {"bits", "confirm"} /\ id \in Identities
      /\ phase = "confirm" => check = 0
      /\ Scan(phase, id, sub, check, IF phase = "bits" THEN sub ELSE Succ(sub))
      /\ phase = "bits" => \A b \in id[sub] : b > check
      /\ \A p \in 0 .. sub - 1 : id[p] = call.found[p]
  BY <1>1, <1>3
<1> QED BY <1>2, <1>3, <1>4, <1>6, <1>7, ScanGoesOn

\* The last number is confirmed: the identity is that of one slave, the lowest.
LEMMA FoundKeeps ==
  ASSUME Inv, Awaiting("fast_scan"), UNCHANGED <<slave, left>>, AnswerTypes',
         call.phase = "confirm", ~(call.sub + 1 < Parts), Finish("found", call.found),
         ~call.late => \E s \in call.asked : Fitted(s)
  PROVE  Inv'
<1>1. /\ Calling("fast_scan") /\ call.found \in Identities /\ call.sub \in Part /\ call.sub \in Nat
      /\ call.sub < Parts
  BY ScanStateIs DEF Awaiting, Calling
<1>2. call.sub + 1 = Parts /\ call.sub = Parts - 1 /\ AtTheEnd
  BY <1>1, PartsAre DEF AtTheEnd, Awaiting
<1>3. /\ DOMAIN call' = CallFields /\ call'.pc = "done" /\ call'.op = call.op
      /\ call'.outcome = "found" /\ call'.result = call.found /\ call'.asked = call.asked
      /\ call'.undisturbed = call.undisturbed /\ call'.late = call.late
  BY FinishIs DEF Inv, CallShape
<1>4. \A s \in call.asked : s \in Slaves /\ (Agrees(s, Parts) <=> slave[s].id = call.found)
  <2>1. 0 .. Parts - 1 = Part
    BY DEF Part
  <2>2. ASSUME NEW s \in call.asked
        PROVE  s \in Slaves /\ (Agrees(s, Parts) <=> slave[s].id = call.found)
    <3>1. s \in Slaves /\ slave[s].id \in [Part -> Numbers] /\ call.found \in [Part -> Numbers]
      BY <1>1, AskedAre DEF Identities
    <3>2. Agrees(s, Parts) <=> \A p \in Part : slave[s].id[p] = call.found[p]
      BY <2>1 DEF Agrees
    <3> QED BY <3>1, <3>2
  <2> QED BY <2>2
<1>5. ~call.late => \E s \in call.asked : slave[s].id = call.found
  BY <1>2, <1>4 DEF Fitted
<1>6. FoundIsSelected'
  <2> SUFFICES ASSUME ~call.late PROVE FoundIsSelected'
    BY <1>3 DEF FoundIsSelected
  <2>0. PICK s \in call.asked : slave[s].id = call.found
    BY <1>5
  <2>1. \A t \in call.asked : slave[t].state = "configuration" <=> slave[t].id = call.found
    BY <1>1, <1>2, <1>4 DEF Inv, ScanInv, PartsInv
  <2>2. \A t \in Slaves : t # s => slave[t].id # slave[s].id
    BY <1>4, <2>0 DEF Inv, SlaveTypes
  <2>3. Selected \cap call.asked = {s}
    BY <1>4, <2>0, <2>1, <2>2 DEF Selected
  <2>4. slave'[s].id = call'.result /\ Selected' \cap call'.asked = {s} /\ s \in call'.asked
    BY <1>3, <2>0, <2>3 DEF Selected
  <2> QED BY <2>4 DEF FoundIsSelected
<1>7. ScanFindsLowest'
  <2>1. ASSUME Undisturbed, NEW t \in call.asked
        PROVE  slave[t].id = call.found \/ Lower(call.found, slave[t].id)
    <3>1. LeftBehind(t) \/ MayBeFound(t)
      BY <1>1, <2>1 DEF Inv, ScanInv, LowestInv
    <3>2. Known = 0
      BY DEF Known
    <3>3. CASE LeftBehind(t)
      <4>1. PICK p \in 0 .. call.sub : Agrees(t, p) /\ HigherFrom(0, slave[t].id[p], call.found[p])
        <5>1. call.sub \in 0 .. call.sub /\ \A p \in 0 .. call.sub - 1 : p \in 0 .. call.sub
          BY <1>1
        <5> QED BY <3>2, <3>3, <5>1 DEF LeftBehind
      <4>2. p \in Part
        BY <1>1, PartsAre
      <4>3. LowerNumber(call.found[p], slave[t].id[p])
        BY <1>1, <4>1, <4>2, AskedAre, AllCompared
      <4> QED BY <4>1, <4>2, <4>3 DEF Lower, Agrees
    <3>4. CASE MayBeFound(t)
      <4>1. Agrees(t, call.sub) /\ SameFrom(0, slave[t].id[call.sub], call.found[call.sub])
        BY <3>2, <3>4 DEF MayBeFound
      <4>2. Agrees(t, Parts)
        BY <1>1, <1>2, <4>1, AskedAre, AllCompared
      <4> QED BY <1>4, <4>2
    <3> QED BY <3>1, <3>3, <3>4
  <2>2. ~call.late => call.asked # {}
    BY <1>5
  <2>3. \A t \in call.asked : Undisturbed => slave'[t].id = call'.result \/ Lower(call'.result, slave'[t].id)
    BY <1>3, <2>1
  <2> QED BY <1>3, <2>2, <2>3 DEF ScanFindsLowest, Undisturbed, NothingLost, Lower
<1>8. ReportsAreTrue'
  BY <1>3 DEF Awaiting, ReportsAreTrue, Ended
<1> QED BY <1>3, <1>6, <1>7, <1>8, EndKeeps

-----------------------------------------------------------------------------
\* Every step.

LEMMA ScanStepKeeps ==
  ASSUME Inv, Awaiting("fast_scan"), UNCHANGED <<slave, left>>, AnswerTypes',
         NEW answered \in BOOLEAN, ScanStep(answered),
         answered /\ ~call.late /\ (call.phase # "begin" \/ call.undisturbed) => \E s \in call.asked : Fitted(s),
         ~answered /\ Undisturbed => \A s \in call.asked : ~Fitted(s)
  PROVE  Inv'
<1>1. call.phase \in {"begin", "bits", "confirm"}
  BY ScanStateIs DEF Awaiting, Calling
<1>2. CASE call.phase # "bits" /\ ~answered
  <2>1. Finish("nothing", None)
    BY <1>2 DEF ScanStep
  <2> QED BY <1>2, <2>1, NothingKeeps
<1>3. CASE call.phase = "bits"
  BY <1>3, BitKeeps
<1>4. CASE call.phase = "begin" /\ answered
  <2>1. Scan("bits", call.found, 0, Bits - 1, 0)
    BY <1>4 DEF ScanStep
  <2> QED BY <1>4, <2>1, BeginKeeps
<1>5. CASE call.phase = "confirm" /\ answered /\ call.sub + 1 < Parts
  <2>1. Scan("bits", call.found, call.sub + 1, Bits - 1, call.sub + 1)
    BY <1>5 DEF ScanStep
  <2> QED BY <1>5, <2>1, PartKeeps
<1>6. CASE call.phase = "confirm" /\ answered /\ ~(call.sub + 1 < Parts)
  <2>1. Finish("found", call.found)
    BY <1>6 DEF ScanStep
  <2> QED BY <1>6, <2>1, FoundKeeps
<1> QED BY <1>1, <1>2, <1>3, <1>4, <1>5, <1>6

LEMMA TakeKeeps ==
  ASSUME Inv, TakeResponse
  PROVE  Inv'
<1> PICK m : m = Head(responses)
  OBVIOUS
<1>1. /\ call.pc = "waiting" /\ responses # <<>> /\ responses' = Tail(responses)
      /\ Conclude(m) /\ UNCHANGED <<slave, answers, left>>
  BY DEF TakeResponse
<1>2. responses \in Seq(Replies)
  BY DEF Inv, AnswerTypes
<1>3. m \in Coming /\ ~Quiet
  <2>1. m = responses[1] /\ 1 \in DOMAIN responses
    BY <1>1, <1>2, TailIs
  <2> QED BY <1>1, <2>1 DEF Coming, Quiet
<1>4. AnswerTypes'
  <2>1. responses' \in Seq(Replies)
    BY <1>1, <1>2, TailIs
  <2> QED BY <1>1, <2>1 DEF Inv, AnswerTypes
<1>5. CASE call.op = "fast_scan"
  <2>1. PICK answered \in BOOLEAN : answered = (m.cs = "identify_slave")
    OBVIOUS
  <2>2. ScanStep(answered)
    BY <1>1, <1>5, <2>1 DEF Conclude
  <2>3. Awaiting("fast_scan")
    BY <1>1, <1>5 DEF Awaiting
  <2>4. ~call.late /\ (call.phase # "begin" \/ call.undisturbed) => answered /\ \E s \in call.asked : Fitted(s)
    BY <1>3, <2>1, <2>3 DEF Inv, ScanInv, AnswersInv
  <2>5. ~answered => ~Undisturbed
    BY <2>4 DEF Undisturbed
  <2> QED BY <1>1, <1>4, <2>2, <2>3, <2>4, <2>5, ScanStepKeeps
<1>6. CASE call.op # "fast_scan"
  BY <1>1, <1>3, <1>4, <1>6, ConcludeKeeps
<1> QED BY <1>5, <1>6

LEMMA TimeOutKeeps ==
  ASSUME Inv, TimeOut
  PROVE  Inv'
<1>1. /\ call.pc = "waiting" /\ Quiet /\ UNCHANGED <<slave, answers, responses, left>>
      /\ IF call.op = "fast_scan" THEN ScanStep(FALSE) ELSE Finish("raised", None)
  BY DEF TimeOut, Quiet
<1>2. AnswerTypes'
  BY <1>1 DEF Inv, AnswerTypes
<1>3. CASE call.op = "fast_scan"
  <2>1. Awaiting("fast_scan") /\ ScanStep(FALSE)
    BY <1>1, <1>3 DEF Awaiting
  <2>2. Undisturbed => \A s \in call.asked : ~Fitted(s)
    BY <1>1, <2>1 DEF Inv, ScanInv, AllAnswer
  <2> QED BY <1>1, <1>2, <2>1, <2>2, ScanStepKeeps
<1>4. CASE call.op # "fast_scan"
  BY <1>1, <1>2, <1>4, ConcludeKeeps
<1> QED BY <1>3, <1>4

LEMMA CallsKeep ==
  ASSUME Inv, Calls
  PROVE  Inv'
<1>1. PICK op, asked :
        /\ Start(op, asked)
        /\ op \in {"switch_global", "inquire_node", "inquire_part", "configure_node", "bit_timing",
                   "activate", "store", "identify", "identify_unset", "select", "fast_scan"}
        /\ op = "switch_global" => asked \in {"waiting", "configuration"}
        /\ op = "configure_node" => asked \in NodeIds \cup {BadId}
        /\ op = "inquire_part" => asked \in Part
        /\ op = "select" => asked \in Identities
  <2>1. ASSUME NEW mode \in {"waiting", "configuration"}, SwitchGlobal(mode)
        PROVE  Start("switch_global", mode)
    BY <2>1 DEF SwitchGlobal
  <2>2. ASSUME NEW id \in Wanted, SwitchSelective(id) PROVE Start("select", id) /\ id \in Identities
    BY <2>2, LssAssumption DEF SwitchSelective
  <2>3. ASSUME NEW id \in Wanted, IdentifyRemote(id) PROVE Start("identify", id)
    BY <2>3 DEF IdentifyRemote
  <2>4. ASSUME NEW part \in Part, InquireAddress(part) PROVE Start("inquire_part", part)
    BY <2>4 DEF InquireAddress
  <2>5. ASSUME NEW node \in NodeIds \cup {BadId}, ConfigureNodeId(node)
        PROVE  Start("configure_node", node)
    BY <2>5 DEF ConfigureNodeId
  <2>6. /\ InquireNodeId => Start("inquire_node", None)
        /\ ConfigureBitTiming => Start("bit_timing", None)
        /\ ActivateBitTiming => Start("activate", None)
        /\ StoreConfiguration => Start("store", None)
        /\ IdentifyNonConfigured => Start("identify_unset", None)
        /\ FastScan => Start("fast_scan", None)
    BY DEF InquireNodeId, ConfigureBitTiming, ActivateBitTiming, StoreConfiguration,
           IdentifyNonConfigured, FastScan
  <2> QED BY <2>1, <2>2, <2>3, <2>4, <2>5, <2>6 DEF Calls
<1> QED BY <1>1, StartKeeps

LEMMA LssNext ==
  ASSUME Inv, [Next]_vars
  PROVE  Inv'
<1>1. CASE Calls
  BY <1>1, CallsKeep
<1>2. CASE SendCommand
  BY <1>2, SendKeeps
<1>3. CASE TakeResponse
  BY <1>3, TakeKeeps
<1>4. CASE TimeOut
  BY <1>4, TimeOutKeeps
<1>5. ASSUME NEW s \in Slaves, Arrive(s) \/ Lose(s) PROVE Inv'
  BY <1>5, TrafficKeeps
<1>6. CASE UNCHANGED vars
  <2>1. UNCHANGED <<slave, answers, responses, call, left>>
    BY <1>6 DEF vars
  <2>2. SlaveTypes' /\ AnswerTypes' /\ LossTypes' /\ CallShape'
    BY <2>1 DEF Inv, SlaveTypes, AnswerTypes, LossTypes, CallShape, Calling, Sending, Identifying
  <2>3. Coming' = Coming /\ Quiet' = Quiet /\ Silent' = Silent /\ NothingLost' = NothingLost
    BY <2>1 DEF Coming, Quiet, Silent, NothingLost
  <2>4. SelectInv'
    BY <2>1, <2>3 DEF Inv, SelectInv, Calling, Sending, Awaiting, Addressed, Rest, Selected
  <2>5. ReportInv'
    <3>1. \A m : IsTrue(m) = IsTrue(m)'
      BY <2>1 DEF IsTrue, Selected
    <3> QED BY <2>1, <2>3, <3>1 DEF Inv, ReportInv
  <2>6. ScanShape' /\ PartsInv'
    BY <2>1 DEF Inv, ScanInv, ScanShape, PartsInv, Calling, Probe, TakesPart, Begun, AtTheEnd, Reached,
                Agrees
  <2>7. AnswersInv' /\ AllAnswer'
    <3>1. \A t : Fitted(t) = Fitted(t)'
      BY <2>1 DEF Fitted, Agrees
    <3> QED BY <2>1, <2>3, <3>1 DEF Inv, ScanInv, AnswersInv, AllAnswer, Undisturbed, Sending, Awaiting
  <2>8. LowestInv'
    BY <2>1, <2>3 DEF Inv, ScanInv, LowestInv, Calling, Undisturbed, MayBeFound, LeftBehind, Agrees, Known
  <2>9. FoundIsSelected' /\ ScanFindsLowest' /\ ReportsAreTrue'
    BY <2>1 DEF Inv, FoundIsSelected, ScanFindsLowest, ReportsAreTrue, Ended, Selected
  <2> QED BY <2>2, <2>4, <2>5, <2>6, <2>7, <2>8, <2>9 DEF Inv, ScanInv
<1> QED BY <1>1, <1>2, <1>3, <1>4, <1>5, <1>6 DEF Next, MasterStep

LEMMA LssInv == Spec => []Inv
<1>1. Inv /\ [Next]_vars => Inv'
  BY LssNext
<1> QED BY <1>1, LssInit, PTL DEF Spec

\* fast_scan (lss.py): the identity it returns is that of a slave, and that slave
\* and no other that took part is selected, whatever answers are lost and however
\* many slaves answer at once: if every answer to a message of the scan comes
\* before the 10 ms behind it are over.
THEOREM ScanFindsASlave == Spec => []FoundIsSelected
<1>1. Inv => FoundIsSelected
  BY DEF Inv
<1> QED BY <1>1, LssInv, PTL

\* It is the slave with the lowest identity, if no answer is lost, none comes late
\* and none to an earlier call is under way; and then it finds one if there is one.
THEOREM TheLowestIsFound == Spec => []ScanFindsLowest
<1>1. Inv => ScanFindsLowest
  BY DEF Inv
<1> QED BY <1>1, LssInv, PTL

\* What the selections, the inquiries and the configuration of a node id report
\* is so, unless a late answer to a call of the same kind was under way.
THEOREM LssReportsAreTrue == Spec => []ReportsAreTrue
<1>1. Inv => ReportsAreTrue
  BY DEF Inv
<1> QED BY <1>1, LssInv, PTL

=============================================================================
