----------------------------- MODULE NetworkProofs -----------------------------
(***************************************************************************)
(* What holds of networks and their nodes, for any number of them, any     *)
(* frames and any bounds: who listens, who is listed, who is called, and   *)
(* that a connected network is read.                                       *)
(***************************************************************************)
EXTENDS NetworkNodes, FiniteSetTheorems, SequenceTheorems, TLAPS

-----------------------------------------------------------------------------
\* Types.

Heard == {"request", "command", "response", "extra", "heartbeat", "emcy"}

Instructions ==
  [op : {"remove", "unsub", "forget", "list", "unlist", "associate", "sub"},
   net : Nets, node : Nodes, svc : Heard \cup {"pdo", "none"}]

Walks ==
  [can : CanIds \cup {NoCan}, short : BOOLEAN, pos : Nat, detached : BOOLEAN,
   kept : Seq(Callbacks), called : Seq(Callbacks), expected : SUBSET Callbacks,
   removals : Nat]

NetTypes ==
  /\ subscribers \in [Nets -> [CanIds -> Seq(Callbacks)]]
  /\ walk \in [Nets -> Walks]
  /\ found \in [Nets -> Seq(Ids)]

BusTypes ==
  /\ bus \in [Nets -> 0..MaxBuses] /\ opened \in [Nets -> 0..MaxBuses]
  /\ notifier \in [Nets -> [bus : 0..MaxBuses, dead : BOOLEAN]]
  /\ syncTask \in [Nets -> 0..MaxBuses] /\ syncRunning \in [Nets -> Nat]
  /\ linked \in [Nets -> {"off", "on", "broken"}]

NodeTypes ==
  /\ listed \in [Nets -> [Ids -> Nodes \cup {NoNet}]]
  /\ home \in [Nodes -> Nets \cup {NoNet}]
  /\ extra \subseteq Nodes \ Local
  /\ pending \in Seq(Instructions)
  /\ \A i \in DOMAIN pending :
       pending[i].op \in {"unsub", "sub"} => pending[i].svc # "none"
  /\ strays \subseteq Nodes
  /\ cut \subseteq Nets \X CanIds

Types == NetTypes /\ BusTypes /\ NodeTypes /\ left \in BudgetsOf(Nat)

-----------------------------------------------------------------------------
\* The bus of a network and those who hold on to one: the notifier reads the
\* present bus or none, a dead one is that of a broken connection, and the SYNC
\* task of the present bus is running.
PresentBus(net) ==
  /\ bus[net] <= opened[net] /\ syncTask[net] <= opened[net]
  /\ notifier[net].bus # 0 => notifier[net].bus = bus[net]
  /\ syncTask[net] # 0 /\ syncTask[net] = bus[net] => syncRunning[net] > 0
  /\ notifier[net].dead => linked[net] = "broken"
  /\ linked[net] = "on" => bus[net] # 0 /\ notifier[net].bus = bus[net]

BusInv == \A net \in Nets : PresentBus(net)

-----------------------------------------------------------------------------
\* The walks.

\* The callbacks that a walk should call, has not called and will not come to.
Missed(net) ==
  {c \in walk[net].expected \ ToSet(walk[net].called) :
     \A i \in 1..Len(Walked(net)) : i > walk[net].pos => Walked(net)[i] # c}

NoDoubles == \A net \in Nets, can \in CanIds : IsInjective(subscribers[net][can])

\* Each removal can make a walk miss one callback; without a removal the walk
\* has called the first callbacks of the list.
FewMissed(net) ==
  /\ IsFiniteSet(walk[net].expected)
  /\ Cardinality(Missed(net)) <= walk[net].removals

FirstCalled(net) ==
  walk[net].removals = 0 =>
    /\ Len(walk[net].called) = walk[net].pos
    /\ walk[net].pos <= Len(Walked(net))
    /\ \A i \in 1..walk[net].pos : walk[net].called[i] = Walked(net)[i]

OneList(net) ==
  /\ IsInjective(Walked(net))
  /\ walk[net].detached \/ walk[net].kept = <<>>

WalkInv ==
  \A net \in Nets : walk[net].can # NoCan =>
    FewMissed(net) /\ FirstCalled(net) /\ OneList(net)

-----------------------------------------------------------------------------
\* The call that the application is in.

\* b may come after a in the instructions of a call.
Follows(a, b) ==
  \/ /\ a.op \in {"remove", "forget"} /\ b.op \in {"list", "unlist", "associate"}
     /\ a.net = b.net /\ IdOf[a.node] = IdOf[b.node]
     /\ b.op = "unlist" => a.node = b.node
  \/ /\ a.op = "unsub" /\ b.op = "unsub"
     /\ a.net = b.net /\ a.node = b.node /\ a.svc # b.svc
  \/ a.op = "unsub" /\ b.op = "forget" /\ a.node = b.node
  \/ a.op = "unsub" /\ b.op \in {"list", "unlist", "associate"}
  \/ a.op = "list" /\ b.op = "associate" /\ a.net = b.net /\ a.node = b.node
  \/ a.op = "sub" /\ b.op = "sub"

InOrder ==
  \A i, j \in DOMAIN pending : i < j => Follows(pending[i], pending[j])

\* The instructions that must follow are there.
Complete ==
  \A i \in DOMAIN pending :
    /\ pending[i].op = "unsub" => \E j \in DOMAIN pending : pending[j].op = "forget"
    /\ pending[i].op \in {"remove", "forget"} =>
         \E j \in DOMAIN pending : pending[j].op \in {"list", "unlist"}
    /\ pending[i].op = "list" => \E j \in DOMAIN pending : pending[j].op = "associate"

\* They speak of nodes that are where the call found them.
AtTheirPlace ==
  \A i \in DOMAIN pending :
    LET a == pending[i] IN
    /\ a.op \in {"unsub", "sub"} => home[a.node] = a.net
    /\ a.op = "sub" => a.svc \in ToSet(ServicesOf(a.node)) \cup {"pdo"}
    /\ a.op \in {"remove", "forget"} => listed[a.net][IdOf[a.node]] = a.node
    /\ a.op = "forget" => home[a.node] # NoNet

ProgramInv == InOrder /\ Complete /\ AtTheirPlace

-----------------------------------------------------------------------------
\* Who listens.

\* The callback of a node is subscribed.
Has(net, n, svc) ==
  Contains(subscribers[net][Subscription(n, svc).can], Callback(n, svc))

ToDo(op, net, n, svc) ==
  \E i \in DOMAIN pending :
    /\ pending[i].op = op /\ pending[i].net = net
    /\ pending[i].node = n /\ pending[i].svc = svc

Leaving(n) ==
  \E i \in DOMAIN pending : pending[i].op = "forget" /\ pending[i].node = n

ListensAtHome ==
  \A net \in Nets, n \in Nodes, svc \in Heard :
    Has(net, n, svc) => home[n] = net /\ svc \in ToSet(ServicesOf(n))

HomeIsHeard ==
  \A net \in Nets, n \in Nodes : home[n] = net =>
    \A svc \in ToSet(ServicesOf(n)) :
      Has(net, n, svc) \/ CutOff(net, n) \/ ToDo("sub", net, n, svc) \/ Leaving(n)

LeavingIsUndone ==
  \A net \in Nets, n \in Nodes : Leaving(n) /\ home[n] = net =>
    \A svc \in Heard : Has(net, n, svc) => ToDo("unsub", net, n, svc)

UndoneIsThere ==
  \A i \in DOMAIN pending : pending[i].op = "unsub" =>
    \/ Has(pending[i].net, pending[i].node, pending[i].svc)
    \/ CutOff(pending[i].net, pending[i].node)

ListenInv == ListensAtHome /\ HomeIsHeard /\ LeavingIsUndone /\ UndoneIsThere

-----------------------------------------------------------------------------
\* Who is listed.

\* The next instruction gives the place of n in the list of net to another node
\* or to none, or makes net the home of n.
Changing(net, n) ==
  /\ ~Idle
  /\ pending[1].net = net
  /\ \/ /\ pending[1].op \in {"list", "unlist"} /\ IdOf[pending[1].node] = IdOf[n]
        /\ home[n] = NoNet
     \/ pending[1].op = "associate" /\ pending[1].node = n

HomeLists ==
  \A net \in Nets, n \in Nodes \ strays :
    home[n] = net => listed[net][IdOf[n]] = n

ListedIsHome ==
  \A net \in Nets, n \in Nodes \ strays :
    listed[net][IdOf[n]] = n => home[n] = net \/ Changing(net, n)

\* A node whose place is given away does not belong to the network any more.
PlaceIsFree ==
  ~Idle /\ pending[1].op \in {"list", "unlist"} =>
    \A n \in Nodes \ strays :
      listed[pending[1].net][IdOf[pending[1].node]] = n => home[n] # pending[1].net

\* __setitem__ lists a node before it associates it.
ListedFirst ==
  ~Idle /\ pending[1].op = "associate" =>
    listed[pending[1].net][IdOf[pending[1].node]] = pending[1].node

UnderItsId ==
  \A net \in Nets, id \in Ids :
    listed[net][id] # NoNet => IdOf[listed[net][id]] = id

ListingInv == HomeLists /\ ListedIsHome /\ PlaceIsFree /\ ListedFirst /\ UnderItsId

CallInv == ProgramInv /\ ListenInv /\ ListingInv

Inv == Types /\ BusInv /\ NoDoubles /\ WalkInv /\ CallInv

-----------------------------------------------------------------------------
\* Lists of callbacks.

\* What is left of a sequence after its first k elements.
LEMMA RestOfSeq ==
  ASSUME NEW S, NEW s \in Seq(S), NEW k \in 0..Len(s)
  PROVE  LET r == SubSeq(s, 1 + k, Len(s))
         IN  r \in Seq(S) /\ Len(r) = Len(s) - k /\ \A i \in 1..Len(s) - k : r[i] = s[k + i]
<1> PICK n : n = Len(s)
  OBVIOUS
<1>1. n \in Nat /\ k \in Nat /\ k <= n /\ \A i \in 1..n : s[i] \in S
  BY LenProperties, ElementOfSeq
<1>2. 1 + k \in Int /\ n \in Int /\ \A i \in (1 + k)..n : s[i] \in S
  BY <1>1
<1> PICK r : r = SubSeq(s, 1 + k, n)
  OBVIOUS
<1>3. /\ r \in Seq(S)
      /\ Len(r) = (IF 1 + k <= n THEN n - (1 + k) + 1 ELSE 0)
      /\ \A i \in 1..(n - (1 + k) + 1) : r[i] = s[1 + k + i - 1]
  BY <1>2, SubSeqProperties
<1>4. n - (1 + k) + 1 = n - k
  BY <1>1
<1>5. ~(1 + k <= n) => n - k = 0
  BY <1>1
<1>6. \A i \in 1..n - k : 1 + k + i - 1 = k + i
  BY <1>1
<1>7. Len(r) = n - k
  BY <1>3, <1>4, <1>5
<1>8. \A i \in 1..n - k : r[i] = s[k + i]
  BY <1>3, <1>4, <1>6
<1> QED BY <1>3, <1>7, <1>8

\* In a list without doubles RemoveFirst takes out the one place of the element.
LEMMA RemovedOne ==
  ASSUME NEW S, NEW s \in Seq(S), IsInjective(s), NEW e, Contains(s, e)
  PROVE  \E k \in 1..Len(s) :
           /\ s[k] = e
           /\ RemoveFirst(s, e) \in Seq(S)
           /\ Len(RemoveFirst(s, e)) = Len(s) - 1
           /\ \A i \in 1..Len(s) - 1 :
                RemoveFirst(s, e)[i] = IF i < k THEN s[i] ELSE s[i + 1]
<1>1. Len(s) \in Nat /\ DOMAIN s = 1..Len(s) /\ \A i \in 1..Len(s) : s[i] \in S
  BY LenProperties, ElementOfSeq
<1>2. PICK k \in 1..Len(s) : s[k] = e
  BY DEF Contains
<1>3. {i \in 1..Len(s) : s[i] = e} = {k}
  BY <1>1, <1>2 DEF IsInjective
<1>4. Min({k}) = k
  BY <1>1, <1>2 DEF Min
<1>5. SelectInSeq(s, LAMBDA v : v = e) = k
  BY <1>3, <1>4 DEF SelectInSeq
<1>6. RemoveFirst(s, e) = SubSeq(s, 1, k - 1) \o SubSeq(s, k + 1, Len(s))
  BY <1>2, <1>5 DEF RemoveFirst, RemoveAt
<1>7. /\ SubSeq(s, 1, k - 1) \in Seq(S) /\ Len(SubSeq(s, 1, k - 1)) = k - 1
      /\ \A i \in 1..k - 1 : SubSeq(s, 1, k - 1)[i] = s[i]
  BY <1>1, <1>2, SubSeqProperties
<1>8. /\ SubSeq(s, k + 1, Len(s)) \in Seq(S) /\ Len(SubSeq(s, k + 1, Len(s))) = Len(s) - k
      /\ \A i \in 1..Len(s) - k : SubSeq(s, k + 1, Len(s))[i] = s[i + k]
  <2>1. k \in 0..Len(s) /\ k + 1 = 1 + k /\ \A i \in 1..Len(s) - k : k + i = i + k
    BY <1>1, <1>2
  <2> PICK r : r = SubSeq(s, 1 + k, Len(s))
    OBVIOUS
  <2>2. r \in Seq(S) /\ Len(r) = Len(s) - k /\ \A i \in 1..Len(s) - k : r[i] = s[k + i]
    BY <2>1, RestOfSeq
  <2>3. r = SubSeq(s, k + 1, Len(s))
    BY <2>1
  <2>4. \A i \in 1..Len(s) - k : r[i] = s[i + k]
    BY <2>1, <2>2
  <2> QED BY <2>2, <2>3, <2>4
<1> DEFINE a == SubSeq(s, 1, k - 1)
           b == SubSeq(s, k + 1, Len(s))
<1>9. /\ a \in Seq(S) /\ Len(a) = k - 1 /\ \A i \in 1..k - 1 : a[i] = s[i]
      /\ b \in Seq(S) /\ Len(b) = Len(s) - k /\ \A i \in 1..Len(s) - k : b[i] = s[i + k]
  BY <1>7, <1>8
<1>10. RemoveFirst(s, e) = a \o b
  BY <1>6
<1> HIDE DEF a, b
<1>11. /\ a \o b \in Seq(S)
       /\ Len(a \o b) = Len(a) + Len(b)
       /\ \A i \in 1..Len(a) + Len(b) :
            (a \o b)[i] = IF i <= Len(a) THEN a[i] ELSE b[i - Len(a)]
  BY <1>9, ConcatProperties
<1>12. \A i \in 1..Len(s) - 1 : (a \o b)[i] = IF i < k THEN s[i] ELSE s[i + 1]
  <2> SUFFICES ASSUME NEW i \in 1..Len(s) - 1
               PROVE  (a \o b)[i] = IF i < k THEN s[i] ELSE s[i + 1]
    OBVIOUS
  <2>1. CASE i < k
    <3>1. /\ i \in 1..k - 1 /\ i <= k - 1
          /\ i \in 1..(k - 1) + (Len(s) - k)
      BY <1>1, <1>2, <2>1
    <3>2. (a \o b)[i] = a[i] /\ a[i] = s[i]
      BY <1>9, <1>11, <3>1
    <3> QED BY <2>1, <3>2
  <2>2. CASE i >= k
    <3> DEFINE j == i - (k - 1)
    <3>1. j \in 1..Len(s) - k /\ j + k = i + 1 /\ i \in 1..Len(a) + Len(b)
      BY <1>1, <1>2, <1>9, <2>2
    <3>2. (a \o b)[i] = b[j] /\ b[j] = s[j + k]
      BY <1>1, <1>2, <1>9, <1>11, <2>2, <3>1
    <3> HIDE DEF j
    <3>3. (a \o b)[i] = s[i + 1]
      BY <3>1, <3>2
    <3>4. ~(i < k)
      BY <1>1, <1>2, <2>2
    <3> QED BY <3>3, <3>4
  <2>3. i < k \/ i >= k
    BY <1>1, <1>2
  <2> QED BY <2>1, <2>2, <2>3
<1> QED
  <2>1. Len(a \o b) = Len(s) - 1
    BY <1>1, <1>2, <1>9, <1>11
  <2> QED BY <1>2, <1>10, <1>11, <1>12, <2>1

\* What is contained in a list from which an element was removed.
LEMMA RemovedContains ==
  ASSUME NEW S, NEW s \in Seq(S), IsInjective(s), NEW e, Contains(s, e)
  PROVE  /\ RemoveFirst(s, e) \in Seq(S)
         /\ IsInjective(RemoveFirst(s, e))
         /\ \A c : Contains(RemoveFirst(s, e), c) <=> Contains(s, c) /\ c # e
<1> DEFINE r == RemoveFirst(s, e)
<1>1. PICK k \in 1..Len(s) :
        /\ s[k] = e /\ r \in Seq(S) /\ Len(r) = Len(s) - 1
        /\ \A i \in 1..Len(s) - 1 : r[i] = IF i < k THEN s[i] ELSE s[i + 1]
  BY RemovedOne
<1>2. /\ Len(s) \in Nat /\ DOMAIN s = 1..Len(s) /\ DOMAIN r = 1..Len(s) - 1
      /\ \A i, j \in 1..Len(s) : s[i] = s[j] => i = j
  BY <1>1, LenProperties DEF IsInjective
<1> HIDE DEF r
<1>3. IsInjective(r)
  BY <1>1, <1>2 DEF IsInjective
<1>4. ASSUME NEW c, Contains(r, c) PROVE Contains(s, c) /\ c # e
  BY <1>1, <1>2, <1>4 DEF Contains
<1>5. ASSUME NEW c, Contains(s, c), c # e PROVE Contains(r, c)
  <2>1. PICK i \in 1..Len(s) : s[i] = c
    BY <1>5 DEF Contains
  <2>2. CASE i < k
    BY <1>1, <1>2, <2>1, <2>2 DEF Contains
  <2>3. CASE i > k
    <3>1. i - 1 \in 1..Len(s) - 1 /\ r[i - 1] = s[i]
      BY <1>1, <1>2, <2>1, <2>3
    <3> QED BY <1>1, <2>1, <3>1 DEF Contains
  <2> QED BY <1>1, <1>2, <1>5, <2>1, <2>2, <2>3
<1> QED BY <1>1, <1>3, <1>4, <1>5 DEF r

\* Append puts an element behind a list that does not have it.
LEMMA AppendedContains ==
  ASSUME NEW S, NEW s \in Seq(S), IsInjective(s), NEW e \in S, ~Contains(s, e)
  PROVE  /\ Append(s, e) \in Seq(S)
         /\ IsInjective(Append(s, e))
         /\ \A c : Contains(Append(s, e), c) <=> Contains(s, c) \/ c = e
<1> DEFINE r == Append(s, e)
<1>1. /\ Len(s) \in Nat /\ DOMAIN s = 1..Len(s)
      /\ r \in Seq(S) /\ Len(r) = Len(s) + 1 /\ DOMAIN r = 1..Len(s) + 1
      /\ \A i \in 1..Len(s) : r[i] = s[i]
      /\ r[Len(s) + 1] = e
  BY LenProperties, AppendProperties
<1> HIDE DEF r
<1>2. IsInjective(r)
  BY <1>1 DEF IsInjective, Contains
<1>3. \A c : Contains(r, c) <=> Contains(s, c) \/ c = e
  BY <1>1 DEF Contains
<1> QED BY <1>1, <1>2, <1>3 DEF r

\* The elements of a list are finitely many.
LEMMA ListIsFinite ==
  ASSUME NEW S, NEW s \in Seq(S) PROVE IsFiniteSet(ToSet(s))
<1>1. Len(s) \in Nat /\ DOMAIN s = 1..Len(s) /\ s \in [1..Len(s) -> S]
  BY LenProperties
<1>2. s \in Surjection(1..Len(s), ToSet(s))
  BY <1>1 DEF Surjection, ToSet
<1> QED BY <1>1, <1>2, FS_Interval, FS_Surjection

-----------------------------------------------------------------------------
\* The services of a node.

LEMMA ServicesAre ==
  ASSUME NEW n
  PROVE  /\ ServicesOf(n) \in Seq(Heard) /\ IsInjective(ServicesOf(n))
         /\ Len(ServicesOf(n)) \in Nat \ {0}
         /\ DOMAIN ServicesOf(n) = 1..Len(ServicesOf(n))
         /\ ToSet(ServicesOf(n)) =
              IF n \in Local THEN {"request", "command"}
              ELSE {"response", "heartbeat", "emcy", "command"} \cup
                   (IF n \in extra THEN {"extra"} ELSE {})
<1>1. CASE n \in Local
  BY <1>1 DEF ServicesOf, Heard, IsInjective, ToSet
<1>2. CASE n \notin Local /\ n \in extra
  <2> DEFINE a == <<"response", "extra">>
             b == <<"heartbeat", "emcy", "command">>
             c == <<"response", "extra", "heartbeat", "emcy", "command">>
  <2>1. /\ a \in Seq(Heard) /\ b \in Seq(Heard) /\ c \in Seq(Heard)
        /\ Len(a) = 2 /\ Len(b) = 3 /\ Len(c) = 5
    BY DEF Heard
  <2>2. /\ a \o b \in Seq(Heard) /\ Len(a \o b) = 5
        /\ \A i \in 1..5 : (a \o b)[i] = IF i <= 2 THEN a[i] ELSE b[i - 2]
    BY <2>1, ConcatProperties
  <2>3. \A i \in 1..5 : (a \o b)[i] = c[i]
    BY <2>2
  <2>4. a \o b = c
    BY ZenonT(30), <2>1, <2>2, <2>3, SeqEqual
  <2>5. ServicesOf(n) = c
    BY <1>2, <2>4 DEF ServicesOf
  <2> QED BY <1>2, <2>5 DEF Heard, IsInjective, ToSet
<1>3. CASE n \notin Local /\ n \notin extra
  <2> DEFINE a == <<"response">>
             b == <<"heartbeat", "emcy", "command">>
             c == <<"response", "heartbeat", "emcy", "command">>
  <2>1. /\ a \in Seq(Heard) /\ b \in Seq(Heard) /\ c \in Seq(Heard)
        /\ Len(a) = 1 /\ Len(b) = 3 /\ Len(c) = 4
    BY DEF Heard
  <2>2. /\ a \o b \in Seq(Heard) /\ Len(a \o b) = 4
        /\ \A i \in 1..4 : (a \o b)[i] = IF i <= 1 THEN a[i] ELSE b[i - 1]
    BY <2>1, ConcatProperties
  <2>3. \A i \in 1..4 : (a \o b)[i] = c[i]
    BY <2>2
  <2>4. a \o b = c
    BY <2>1, <2>2, <2>3, SeqEqual
  <2>5. ServicesOf(n) = c
    BY <1>3, <2>4 DEF ServicesOf
  <2> QED BY <1>3, <2>5 DEF Heard, IsInjective, ToSet
<1> QED BY <1>1, <1>2, <1>3

\* The instructions for all services of a node.
LEMMA EachServiceIs ==
  ASSUME NEW op, NEW net, NEW n
  PROVE  LET p == ForEachService(op, net, n) IN
         /\ Len(p) = Len(ServicesOf(n)) /\ DOMAIN p = 1..Len(ServicesOf(n))
         /\ op \in {"sub", "unsub"} /\ net \in Nets /\ n \in Nodes => p \in Seq(Instructions)
         /\ \A i \in DOMAIN p :
              p[i] = [op |-> op, net |-> net, node |-> n, svc |-> ServicesOf(n)[i]]
         /\ \A i \in DOMAIN p : p[i].svc \in Heard /\ p[i].svc \in ToSet(ServicesOf(n))
         /\ \A svc \in ToSet(ServicesOf(n)) : \E i \in DOMAIN p : p[i].svc = svc
         /\ \A i, j \in DOMAIN p : p[i].svc = p[j].svc => i = j
<1> DEFINE s == ServicesOf(n)
           p == ForEachService(op, net, n)
<1>1. s \in Seq(Heard) /\ IsInjective(s) /\ Len(s) \in Nat /\ DOMAIN s = 1..Len(s)
  BY ServicesAre
<1>2. \A i \in 1..Len(s) : s[i] \in Heard
  BY <1>1, ElementOfSeq
<1>3. p = [i \in 1..Len(s) |-> [op |-> op, net |-> net, node |-> n, svc |-> s[i]]]
  BY <1>1 DEF ForEachService, Do
<1> HIDE DEF s, p
<1>4. Len(p) = Len(s) /\ DOMAIN p = 1..Len(s)
  BY <1>1, <1>3
<1>5. ASSUME op \in {"sub", "unsub"}, net \in Nets, n \in Nodes PROVE p \in Seq(Instructions)
  <2>1. \A i \in 1..Len(s) : p[i] \in Instructions
    BY <1>2, <1>3, <1>5 DEF Instructions
  <2> QED BY <1>1, <1>3, <1>4, <2>1
<1>6. \A svc \in ToSet(s) : \E i \in 1..Len(s) : p[i].svc = svc
  BY <1>1, <1>3 DEF ToSet
<1>7. \A i \in 1..Len(s) : p[i].svc \in Heard /\ p[i].svc \in ToSet(s)
  BY <1>1, <1>2, <1>3 DEF ToSet
<1>8. \A i, j \in 1..Len(s) : p[i].svc = p[j].svc => i = j
  BY <1>1, <1>3 DEF IsInjective
<1> QED BY <1>3, <1>4, <1>5, <1>6, <1>7, <1>8 DEF s, p
-----------------------------------------------------------------------------
\* The bus.

LEMMA BusInit == Init => BusTypes /\ BusInv
<1> SUFFICES ASSUME Init PROVE BusTypes /\ BusInv
  OBVIOUS
<1>1. MaxBuses \in Nat /\ MaxBuses >= 1
  BY NetworkAssumption
<1>2. /\ syncTask = [net \in Nets |-> 0] /\ syncRunning = [net \in Nets |-> 0]
      /\ linked = [net \in Nets |-> IF notifier[net].bus = 0 THEN "off" ELSE "on"]
  BY DEF Init, NetworkInit
<1>3. PICK given \in {0, 1}, reads \in BOOLEAN :
        /\ reads => given = 1
        /\ bus = [net \in Nets |-> given] /\ opened = bus
        /\ notifier = [net \in Nets |-> [bus |-> IF reads THEN 1 ELSE 0, dead |-> FALSE]]
  BY DEF Init
<1>4. BusTypes
  BY <1>1, <1>2, <1>3 DEF BusTypes
<1>5. BusInv
  BY <1>2, <1>3 DEF BusInv, PresentBus
<1> QED BY <1>4, <1>5

\* A bus is only opened where no notifier holds on to an older one.
LEMMA ConnectKeeps ==
  ASSUME BusTypes, BusInv, NEW net \in Nets, Connect(net),
         linked' = [linked EXCEPT ![net] = IF @ = "broken" THEN @ ELSE "on"]
  PROVE  BusTypes' /\ BusInv'
<1> DEFINE number == IF bus[net] = 0 THEN opened[net] + 1 ELSE bus[net]
<1>1. /\ number <= MaxBuses
      /\ bus' = [bus EXCEPT ![net] = number]
      /\ opened' = [opened EXCEPT ![net] = IF number > opened[net] THEN number ELSE opened[net]]
      /\ notifier' = [notifier EXCEPT
           ![net] = IF notifier[net].bus = 0 THEN [bus |-> number, dead |-> FALSE]
                    ELSE notifier[net]]
      /\ UNCHANGED <<syncTask, syncRunning>>
  BY DEF Connect
<1>2. /\ MaxBuses \in Nat /\ bus[net] \in 0..MaxBuses /\ opened[net] \in 0..MaxBuses
      /\ notifier[net] \in [bus : 0..MaxBuses, dead : BOOLEAN]
      /\ syncTask[net] \in 0..MaxBuses
  BY NetworkAssumption DEF BusTypes
<1>3. /\ bus[net] <= opened[net] /\ syncTask[net] <= opened[net]
      /\ notifier[net].bus # 0 => notifier[net].bus = bus[net]
      /\ syncTask[net] # 0 /\ syncTask[net] = bus[net] => syncRunning[net] > 0
      /\ notifier[net].dead => linked[net] = "broken"
  BY DEF BusInv, PresentBus
<1>4. number \in 1..MaxBuses
  BY <1>1, <1>2
<1>5. BusTypes'
  BY <1>1, <1>2, <1>4 DEF BusTypes
<1>6. /\ bus'[net] = number /\ opened'[net] >= number /\ opened'[net] >= opened[net]
      /\ notifier'[net].bus = number
      /\ notifier'[net].dead => linked'[net] = "broken"
  BY <1>1, <1>2, <1>3, <1>4 DEF BusTypes
<1>7. syncTask[net] # number \/ number = bus[net]
  BY <1>2, <1>3
<1>8. \A other \in Nets \ {net} :
        /\ bus'[other] = bus[other] /\ opened'[other] = opened[other]
        /\ notifier'[other] = notifier[other] /\ linked'[other] = linked[other]
  BY <1>1 DEF BusTypes
<1> HIDE DEF number
<1>9. \A other \in Nets \ {net} : PresentBus(other)'
  BY <1>1, <1>8 DEF BusInv, PresentBus
<1>10. PresentBus(net)'
  BY <1>1, <1>2, <1>3, <1>4, <1>6, <1>7 DEF PresentBus
<1> QED BY <1>5, <1>9, <1>10 DEF BusInv

\* disconnect lets go of the bus and of whatever reads it.
LEMMA DisconnectKeeps ==
  ASSUME BusTypes, BusInv, NEW net \in Nets, Disconnect(net),
         linked' = [linked EXCEPT ![net] = "off"]
  PROVE  BusTypes' /\ BusInv'
<1>1. /\ bus' = [bus EXCEPT ![net] = 0]
      /\ notifier' = [notifier EXCEPT ![net] = [bus |-> 0, dead |-> FALSE]]
      /\ syncRunning' = [syncRunning EXCEPT ![net] = 0]
      /\ UNCHANGED <<opened, syncTask>>
  BY DEF Disconnect
<1>2. MaxBuses \in Nat
  BY NetworkAssumption
<1>3. BusTypes'
  BY <1>1, <1>2 DEF BusTypes
<1>4. \A other \in Nets : PresentBus(other)'
  BY <1>1, <1>2 DEF BusTypes, BusInv, PresentBus
<1> QED BY <1>3, <1>4 DEF BusInv

LEMMA SyncStartKeeps ==
  ASSUME BusTypes, BusInv, NEW net \in Nets, SyncStart(net), UNCHANGED linked
  PROVE  BusTypes' /\ BusInv'
<1>1. /\ syncTask' = [syncTask EXCEPT ![net] = bus[net]]
      /\ syncRunning' = [syncRunning EXCEPT ![net] = syncRunning[net] + 1]
      /\ UNCHANGED <<bus, opened, notifier>>
  BY DEF SyncStart
<1>2. BusTypes'
  BY <1>1 DEF BusTypes
<1>3. \A other \in Nets : PresentBus(other)'
  BY <1>1 DEF BusTypes, BusInv, PresentBus
<1> QED BY <1>2, <1>3 DEF BusInv

\* stop ends the message of the present bus, of which there is one.
LEMMA SyncStopKeeps ==
  ASSUME BusTypes, BusInv, NEW net \in Nets, SyncStop(net), UNCHANGED linked
  PROVE  BusTypes' /\ BusInv'
<1>1. /\ syncTask' = [syncTask EXCEPT ![net] = 0]
      /\ syncRunning' = [syncRunning EXCEPT
           ![net] = IF syncTask[net] # 0 /\ syncTask[net] = bus[net]
                    THEN syncRunning[net] - 1 ELSE syncRunning[net]]
      /\ UNCHANGED <<bus, opened, notifier>>
  BY DEF SyncStop
<1>2. MaxBuses \in Nat /\ syncRunning[net] \in Nat
  BY NetworkAssumption DEF BusTypes
<1>3. syncTask[net] # 0 /\ syncTask[net] = bus[net] => syncRunning[net] - 1 \in Nat
  BY <1>2 DEF BusInv, PresentBus
<1>4. BusTypes'
  BY <1>1, <1>2, <1>3 DEF BusTypes
<1>5. \A other \in Nets : PresentBus(other)'
  BY <1>1, <1>2 DEF BusTypes, BusInv, PresentBus
<1> QED BY <1>4, <1>5 DEF BusInv

LEMMA NotifierDiesKeeps ==
  ASSUME BusTypes, BusInv, NEW net \in Nets, NotifierDies(net),
         linked' = [linked EXCEPT ![net] = "broken"]
  PROVE  BusTypes' /\ BusInv'
<1>1. /\ notifier' = [notifier EXCEPT ![net].dead = TRUE]
      /\ UNCHANGED <<bus, opened, syncTask, syncRunning>>
  BY DEF NotifierDies
<1>2. BusTypes' /\ \A other \in Nets : notifier'[other].bus = notifier[other].bus
  BY <1>1 DEF BusTypes
<1>3. /\ linked'[net] = "broken"
      /\ \A other \in Nets \ {net} :
           linked'[other] = linked[other] /\ notifier'[other] = notifier[other]
  BY <1>1 DEF BusTypes
<1>4. \A other \in Nets \ {net} : PresentBus(other)'
  BY <1>1, <1>3 DEF BusInv, PresentBus
<1>5. PresentBus(net)'
  BY <1>1, <1>2, <1>3 DEF BusInv, PresentBus
<1> QED BY <1>2, <1>4, <1>5 DEF BusInv

LEMMA BusFrame ==
  ASSUME BusTypes, BusInv, UNCHANGED <<busVars, linked>> PROVE BusTypes' /\ BusInv'
BY DEF BusTypes, BusInv, PresentBus, busVars

LEMMA BusStep == BusTypes /\ BusInv /\ [Next]_vars => BusTypes' /\ BusInv'
<1> SUFFICES ASSUME BusTypes, BusInv, [Next]_vars PROVE BusTypes' /\ BusInv'
  OBVIOUS
<1>1. ASSUME NEW net \in Nets, Link(net) PROVE BusTypes' /\ BusInv'
  <2>1. CASE Connect(net) /\ linked' = [linked EXCEPT ![net] = IF @ = "broken" THEN @ ELSE "on"]
    BY <2>1, ConnectKeeps
  <2>2. CASE Disconnect(net) /\ linked' = [linked EXCEPT ![net] = "off"]
    BY <2>2, DisconnectKeeps
  <2>3. CASE SyncStart(net) /\ UNCHANGED linked
    BY <2>3, SyncStartKeeps
  <2>4. CASE SyncStop(net) /\ UNCHANGED linked
    BY <2>4, SyncStopKeeps
  <2> QED BY <1>1, <2>1, <2>2, <2>3, <2>4 DEF Link
<1>2. ASSUME NEW net \in Nets, ThreadDies(net) PROVE BusTypes' /\ BusInv'
  BY <1>2, NotifierDiesKeeps DEF ThreadDies
<1>3. ASSUME NEW net \in Nets, NEW n \in Nodes, StartCall(net, n)
      PROVE  UNCHANGED <<busVars, linked>>
  BY <1>3 DEF StartCall
<1>4. ASSUME NEW n \in Nodes, AddSdo(n) \/ SubscribePdo(n)
      PROVE  UNCHANGED <<busVars, linked>>
  BY <1>4 DEF AddSdo, SubscribePdo
<1>5. ASSUME NEW net \in Nets, NEW can \in FrameIds, Cut(net, can)
      PROVE  UNCHANGED <<busVars, linked>>
  BY <1>5 DEF Cut, UnsubscribeAll
<1>6. ASSUME NEW net \in Nets, ResetScanner(net) PROVE UNCHANGED <<busVars, linked>>
  BY <1>6 DEF ResetScanner, Reset, nodeVars
<1>7. ASSUME NEW net \in Nets, NEW can \in FrameIds, NEW short \in BOOLEAN,
             Arrive(net, can, short)
      PROVE  UNCHANGED <<busVars, linked>>
  BY <1>7 DEF Arrive, Receive, nodeVars
<1>8. ASSUME AppStep PROVE UNCHANGED <<busVars, linked>>
  BY <1>8 DEF AppStep
<1>9. ASSUME NEW net \in Nets, NotifierStep(net) PROVE UNCHANGED <<busVars, linked>>
  BY <1>9 DEF NotifierStep, CallNext, EndWalk, nodeVars
<1>10. ASSUME UNCHANGED vars PROVE UNCHANGED <<busVars, linked>>
  BY <1>10 DEF vars, nodeVars
<1> QED
  BY <1>1, <1>2, <1>3, <1>4, <1>5, <1>6, <1>7, <1>8, <1>9, <1>10, BusFrame DEF Next

\* After connect() a live thread reads the present bus of the network until it dies
\* or disconnect() is called, whatever went wrong with earlier connections.
THEOREM ConnectedIsRead == Spec => []ConnectedMeansReading
<1>1. BusTypes /\ BusInv => ConnectedMeansReading
  <2> SUFFICES ASSUME BusTypes, BusInv, NEW net \in Nets, linked[net] = "on" PROVE Alive(net)
    BY DEF ConnectedMeansReading
  <2>1. bus[net] # 0 /\ notifier[net].bus = bus[net] /\ notifier[net].dead = FALSE
    BY DEF BusTypes, BusInv, PresentBus
  <2>2. notifier[net] = [bus |-> bus[net], dead |-> FALSE]
    BY <2>1 DEF BusTypes
  <2> QED BY <2>1, <2>2 DEF Alive
<1> QED BY <1>1, BusInit, BusStep, PTL DEF Spec
-----------------------------------------------------------------------------
\* Who is called.

LEMMA OneMore ==
  ASSUME NEW A, NEW B, IsFiniteSet(B), NEW x
  PROVE  /\ A \subseteq B => Cardinality(A) <= Cardinality(B)
         /\ A \subseteq B \cup {x} => Cardinality(A) <= Cardinality(B) + 1
<1>1. ASSUME A \subseteq B PROVE Cardinality(A) <= Cardinality(B)
  BY <1>1, FS_Subset
<1>2. ASSUME A \subseteq B \cup {x} PROVE Cardinality(A) <= Cardinality(B) + 1
  <2>1. IsFiniteSet(B \cup {x}) /\ Cardinality(B \cup {x}) <= Cardinality(B) + 1
    BY FS_AddElement, FS_CardinalityType
  <2>2. /\ IsFiniteSet(A) /\ Cardinality(A) <= Cardinality(B \cup {x})
    BY <1>2, <2>1, FS_Subset
  <2> QED BY <2>1, <2>2, FS_CardinalityType
<1> QED BY <1>1, <1>2

LEMMA MissedIsFinite ==
  ASSUME NEW net, FewMissed(net)
  PROVE  IsFiniteSet(Missed(net)) /\ Cardinality(Missed(net)) \in Nat
<1>1. Missed(net) \in SUBSET walk[net].expected
  BY DEF Missed
<1>2. IsFiniteSet(Missed(net))
  BY <1>1, FS_Subset DEF FewMissed
<1> QED BY <1>2, FS_CardinalityType

\* The list that is walked.
LEMMA WalkedIsList ==
  ASSUME NetTypes, NoDoubles, WalkInv, NEW net \in Nets, walk[net].can # NoCan
  PROVE  /\ walk[net] \in Walks /\ walk[net].can \in CanIds
         /\ Walked(net) \in Seq(Callbacks) /\ Len(Walked(net)) \in Nat
         /\ DOMAIN Walked(net) = 1..Len(Walked(net))
         /\ \A i, j \in 1..Len(Walked(net)) : Walked(net)[i] = Walked(net)[j] => i = j
<1>1. walk[net] \in Walks /\ walk[net].can \in CanIds
  BY DEF NetTypes, Walks
<1>2. Walked(net) \in Seq(Callbacks)
  BY <1>1 DEF NetTypes, Walks, Walked
<1>3. IsInjective(Walked(net))
  BY DEF WalkInv, OneList
<1> QED BY <1>1, <1>2, <1>3, LenProperties DEF IsInjective

LEMMA SameWalk ==
  ASSUME WalkInv, NEW net \in Nets, walk'[net] = walk[net],
         walk[net].can # NoCan => Walked(net)' = Walked(net)
  PROVE  walk'[net].can # NoCan =>
           FewMissed(net)' /\ FirstCalled(net)' /\ OneList(net)'
<1> SUFFICES ASSUME walk'[net].can # NoCan
             PROVE  FewMissed(net)' /\ FirstCalled(net)' /\ OneList(net)'
  OBVIOUS
<1>1. FewMissed(net) /\ FirstCalled(net) /\ OneList(net) /\ Walked(net)' = Walked(net)
  BY DEF WalkInv
<1>2. Missed(net)' = Missed(net)
  BY <1>1 DEF Missed
<1> QED BY <1>1, <1>2 DEF FewMissed, FirstCalled, OneList

\* A frame is handed to those who listen when it comes.
LEMMA ReceiveKeeps ==
  ASSUME NetTypes, NoDoubles, WalkInv, NEW net \in Nets, NEW can \in FrameIds,
         NEW short \in BOOLEAN, Receive(net, can, short)
  PROVE  NetTypes' /\ NoDoubles' /\ WalkInv'
<1> DEFINE w == [IdleWalk EXCEPT !.can = can, !.short = short,
                                 !.expected = ToSet(subscribers[net][can])]
           list == subscribers[net][can]
<1>1. walk' = [walk EXCEPT ![net] = w] /\ UNCHANGED <<subscribers, found>>
  BY DEF Receive
<1>2. can \in CanIds /\ list \in Seq(Callbacks) /\ IsInjective(list)
  BY NodesAssumption DEF NetTypes, NoDoubles
<1>3. /\ Len(list) \in Nat /\ DOMAIN list = 1..Len(list)
      /\ \A i \in 1..Len(list) : list[i] \in Callbacks
  BY <1>2, LenProperties, ElementOfSeq
<1>4. ToSet(list) \subseteq Callbacks
  BY <1>3 DEF ToSet
<1>5. /\ w.can = can /\ w.pos = 0 /\ w.detached = FALSE /\ w.kept = <<>>
      /\ w.called = <<>> /\ w.expected = ToSet(list) /\ w.removals = 0
  BY DEF IdleWalk
<1>6. w \in Walks
  <2>1. IdleWalk \in Walks
    BY DEF IdleWalk, Walks
  <2> QED BY <1>2, <1>4, <2>1 DEF Walks
<1> HIDE DEF w
<1>7. NetTypes' /\ NoDoubles'
  BY <1>1, <1>6 DEF NetTypes, NoDoubles
<1>8. walk'[net] = w
  BY <1>1 DEF NetTypes
<1>9. Walked(net)' = list
  BY <1>1, <1>5, <1>8 DEF Walked
<1>10. Missed(net)' = {}
  BY <1>3, <1>5, <1>8, <1>9 DEF Missed, ToSet
<1>11. FewMissed(net)' /\ FirstCalled(net)' /\ OneList(net)'
  BY <1>2, <1>3, <1>5, <1>8, <1>9, <1>10, ListIsFinite, FS_EmptySet
  DEF FewMissed, FirstCalled, OneList
<1>12. ASSUME NEW other \in Nets \ {net}
       PROVE  walk'[other] = walk[other] /\ Walked(other)' = Walked(other)
  BY <1>1, <1>12 DEF NetTypes, Walked
<1> HIDE DEF list
<1> QED BY <1>7, <1>11, <1>12, SameWalk DEF WalkInv

LEMMA IdleIsWalk == IdleWalk \in Walks /\ IdleWalk.can = NoCan
BY DEF IdleWalk, Walks

\* The walk goes on, or ends in an exception; the list stays.
LEMMA CallNextKeeps ==
  ASSUME NetTypes, NoDoubles, WalkInv, NEW net \in Nets, CallNext(net)
  PROVE  NetTypes' /\ NoDoubles' /\ WalkInv'
<1> DEFINE w == walk[net]
           list == Walked(net)
           cb == list[w.pos + 1]
           next == Called(w, cb)
<1>1. /\ UNCHANGED <<subscribers, found>> /\ w.can # NoCan /\ w.pos < Len(list)
      /\ walk' = [walk EXCEPT ![net] = IF w.short /\ cb.svc \in Fragile THEN IdleWalk ELSE next]
  <2>1. UNCHANGED <<subscribers, found>> /\ w.can # NoCan /\ w.pos < Len(list)
    BY DEF CallNext, InLoop
  <2>2. walk' = [walk EXCEPT
          ![net] = IF w.short /\ cb.svc \in Fragile THEN IdleWalk ELSE next]
    BY DEF CallNext
  <2> QED BY <2>1, <2>2
<1>2. /\ w \in Walks /\ w.can \in CanIds
      /\ list \in Seq(Callbacks) /\ Len(list) \in Nat
      /\ \A i, j \in 1..Len(list) : list[i] = list[j] => i = j
  BY <1>1, WalkedIsList
<1>3. w.pos \in Nat /\ w.pos + 1 \in 1..Len(list) /\ w.called \in Seq(Callbacks)
  BY <1>1, <1>2 DEF Walks
<1>4. cb \in Callbacks
  BY <1>2, <1>3, ElementOfSeq
<1>5. /\ Append(w.called, cb) \in Seq(Callbacks) /\ Len(w.called) \in Nat
      /\ Len(Append(w.called, cb)) = Len(w.called) + 1
      /\ \A i \in 1..Len(w.called) : Append(w.called, cb)[i] = w.called[i]
      /\ Append(w.called, cb)[Len(w.called) + 1] = cb
  BY <1>3, <1>4, AppendProperties, LenProperties
<1>6. /\ next \in Walks /\ next.can = w.can /\ next.detached = w.detached
      /\ next.kept = w.kept /\ next.expected = w.expected /\ next.removals = w.removals
      /\ next.pos = w.pos + 1 /\ next.called = Append(w.called, cb)
  <2> DEFINE more == Append(w.called, cb)
  <2>1. more \in Seq(Callbacks) /\ w.pos + 1 \in Nat /\ w \in Walks
    BY <1>2, <1>3, <1>5
  <2>2. next = [w EXCEPT !.pos = w.pos + 1, !.called = more]
    BY DEF Called
  <2> HIDE DEF w, more, next
  <2>3. next \in Walks /\ next.can = w.can /\ next.detached = w.detached
    BY <2>1, <2>2 DEF Walks
  <2>4. next.kept = w.kept /\ next.expected = w.expected /\ next.removals = w.removals
    BY <2>1, <2>2 DEF Walks
  <2>5. next.pos = w.pos + 1 /\ next.called = more
    BY <2>1, <2>2 DEF Walks
  <2> QED BY <2>3, <2>4, <2>5 DEF more
<1>7. NetTypes' /\ NoDoubles'
  BY <1>1, <1>6, IdleIsWalk DEF NetTypes, NoDoubles
<1>8. ASSUME NEW other \in Nets \ {net}
      PROVE  walk'[other] = walk[other] /\ Walked(other)' = Walked(other)
  BY <1>1, <1>8 DEF NetTypes, Walked
<1>9. CASE w.short /\ cb.svc \in Fragile
  <2>1. walk'[net].can = NoCan
    BY <1>1, <1>9, IdleIsWalk DEF NetTypes
  <2> HIDE DEF w, list, cb, next
  <2> QED BY <1>7, <1>8, <2>1, SameWalk DEF WalkInv
<1>10. CASE ~(w.short /\ cb.svc \in Fragile)
  <2>1. walk'[net] = next
    BY <1>1, <1>10 DEF NetTypes
  <2>2. FewMissed(net) /\ FirstCalled(net) /\ OneList(net)
    BY <1>1 DEF WalkInv
  <2>3. Walked(net)' = list
    <3>1. next.can = w.can /\ next.detached = w.detached /\ next.kept = w.kept
      BY <1>6
    <3> HIDE DEF next
    <3>2. UNCHANGED subscribers
      BY <1>1
    <3>3. Walked(net)' = IF w.detached THEN w.kept ELSE subscribers[net][w.can]
      BY <2>1, <3>1, <3>2, Zenon DEF Walked
    <3>4. list = IF w.detached THEN w.kept ELSE subscribers[net][w.can]
      BY Zenon DEF Walked
    <3> HIDE DEF w, list
    <3> QED BY <3>3, <3>4, Zenon
  <2>4. w.expected = walk[net].expected /\ w.removals = walk[net].removals
        /\ w.called = walk[net].called /\ w.pos = walk[net].pos /\ list = Walked(net)
        /\ w.kept = walk[net].kept /\ w.detached = walk[net].detached
    OBVIOUS
  <2> HIDE DEF w, next, list
  <2>5. Missed(net)' \subseteq Missed(net)
    <3> SUFFICES ASSUME NEW c \in Missed(net)' PROVE c \in Missed(net)
      OBVIOUS
    <3>1. /\ c \in w.expected /\ c \notin ToSet(Append(w.called, cb))
          /\ \A i \in 1..Len(list) : i > w.pos + 1 => list[i] # c
      BY <1>6, <2>1, <2>3 DEF Missed
    <3>2. /\ DOMAIN w.called = 1..Len(w.called)
          /\ DOMAIN Append(w.called, cb) = 1..Len(w.called) + 1
      BY <1>3, <1>5, LenProperties
    <3>3. \A i \in 1..Len(w.called) + 1 : Append(w.called, cb)[i] # c
      BY <3>1, <3>2 DEF ToSet
    <3>4. c # cb /\ c \notin ToSet(w.called)
      BY <1>5, <3>2, <3>3 DEF ToSet
    <3>5. \A i \in 1..Len(list) : i > w.pos => i = w.pos + 1 \/ i > w.pos + 1
      BY <1>2, <1>3
    <3>6. \A i \in 1..Len(list) : i > w.pos => list[i] # c
      BY <3>1, <3>4, <3>5
    <3> QED BY <2>4, <3>1, <3>4, <3>6 DEF Missed
  <2>6. FewMissed(net)'
    <3>1. IsFiniteSet(Missed(net)) /\ Cardinality(Missed(net)') <= Cardinality(Missed(net))
      BY <2>2, <2>5, MissedIsFinite, OneMore
    <3>2. Cardinality(Missed(net)) \in Nat /\ Cardinality(Missed(net)') \in Nat
      BY <2>2, <2>5, MissedIsFinite, FS_Subset, FS_CardinalityType
    <3>3. w.removals \in Nat
      BY <1>2 DEF Walks
    <3> QED BY <1>6, <2>1, <2>2, <2>4, <3>1, <3>2, <3>3 DEF FewMissed
  <2>7. FirstCalled(net)'
    <3> SUFFICES ASSUME w.removals = 0
                 PROVE  /\ Len(Append(w.called, cb)) = w.pos + 1 /\ w.pos + 1 <= Len(list)
                        /\ \A i \in 1..w.pos + 1 : Append(w.called, cb)[i] = list[i]
      BY <1>6, <2>1, <2>3 DEF FirstCalled
    <3>1. Len(w.called) = w.pos /\ \A i \in 1..w.pos : w.called[i] = list[i]
      BY <2>2, <2>4 DEF FirstCalled
    <3> QED BY <1>2, <1>3, <1>5, <3>1
  <2>8. OneList(net)'
    BY <1>6, <2>1, <2>2, <2>3, <2>4 DEF OneList
  <2> QED BY <1>7, <1>8, <2>6, <2>7, <2>8, SameWalk DEF WalkInv
<1> QED BY <1>9, <1>10

LEMMA EndWalkKeeps ==
  ASSUME NetTypes, NoDoubles, WalkInv, NEW net \in Nets, EndWalk(net)
  PROVE  NetTypes' /\ NoDoubles' /\ WalkInv'
<1>1. /\ walk' = [walk EXCEPT ![net] = IdleWalk] /\ UNCHANGED subscribers
      /\ walk[net].can # NoCan
      /\ found' = [found EXCEPT ![net] =
           IF Tells(walk[net].can) /\ ~Contains(found[net], walk[net].can.id)
           THEN Append(found[net], walk[net].can.id) ELSE found[net]]
  BY DEF EndWalk, AtEnd
<1>2. walk[net].can \in CanIds
  BY <1>1 DEF NetTypes, Walks
<1>3. Tells(walk[net].can) => walk[net].can.id \in Ids
  BY <1>2 DEF Tells, Scanned, CanIds
<1>4. NetTypes' /\ NoDoubles'
  BY <1>1, <1>3, IdleIsWalk DEF NetTypes, NoDoubles
<1>5. walk'[net].can = NoCan
  BY <1>1, IdleIsWalk DEF NetTypes
<1>6. ASSUME NEW other \in Nets \ {net}
      PROVE  walk'[other] = walk[other] /\ Walked(other)' = Walked(other)
  BY <1>1, <1>6 DEF NetTypes, Walked
<1> QED BY <1>4, <1>5, <1>6, SameWalk DEF WalkInv

LEMMA SubscriptionIsTyped ==
  ASSUME NEW n \in Nodes, NEW svc \in Heard \cup {"pdo"}
  PROVE  /\ Subscription(n, svc).can \in CanIds
         /\ Subscription(n, svc).cb = Callback(n, svc)
         /\ Callback(n, svc) \in Callbacks
<1>1. IdOf[n] \in Ids
  BY NodesAssumption
<1> QED BY <1>1 DEF Subscription, Callback, CanIds, Callbacks, Heard, Services

\* A callback that comes goes behind the others, where every walk finds it.
LEMMA SubscribeKeeps ==
  ASSUME NetTypes, NoDoubles, WalkInv, NEW net \in Nets, NEW can \in CanIds,
         NEW cb \in Callbacks, Subscribe(net, can, cb), UNCHANGED <<walk, found>>
  PROVE  NetTypes' /\ NoDoubles' /\ WalkInv'
<1> DEFINE old == subscribers[net][can]
           new == IF Contains(old, cb) THEN old ELSE Append(old, cb)
<1>1. subscribers' = [subscribers EXCEPT ![net][can] = new]
  BY DEF Subscribe
<1>2. old \in Seq(Callbacks) /\ IsInjective(old)
  BY DEF NetTypes, NoDoubles
<1>3. /\ new \in Seq(Callbacks) /\ IsInjective(new) /\ Len(old) \in Nat /\ Len(new) \in Nat
      /\ Len(old) <= Len(new)
      /\ \A i \in 1..Len(old) : new[i] = old[i]
  <2>1. Len(old) \in Nat
    BY <1>2, LenProperties
  <2>2. CASE Contains(old, cb)
    BY <1>2, <2>1, <2>2
  <2>3. CASE ~Contains(old, cb)
    BY <1>2, <2>1, <2>3, AppendedContains, AppendProperties
  <2> QED BY <2>2, <2>3
<1> HIDE DEF new
<1>4. /\ NetTypes'
      /\ \A other \in Nets, c \in CanIds :
           subscribers'[other][c] = IF other = net /\ c = can THEN new ELSE subscribers[other][c]
  BY <1>1, <1>3 DEF NetTypes
<1>5. NoDoubles'
  BY <1>3, <1>4 DEF NoDoubles
<1>6. ASSUME NEW other \in Nets, walk[other].can # NoCan
      PROVE  FewMissed(other)' /\ FirstCalled(other)' /\ OneList(other)'
  <2>1. CASE other = net /\ walk[net].can = can /\ ~walk[net].detached
    <3>1. Walked(net) = old /\ Walked(net)' = new
      BY <1>4, <2>1 DEF Walked
    <3>2. FewMissed(net) /\ FirstCalled(net) /\ OneList(net) /\ walk[net] \in Walks
      BY <1>6, <2>1 DEF WalkInv, NetTypes
    <3> HIDE DEF old
    <3>3. Missed(net)' \subseteq Missed(net)
      BY <1>3, <3>1 DEF Missed
    <3>4. FewMissed(net)'
      <4>1. IsFiniteSet(Missed(net)) /\ Cardinality(Missed(net)') <= Cardinality(Missed(net))
        BY <3>2, <3>3, MissedIsFinite, OneMore
      <4>2. Cardinality(Missed(net)) \in Nat /\ Cardinality(Missed(net)') \in Nat
        BY <3>2, <3>3, MissedIsFinite, FS_Subset, FS_CardinalityType
      <4>3. walk[net].removals \in Nat
        BY <3>2 DEF Walks
      <4> QED BY <3>2, <4>1, <4>2, <4>3 DEF FewMissed
    <3>5. FirstCalled(net)'
      <4>1. walk[net].pos \in Nat
        BY <3>2 DEF Walks
      <4> QED BY <1>3, <3>1, <3>2, <4>1 DEF FirstCalled
    <3>6. OneList(net)'
      BY <1>3, <3>1, <3>2 DEF OneList
    <3> QED BY <2>1, <3>4, <3>5, <3>6
  <2>2. CASE ~(other = net /\ walk[net].can = can /\ ~walk[net].detached)
    <3>1. walk[other].can \in CanIds
      BY <1>6 DEF NetTypes, Walks
    <3>2. Walked(other)' = Walked(other)
      BY <1>4, <2>2, <3>1 DEF Walked
    <3> QED BY <1>6, <3>2, SameWalk
  <2> QED BY <2>1, <2>2
<1> QED BY <1>4, <1>5, <1>6 DEF WalkInv

\* A callback that goes, and the walk that is in the list.
LEMMA UnsubscribeKeeps ==
  ASSUME NetTypes, NoDoubles, WalkInv, NEW net \in Nets, NEW can \in CanIds, NEW cb,
         Contains(subscribers[net][can], cb), Unsubscribe(net, can, cb), UNCHANGED found
  PROVE  NetTypes' /\ NoDoubles' /\ WalkInv'
<1> DEFINE old == subscribers[net][can]
           new == RemoveFirst(old, cb)
           w == walk[net]
<1>1. /\ subscribers' = [subscribers EXCEPT ![net][can] = new]
      /\ walk' = [walk EXCEPT ![net] = WalkWithout(w, can, new)]
  BY DEF Unsubscribe
<1>2. old \in Seq(Callbacks) /\ IsInjective(old) /\ Len(old) \in Nat /\ w \in Walks
      /\ Contains(old, cb)
  BY LenProperties DEF NetTypes, NoDoubles
<1>3. PICK k \in 1..Len(old) :
        /\ old[k] = cb /\ new \in Seq(Callbacks) /\ Len(new) = Len(old) - 1
        /\ \A i \in 1..Len(old) - 1 : new[i] = IF i < k THEN old[i] ELSE old[i + 1]
  <2> HIDE DEF old
  <2> QED BY <1>2, RemovedOne
<1>4. IsInjective(new)
  BY <1>2, RemovedContains
<1> HIDE DEF new
<1>5. /\ subscribers' \in [Nets -> [CanIds -> Seq(Callbacks)]]
      /\ \A other \in Nets, c \in CanIds :
           subscribers'[other][c] = IF other = net /\ c = can THEN new ELSE subscribers[other][c]
  BY <1>1, <1>3 DEF NetTypes
<1>6. NoDoubles'
  BY <1>4, <1>5 DEF NoDoubles
<1>7. WalkWithout(w, can, new) \in Walks
  <2>1. w \in Walks /\ w.removals + 1 \in Nat /\ (new = <<>>) \in BOOLEAN
    BY <1>2 DEF Walks
  <2> DEFINE gone == new = <<>>
  <2>2. WalkWithout(w, can, new) =
          IF w.can # can \/ w.detached THEN w
          ELSE [w EXCEPT !.removals = w.removals + 1, !.detached = gone]
    BY DEF WalkWithout
  <2> HIDE DEF w, gone
  <2>3. gone \in BOOLEAN
    BY DEF gone
  <2> QED BY <2>1, <2>2, <2>3 DEF Walks
<1>8. NetTypes' /\ walk'[net] = WalkWithout(w, can, new)
      /\ \A other \in Nets \ {net} : walk'[other] = walk[other]
  BY <1>1, <1>5, <1>7 DEF NetTypes
<1>9. ASSUME NEW other \in Nets, walk[other].can # NoCan, walk'[other] = walk[other],
             Walked(other)' = Walked(other)
      PROVE  FewMissed(other)' /\ FirstCalled(other)' /\ OneList(other)'
  BY <1>9, SameWalk
<1>10. ASSUME NEW other \in Nets \ {net}, walk[other].can # NoCan
       PROVE  FewMissed(other)' /\ FirstCalled(other)' /\ OneList(other)'
  <2>1. walk[other].can \in CanIds /\ walk'[other] = walk[other]
    BY <1>8, <1>10 DEF NetTypes, Walks
  <2>2. Walked(other)' = Walked(other)
    BY <1>5, <1>10, <2>1 DEF Walked
  <2> QED BY <1>9, <1>10, <2>1, <2>2
<1>11. ASSUME walk'[net].can # NoCan
       PROVE  FewMissed(net)' /\ FirstCalled(net)' /\ OneList(net)'
  <2>1. CASE w.can # can \/ w.detached
    <3>1. walk'[net] = walk[net] /\ walk[net].can # NoCan /\ walk[net].can \in CanIds
      BY <1>8, <1>11, <2>1 DEF WalkWithout, NetTypes, Walks
    <3>2. Walked(net)' = Walked(net)
      BY <1>5, <2>1, <3>1 DEF Walked
    <3> QED BY <1>9, <3>1, <3>2
  <2>2. CASE w.can = can /\ ~w.detached
    <3> DEFINE next == walk'[net]
    <3>1. /\ next.can = w.can /\ next.pos = w.pos /\ next.called = w.called
          /\ next.expected = w.expected /\ next.kept = w.kept
          /\ next.removals = w.removals + 1 /\ next.detached = (new = <<>>)
          /\ w.pos \in Nat /\ w.removals \in Nat
      BY <1>2, <1>8, <2>2 DEF WalkWithout, Walks
    <3>2. can # NoCan /\ FewMissed(net) /\ OneList(net) /\ Walked(net) = old
      BY <1>11, <2>2, <3>1 DEF WalkInv, Walked
    <3>3. Walked(net)' = new
      BY <1>5, <2>2, <3>1, <3>2 DEF Walked, OneList
    <3> DEFINE skipped == IF w.pos < k THEN cb ELSE old[w.pos + 1]
    <3>4. Missed(net)' \subseteq Missed(net) \cup {skipped}
      <4> SUFFICES ASSUME NEW c \in Missed(net)', c # skipped PROVE c \in Missed(net)
        OBVIOUS
      <4>1. /\ c \in w.expected \ ToSet(w.called)
            /\ \A i \in 1..Len(new) : i > w.pos => new[i] # c
        BY <3>1, <3>3 DEF Missed
      <4>2. ASSUME NEW i \in 1..Len(old), i > w.pos PROVE old[i] # c
        <5>1. CASE i < k
          <6>1. i \in 1..Len(new) /\ new[i] = old[i]
            BY <1>2, <1>3, <5>1
          <6> QED BY <4>1, <4>2, <6>1
        <5>2. CASE i = k
          <6>1. w.pos < k /\ old[i] = cb
            BY <1>3, <4>2, <5>2
          <6> QED BY <6>1
        <5>3. CASE i > k
          <6> DEFINE j == i - 1
          <6>1. j \in 1..Len(new) /\ ~(j < k) /\ j + 1 = i /\ j \in 1..Len(old) - 1
            BY <1>2, <1>3, <5>3
          <6> HIDE DEF j
          <6>2. new[j] = old[i]
            BY <1>3, <6>1
          <6>3. CASE j > w.pos
            BY <4>1, <6>1, <6>2, <6>3
          <6>4. CASE ~(j > w.pos)
            <7>1. i = w.pos + 1 /\ ~(w.pos < k)
              BY <1>2, <1>3, <3>1, <4>2, <5>3, <6>1, <6>4
            <7> QED BY <7>1
          <6> QED BY <6>3, <6>4
        <5>4. i < k \/ i = k \/ i > k
          BY <1>2, <1>3
        <5> QED BY <5>1, <5>2, <5>3, <5>4
      <4> QED BY <3>2, <4>1, <4>2 DEF Missed
    <3> HIDE DEF skipped, next
    <3>5. FewMissed(net)'
      <4>1. /\ IsFiniteSet(Missed(net)) /\ Cardinality(Missed(net)) \in Nat
            /\ Cardinality(Missed(net)') <= Cardinality(Missed(net)) + 1
        BY <3>2, <3>4, MissedIsFinite, OneMore
      <4>2. /\ IsFiniteSet(next.expected) /\ next.removals = w.removals + 1
            /\ Cardinality(Missed(net)) <= w.removals
        BY <3>1, <3>2 DEF FewMissed
      <4>3. Cardinality(Missed(net)') \in Nat
        <5>1. IsFiniteSet(Missed(net) \cup {skipped})
          BY <4>1, FS_AddElement
        <5> QED BY <3>4, <5>1, FS_Subset, FS_CardinalityType
      <4> QED BY <3>1, <4>1, <4>2, <4>3 DEF FewMissed, next
    <3>6. FirstCalled(net)'
      BY <3>1 DEF FirstCalled, next
    <3>7. OneList(net)'
      BY <1>4, <3>1, <3>2, <3>3, <2>2 DEF OneList, next
    <3> QED BY <3>5, <3>6, <3>7
  <2> QED BY <2>1, <2>2
<1> QED BY <1>6, <1>8, <1>10, <1>11 DEF WalkInv

\* All callbacks of a CAN ID go: a walk keeps their list.
LEMMA UnsubscribeAllKeeps ==
  ASSUME NetTypes, NoDoubles, WalkInv, NEW net \in Nets, NEW can \in CanIds,
         UnsubscribeAll(net, can)
  PROVE  NetTypes' /\ NoDoubles' /\ WalkInv'
<1> DEFINE old == subscribers[net][can]
           w == walk[net]
           kept == [w EXCEPT !.detached = TRUE, !.kept = old]
<1>1. /\ subscribers' = [subscribers EXCEPT ![net][can] = <<>>] /\ UNCHANGED found
      /\ walk' = [walk EXCEPT ![net] = IF w.can # can \/ w.detached THEN w ELSE kept]
  BY DEF UnsubscribeAll
<1>2. old \in Seq(Callbacks) /\ w \in Walks
  BY DEF NetTypes
<1>3. /\ kept \in Walks /\ kept.can = w.can /\ kept.pos = w.pos /\ kept.called = w.called
      /\ kept.expected = w.expected /\ kept.removals = w.removals
      /\ kept.kept = old /\ kept.detached = TRUE
  <2> HIDE DEF old, w
  <2> QED BY <1>2 DEF Walks
<1> HIDE DEF kept
<1>4. /\ NetTypes'
      /\ \A other \in Nets, c \in CanIds :
           subscribers'[other][c] =
             IF other = net /\ c = can THEN <<>> ELSE subscribers[other][c]
  BY <1>1, <1>3 DEF NetTypes
<1>5. NoDoubles'
  BY <1>4 DEF NoDoubles, IsInjective
<1>6. ASSUME NEW other \in Nets, walk'[other] = walk[other], walk[other].can # NoCan,
             other = net => w.can # can \/ w.detached
      PROVE  FewMissed(other)' /\ FirstCalled(other)' /\ OneList(other)'
  <2>1. walk[other].can \in CanIds
    BY <1>6 DEF NetTypes, Walks
  <2>2. Walked(other)' = Walked(other)
    BY <1>4, <1>6, <2>1 DEF Walked
  <2> QED BY <1>6, <2>2, SameWalk
<1>7. ASSUME w.can = can, ~w.detached, walk'[net].can # NoCan
      PROVE  FewMissed(net)' /\ FirstCalled(net)' /\ OneList(net)'
  <2>1. walk'[net] = kept
    BY <1>1, <1>7 DEF NetTypes
  <2>2. /\ w.can # NoCan /\ FewMissed(net) /\ FirstCalled(net) /\ OneList(net)
        /\ Walked(net) = old /\ Walked(net)' = old
    BY <1>3, <1>7, <2>1 DEF WalkInv, Walked
  <2>3. Missed(net)' = Missed(net)
    BY <1>3, <2>1, <2>2 DEF Missed
  <2> QED BY <1>3, <2>1, <2>2, <2>3 DEF FewMissed, FirstCalled, OneList
<1>8. \A other \in Nets : other # net \/ w.can # can \/ w.detached => walk'[other] = walk[other]
  BY <1>1 DEF NetTypes
<1> QED BY <1>4, <1>5, <1>6, <1>7, <1>8 DEF WalkInv

-----------------------------------------------------------------------------
\* The instructions that are left.

LEMMA NextInstruction ==
  ASSUME NodeTypes, ~Idle
  PROVE  /\ Head(pending) = pending[1] /\ pending[1] \in Instructions
         /\ Len(pending) \in Nat \ {0} /\ DOMAIN pending = 1..Len(pending)
         /\ 1 \in DOMAIN pending
         /\ Tail(pending) \in Seq(Instructions) /\ Len(Tail(pending)) = Len(pending) - 1
         /\ DOMAIN Tail(pending) = 1..Len(pending) - 1
         /\ \A i \in DOMAIN Tail(pending) :
              /\ i + 1 \in DOMAIN pending /\ Tail(pending)[i] = pending[i + 1]
              /\ Tail(pending)[i] \in Instructions
         /\ \A i \in DOMAIN pending : pending[i] \in Instructions
         /\ \A i \in DOMAIN pending : i # 1 => i - 1 \in DOMAIN Tail(pending)
                                              /\ Tail(pending)[i - 1] = pending[i]
<1> DEFINE p == pending
<1>1. p \in Seq(Instructions) /\ p # <<>>
  BY DEF NodeTypes, Idle
<1> HIDE DEF p
<1>2. Len(p) \in Nat \ {0} /\ DOMAIN p = 1..Len(p) /\ \A i \in 1..Len(p) : p[i] \in Instructions
  BY <1>1, LenProperties, EmptySeq, ElementOfSeq
<1>3. /\ Tail(p) \in Seq(Instructions) /\ Len(Tail(p)) = Len(p) - 1
      /\ \A i \in 1..Len(Tail(p)) : Tail(p)[i] = p[i + 1]
  BY <1>1, HeadTailProperties
<1>4. Head(p) = p[1] /\ DOMAIN Tail(p) = 1..Len(p) - 1
  BY <1>1, <1>3, LenProperties
<1>5. \A i \in 1..Len(p) - 1 : i + 1 \in 1..Len(p) /\ Tail(p)[i] = p[i + 1]
  BY <1>2, <1>3
<1>6. \A i \in 1..Len(p) : i # 1 => i - 1 \in 1..Len(p) - 1 /\ Tail(p)[i - 1] = p[i]
  BY <1>2, <1>5
<1>7. 1 \in DOMAIN p
  BY <1>2
<1> QED BY <1>1, <1>2, <1>3, <1>4, <1>5, <1>6, <1>7 DEF p

\* The instructions that are done when a node leaves, in front of the rest.
LeavingCall(h, net, n, rest) ==
  ForEachService("unsub", h, n) \o <<Do("forget", net, n, "none")>> \o rest

LEMMA LeavingCallIs ==
  ASSUME NEW h \in Nets, NEW net \in Nets, NEW n \in Nodes, NEW rest \in Seq(Instructions)
  PROVE  LET p == LeavingCall(h, net, n, rest)
             m == Len(ServicesOf(n))
         IN
         /\ m \in Nat /\ Len(rest) \in Nat
         /\ p \in Seq(Instructions) /\ Len(p) = m + 1 + Len(rest)
         /\ DOMAIN p = 1..m + 1 + Len(rest)
         /\ \A i \in 1..m : p[i] = ForEachService("unsub", h, n)[i]
         /\ p[m + 1] = [op |-> "forget", net |-> net, node |-> n, svc |-> "none"]
         /\ \A i \in 1..Len(rest) : p[m + 1 + i] = rest[i]
<1> DEFINE m == Len(ServicesOf(n))
           a == ForEachService("unsub", h, n)
           b == <<Do("forget", net, n, "none")>>
           l == Len(rest)
<1>1. a \in Seq(Instructions) /\ Len(a) = m /\ m \in Nat
  BY EachServiceIs, ServicesAre
<1>2. /\ b \in Seq(Instructions) /\ Len(b) = 1
      /\ b[1] = [op |-> "forget", net |-> net, node |-> n, svc |-> "none"]
  <2> DEFINE f == Do("forget", net, n, "none")
  <2>1. f \in Instructions
    BY DEF Instructions, Do
  <2>2. b = <<f>>
    OBVIOUS
  <2> HIDE DEF b, f, a, m
  <2>3. b \in Seq(Instructions) /\ Len(b) = 1 /\ b[1] = f
    BY <2>1, <2>2
  <2> QED BY <2>3 DEF f, Do
<1>3. l \in Nat
  BY LenProperties
<1> HIDE DEF a, b, m
<1>4. /\ a \o b \in Seq(Instructions) /\ Len(a \o b) = m + 1
      /\ \A i \in 1..m : (a \o b)[i] = a[i]
      /\ (a \o b)[m + 1] = b[1]
  <2>1. /\ a \o b \in Seq(Instructions) /\ Len(a \o b) = m + 1
        /\ \A i \in 1..m + 1 : (a \o b)[i] = IF i <= m THEN a[i] ELSE b[i - m]
    <3>1. /\ a \o b \in Seq(Instructions) /\ Len(a \o b) = Len(a) + Len(b)
          /\ \A i \in 1..Len(a) + Len(b) :
               (a \o b)[i] = IF i <= Len(a) THEN a[i] ELSE b[i - Len(a)]
      BY <1>1, <1>2, ConcatProperties
    <3> QED BY <1>1, <1>2, <3>1
  <2>2. m + 1 \in 1..m + 1 /\ ~(m + 1 <= m) /\ (m + 1) - m = 1
    BY <1>1
  <2> QED BY <1>1, <2>1, <2>2
<1> DEFINE c == a \o b
<1> HIDE DEF c
<1>5. /\ c \in Seq(Instructions) /\ Len(c) = m + 1 /\ (\A i \in 1..m : c[i] = a[i])
      /\ c[m + 1] = b[1]
  BY <1>4 DEF c
<1> HIDE DEF l
<1>6. /\ c \o rest \in Seq(Instructions) /\ Len(c \o rest) = m + 1 + l
      /\ \A i \in 1..m + 1 : (c \o rest)[i] = c[i]
      /\ \A i \in 1..l : (c \o rest)[m + 1 + i] = rest[i]
  <2>1. /\ c \o rest \in Seq(Instructions) /\ Len(c \o rest) = m + 1 + l
        /\ \A i \in 1..m + 1 + l :
             (c \o rest)[i] = IF i <= m + 1 THEN c[i] ELSE rest[i - (m + 1)]
    <3>1. /\ c \o rest \in Seq(Instructions) /\ Len(c \o rest) = Len(c) + Len(rest)
          /\ \A i \in 1..Len(c) + Len(rest) :
               (c \o rest)[i] = IF i <= Len(c) THEN c[i] ELSE rest[i - Len(c)]
      BY <1>5, ConcatProperties
    <3> QED BY <1>5, <3>1 DEF l
  <2>2. ASSUME NEW i \in 1..l PROVE (c \o rest)[m + 1 + i] = rest[i]
    <3>1. /\ m + 1 + i \in 1..m + 1 + l /\ ~(m + 1 + i <= m + 1)
          /\ (m + 1 + i) - (m + 1) = i
      BY <1>1, <1>3
    <3> QED BY <2>1, <3>1
  <2>3. \A i \in 1..m + 1 : i \in 1..m + 1 + l /\ i <= m + 1
    BY <1>1, <1>3
  <2>4. \A i \in 1..m + 1 : (c \o rest)[i] = c[i]
    BY <2>1, <2>3
  <2> QED BY <2>1, <2>2, <2>4
<1>7. DOMAIN (c \o rest) = 1..m + 1 + l
  BY <1>6, LenProperties
<1>8. m + 1 \in 1..m + 1 /\ \A i \in 1..m : i \in 1..m + 1
  BY <1>1
<1>9. /\ m \in Nat /\ l \in Nat /\ c \o rest \in Seq(Instructions)
      /\ Len(c \o rest) = m + 1 + l
      /\ DOMAIN (c \o rest) = 1..m + 1 + l
      /\ \A i \in 1..m : (c \o rest)[i] = a[i]
      /\ (c \o rest)[m + 1] = [op |-> "forget", net |-> net, node |-> n, svc |-> "none"]
      /\ \A i \in 1..l : (c \o rest)[m + 1 + i] = rest[i]
  BY <1>1, <1>2, <1>3, <1>5, <1>6, <1>7, <1>8
<1> QED BY <1>9 DEF a, b, c, l, m, LeavingCall

-----------------------------------------------------------------------------
\* Every step keeps the walks in order.

LEMMA NetFrame ==
  ASSUME NetTypes, NoDoubles, WalkInv, UNCHANGED <<subscribers, walk>>,
         found' \in [Nets -> Seq(Ids)]
  PROVE  NetTypes' /\ NoDoubles' /\ WalkInv'
<1>1. NetTypes' /\ NoDoubles'
  BY DEF NetTypes, NoDoubles
<1>2. \A net \in Nets : walk'[net] = walk[net] /\ Walked(net)' = Walked(net)
  BY DEF Walked
<1> QED BY <1>1, <1>2, SameWalk DEF WalkInv

LEMMA AppStepKeepsWalks ==
  ASSUME NetTypes, NoDoubles, WalkInv, NodeTypes, AppStep
  PROVE  NetTypes' /\ NoDoubles' /\ WalkInv'
<1> DEFINE i == pending[1]
           rest == Tail(pending)
           s == Subscription(i.node, i.svc)
<1>1. /\ ~Idle /\ UNCHANGED found
      /\ \/ UNCHANGED <<subscribers, walk>>
         \/ i.op = "unsub" /\ Unsub(i, rest)
         \/ i.op = "sub" /\ Sub(i, rest) /\ UNCHANGED walk
  BY NextInstruction DEF AppStep
<1>2. /\ i \in Instructions
      /\ i.op \in {"sub", "unsub"} => i.svc \in Heard \cup {"pdo"}
  BY <1>1, NextInstruction DEF NodeTypes, Instructions
<1>3. i.op \in {"sub", "unsub"} =>
        i.net \in Nets /\ i.node \in Nodes /\ s.can \in CanIds /\ s.cb \in Callbacks
  BY <1>2, SubscriptionIsTyped DEF Instructions
<1>4. CASE UNCHANGED <<subscribers, walk>>
  BY <1>1, <1>4, NetFrame DEF NetTypes
<1>5. CASE i.op = "unsub" /\ Unsub(i, rest)
  <2>1. \/ UNCHANGED <<subscribers, walk>>
        \/ Contains(subscribers[i.net][s.can], s.cb) /\ Unsubscribe(i.net, s.can, s.cb)
    BY <1>5 DEF Unsub
  <2> HIDE DEF i, s
  <2> QED BY <1>1, <1>3, <1>4, <1>5, <2>1, UnsubscribeKeeps
<1>6. CASE i.op = "sub" /\ Sub(i, rest) /\ UNCHANGED walk
  <2>1. Subscribe(i.net, s.can, s.cb)
    BY <1>6 DEF Sub
  <2> HIDE DEF i, s
  <2> QED BY <1>1, <1>3, <1>6, <2>1, SubscribeKeeps
<1> QED BY <1>1, <1>4, <1>5, <1>6

LEMMA NetStep ==
  NetTypes /\ NoDoubles /\ WalkInv /\ NodeTypes /\ [Next]_vars =>
    NetTypes' /\ NoDoubles' /\ WalkInv'
<1> SUFFICES ASSUME NetTypes, NoDoubles, WalkInv, NodeTypes, [Next]_vars
             PROVE  NetTypes' /\ NoDoubles' /\ WalkInv'
  OBVIOUS
<1>1. ASSUME UNCHANGED netVars PROVE NetTypes' /\ NoDoubles' /\ WalkInv'
  BY <1>1, NetFrame DEF netVars, NetTypes
<1>2. ASSUME NEW net \in Nets, NEW n \in Nodes, StartCall(net, n) PROVE UNCHANGED netVars
  BY <1>2 DEF StartCall
<1>3. ASSUME NEW n \in Nodes, AddSdo(n) \/ SubscribePdo(n) PROVE UNCHANGED netVars
  BY <1>3 DEF AddSdo, SubscribePdo
<1>4. ASSUME NEW net \in Nets, NEW can \in FrameIds, Cut(net, can)
      PROVE  NetTypes' /\ NoDoubles' /\ WalkInv'
  BY <1>4, UnsubscribeAllKeeps, NodesAssumption DEF Cut
<1>5. ASSUME NEW net \in Nets, ResetScanner(net)
      PROVE  NetTypes' /\ NoDoubles' /\ WalkInv'
  <2>1. found' \in [Nets -> Seq(Ids)] /\ UNCHANGED <<subscribers, walk>>
    BY <1>5 DEF ResetScanner, Reset, NetTypes
  <2> QED BY <2>1, NetFrame
<1>6. ASSUME NEW net \in Nets, Link(net) PROVE UNCHANGED netVars
  BY <1>6 DEF Link, Connect, Disconnect, SyncStart, SyncStop, netVars
<1>7. ASSUME NEW net \in Nets, ThreadDies(net) PROVE UNCHANGED netVars
  BY <1>7 DEF ThreadDies, NotifierDies
<1>8. ASSUME NEW net \in Nets, NEW can \in FrameIds, NEW short \in BOOLEAN,
             Arrive(net, can, short)
      PROVE  NetTypes' /\ NoDoubles' /\ WalkInv'
  BY <1>8, ReceiveKeeps DEF Arrive
<1>9. ASSUME NEW net \in Nets, NotifierStep(net)
      PROVE  NetTypes' /\ NoDoubles' /\ WalkInv'
  BY <1>9, CallNextKeeps, EndWalkKeeps DEF NotifierStep
<1>10. ASSUME UNCHANGED vars PROVE UNCHANGED netVars
  BY <1>10 DEF vars
<1> QED
  BY <1>1, <1>2, <1>3, <1>4, <1>5, <1>6, <1>7, <1>8, <1>9, <1>10, AppStepKeepsWalks
  DEF Next

LEMMA NetInit == Init => NetTypes /\ NoDoubles /\ WalkInv
<1> SUFFICES ASSUME Init PROVE NetTypes /\ NoDoubles /\ WalkInv
  OBVIOUS
<1>1. /\ subscribers = [net \in Nets |-> [can \in CanIds |->
           IF can = LssAnswers THEN <<[owner |-> net, svc |-> "lss"]>> ELSE <<>>]]
      /\ walk = [net \in Nets |-> IdleWalk]
      /\ found = [net \in Nets |-> <<>>]
  BY DEF Init, NetworkInit
<1>2. \A net \in Nets : [owner |-> net, svc |-> "lss"] \in Callbacks
  BY DEF Callbacks
<1>3. NetTypes
  BY <1>1, <1>2, IdleIsWalk DEF NetTypes
<1>4. NoDoubles
  BY <1>1 DEF NoDoubles, IsInjective
<1>5. WalkInv
  BY <1>1, IdleIsWalk DEF WalkInv
<1> QED BY <1>3, <1>4, <1>5

-----------------------------------------------------------------------------
\* The application's call goes on.

\* What is left of a call in order is in order.
LEMMA RestIsOrdered ==
  ASSUME NodeTypes, ~Idle, InOrder, Complete, pending' = Tail(pending)
  PROVE  /\ pending' \in Seq(Instructions) /\ InOrder' /\ Complete'
         /\ \A i \in DOMAIN pending' :
              pending'[i].op \in {"unsub", "sub"} => pending'[i].svc # "none"
<1>1. /\ pending' \in Seq(Instructions) /\ DOMAIN pending = 1..Len(pending)
      /\ Len(pending) \in Nat \ {0} /\ DOMAIN pending' = 1..Len(pending) - 1
      /\ \A i \in DOMAIN pending' : i + 1 \in DOMAIN pending /\ pending'[i] = pending[i + 1]
      /\ \A i \in DOMAIN pending :
           i # 1 => i - 1 \in DOMAIN pending' /\ pending'[i - 1] = pending[i]
  BY NextInstruction
<1>2. InOrder'
  <2> SUFFICES ASSUME NEW i \in DOMAIN pending', NEW j \in DOMAIN pending', i < j
               PROVE  Follows(pending'[i], pending'[j])
    BY DEF InOrder, Follows
  <2>1. i + 1 \in DOMAIN pending /\ j + 1 \in DOMAIN pending /\ i + 1 < j + 1
    BY <1>1
  <2> QED BY <1>1, <2>1 DEF InOrder
<1>3. Complete'
  <2> SUFFICES ASSUME NEW i \in DOMAIN pending'
      PROVE /\ pending'[i].op = "unsub" => \E j \in DOMAIN pending' : pending'[j].op = "forget"
            /\ pending'[i].op \in {"remove", "forget"} =>
                 \E j \in DOMAIN pending' : pending'[j].op \in {"list", "unlist"}
            /\ pending'[i].op = "list" =>
                 \E j \in DOMAIN pending' : pending'[j].op = "associate"
    BY DEF Complete
  <2>1. /\ i + 1 \in DOMAIN pending /\ pending'[i] = pending[i + 1] /\ 1 \in DOMAIN pending
        /\ 1 < i + 1
    BY <1>1
  <2>2. Follows(pending[1], pending[i + 1])
    BY <2>1 DEF InOrder
  <2>3. /\ pending'[i].op = "unsub" => pending[1].op # "forget"
        /\ pending'[i].op \in {"remove", "forget"} => pending[1].op \notin {"list", "unlist"}
        /\ pending'[i].op = "list" => pending[1].op # "associate"
    BY <2>1, <2>2 DEF Follows
  <2>4. ASSUME NEW j \in DOMAIN pending, j # 1 PROVE \E k \in DOMAIN pending' : pending'[k] = pending[j]
    BY <1>1, <2>4
  <2>5. ASSUME pending'[i].op = "unsub" PROVE \E j \in DOMAIN pending' : pending'[j].op = "forget"
    BY <2>1, <2>3, <2>4, <2>5 DEF Complete
  <2>6. ASSUME pending'[i].op \in {"remove", "forget"}
        PROVE  \E j \in DOMAIN pending' : pending'[j].op \in {"list", "unlist"}
    BY <2>1, <2>3, <2>4, <2>6 DEF Complete
  <2>7. ASSUME pending'[i].op = "list"
        PROVE  \E j \in DOMAIN pending' : pending'[j].op = "associate"
    BY <2>1, <2>3, <2>4, <2>7 DEF Complete
  <2> QED BY <2>5, <2>6, <2>7
<1>4. ASSUME NEW i \in DOMAIN pending', pending'[i].op \in {"unsub", "sub"}
      PROVE  pending'[i].svc # "none"
  BY <1>1, <1>4 DEF NodeTypes
<1> QED BY <1>1, <1>2, <1>3, <1>4

\* What is left to do when one instruction is done.
LEMMA RestToDo ==
  ASSUME NodeTypes, ~Idle, pending' = Tail(pending)
  PROVE  /\ \A op, net, n, svc :
              /\ ToDo(op, net, n, svc)' => ToDo(op, net, n, svc)
              /\ ToDo(op, net, n, svc) =>
                   \/ ToDo(op, net, n, svc)'
                   \/ /\ pending[1].op = op /\ pending[1].net = net
                      /\ pending[1].node = n /\ pending[1].svc = svc
         /\ \A n : /\ Leaving(n)' => Leaving(n)
                   /\ Leaving(n) => Leaving(n)' \/ pending[1].op = "forget"
<1>1. /\ \A i \in DOMAIN pending' : i + 1 \in DOMAIN pending /\ pending'[i] = pending[i + 1]
      /\ \A i \in DOMAIN pending :
           i # 1 => i - 1 \in DOMAIN pending' /\ pending'[i - 1] = pending[i]
  BY NextInstruction
<1>2. ASSUME NEW op, NEW net, NEW n, NEW svc, ToDo(op, net, n, svc)'
      PROVE  ToDo(op, net, n, svc)
  BY <1>1, <1>2 DEF ToDo
<1>3. ASSUME NEW op, NEW net, NEW n, NEW svc, ToDo(op, net, n, svc),
             ~(/\ pending[1].op = op /\ pending[1].net = net
               /\ pending[1].node = n /\ pending[1].svc = svc)
      PROVE  ToDo(op, net, n, svc)'
  <2>1. PICK i \in DOMAIN pending : /\ pending[i].op = op /\ pending[i].net = net
                                   /\ pending[i].node = n /\ pending[i].svc = svc
    BY <1>3 DEF ToDo
  <2>2. i # 1
    BY <1>3, <2>1
  <2>3. i - 1 \in DOMAIN pending' /\ pending'[i - 1] = pending[i]
    BY <1>1, <2>2
  <2> QED BY <2>1, <2>3 DEF ToDo
<1>4. ASSUME NEW n, Leaving(n)' PROVE Leaving(n)
  BY <1>1, <1>4 DEF Leaving
<1>5. ASSUME NEW n, Leaving(n), pending[1].op # "forget" PROVE Leaving(n)'
  <2>1. PICK i \in DOMAIN pending : pending[i].op = "forget" /\ pending[i].node = n
    BY <1>5 DEF Leaving
  <2>2. i - 1 \in DOMAIN pending' /\ pending'[i - 1] = pending[i]
    BY <1>1, <1>5, <2>1
  <2> QED BY <2>1, <2>2 DEF Leaving
<1> QED BY <1>2, <1>3, <1>4, <1>5

\* The instruction behind a removal gives a place in the list away.
LEMMA RemovalThenPlace ==
  ASSUME NodeTypes, ~Idle, InOrder, Complete, pending[1].op \in {"remove", "forget"}
  PROVE  /\ Tail(pending) # <<>>
         /\ Tail(pending)[1].op \in {"list", "unlist"}
         /\ Tail(pending)[1].net = pending[1].net
         /\ IdOf[Tail(pending)[1].node] = IdOf[pending[1].node]
         /\ \A i \in DOMAIN Tail(pending) :
              Tail(pending)[i].op \in {"list", "unlist", "associate"}
<1>1. /\ 1 \in DOMAIN pending /\ DOMAIN pending = 1..Len(pending) /\ Len(pending) \in Nat
      /\ Tail(pending) \in Seq(Instructions)
      /\ \A i \in DOMAIN Tail(pending) :
           i + 1 \in DOMAIN pending /\ Tail(pending)[i] = pending[i + 1]
      /\ DOMAIN Tail(pending) = 1..Len(pending) - 1
  BY NextInstruction
<1>2. PICK j \in DOMAIN pending : pending[j].op \in {"list", "unlist"}
  BY <1>1 DEF Complete
<1>3. j > 1
  BY <1>1, <1>2
<1>4. 2 \in DOMAIN pending /\ 1 \in DOMAIN Tail(pending) /\ Tail(pending)[1] = pending[2]
  BY <1>1, <1>3
<1>5. \A i \in DOMAIN pending : i > 1 => Follows(pending[1], pending[i])
  BY <1>1 DEF InOrder
<1>6. j = 2 \/ Follows(pending[2], pending[j])
  BY <1>1, <1>3, <1>4 DEF InOrder
<1>7. pending[2].op \in {"list", "unlist"}
  BY <1>2, <1>4, <1>5, <1>6 DEF Follows
<1>8. pending[2].net = pending[1].net /\ IdOf[pending[2].node] = IdOf[pending[1].node]
  BY <1>4, <1>5, <1>7 DEF Follows
<1>9. ASSUME NEW i \in DOMAIN Tail(pending)
      PROVE  Tail(pending)[i].op \in {"list", "unlist", "associate"}
  <2>1. i + 1 \in DOMAIN pending /\ Tail(pending)[i] = pending[i + 1] /\ i + 1 > 1
    BY <1>1, <1>9
  <2>2. Follows(pending[1], pending[i + 1])
    BY <1>5, <2>1
  <2> QED BY <2>1, <2>2 DEF Follows
<1>10. Tail(pending) # <<>>
  <2>1. Len(Tail(pending)) # 0
    BY <1>1, <1>4, NextInstruction
  <2> QED BY <1>1, <2>1, EmptySeq
<1> QED BY <1>4, <1>7, <1>8, <1>9, <1>10

LEMMA SameServices ==
  ASSUME UNCHANGED <<extra, cut>>
  PROVE  /\ \A n : ServicesOf(n)' = ServicesOf(n)
         /\ \A net, n : CutOff(net, n)' <=> CutOff(net, n)
<1>1. \A n : ServicesOf(n)' = ServicesOf(n)
  BY DEF ServicesOf
<1> QED BY <1>1 DEF CutOff

LEMMA SameListeners ==
  ASSUME UNCHANGED <<subscribers, extra, cut>>
  PROVE  /\ \A net, n, svc : Has(net, n, svc)' <=> Has(net, n, svc)
         /\ \A n : ServicesOf(n)' = ServicesOf(n)
         /\ \A net, n : CutOff(net, n)' <=> CutOff(net, n)
<1>1. \A net, n, svc : Has(net, n, svc)' <=> Has(net, n, svc)
  BY DEF Has, Subscription
<1> QED BY <1>1, SameServices

\* The listeners do not change, nobody leaves and no subscription is dropped.
LEMMA ListenFrame ==
  ASSUME ListenInv, UNCHANGED <<subscribers, home, extra, cut>>,
         \A net, n, svc : ToDo("sub", net, n, svc) => ToDo("sub", net, n, svc)',
         \A net, n, svc : ToDo("unsub", net, n, svc) => ToDo("unsub", net, n, svc)',
         \A n : Leaving(n)' <=> Leaving(n),
         \A i \in DOMAIN pending' : pending'[i].op = "unsub" =>
           \E j \in DOMAIN pending : pending[j] = pending'[i]
  PROVE  ListenInv'
<1>1. ListensAtHome'
  BY SameListeners DEF ListenInv, ListensAtHome
<1>2. HomeIsHeard'
  BY SameListeners DEF ListenInv, HomeIsHeard
<1>3. LeavingIsUndone'
  BY SameListeners DEF ListenInv, LeavingIsUndone
<1>4. UndoneIsThere'
  BY SameListeners DEF ListenInv, UndoneIsThere
<1> QED BY <1>1, <1>2, <1>3, <1>4 DEF ListenInv

\* remove_network of a node without network.
LEMMA RemoveNothing ==
  ASSUME NodeTypes, CallInv, ~Idle, pending[1].op = "remove",
         home[pending[1].node] = NoNet, pending' = Tail(pending),
         UNCHANGED <<subscribers, listed, home, extra, strays, cut>>
  PROVE  NodeTypes' /\ CallInv'
<1> DEFINE i == pending[1]
           rest == Tail(pending)
<1>1. /\ i \in Instructions /\ 1 \in DOMAIN pending
      /\ \A j \in DOMAIN rest : j + 1 \in DOMAIN pending /\ rest[j] = pending[j + 1]
  BY NextInstruction
<1>2. /\ InOrder /\ Complete /\ AtTheirPlace /\ ListenInv /\ ListingInv
  BY DEF CallInv, ProgramInv
<1>3. NodeTypes' /\ InOrder' /\ Complete'
  BY <1>2, RestIsOrdered DEF NodeTypes
<1>4. /\ rest # <<>> /\ rest[1].op \in {"list", "unlist"} /\ rest[1].net = i.net
      /\ IdOf[rest[1].node] = IdOf[i.node]
      /\ \A j \in DOMAIN rest : rest[j].op \in {"list", "unlist", "associate"}
  BY <1>2, RemovalThenPlace
<1>5. AtTheirPlace'
  BY <1>4 DEF AtTheirPlace
<1>6. ListenInv'
  <2>1. /\ \A op, net, n, svc :
             op # "remove" => (ToDo(op, net, n, svc)' <=> ToDo(op, net, n, svc))
        /\ \A n : Leaving(n)' <=> Leaving(n)
    BY RestToDo
  <2> QED BY <1>1, <1>2, <2>1, ListenFrame
<1>7. HomeLists' /\ UnderItsId' /\ ListedFirst'
  BY <1>2, <1>4 DEF ListingInv, HomeLists, UnderItsId, ListedFirst
<1>8. \A net \in Nets, n \in Nodes \ strays : listed[net][IdOf[n]] = n => home[n] = net
  BY <1>2 DEF ListingInv, ListedIsHome, Changing
<1>9. ListedIsHome'
  BY <1>8 DEF ListedIsHome
<1>10. PlaceIsFree'
  <2>1. listed[i.net][IdOf[i.node]] = i.node /\ i.net \in Nets
    BY <1>1, <1>2 DEF AtTheirPlace, Instructions
  <2>2. NoNet \notin Nets
    BY NetworkAssumption
  <2> QED BY <1>4, <2>1, <2>2 DEF PlaceIsFree
<1> QED
  BY <1>3, <1>5, <1>6, <1>7, <1>9, <1>10 DEF CallInv, ProgramInv, ListingInv

\* remove_network of a node that has a network: its callbacks go one by one.
LEMMA RemoveBegins ==
  ASSUME NodeTypes, CallInv, ~Idle, pending[1].op = "remove",
         home[pending[1].node] # NoNet,
         pending' = LeavingCall(home[pending[1].node], pending[1].net, pending[1].node,
                                Tail(pending)),
         UNCHANGED <<subscribers, listed, home, extra, strays, cut>>
  PROVE  NodeTypes' /\ CallInv'
<1> DEFINE r == pending[1]
           rest == Tail(pending)
           h == home[r.node]
           m == Len(ServicesOf(r.node))
           each == ForEachService("unsub", h, r.node)
           l == Len(rest)
<1>1. /\ r \in Instructions /\ rest \in Seq(Instructions) /\ 1 \in DOMAIN pending
      /\ \A j \in DOMAIN rest : j + 1 \in DOMAIN pending /\ rest[j] = pending[j + 1]
      /\ \A j \in DOMAIN pending : j # 1 => j - 1 \in DOMAIN rest /\ rest[j - 1] = pending[j]
      /\ DOMAIN pending = 1..Len(pending) /\ Len(pending) \in Nat
      /\ DOMAIN rest = 1..l /\ l \in Nat
  BY NextInstruction, LenProperties
<1>2. r.net \in Nets /\ r.node \in Nodes /\ h \in Nets
  BY <1>1 DEF Instructions, NodeTypes
<1>3. /\ InOrder /\ Complete /\ AtTheirPlace /\ ListenInv /\ ListingInv
  BY DEF CallInv, ProgramInv
<1>4. /\ rest # <<>> /\ rest[1].op \in {"list", "unlist"}
      /\ \A j \in DOMAIN rest : rest[j].op \in {"list", "unlist", "associate"}
  BY <1>3, RemovalThenPlace
<1>5. /\ m \in Nat \ {0} /\ pending' \in Seq(Instructions)
      /\ DOMAIN pending' = 1..m + 1 + l
      /\ \A i \in 1..m : pending'[i] = each[i]
      /\ pending'[m + 1] = [op |-> "forget", net |-> r.net, node |-> r.node, svc |-> "none"]
      /\ \A i \in 1..l : pending'[m + 1 + i] = rest[i]
  <2>1. m \in Nat \ {0}
    BY ServicesAre
  <2>2. pending' = LeavingCall(h, r.net, r.node, rest)
    OBVIOUS
  <2> DEFINE p == LeavingCall(h, r.net, r.node, rest)
  <2>3. /\ p \in Seq(Instructions) /\ DOMAIN p = 1..m + 1 + l
        /\ \A i \in 1..m : p[i] = each[i]
        /\ p[m + 1] = [op |-> "forget", net |-> r.net, node |-> r.node, svc |-> "none"]
        /\ \A i \in 1..l : p[m + 1 + i] = rest[i]
    <3> HIDE DEF r, h, rest
    <3>1. r.net \in Nets /\ r.node \in Nodes /\ h \in Nets /\ rest \in Seq(Instructions)
      BY <1>1, <1>2
    <3>2. LET q == LeavingCall(h, r.net, r.node, rest)
              k == Len(ServicesOf(r.node))
          IN
          /\ k \in Nat /\ Len(rest) \in Nat
          /\ q \in Seq(Instructions) /\ Len(q) = k + 1 + Len(rest)
          /\ DOMAIN q = 1..k + 1 + Len(rest)
          /\ \A i \in 1..k : q[i] = ForEachService("unsub", h, r.node)[i]
          /\ q[k + 1] = [op |-> "forget", net |-> r.net, node |-> r.node, svc |-> "none"]
          /\ \A i \in 1..Len(rest) : q[k + 1 + i] = rest[i]
      BY <3>1, LeavingCallIs, ZenonT(30)
    <3> QED BY <3>2, Zenon
  <2>4. pending' = p
    BY <2>2
  <2> HIDE DEF p, m, each, l, h, rest, r
  <2> QED BY <2>1, <2>3, <2>4
<1>6. /\ \A i \in 1..m : /\ each[i].op = "unsub" /\ each[i].net = h /\ each[i].node = r.node
                         /\ each[i].svc \in Heard /\ each[i].svc \in ToSet(ServicesOf(r.node))
      /\ \A svc \in ToSet(ServicesOf(r.node)) : \E i \in 1..m : each[i].svc = svc
      /\ \A i, j \in 1..m : each[i].svc = each[j].svc => i = j
  BY SMTT(30), <1>2, EachServiceIs
<1> HIDE DEF m, each, l, h, rest, r
\* The three parts of the call.
<1>7. ASSUME NEW i \in DOMAIN pending'
      PROVE  \/ /\ i \in 1..m /\ pending'[i] = each[i]
             \/ i = m + 1
             \/ /\ i > m + 1 /\ i - (m + 1) \in 1..l /\ i - (m + 1) \in DOMAIN rest
                /\ pending'[i] = rest[i - (m + 1)]
  <2>1. CASE i \in 1..m
    BY <1>5, <2>1
  <2>2. CASE i > m + 1
    <3> DEFINE x == i - (m + 1)
    <3>1. x \in 1..l /\ i = m + 1 + x
      <4>1. m \in Nat /\ i \in 1..m + 1 + l
        BY <1>5, <1>7
      <4> QED BY <1>1, <2>2, <4>1
    <3> HIDE DEF x
    <3>2. pending'[i] = rest[x] /\ x \in DOMAIN rest
      BY <1>1, <1>5, <3>1
    <3> QED BY <2>2, <3>1, <3>2 DEF x
  <2>3. i \in 1..m \/ i = m + 1 \/ i > m + 1
    BY <1>1, <1>5, <1>7
  <2> QED BY <2>1, <2>2, <2>3
<1>8. /\ pending'[m + 1].op = "forget" /\ pending'[m + 1].net = r.net
      /\ pending'[m + 1].node = r.node
  BY <1>5
<1>9. m + 1 \in DOMAIN pending' /\ \A i \in 1..m : i \in DOMAIN pending'
  BY <1>1, <1>5
<1>10. \A j \in DOMAIN rest : Follows(r, rest[j])
  <2> SUFFICES ASSUME NEW j \in DOMAIN rest PROVE Follows(r, rest[j])
    OBVIOUS
  <2>1. j + 1 \in DOMAIN pending /\ rest[j] = pending[j + 1] /\ 1 < j + 1
    BY <1>1
  <2> QED BY <1>1, <1>3, <2>1 DEF InOrder, r
<1>11. NodeTypes'
  <2>1. ASSUME NEW i \in DOMAIN pending', pending'[i].op \in {"unsub", "sub"}
        PROVE  pending'[i].svc # "none"
    <3>1. CASE i \in 1..m /\ pending'[i] = each[i]
      BY <1>6, <3>1 DEF Heard
    <3>2. CASE i - (m + 1) \in DOMAIN rest /\ pending'[i] = rest[i - (m + 1)]
      BY <1>4, <2>1, <3>2
    <3> QED BY <1>7, <1>8, <2>1, <3>1, <3>2
  <2> QED BY <1>5, <2>1 DEF NodeTypes
<1>12. InOrder'
  <2> SUFFICES ASSUME NEW i \in DOMAIN pending', NEW j \in DOMAIN pending', i < j
               PROVE  Follows(pending'[i], pending'[j])
    BY DEF InOrder, Follows
  <2>1. CASE i \in 1..m /\ j \in 1..m
    <3>1. pending'[i] = each[i] /\ pending'[j] = each[j] /\ i # j
      BY <1>5, <2>1
    <3>2. each[i].svc # each[j].svc
      BY <1>6, <2>1, <3>1
    <3>3. /\ each[i].op = "unsub" /\ each[i].net = h /\ each[i].node = r.node
          /\ each[j].op = "unsub" /\ each[j].net = h /\ each[j].node = r.node
      BY <1>6, <2>1, Zenon
    <3>4. Follows(each[i], each[j])
      BY <3>2, <3>3, Zenon DEF Follows
    <3> QED BY <3>1, <3>4, Zenon
  <2>2. CASE i \in 1..m /\ j = m + 1
    <3> PICK f, g : f = pending'[i] /\ g = pending'[j]
      OBVIOUS
    <3>1. f = each[i]
      BY <1>5, <2>2
    <3>2. f.op = "unsub" /\ f.node = r.node
      BY <1>6, <2>2, <3>1
    <3>3. g.op = "forget" /\ g.node = r.node
      BY <1>8, <2>2
    <3>4. Follows(f, g)
      BY <3>2, <3>3 DEF Follows
    <3> QED BY <3>4
  <2>3. CASE i \in 1..m /\ j > m + 1
    <3>1. ~(j \in 1..m) /\ j # m + 1
      BY <1>5, <2>3
    <3>2. pending'[i] = each[i] /\ pending'[j].op \in {"list", "unlist", "associate"}
      BY <1>4, <1>5, <1>7, <2>3, <3>1
    <3> QED BY <1>6, <2>3, <3>2 DEF Follows
  <2>4. CASE i = m + 1 /\ j > m + 1
    <3>1. j - (m + 1) \in DOMAIN rest /\ pending'[j] = rest[j - (m + 1)]
      <4>1. ~(j \in 1..m) /\ j # m + 1
        BY <1>5, <2>4
      <4> QED BY <1>7, <4>1
    <3>2. Follows(r, pending'[j]) /\ r.op = "remove"
      BY <1>10, <3>1 DEF r
    <3> QED BY <1>5, <1>8, <2>4, <3>2 DEF Follows
  <2>5. CASE i > m + 1
    <3> DEFINE x == i - (m + 1)
               y == j - (m + 1)
    <3>1. /\ x \in 1..l /\ y \in 1..l /\ x < y /\ j > m + 1
          /\ pending'[i] = rest[x] /\ pending'[j] = rest[y]
      <4>1. i > m + 1 /\ j > m + 1 /\ i \in Nat /\ j \in Nat /\ m \in Nat
        BY <1>1, <1>5, <2>5
      <4>2. ~(i \in 1..m) /\ i # m + 1 /\ ~(j \in 1..m) /\ j # m + 1
        BY <4>1
      <4>3. x \in 1..l /\ pending'[i] = rest[x]
        BY <1>7, <4>2
      <4>4. y \in 1..l /\ pending'[j] = rest[y]
        BY <1>7, <4>2
      <4>5. x < y
        BY <4>1
      <4> QED BY <4>1, <4>3, <4>4, <4>5
    <3> HIDE DEF x, y
    <3>2. /\ x + 1 \in DOMAIN pending /\ y + 1 \in DOMAIN pending /\ x + 1 < y + 1
          /\ rest[x] = pending[x + 1] /\ rest[y] = pending[y + 1]
      BY <1>1, <3>1
    <3> QED BY <1>3, <3>1, <3>2 DEF InOrder
  <2>6. i \in 1..m \/ i = m + 1 \/ i > m + 1
    BY <1>5
  <2>7. j \in 1..m \/ j = m + 1 \/ j > m + 1
    BY <1>5
  <2>8. i = m + 1 => j > m + 1
    BY <1>5
  <2> QED BY <2>1, <2>2, <2>3, <2>4, <2>5, <2>6, <2>7, <2>8
\* The rest has what it needs.
<1>13. \A i \in 1..l : m + 1 + i \in DOMAIN pending' /\ pending'[m + 1 + i] = rest[i]
  BY <1>1, <1>5
<1>14. Complete'
  <2>1. \E j \in DOMAIN pending' : pending'[j].op \in {"list", "unlist"}
    <3>1. 1 \in 1..l
      <4>1. l # 0
        BY <1>1, <1>4, EmptySeq DEF l
      <4> QED BY <1>1, <4>1
    <3> QED BY <1>1, <1>4, <1>13, <3>1
  <2>2. ASSUME NEW i \in DOMAIN pending', pending'[i].op = "list"
        PROVE  \E j \in DOMAIN pending' : pending'[j].op = "associate"
    <3>1. i - (m + 1) \in DOMAIN rest /\ pending'[i] = rest[i - (m + 1)]
      BY <1>1, <1>5, <1>6, <1>7, <1>8, <2>2
    <3>2. PICK j \in DOMAIN pending : pending[j].op = "associate"
      BY <1>1, <1>3, <2>2, <3>1 DEF Complete
    <3>3. j - 1 \in DOMAIN rest /\ rest[j - 1] = pending[j]
      BY <1>1, <3>2 DEF r
    <3> QED BY <1>1, <1>13, <3>2, <3>3
  <2>3. ASSUME NEW i \in DOMAIN pending'
        PROVE  /\ pending'[i].op = "unsub" =>
                    \E j \in DOMAIN pending' : pending'[j].op = "forget"
               /\ pending'[i].op \in {"remove", "forget"} =>
                    \E j \in DOMAIN pending' : pending'[j].op \in {"list", "unlist"}
               /\ pending'[i].op = "list" =>
                    \E j \in DOMAIN pending' : pending'[j].op = "associate"
    BY <1>5, <1>8, <1>9, <2>1, <2>2
  <2> QED BY <2>3 DEF Complete
<1>15. AtTheirPlace'
  <2>1. listed[r.net][IdOf[r.node]] = r.node
    BY <1>1, <1>3 DEF AtTheirPlace, r
  <2>2. home[r.node] = h /\ h # NoNet
    BY DEF h, r
  <2>3. ASSUME NEW i \in DOMAIN pending'
        PROVE  /\ pending'[i].op \in {"unsub", "sub"} => home[pending'[i].node] = pending'[i].net
               /\ pending'[i].op # "sub"
               /\ pending'[i].op \in {"remove", "forget"} =>
                    listed[pending'[i].net][IdOf[pending'[i].node]] = pending'[i].node
               /\ pending'[i].op = "forget" => home[pending'[i].node] # NoNet
    <3>1. CASE i \in 1..m /\ pending'[i] = each[i]
      <4>1. each[i].op = "unsub" /\ each[i].net = h /\ each[i].node = r.node
        BY <1>6, <3>1
      <4>2. PICK a : a = pending'[i] /\ a.op = "unsub" /\ a.net = h /\ a.node = r.node
        BY <3>1, <4>1, Zenon
      <4> HIDE DEF h, r
      <4>3. home[a.node] = a.net
        BY <2>2, <4>2, Zenon
      <4> QED BY <4>2, <4>3
    <3>2. CASE i = m + 1
      BY <1>8, <2>1, <2>2, <3>2
    <3>3. CASE i - (m + 1) \in DOMAIN rest /\ pending'[i] = rest[i - (m + 1)]
      BY <1>4, <3>3
    <3> QED BY <1>7, <3>1, <3>2, <3>3
  <2> QED BY <2>3 DEF AtTheirPlace
\* Before the call began to leave, the node was heard at home.
<1>16. \A net \in Nets, n \in Nodes : home[n] = net =>
         \A svc \in ToSet(ServicesOf(n)) : Has(net, n, svc) \/ CutOff(net, n)
  <2>1. \A i \in DOMAIN pending : pending[i].op \notin {"sub", "forget"}
    BY <1>1, <1>4 DEF r
  <2> QED BY <1>3, <2>1 DEF ListenInv, HomeIsHeard, ToDo, Leaving
<1>17. ListenInv'
  <2>1. ListensAtHome'
    BY <1>3, SameListeners DEF ListenInv, ListensAtHome
  <2>2. HomeIsHeard'
    BY <1>16, SameListeners DEF HomeIsHeard
  <2>3. ASSUME NEW n, Leaving(n)' PROVE n = r.node
    <3>1. PICK i \in DOMAIN pending' : pending'[i].op = "forget" /\ pending'[i].node = n
      BY <2>3 DEF Leaving
    <3>2. CASE i \in 1..m /\ pending'[i] = each[i]
      BY <1>6, <3>1, <3>2
    <3>3. CASE i - (m + 1) \in DOMAIN rest /\ pending'[i] = rest[i - (m + 1)]
      BY <1>4, <3>1, <3>3
    <3> QED BY <1>7, <1>8, <3>1, <3>2, <3>3
  <2>4. ASSUME NEW svc \in ToSet(ServicesOf(r.node))
        PROVE  \E i \in DOMAIN pending' :
                 /\ pending'[i].op = "unsub" /\ pending'[i].net = h
                 /\ pending'[i].node = r.node /\ pending'[i].svc = svc
    <3>1. PICK i \in 1..m : each[i].svc = svc
      BY <1>6
    <3>2. i \in DOMAIN pending' /\ pending'[i] = each[i]
      BY <1>5, <1>9
    <3> QED BY <1>6, <3>1, <3>2
  <2>5. LeavingIsUndone'
    <3> SUFFICES ASSUME NEW net \in Nets, NEW n \in Nodes, Leaving(n)', home[n] = net,
                        NEW svc \in Heard, Has(net, n, svc)
                 PROVE  ToDo("unsub", net, n, svc)'
      BY SameListeners DEF LeavingIsUndone
    <3>1. n = r.node /\ net = h
      BY <2>3 DEF h
    <3>2. svc \in ToSet(ServicesOf(n))
      BY <1>3 DEF ListenInv, ListensAtHome
    <3> QED BY <2>4, <3>1, <3>2 DEF ToDo
  <2>6. UndoneIsThere'
    <3> SUFFICES ASSUME NEW i \in DOMAIN pending', pending'[i].op = "unsub"
                 PROVE  \/ Has(pending'[i].net, pending'[i].node, pending'[i].svc)
                        \/ CutOff(pending'[i].net, pending'[i].node)
      BY SameListeners DEF UndoneIsThere
    <3>1. i \in 1..m /\ pending'[i] = each[i]
      BY <1>1, <1>4, <1>5, <1>7, <1>8
    <3>2. home[r.node] = h
      BY DEF h
    <3> QED BY <1>2, <1>6, <1>16, <3>1, <3>2
  <2> QED BY <2>1, <2>2, <2>5, <2>6 DEF ListenInv
<1>18. ListingInv'
  <2>1. pending'[1].op = "unsub"
    BY <1>5, <1>6
  <2>2. HomeLists' /\ UnderItsId'
    BY <1>3 DEF ListingInv, HomeLists, UnderItsId
  <2>3. \A net \in Nets, n \in Nodes \ strays : listed[net][IdOf[n]] = n => home[n] = net
    BY <1>3 DEF ListingInv, ListedIsHome, Changing, r
  <2>4. ListedIsHome' /\ PlaceIsFree' /\ ListedFirst'
    BY <2>1, <2>3 DEF ListedIsHome, PlaceIsFree, ListedFirst
  <2> QED BY <2>2, <2>4 DEF ListingInv
<1> QED BY <1>11, <1>12, <1>14, <1>15, <1>17, <1>18 DEF CallInv, ProgramInv

\* A subscription makes one callback heard, and its end makes one unheard.
LEMMA SubscribedIsHeard ==
  ASSUME NetTypes, NoDoubles, NEW net \in Nets, NEW n \in Nodes,
         NEW svc \in Heard \cup {"pdo"},
         Subscribe(net, Subscription(n, svc).can, Subscription(n, svc).cb)
  PROVE  \A net2 \in Nets, n2 \in Nodes, svc2 \in Heard \cup {"pdo"} :
           Has(net2, n2, svc2)' <=> \/ Has(net2, n2, svc2)
                                    \/ net2 = net /\ n2 = n /\ svc2 = svc
<1> DEFINE can == Subscription(n, svc).can
           cb == Callback(n, svc)
           old == subscribers[net][can]
           new == IF Contains(old, cb) THEN old ELSE Append(old, cb)
<1>1. can \in CanIds /\ cb \in Callbacks /\ Subscription(n, svc).cb = cb
  BY SubscriptionIsTyped
<1>2. subscribers' = [subscribers EXCEPT ![net][can] = new]
  BY <1>1 DEF Subscribe
<1>3. old \in Seq(Callbacks) /\ IsInjective(old)
  BY <1>1 DEF NetTypes, NoDoubles
<1>4. \A c : Contains(new, c) <=> Contains(old, c) \/ c = cb
  BY <1>1, <1>3, AppendedContains
<1>5. \A net2 \in Nets, can2 \in CanIds :
        subscribers'[net2][can2] =
          IF net2 = net /\ can2 = can THEN new ELSE subscribers[net2][can2]
  BY <1>1, <1>2 DEF NetTypes
<1> SUFFICES ASSUME NEW net2 \in Nets, NEW n2 \in Nodes, NEW svc2 \in Heard \cup {"pdo"}
             PROVE  Has(net2, n2, svc2)' <=> \/ Has(net2, n2, svc2)
                                             \/ net2 = net /\ n2 = n /\ svc2 = svc
  OBVIOUS
<1> DEFINE can2 == Subscription(n2, svc2).can
           cb2 == Callback(n2, svc2)
<1>6. can2 \in CanIds
  BY SubscriptionIsTyped
<1>7. cb2 = cb <=> n2 = n /\ svc2 = svc
  BY DEF Callback
<1>8. cb2 = cb => can2 = can
  BY <1>7
<1>9. Has(net2, n2, svc2) <=> Contains(subscribers[net2][can2], cb2)
  BY DEF Has
<1>10. Has(net2, n2, svc2)' <=> Contains(subscribers'[net2][can2], cb2)
  BY DEF Has, Subscription, Callback
<1> HIDE DEF can, cb, new, can2, cb2
<1> QED BY <1>4, <1>5, <1>6, <1>7, <1>8, <1>9, <1>10 DEF old

LEMMA UnsubscribedIsUnheard ==
  ASSUME NetTypes, NoDoubles, NEW net \in Nets, NEW n \in Nodes,
         NEW svc \in Heard \cup {"pdo"}, Has(net, n, svc),
         Unsubscribe(net, Subscription(n, svc).can, Subscription(n, svc).cb)
  PROVE  \A net2 \in Nets, n2 \in Nodes, svc2 \in Heard \cup {"pdo"} :
           Has(net2, n2, svc2)' <=> /\ Has(net2, n2, svc2)
                                    /\ ~(net2 = net /\ n2 = n /\ svc2 = svc)
<1> DEFINE can == Subscription(n, svc).can
           cb == Callback(n, svc)
           old == subscribers[net][can]
           new == RemoveFirst(old, cb)
<1>1. can \in CanIds /\ cb \in Callbacks /\ Subscription(n, svc).cb = cb
  BY SubscriptionIsTyped
<1>2. subscribers' = [subscribers EXCEPT ![net][can] = new]
  BY <1>1 DEF Unsubscribe
<1>3. old \in Seq(Callbacks) /\ IsInjective(old) /\ Contains(old, cb)
  BY <1>1 DEF NetTypes, NoDoubles, Has
<1>4. \A c : Contains(new, c) <=> Contains(old, c) /\ c # cb
  <2> HIDE DEF old, cb
  <2> QED BY <1>1, <1>3, RemovedContains
<1>5. \A net2 \in Nets, can2 \in CanIds :
        subscribers'[net2][can2] =
          IF net2 = net /\ can2 = can THEN new ELSE subscribers[net2][can2]
  BY <1>1, <1>2 DEF NetTypes
<1> SUFFICES ASSUME NEW net2 \in Nets, NEW n2 \in Nodes, NEW svc2 \in Heard \cup {"pdo"}
             PROVE  Has(net2, n2, svc2)' <=> /\ Has(net2, n2, svc2)
                                             /\ ~(net2 = net /\ n2 = n /\ svc2 = svc)
  OBVIOUS
<1> DEFINE can2 == Subscription(n2, svc2).can
           cb2 == Callback(n2, svc2)
<1>6. can2 \in CanIds
  BY SubscriptionIsTyped
<1>7. cb2 = cb <=> n2 = n /\ svc2 = svc
  BY DEF Callback
<1>8. cb2 = cb => can2 = can
  BY <1>7
<1>9. Has(net2, n2, svc2) <=> Contains(subscribers[net2][can2], cb2)
  BY DEF Has
<1>10. Has(net2, n2, svc2)' <=> Contains(subscribers'[net2][can2], cb2)
  BY DEF Has, Subscription, Callback
<1> HIDE DEF can, cb, new, can2, cb2
<1> QED BY <1>4, <1>5, <1>6, <1>7, <1>8, <1>9, <1>10 DEF old

\* The next callback of a node that leaves is unsubscribed.
LEMMA LeavingGoesOn ==
  ASSUME NetTypes, NoDoubles, NodeTypes, CallInv, ~Idle, pending[1].op = "unsub",
         Has(pending[1].net, pending[1].node, pending[1].svc),
         Unsubscribe(pending[1].net, Subscription(pending[1].node, pending[1].svc).can,
                     Subscription(pending[1].node, pending[1].svc).cb),
         pending' = Tail(pending), UNCHANGED <<listed, home, extra, strays, cut>>
  PROVE  NodeTypes' /\ CallInv'
<1> DEFINE i == pending[1]
           rest == Tail(pending)
<1>1. /\ i \in Instructions /\ 1 \in DOMAIN pending
      /\ DOMAIN pending = 1..Len(pending) /\ Len(pending) \in Nat
      /\ \A j \in DOMAIN rest : j + 1 \in DOMAIN pending /\ rest[j] = pending[j + 1]
      /\ \A j \in DOMAIN rest : rest[j] \in Instructions
  BY NextInstruction
<1>2. /\ InOrder /\ Complete /\ AtTheirPlace /\ ListenInv /\ ListingInv
  BY DEF CallInv, ProgramInv
<1> PICK who : who = i.node
  OBVIOUS
<1>3. i.net \in Nets /\ i.node \in Nodes /\ i.svc \in Heard \cup {"pdo"} /\ home[i.node] = i.net
  BY <1>1, <1>2 DEF Instructions, NodeTypes, AtTheirPlace
<1>4. NodeTypes' /\ InOrder' /\ Complete'
  BY <1>2, RestIsOrdered DEF NodeTypes
<1>5. \A net \in Nets, n \in Nodes, svc \in Heard \cup {"pdo"} :
        Has(net, n, svc)' <=> /\ Has(net, n, svc)
                              /\ ~(net = i.net /\ n = i.node /\ svc = i.svc)
  <2> HIDE DEF i
  <2> QED BY <1>3, UnsubscribedIsUnheard DEF i
<1>6. \A j \in DOMAIN rest : Follows(i, rest[j])
  <2> SUFFICES ASSUME NEW j \in DOMAIN rest PROVE Follows(i, rest[j])
    OBVIOUS
  <2>1. j + 1 \in DOMAIN pending /\ rest[j] = pending[j + 1] /\ 1 < j + 1
    BY <1>1
  <2> QED BY <1>1, <1>2, <2>1 DEF InOrder
<1>7. \A n : ServicesOf(n)' = ServicesOf(n) /\ \A net : CutOff(net, n)' <=> CutOff(net, n)
  BY SameServices
<1>8. AtTheirPlace'
  BY <1>1, <1>2, <1>7 DEF AtTheirPlace
<1>9. Leaving(who)' /\ \A n : Leaving(n)' <=> Leaving(n)
  <2>1. PICK j \in DOMAIN pending : pending[j].op = "forget"
    BY <1>1, <1>2 DEF Complete
  <2>2. Follows(i, pending[j])
    <3>1. 1 < j
      BY <1>1, <2>1
    <3> QED BY <1>1, <1>2, <3>1 DEF InOrder
  <2>3. Leaving(who)
    BY <2>1, <2>2 DEF Leaving, Follows
  <2> QED BY <2>3, RestToDo
<1>10. ListensAtHome'
  BY <1>2, <1>5, <1>7 DEF ListenInv, ListensAtHome
<1>11. \A op, net, n, svc : /\ ToDo(op, net, n, svc) /\ op = "sub" => ToDo(op, net, n, svc)'
                            /\ ToDo(op, net, n, svc) =>
                                 \/ ToDo(op, net, n, svc)'
                                 \/ net = i.net /\ n = i.node /\ svc = i.svc
  BY RestToDo
<1>12. HomeIsHeard'
  <2> SUFFICES ASSUME NEW net \in Nets, NEW n \in Nodes, home[n] = net,
                      NEW svc \in ToSet(ServicesOf(n))
               PROVE  \/ Has(net, n, svc)' \/ CutOff(net, n)
                      \/ ToDo("sub", net, n, svc)' \/ Leaving(n)'
    BY <1>7 DEF HomeIsHeard
  <2>1. svc \in Heard
    BY ServicesAre DEF Heard
  <2>2. Has(net, n, svc) \/ CutOff(net, n) \/ ToDo("sub", net, n, svc) \/ Leaving(n)
    BY <1>2 DEF ListenInv, HomeIsHeard
  <2>3. CASE net = i.net /\ n = i.node /\ svc = i.svc
    BY <1>9, <2>3
  <2>4. CASE ~(net = i.net /\ n = i.node /\ svc = i.svc)
    BY <1>5, <1>9, <1>11, <2>1, <2>2, <2>4
  <2> QED BY <2>3, <2>4
<1>13. LeavingIsUndone'
  <2> SUFFICES ASSUME NEW net \in Nets, NEW n \in Nodes, Leaving(n)', home[n] = net,
                      NEW svc \in Heard, Has(net, n, svc)'
               PROVE  ToDo("unsub", net, n, svc)'
    BY DEF LeavingIsUndone
  <2>1. ToDo("unsub", net, n, svc)
    BY <1>2, <1>5, <1>9 DEF ListenInv, LeavingIsUndone
  <2> QED BY <1>5, <1>11, <2>1
<1>14. UndoneIsThere'
  <2> SUFFICES ASSUME NEW j \in DOMAIN rest, NEW net, NEW n, NEW svc,
                      rest[j].op = "unsub", net = rest[j].net, n = rest[j].node,
                      svc = rest[j].svc
               PROVE  Has(net, n, svc)' \/ CutOff(net, n)'
    BY Zenon DEF UndoneIsThere
  <2>1. Has(net, n, svc) \/ CutOff(net, n)
    BY <1>1, <1>2 DEF ListenInv, UndoneIsThere
  <2>2. net \in Nets /\ n \in Nodes /\ svc \in Heard \cup {"pdo"} /\ svc # i.svc
    <3>1. j + 1 \in DOMAIN pending /\ rest[j] = pending[j + 1]
      BY <1>1
    <3>2. rest[j].svc # "none"
      BY <3>1 DEF NodeTypes
    <3> QED BY <1>1, <1>6, <3>2 DEF Instructions, Follows
  <2> QED BY <1>5, <1>7, <2>1, <2>2
<1>15. \A net \in Nets, n \in Nodes \ strays : listed[net][IdOf[n]] = n => home[n] = net
  BY <1>2 DEF ListingInv, ListedIsHome, Changing
<1>16. pending'[1].op \in {"unsub", "forget"}
  <2>1. PICK j \in DOMAIN pending : pending[j].op = "forget"
    BY <1>1, <1>2 DEF Complete
  <2>2. /\ 1 < j /\ 2 \in DOMAIN pending /\ pending'[1] = pending[2] /\ 1 \in DOMAIN rest
    BY <1>1, <2>1, NextInstruction
  <2>3. j = 2 \/ Follows(pending[2], pending[j])
    BY <1>1, <1>2, <2>2 DEF InOrder
  <2>4. Follows(i, pending[2])
    BY <1>6, <2>2
  <2> QED BY <2>1, <2>2, <2>3, <2>4 DEF Follows
<1>17. ListingInv'
  <2>1. HomeLists' /\ UnderItsId'
    BY <1>2 DEF ListingInv, HomeLists, UnderItsId
  <2>2. ListedIsHome' /\ PlaceIsFree' /\ ListedFirst'
    BY <1>15, <1>16 DEF ListedIsHome, PlaceIsFree, ListedFirst
  <2> QED BY <2>1, <2>2 DEF ListingInv
<1> QED
  BY <1>4, <1>8, <1>10, <1>12, <1>13, <1>14, <1>17 DEF CallInv, ProgramInv, ListenInv

\* A call that ends leaves nothing to do.
LEMMA NothingLeft ==
  ASSUME pending' = <<>>
  PROVE  /\ pending' \in Seq(Instructions) /\ ProgramInv'
         /\ \A op, net, n, svc : ~ToDo(op, net, n, svc)'
         /\ \A n : ~Leaving(n)'
         /\ LeavingIsUndone' /\ UndoneIsThere' /\ PlaceIsFree' /\ ListedFirst'
<1>1. DOMAIN pending' = {}
  OBVIOUS
<1>2. ProgramInv'
  BY <1>1 DEF ProgramInv, InOrder, Complete, AtTheirPlace
<1>3. \A op, net, n, svc : ~ToDo(op, net, n, svc)'
  BY <1>1 DEF ToDo
<1>4. \A n : ~Leaving(n)'
  BY <1>1 DEF Leaving
<1>5. LeavingIsUndone' /\ UndoneIsThere'
  BY <1>1, <1>4 DEF LeavingIsUndone, UndoneIsThere
<1>6. PlaceIsFree' /\ ListedFirst'
  BY DEF PlaceIsFree, ListedFirst, Idle
<1> QED BY <1>2, <1>3, <1>4, <1>5, <1>6

\* What follows the next instruction of a call in order.
LEMMA NextIsFollowed ==
  ASSUME NodeTypes, ~Idle, InOrder
  PROVE  /\ \A j \in DOMAIN pending : j # 1 => Follows(pending[1], pending[j])
         /\ \A j \in DOMAIN Tail(pending) : Follows(pending[1], Tail(pending)[j])
<1>1. /\ 1 \in DOMAIN pending /\ DOMAIN pending = 1..Len(pending) /\ Len(pending) \in Nat
      /\ \A j \in DOMAIN Tail(pending) :
           j + 1 \in DOMAIN pending /\ Tail(pending)[j] = pending[j + 1]
      /\ DOMAIN Tail(pending) = 1..Len(pending) - 1
  BY NextInstruction
<1>2. \A j \in DOMAIN pending : j # 1 => Follows(pending[1], pending[j])
  BY <1>1 DEF InOrder
<1>3. \A j \in DOMAIN Tail(pending) : j + 1 # 1
  BY <1>1
<1> QED BY <1>1, <1>2, <1>3

\* unsubscribe raises: somebody cut the node off before.
LEMMA LeavingFails ==
  ASSUME NodeTypes, CallInv, ~Idle, NEW net \in Nets, NEW n \in Nodes,
         pending[1].op = "unsub", pending[1].net = net, pending[1].node = n,
         ~Has(net, n, pending[1].svc), pending' = <<>>,
         UNCHANGED <<subscribers, listed, home, extra, strays, cut>>
  PROVE  NodeTypes' /\ CallInv'
<1>1. /\ InOrder /\ AtTheirPlace /\ ListenInv /\ ListingInv /\ 1 \in DOMAIN pending
  BY NextInstruction DEF CallInv, ProgramInv
<1>2. /\ \A j \in DOMAIN pending : pending[j].op # "sub"
      /\ \A j \in DOMAIN pending : pending[j].op = "forget" => pending[j].node = n
  BY <1>1, NextIsFollowed DEF Follows
<1>3. NodeTypes' /\ ProgramInv'
  BY NothingLeft DEF NodeTypes
<1>4. HomeIsHeard'
  <2> SUFFICES ASSUME NEW net2 \in Nets, NEW n2 \in Nodes, home[n2] = net2,
                      NEW svc \in ToSet(ServicesOf(n2))
               PROVE  Has(net2, n2, svc) \/ CutOff(net2, n2)
    BY SameListeners DEF HomeIsHeard
  <2>1. Has(net2, n2, svc) \/ CutOff(net2, n2) \/ Leaving(n2)
    BY <1>1, <1>2 DEF ListenInv, HomeIsHeard, ToDo
  <2>2. CASE Leaving(n2)
    <3>1. n2 = n /\ net2 = net
      BY <1>1, <1>2, <2>2 DEF Leaving, AtTheirPlace
    <3>2. CutOff(net, n)
      BY <1>1 DEF ListenInv, UndoneIsThere
    <3> QED BY <3>1, <3>2
  <2> QED BY <2>1, <2>2
<1>5. ListensAtHome'
  BY <1>1, SameListeners DEF ListenInv, ListensAtHome
<1>6. HomeLists' /\ UnderItsId'
  BY <1>1 DEF ListingInv, HomeLists, UnderItsId
<1>7. ListedIsHome'
  BY <1>1 DEF ListingInv, ListedIsHome, Changing
<1> QED
  BY <1>3, <1>4, <1>5, <1>6, <1>7, NothingLeft DEF CallInv, ListenInv, ListingInv

\* The node forgets its network, when nothing of it is heard any more.
LEMMA ForgetKeeps ==
  ASSUME NodeTypes, CallInv, ~Idle, NEW net \in Nets, NEW n \in Nodes,
         pending[1].op = "forget", pending[1].net = net, pending[1].node = n,
         pending' = Tail(pending), home' = [home EXCEPT ![n] = NoNet],
         UNCHANGED <<subscribers, listed, extra, strays, cut>>
  PROVE  NodeTypes' /\ CallInv'
<1>1. /\ InOrder /\ Complete /\ AtTheirPlace /\ ListenInv /\ ListingInv
      /\ 1 \in DOMAIN pending
  BY NextInstruction DEF CallInv, ProgramInv
<1>2. /\ home \in [Nodes -> Nets \cup {NoNet}] /\ NoNet \notin Nets
      /\ home' \in [Nodes -> Nets \cup {NoNet}]
      /\ \A n2 \in Nodes : home'[n2] = IF n2 = n THEN NoNet ELSE home[n2]
  BY NetworkAssumption DEF NodeTypes
<1>3. NodeTypes' /\ InOrder' /\ Complete'
  BY <1>1, <1>2, RestIsOrdered DEF NodeTypes
<1>4. /\ pending' # <<>> /\ pending'[1].op \in {"list", "unlist"} /\ pending'[1].net = net
      /\ IdOf[pending'[1].node] = IdOf[n]
      /\ \A j \in DOMAIN pending' : pending'[j].op \in {"list", "unlist", "associate"}
  BY <1>1, RemovalThenPlace
<1>5. /\ listed[net][IdOf[n]] = n /\ Leaving(n)
      /\ \A j \in DOMAIN pending :
           j # 1 => pending[j].op \in {"list", "unlist", "associate"}
  BY <1>1, NextIsFollowed DEF AtTheirPlace, Follows, Leaving
<1>6. AtTheirPlace'
  BY <1>4 DEF AtTheirPlace
<1>7. /\ \A net2, n2, svc : ~ToDo("sub", net2, n2, svc) /\ ~ToDo("unsub", net2, n2, svc)
      /\ \A n2 : Leaving(n2) => n2 = n
      /\ \A n2 : ~Leaving(n2)'
  BY <1>4, <1>5 DEF ToDo, Leaving
<1>8. ListensAtHome'
  <2> SUFFICES ASSUME NEW net2 \in Nets, NEW n2 \in Nodes, NEW svc \in Heard,
                      Has(net2, n2, svc)
               PROVE  home'[n2] = net2 /\ svc \in ToSet(ServicesOf(n2))
    BY SameListeners DEF ListensAtHome
  <2>1. home[n2] = net2 /\ svc \in ToSet(ServicesOf(n2))
    BY <1>1 DEF ListenInv, ListensAtHome
  <2>2. n2 # n
    BY <1>1, <1>5, <1>7, <2>1 DEF ListenInv, LeavingIsUndone
  <2> QED BY <1>2, <2>1, <2>2
<1>9. HomeIsHeard'
  <2> SUFFICES ASSUME NEW net2 \in Nets, NEW n2 \in Nodes, home'[n2] = net2,
                      NEW svc \in ToSet(ServicesOf(n2))
               PROVE  Has(net2, n2, svc) \/ CutOff(net2, n2)
    BY SameListeners DEF HomeIsHeard
  <2> QED BY <1>1, <1>2, <1>7 DEF ListenInv, HomeIsHeard
<1>10. LeavingIsUndone' /\ UndoneIsThere'
  BY <1>4, <1>7 DEF LeavingIsUndone, UndoneIsThere
<1>11. HomeLists' /\ UnderItsId'
  BY <1>1, <1>2 DEF ListingInv, HomeLists, UnderItsId
<1>12. \A net2 \in Nets, n2 \in Nodes \ strays : listed[net2][IdOf[n2]] = n2 => home[n2] = net2
  BY <1>1 DEF ListingInv, ListedIsHome, Changing
<1>13. ListedIsHome'
  <2> SUFFICES ASSUME NEW net2 \in Nets, NEW n2 \in Nodes \ strays, listed[net2][IdOf[n2]] = n2
               PROVE  home'[n2] = net2 \/ Changing(net2, n2)'
    BY DEF ListedIsHome
  <2>1. CASE n2 # n
    BY <1>2, <1>12, <2>1
  <2>2. CASE n2 = n
    <3>1. net2 = net
      BY <1>5, <1>12, <2>2
    <3> QED BY <1>2, <1>4, <2>2, <3>1 DEF Changing, Idle
  <2> QED BY <2>1, <2>2
<1>14. PlaceIsFree' /\ ListedFirst'
  BY <1>2, <1>4, <1>5 DEF PlaceIsFree, ListedFirst
<1> QED
  BY <1>3, <1>6, <1>8, <1>9, <1>10, <1>11, <1>13, <1>14
  DEF CallInv, ProgramInv, ListenInv, ListingInv

\* The network lists the node, whose place is free.
LEMMA ListKeeps ==
  ASSUME NodeTypes, CallInv, ~Idle, NEW net \in Nets, NEW n \in Nodes,
         pending[1].op = "list", pending[1].net = net, pending[1].node = n,
         pending' = Tail(pending), listed' = [listed EXCEPT ![net][IdOf[n]] = n],
         UNCHANGED <<subscribers, home, extra, strays, cut>>
  PROVE  NodeTypes' /\ CallInv'
<1>1. /\ InOrder /\ Complete /\ ListenInv /\ ListingInv
      /\ 1 \in DOMAIN pending /\ DOMAIN pending = 1..Len(pending) /\ Len(pending) \in Nat
      /\ \A j \in DOMAIN pending : j # 1 => j - 1 \in DOMAIN pending' /\ pending'[j - 1] = pending[j]
      /\ \A j \in DOMAIN pending' : j + 1 \in DOMAIN pending /\ pending'[j] = pending[j + 1]
      /\ DOMAIN pending' = 1..Len(pending) - 1
  BY NextInstruction DEF CallInv, ProgramInv
<1>2. \A id : IdOf[n] \in Ids /\ (id \in Nodes => IdOf[id] \in Ids)
  BY NodesAssumption
<1>3. /\ listed' \in [Nets -> [Ids -> Nodes \cup {NoNet}]]
      /\ \A net2 \in Nets, id \in Ids :
           listed'[net2][id] = IF net2 = net /\ id = IdOf[n] THEN n ELSE listed[net2][id]
  BY <1>2 DEF NodeTypes
<1>4. NodeTypes' /\ InOrder' /\ Complete'
  BY <1>1, <1>3, RestIsOrdered DEF NodeTypes
<1>5. /\ \A j \in DOMAIN pending :
           j # 1 => /\ pending[j].op = "associate"
                    /\ pending[j].net = net /\ pending[j].node = n
      /\ \A j \in DOMAIN pending' :
           /\ pending'[j].op = "associate" /\ pending'[j].net = net /\ pending'[j].node = n
  BY <1>1, NextIsFollowed DEF Follows
<1>6. pending' # <<>> /\ 1 \in DOMAIN pending'
  <2>1. PICK j \in DOMAIN pending : pending[j].op = "associate"
    BY <1>1 DEF Complete
  <2>2. j - 1 \in DOMAIN pending'
    BY <1>1, <2>1
  <2>3. 1 \in DOMAIN pending'
    BY <1>1, <2>2
  <2>4. pending' = <<>> => DOMAIN pending' = {}
    OBVIOUS
  <2> QED BY <2>3, <2>4
<1>7. AtTheirPlace'
  BY <1>5 DEF AtTheirPlace
<1>8. ListenInv'
  <2>1. /\ \A net2, n2, svc : ToDo("sub", net2, n2, svc) => ToDo("sub", net2, n2, svc)'
        /\ \A net2, n2, svc : ToDo("unsub", net2, n2, svc) => ToDo("unsub", net2, n2, svc)'
        /\ \A n2 : Leaving(n2)' <=> Leaving(n2)
    BY RestToDo
  <2> QED BY <1>1, <2>1, ListenFrame
<1>9. \A n2 \in Nodes \ strays : listed[net][IdOf[n]] = n2 => home[n2] # net
  BY <1>1 DEF ListingInv, PlaceIsFree
<1>10. HomeLists'
  <2> SUFFICES ASSUME NEW net2 \in Nets, NEW n2 \in Nodes \ strays, home[n2] = net2
               PROVE  listed'[net2][IdOf[n2]] = n2
    BY DEF HomeLists
  <2>1. listed[net2][IdOf[n2]] = n2
    BY <1>1 DEF ListingInv, HomeLists
  <2> QED BY <1>2, <1>3, <1>9, <2>1
<1>11. ListedIsHome'
  <2> SUFFICES ASSUME NEW net2 \in Nets, NEW n2 \in Nodes \ strays, listed'[net2][IdOf[n2]] = n2
               PROVE  home[n2] = net2 \/ Changing(net2, n2)'
    BY DEF ListedIsHome
  <2>1. CASE net2 = net /\ IdOf[n2] = IdOf[n]
    <3>1. n2 = n
      BY <1>2, <1>3, <2>1
    <3> QED BY <1>5, <1>6, <2>1, <3>1 DEF Changing, Idle
  <2>2. CASE ~(net2 = net /\ IdOf[n2] = IdOf[n])
    <3>1. listed[net2][IdOf[n2]] = n2
      BY <1>2, <1>3, <2>2
    <3>2. home[n2] = net2 \/ Changing(net2, n2)
      BY <1>1, <3>1 DEF ListingInv, ListedIsHome
    <3> QED BY <2>2, <3>2 DEF Changing
  <2> QED BY <2>1, <2>2
<1>12. PlaceIsFree' /\ ListedFirst'
  BY <1>2, <1>3, <1>5, <1>6 DEF PlaceIsFree, ListedFirst
<1>13. UnderItsId'
  BY <1>1, <1>2, <1>3 DEF ListingInv, UnderItsId
<1> QED
  BY <1>4, <1>7, <1>8, <1>10, <1>11, <1>12, <1>13 DEF CallInv, ProgramInv, ListingInv

LEMMA EmptyInterval == \A l \in Nat : 1..l = {} => l = 0
<1> SUFFICES ASSUME NEW l \in Nat, l # 0 PROVE 1..l # {}
  OBVIOUS
<1>1. 1 \in 1..l
  OBVIOUS
<1> QED BY <1>1

\* A call ends with the instructions that are followed by none.
LEMMA LastInstruction ==
  ASSUME NodeTypes, ~Idle, InOrder, pending[1].op \in {"unlist", "associate"}
  PROVE  Tail(pending) = <<>>
<1> PICK p : p = Tail(pending)
  OBVIOUS
<1>1. p \in Seq(Instructions)
  BY NextInstruction
<1>2. DOMAIN p = {}
  BY NextIsFollowed DEF Follows
<1>3. Len(p) \in Nat /\ DOMAIN p = 1..Len(p)
  BY <1>1, LenProperties
<1>4. Len(p) = 0
  BY <1>2, <1>3, EmptyInterval
<1>5. \A q \in Seq(Instructions) : Len(q) = 0 => q = <<>>
  BY EmptySeq
<1> QED BY <1>1, <1>4, <1>5

\* The network lists nobody in the place any more.
LEMMA UnlistKeeps ==
  ASSUME NodeTypes, CallInv, ~Idle, NEW net \in Nets, NEW n \in Nodes,
         pending[1].op = "unlist", pending[1].net = net, pending[1].node = n,
         pending' = Tail(pending), listed' = [listed EXCEPT ![net][IdOf[n]] = NoNet],
         UNCHANGED <<subscribers, home, extra, strays, cut>>
  PROVE  NodeTypes' /\ CallInv'
<1>1. InOrder /\ Complete /\ ListenInv /\ ListingInv /\ 1 \in DOMAIN pending
  BY NextInstruction DEF CallInv, ProgramInv
<1>2. \A id : IdOf[n] \in Ids /\ (id \in Nodes => IdOf[id] \in Ids) /\ NoNet \notin Nodes
  BY NodesAssumption, NetworkAssumption
<1>3. /\ listed' \in [Nets -> [Ids -> Nodes \cup {NoNet}]]
      /\ \A net2 \in Nets, id \in Ids :
           listed'[net2][id] = IF net2 = net /\ id = IdOf[n] THEN NoNet ELSE listed[net2][id]
  BY <1>2 DEF NodeTypes
<1>4. pending' = <<>>
  BY <1>1, LastInstruction
<1>5. NodeTypes' /\ ProgramInv'
  BY <1>3, <1>4, NothingLeft DEF NodeTypes
<1>6. ListenInv'
  <2>1. /\ \A net2, n2, svc : ToDo("sub", net2, n2, svc) => ToDo("sub", net2, n2, svc)'
        /\ \A net2, n2, svc : ToDo("unsub", net2, n2, svc) => ToDo("unsub", net2, n2, svc)'
        /\ \A n2 : Leaving(n2)' <=> Leaving(n2)
    BY RestToDo
  <2>2. \A j \in DOMAIN pending' : FALSE
    BY <1>4
  <2> QED BY <1>1, <2>1, <2>2, ListenFrame
<1>7. \A n2 \in Nodes \ strays : listed[net][IdOf[n]] = n2 => home[n2] # net
  BY <1>1 DEF ListingInv, PlaceIsFree
<1>8. HomeLists'
  <2> SUFFICES ASSUME NEW net2 \in Nets, NEW n2 \in Nodes \ strays, home[n2] = net2
               PROVE  listed'[net2][IdOf[n2]] = n2
    BY DEF HomeLists
  <2>1. listed[net2][IdOf[n2]] = n2
    BY <1>1 DEF ListingInv, HomeLists
  <2> QED BY <1>2, <1>3, <1>7, <2>1
<1>9. ListedIsHome'
  <2> SUFFICES ASSUME NEW net2 \in Nets, NEW n2 \in Nodes \ strays, listed'[net2][IdOf[n2]] = n2
               PROVE  home[n2] = net2
    BY DEF ListedIsHome
  <2>1. ~(net2 = net /\ IdOf[n2] = IdOf[n]) /\ listed[net2][IdOf[n2]] = n2
    BY <1>2, <1>3
  <2>2. home[n2] = net2 \/ Changing(net2, n2)
    BY <1>1, <2>1 DEF ListingInv, ListedIsHome
  <2> QED BY <2>1, <2>2 DEF Changing
<1>10. UnderItsId'
  BY <1>1, <1>2, <1>3 DEF ListingInv, UnderItsId
<1> QED
  BY <1>4, <1>5, <1>6, <1>8, <1>9, <1>10, NothingLeft DEF CallInv, ListingInv

\* associate_network: the node is at home and begins to listen.
LEMMA AssociateBegins ==
  ASSUME NodeTypes, CallInv, ~Idle, NEW net \in Nets, NEW n \in Nodes,
         pending[1].op = "associate", pending[1].net = net, pending[1].node = n,
         home[n] = NoNet, home' = [home EXCEPT ![n] = net],
         pending' = ForEachService("sub", net, n),
         UNCHANGED <<subscribers, listed, extra, strays, cut>>
  PROVE  NodeTypes' /\ CallInv'
<1>1. /\ InOrder /\ AtTheirPlace /\ ListenInv /\ ListingInv /\ 1 \in DOMAIN pending
  BY NextInstruction DEF CallInv, ProgramInv
<1>2. /\ home \in [Nodes -> Nets \cup {NoNet}] /\ NoNet \notin Nets
      /\ home' \in [Nodes -> Nets \cup {NoNet}]
      /\ \A n2 \in Nodes : home'[n2] = IF n2 = n THEN net ELSE home[n2]
  BY NetworkAssumption DEF NodeTypes
<1>3. /\ pending' \in Seq(Instructions) /\ DOMAIN pending' = 1..Len(ServicesOf(n))
      /\ Len(ServicesOf(n)) \in Nat \ {0}
      /\ \A i \in DOMAIN pending' :
           /\ pending'[i].op = "sub" /\ pending'[i].net = net /\ pending'[i].node = n
           /\ pending'[i].svc \in ToSet(ServicesOf(n)) /\ pending'[i].svc \in Heard
      /\ \A svc \in ToSet(ServicesOf(n)) : \E i \in DOMAIN pending' : pending'[i].svc = svc
  <2> DEFINE p == ForEachService("sub", net, n)
  <2>1. /\ DOMAIN p = 1..Len(ServicesOf(n)) /\ p \in Seq(Instructions)
        /\ \A i \in DOMAIN p :
             p[i] = [op |-> "sub", net |-> net, node |-> n, svc |-> ServicesOf(n)[i]]
        /\ \A i \in DOMAIN p : p[i].svc \in Heard /\ p[i].svc \in ToSet(ServicesOf(n))
        /\ \A svc \in ToSet(ServicesOf(n)) : \E i \in DOMAIN p : p[i].svc = svc
    BY EachServiceIs
  <2>2. pending' = p
    OBVIOUS
  <2> HIDE DEF p
  <2> QED BY <2>1, <2>2, ServicesAre
<1>4. NodeTypes'
  <2>1. \A i \in DOMAIN pending' :
          pending'[i].op \in {"unsub", "sub"} => pending'[i].svc # "none"
    BY <1>3 DEF Heard
  <2> QED BY <1>2, <1>3, <2>1 DEF NodeTypes
<1>5. ProgramInv'
  <2>1. InOrder' /\ Complete'
    BY <1>3 DEF InOrder, Complete, Follows
  <2>2. \A n2 : ServicesOf(n2)' = ServicesOf(n2)
    BY SameServices
  <2>3. AtTheirPlace'
    BY <1>2, <1>3, <2>2 DEF AtTheirPlace
  <2> QED BY <2>1, <2>3 DEF ProgramInv
<1>6. \A j \in DOMAIN pending : pending[j].op = "associate"
  BY <1>1, NextIsFollowed DEF Follows
<1>7. ListensAtHome'
  <2> SUFFICES ASSUME NEW net2 \in Nets, NEW n2 \in Nodes, NEW svc \in Heard,
                      Has(net2, n2, svc)
               PROVE  home'[n2] = net2 /\ svc \in ToSet(ServicesOf(n2))
    BY SameListeners DEF ListensAtHome
  <2> QED BY <1>1, <1>2 DEF ListenInv, ListensAtHome
<1>8. HomeIsHeard'
  <2> SUFFICES ASSUME NEW net2 \in Nets, NEW n2 \in Nodes, home'[n2] = net2,
                      NEW svc \in ToSet(ServicesOf(n2))
               PROVE  Has(net2, n2, svc) \/ CutOff(net2, n2) \/ ToDo("sub", net2, n2, svc)'
    BY SameListeners DEF HomeIsHeard
  <2>1. CASE n2 = n
    <3>1. PICK i \in DOMAIN pending' : pending'[i].svc = svc
      BY <1>3, <2>1
    <3> QED BY <1>2, <1>3, <2>1, <3>1 DEF ToDo
  <2>2. CASE n2 # n
    BY <1>1, <1>2, <1>6, <2>2 DEF ListenInv, HomeIsHeard, ToDo, Leaving
  <2> QED BY <2>1, <2>2
<1>9. LeavingIsUndone' /\ UndoneIsThere'
  BY <1>3 DEF LeavingIsUndone, UndoneIsThere, Leaving
<1>10. listed[net][IdOf[n]] = n
  BY <1>1 DEF ListingInv, ListedFirst
<1>11. HomeLists' /\ UnderItsId'
  BY <1>1, <1>2, <1>10 DEF ListingInv, HomeLists, UnderItsId
<1>12. ListedIsHome'
  <2> SUFFICES ASSUME NEW net2 \in Nets, NEW n2 \in Nodes \ strays, listed[net2][IdOf[n2]] = n2
               PROVE  home'[n2] = net2
    BY DEF ListedIsHome
  <2>1. home[n2] = net2 \/ Changing(net2, n2)
    BY <1>1 DEF ListingInv, ListedIsHome
  <2> QED BY <1>2, <2>1 DEF Changing
<1>13. PlaceIsFree' /\ ListedFirst'
  <2>1. 1 \in DOMAIN pending'
    BY <1>3
  <2>2. pending'[1].op = "sub"
    BY <1>3, <2>1
  <2> QED BY <2>2 DEF PlaceIsFree, ListedFirst
<1> QED
  BY <1>4, <1>5, <1>7, <1>8, <1>9, <1>11, <1>12, <1>13
  DEF CallInv, ListenInv, ListingInv

\* associate_network refuses a node that has a network: it is a stray now.
LEMMA AssociateRefuses ==
  ASSUME NodeTypes, CallInv, ~Idle, NEW net \in Nets, NEW n \in Nodes,
         pending[1].op = "associate", pending[1].net = net, pending[1].node = n,
         pending' = <<>>, strays' = strays \cup {n},
         UNCHANGED <<subscribers, listed, home, extra, cut>>
  PROVE  NodeTypes' /\ CallInv'
<1>1. InOrder /\ ListenInv /\ ListingInv /\ 1 \in DOMAIN pending
  BY NextInstruction DEF CallInv, ProgramInv
<1>2. NodeTypes' /\ ProgramInv'
  BY NothingLeft DEF NodeTypes
<1>3. \A j \in DOMAIN pending : pending[j].op = "associate"
  BY <1>1, NextIsFollowed DEF Follows
<1>4. ListenInv'
  <2>1. /\ \A net2, n2, svc : ~ToDo("sub", net2, n2, svc) /\ ~ToDo("unsub", net2, n2, svc)
        /\ \A n2 : ~Leaving(n2)
    BY <1>3 DEF ToDo, Leaving
  <2>2. \A j \in DOMAIN pending' : FALSE
    OBVIOUS
  <2> QED BY <1>1, <2>1, <2>2, ListenFrame, NothingLeft
<1>5. HomeLists' /\ UnderItsId'
  BY <1>1 DEF ListingInv, HomeLists, UnderItsId
<1>6. ListedIsHome'
  BY <1>1 DEF ListingInv, ListedIsHome, Changing
<1> QED BY <1>2, <1>4, <1>5, <1>6, NothingLeft DEF CallInv, ListingInv

\* The next service of a node that is at home listens.
LEMMA SubKeeps ==
  ASSUME NetTypes, NoDoubles, NodeTypes, CallInv, ~Idle, NEW net \in Nets, NEW n \in Nodes,
         NEW svc \in Heard \cup {"pdo"},
         pending[1].op = "sub", pending[1].net = net, pending[1].node = n,
         pending[1].svc = svc,
         Subscribe(net, Subscription(n, svc).can, Subscription(n, svc).cb),
         pending' = Tail(pending), UNCHANGED <<listed, home, extra, strays, cut>>
  PROVE  NodeTypes' /\ CallInv'
<1>1. /\ InOrder /\ Complete /\ AtTheirPlace /\ ListenInv /\ ListingInv /\ 1 \in DOMAIN pending
      /\ \A j \in DOMAIN pending' : j + 1 \in DOMAIN pending /\ pending'[j] = pending[j + 1]
  BY NextInstruction DEF CallInv, ProgramInv
<1>2. NodeTypes' /\ InOrder' /\ Complete'
  BY <1>1, RestIsOrdered DEF NodeTypes
<1>3. /\ \A j \in DOMAIN pending : pending[j].op = "sub"
      /\ \A j \in DOMAIN pending' : pending'[j].op = "sub"
  BY <1>1, NextIsFollowed DEF Follows
<1>4. home[n] = net /\ svc \in ToSet(ServicesOf(n)) \cup {"pdo"}
  BY <1>1 DEF AtTheirPlace
<1>5. \A n2 : ServicesOf(n2)' = ServicesOf(n2) /\ \A net2 : CutOff(net2, n2)' <=> CutOff(net2, n2)
  BY SameServices
<1>6. AtTheirPlace'
  BY <1>1, <1>3, <1>5 DEF AtTheirPlace
<1>7. \A net2 \in Nets, n2 \in Nodes, svc2 \in Heard \cup {"pdo"} :
        Has(net2, n2, svc2)' <=> \/ Has(net2, n2, svc2)
                                 \/ net2 = net /\ n2 = n /\ svc2 = svc
  BY SubscribedIsHeard
<1>8. ListensAtHome'
  <2>1. "pdo" \notin Heard
    BY DEF Heard
  <2> QED BY <1>1, <1>4, <1>5, <1>7, <2>1 DEF ListenInv, ListensAtHome
<1>9. HomeIsHeard'
  <2> SUFFICES ASSUME NEW net2 \in Nets, NEW n2 \in Nodes, home[n2] = net2,
                      NEW svc2 \in ToSet(ServicesOf(n2))
               PROVE  Has(net2, n2, svc2)' \/ CutOff(net2, n2) \/ ToDo("sub", net2, n2, svc2)'
    BY <1>5 DEF HomeIsHeard
  <2>1. svc2 \in Heard
    BY ServicesAre DEF Heard
  <2>2. Has(net2, n2, svc2) \/ CutOff(net2, n2) \/ ToDo("sub", net2, n2, svc2)
    BY <1>1, <1>3 DEF ListenInv, HomeIsHeard, Leaving
  <2>3. ToDo("sub", net2, n2, svc2) =>
          ToDo("sub", net2, n2, svc2)' \/ (net2 = net /\ n2 = n /\ svc2 = svc)
    BY RestToDo
  <2> QED BY <1>7, <2>1, <2>2, <2>3
<1>10. LeavingIsUndone' /\ UndoneIsThere'
  BY <1>3 DEF LeavingIsUndone, UndoneIsThere, Leaving
<1>11. HomeLists' /\ UnderItsId'
  BY <1>1 DEF ListingInv, HomeLists, UnderItsId
<1>12. ListedIsHome'
  BY <1>1 DEF ListingInv, ListedIsHome, Changing
<1>13. PlaceIsFree' /\ ListedFirst'
  <2>1. ~Idle' => 1 \in DOMAIN pending'
    <3> SUFFICES ASSUME pending' # <<>> PROVE 1 \in DOMAIN pending'
      BY DEF Idle
    <3>1. pending' \in Seq(Instructions)
      BY NextInstruction
    <3> PICK p : p = pending'
      OBVIOUS
    <3>2. \A q \in Seq(Instructions) : q # <<>> => Len(q) \in Nat \ {0} /\ DOMAIN q = 1..Len(q)
      BY EmptySeq, LenProperties
    <3> QED BY <3>1, <3>2
  <2> QED BY <1>3, <2>1 DEF PlaceIsFree, ListedFirst
<1> QED
  BY <1>2, <1>6, <1>8, <1>9, <1>10, <1>11, <1>12, <1>13
  DEF CallInv, ProgramInv, ListenInv, ListingInv

-----------------------------------------------------------------------------
\* The application calls.

\* The instructions of add_node, when the place in the list is taken or free.
AddCall(old, net, n) ==
  (IF old = NoNet THEN <<>> ELSE <<Do("remove", net, old, "none")>>)
  \o <<Do("list", net, n, "none"), Do("associate", net, n, "none")>>

LEMMA AddCallIs ==
  ASSUME NEW net \in Nets, NEW n \in Nodes, NEW old \in Nodes \cup {NoNet}
  PROVE  LET p == AddCall(old, net, n)
             list == [op |-> "list", net |-> net, node |-> n, svc |-> "none"]
             assoc == [op |-> "associate", net |-> net, node |-> n, svc |-> "none"]
         IN
         /\ p \in Seq(Instructions)
         /\ old = NoNet => DOMAIN p = 1..2 /\ p[1] = list /\ p[2] = assoc
         /\ old # NoNet =>
              /\ DOMAIN p = 1..3 /\ p[2] = list /\ p[3] = assoc
              /\ p[1] = [op |-> "remove", net |-> net, node |-> old, svc |-> "none"]
<1> DEFINE list == [op |-> "list", net |-> net, node |-> n, svc |-> "none"]
           assoc == [op |-> "associate", net |-> net, node |-> n, svc |-> "none"]
           remove == [op |-> "remove", net |-> net, node |-> old, svc |-> "none"]
<1>1. /\ Do("list", net, n, "none") = list /\ Do("associate", net, n, "none") = assoc
      /\ Do("remove", net, old, "none") = remove
  BY DEF Do
<1>2. list \in Instructions /\ assoc \in Instructions /\ (old # NoNet => remove \in Instructions)
  BY DEF Instructions
<1> HIDE DEF list, assoc, remove
<1> PICK a, b : a = <<>> /\ b = <<list, assoc>>
  OBVIOUS
<1> PICK c : c = <<remove>>
  OBVIOUS
<1>3. /\ a \in Seq(Instructions) /\ Len(a) = 0
      /\ b \in Seq(Instructions) /\ Len(b) = 2 /\ b[1] = list /\ b[2] = assoc
      /\ old # NoNet => c \in Seq(Instructions) /\ Len(c) = 1 /\ c[1] = remove
  BY <1>2
<1>4. CASE old = NoNet
  <2>1. AddCall(old, net, n) = a \o b
    BY <1>1, <1>4 DEF AddCall
  <2>2. /\ a \o b \in Seq(Instructions) /\ Len(a \o b) = 2
        /\ \A i \in 1..2 : (a \o b)[i] = IF i <= 0 THEN a[i] ELSE b[i - 0]
    BY <1>3, ConcatProperties
  <2>3. (a \o b)[1] = list /\ (a \o b)[2] = assoc
    BY <1>3, <2>2
  <2>4. DOMAIN (a \o b) = 1..2
    BY <2>2, LenProperties
  <2> QED BY <1>4, <2>1, <2>2, <2>3, <2>4 DEF list, assoc
<1>5. CASE old # NoNet
  <2>1. AddCall(old, net, n) = c \o b
    BY <1>1, <1>5 DEF AddCall
  <2>2. /\ c \o b \in Seq(Instructions) /\ Len(c \o b) = 3
        /\ \A i \in 1..3 : (c \o b)[i] = IF i <= 1 THEN c[i] ELSE b[i - 1]
    BY <1>3, <1>5, ConcatProperties
  <2>3. (c \o b)[1] = remove /\ (c \o b)[2] = list /\ (c \o b)[3] = assoc
    BY <1>3, <1>5, <2>2
  <2>4. DOMAIN (c \o b) = 1..3
    BY <2>2, LenProperties
  <2> QED BY <1>5, <2>1, <2>2, <2>3, <2>4 DEF list, assoc, remove
<1> QED BY <1>4, <1>5

\* Between two calls there is nothing to do, and all are where they belong.
LEMMA IdleIsAtHome ==
  ASSUME CallInv, Idle
  PROVE  /\ \A op, net, n, svc : ~ToDo(op, net, n, svc)
         /\ \A n : ~Leaving(n)
         /\ \A net \in Nets, n \in Nodes \ strays :
              listed[net][IdOf[n]] = n <=> home[n] = net
<1>1. DOMAIN pending = {}
  BY DEF Idle
<1>2. \A net, n : ~Changing(net, n)
  BY DEF Changing
<1> QED
  BY <1>1, <1>2 DEF ToDo, Leaving, CallInv, ListingInv, HomeLists, ListedIsHome

\* A call that begins with neither a subscription to drop nor a node to leave.
LEMMA ListenBegins ==
  ASSUME CallInv, Idle, UNCHANGED <<subscribers, home, extra, cut>>,
         \A i \in DOMAIN pending' : pending'[i].op \notin {"unsub", "forget"}
  PROVE  ListenInv'
<1>1. \A n : ~Leaving(n)'
  BY DEF Leaving
<1> QED BY <1>1, IdleIsAtHome, ListenFrame DEF CallInv

\* network[id] = node
LEMMA AddKeeps ==
  ASSUME NodeTypes, CallInv, Idle, NEW net \in Nets, NEW n \in Nodes,
         pending' = AddCall(listed[net][IdOf[n]], net, n),
         UNCHANGED <<subscribers, listed, home, extra, strays, cut>>
  PROVE  NodeTypes' /\ CallInv'
<1> PICK old : old = listed[net][IdOf[n]]
  OBVIOUS
<1>1. IdOf[n] \in Ids /\ old \in Nodes \cup {NoNet} /\ NoNet \notin Nodes
  <2>1. IdOf[n] \in Ids
    BY NodesAssumption
  <2>2. old \in Nodes \cup {NoNet}
    BY <2>1 DEF NodeTypes
  <2> QED BY <2>1, <2>2, NetworkAssumption
<1>2. old # NoNet => IdOf[old] = IdOf[n]
  BY <1>1 DEF CallInv, ListingInv, UnderItsId
<1>3. /\ pending' \in Seq(Instructions)
      /\ old = NoNet =>
           /\ DOMAIN pending' = 1..2
           /\ pending'[1] = [op |-> "list", net |-> net, node |-> n, svc |-> "none"]
           /\ pending'[2] = [op |-> "associate", net |-> net, node |-> n, svc |-> "none"]
      /\ old # NoNet =>
           /\ DOMAIN pending' = 1..3
           /\ pending'[1] = [op |-> "remove", net |-> net, node |-> old, svc |-> "none"]
           /\ pending'[2] = [op |-> "list", net |-> net, node |-> n, svc |-> "none"]
           /\ pending'[3] = [op |-> "associate", net |-> net, node |-> n, svc |-> "none"]
  <2>1. pending' = AddCall(old, net, n)
    OBVIOUS
  <2> QED BY <1>1, <2>1, AddCallIs
<1>4. \A i \in DOMAIN pending' :
        /\ pending'[i].op \in {"remove", "list", "associate"}
        /\ pending'[i].op = "remove" =>
             i = 1 /\ old # NoNet /\ pending'[i].net = net /\ pending'[i].node = old
  <2>1. CASE old = NoNet
    BY <1>3, <2>1
  <2>2. CASE old # NoNet
    BY <1>3, <2>2
  <2> QED BY <2>1, <2>2
<1>5. NodeTypes'
  BY <1>3, <1>4 DEF NodeTypes
<1>6. InOrder'
  <2>1. CASE old = NoNet
    BY <1>3, <2>1 DEF InOrder, Follows
  <2>2. CASE old # NoNet
    BY <1>2, <1>3, <2>2 DEF InOrder, Follows
  <2> QED BY <2>1, <2>2
<1>7. Complete'
  <2>1. CASE old = NoNet
    <3>1. 2 \in DOMAIN pending'
      BY <1>3, <2>1
    <3> QED BY <1>3, <1>4, <2>1, <3>1 DEF Complete
  <2>2. CASE old # NoNet
    <3>1. 2 \in DOMAIN pending' /\ 3 \in DOMAIN pending'
      BY <1>3, <2>2
    <3> QED BY <1>3, <1>4, <2>2, <3>1 DEF Complete
  <2> QED BY <2>1, <2>2
<1>8. AtTheirPlace'
  <2> SUFFICES ASSUME NEW i \in DOMAIN pending'
               PROVE  LET a == pending'[i] IN
                      /\ a.op \notin {"unsub", "sub", "forget"}
                      /\ a.op = "remove" => listed'[a.net][IdOf[a.node]] = a.node
    BY DEF AtTheirPlace
  <2>1. PICK a : a = pending'[i]
    OBVIOUS
  <2>2. /\ a.op \in {"remove", "list", "associate"}
        /\ a.op = "remove" => old # NoNet /\ a.net = net /\ a.node = old
    BY <1>4, <2>1, Zenon
  <2> QED BY <1>2, <2>1, <2>2
<1>9. ListenInv'
  BY <1>4, ListenBegins
<1>10. ListingInv'
  <2>1. HomeLists' /\ UnderItsId'
    BY DEF CallInv, ListingInv, HomeLists, UnderItsId
  <2>2. ListedIsHome'
    BY IdleIsAtHome DEF ListedIsHome
  <2>3. pending'[1].op # "associate" /\ pending'[1].op # "unlist"
    BY <1>3
  <2>4. PlaceIsFree' /\ ListedFirst'
    <3>1. CASE old = NoNet
      <4>1. pending'[1].net = net /\ pending'[1].node = n
        BY <1>3, <3>1
      <4>2. \A n2 \in Nodes : listed[net][IdOf[n]] # n2
        BY <1>1, <3>1
      <4> QED BY <2>3, <4>1, <4>2 DEF PlaceIsFree, ListedFirst
    <3>2. CASE old # NoNet
      <4>1. pending'[1].op = "remove"
        BY <1>3, <3>2
      <4> QED BY <4>1 DEF PlaceIsFree, ListedFirst
    <3> QED BY <3>1, <3>2
  <2> QED BY <2>1, <2>2, <2>4 DEF ListingInv
<1> QED BY <1>5, <1>6, <1>7, <1>8, <1>9, <1>10 DEF CallInv, ProgramInv

\* del network[id]
LEMMA DeleteKeeps ==
  ASSUME NodeTypes, CallInv, Idle, NEW net \in Nets, NEW n \in Nodes, Delete(net, n),
         UNCHANGED <<subscribers, listed, home, extra, strays, cut>>
  PROVE  NodeTypes' /\ CallInv'
<1> DEFINE remove == [op |-> "remove", net |-> net, node |-> n, svc |-> "none"]
           unlist == [op |-> "unlist", net |-> net, node |-> n, svc |-> "none"]
<1>1. remove \in Instructions /\ unlist \in Instructions
  BY DEF Instructions
<1>2. listed[net][IdOf[n]] = n /\ pending' = <<remove, unlist>>
  BY DEF Delete, Do
<1>3. /\ pending' \in Seq(Instructions) /\ DOMAIN pending' = 1..2
      /\ pending'[1] = remove /\ pending'[2] = unlist
  <2> HIDE DEF remove, unlist
  <2> QED BY <1>1, <1>2
<1>4. \A i \in DOMAIN pending' :
        /\ pending'[i].op \in {"remove", "unlist"}
        /\ pending'[i].net = net /\ pending'[i].node = n
  BY <1>3
<1>5. NodeTypes'
  BY <1>3, <1>4 DEF NodeTypes
<1>6. ProgramInv'
  <2>1. InOrder'
    BY <1>3 DEF InOrder, Follows
  <2>2. Complete'
    <3>1. 2 \in DOMAIN pending' /\ pending'[2].op = "unlist"
      BY <1>3
    <3> QED BY <1>4, <3>1 DEF Complete
  <2>3. AtTheirPlace'
    BY <1>2, <1>4 DEF AtTheirPlace
  <2> QED BY <2>1, <2>2, <2>3 DEF ProgramInv
<1>7. ListenInv'
  BY <1>4, ListenBegins
<1>8. ListingInv'
  <2>1. HomeLists' /\ UnderItsId'
    BY DEF CallInv, ListingInv, HomeLists, UnderItsId
  <2>2. ListedIsHome'
    BY IdleIsAtHome DEF ListedIsHome
  <2>3. pending'[1].op = "remove"
    BY <1>3
  <2> QED BY <2>1, <2>2, <2>3 DEF ListingInv, PlaceIsFree, ListedFirst
<1> QED BY <1>5, <1>6, <1>7, <1>8 DEF CallInv

\* One subscription of a node that is at home.
LEMMA OneSub ==
  ASSUME NEW net \in Nets, NEW n \in Nodes, NEW svc \in Heard \cup {"pdo"},
         pending' = <<Do("sub", net, n, svc)>>
  PROVE  /\ pending' \in Seq(Instructions) /\ DOMAIN pending' = {1}
         /\ pending'[1] = [op |-> "sub", net |-> net, node |-> n, svc |-> svc]
<1> DEFINE sub == [op |-> "sub", net |-> net, node |-> n, svc |-> svc]
<1>1. sub \in Instructions /\ Do("sub", net, n, svc) = sub
  BY DEF Instructions, Do
<1>2. pending' = <<sub>>
  BY <1>1
<1> HIDE DEF sub
<1>3. pending' \in Seq(Instructions) /\ DOMAIN pending' = {1} /\ pending'[1] = sub
  BY <1>1, <1>2
<1> QED BY <1>3 DEF sub

\* PdoMap.subscribe
LEMMA SubscribePdoKeeps ==
  ASSUME NodeTypes, CallInv, NEW n \in Nodes, SubscribePdo(n)
  PROVE  NodeTypes' /\ CallInv'
<1>1. /\ Idle /\ home[n] # NoNet /\ pending' = <<Do("sub", home[n], n, "pdo")>>
      /\ UNCHANGED <<subscribers, listed, home, extra, strays, cut>>
  BY DEF SubscribePdo, netVars
<1>2. home[n] \in Nets
  BY <1>1 DEF NodeTypes
<1>3. /\ pending' \in Seq(Instructions) /\ DOMAIN pending' = {1}
      /\ pending'[1] = [op |-> "sub", net |-> home[n], node |-> n, svc |-> "pdo"]
  BY <1>1, <1>2, OneSub
<1>4. NodeTypes'
  BY <1>1, <1>3 DEF NodeTypes
<1>5. ProgramInv'
  BY <1>1, <1>3 DEF ProgramInv, InOrder, Complete, AtTheirPlace
<1>6. ListenInv'
  BY <1>1, <1>3, ListenBegins
<1>7. ListingInv'
  <2>1. HomeLists' /\ UnderItsId'
    BY <1>1 DEF CallInv, ListingInv, HomeLists, UnderItsId
  <2>2. ListedIsHome'
    BY <1>1, IdleIsAtHome DEF ListedIsHome
  <2> QED BY <1>3, <2>1, <2>2 DEF ListingInv, PlaceIsFree, ListedFirst
<1> QED BY <1>4, <1>5, <1>6, <1>7 DEF CallInv

ServicesListed ==
  \A n : ToSet(ServicesOf(n)) =
           IF n \in Local THEN {"request", "command"}
           ELSE {"response", "heartbeat", "emcy", "command"} \cup
                (IF n \in extra THEN {"extra"} ELSE {})

LEMMA ServicesAreListed == ServicesListed
BY ServicesAre DEF ServicesListed

LEMMA ServicesStayListed == ServicesListed'
BY ServicesAreListed, PTL

\* RemoteNode.add_sdo: the node has one more service.
LEMMA AddSdoKeeps ==
  ASSUME NodeTypes, CallInv, NEW n \in Nodes, AddSdo(n)
  PROVE  NodeTypes' /\ CallInv'
<1>1. /\ Idle /\ n \in (Nodes \ Local) \ extra /\ extra' = extra \cup {n}
      /\ pending' = IF home[n] = NoNet THEN <<>> ELSE <<Do("sub", home[n], n, "extra")>>
      /\ UNCHANGED <<subscribers, listed, home, strays, cut>>
  BY DEF AddSdo, netVars
<1>2. ListenInv /\ ListingInv
  BY DEF CallInv
<1>3. /\ \A n2, svc : svc \in ToSet(ServicesOf(n2))' <=>
                        svc \in ToSet(ServicesOf(n2)) \/ (n2 = n /\ svc = "extra")
      /\ \A net2, n2, svc : Has(net2, n2, svc)' <=> Has(net2, n2, svc)
  <2>1. ServicesListed /\ ServicesListed'
    BY ServicesAreListed, ServicesStayListed
  <2>2. ASSUME NEW n2, NEW svc
        PROVE  svc \in ToSet(ServicesOf(n2))' <=>
                 svc \in ToSet(ServicesOf(n2)) \/ (n2 = n /\ svc = "extra")
    BY <1>1, <2>1 DEF ServicesListed
  <2>3. UNCHANGED subscribers
    BY <1>1
  <2>4. \A net2, n2, svc : Has(net2, n2, svc)' <=> Has(net2, n2, svc)
    BY <2>3 DEF Has, Subscription
  <2> QED BY <2>2, <2>4
<1>4. \A net2, n2 : CutOff(net2, n2) => CutOff(net2, n2)'
  BY <1>1, <1>3 DEF CutOff, Subscription
<1>5. home[n] # NoNet => home[n] \in Nets
  BY DEF NodeTypes
<1>6. /\ pending' \in Seq(Instructions)
      /\ \A i \in DOMAIN pending' :
           i = 1 /\ pending'[i] = [op |-> "sub", net |-> home[n], node |-> n, svc |-> "extra"]
      /\ home[n] # NoNet => 1 \in DOMAIN pending'
  <2>1. CASE home[n] = NoNet
    BY <1>1, <2>1
  <2>2. CASE home[n] # NoNet
    <3>1. "extra" \in Heard \cup {"pdo"}
      BY DEF Heard
    <3> QED BY <1>1, <1>5, <2>2, <3>1, OneSub
  <2> QED BY <2>1, <2>2
<1>7. NodeTypes'
  BY <1>1, <1>6 DEF NodeTypes
<1>8. ProgramInv'
  <2>1. ASSUME NEW i \in DOMAIN pending'
        PROVE  i = 1 /\ pending'[i].op = "sub"
    BY <1>6
  <2>2. InOrder'
    BY <2>1 DEF InOrder
  <2>3. Complete'
    BY <2>1 DEF Complete
  <2>4. ASSUME NEW i \in DOMAIN pending'
        PROVE  /\ pending'[i].node = n /\ home'[n] = pending'[i].net
               /\ pending'[i].svc \in ToSet(ServicesOf(n))'
    <3>1. PICK a : /\ a = pending'[i]
                   /\ a = [op |-> "sub", net |-> home[n], node |-> n, svc |-> "extra"]
      BY <1>6, <2>4, Zenon
    <3>2. a.node = n /\ a.net = home[n] /\ a.svc = "extra"
      BY <3>1
    <3>3. home'[n] = home[n] /\ "extra" \in ToSet(ServicesOf(n))'
      BY <1>1, <1>3
    <3> QED BY <3>1, <3>2, <3>3, Zenon
  <2>5. AtTheirPlace'
    BY <2>1, <2>4 DEF AtTheirPlace
  <2> QED BY <2>2, <2>3, <2>5 DEF ProgramInv
<1>9. ListensAtHome'
  BY <1>1, <1>2, <1>3 DEF ListenInv, ListensAtHome
<1>10. HomeIsHeard'
  <2> SUFFICES ASSUME NEW net2 \in Nets, NEW n2 \in Nodes, home[n2] = net2, NEW svc,
                      svc \in ToSet(ServicesOf(n2))'
               PROVE  \/ Has(net2, n2, svc)' \/ CutOff(net2, n2)'
                      \/ ToDo("sub", net2, n2, svc)'
    BY <1>1 DEF HomeIsHeard
  <2>1. CASE svc \in ToSet(ServicesOf(n2))
    BY <1>1, <1>2, <1>3, <1>4, <2>1, IdleIsAtHome DEF ListenInv, HomeIsHeard
  <2>2. CASE n2 = n /\ svc = "extra"
    <3>1. home[n] # NoNet
      BY <2>2, NetworkAssumption
    <3> QED BY <1>6, <2>2, <3>1 DEF ToDo
  <2> QED BY <1>3, <2>1, <2>2
<1>11. LeavingIsUndone' /\ UndoneIsThere'
  BY <1>6 DEF LeavingIsUndone, UndoneIsThere, Leaving
<1>12. ListingInv'
  <2>1. HomeLists' /\ UnderItsId'
    BY <1>1, <1>2 DEF ListingInv, HomeLists, UnderItsId
  <2>2. ListedIsHome'
    BY <1>1, IdleIsAtHome DEF ListedIsHome
  <2>3. PlaceIsFree' /\ ListedFirst'
    BY <1>1, <1>6 DEF PlaceIsFree, ListedFirst, Idle
  <2> QED BY <2>1, <2>2, <2>3 DEF ListingInv
<1> QED BY <1>7, <1>8, <1>9, <1>10, <1>11, <1>12 DEF CallInv, ListenInv

\* The application cuts all listeners of a CAN ID off.
LEMMA CutKeeps ==
  ASSUME NetTypes, NodeTypes, CallInv, NEW net \in Nets, NEW can \in CanIds, Cut(net, can)
  PROVE  NodeTypes' /\ CallInv'
<1>1. /\ Idle /\ subscribers' = [subscribers EXCEPT ![net][can] = <<>>]
      /\ cut' = cut \cup {<<net, can>>}
      /\ UNCHANGED <<listed, home, extra, pending, strays>>
  BY DEF Cut, UnsubscribeAll
<1>2. ListenInv /\ ListingInv /\ ProgramInv
  BY DEF CallInv
<1>3. NodeTypes' /\ ProgramInv'
  <2>1. NodeTypes'
    BY <1>1 DEF NodeTypes
  <2>2. \A n : ServicesOf(n)' = ServicesOf(n)
    BY <1>1 DEF ServicesOf
  <2>3. ProgramInv'
    BY <1>1, <1>2, <2>2 DEF ProgramInv, InOrder, Complete, AtTheirPlace
  <2> QED BY <2>1, <2>3
<1>4. \A n : ServicesOf(n)' = ServicesOf(n)
  BY <1>1 DEF ServicesOf
<1>5. \A net2 \in Nets, can2 \in CanIds :
        subscribers'[net2][can2] =
          IF net2 = net /\ can2 = can THEN <<>> ELSE subscribers[net2][can2]
  BY <1>1 DEF NetTypes
<1>6. \A c : ~Contains(<<>>, c)
  BY DEF Contains
<1>7. ASSUME NEW net2 \in Nets, NEW n \in Nodes, NEW svc \in Heard
      PROVE  /\ Has(net2, n, svc)' => Has(net2, n, svc)
             /\ Has(net2, n, svc) => \/ Has(net2, n, svc)'
                                     \/ net2 = net /\ Subscription(n, svc).can = can
  <2>1. Subscription(n, svc).can \in CanIds
    BY SubscriptionIsTyped
  <2>2. Has(net2, n, svc)' <=>
          Contains(subscribers'[net2][Subscription(n, svc).can], Callback(n, svc))
    BY DEF Has, Subscription
  <2>3. Has(net2, n, svc) <=>
          Contains(subscribers[net2][Subscription(n, svc).can], Callback(n, svc))
    BY DEF Has
  <2> QED BY <1>5, <1>6, <2>1, <2>2, <2>3
<1>8. ListensAtHome'
  BY <1>1, <1>2, <1>4, <1>7 DEF ListenInv, ListensAtHome
<1>9. HomeIsHeard'
  <2> SUFFICES ASSUME NEW net2 \in Nets, NEW n \in Nodes, home[n] = net2,
                      NEW svc \in ToSet(ServicesOf(n))
               PROVE  Has(net2, n, svc)' \/ CutOff(net2, n)'
    BY <1>1, <1>4 DEF HomeIsHeard
  <2>1. svc \in Heard
    BY ServicesAre DEF Heard
  <2>2. Has(net2, n, svc) \/ CutOff(net2, n)
    BY <1>1, <1>2, IdleIsAtHome DEF ListenInv, HomeIsHeard
  <2>3. CutOff(net2, n) => CutOff(net2, n)'
    BY <1>1, <1>4 DEF CutOff, Subscription
  <2>4. net2 = net /\ Subscription(n, svc).can = can => CutOff(net2, n)'
    BY <1>1, <1>4 DEF CutOff, Subscription
  <2> QED BY <1>7, <2>1, <2>2, <2>3, <2>4
<1>10. LeavingIsUndone' /\ UndoneIsThere'
  BY <1>1 DEF LeavingIsUndone, UndoneIsThere, Leaving, Idle
<1>11. ListingInv'
  BY <1>1, <1>2
  DEF ListingInv, HomeLists, ListedIsHome, Changing, PlaceIsFree, ListedFirst, UnderItsId, Idle
<1> QED BY <1>3, <1>8, <1>9, <1>10, <1>11 DEF CallInv, ListenInv

\* What happens elsewhere does not concern the call.
LEMMA CallFrame ==
  ASSUME NodeTypes, CallInv, UNCHANGED subscribers,
         UNCHANGED <<listed, home, extra, pending, strays, cut>>
  PROVE  NodeTypes' /\ CallInv'
<1>1. ListenInv /\ ListingInv /\ ProgramInv
  BY DEF CallInv
<1>2. NodeTypes'
  BY DEF NodeTypes
<1>3. ProgramInv'
  BY <1>1, SameServices DEF ProgramInv, InOrder, Complete, AtTheirPlace
<1>4. ListenInv'
  BY <1>1, ListenFrame DEF ToDo, Leaving
<1>5. ListingInv'
  BY <1>1
  DEF ListingInv, HomeLists, ListedIsHome, Changing, PlaceIsFree, ListedFirst, UnderItsId, Idle
<1> QED BY <1>2, <1>3, <1>4, <1>5 DEF CallInv

\* An instruction of the call, whichever comes next.
LEMMA AppStepKeepsCalls ==
  ASSUME NetTypes, NoDoubles, NodeTypes, CallInv, AppStep
  PROVE  NodeTypes' /\ CallInv'
<1> PICK i, rest : i = pending[1] /\ rest = Tail(pending)
  OBVIOUS
<1> PICK op, net, n, svc : op = i.op /\ net = i.net /\ n = i.node /\ svc = i.svc
  OBVIOUS
<1>1. ~Idle /\ UNCHANGED <<extra, cut>>
  BY DEF AppStep
<1>2. i \in Instructions /\ i = Head(pending) /\ 1 \in DOMAIN pending
  BY <1>1, NextInstruction
<1>3. /\ net \in Nets /\ n \in Nodes
      /\ op \in {"sub", "unsub"} => svc \in Heard \cup {"pdo"}
  BY <1>2 DEF Instructions, NodeTypes
<1>4. InOrder
  BY DEF CallInv, ProgramInv
<1>5. \/ /\ op = "remove" /\ RemoveNetwork(i, rest)
         /\ UNCHANGED <<subscribers, walk, listed, home, strays>>
      \/ op = "unsub" /\ Unsub(i, rest) /\ UNCHANGED <<listed, home, strays>>
      \/ /\ op = "forget" /\ pending' = rest
         /\ home' = [home EXCEPT ![n] = NoNet]
         /\ UNCHANGED <<subscribers, walk, listed, strays>>
      \/ /\ op = "list" /\ SetListed(i, n) /\ pending' = rest
         /\ UNCHANGED <<subscribers, walk, home, strays>>
      \/ /\ op = "unlist" /\ SetListed(i, NoNet) /\ pending' = rest
         /\ UNCHANGED <<subscribers, walk, home, strays>>
      \/ op = "associate" /\ Associate(i, rest) /\ UNCHANGED <<subscribers, walk, listed>>
      \/ op = "sub" /\ Sub(i, rest) /\ UNCHANGED <<walk, listed, home, strays>>
  BY <1>2 DEF AppStep
<1>6. CASE /\ op = "remove" /\ RemoveNetwork(i, rest)
           /\ UNCHANGED <<subscribers, walk, listed, home, strays>>
  <2>1. CASE home[n] = NoNet
    <3>1. pending' = rest
      BY <1>6, <2>1 DEF RemoveNetwork
    <3> QED BY <1>1, <1>6, <2>1, <3>1, RemoveNothing
  <2>2. CASE home[n] # NoNet
    <3>1. pending' = LeavingCall(home[n], net, n, rest)
      BY <1>6, <2>2, Zenon DEF RemoveNetwork, LeavingCall
    <3> QED BY <1>1, <1>6, <2>2, <3>1, RemoveBegins
  <2> QED BY <2>1, <2>2
<1>7. CASE op = "unsub" /\ Unsub(i, rest) /\ UNCHANGED <<listed, home, strays>>
  <2> PICK s : s = Subscription(n, svc)
    OBVIOUS
  <2>1. Has(net, n, svc) <=> Contains(subscribers[net][s.can], s.cb)
    BY DEF Has, Subscription
  <2>2. CASE Contains(subscribers[net][s.can], s.cb)
    <3>1. Unsubscribe(net, s.can, s.cb) /\ pending' = rest
      BY <1>7, <2>2 DEF Unsub
    <3> QED BY <1>1, <1>7, <2>1, <2>2, <3>1, LeavingGoesOn
  <2>3. CASE ~Contains(subscribers[net][s.can], s.cb)
    <3>1. pending' = <<>> /\ UNCHANGED subscribers
      BY <1>7, <2>3 DEF Unsub
    <3> QED BY <1>1, <1>3, <1>7, <2>1, <2>3, <3>1, LeavingFails
  <2> QED BY <2>2, <2>3
<1>8. CASE /\ op = "forget" /\ pending' = rest
           /\ home' = [home EXCEPT ![n] = NoNet]
           /\ UNCHANGED <<subscribers, walk, listed, strays>>
  BY <1>1, <1>3, <1>8, ForgetKeeps
<1>9. CASE /\ op = "list" /\ SetListed(i, n) /\ pending' = rest
           /\ UNCHANGED <<subscribers, walk, home, strays>>
  <2>1. listed' = [listed EXCEPT ![net][IdOf[n]] = n]
    BY <1>9 DEF SetListed
  <2> QED BY <1>1, <1>3, <1>9, <2>1, ListKeeps
<1>10. CASE /\ op = "unlist" /\ SetListed(i, NoNet) /\ pending' = rest
            /\ UNCHANGED <<subscribers, walk, home, strays>>
  <2>1. listed' = [listed EXCEPT ![net][IdOf[n]] = NoNet]
    BY <1>10 DEF SetListed
  <2> QED BY <1>1, <1>3, <1>10, <2>1, UnlistKeeps
<1>11. CASE op = "associate" /\ Associate(i, rest) /\ UNCHANGED <<subscribers, walk, listed>>
  <2>1. CASE home[n] = NoNet
    <3> PICK p : p = ForEachService("sub", net, n)
      OBVIOUS
    <3>1. pending' = p \o rest /\ home' = [home EXCEPT ![n] = net] /\ UNCHANGED strays
      BY <1>11, <2>1 DEF Associate
    <3>2. rest = <<>>
      BY <1>1, <1>4, <1>11, LastInstruction
    <3>3. p \in Seq(Instructions)
      BY <1>3, EachServiceIs
    <3>4. pending' = p
      BY <3>1, <3>2, <3>3, ConcatEmptySeq
    <3> QED BY <1>1, <1>3, <1>11, <2>1, <3>1, <3>4, AssociateBegins
  <2>2. CASE home[n] # NoNet
    <3>1. pending' = <<>> /\ strays' = strays \cup {n} /\ UNCHANGED home
      BY <1>11, <2>2 DEF Associate
    <3> QED BY <1>1, <1>3, <1>11, <2>2, <3>1, AssociateRefuses
  <2> QED BY <2>1, <2>2
<1>12. CASE op = "sub" /\ Sub(i, rest) /\ UNCHANGED <<walk, listed, home, strays>>
  <2>1. /\ Subscribe(net, Subscription(n, svc).can, Subscription(n, svc).cb)
        /\ pending' = rest
    BY <1>12 DEF Sub
  <2> QED BY <1>1, <1>3, <1>12, <2>1, SubKeeps
<1> QED BY <1>5, <1>6, <1>7, <1>8, <1>9, <1>10, <1>11, <1>12

LEMMA CallStep ==
  NetTypes /\ NoDoubles /\ NodeTypes /\ CallInv /\ [Next]_vars => NodeTypes' /\ CallInv'
<1> SUFFICES ASSUME NetTypes, NoDoubles, NodeTypes, CallInv, [Next]_vars
             PROVE  NodeTypes' /\ CallInv'
  OBVIOUS
<1>1. ASSUME UNCHANGED subscribers, UNCHANGED nodeVars PROVE NodeTypes' /\ CallInv'
  BY <1>1, CallFrame DEF nodeVars
<1>2. ASSUME NEW net \in Nets, NEW n \in Nodes, StartCall(net, n)
      PROVE  NodeTypes' /\ CallInv'
  <2>1. /\ Idle /\ (Add(net, n) \/ Delete(net, n))
        /\ UNCHANGED <<subscribers, listed, home, extra, strays, cut>>
    BY <1>2 DEF StartCall, netVars
  <2>2. CASE Add(net, n)
    <3>1. pending' = AddCall(listed[net][IdOf[n]], net, n)
      BY <2>2, Zenon DEF Add, AddCall
    <3> QED BY <2>1, <3>1, AddKeeps
  <2>3. CASE Delete(net, n)
    BY <2>1, <2>3, DeleteKeeps
  <2> QED BY <2>1, <2>2, <2>3
<1>3. ASSUME NEW net \in Nets, NEW can \in FrameIds, Cut(net, can)
      PROVE  NodeTypes' /\ CallInv'
  BY <1>3, CutKeeps, NodesAssumption
<1>4. ASSUME NEW net \in Nets, ResetScanner(net) PROVE UNCHANGED subscribers /\ UNCHANGED nodeVars
  BY <1>4 DEF ResetScanner, Reset
<1>5. ASSUME NEW net \in Nets, Link(net) PROVE NodeTypes' /\ CallInv'
  <2>1. UNCHANGED subscribers
    BY <1>5 DEF Link, Connect, Disconnect, SyncStart, SyncStop, netVars
  <2>2. UNCHANGED <<listed, home, extra, pending, strays, cut>>
    BY <1>5 DEF Link
  <2> QED BY <2>1, <2>2, CallFrame
<1>6. ASSUME NEW net \in Nets, ThreadDies(net) PROVE NodeTypes' /\ CallInv'
  <2>1. UNCHANGED subscribers /\ UNCHANGED <<listed, home, extra, pending, strays, cut>>
    BY <1>6 DEF ThreadDies, NotifierDies, netVars
  <2> QED BY <2>1, CallFrame
<1>7. ASSUME NEW net \in Nets, NEW can \in FrameIds, NEW short \in BOOLEAN,
             Arrive(net, can, short)
      PROVE  UNCHANGED subscribers /\ UNCHANGED nodeVars
  BY <1>7 DEF Arrive, Receive
<1>8. ASSUME NEW net \in Nets, NotifierStep(net) PROVE UNCHANGED subscribers /\ UNCHANGED nodeVars
  BY <1>8 DEF NotifierStep, CallNext, EndWalk
<1>9. ASSUME UNCHANGED vars PROVE UNCHANGED subscribers /\ UNCHANGED nodeVars
  BY <1>9 DEF vars, netVars
<1> QED
  BY <1>1, <1>2, <1>3, <1>4, <1>5, <1>6, <1>7, <1>8, <1>9,
     AddSdoKeeps, SubscribePdoKeeps, AppStepKeepsCalls
  DEF Next

LEMMA CallInit == Init => NodeTypes /\ CallInv
<1> SUFFICES ASSUME Init PROVE NodeTypes /\ CallInv
  OBVIOUS
<1>1. /\ subscribers = [net \in Nets |-> [can \in CanIds |->
           IF can = LssAnswers THEN <<[owner |-> net, svc |-> "lss"]>> ELSE <<>>]]
      /\ listed = [net \in Nets |-> [id \in Ids |-> NoNet]]
      /\ home = [n \in Nodes |-> NoNet]
      /\ extra = {} /\ pending = <<>> /\ strays = {} /\ cut = {}
  BY DEF Init, NetworkInit
<1>2. NodeTypes
  BY <1>1 DEF NodeTypes
<1>3. ProgramInv /\ LeavingIsUndone /\ UndoneIsThere
  BY <1>1 DEF ProgramInv, InOrder, Complete, AtTheirPlace, LeavingIsUndone, Leaving,
             UndoneIsThere
<1>4. ListensAtHome
  <2> SUFFICES ASSUME NEW net \in Nets, NEW n \in Nodes, NEW svc \in Heard
               PROVE  ~Has(net, n, svc)
    BY DEF ListensAtHome
  <2> PICK can : can = Subscription(n, svc).can
    OBVIOUS
  <2>1. can \in CanIds /\ can # LssAnswers
    BY SubscriptionIsTyped DEF Subscription, LssAnswers, Heard
  <2>2. subscribers[net][can] = <<>>
    BY <1>1, <2>1
  <2> QED BY <2>2 DEF Has, Contains
<1>5. HomeIsHeard /\ ListingInv
  BY <1>1, NetworkAssumption, NodesAssumption
  DEF HomeIsHeard, ListingInv, HomeLists, ListedIsHome, PlaceIsFree, ListedFirst, UnderItsId,
      Idle
<1> QED BY <1>2, <1>3, <1>4, <1>5 DEF CallInv, ListenInv

LEMMA LeftIsTyped ==
  /\ Init => left \in BudgetsOf(Nat)
  /\ left \in BudgetsOf(Nat) /\ [Next]_vars => left' \in BudgetsOf(Nat)
<1>1. Init => left \in BudgetsOf(Nat)
  BY NodesAssumption DEF Init
<1>2. ASSUME left \in BudgetsOf(Nat), [Next]_vars PROVE left' \in BudgetsOf(Nat)
  <2>1. ASSUME NEW what \in {"frames", "calls", "links", "cuts"}, Spend(what)
        PROVE  left' \in BudgetsOf(Nat)
    BY <1>2, <2>1 DEF Spend, BudgetsOf
  <2>2. \/ \E what \in {"frames", "calls", "links", "cuts"} : Spend(what)
        \/ UNCHANGED left
    <3>1. ASSUME NEW net \in Nets, NEW n \in Nodes, StartCall(net, n) PROVE Spend("calls")
      BY <3>1 DEF StartCall
    <3>2. ASSUME NEW n \in Nodes, AddSdo(n) \/ SubscribePdo(n) PROVE Spend("calls")
      BY <3>2 DEF AddSdo, SubscribePdo
    <3>3. ASSUME NEW net \in Nets, NEW can \in FrameIds, Cut(net, can) PROVE Spend("cuts")
      BY <3>3 DEF Cut
    <3>4. ASSUME NEW net \in Nets, ResetScanner(net) PROVE Spend("calls")
      BY <3>4 DEF ResetScanner
    <3>5. ASSUME NEW net \in Nets, Link(net) \/ ThreadDies(net) PROVE Spend("links")
      BY <3>5 DEF Link, ThreadDies
    <3>6. ASSUME NEW net \in Nets, NEW can \in FrameIds, NEW short \in BOOLEAN,
                 Arrive(net, can, short)
          PROVE  Spend("frames")
      BY <3>6 DEF Arrive
    <3>7. AppStep => UNCHANGED left
      BY DEF AppStep
    <3>8. ASSUME NEW net \in Nets, NotifierStep(net) PROVE UNCHANGED left
      BY <3>8 DEF NotifierStep
    <3>9. UNCHANGED vars => UNCHANGED left
      BY DEF vars
    <3> QED BY <1>2, <3>1, <3>2, <3>3, <3>4, <3>5, <3>6, <3>7, <3>8, <3>9 DEF Next
  <2> QED BY <1>2, <2>1, <2>2
<1> QED BY <1>1, <1>2

-----------------------------------------------------------------------------
\* What holds of every behaviour.

LEMMA InvHolds == Spec => []Inv
<1>1. Init => Inv
  BY BusInit, NetInit, CallInit, LeftIsTyped DEF Inv, Types
<1>2. Inv /\ [Next]_vars => Inv'
  <2> SUFFICES ASSUME Inv, [Next]_vars PROVE Inv'
    OBVIOUS
  <2>1. NetTypes /\ NoDoubles /\ WalkInv /\ NodeTypes /\ CallInv /\ BusTypes /\ BusInv
        /\ left \in BudgetsOf(Nat)
    BY DEF Inv, Types
  <2>2. NetTypes' /\ NoDoubles' /\ WalkInv'
    BY <2>1, NetStep
  <2>3. NodeTypes' /\ CallInv'
    BY <2>1, CallStep
  <2>4. BusTypes' /\ BusInv' /\ left' \in BudgetsOf(Nat)
    BY <2>1, BusStep, LeftIsTyped
  <2> QED BY <2>2, <2>3, <2>4 DEF Inv, Types
<1> QED BY <1>1, <1>2, PTL DEF Spec

\* The variables keep their types: a frame finds lists of callbacks, and a call
\* consists of instructions that there are.
THEOREM NetworkTypesHold == Spec => []TypeOK
<1>1. Inv => TypeOK
  <2> SUFFICES ASSUME NetTypes, BusTypes, NodeTypes, left \in BudgetsOf(Nat) PROVE TypeOK
    BY DEF Inv, Types
  <2>1. NetworkTypeOK
    BY DEF NetTypes, BusTypes, NetworkTypeOK, Walks
  <2>2. \A i \in DOMAIN pending : pending[i] \in Instructions
    BY LenProperties, ElementOfSeq DEF NodeTypes
  <2> QED BY <2>1, <2>2 DEF NodeTypes, BusTypes, TypeOK, Instructions
<1> QED BY <1>1, InvHolds, PTL

\* Every callback that was subscribed when a frame came and still is has been
\* called when the frame has been handed out, but for one of them for each that
\* was unsubscribed meanwhile; none was called twice if there was no such one.
THEOREM AllAreCalled == Spec => []EachIsCalledOnce
<1>1. Inv => EachIsCalledOnce
  <2> SUFFICES ASSUME NetTypes, WalkInv, NEW net \in Nets, AtEnd(net)
               PROVE  LET w == walk[net]
                          gone == {c \in w.expected : ~Contains(subscribers[net][w.can], c)}
                      IN /\ Cardinality((w.expected \ ToSet(w.called)) \ gone) <= w.removals
                         /\ w.removals = 0 => IsInjective(w.called)
    BY DEF Inv, Types, EachIsCalledOnce
  <2> DEFINE w == walk[net]
             gone == {c \in w.expected : ~Contains(subscribers[net][w.can], c)}
             late == (w.expected \ ToSet(w.called)) \ gone
  <2>1. FewMissed(net) /\ FirstCalled(net) /\ OneList(net)
    BY DEF AtEnd, WalkInv
  <2>2. w.pos \in Nat /\ w.removals \in Nat /\ w.called \in Seq(Callbacks)
    BY DEF NetTypes, Walks
  <2>3. Len(Walked(net)) \in Nat /\ DOMAIN Walked(net) = 1..Len(Walked(net))
    BY WalkedIsList, LenProperties DEF AtEnd
  <2>4. late \in SUBSET Missed(net)
    <3>1. \A i \in 1..Len(Walked(net)) : ~(i > w.pos)
      BY <2>2, <2>3 DEF AtEnd
    <3> QED BY <3>1 DEF Missed
  <2>5. Cardinality(late) <= w.removals
    <3>1. IsFiniteSet(Missed(net)) /\ Cardinality(Missed(net)) \in Nat
      BY <2>1, MissedIsFinite
    <3>2. Cardinality(late) <= Cardinality(Missed(net)) /\ Cardinality(late) \in Nat
      BY <2>4, <3>1, FS_Subset, FS_CardinalityType
    <3> QED BY <2>1, <2>2, <3>1, <3>2 DEF FewMissed
  <2>6. ASSUME w.removals = 0 PROVE IsInjective(w.called)
    <3>1. /\ Len(w.called) = w.pos /\ w.pos <= Len(Walked(net))
          /\ \A i \in 1..w.pos : w.called[i] = Walked(net)[i]
      BY <2>1, <2>6 DEF FirstCalled
    <3>2. DOMAIN w.called = 1..w.pos
      BY <2>2, <3>1, LenProperties
    <3>3. \A i \in 1..w.pos : i \in DOMAIN Walked(net)
      BY <2>2, <2>3, <3>1
    <3>4. IsInjective(Walked(net))
      BY <2>1 DEF OneList
    <3> QED BY <3>1, <3>2, <3>3, <3>4 DEF IsInjective
  <2> QED BY <2>5, <2>6
<1> QED BY <1>1, InvHolds, PTL

\* Between two calls a node's services listen on the network it belongs to and
\* on no other, whatever was refused or raised on the way.
THEOREM ListenWhereAtHome == Spec => []SubscribedWhereAtHome
<1>1. CallInv => SubscribedWhereAtHome
  <2> SUFFICES ASSUME CallInv, Idle, NEW net \in Nets, NEW n \in Nodes
      PROVE  /\ home[n] # net => Listening(net, n) = {}
             /\ home[n] = net =>
                  Listening(net, n) = ToSet(ServicesOf(n)) \/ CutOff(net, n)
    BY DEF SubscribedWhereAtHome
  <2>1. ListensAtHome /\ HomeIsHeard
    BY DEF CallInv, ListenInv
  <2>2. \A svc : Subscription(n, svc).cb = Callback(n, svc)
    BY DEF Subscription
  <2>3. Listening(net, n) = {svc \in ToSet(ServicesOf(n)) : Has(net, n, svc)}
    BY <2>2 DEF Listening, Has
  <2>4. ToSet(ServicesOf(n)) \subseteq Heard
    BY ServicesAre DEF Heard
  <2>5. ASSUME home[n] # net PROVE Listening(net, n) = {}
    BY <2>1, <2>3, <2>4, <2>5 DEF ListensAtHome
  <2>6. ASSUME home[n] = net PROVE Listening(net, n) = ToSet(ServicesOf(n)) \/ CutOff(net, n)
    BY <2>1, <2>3, <2>6, IdleIsAtHome DEF HomeIsHeard
  <2> QED BY <2>5, <2>6
<1> QED BY <1>1, InvHolds, PTL DEF Inv

\* Between two calls a network lists the nodes that belong to it and no other,
\* but for those that it was given while another had them.
THEOREM ListedAreAtHome == Spec => []ListsItsNodes
<1>1. CallInv => ListsItsNodes
  BY IdleIsAtHome DEF ListsItsNodes
<1> QED BY <1>1, InvHolds, PTL DEF Inv
=============================================================================
