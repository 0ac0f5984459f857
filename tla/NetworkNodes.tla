------------------------------ MODULE NetworkNodes -----------------------------
(***************************************************************************)
(* Remote and local nodes that come to networks and leave them while       *)
(* frames arrive.  The application is one thread: a call is a list of      *)
(* instructions, done one at a time, so that a frame can be handed out     *)
(* between any two; an instruction that raises ends the call.              *)
(***************************************************************************)
EXTENDS Network, FiniteSetsExt

CONSTANTS
  Local,    \* the nodes that are LocalNode objects, the others are RemoteNode
  IdOf,     \* id of each node
  FrameIds, \* CAN IDs of the frames that arrive
  Budgets   \* bounds: scenarios, what may happen in each

BudgetsOf(N) == [frames : N, calls : N, links : N, cuts : N]

ASSUME NodesAssumption ==
  /\ Local \subseteq Nodes
  /\ IdOf \in [Nodes -> Ids]
  /\ FrameIds \subseteq CanIds
  /\ Budgets \subseteq BudgetsOf(Nat)

VARIABLES
  listed,   \* Network.nodes: the node under each id, NoNet for none
  home,     \* node.network, NoNet for the placeholder
  extra,    \* nodes with a second SDO channel
  pending,  \* instructions of the application's call that are still to do
  linked,   \* history: "on" from connect to disconnect, "broken" from the end of
            \* the receiving thread to disconnect
  strays,   \* history: nodes that a network listed and then refused
  cut,      \* history: CAN IDs that all were unsubscribed from
  left      \* what the scenario still allows

nodeVars == <<listed, home, extra, pending, linked, strays, cut>>
vars == <<netVars, busVars, nodeVars, left>>

TypeOK ==
  /\ NetworkTypeOK
  /\ listed \in [Nets -> [Ids -> Nodes \cup {NoNet}]]
  /\ home \in [Nodes -> Nets \cup {NoNet}]
  /\ extra \subseteq Nodes \ Local
  /\ \A i \in DOMAIN pending :
       pending[i].op \in {"remove", "unsub", "forget", "list", "unlist", "associate", "sub"}
  /\ linked \in [Nets -> {"off", "on", "broken"}]
  /\ strays \subseteq Nodes
  /\ cut \subseteq Nets \X CanIds
  /\ left \in BudgetsOf(Nat)

Init ==
  /\ NetworkInit
  /\ listed = [net \in Nets |-> [id \in Ids |-> NoNet]]
  /\ home = [n \in Nodes |-> NoNet]
  /\ extra = {}
  /\ pending = <<>>
  /\ strays = {}
  /\ cut = {}
  /\ left \in Budgets
  /\ \E given \in {0, 1}, reads \in BOOLEAN :  \* a bus is given, connect was called
       /\ reads => given = 1
       /\ reads \/ left.links > 0
       /\ bus = [net \in Nets |-> given]
       /\ opened = bus
       /\ notifier = [net \in Nets |-> [bus |-> IF reads THEN 1 ELSE 0, dead |-> FALSE]]
  /\ linked = [net \in Nets |-> IF notifier[net].bus = 0 THEN "off" ELSE "on"]

-----------------------------------------------------------------------------
\* What a node listens to, in the order of associate_network and remove_network.
Callback(n, svc) == [owner |-> n, svc |-> svc]
Subscription(n, svc) ==
  [can |-> [svc |-> svc, id |-> IF svc = "command" THEN 0 ELSE IdOf[n]],
   cb |-> Callback(n, svc)]

ServicesOf(n) ==
  IF n \in Local THEN <<"request", "command">>
  ELSE (IF n \in extra THEN <<"response", "extra">> ELSE <<"response">>)
       \o <<"heartbeat", "emcy", "command">>

Do(op, net, n, svc) == [op |-> op, net |-> net, node |-> n, svc |-> svc]

ForEachService(op, net, n) ==
  [i \in DOMAIN ServicesOf(n) |-> Do(op, net, n, ServicesOf(n)[i])]

Idle == pending = <<>>

-----------------------------------------------------------------------------
\* The application's calls: add_node, create_node and network[id] = node;
\* del network[id].
Add(net, n) ==
  LET old == listed[net][IdOf[n]] IN
  pending' = (IF old = NoNet THEN <<>> ELSE <<Do("remove", net, old, "none")>>)
             \o <<Do("list", net, n, "none"), Do("associate", net, n, "none")>>

Delete(net, n) ==
  /\ listed[net][IdOf[n]] = n
  /\ pending' = <<Do("remove", net, n, "none"), Do("unlist", net, n, "none")>>

-----------------------------------------------------------------------------
\* The instructions.  i is the one that is done, rest what is left of the call.

\* Mutant: remove_network leaves the last subscription, of NMT commands.
RemoveMost(i, rest) ==
  pending' =
    IF home[i.node] = NoNet THEN rest
    ELSE Front(ForEachService("unsub", home[i.node], i.node))
         \o <<Do("forget", i.net, i.node, "none")>> \o rest

\* remove_network does nothing for a node without network.
RemoveNetwork(i, rest) ==
  pending' =
    IF home[i.node] = NoNet THEN rest
    ELSE ForEachService("unsub", home[i.node], i.node)
         \o <<Do("forget", i.net, i.node, "none")>> \o rest

\* Mutant: associate_network takes a node that has a network.
AssociateUnchecked(i, rest) ==
  /\ home' = [home EXCEPT ![i.node] = i.net]
  /\ pending' = ForEachService("sub", i.net, i.node) \o rest
  /\ UNCHANGED strays

\* associate_network refuses a node that has a network.
Associate(i, rest) ==
  IF home[i.node] = NoNet
  THEN /\ home' = [home EXCEPT ![i.node] = i.net]
       /\ pending' = ForEachService("sub", i.net, i.node) \o rest
       /\ UNCHANGED strays
  ELSE pending' = <<>> /\ strays' = strays \cup {i.node} /\ UNCHANGED home

Sub(i, rest) ==
  LET s == Subscription(i.node, i.svc) IN
  Subscribe(i.net, s.can, s.cb) /\ pending' = rest

\* unsubscribe raises when the callback is not there any more.
Unsub(i, rest) ==
  LET s == Subscription(i.node, i.svc) IN
  IF Contains(subscribers[i.net][s.can], s.cb)
  THEN Unsubscribe(i.net, s.can, s.cb) /\ pending' = rest
  ELSE pending' = <<>> /\ UNCHANGED <<subscribers, walk>>

SetListed(i, value) == listed' = [listed EXCEPT ![i.net][IdOf[i.node]] = value]

AppStep ==
  /\ ~Idle
  /\ LET i == Head(pending)
         rest == Tail(pending)
     IN \/ /\ i.op = "remove" /\ RemoveNetwork(i, rest)
           /\ UNCHANGED <<subscribers, walk, listed, home, strays>>
        \/ /\ i.op = "unsub" /\ Unsub(i, rest)
           /\ UNCHANGED <<listed, home, strays>>
        \/ /\ i.op = "forget" /\ pending' = rest
           /\ home' = [home EXCEPT ![i.node] = NoNet]
           /\ UNCHANGED <<subscribers, walk, listed, strays>>
        \/ /\ i.op = "list" /\ SetListed(i, i.node) /\ pending' = rest
           /\ UNCHANGED <<subscribers, walk, home, strays>>
        \/ /\ i.op = "unlist" /\ SetListed(i, NoNet) /\ pending' = rest
           /\ UNCHANGED <<subscribers, walk, home, strays>>
        \/ /\ i.op = "associate" /\ Associate(i, rest)
           /\ UNCHANGED <<subscribers, walk, listed>>
        \/ /\ i.op = "sub" /\ Sub(i, rest)
           /\ UNCHANGED <<walk, listed, home, strays>>
  /\ UNCHANGED <<found, busVars, extra, linked, cut, left>>

-----------------------------------------------------------------------------
Spend(what) ==
  /\ left[what] > 0
  /\ left' = [left EXCEPT ![what] = @ - 1]

StartCall(net, n) ==
  /\ Idle /\ Spend("calls")
  /\ Add(net, n) \/ Delete(net, n)
  /\ UNCHANGED <<netVars, busVars, listed, home, extra, linked, strays, cut>>

\* RemoteNode.add_sdo: the channel listens from now on if the node does.
AddSdo(n) ==
  /\ Idle /\ Spend("calls")
  /\ n \in (Nodes \ Local) \ extra
  /\ extra' = extra \cup {n}
  /\ pending' = IF home[n] = NoNet THEN <<>> ELSE <<Do("sub", home[n], n, "extra")>>
  /\ UNCHANGED <<netVars, busVars, listed, home, linked, strays, cut>>

\* PdoMap.subscribe, each time the map is read or saved.
SubscribePdo(n) ==
  /\ Idle /\ Spend("calls")
  /\ home[n] # NoNet
  /\ pending' = <<Do("sub", home[n], n, "pdo")>>
  /\ UNCHANGED <<netVars, busVars, listed, home, extra, linked, strays, cut>>

\* The application unsubscribes all callbacks of a CAN ID.
Cut(net, can) ==
  /\ Idle /\ Spend("cuts")
  /\ UnsubscribeAll(net, can)
  /\ cut' = cut \cup {<<net, can>>}
  /\ UNCHANGED <<listed, home, extra, pending, linked, strays>>

ResetScanner(net) ==
  /\ Idle /\ Spend("calls") /\ found[net] # <<>>
  /\ Reset(net)
  /\ UNCHANGED nodeVars

Link(net) ==
  /\ Idle /\ Spend("links")
  /\ \/ Connect(net) /\ linked' = [linked EXCEPT ![net] = IF @ = "broken" THEN @ ELSE "on"]
     \/ Disconnect(net) /\ linked' = [linked EXCEPT ![net] = "off"]
     \/ (SyncStart(net) \/ SyncStop(net)) /\ UNCHANGED linked
  /\ UNCHANGED <<listed, home, extra, pending, strays, cut>>

ThreadDies(net) ==
  /\ Spend("links")
  /\ NotifierDies(net) /\ linked' = [linked EXCEPT ![net] = "broken"]
  /\ UNCHANGED <<listed, home, extra, pending, strays, cut>>

Arrive(net, can, short) ==
  /\ Spend("frames")
  /\ Receive(net, can, short)
  /\ UNCHANGED nodeVars

NotifierStep(net) == (CallNext(net) \/ EndWalk(net)) /\ UNCHANGED <<nodeVars, left>>

Next ==
  \/ \E net \in Nets, n \in Nodes : StartCall(net, n)
  \/ \E n \in Nodes : AddSdo(n) \/ SubscribePdo(n)
  \/ \E net \in Nets, can \in FrameIds : Cut(net, can)
  \/ \E net \in Nets : ResetScanner(net) \/ Link(net) \/ ThreadDies(net)
  \/ \E net \in Nets, can \in FrameIds, short \in BOOLEAN : Arrive(net, can, short)
  \/ AppStep
  \/ \E net \in Nets : NotifierStep(net)

Spec == Init /\ [][Next]_vars

-----------------------------------------------------------------------------
Listening(net, n) ==
  {svc \in ToSet(ServicesOf(n)) :
     LET s == Subscription(n, svc) IN Contains(subscribers[net][s.can], s.cb)}

CutOff(net, n) ==
  \E svc \in ToSet(ServicesOf(n)) : <<net, Subscription(n, svc).can>> \in cut

\* Between two calls of the application the services of a node listen on the
\* network it belongs to and on no other, whatever was refused or raised on the
\* way (associate_network against remove_network).  Only where the application
\* cut off one of a node's CAN IDs may some be missing.  The callbacks of PDO
\* maps, which remove_network does not know, are not among the services.
SubscribedWhereAtHome ==
  Idle => \A net \in Nets, n \in Nodes :
    /\ home[n] # net => Listening(net, n) = {}
    /\ home[n] = net => Listening(net, n) = ToSet(ServicesOf(n)) \/ CutOff(net, n)

\* Between two calls a network lists the nodes that belong to it and no other,
\* but for those that it was given while they belonged to another network, which
\* it lists although it refuses them (__setitem__ stores the node first).
ListsItsNodes ==
  Idle => \A net \in Nets, n \in Nodes \ strays :
    listed[net][IdOf[n]] = n <=> home[n] = net

\* When a frame has been handed out, every callback that was subscribed when it
\* came and has not been unsubscribed has been called, once; each callback that
\* another thread unsubscribes on the way can cost one other its call, no more.
EachIsCalledOnce ==
  \A net \in Nets : AtEnd(net) =>
    LET w == walk[net]
        gone == {c \in w.expected : ~Contains(subscribers[net][w.can], c)}
    IN /\ Cardinality((w.expected \ ToSet(w.called)) \ gone) <= w.removals
       /\ w.removals = 0 => IsInjective(w.called)

\* After connect() a live thread reads the present bus until it dies itself or
\* disconnect() is called, whatever went wrong with earlier connections: where
\* the thread had died, disconnect() raises and yet leaves no trace of it (its
\* finally clause), so that the next connect() starts another.  connect() alone
\* keeps a dead one; what it then returns is not a connection that is read.
ConnectedMeansReading == \A net \in Nets : linked[net] = "on" => Alive(net)

=============================================================================
