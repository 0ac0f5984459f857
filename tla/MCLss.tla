---- MODULE MCLss ----
(***************************************************************************)
(* A small instance of Lss: two slaves with identities of two parts of two *)
(* bits each, three calls, one lost answer.                                *)
(***************************************************************************)
EXTENDS Lss

CONSTANTS s1, s2, n1

MCSlaves == {s1, s2}
MCNodeIds == {n1}

Id(a, b) == [p \in Part |-> IF p = 0 THEN a ELSE b]
Pair(x, y, m, n) == [s \in MCSlaves |-> IF s = s1 THEN [id |-> x, node |-> m]
                                                 ELSE [id |-> y, node |-> n]]

\* Two slaves without a node id, with any two of twelve identities; and two
\* neighbours of which one or both have a node id.
MCIds == {Id(a, b) : a \in {{}, {0}, {0, 1}}, b \in Numbers}
MCPopulation ==
  {who \in [MCSlaves -> [id : MCIds, node : {Unset}]] : Lower(who[s1].id, who[s2].id)}
  \cup {Pair(Id({0}, {1}), Id({0}, {0, 1}), n1, n) : n \in {n1, Unset}}

MCWanted == {Id({0}, {1}), Id({0}, {0, 1})}
====
