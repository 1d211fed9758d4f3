------------------------------ MODULE Topology ------------------------------
(***************************************************************************)
(* One process's copy of the tree (src/src/NetworkTopology.C) and the      *)
(* table of outlets computed from it (Router.C).  A copy is a record:      *)
(*   nodes     ranks in _nodes                                             *)
(*   par       every node's _parent (a node's _children are the nodes it   *)
(*             is the _parent of; set_Parent and remove_Node keep both     *)
(*             sides)                                                      *)
(*   orphans   _orphans                                                    *)
(* The mutex _sync makes each of these operations atomic.                  *)
(***************************************************************************)
EXTENDS Naturals, FiniteSets

CONSTANTS Ranks, Root, BackEnds, NoRank

ASSUME RanksAssumption ==
  /\ IsFiniteSet(Ranks) /\ Root \in Ranks
  /\ BackEnds \subseteq Ranks \ {Root} /\ NoRank \notin Ranks

TopologySet ==
  [nodes : SUBSET Ranks, par : [Ranks -> Ranks \cup {NoRank}],
   orphans : SUBSET Ranks]

get_Children(t, r) == {n \in t.nodes : t.par[n] = r}

\* the node that is i steps above r, if there is one
ancestor(par, r, i) ==
  LET above == [n \in Ranks \cup {NoRank} |-> IF n = NoRank THEN NoRank ELSE par[n]]
      climb[j \in 0..i] == IF j = 0 THEN r ELSE above[climb[j - 1]]
  IN  climb[i]

\* r and everything below it
get_Descendants(t, r) ==
  {r} \cup {n \in t.nodes : \E i \in 1..Cardinality(Ranks) : ancestor(t.par, n, i) = r}

-----------------------------------------------------------------------------
\* new_Node: known, but neither under a parent nor an orphan.
new_Node(t, r) == [t EXCEPT !.nodes = @ \cup {r}, !.par[r] = NoRank]

remove_Orphan(t, r) == [t EXCEPT !.orphans = @ \ {r}]

\* set_Parent fails, and changes nothing, unless both ends are known.
can_Parent(t, c, p) == c \in t.nodes /\ p \in t.nodes
set_Parent(t, c, p) ==
  IF can_Parent(t, c, p) THEN remove_Orphan([t EXCEPT !.par[c] = p], c) ELSE t

\* Mutant: the children of the node that goes keep pointing at it.
erase_Node_keepParent(t, r) ==
  [nodes |-> t.nodes \ {r}, par |-> [t.par EXCEPT ![r] = NoRank],
   orphans |-> (t.orphans \cup get_Children(t, r)) \ {r}]

\* remove_Node(Node*): the node is deleted and its children are left without a parent.
erase_Node(t, r) ==
  [nodes |-> t.nodes \ {r},
   par |-> [n \in Ranks |-> IF n = r \/ t.par[n] = r THEN NoRank ELSE t.par[n]],
   orphans |-> (t.orphans \cup get_Children(t, r)) \ {r}]

remove_Node(t, r) == IF r \in t.nodes THEN erase_Node(t, r) ELSE t

\* A serialized subtree: its root, its nodes and the parent of every other one.
SubTree(t, r) ==
  LET members == get_Descendants(t, r)
  IN  [root |-> r, nodes |-> members,
       par |-> [n \in Ranks |-> IF n \in members \ {r} THEN t.par[n] ELSE NoRank]]

\* serialize starts at _root: what hangs below an orphan is not in the string.
in_Topology(t, r) == Root \in t.nodes /\ r \in get_Descendants(t, Root)

\* get_LocalSubTreeString finds nothing for a rank that is not in the string.
NoSubTree == [root |-> NoRank, nodes |-> {}, par |-> [n \in Ranks |-> NoRank]]
get_LocalSubTree(t, r) == IF in_Topology(t, r) THEN SubTree(t, r) ELSE NoSubTree

\* add_SubGraph walks the subtree and gives every node its parent there.
graft(t, p, sg) ==
  [nodes |-> t.nodes \cup sg.nodes,
   par |-> [n \in Ranks |-> CASE n = sg.root -> p
                              [] n \in sg.nodes \ {sg.root} -> sg.par[n]
                              [] OTHER -> t.par[n]],
   orphans |-> t.orphans \ sg.nodes]

add_SubGraph(t, p, sg) == IF p \in t.nodes /\ sg.root # NoRank THEN graft(t, p, sg) ELSE t

-----------------------------------------------------------------------------
\* find_PotentialAdopters walks down from _root and stops at back-ends and at the
\* orphan's parent: everything below that parent is passed over with it.
find_PotentialAdopters(t, orphan) ==
  LET stop == BackEnds \cup {t.par[orphan]}
      reach[i \in 0..Cardinality(Ranks)] ==
        IF i = 0 THEN {Root} \ stop
        ELSE LET above == reach[i - 1]
             IN  above \cup {n \in t.nodes \ stop : t.par[n] \in above}
  IN  reach[Cardinality(Ranks)]

\* find_NewParent with ALG_WRS takes an adopter with a weighted random key.
find_NewParent(t, orphan) ==
  IF orphan \in t.nodes /\ Root \in t.nodes THEN find_PotentialAdopters(t, orphan) ELSE {}

-----------------------------------------------------------------------------
\* Router::update_Table in process self, which has a PeerNode for the ranks in kids
update_Table(t, self, kids) ==
  LET outlets == {k \in kids : self \in t.nodes /\ k \in t.nodes /\ t.par[k] = self}
      below == {<<k, get_Descendants(t, k)>> : k \in outlets}
  IN  [r \in Ranks |-> IF \E b \in below : r \in b[2]
                       THEN (CHOOSE b \in below : r \in b[2])[1] ELSE NoRank]

get_OutletNode(table, r) == table[r]
=============================================================================
