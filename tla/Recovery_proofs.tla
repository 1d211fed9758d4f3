--------------------------- MODULE Recovery_proofs ---------------------------
(***************************************************************************)
(* Proofs about Recovery, for any tree, any number of crashes and any      *)
(* order of the packets that report them: every process's copy of the      *)
(* topology stays a forest of known nodes.                                 *)
(***************************************************************************)
EXTENDS Recovery, FiniteSetTheorems, SequenceTheorems, WellFoundedInduction, TLAPS

\* What CopiesWellFormed says of one copy, and that the front-end has no parent in it.
WellFormed(t) ==
  /\ \A n \in t.nodes : t.par[n] \in t.nodes \cup {NoRank}
  /\ \A n \in Ranks \ t.nodes : t.par[n] = NoRank
  /\ t.orphans = {n \in t.nodes : t.par[n] = NoRank} \ {Root}
GoodTopology(t) == t \in TopologySet /\ WellFormed(t) /\ t.par[Root] = NoRank
GoodNode(n) == n \in NodeSet /\ GoodTopology(n.topo)

\* A subtree that travels to an adopter is complete: all but its root have their parent in
\* it, and the front-end is not its root.  A rank that was not found has none.
SubTreeSet ==
  [root : Ranks \cup {NoRank}, nodes : SUBSET Ranks, par : [Ranks -> Ranks \cup {NoRank}]]
GoodSubTree(sg) ==
  /\ sg \in SubTreeSet /\ sg.par[Root] = NoRank /\ sg.root # Root
  /\ sg.root # NoRank => sg.root \in sg.nodes
  /\ \A n \in sg.nodes \ {sg.root, Root} : sg.par[n] \in sg.nodes

\* What travels: nobody tells of the front-end's removal or of a parent for it.
Below0 == Ranks \ {Root}
GoodUpdates == [type : {"TOPO_REMOVE_RANK", "TOPO_CHANGE_PARENT"}, par : Ranks, child : Below0]
UpdatePackets == [tag : {"PROT_TOPO_UPDATE"}, updates : Seq(GoodUpdates)]
ReportPackets ==
  [tag : {"PROT_RECOVERY_RPT"}, child : Below0, failed : Ranks, new : Ranks]
Hellos ==
  [tag : {"PROT_NEW_CHILD_DATA_CONNECTION", "PROT_NEW_CHILD_FD_CONNECTION"}, child : Below0,
   sub : {sg \in SubTreeSet : GoodSubTree(sg)}]

\* Every copy is sound.
CopiesInv == node \in [Ranks -> NodeSet] /\ \A p \in Ranks : GoodTopology(node[p].topo)

\* Who can be whose parent: only the front-end has none, and it never recovers.
ParentInv ==
  /\ alive \subseteq Ranks /\ off \subseteq Ranks /\ crashes \in 0..MaxCrashes
  /\ up \in [Ranks -> Ranks \cup {NoRank}] /\ \A p \in Below0 : up[p] \in Ranks
  /\ joined \in [Ranks -> SUBSET Below0] /\ fd \in [Ranks -> SUBSET Below0]
  /\ rec \in [Ranks -> [at : Steps, old : Ranks \cup {NoRank}]]
  /\ \A p \in Ranks : rec[p].at # "idle" => p # Root /\ rec[p].old \in Ranks

\* What is on its way is sound.
TravelInv ==
  /\ buffer \in Seq(GoodUpdates)
  /\ toParent \in [Ranks \X Ranks -> Seq(UpdatePackets)]
  /\ toChild \in [Ranks \X Ranks -> Seq(UpdatePackets \cup ReportPackets)]
  /\ listen \in [Ranks -> Seq(Hellos)]

RecoveryInv == CopiesInv /\ ParentInv /\ TravelInv

-----------------------------------------------------------------------------
\* A set of numbers that is not empty has a smallest element.
LEMMA SmallestNumber ==
  ASSUME NEW S \in SUBSET Nat, S # {}
  PROVE  \E x \in S : \A y \in S : x <= y
  <1> DEFINE R == OpToRel(<, Nat)
  <1>1. IsWellFoundedOn(R, Nat)
    BY NatLessThanWellFounded, Zenon
  <1>2. R = {ss \in Nat \X Nat : ss[1] < ss[2]}
    BY DEF OpToRel
  <1> HIDE DEF R
  <1>3. PICK x \in S : \A y \in S : ~(<<y, x>> \in R)
    BY <1>1, WFMin
  <1>4. \A y \in S : ~(y < x)
    BY <1>2, <1>3
  <1> QED BY <1>4

\* Induction over the numbers, with a set in the place of a predicate.
LEMMA Induction ==
  ASSUME NEW S, 0 \in S, \A n \in Nat : n \in S => n + 1 \in S
  PROVE  Nat \subseteq S
  <1> SUFFICES ASSUME Nat \ S # {} PROVE FALSE
    OBVIOUS
  <1>1. PICK x \in Nat \ S : \A y \in Nat \ S : x <= y
    BY SmallestNumber
  <1>2. x # 0 /\ x - 1 \in Nat /\ x - 1 \in S
    BY <1>1
  <1> QED BY <1>2

\* ancestor climbs one step at a time.
Above(par) == [n \in Ranks \cup {NoRank} |-> IF n = NoRank THEN NoRank ELSE par[n]]
LEMMA AncestorDef ==
  ASSUME NEW par \in [Ranks -> Ranks \cup {NoRank}], NEW r \in Ranks \cup {NoRank}, NEW m \in Nat
  PROVE  \E f : /\ f = [j \in 0..m |-> IF j = 0 THEN r ELSE Above(par)[f[j - 1]]]
                /\ ancestor(par, r, m) = f[m]
  <1> DEFINE G(k) == \E f : f = [j \in 0..k |-> IF j = 0 THEN r ELSE Above(par)[f[j - 1]]]
             S == {k \in Nat : G(k)}
  <1>1. G(0)
    <2> DEFINE f == [j \in 0..0 |-> r]
    <2>1. f = [j \in 0..0 |-> IF j = 0 THEN r ELSE Above(par)[f[j - 1]]]
      OBVIOUS
    <2> QED BY <2>1
  <1>2. ASSUME NEW k \in Nat, G(k) PROVE G(k + 1)
    <2>1. PICK g : g = [j \in 0..k |-> IF j = 0 THEN r ELSE Above(par)[g[j - 1]]]
      BY <1>2
    <2> DEFINE f == [j \in 0..(k + 1) |-> IF j = k + 1 THEN Above(par)[g[k]] ELSE g[j]]
    <2>2. ASSUME NEW j \in 0..(k + 1)
          PROVE  f[j] = IF j = 0 THEN r ELSE Above(par)[f[j - 1]]
      <3>1. CASE j = 0
        BY <2>1, <3>1
      <3>2. CASE j # 0 /\ j # k + 1
        <4>1. j - 1 \in 0..k /\ j \in 0..k
          BY <3>2
        <4>2. f[j] = g[j] /\ f[j - 1] = g[j - 1]
          BY <4>1, <3>2
        <4>3. g[j] = Above(par)[g[j - 1]]
          BY <2>1, <4>1, <3>2
        <4> QED BY <4>2, <4>3, <3>2
      <3>3. CASE j = k + 1
        BY <3>3
      <3> QED BY <3>1, <3>2, <3>3
    <2>3. f = [j \in 0..(k + 1) |-> IF j = 0 THEN r ELSE Above(par)[f[j - 1]]]
      BY <2>2
    <2> QED BY <2>3
  <1> HIDE DEF G
  <1>3. G(m)
    <2>1. 0 \in S
      BY <1>1
    <2>2. \A k \in Nat : k \in S => k + 1 \in S
      BY <1>2
    <2> HIDE DEF S
    <2>3. Nat \subseteq S
      BY <2>1, <2>2, Induction
    <2> QED BY <2>3 DEF S
  <1> DEFINE climb == CHOOSE f : f = [j \in 0..m |-> IF j = 0 THEN r ELSE Above(par)[f[j - 1]]]
  <1>4. climb = [j \in 0..m |-> IF j = 0 THEN r ELSE Above(par)[climb[j - 1]]]
    BY <1>3 DEF G
  <1>5. ancestor(par, r, m) = climb[m]
    BY DEF ancestor, Above
  <1> QED BY <1>4, <1>5

\* Nothing is above nothing, and what is m + 1 steps above n is m steps above its parent.
LEMMA AncestorStep ==
  ASSUME NEW par \in [Ranks -> Ranks \cup {NoRank}], NEW n \in Ranks \cup {NoRank}, NEW m \in Nat
  PROVE  /\ ancestor(par, n, 0) = n
         /\ ancestor(par, n, m + 1) = ancestor(par, Above(par)[n], m)
         /\ ancestor(par, NoRank, m) = NoRank
  <1>1. ancestor(par, n, 0) = n
    <2>1. PICK f : /\ f = [j \in 0..0 |-> IF j = 0 THEN n ELSE Above(par)[f[j - 1]]]
                   /\ ancestor(par, n, 0) = f[0]
      BY AncestorDef
    <2> QED BY <2>1
  <1>2. ancestor(par, n, m + 1) = ancestor(par, Above(par)[n], m)
    <2>1. Above(par)[n] \in Ranks \cup {NoRank}
      BY RanksAssumption DEF Above
    <2>2. PICK f : /\ f = [j \in 0..(m + 1) |-> IF j = 0 THEN n ELSE Above(par)[f[j - 1]]]
                   /\ ancestor(par, n, m + 1) = f[m + 1]
      <3>1. m + 1 \in Nat
        OBVIOUS
      <3> QED BY <3>1, AncestorDef, Zenon
    <2>3. PICK g : /\ g = [j \in 0..m |-> IF j = 0 THEN Above(par)[n] ELSE Above(par)[g[j - 1]]]
                   /\ ancestor(par, Above(par)[n], m) = g[m]
      BY <2>1, AncestorDef
    <2> DEFINE S == {j \in Nat : j <= m => f[j + 1] = g[j]}
    <2>4. 0 \in S
      BY <2>2, <2>3
    <2>5. ASSUME NEW j \in Nat, j \in S PROVE j + 1 \in S
      <3> SUFFICES ASSUME j + 1 <= m PROVE f[j + 2] = g[j + 1]
        OBVIOUS
      <3>1. f[j + 2] = Above(par)[f[j + 1]]
        BY <2>2
      <3>2. g[j + 1] = Above(par)[g[j]]
        BY <2>3
      <3> QED BY <2>5, <3>1, <3>2
    <2> HIDE DEF S
    <2>6. Nat \subseteq S
      BY <2>4, <2>5, Induction
    <2>7. f[m + 1] = g[m]
      BY <2>6 DEF S
    <2> QED BY <2>2, <2>3, <2>7, Zenon
  <1>3. ancestor(par, NoRank, m) = NoRank
    <2>1. PICK f : /\ f = [j \in 0..m |-> IF j = 0 THEN NoRank ELSE Above(par)[f[j - 1]]]
                   /\ ancestor(par, NoRank, m) = f[m]
      BY AncestorDef
    <2> DEFINE S == {j \in Nat : j <= m => f[j] = NoRank}
    <2>2. 0 \in S
      BY <2>1
    <2>3. ASSUME NEW j \in Nat, j \in S PROVE j + 1 \in S
      <3>1. j + 1 <= m => f[j + 1] = Above(par)[f[j]]
        BY <2>1
      <3> QED BY <2>3, <3>1 DEF Above
    <2> HIDE DEF S
    <2>4. Nat \subseteq S
      BY <2>2, <2>3, Induction
    <2> QED BY <2>1, <2>4 DEF S
  <1> QED BY <1>1, <1>2, <1>3

\* Every node below r other than r has its parent below r as well.
LEMMA DescendantsClosed ==
  ASSUME NEW t \in TopologySet, NEW r \in Ranks, WellFormed(t), NEW n \in get_Descendants(t, r), n # r
  PROVE  n \in t.nodes /\ t.par[n] \in get_Descendants(t, r)
  <1>1. n \in t.nodes /\ n \in Ranks /\ t.par \in [Ranks -> Ranks \cup {NoRank}]
    BY DEF get_Descendants, TopologySet
  <1>2. Cardinality(Ranks) \in Nat
    BY RanksAssumption, FS_CardinalityType
  <1>3. PICK i \in 1..Cardinality(Ranks) : ancestor(t.par, n, i) = r
    BY DEF get_Descendants
  <1>4. i - 1 \in Nat /\ ancestor(t.par, n, (i - 1) + 1) = r
    BY <1>2, <1>3
  <1>5. ancestor(t.par, t.par[n], i - 1) = r
    <2>1. Above(t.par)[n] = t.par[n]
      BY <1>1, RanksAssumption DEF Above
    <2> QED BY <1>1, <1>4, <2>1, AncestorStep
  <1>6. t.par[n] # NoRank
    BY <1>1, <1>4, <1>5, AncestorStep, RanksAssumption
  <1>7. t.par[n] \in t.nodes
    BY <1>1, <1>6 DEF WellFormed
  <1>8. CASE i = 1
    <2>1. t.par[n] = r
      BY <1>1, <1>5, <1>8, AncestorStep
    <2> QED BY <1>1, <2>1 DEF get_Descendants
  <1>9. CASE i # 1
    <2>1. i - 1 \in 1..Cardinality(Ranks)
      BY <1>2, <1>3, <1>9
    <2> QED BY <1>1, <1>5, <1>7, <2>1 DEF get_Descendants
  <1> QED BY <1>8, <1>9

-----------------------------------------------------------------------------
\* The operations on a copy (NetworkTopology.C) keep it sound.

\* A node goes and its children become orphans.
LEMMA RemoveNodeGood ==
  ASSUME NEW t, GoodTopology(t), NEW r \in Ranks \cup {NoRank}
  PROVE  GoodTopology(remove_Node(t, r))
  <1>1. CASE r \notin t.nodes
    BY <1>1 DEF remove_Node
  <1>2. CASE r \in t.nodes
    <2> DEFINE e == erase_Node(t, r)
    <2>1. t \in TopologySet /\ t.par[Root] = NoRank /\ WellFormed(t)
      BY DEF GoodTopology
    <2>2. /\ e.nodes = t.nodes \ {r} /\ e.orphans = (t.orphans \cup get_Children(t, r)) \ {r}
          /\ e.par = [n \in Ranks |-> IF n = r \/ t.par[n] = r THEN NoRank ELSE t.par[n]]
      BY DEF erase_Node
    <2>3. e \in TopologySet
      BY <2>1 DEF erase_Node, TopologySet, get_Children
    <2>4. r # NoRank /\ r \in Ranks /\ t.nodes \subseteq Ranks /\ t.orphans \subseteq Ranks /\ Root \in Ranks
      BY <1>2, <2>1, RanksAssumption DEF TopologySet
    <2>5. \A n \in e.nodes : e.par[n] \in e.nodes \cup {NoRank}
      BY <2>1, <2>2, <2>4 DEF WellFormed
    <2>6. \A n \in Ranks \ e.nodes : e.par[n] = NoRank
      BY <2>1, <2>2, <2>4 DEF WellFormed
    <2>7. e.orphans = {n \in e.nodes : e.par[n] = NoRank} \ {Root}
      BY <2>1, <2>2, <2>4 DEF WellFormed, get_Children
    <2>8. e.par[Root] = NoRank
      BY <2>1, <2>2, <2>4
    <2> QED BY <1>2, <2>3, <2>5, <2>6, <2>7, <2>8 DEF remove_Node, GoodTopology, WellFormed
  <1> QED BY <1>1, <1>2

\* A node that is not the front-end gets a parent.
LEMMA SetParentGood ==
  ASSUME NEW t, GoodTopology(t), NEW c \in Below0, NEW p \in Ranks
  PROVE  GoodTopology(set_Parent(t, c, p))
  <1>1. CASE ~can_Parent(t, c, p)
    BY <1>1 DEF set_Parent
  <1>2. CASE can_Parent(t, c, p)
    <2> DEFINE e == set_Parent(t, c, p)
    <2>1. t \in TopologySet /\ t.par[Root] = NoRank /\ WellFormed(t) /\ c \in t.nodes /\ p \in t.nodes
      BY <1>2 DEF GoodTopology, can_Parent
    <2>2. e.nodes = t.nodes /\ e.orphans = t.orphans \ {c} /\ e.par = [t.par EXCEPT ![c] = p]
      BY <1>2, <2>1 DEF set_Parent, remove_Orphan, TopologySet
    <2>3. e \in TopologySet
      BY <1>2, <2>1 DEF set_Parent, remove_Orphan, TopologySet
    <2>4. /\ c # Root /\ p # NoRank /\ c \in Ranks /\ Root \in Ranks /\ t.nodes \subseteq Ranks
          /\ t.par \in [Ranks -> Ranks \cup {NoRank}]
      BY <2>1, RanksAssumption DEF TopologySet, Below0
    <2>5. WellFormed(e)
      BY <2>1, <2>2, <2>4 DEF WellFormed
    <2> QED BY <2>1, <2>2, <2>3, <2>4, <2>5 DEF GoodTopology
  <1> QED BY <1>1, <1>2

\* A complete subtree is put below a known node.
LEMMA AddSubGraphGood ==
  ASSUME NEW t, GoodTopology(t), NEW p \in Ranks, NEW sg, GoodSubTree(sg)
  PROVE  GoodTopology(add_SubGraph(t, p, sg))
  <1>1. CASE ~(p \in t.nodes /\ sg.root # NoRank)
    BY <1>1 DEF add_SubGraph
  <1>2. CASE p \in t.nodes /\ sg.root # NoRank
    <2> DEFINE e == graft(t, p, sg)
    <2>1. t \in TopologySet /\ t.par[Root] = NoRank /\ WellFormed(t)
      BY DEF GoodTopology
    <2>2. /\ sg \in SubTreeSet /\ sg.par[Root] = NoRank /\ sg.root # Root /\ sg.root \in sg.nodes
          /\ \A n \in sg.nodes \ {sg.root, Root} : sg.par[n] \in sg.nodes
      BY <1>2 DEF GoodSubTree
    <2>3. /\ e.nodes = t.nodes \cup sg.nodes /\ e.orphans = t.orphans \ sg.nodes
          /\ e.par = [n \in Ranks |-> CASE n = sg.root -> p
                                        [] n \in sg.nodes \ {sg.root} -> sg.par[n]
                                        [] OTHER -> t.par[n]]
      BY DEF graft
    <2>4. /\ t.nodes \subseteq Ranks /\ sg.nodes \subseteq Ranks /\ t.orphans \subseteq Ranks
          /\ Root \in Ranks /\ NoRank \notin Ranks
          /\ t.par \in [Ranks -> Ranks \cup {NoRank}] /\ sg.par \in [Ranks -> Ranks \cup {NoRank}]
      BY <2>1, <2>2, RanksAssumption DEF TopologySet, SubTreeSet
    <2>5. e.par \in [Ranks -> Ranks \cup {NoRank}]
      BY <2>3, <2>4
    <2>6. e \in TopologySet
      BY <2>3, <2>4, <2>5 DEF TopologySet, graft
    <2>7. \A n \in e.nodes : e.par[n] \in e.nodes \cup {NoRank}
      BY <1>2, <2>1, <2>2, <2>3, <2>4 DEF WellFormed
    <2>8. \A n \in Ranks \ e.nodes : e.par[n] = NoRank
      BY <2>1, <2>2, <2>3, <2>4 DEF WellFormed
    <2>9. e.orphans = {n \in e.nodes : e.par[n] = NoRank} \ {Root}
      BY <1>2, <2>1, <2>2, <2>3, <2>4 DEF WellFormed
    <2>10. e.par[Root] = NoRank
      BY <2>1, <2>2, <2>3, <2>4
    <2> QED BY <1>2, <2>6, <2>7, <2>8, <2>9, <2>10 DEF add_SubGraph, GoodTopology, WellFormed
  <1> QED BY <1>1, <1>2

\* What an orphan sends to its adopter is complete.
LEMMA LocalSubTreeGood ==
  ASSUME NEW t, GoodTopology(t), NEW r \in Below0
  PROVE  GoodSubTree(get_LocalSubTree(t, r)) /\ GoodSubTree(NoSubTree)
  <1> DEFINE members == get_Descendants(t, r)
  <1>1. GoodSubTree(NoSubTree)
    BY RanksAssumption DEF GoodSubTree, NoSubTree, SubTreeSet
  <1>2. ASSUME in_Topology(t, r) PROVE GoodSubTree(SubTree(t, r))
    <2> DEFINE sg == SubTree(t, r)
    <2>1. t \in TopologySet /\ t.par[Root] = NoRank /\ WellFormed(t)
      BY DEF GoodTopology
    <2>2. /\ r \in Ranks /\ r # Root /\ r # NoRank /\ Root \in Ranks /\ t.nodes \subseteq Ranks
          /\ t.par \in [Ranks -> Ranks \cup {NoRank}]
      BY <2>1, RanksAssumption DEF TopologySet, Below0
    <2>3. /\ sg.root = r /\ sg.nodes = members
          /\ sg.par = [n \in Ranks |-> IF n \in members \ {r} THEN t.par[n] ELSE NoRank]
      BY DEF SubTree
    <2>4. r \in members /\ members \subseteq Ranks
      BY <2>2 DEF get_Descendants
    <2>5. \A n \in members : n # r => t.par[n] \in members
      BY <2>1, <2>2, DescendantsClosed
    <2> HIDE DEF members
    <2>6. sg.par \in [Ranks -> Ranks \cup {NoRank}]
      BY <2>2, <2>3
    <2>7. sg \in SubTreeSet
      BY <2>2, <2>3, <2>4, <2>6 DEF SubTreeSet, SubTree, members
    <2>8. \A n \in sg.nodes \ {sg.root, Root} : sg.par[n] \in sg.nodes
      BY <2>3, <2>4, <2>5
    <2>9. sg.par[Root] = NoRank
      BY <2>1, <2>2, <2>3
    <2> QED BY <2>2, <2>3, <2>4, <2>7, <2>8, <2>9 DEF GoodSubTree
  <1> QED BY <1>1, <1>2 DEF get_LocalSubTree

\* An adopter is a rank.
LEMMA AdoptersAreRanks ==
  ASSUME NEW t \in TopologySet, NEW c
  PROVE  find_NewParent(t, c) \subseteq Ranks
  <1> DEFINE stop == BackEnds \cup {t.par[c]}
             First == {Root} \ stop
             Grow(above) == above \cup {n \in t.nodes \ stop : t.par[n] \in above}
             N == Cardinality(Ranks)
             G(k) == \E f : f = [i \in 0..k |-> IF i = 0 THEN First ELSE Grow(f[i - 1])]
             S == {k \in Nat : G(k)}
  <1>1. First \subseteq Ranks /\ \A above : above \subseteq Ranks => Grow(above) \subseteq Ranks
    BY RanksAssumption DEF TopologySet
  <1> HIDE DEF First, Grow
  <1>2. G(0)
    <2> DEFINE f == [i \in 0..0 |-> First]
    <2>1. f = [i \in 0..0 |-> IF i = 0 THEN First ELSE Grow(f[i - 1])]
      OBVIOUS
    <2> QED BY <2>1
  <1>3. ASSUME NEW k \in Nat, G(k) PROVE G(k + 1)
    <2>1. PICK g : g = [i \in 0..k |-> IF i = 0 THEN First ELSE Grow(g[i - 1])]
      BY <1>3
    <2> DEFINE f == [i \in 0..(k + 1) |-> IF i = k + 1 THEN Grow(g[k]) ELSE g[i]]
    <2>2. ASSUME NEW i \in 0..(k + 1)
          PROVE  f[i] = IF i = 0 THEN First ELSE Grow(f[i - 1])
      <3>1. CASE i = 0
        BY <2>1, <3>1
      <3>2. CASE i # 0 /\ i # k + 1
        <4>1. i - 1 \in 0..k /\ i \in 0..k
          BY <3>2
        <4>2. f[i] = g[i] /\ f[i - 1] = g[i - 1]
          BY <4>1, <3>2
        <4>3. g[i] = Grow(g[i - 1])
          BY <2>1, <4>1, <3>2
        <4> QED BY <4>2, <4>3, <3>2
      <3>3. CASE i = k + 1
        BY <3>3
      <3> QED BY <3>1, <3>2, <3>3
    <2>3. f = [i \in 0..(k + 1) |-> IF i = 0 THEN First ELSE Grow(f[i - 1])]
      BY <2>2
    <2> QED BY <2>3
  <1> HIDE DEF G
  <1>4. \A k \in Nat : G(k)
    <2>1. 0 \in S
      BY <1>2
    <2>2. \A k \in Nat : k \in S => k + 1 \in S
      BY <1>3
    <2> HIDE DEF S
    <2>3. Nat \subseteq S
      BY <2>1, <2>2, Induction
    <2> QED BY <2>3 DEF S
  <1>5. N \in Nat
    BY RanksAssumption, FS_CardinalityType
  <1> HIDE DEF N
  <1> DEFINE reach == CHOOSE f : f = [i \in 0..N |-> IF i = 0 THEN First ELSE Grow(f[i - 1])]
  <1>6. reach = [i \in 0..N |-> IF i = 0 THEN First ELSE Grow(reach[i - 1])]
    BY <1>4, <1>5 DEF G
  <1>7. reach[N] \subseteq Ranks
    <2> DEFINE T == {k \in Nat : k <= N => reach[k] \subseteq Ranks}
    <2> HIDE DEF reach
    <2>1. 0 \in T
      BY <1>1, <1>5, <1>6
    <2>2. ASSUME NEW k \in Nat, k \in T PROVE k + 1 \in T
      <3>1. k + 1 <= N => reach[k + 1] = Grow(reach[k])
        BY <1>5, <1>6
      <3> QED BY <1>1, <1>5, <2>2, <3>1
    <2> HIDE DEF T
    <2>3. Nat \subseteq T
      BY <2>1, <2>2, Induction
    <2> QED BY <1>5, <2>3 DEF T
  <1>8. find_PotentialAdopters(t, c) = reach[N]
    BY DEF find_PotentialAdopters, First, Grow, N
  <1> QED BY <1>7, <1>8 DEF find_NewParent

-----------------------------------------------------------------------------
\* What a process does to its own state keeps that state sound.

\* Computing the table of outlets and the peers of the streams leaves the copy alone.
LEMMA TableGood ==
  ASSUME NEW self \in Ranks, NEW n, GoodNode(n)
  PROVE  /\ GoodNode(update_Router_Table(self, n)) /\ GoodNode(recompute_ChildrenNodes(n))
         /\ GoodNode(update_Streams(n))
         /\ update_Router_Table(self, n).topo = n.topo /\ recompute_ChildrenNodes(n).topo = n.topo
  <1>1. /\ n \in NodeSet /\ GoodTopology(n.topo) /\ n.kids \subseteq Ranks
        /\ n.table \in [Ranks -> Ranks \cup {NoRank}]
    BY DEF GoodNode, NodeSet
  <1>2. update_Table(n.topo, self, n.kids) \in [Ranks -> Ranks \cup {NoRank}]
    <2> DEFINE below == {<<k, get_Descendants(n.topo, k)>> :
                           k \in {k \in n.kids : self \in n.topo.nodes /\ k \in n.topo.nodes /\ n.topo.par[k] = self}}
    <2>1. \A b \in below : b[1] \in Ranks
      BY <1>1
    <2>2. update_Table(n.topo, self, n.kids) =
            [r \in Ranks |-> IF \E b \in below : r \in b[2]
                             THEN (CHOOSE b \in below : r \in b[2])[1] ELSE NoRank]
      BY DEF update_Table
    <2> HIDE DEF below
    <2> QED BY <2>1, <2>2
  <1>3. {get_OutletNode(n.table, e) : e \in EndPoints} \ {NoRank} \subseteq Ranks
    BY <1>1, TreeAssumption, RanksAssumption DEF get_OutletNode
  <1>4. /\ GoodNode(update_Router_Table(self, n)) /\ update_Router_Table(self, n).topo = n.topo
    BY <1>1, <1>2 DEF update_Router_Table, GoodNode, NodeSet
  <1>5. /\ GoodNode(recompute_ChildrenNodes(n)) /\ recompute_ChildrenNodes(n).topo = n.topo
    BY <1>1, <1>3 DEF recompute_ChildrenNodes, GoodNode, NodeSet
  <1> QED BY <1>4, <1>5 DEF update_Streams

\* A node with another copy, other children or other peers.
LEMMA NewCopyGood ==
  ASSUME NEW n, GoodNode(n), NEW t, GoodTopology(t), NEW r
  PROVE  /\ GoodNode([n EXCEPT !.topo = t]) /\ [n EXCEPT !.topo = t].topo = t
         /\ GoodNode(delete_PeerNode(n, r)) /\ GoodNode(Stream_remove_Node(n, r))
         /\ delete_PeerNode(n, r).topo = n.topo /\ Stream_remove_Node(n, r).topo = n.topo
  BY DEF GoodNode, GoodTopology, NodeSet, delete_PeerNode, Stream_remove_Node

LEMMA NetworkRemoveGood ==
  ASSUME NEW self \in Ranks, NEW n, GoodNode(n), NEW r \in Ranks \cup {NoRank}, NEW update \in BOOLEAN
  PROVE  GoodNode(Network_remove_Node(self, n, r, update))
  <1> DEFINE gone == delete_PeerNode(n, r)
             less == [gone EXCEPT !.topo = remove_Node(gone.topo, r)]
             cut == Stream_remove_Node(less, r)
  <1>1. GoodNode(gone)
    BY NewCopyGood DEF GoodNode
  <1> HIDE DEF gone
  <1>2. GoodTopology(remove_Node(gone.topo, r))
    BY <1>1, RemoveNodeGood DEF GoodNode
  <1>3. GoodNode(less)
    BY <1>1, <1>2, NewCopyGood
  <1> HIDE DEF less
  <1>4. GoodNode(cut)
    BY <1>3, NewCopyGood DEF GoodNode
  <1> HIDE DEF cut
  <1>5. GoodNode(update_Streams(update_Router_Table(self, cut)))
    BY <1>4, TableGood
  <1>6. Network_remove_Node(self, n, r, update) =
          IF update THEN update_Streams(update_Router_Table(self, cut)) ELSE cut
    BY DEF Network_remove_Node, cut, less, gone
  <1> QED BY <1>4, <1>5, <1>6

LEMMA ChangeParentGood ==
  ASSUME NEW self \in Ranks, NEW n, GoodNode(n), NEW child \in Below0, NEW par \in Ranks
  PROVE  GoodNode(change_Parent(self, n, child, par))
  <1> DEFINE put == [n EXCEPT !.topo = set_Parent(n.topo, child, par)]
             moved == IF n.topo.par[child] = par THEN n ELSE update_Router_Table(self, put)
  <1>1. GoodNode(put)
    BY SetParentGood, NewCopyGood DEF GoodNode
  <1> HIDE DEF put
  <1>2. GoodNode(moved)
    BY <1>1, TableGood
  <1> HIDE DEF moved
  <1>3. GoodNode(update_Streams(moved))
    BY <1>2, TableGood
  <1>4. change_Parent(self, n, child, par) \in {n, moved, update_Streams(moved)}
    BY DEF change_Parent, moved, put
  <1> QED BY <1>2, <1>3, <1>4

LEMMA UpdateGood ==
  ASSUME NEW self \in Ranks, NEW n, GoodNode(n), NEW u \in GoodUpdates
  PROVE  GoodNode(apply_Update(self, n, u))
  <1>1. u.child \in Below0 /\ u.child \in Ranks /\ u.par \in Ranks
    BY DEF GoodUpdates, Below0
  <1>2. GoodNode(update_removeNode(self, n, u))
    <2>1. GoodNode(Network_remove_Node(self, n, u.child, TRUE))
      BY <1>1, NetworkRemoveGood
    <2>2. GoodTopology(remove_Node(n.topo, u.child))
      BY <1>1, RemoveNodeGood DEF GoodNode
    <2>3. GoodNode([n EXCEPT !.topo = remove_Node(n.topo, u.child)])
      BY <2>2, NewCopyGood
    <2> QED BY <2>1, <2>3 DEF update_removeNode
  <1>3. GoodNode(update_changeParent(self, n, u))
    BY <1>1, ChangeParentGood DEF update_changeParent
  <1> QED BY <1>2, <1>3 DEF apply_Update

LEMMA MoveBelowGood ==
  ASSUME NEW self \in Ranks, NEW n, GoodNode(n), NEW child \in Below0, NEW failed \in Ranks, NEW new \in Ranks
  PROVE  GoodNode(move_Below(self, n, child, failed, new))
  BY NetworkRemoveGood, ChangeParentGood DEF move_Below

\* The updates of a packet, however many, are applied one after the other.
LEMMA UpdatesGood ==
  ASSUME NEW self \in Ranks, NEW n, GoodNode(n), NEW updates \in Seq(GoodUpdates)
  PROVE  GoodNode(tfilter_TopoUpdate(self, n, updates))
  <1> DEFINE Step(x, i) == apply_Update(self, x, updates[i])
             G(k) == \E f : f = [i \in 0..k |-> IF i = 0 THEN n ELSE Step(f[i - 1], i)]
             S == {k \in Nat : G(k)}
             N == Len(updates)
  <1>1. N \in Nat /\ \A i \in 1..N : updates[i] \in GoodUpdates
    OBVIOUS
  <1>2. \A x, i : GoodNode(x) /\ i \in 1..N => GoodNode(Step(x, i))
    BY <1>1, UpdateGood
  <1> HIDE DEF Step, N
  <1>3. G(0)
    <2> DEFINE f == [i \in 0..0 |-> n]
    <2>1. f = [i \in 0..0 |-> IF i = 0 THEN n ELSE Step(f[i - 1], i)]
      OBVIOUS
    <2> QED BY <2>1
  <1>4. ASSUME NEW k \in Nat, G(k) PROVE G(k + 1)
    <2>1. PICK g : g = [i \in 0..k |-> IF i = 0 THEN n ELSE Step(g[i - 1], i)]
      BY <1>4
    <2> DEFINE f == [i \in 0..(k + 1) |-> IF i = k + 1 THEN Step(g[k], k + 1) ELSE g[i]]
    <2>2. ASSUME NEW i \in 0..(k + 1)
          PROVE  f[i] = IF i = 0 THEN n ELSE Step(f[i - 1], i)
      <3>1. CASE i = 0
        BY <2>1, <3>1
      <3>2. CASE i # 0 /\ i # k + 1
        <4>1. i - 1 \in 0..k /\ i \in 0..k
          BY <3>2
        <4>2. f[i] = g[i] /\ f[i - 1] = g[i - 1]
          BY <4>1, <3>2
        <4>3. g[i] = Step(g[i - 1], i)
          BY <2>1, <4>1, <3>2
        <4> QED BY <4>2, <4>3, <3>2
      <3>3. CASE i = k + 1
        BY <3>3
      <3> QED BY <3>1, <3>2, <3>3
    <2>3. f = [i \in 0..(k + 1) |-> IF i = 0 THEN n ELSE Step(f[i - 1], i)]
      BY <2>2
    <2> QED BY <2>3
  <1> HIDE DEF G
  <1>5. G(N)
    <2>1. 0 \in S
      BY <1>3
    <2>2. \A k \in Nat : k \in S => k + 1 \in S
      BY <1>4
    <2> HIDE DEF S
    <2>3. Nat \subseteq S
      BY <2>1, <2>2, Induction
    <2> QED BY <1>1, <2>3 DEF S
  <1> DEFINE after == CHOOSE f : f = [i \in 0..N |-> IF i = 0 THEN n ELSE Step(f[i - 1], i)]
  <1>6. after = [i \in 0..N |-> IF i = 0 THEN n ELSE Step(after[i - 1], i)]
    BY <1>5 DEF G
  <1>7. tfilter_TopoUpdate(self, n, updates) = after[N]
    BY DEF tfilter_TopoUpdate, Step, N
  <1>8. GoodNode(after[N])
    <2> DEFINE T == {k \in Nat : k <= N => GoodNode(after[k])}
    <2> HIDE DEF after
    <2>1. 0 \in T
      BY <1>1, <1>6
    <2>2. ASSUME NEW k \in Nat, k \in T PROVE k + 1 \in T
      <3>1. k + 1 <= N => after[k + 1] = Step(after[k], k + 1) /\ k + 1 \in 1..N
        BY <1>1, <1>6
      <3> QED BY <1>1, <1>2, <2>2, <3>1
    <2> HIDE DEF T
    <2>3. Nat \subseteq T
      BY <2>1, <2>2, Induction
    <2> QED BY <1>1, <2>3 DEF T
  <1> QED BY <1>7, <1>8

-----------------------------------------------------------------------------
\* The tree that was built is a sound copy.
LEMMA StartGood ==
  /\ GoodTopology(StartTopology)
  /\ \A p \in Ranks : GoodNode(StartNode(p)) /\ get_Children(StartTopology, p) \subseteq Below0
  <1>1. GoodTopology(StartTopology)
    BY TreeAssumption, RanksAssumption DEF StartTopology, GoodTopology, TopologySet, WellFormed
  <1>2. ASSUME NEW p \in Ranks
        PROVE  GoodNode(StartNode(p)) /\ get_Children(StartTopology, p) \subseteq Below0
    <2> DEFINE bare == [topo |-> StartTopology, kids |-> get_Children(StartTopology, p),
                        table |-> [r \in Ranks |-> NoRank], peers |-> {}]
    <2>1. get_Children(StartTopology, p) \subseteq Below0
      BY TreeAssumption, RanksAssumption DEF StartTopology, get_Children, Below0
    <2>2. GoodNode(bare)
      BY <1>1, <2>1 DEF GoodNode, NodeSet, GoodTopology, Below0
    <2>3. StartNode(p) = recompute_ChildrenNodes(update_Router_Table(p, bare))
      BY DEF StartNode
    <2> HIDE DEF bare
    <2> QED BY <2>1, <2>2, <2>3, TableGood
  <1> QED BY <1>1, <1>2

LEMMA RecoveryInit == Init => RecoveryInv
  <1> SUFFICES ASSUME Init PROVE RecoveryInv
    OBVIOUS
  <1>1. CopiesInv
    BY StartGood DEF Init, CopiesInv, GoodNode
  <1>2. ParentInv
    <2>1. rec \in [Ranks -> [at : Steps, old : Ranks \cup {NoRank}]]
      BY DEF Init, Idle, Steps
    <2>2. \A p \in Ranks : rec[p].at = "idle"
      BY DEF Init, Idle
    <2>3. joined \in [Ranks -> SUBSET Below0] /\ fd \in [Ranks -> SUBSET Below0]
      BY StartGood DEF Init
    <2> QED BY <2>1, <2>2, <2>3, TreeAssumption DEF Init, ParentInv, Below0
  <1>3. TravelInv
    BY DEF Init, TravelInv
  <1> QED BY <1>1, <1>2, <1>3 DEF RecoveryInv

-----------------------------------------------------------------------------
\* One process's state is replaced by a sound one.
LEMMA OneCopyChanges ==
  ASSUME CopiesInv, NEW p \in Ranks, NEW n, GoodNode(n), node' = [node EXCEPT ![p] = n]
  PROVE  CopiesInv'
  BY DEF CopiesInv, GoodNode

LEMMA NodesGood == ASSUME CopiesInv, NEW p \in Ranks PROVE GoodNode(node[p]) /\ node[p].topo \in TopologySet
  BY DEF CopiesInv, GoodNode, GoodTopology

LEMMA ConcatTyped == ASSUME NEW S, NEW s \in Seq(S), NEW t \in Seq(S) PROVE s \o t \in Seq(S)
  OBVIOUS

\* Updates go upstream, from a process that has a parent, or are kept by the front-end.
LEMMA UpstreamGood ==
  ASSUME ParentInv, TravelInv, NEW p \in Ranks, NEW updates \in Seq(GoodUpdates), send_Upstream(p, updates)
  PROVE  buffer' \in Seq(GoodUpdates) /\ toParent' \in [Ranks \X Ranks -> Seq(UpdatePackets)]
  <1>1. CASE p = Root
    <2>1. buffer' = buffer \o updates /\ toParent' = toParent
      BY <1>1 DEF send_Upstream
    <2>2. buffer \in Seq(GoodUpdates) /\ toParent \in [Ranks \X Ranks -> Seq(UpdatePackets)]
      BY DEF TravelInv
    <2>3. buffer \o updates \in Seq(GoodUpdates)
      BY <2>2, ConcatTyped
    <2> QED BY <2>1, <2>2, <2>3
  <1>2. CASE p # Root
    <2>1. TopoUpdate(updates) \in UpdatePackets
      BY DEF TopoUpdate, UpdatePackets
    <2>2. <<p, up[p]>> \in Ranks \X Ranks
      BY <1>2 DEF ParentInv, Below0
    <2>3. toParent[<<p, up[p]>>] \in Seq(UpdatePackets)
      BY <2>2 DEF TravelInv
    <2>4. Append(toParent[<<p, up[p]>>], TopoUpdate(updates)) \in Seq(UpdatePackets)
      BY <2>1, <2>3
    <2> QED BY <1>2, <2>2, <2>4 DEF send_Upstream, TravelInv
  <1> QED BY <1>1, <1>2

\* A packet goes to some of the children.
LEMMA DownstreamGood ==
  ASSUME TravelInv, NEW p, NEW to, NEW packet \in UpdatePackets \cup ReportPackets, send_Downstream(p, to, packet)
  PROVE  toChild' \in [Ranks \X Ranks -> Seq(UpdatePackets \cup ReportPackets)]
  BY DEF send_Downstream, TravelInv

\* A packet from a parent is taken off its link and passed to some of the children.
LEMMA ForwardGood ==
  ASSUME TravelInv, NEW c \in Ranks, NEW p \in Ranks, NEW to, toChild[<<p, c>>] # <<>>, forward(c, p, to)
  PROVE  toChild' \in [Ranks \X Ranks -> Seq(UpdatePackets \cup ReportPackets)]
  <1>1. toChild[<<p, c>>] \in Seq(UpdatePackets \cup ReportPackets)
    BY DEF TravelInv
  <1>2. Head(toChild[<<p, c>>]) \in UpdatePackets \cup ReportPackets
    BY <1>1
  <1>3. ASSUME NEW l \in Ranks \X Ranks PROVE toChild'[l] \in Seq(UpdatePackets \cup ReportPackets)
    <2>1. toChild[l] \in Seq(UpdatePackets \cup ReportPackets)
      BY DEF TravelInv
    <2>2. CASE l = <<p, c>>
      BY <1>1, <2>1, <2>2 DEF forward
    <2>3. CASE l # <<p, c>>
      BY <1>2, <2>1, <2>3 DEF forward
    <2> QED BY <2>2, <2>3
  <1> QED BY <1>3 DEF forward

\* The event detector of a process is disabled.
LEMMA DisableGood ==
  ASSUME ParentInv, NEW c \in Ranks, disable(c)
  PROVE  /\ off' \subseteq Ranks /\ rec' \in [Ranks -> [at : Steps, old : Ranks \cup {NoRank}]]
         /\ \A p \in Ranks : rec'[p].at # "idle" => p # Root /\ rec'[p].old \in Ranks
  BY DEF ParentInv, disable, Idle, Steps

-----------------------------------------------------------------------------
\* One step of any process keeps the copies and what travels between them sound.
LEMMA RecoveryStep == ASSUME RecoveryInv, Next PROVE RecoveryInv'
  <1> USE DEF RecoveryInv
  <1>1. ASSUME NEW p \in Ranks, Crash(p) PROVE RecoveryInv'
    <2>1. CopiesInv'
      BY <1>1 DEF Crash, CopiesInv
    <2>2. ParentInv'
      BY <1>1, TreeAssumption DEF Crash, ParentInv, links
    <2>3. TravelInv'
      BY <1>1 DEF Crash, TravelInv, links
    <2> QED BY <2>1, <2>2, <2>3
  <1>2. ASSUME NEW p \in Ranks, NEW c \in Ranks, recover_FromChildFailure(p, c) PROVE RecoveryInv'
    <2> DEFINE u == Update("TOPO_REMOVE_RANK", p, c)
    <2>1. <<u>> \in Seq(GoodUpdates)
      BY <1>2 DEF recover_FromChildFailure, Update, GoodUpdates, ParentInv
    <2> HIDE DEF u
    <2>2. CopiesInv'
      <3>1. GoodNode(tfilter_TopoUpdate(p, node[p], <<u>>))
        BY <2>1, NodesGood, UpdatesGood
      <3> QED BY <1>2, <3>1, OneCopyChanges DEF recover_FromChildFailure, u
    <2>3. ParentInv'
      BY <1>2 DEF recover_FromChildFailure, ParentInv
    <2>4. TravelInv'
      BY <1>2, <2>1, UpstreamGood DEF recover_FromChildFailure, TravelInv, u
    <2> QED BY <2>2, <2>3, <2>4
  <1>3. ASSUME NEW p \in Ranks, proc_NewChildDataConnection(p) PROVE RecoveryInv'
    <2> DEFINE hello == Head(listen[p])
               c == hello.child
               u == Update("TOPO_CHANGE_PARENT", p, c)
               linked == [node[p] EXCEPT !.kids = @ \cup {c}, !.topo = add_SubGraph(@, p, hello.sub)]
    <2>1. hello \in Hellos /\ Tail(listen[p]) \in Seq(Hellos)
      BY <1>3 DEF proc_NewChildDataConnection, TravelInv
    <2>2. c \in Below0 /\ c \in Ranks /\ GoodSubTree(hello.sub)
      BY <2>1 DEF Hellos, Below0
    <2>3. <<u>> \in Seq(GoodUpdates)
      BY <2>2 DEF Update, GoodUpdates
    <2>4. GoodNode(linked)
      <3>1. GoodNode(node[p])
        BY NodesGood
      <3>2. GoodTopology(add_SubGraph(node[p].topo, p, hello.sub))
        BY <2>2, <3>1, AddSubGraphGood DEF GoodNode
      <3> QED BY <2>2, <3>1, <3>2 DEF GoodNode, GoodTopology, NodeSet
    <2> HIDE DEF u, linked
    <2>5. CopiesInv'
      <3>1. GoodNode(update_Router_Table(p, linked))
        BY <2>4, TableGood
      <3>2. GoodNode(tfilter_TopoUpdate(p, update_Router_Table(p, linked), <<u>>))
        BY <2>3, <3>1, UpdatesGood
      <3> QED BY <1>3, <3>2, OneCopyChanges DEF proc_NewChildDataConnection, u, linked
    <2>6. ParentInv'
      BY <1>3, <2>2 DEF proc_NewChildDataConnection, ParentInv
    <2>7. buffer' \in Seq(GoodUpdates) /\ toParent' \in [Ranks \X Ranks -> Seq(UpdatePackets)]
      BY <1>3, <2>3, UpstreamGood DEF proc_NewChildDataConnection, u
    <2>8. TravelInv'
      BY <1>3, <2>1, <2>7 DEF proc_NewChildDataConnection, TravelInv
    <2> QED BY <2>5, <2>6, <2>8
  <1>4. ASSUME NEW p \in Ranks, proc_NewChildFDConnection(p) PROVE RecoveryInv'
    <2>1. Head(listen[p]) \in Hellos /\ Tail(listen[p]) \in Seq(Hellos)
      BY <1>4 DEF proc_NewChildFDConnection, TravelInv
    <2>2. Head(listen[p]).child \in Below0
      BY <2>1 DEF Hellos
    <2>3. CopiesInv'
      BY <1>4 DEF proc_NewChildFDConnection, CopiesInv
    <2>4. ParentInv'
      BY <1>4, <2>2 DEF proc_NewChildFDConnection, ParentInv
    <2>5. TravelInv'
      BY <1>4, <2>1 DEF proc_NewChildFDConnection, TravelInv, links
    <2> QED BY <2>3, <2>4, <2>5
  <1>5. ASSUME NEW c \in Ranks, find_Adopter(c) PROVE RecoveryInv'
    <2>1. CopiesInv' /\ TravelInv'
      BY <1>5 DEF find_Adopter, CopiesInv, TravelInv, links
    <2>2. c \in Below0 /\ up[c] \in Ranks
      BY <1>5 DEF find_Adopter, running, Below0, ParentInv
    <2>3. find_NewParent(node[c].topo, c) \subseteq Ranks
      BY NodesGood, AdoptersAreRanks
    <2>4. CASE disable(c) /\ up' = up
      <3>1. UNCHANGED <<alive, crashes, joined, fd>>
        BY <1>5 DEF find_Adopter
      <3>2. /\ off' \subseteq Ranks /\ rec' \in [Ranks -> [at : Steps, old : Ranks \cup {NoRank}]]
            /\ \A p \in Ranks : rec'[p].at # "idle" => p # Root /\ rec'[p].old \in Ranks
        BY <2>4, DisableGood
      <3> QED BY <2>1, <2>4, <3>1, <3>2 DEF ParentInv
    <2>5. ASSUME NEW a \in find_NewParent(node[c].topo, c), up' = [up EXCEPT ![c] = a],
                 rec' = [rec EXCEPT ![c] = [at |-> "connect", old |-> up[c]]], off' = off
          PROVE  ParentInv'
      <3>1. [at |-> "connect", old |-> up[c]] \in [at : Steps, old : Ranks \cup {NoRank}]
        BY <2>2 DEF Steps
      <3>2. rec' \in [Ranks -> [at : Steps, old : Ranks \cup {NoRank}]]
        BY <2>5, <3>1 DEF ParentInv
      <3>3. \A p \in Ranks : rec'[p].at # "idle" => p # Root /\ rec'[p].old \in Ranks
        BY <2>2, <2>5 DEF ParentInv, Below0
      <3>4. up' \in [Ranks -> Ranks \cup {NoRank}] /\ \A p \in Below0 : up'[p] \in Ranks
        BY <2>2, <2>3, <2>5 DEF ParentInv
      <3> QED BY <1>5, <2>5, <3>2, <3>3, <3>4 DEF find_Adopter, ParentInv
    <2> QED BY <1>5, <2>1, <2>4, <2>5 DEF find_Adopter
  <1>6. ASSUME NEW c \in Ranks, init_newChildDataConnection(c) PROVE RecoveryInv'
    <2> DEFINE sub == get_LocalSubTree(node[c].topo, c)
               hello == [tag |-> "PROT_NEW_CHILD_DATA_CONNECTION", child |-> c, sub |-> sub]
    <2>1. CopiesInv'
      BY <1>6 DEF init_newChildDataConnection, CopiesInv
    <2>2. c \in Below0 /\ up[c] \in Ranks
      BY <1>6 DEF init_newChildDataConnection, Below0, ParentInv
    <2>3. hello \in Hellos
      <3>1. GoodSubTree(sub)
        BY <2>2, NodesGood, LocalSubTreeGood DEF GoodNode
      <3> HIDE DEF sub
      <3> QED BY <2>2, <3>1 DEF Hellos, GoodSubTree
    <2>4. CASE disable(c) /\ listen' = listen
      BY <1>6, <2>1, <2>4, DisableGood DEF init_newChildDataConnection, ParentInv, TravelInv, links
    <2>5. CASE /\ listen' = [listen EXCEPT ![up[c]] = Append(@, hello)]
               /\ rec' = [rec EXCEPT ![c].at = "event"] /\ off' = off
      <3> HIDE DEF hello
      <3>1. ParentInv'
        BY <1>6, <2>2, <2>5 DEF init_newChildDataConnection, ParentInv, Steps, Below0
      <3>2. TravelInv'
        BY <1>6, <2>2, <2>3, <2>5 DEF init_newChildDataConnection, TravelInv, links
      <3> QED BY <2>1, <3>1, <3>2
    <2> QED BY <1>6, <2>4, <2>5 DEF init_newChildDataConnection
  <1>7. ASSUME NEW c \in Ranks, init_NewChildFDConnection(c) PROVE RecoveryInv'
    <2> DEFINE hello == [tag |-> "PROT_NEW_CHILD_FD_CONNECTION", child |-> c, sub |-> NoSubTree]
    <2>1. CopiesInv'
      BY <1>7 DEF init_NewChildFDConnection, CopiesInv
    <2>2. c \in Below0 /\ up[c] \in Ranks
      BY <1>7 DEF init_NewChildFDConnection, Below0, ParentInv
    <2>3. hello \in Hellos
      <3>1. GoodSubTree(NoSubTree)
        BY <2>2, NodesGood, LocalSubTreeGood DEF GoodNode
      <3> QED BY <2>2, <3>1 DEF Hellos, GoodSubTree
    <2>4. CASE disable(c) /\ listen' = listen
      BY <1>7, <2>1, <2>4, DisableGood DEF init_NewChildFDConnection, ParentInv, TravelInv, links
    <2>5. CASE /\ listen' = [listen EXCEPT ![up[c]] = Append(@, hello)]
               /\ rec' = [rec EXCEPT ![c].at = "finish"] /\ off' = off
      <3> HIDE DEF hello
      <3>1. ParentInv'
        BY <1>7, <2>2, <2>5 DEF init_NewChildFDConnection, ParentInv, Steps, Below0
      <3>2. TravelInv'
        BY <1>7, <2>2, <2>3, <2>5 DEF init_NewChildFDConnection, TravelInv, links
      <3> QED BY <2>1, <3>1, <3>2
    <2> QED BY <1>7, <2>4, <2>5 DEF init_NewChildFDConnection
  <1>8. ASSUME NEW c \in Ranks, recover_FromParentFailure(c) PROVE RecoveryInv'
    <2>1. c \in Below0 /\ up[c] \in Ranks /\ rec[c].old \in Ranks
      BY <1>8 DEF recover_FromParentFailure, Below0, ParentInv
    <2>2. CopiesInv'
      <3>1. GoodNode(move_Below(c, node[c], c, rec[c].old, up[c]))
        BY <2>1, NodesGood, MoveBelowGood
      <3> QED BY <1>8, <3>1, OneCopyChanges DEF recover_FromParentFailure
    <2>3. ParentInv'
      BY <1>8 DEF recover_FromParentFailure, ParentInv, Idle, Steps
    <2>4. TravelInv'
      <3>1. RecoveryRpt(c, rec[c].old, up[c]) \in ReportPackets
        BY <2>1 DEF RecoveryRpt, ReportPackets
      <3> QED BY <1>8, <3>1, DownstreamGood DEF recover_FromParentFailure, TravelInv
    <2> QED BY <2>2, <2>3, <2>4
  <1>9. ASSUME NEW p \in Ranks, NEW c \in Ranks, proc_UpdateFromChild(p, c) PROVE RecoveryInv'
    <2> DEFINE packet == Head(toParent[<<c, p>>])
    <2>1. toParent[<<c, p>>] \in Seq(UpdatePackets) /\ toParent[<<c, p>>] # <<>>
      BY <1>9 DEF proc_UpdateFromChild, TravelInv
    <2>2. packet \in UpdatePackets /\ packet.updates \in Seq(GoodUpdates)
      <3>1. packet \in UpdatePackets
        BY <2>1
      <3> HIDE DEF packet
      <3> QED BY <3>1 DEF UpdatePackets
    <2> HIDE DEF packet
    <2>3. CopiesInv'
      <3>1. GoodNode(tfilter_TopoUpdate(p, node[p], packet.updates))
        BY <2>2, NodesGood, UpdatesGood
      <3> QED BY <1>9, <3>1, OneCopyChanges DEF proc_UpdateFromChild, packet
    <2>4. ParentInv'
      BY <1>9 DEF proc_UpdateFromChild, ParentInv
    <2>5. buffer' \in Seq(GoodUpdates)
      <3>1. buffer' \in {buffer, buffer \o packet.updates}
        BY <1>9 DEF proc_UpdateFromChild, packet
      <3>2. buffer \in Seq(GoodUpdates)
        BY DEF TravelInv
      <3>3. buffer \o packet.updates \in Seq(GoodUpdates)
        BY <2>2, <3>2, ConcatTyped
      <3> QED BY <3>1, <3>2, <3>3
    <2>6. toParent' \in [Ranks \X Ranks -> Seq(UpdatePackets)]
      <3> DEFINE short == [toParent EXCEPT ![<<c, p>>] = Tail(@)]
      <3>1. short \in [Ranks \X Ranks -> Seq(UpdatePackets)]
        BY <2>1 DEF TravelInv
      <3>2. CASE p = Root
        BY <1>9, <3>1, <3>2 DEF proc_UpdateFromChild
      <3>3. CASE p # Root
        <4>1. <<p, up[p]>> \in Ranks \X Ranks
          BY <3>3 DEF ParentInv, Below0
        <4>2. toParent' = [short EXCEPT ![<<p, up[p]>>] = Append(@, packet)]
          BY <1>9, <3>3 DEF proc_UpdateFromChild, packet
        <4> HIDE DEF short
        <4>3. Append(short[<<p, up[p]>>], packet) \in Seq(UpdatePackets)
          BY <2>2, <3>1, <4>1
        <4> QED BY <3>1, <4>1, <4>2, <4>3
      <3> QED BY <3>2, <3>3
    <2>7. TravelInv'
      BY <1>9, <2>5, <2>6 DEF proc_UpdateFromChild, TravelInv
    <2> QED BY <2>3, <2>4, <2>7
  <1>10. ASSUME NEW c \in Ranks, NEW p \in Ranks, proc_UpdateFromParent(c, p) PROVE RecoveryInv'
    <2> DEFINE packet == Head(toChild[<<p, c>>])
    <2>1. toChild[<<p, c>>] \in Seq(UpdatePackets \cup ReportPackets) /\ toChild[<<p, c>>] # <<>>
      BY <1>10 DEF proc_UpdateFromParent, TravelInv
    <2>2. packet.updates \in Seq(GoodUpdates)
      BY <1>10, <2>1 DEF proc_UpdateFromParent, UpdatePackets, ReportPackets
    <2> HIDE DEF packet
    <2>3. CopiesInv'
      <3>1. GoodNode(tfilter_TopoUpdate(c, node[c], packet.updates))
        BY <2>2, NodesGood, UpdatesGood
      <3> QED BY <1>10, <3>1, OneCopyChanges DEF proc_UpdateFromParent, packet
    <2>4. ParentInv'
      BY <1>10 DEF proc_UpdateFromParent, ParentInv
    <2>5. TravelInv'
      BY <1>10, ForwardGood DEF proc_UpdateFromParent, TravelInv
    <2> QED BY <2>3, <2>4, <2>5
  <1>11. ASSUME NEW c \in Ranks, NEW p \in Ranks, proc_RecoveryReport(c, p) PROVE RecoveryInv'
    <2> DEFINE packet == Head(toChild[<<p, c>>])
    <2>1. toChild[<<p, c>>] \in Seq(UpdatePackets \cup ReportPackets) /\ toChild[<<p, c>>] # <<>>
      BY <1>11 DEF proc_RecoveryReport, TravelInv
    <2>2. packet.child \in Below0 /\ packet.failed \in Ranks /\ packet.new \in Ranks
      BY <1>11, <2>1 DEF proc_RecoveryReport, UpdatePackets, ReportPackets
    <2> HIDE DEF packet
    <2>3. CopiesInv'
      <3>1. GoodNode(move_Below(c, node[c], packet.child, packet.failed, packet.new))
        BY <2>2, NodesGood, MoveBelowGood
      <3> QED BY <1>11, <3>1, OneCopyChanges DEF proc_RecoveryReport, packet
    <2>4. ParentInv'
      BY <1>11 DEF proc_RecoveryReport, ParentInv
    <2>5. TravelInv'
      BY <1>11, ForwardGood DEF proc_RecoveryReport, TravelInv
    <2> QED BY <2>3, <2>4, <2>5
  <1>12. ASSUME send_TopologyUpdates PROVE RecoveryInv'
    <2>1. TopoUpdate(buffer) \in UpdatePackets
      BY DEF TopoUpdate, UpdatePackets, TravelInv
    <2>2. TravelInv'
      BY <1>12, <2>1, DownstreamGood DEF send_TopologyUpdates, TravelInv
    <2> QED BY <1>12, <2>2 DEF send_TopologyUpdates, CopiesInv, ParentInv
  <1>13. ASSUME NEW c \in Ranks, proc_RemoteShutDown(c) PROVE RecoveryInv'
    BY <1>13, DisableGood DEF proc_RemoteShutDown, CopiesInv, ParentInv, TravelInv, links
  <1>14. ASSUME NEW p \in Ranks, ShutDown(p) PROVE RecoveryInv'
    <2>1. CopiesInv' /\ ParentInv'
      BY <1>14 DEF ShutDown, CopiesInv, ParentInv
    <2>2. TravelInv'
      BY <1>14 DEF ShutDown, TravelInv, links
    <2> QED BY <2>1, <2>2
  <1> QED
    BY <1>1, <1>2, <1>3, <1>4, <1>5, <1>6, <1>7, <1>8, <1>9, <1>10, <1>11, <1>12, <1>13, <1>14
       DEF Next, Detect, FailOver, Receive


-----------------------------------------------------------------------------
\* The copies, the parents and what travels stay sound in every behaviour.
LEMMA RecoveryInvariant == Spec => []RecoveryInv
  <1>1. ASSUME RecoveryInv, UNCHANGED vars PROVE RecoveryInv'
    BY <1>1 DEF RecoveryInv, CopiesInv, ParentInv, TravelInv, vars, links
  <1>2. RecoveryInv /\ [Next]_vars => RecoveryInv'
    BY <1>1, RecoveryStep
  <1> QED BY RecoveryInit, <1>2, PTL DEF Spec

\* The inductive invariant gives what the copies of the topology promise.
LEMMA InvImpliesCopiesSound == RecoveryInv => CopiesSound
  <1> SUFFICES ASSUME RecoveryInv PROVE CopiesSound
    OBVIOUS
  <1> USE DEF RecoveryInv
  <1>1. CopiesWellFormed
    BY DEF CopiesInv, GoodNode, GoodTopology, WellFormed, CopiesWellFormed
  <1>2. node \in [Ranks -> NodeSet]
    BY DEF CopiesInv, GoodNode
  <1>3. buffer \in Seq(UpdateSet)
    <2>1. GoodUpdates \subseteq UpdateSet
      BY DEF GoodUpdates, UpdateSet, Below0
    <2>2. buffer \in Seq(GoodUpdates)
      BY DEF TravelInv
    <2> QED BY <2>1, <2>2
  <1>4. /\ alive \subseteq Ranks /\ off \subseteq Ranks /\ crashes \in 0..MaxCrashes
        /\ up \in [Ranks -> Ranks \cup {NoRank}]
        /\ rec \in [Ranks -> [at : Steps, old : Ranks \cup {NoRank}]]
    BY DEF ParentInv
  <1>5. joined \in [Ranks -> SUBSET Ranks] /\ fd \in [Ranks -> SUBSET Ranks]
    BY DEF ParentInv, Below0
  <1> QED BY <1>1, <1>2, <1>3, <1>4, <1>5 DEF CopiesSound, TypeOK

\* However crashes, removals, re-parentings, subtrees and recovery reports interleave, in a
\* tree of any size and with any number of crashes, the copy of the topology that every
\* process keeps is a forest of known nodes: a parent is itself in the copy, and a node
\* without one is the front-end or listed in _orphans (NetworkTopology.C, EventDetector.C).
THEOREM CopiesSoundTheorem == Spec => []CopiesSound
  BY RecoveryInvariant, InvImpliesCopiesSound, PTL
=============================================================================
