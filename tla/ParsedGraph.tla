----------------------------- MODULE ParsedGraph -----------------------------
(***************************************************************************)
(* Reading a topology file: the grammar's actions build a graph of nodes   *)
(* named by network name and local rank (parser.y, ParsedGraph.C), which   *)
(* is validated, ranked and turned into a SerialGraph.                     *)
(* A file is a sequence of lines [parent, kids] of names <<host, index>>;  *)
(* a line "host ;" has no kids.                                            *)
(***************************************************************************)
EXTENDS SerialGraph, SequencesExt

CONSTANT NetworkName       \* host -> the address XPlat::NetUtils::GetNetworkName finds
UnknownPort == 65535

\* find_Node and add_Node key a node by its network name and its local rank.
Key(name) == <<NetworkName[name[1]], name[2]>>

\* rule "host": a node not seen before may be the root.
host(p, name) ==
  IF Key(name) \in DOMAIN p.kids THEN p
  ELSE [kids |-> [k \in DOMAIN p.kids \cup {Key(name)} |-> IF k \in DOMAIN p.kids THEN p.kids[k] ELSE <<>>],
        roots |-> Append(p.roots, Key(name))]
adopt_candidate(p, parent, name) ==
  [kids |-> [p.kids EXCEPT ![Key(parent)] = Append(@, Key(name))], roots |-> p.roots]
\* rule "line: host ARROW hosts SEMI": the hosts become children of the first.
adopt(p, parent, name) ==
  [kids |-> [p.kids EXCEPT ![Key(parent)] = Append(@, Key(name))],
   roots |-> SelectSeq(p.roots, LAMBDA k : k # Key(name))]
line(p, l) ==
  LET seen[i \in 0..Len(l.kids)] == IF i = 0 THEN host(p, l.parent) ELSE host(seen[i - 1], l.kids[i])
      done[i \in 0..Len(l.kids)] == IF i = 0 THEN seen[Len(l.kids)] ELSE adopt(done[i - 1], l.parent, l.kids[i])
  IN  done[Len(l.kids)]
\* rule "config": all lines, then exactly one candidate must be left.
config(file) ==
  LET upto[i \in 0..Len(file)] == IF i = 0 THEN [kids |-> <<>>, roots |-> <<>>] ELSE line(upto[i - 1], file[i])
      p == upto[Len(file)]
  IN  [ok |-> Len(p.roots) = 1, kids |-> p.kids, root |-> IF p.roots = <<>> THEN <<0, 0>> ELSE p.roots[1]]

\* preorder_traversal with the stack made explicit: a node met again is "its own ancestor"
\* and is not entered again.
preorder_traversal(g) ==
  LET edges == Cardinality(UNION {{<<k, i>> : i \in 1..Len(g.kids[k])} : k \in DOMAIN g.kids})
      walk[n \in 0..edges + 1] ==
        IF n = 0 THEN [todo |-> <<g.root>>, visited |-> {}, free |-> TRUE]
        ELSE LET w == walk[n - 1]
             IN  IF w.todo = <<>> THEN w
                 ELSE IF Head(w.todo) \in w.visited
                 THEN [todo |-> Tail(w.todo), visited |-> w.visited, free |-> FALSE]
                 ELSE [todo |-> g.kids[Head(w.todo)] \o Tail(w.todo),
                       visited |-> w.visited \cup {Head(w.todo)}, free |-> w.free]
  IN  walk[edges + 1]
\* fully connected and free of cycles
validate_count(g) == Cardinality(preorder_traversal(g).visited) = Cardinality(DOMAIN g.kids)
validate(g) ==
  /\ Cardinality(preorder_traversal(g).visited) = Cardinality(DOMAIN g.kids)
  /\ preorder_traversal(g).free

\* The order of the map _nodes
Before(a, b) == a[1] < b[1] \/ (a[1] = b[1] /\ a[2] < b[2])
Position(S, k) == Cardinality({j \in S : Before(j, k)})
assign_NodeRanks_again(g, backends) ==
  LET all == DOMAIN g.kids
      bes == {k \in all : g.kids[k] = <<>>}
  IN  [k \in all |-> IF ~backends \/ k \notin bes THEN Position(all, k) ELSE Position(bes, k)]
\* Back-ends first when they are ranked here, then the others, in the order of the map.
assign_NodeRanks(g, backends) ==
  LET all == DOMAIN g.kids
      bes == {k \in all : g.kids[k] = <<>>}
  IN  [k \in all |-> IF ~backends THEN Position(all, k)
                     ELSE IF k \in bes THEN Position(bes, k)
                     ELSE Cardinality(bes) + Position(all \ bes, k)]

\* serialize: depth first, from the bottom up here
serialize(g, ranks, have_backends) ==
  LET height[n \in 0..Cardinality(DOMAIN g.kids)] ==
        [k \in DOMAIN g.kids |->
           IF g.kids[k] = <<>> /\ have_backends THEN add_Leaf(<<>>, k[1], UnknownPort, ranks[k])
           ELSE IF n = 0 THEN <<>>
           ELSE LET kid[i \in 0..Len(g.kids[k])] ==
                      IF i = 0 THEN add_SubTreeRoot(<<>>, k[1], UnknownPort, ranks[k])
                      ELSE kid[i - 1] \o height[n - 1][g.kids[k][i]]
                IN  end_SubTree(kid[Len(g.kids[k])])]
  IN  height[Cardinality(DOMAIN g.kids)][g.root]
=============================================================================
