----------------------------- MODULE SerialGraph -----------------------------
(***************************************************************************)
(* The string in which the tree travels: "[host:port:rank:1 ...]" for a    *)
(* node with the strings of its children inside, "[host:port:rank:0]" for  *)
(* a back-end.  A string is a sequence of tokens, the opening brackets     *)
(* with the four fields and the closing brackets.  The C++ class and its   *)
(* copy in the lightweight library search it differently.                  *)
(***************************************************************************)
EXTENDS Integers, Sequences, FiniteSets

Open(host, port, rank, typ) == [b |-> "[", host |-> host, port |-> port, rank |-> rank, typ |-> typ]
Close == [b |-> "]", host |-> 0, port |-> 0, rank |-> -1, typ |-> 0]
NullGraph == <<>>      \* NULL

add_Leaf(g, host, port, rank) == g \o <<Open(host, port, rank, 0), Close>>
add_SubTreeRoot(g, host, port, rank) == Append(g, Open(host, port, rank, 1))
end_SubTree(g) == Append(g, Close)

get_RootHostName(g) == g[1].host
get_RootPort(g) == g[1].port
get_RootRank(g) == g[1].rank
is_RootBackEnd(g) == g[1].typ = 0

\* Where the bracket that opens at position i closes: the first position where as many
\* are closed as opened.
Matching(g, i) ==
  LET depth[j \in i..Len(g)] == IF j = i THEN 1 ELSE depth[j - 1] + (IF g[j].b = "[" THEN 1 ELSE -1)
  IN  CHOOSE j \in i..Len(g) : depth[j] = 0 /\ \A k \in i..j - 1 : depth[k] # 0

\* Host names are numbers here; one begins with another as their decimal digits do.
BeginsWith(host, prefix) == host = prefix \/ host \div 10 = prefix
Places(g, P(_)) == {i \in 1..Len(g) : g[i].b = "[" /\ P(g[i])}
First(S) == CHOOSE i \in S : \A j \in S : i <= j
Part(g, i) == SubSeq(g, i, Matching(g, i))

get_MySubTree_host(g, host, port, rank) ==
  LET at == Places(g, LAMBDA t : BeginsWith(t.host, host))
  IN  IF at = {} THEN NullGraph ELSE Part(g, First(at))
\* The class looks for "[host" and then compares the rank; the port is disregarded.
get_MySubTree(g, host, port, rank) ==
  LET at == Places(g, LAMBDA t : BeginsWith(t.host, host) /\ t.rank = rank)
  IN  IF at = {} THEN NullGraph ELSE Part(g, First(at))
\* The lightweight library looks for "[host:port:rank:".
SerialGraph_get_MySubTree(g, host, port, rank) ==
  LET at == Places(g, LAMBDA t : t.host = host /\ t.port = port /\ t.rank = rank)
  IN  IF at = {} THEN NullGraph ELSE Part(g, First(at))

\* The children of the root, one get_NextChild after another from set_ToFirstChild on:
\* each starts at the next "[" behind the end of the last.
set_ToFirstChild(g) == Places(Tail(g), LAMBDA t : TRUE)
get_NextChild(g, from) ==
  LET at == {i \in from..Len(g) : g[i].b = "["} IN IF at = {} THEN NullGraph ELSE Part(g, from)
Children(g) ==
  LET count == Cardinality({i \in 2..Len(g) : g[i].b = "["})
      start == IF set_ToFirstChild(g) = {} THEN Len(g) + 1 ELSE 1 + First(set_ToFirstChild(g))
      walk[n \in 0..count] ==
        IF n = 0 THEN [at |-> start, kids |-> <<>>]
        ELSE LET w == walk[n - 1]
                 c == IF w.at > Len(g) THEN NullGraph ELSE get_NextChild(g, w.at)
             IN  IF c = NullGraph THEN w ELSE [at |-> w.at + Len(c), kids |-> Append(w.kids, c)]
  IN  walk[count].kids

\* The lightweight walk: buf_idx and the same matching of brackets.
SerialGraph_set_ToFirstChild(g) == IF \E i \in 2..Len(g) : g[i].b = "[" THEN First({i \in 2..Len(g) : g[i].b = "["})
                                   ELSE Len(g) + 1
SerialGraph_get_NextChild(g, from) ==
  IF from > Len(g) \/ \A i \in from..Len(g) : g[i].b # "[" THEN NullGraph ELSE Part(g, from)
SerialGraph_Children(g) ==
  LET count == Cardinality({i \in 2..Len(g) : g[i].b = "["})
      walk[n \in 0..count] ==
        IF n = 0 THEN [at |-> SerialGraph_set_ToFirstChild(g), kids |-> <<>>]
        ELSE LET w == walk[n - 1]
                 c == SerialGraph_get_NextChild(g, w.at)
             IN  IF c = NullGraph THEN w ELSE [at |-> w.at + Len(c), kids |-> Append(w.kids, c)]
  IN  walk[count].kids

\* NetworkTopology::reset and add_SubGraph over the string: [ranks, who is whose parent].
Rebuilt(g) ==
  LET size == Cardinality(Places(g, LAMBDA t : TRUE))
      \* level by level: the strings of the nodes of one depth, with their parents' ranks
      level[d \in 0..size] ==
        IF d = 0 THEN {<<-1, g>>}
        ELSE UNION {LET kids == Children(pg[2])
                    IN  {<<get_RootRank(pg[2]), kids[i]>> : i \in 1..Len(kids)} : pg \in level[d - 1]}
      all == UNION {level[d] : d \in 0..size}
  IN  {<<get_RootRank(pg[2]), pg[1]>> : pg \in all}
=============================================================================
