------------------------------- MODULE TreeGen -------------------------------
(***************************************************************************)
(* Generating a topology from a specification and lists of hosts (Tree.C), *)
(* writing it to a file, and what the front-end makes of the file: the     *)
(* parsed graph, the ranks, the string that is sent to the children and    *)
(* the copy of the tree they build from it.                                *)
(*                                                                         *)
(* A process is <<host, index>>.  A list of hosts is a sequence of         *)
(* <<host, capacity>>.  A generator returns a status and the children of   *)
(* every process; "crash" stands for a read outside a vector and "hang"    *)
(* for a loop that makes no progress.                                      *)
(***************************************************************************)
EXTENDS ParsedGraph

CONSTANTS FeHost,     \* the host of the front-end
          GenInputs,  \* [gen, spec, lists: <<hosts>> or <<back-end hosts, internal hosts>>, bemax, intmax]
          TopoFiles   \* files that were not generated

VARIABLES gstep,      \* how far the configuration has got
          input,      \* the input of the generator
          tree,       \* what it returned
          file,       \* the topology file
          graph,      \* the parsed graph, its ranks and its string
          ranks, sg
genVars == <<gstep, input, tree, file, graph, ranks, sg>>

Fail(s) == [st |-> s, kids |-> <<>>]
RootName == <<FeHost, 0>>
NoInput == [gen |-> "none"]

-----------------------------------------------------------------------------
\* Specifications: "F^D" or "FxFx..." / "K@N" / levels of "count" and "timesxcount"
BalancedTree_parse_Spec(spec) == IF spec.form = "power" THEN [i \in 1..spec.depth |-> spec.fanout] ELSE spec.fanouts
GenericTree_parse_Spec(spec) ==
  LET level(l) == LET upto[i \in 0..Len(l)] ==
                        IF i = 0 THEN <<>> ELSE upto[i - 1] \o [j \in 1..l[i][1] |-> l[i][2]]
                  IN  upto[Len(l)]
  IN  [i \in 1..Len(spec.levels) |-> level(spec.levels[i])]

Place_late(n, list, max, from) ==
  LET upto[i \in 0..n] ==
        IF i = 0 THEN from
        ELSE LET s == upto[i - 1]
             IN  IF s.at > Len(list) THEN [s EXCEPT !.ok = FALSE]
                 ELSE LET h == list[s.at][1]
                          c == s.cnt[h] + 1
                      IN  [ok |-> s.ok, cnt |-> [s.cnt EXCEPT ![h] = c],
                           at |-> IF c > max \/ c > list[s.at][2] THEN s.at + 1 ELSE s.at,
                           got |-> Append(s.got, <<h, s.cnt[h]>>)]
  IN  upto[n]
\* The processes n of a list: each host is left when it holds max processes or its
\* capacity, which is looked at after the process has been placed.
Place(n, list, max, from) ==
  LET upto[i \in 0..n] ==
        IF i = 0 THEN from
        ELSE LET s == upto[i - 1]
             IN  IF s.at > Len(list) THEN [s EXCEPT !.ok = FALSE]
                 ELSE LET h == list[s.at][1]
                          c == s.cnt[h] + 1
                      IN  [ok |-> s.ok, cnt |-> [s.cnt EXCEPT ![h] = c],
                           at |-> IF c >= max \/ c >= list[s.at][2] THEN s.at + 1 ELSE s.at,
                           got |-> Append(s.got, <<h, s.cnt[h]>>)]
  IN  upto[n]
HostsOf(lists) == {FeHost} \cup UNION {{lists[i][j][1] : j \in 1..Len(lists[i])} : i \in 1..Len(lists)}
PlaceFrom(lists) == [ok |-> TRUE, cnt |-> [h \in HostsOf(lists) |-> IF h = FeHost THEN 1 ELSE 0], at |-> 1, got |-> <<>>]

\* Tree::Node::visit from the root: a process met twice makes the whole count 0.
Tree_validate(kids, names) ==
  LET reach[n \in 0..Cardinality(names)] ==
        IF n = 0 THEN {RootName} ELSE LET r == reach[n - 1] IN r \cup UNION {kids[k] : k \in r}
  IN  /\ reach[Cardinality(names)] = names
      /\ \A k \in names : Cardinality({p \in names : k \in kids[p]}) = (IF k = RootName THEN 0 ELSE 1)

\* Sizes of the levels below the root
LevelSize(fanouts, l) == LET upto[i \in 0..l] == IF i = 0 THEN 1 ELSE upto[i - 1] * fanouts[i] IN upto[l]
BalancedLevels(fanouts, placed) ==
  LET d == Len(fanouts)
      before(l) == LET upto[i \in 0..l] == IF i = 0 THEN 0 ELSE upto[i - 1] + LevelSize(fanouts, i) IN upto[l - 1]
  IN  [l \in 1..d + 1 |-> IF l = 1 THEN <<RootName>>
                          ELSE SubSeq(placed, before(l - 1) + 1, before(l - 1) + LevelSize(fanouts, l - 1))]
ConnectedBalanced(fanouts, s) ==
  IF ~s.ok THEN Fail("fail")
  ELSE LET lv == BalancedLevels(fanouts, s.got)
           kid == [k \in UNION {Range(lv[l]) : l \in 1..Len(lv)} |->
                     UNION {IF \E j \in 1..Len(lv[l]) : lv[l][j] = k
                            THEN LET j == CHOOSE i \in 1..Len(lv[l]) : lv[l][i] = k
                                 IN  {lv[l + 1][i] : i \in (j - 1) * fanouts[l] + 1..j * fanouts[l]}
                            ELSE {} : l \in 1..Len(lv) - 1}]
       IN  [st |-> IF Tree_validate(kid, DOMAIN kid) THEN "ok" ELSE "fail", kids |-> kid]
InnerCount(fanouts) == LET upto[i \in 0..Len(fanouts) - 1] == IF i = 0 THEN 0 ELSE upto[i - 1] + LevelSize(fanouts, i)
                       IN  upto[Len(fanouts) - 1]

BalancedTree_initialize_Tree2_swapped(fanouts, bes, ints, bemax, intmax) ==
  IF fanouts = <<>> THEN Fail("crash")
  ELSE LET inner == Place(InnerCount(fanouts), bes, bemax, PlaceFrom(<<bes, ints>>))
       IN  ConnectedBalanced(fanouts, Place(LevelSize(fanouts, Len(fanouts)), ints, intmax, [inner EXCEPT !.at = 1]))
BalancedTree_initialize_Tree2(fanouts, bes, ints, bemax, intmax) ==
  IF bes = <<>> /\ ints = <<>> /\ fanouts # <<>> THEN Fail("fail")
  ELSE IF ints = <<>> /\ Len(fanouts) > 1 THEN Fail("fail")
  ELSE IF fanouts = <<>> THEN Fail("crash")
  ELSE LET inner == Place(InnerCount(fanouts), ints, intmax, PlaceFrom(<<bes, ints>>))
       IN  ConnectedBalanced(fanouts, Place(LevelSize(fanouts, Len(fanouts)), bes, bemax, [inner EXCEPT !.at = 1]))
BalancedTree_initialize_Tree1(fanouts, hosts, max) ==
  IF hosts = <<>> /\ fanouts # <<>> THEN Fail("fail")
  ELSE IF fanouts = <<>> THEN Fail("crash")
  ELSE LET inner == Place(InnerCount(fanouts), hosts, max, PlaceFrom(<<hosts>>))
       IN  ConnectedBalanced(fanouts, Place(LevelSize(fanouts, Len(fanouts)), hosts, max, inner))

-----------------------------------------------------------------------------
\* The other two kinds expand the lists first: min(capacity, max) processes of a host.
AtMost(a, b) == IF a < b THEN a ELSE b
Expand(list, max, cnt) ==       \* numbered on from the processes the host has already
  LET upto[i \in 0..Len(list)] ==
        IF i = 0 THEN [cnt |-> cnt, ids |-> <<>>]
        ELSE LET s == upto[i - 1]  h == list[i][1]  n == AtMost(list[i][2], max)
             IN  [cnt |-> [s.cnt EXCEPT ![h] = @ + n], ids |-> s.ids \o [j \in 1..n |-> <<h, s.cnt[h] + j - 1>>]]
  IN  upto[Len(list)]
ExpandOne(list, max) ==         \* one list: the front-end is process 0 of its host
  LET upto[i \in 0..Len(list)] ==
        IF i = 0 THEN <<>>
        ELSE LET h == list[i][1]  first == IF h = FeHost THEN 1 ELSE 0
             IN  upto[i - 1] \o [j \in 1..AtMost(list[i][2], max) - first |-> <<h, first + j - 1>>]
  IN  upto[Len(list)]

KnomialParents_k(k, total) ==
  LET step[i \in 1..total] ==
        IF i = 1 THEN [stop |-> 2, used |-> 1, given |-> 0, par |-> <<0>>]
        ELSE LET s == step[i - 1]
                 next == IF s.given < k THEN [s EXCEPT !.given = @ + 1]
                         ELSE IF s.used + 1 < s.stop THEN [s EXCEPT !.used = @ + 1, !.given = 1]
                         ELSE [s EXCEPT !.stop = i, !.used = 1, !.given = 1]
             IN  [next EXCEPT !.par = Append(@, next.used)]
  IN  step[total].par
\* The rounds of the k-nomial algorithm over processes 1..total of ids (the first is the
\* root): every used process gets k - 1 of the available ones.  parent[i] for i > 1.
KnomialParents(k, total) ==
  LET \* state: the round's first available process, the next one, who adopts it
      step[i \in 1..total] ==
        IF i = 1 THEN [stop |-> 2, used |-> 1, given |-> 0, par |-> <<0>>]
        ELSE LET s == step[i - 1]
                 next == IF s.given < k - 1 THEN [s EXCEPT !.given = @ + 1]
                         ELSE IF s.used + 1 < s.stop THEN [s EXCEPT !.used = @ + 1, !.given = 1]
                         ELSE [s EXCEPT !.stop = i, !.used = 1, !.given = 1]
             IN  [next EXCEPT !.par = Append(@, next.used)]
  IN  step[total].par
KidsOf(ids, par) ==
  [k \in Range(ids) |-> {ids[i] : i \in {j \in 2..Len(ids) : ids[par[j]] = k}}]
Finished(kids) == [st |-> IF Tree_validate(kids, DOMAIN kids) THEN "ok" ELSE "fail", kids |-> kids]

KnomialTree_initialize_Tree1(k, n, hosts, max) ==
  LET ids == <<RootName>> \o ExpandOne(hosts, max)
  IN  IF Len(ids) < n THEN Fail("fail")
      ELSE IF Len(ids) = 1 \/ n <= 1 THEN Finished([x \in {RootName} |-> {}])
      ELSE IF k = 1 THEN Fail("hang")
      ELSE Finished(KidsOf(SubSeq(ids, 1, n), KnomialParents(k, n)))

\* With two lists the last round takes the back-ends.  Without an internal host the rounds
\* never begin.
RoundStart(k, n) == LET r == CHOOSE j \in 0..n : k ^ j < n /\ k ^ (j + 1) >= n IN k ^ r
KnomialTree_initialize_Tree2(k, n, bes, ints, bemax, intmax) ==
  LET e1 == Expand(ints, intmax, PlaceFrom(<<bes, ints>>).cnt)
      inner == <<RootName>> \o e1.ids
      leaves == Expand(bes, bemax, e1.cnt).ids
      a == RoundStart(k, n)     \* processes used before the round of the back-ends
  IN  IF Len(inner) + Len(leaves) < n THEN Fail("fail")
      ELSE IF Len(inner) = 1 THEN (IF n > 1 THEN Fail("fail") ELSE Finished([x \in {RootName} |-> {}]))
      ELSE IF n <= 1 THEN Finished([x \in {RootName} |-> {}])
      ELSE IF k = 1 THEN Fail("hang")
      ELSE IF Len(inner) < a \/ Len(leaves) < n - a THEN Fail("fail")
      ELSE Finished(KidsOf(SubSeq(inner, 1, a) \o SubSeq(leaves, 1, n - a), KnomialParents(k, n)))

-----------------------------------------------------------------------------
\* The generic tree: level u gives the numbers of children of its processes in order; a
\* level with more numbers than processes reads past the end of cur_level_nodes.
GenericLevels(levels, ids, leaves) ==
  LET last == Len(levels)
      build[u \in 0..last] ==
        IF u = 0 THEN [st |-> "ok", cur |-> <<RootName>>, at |-> 0, bat |-> 0, kids |-> [k \in {RootName} |-> {}]]
        ELSE LET s == build[u - 1]
                 pool == IF u = last /\ leaves # <<>> THEN leaves[1] ELSE ids
                 off == IF u = last /\ leaves # <<>> THEN s.bat ELSE s.at
                 upto[i \in 0..Len(levels[u])] == IF i = 0 THEN 0 ELSE upto[i - 1] + levels[u][i]
                 need == upto[Len(levels[u])]
                 new == {pool[off + j] : j \in 1..AtMost(need, Len(pool) - off)}
                 rowOf(i) == {pool[off + j] : j \in upto[i - 1] + 1..upto[i]}
             IN  IF s.st # "ok" THEN s
                 ELSE IF Len(levels[u]) > Len(s.cur) THEN [s EXCEPT !.st = "crash"]
                 ELSE IF off + need > Len(pool) THEN [s EXCEPT !.st = "fail"]
                 ELSE [st |-> "ok", cur |-> SubSeq(pool, off + 1, off + need),
                       at |-> IF u = last /\ leaves # <<>> THEN s.at ELSE off + need,
                       bat |-> IF u = last /\ leaves # <<>> THEN off + need ELSE s.bat,
                       kids |-> [k \in DOMAIN s.kids \cup new |->
                                   (IF k \in DOMAIN s.kids THEN s.kids[k] ELSE {})
                                   \cup UNION {IF s.cur[i] = k THEN rowOf(i) ELSE {} : i \in 1..Len(levels[u])}]]
  IN  IF build[last].st = "ok" THEN Finished(build[last].kids) ELSE Fail(build[last].st)

\* The first level must have one number.
GenericTree_initialize_Tree1(levels, hosts, max) ==
  IF Len(levels[1]) # 1 THEN Fail("fail") ELSE GenericLevels(levels, ExpandOne(hosts, max), <<>>)
GenericTree_initialize_Tree2(levels, bes, ints, bemax, intmax) ==
  LET e1 == Expand(ints, intmax, PlaceFrom(<<bes, ints>>).cnt)
  IN  IF Len(levels[1]) # 1 THEN Fail("fail")
      ELSE IF ints = <<>> /\ Len(levels) > 1 THEN Fail("fail")
      ELSE GenericLevels(levels, e1.ids, <<Expand(bes, bemax, e1.cnt).ids>>)

-----------------------------------------------------------------------------
GenInit ==
  /\ gstep = "idle" /\ input = NoInput /\ tree = Fail("none") /\ file = <<>>
  /\ graph = [ok |-> FALSE, kids |-> <<>>, root |-> <<0, 0>>] /\ ranks = <<>> /\ sg = <<>>

Generated(t, in) == /\ input' = in /\ tree' = t
                    /\ gstep' = IF t.st = "ok" THEN "generated" ELSE "refused"
                    /\ UNCHANGED <<file, graph, ranks, sg>>
Inputs(gen, n) == {in \in GenInputs : in.gen = gen /\ Len(in.lists) = n}
BalancedTree1 == gstep = "idle" /\ \E in \in Inputs("balanced", 1) :
  Generated(BalancedTree_initialize_Tree1(BalancedTree_parse_Spec(in.spec), in.lists[1], in.intmax), in)
BalancedTree2 == gstep = "idle" /\ \E in \in Inputs("balanced", 2) :
  Generated(BalancedTree_initialize_Tree2(BalancedTree_parse_Spec(in.spec), in.lists[1], in.lists[2], in.bemax, in.intmax), in)
KnomialTree1 == gstep = "idle" /\ \E in \in Inputs("knomial", 1) :
  Generated(KnomialTree_initialize_Tree1(in.spec.k, in.spec.n, in.lists[1], in.intmax), in)
KnomialTree2 == gstep = "idle" /\ \E in \in Inputs("knomial", 2) :
  Generated(KnomialTree_initialize_Tree2(in.spec.k, in.spec.n, in.lists[1], in.lists[2], in.bemax, in.intmax), in)
GenericTree1 == gstep = "idle" /\ \E in \in Inputs("generic", 1) :
  Generated(GenericTree_initialize_Tree1(GenericTree_parse_Spec(in.spec), in.lists[1], in.intmax), in)
GenericTree2 == gstep = "idle" /\ \E in \in Inputs("generic", 2) :
  Generated(GenericTree_initialize_Tree2(GenericTree_parse_Spec(in.spec), in.lists[1], in.lists[2], in.bemax, in.intmax), in)

\* print_ToFile: a line for every process with children, parents first; the children are
\* in the order of a set of pointers.
PrintOrder(kids, up) ==
  LET row(k) == LET s == SetToSortSeq(kids[k], Before) IN IF up THEN s ELSE Reverse(s)
      walk[n \in 0..Cardinality(DOMAIN kids)] ==
        IF n = 0 THEN [todo |-> <<RootName>>, lines |-> <<>>]
        ELSE LET w == walk[n - 1]  k == Head(w.todo)
             IN  IF w.todo = <<>> THEN w
                 ELSE [todo |-> row(k) \o Tail(w.todo),
                       lines |-> IF kids[k] = {} THEN w.lines
                                 ELSE Append(w.lines, [parent |-> k, kids |-> row(k)])]
  IN  walk[Cardinality(DOMAIN kids)].lines
create_TopologyFile ==
  /\ gstep = "generated" /\ \E up \in BOOLEAN : file' = PrintOrder(tree.kids, up)
  /\ gstep' = "file" /\ UNCHANGED <<input, tree, graph, ranks, sg>>
OpenFile ==
  /\ gstep = "idle" /\ file' \in TopoFiles
  /\ gstep' = "file" /\ UNCHANGED <<input, tree, graph, ranks, sg>>

\* Network::parse_Configuration and the beginning of init_FrontEnd; an empty file has no
\* line and is a parse error.
parse_Configuration ==
  /\ gstep = "file"
  /\ LET g == config(file)
     IN  graph' = g /\ gstep' = IF file # <<>> /\ g.ok /\ validate(g) THEN "valid" ELSE "rejected"
  /\ UNCHANGED <<input, tree, file, ranks, sg>>
Instantiate ==
  /\ gstep = "valid"
  /\ \E bes \in BOOLEAN, have \in BOOLEAN :
       /\ ranks' = assign_NodeRanks(graph, bes)
       /\ sg' = serialize(graph, ranks', have)
  /\ gstep' = "serialized" /\ UNCHANGED <<input, tree, file, graph>>

GenNext ==
  \/ BalancedTree1 \/ BalancedTree2 \/ KnomialTree1 \/ KnomialTree2 \/ GenericTree1 \/ GenericTree2
  \/ create_TopologyFile \/ OpenFile \/ parse_Configuration \/ Instantiate

-----------------------------------------------------------------------------
\* How far below the root a process is, and the degrees of the textbook k-nomial tree.
Depth(k) == LET up[n \in 0..Cardinality(DOMAIN tree.kids)] ==
                  IF n = 0 THEN {k} ELSE LET u == up[n - 1] IN {p \in DOMAIN tree.kids : tree.kids[p] \cap u # {}}
            IN  CHOOSE n \in 0..Cardinality(DOMAIN tree.kids) : RootName \in up[n]
KnomialParent(k, j) == LET r == CHOOSE i \in 0..j : k ^ i <= j /\ j < k ^ (i + 1) IN (j - k ^ r) \div (k - 1)
KnomialDegrees(k, n) == [p \in 0..n - 1 |-> Cardinality({j \in 1..n - 1 : KnomialParent(k, j) = p})]
Degrees(kids) == [d \in 0..8 |-> Cardinality({k \in DOMAIN kids : Cardinality(kids[k]) = d})]

\* A tree a generator calls valid has the shape that was asked for: the fan-outs of each
\* level, the k-nomial parents (process j of the numbering from 0 with k^r <= j < k^(r+1)
\* hangs under (j - k^r) / (k - 1)), or the numbers of the generic levels; and as many
\* processes (Tree.C, initialize_Tree of the three classes).
ShapeAsSpecified ==
  tree.st = "ok" =>
    CASE input.gen = "balanced" ->
           LET f == BalancedTree_parse_Spec(input.spec)
           IN  \A k \in DOMAIN tree.kids :
                 Cardinality(tree.kids[k]) = (IF Depth(k) < Len(f) THEN f[Depth(k) + 1] ELSE 0)
      [] input.gen = "knomial" ->
           LET deg == KnomialDegrees(input.spec.k, input.spec.n)
           IN  /\ Cardinality(DOMAIN tree.kids) = input.spec.n
               /\ Degrees(tree.kids) = [d \in 0..8 |-> Cardinality({p \in DOMAIN deg : deg[p] = d})]
      [] input.gen = "generic" ->
           LET lv == GenericTree_parse_Spec(input.spec)
           IN  \A d \in 0..Len(lv) - 1 : \A c \in 1..8 :
                 Cardinality({k \in DOMAIN tree.kids : Depth(k) = d /\ Cardinality(tree.kids[k]) = c})
                   = Cardinality({i \in 1..Len(lv[d + 1]) : lv[d + 1][i] = c})

\* With separate lists a host that is only on the list of the back-ends carries leaves only.
\* (A host of the internal list may be left without children by a k-nomial or generic
\* specification and then runs a back-end.)
BackEndHostsCarryLeaves ==
  tree.st = "ok" /\ Len(input.lists) = 2 =>
    \A k \in DOMAIN tree.kids \ {RootName} :
      tree.kids[k] # {} => \E i \in 1..Len(input.lists[2]) : input.lists[2][i][1] = k[1]

\* The processes on a host, and how many it may carry.
Load(h) == Cardinality({k \in DOMAIN tree.kids : k[1] = h})
Capacity(h) ==
  LET allowed(i, max) == {AtMost(input.lists[i][j][2], max) : j \in {m \in 1..Len(input.lists[i]) : input.lists[i][m][1] = h}}
      most(S) == IF S = {} THEN 0 ELSE CHOOSE x \in S : \A y \in S : y <= x
  IN  most(allowed(1, input.bemax)) + (IF Len(input.lists) = 2 THEN most(allowed(2, input.intmax)) ELSE 0)
AtLeast(a, b) == IF a < b THEN b ELSE a

\* A host carries no more processes than its capacity and the maximum of each list allow.
\* The front-end comes on top of that, except in the k-nomial and generic trees of one list,
\* which count it (BalancedTree looks at the limits after it has placed a process).
HostsNotOverloaded ==
  tree.st = "ok" => \A h \in HostsOf(input.lists) : 
      Load(h) <= IF h # FeHost THEN Capacity(h)
                 ELSE IF Len(input.lists) = 2 \/ input.gen = "balanced" THEN Capacity(h) + 1
                 ELSE AtLeast(Capacity(h), 1)

\* What is accepted from a file is a tree: one root, every other node the child of exactly
\* one node and below the root (parser.y and ParsedGraph::validate), whatever the file says.
AcceptedIsTree ==
  gstep \in {"valid", "serialized"} =>
    LET N == DOMAIN graph.kids
        below[n \in 0..Cardinality(N)] ==
          IF n = 0 THEN {graph.root} ELSE LET b == below[n - 1] IN b \cup UNION {Range(graph.kids[k]) : k \in b}
    IN  /\ below[Cardinality(N)] = N
        /\ \A k \in N : Cardinality(UNION {{<<p, i>> : i \in {j \in 1..Len(graph.kids[p]) : graph.kids[p][j] = k}} : p \in N})
                          = (IF k = graph.root THEN 0 ELSE 1)

\* No two processes are one node of the file.
NamesDistinct == \A a, b \in DOMAIN tree.kids : Key(a) = Key(b) => a = b

\* A generated tree is accepted again, unless two hosts share an address.
GeneratedIsAccepted ==
  gstep = "rejected" /\ tree.st = "ok" /\ NamesDistinct => Cardinality(DOMAIN tree.kids) = 1

\* The rank of the parent in the parsed graph.
RankOfParent(k) == IF k = graph.root THEN -1 ELSE ranks[CHOOSE p \in DOMAIN graph.kids : k \in Range(graph.kids[p])]

\* The ranks are 0..n-1, each once, and the tree the other processes rebuild from the
\* string is the one in the file (assign_NodeRanks, serialize, SerialGraph's walk,
\* NetworkTopology::reset).
StringCarriesTree ==
  gstep = "serialized" =>
    /\ {ranks[k] : k \in DOMAIN ranks} = 0..Cardinality(DOMAIN graph.kids) - 1
    /\ Rebuilt(sg) = {<<ranks[k], RankOfParent(k)>> : k \in DOMAIN graph.kids}

\* Both libraries see the same children.
Walkable(g) == Children(g) = SerialGraph_Children(g)

\* Every process finds its own subtree in the string, whatever other host begins with the
\* name of its own; the lightweight library finds the same one when it knows the port in
\* the string and nothing otherwise, and both walk the same children.
EverybodyFindsItself ==
  gstep = "serialized" =>
    \A k \in DOMAIN graph.kids :
      LET mine == get_MySubTree(sg, k[1], 0, ranks[k])
      IN  /\ mine # NullGraph /\ get_RootRank(mine) = ranks[k] /\ get_RootHostName(mine) = k[1]
          /\ Len(Children(mine)) = Len(graph.kids[k])
          /\ SerialGraph_get_MySubTree(sg, k[1], get_RootPort(mine), ranks[k]) = mine
          /\ SerialGraph_get_MySubTree(sg, k[1], 0, ranks[k]) = NullGraph
          /\ Walkable(mine)

\* From a specification to the copy of the tree that every process builds, the tree is the one
\* that was asked for, and every process finds itself in it.
TopologyCorrect ==
  /\ ShapeAsSpecified /\ BackEndHostsCarryLeaves /\ HostsNotOverloaded
  /\ AcceptedIsTree /\ GeneratedIsAccepted /\ StringCarriesTree /\ EverybodyFindsItself
=============================================================================
