---------------------------- MODULE LightTopology ----------------------------
(***************************************************************************)
(* Keeping a lightweight back-end's copy of the tree                       *)
(* (src/src/lightweight/NetworkTopology.c) in step with the front-end's    *)
(* (src/src/NetworkTopology.C, module Topology) while processes attach,    *)
(* fail and find new parents.  Updates travel to the front-end, which      *)
(* applies them in its upstream filter, keeps them in _updates_buffer and  *)
(* broadcasts the buffer as one packet; the back-end `Self' applies every  *)
(* packet, and repairs its copy by itself when its own parent fails.       *)
(*                                                                         *)
(* The lightweight copy is a record: nodes, par, port as in the C++ one;   *)
(* kids, orph, be, parents the vectors children, orphans, backend_nodes    *)
(* and parent_nodes; asc every node's ascendants; held when a call has     *)
(* returned without releasing the lock.                                    *)
(***************************************************************************)
EXTENDS Topology, LightContainers

CONSTANTS Self,             \* the lightweight back-end
          InitialPars,      \* parents in trees as launched, NoRank for who attaches later
          MaxEvents         \* attachments and failures

ASSUME LightAssumption ==
  /\ Self \in BackEnds /\ InitialPars \subseteq [Ranks -> Ranks \cup {NoRank}]
  /\ Ranks \subseteq Nat /\ MaxEvents \in Nat

VARIABLES alive, up,        \* running processes and the parent each is connected to
          fe, fePort,       \* the front-end's copy and the listening ports it knows
          pending,          \* updates on their way to the front-end
          buffer,           \* _updates_buffer
          packets,          \* broadcasts that Self has not yet read
          lt,               \* Self's copy
          stage,            \* "out", "ports", "up", "crashed", "lost"
          events,
          moved, missed     \* a communication process has changed its parent; Self missed a broadcast
lightVars == <<alive, up, fe, fePort, pending, buffer, packets, lt, stage, events, moved, missed>>

UnknownPort == 0
PortNr(r) == r + 1          \* the port a process really listens on
Update(type, p, c, port) == [type |-> type, p |-> p, c |-> c, port |-> port]

-----------------------------------------------------------------------------
\* The lightweight copy.
NetworkTopology_find_Node(t, r) == r \in t.nodes

NetworkTopology_new_Node(t, r, port) ==
  [t EXCEPT !.nodes = @ \cup {r}, !.par[r] = NoRank, !.kids[r] = <<>>, !.asc[r] = {},
            !.port[r] = port,
            !.be = IF r \in BackEnds /\ ~findElement(@, r) THEN pushBackElement(@, r) ELSE @]

NetworkTopology_remove_Orphan(t, r) == [t EXCEPT !.orph = eraseElement(@, r)]
NetworkTopology_Node_remove_Child(t, p, c) == [t EXCEPT !.kids[p] = eraseElement(@, c)]

NetworkTopology_set_Parent_asc(t, c, p) ==
  IF ~NetworkTopology_find_Node(t, c) \/ ~NetworkTopology_find_Node(t, p) THEN t
  ELSE LET freed == IF t.par[c] = NoRank THEN t ELSE NetworkTopology_Node_remove_Child(t, t.par[c], c)
       IN  NetworkTopology_remove_Orphan(
             [freed EXCEPT !.par[c] = p, !.kids[p] = pushBackElement(@, c),
                           !.asc[c] = @ \cup t.asc[p] \cup {p}], c)
NetworkTopology_set_Parent(t, c, p) ==
  IF ~NetworkTopology_find_Node(t, c) \/ ~NetworkTopology_find_Node(t, p) THEN t
  ELSE LET freed == IF t.par[c] = NoRank THEN t ELSE NetworkTopology_Node_remove_Child(t, t.par[c], c)
       IN  NetworkTopology_remove_Orphan(
             [freed EXCEPT !.par[c] = p, !.kids[p] = pushBackElement(@, c),
                           !.asc[c] = t.asc[p] \cup {p}], c)

\* remove_Node_2: out of every list; the children whose parent it was become orphans.
NetworkTopology_remove_Node_2(t, r) ==
  LET mine == SelectSeq(t.kids[r], LAMBDA c : t.par[c] = r)
  IN  [t EXCEPT !.nodes = @ \ {r},
                !.be = IF r \in BackEnds THEN eraseElement(@, r) ELSE @,
                !.parents = IF r \in BackEnds THEN @ ELSE eraseElement(@, r),
                !.par = [n \in Ranks |-> IF n = r \/ (\E i \in 1..Len(mine) : mine[i] = n)
                                         THEN NoRank ELSE @[n]],
                !.kids[r] = <<>>, !.asc[r] = {}, !.port[r] = UnknownPort,
                !.orph = eraseElement(@, r) \o mine]

NetworkTopology_remove_Node_listed(t, r) ==
  IF ~NetworkTopology_find_Node(t, r) THEN [t EXCEPT !.held = TRUE]
  ELSE NetworkTopology_remove_Node_2(t, r)
\* The early return for a rank that is not known leaves the lock taken.
NetworkTopology_remove_Node(t, r) ==
  IF ~NetworkTopology_find_Node(t, r) THEN [t EXCEPT !.held = TRUE]
  ELSE NetworkTopology_remove_Node_2(
         IF t.par[r] = NoRank THEN t ELSE NetworkTopology_Node_remove_Child(t, t.par[r], r), r)

\* add_BackEnd and add_InternalNode: nothing for a rank that is known already.
NetworkTopology_add_BackEnd(t, p, c, port) ==
  IF NetworkTopology_find_Node(t, c) THEN t
  ELSE NetworkTopology_set_Parent(NetworkTopology_new_Node(t, c, port), c, p)
NetworkTopology_add_InternalNode(t, p, c, port) ==
  IF NetworkTopology_find_Node(t, c) THEN t
  ELSE NetworkTopology_set_Parent(NetworkTopology_new_Node(t, c, port), c, p)
NetworkTopology_change_Port(t, c, port) ==
  IF port = UnknownPort THEN t ELSE [t EXCEPT !.port[c] = port]

\* A serialized tree as the pairs <<parent, child>>, parents first.  Before the port wave the
\* string has the port of the root only.
serialize(t, r) ==
  LET members == get_Descendants(t, r) \ {r}
      depth(n) == CHOOSE i \in 1..Cardinality(Ranks) : ancestor(t.par, n, i) = r
      before(a, b) == depth(a) < depth(b) \/ (depth(a) = depth(b) /\ a < b)
      nth(k) == CHOOSE n \in members : Cardinality({m \in members : before(m, n)}) = k - 1
  IN  [k \in 1..Cardinality(members) |-> <<t.par[nth(k)], nth(k)>>]

\* add_SubGraph: the parent is entered in parent_nodes, the child created unless known.
NetworkTopology_add_SubGraph(t, edges) ==
  LET grow[k \in 0..Len(edges)] ==
        IF k = 0 THEN t
        ELSE LET s == grow[k - 1]  p == edges[k][1]  c == edges[k][2]
                 entered == [s EXCEPT !.parents = IF findElement(@, p) THEN @ ELSE pushBackElement(@, p)]
                 known == IF NetworkTopology_find_Node(s, c) THEN entered
                          ELSE NetworkTopology_new_Node(entered, c, UnknownPort)
             IN  NetworkTopology_set_Parent(known, c, p)
  IN  grow[Len(edges)]

Blank == [nodes |-> {}, par |-> [n \in Ranks |-> NoRank], kids |-> [n \in Ranks |-> <<>>],
          orph |-> <<>>, be |-> <<>>, parents |-> <<>>, asc |-> [n \in Ranks |-> {}],
          port |-> [n \in Ranks |-> UnknownPort], held |-> FALSE]
\* reset forgets everything and rebuilds the copy from the parent's string.
NetworkTopology_reset(sg) ==
  NetworkTopology_add_SubGraph(NetworkTopology_new_Node(Blank, Root, PortNr(Root)), serialize(sg, Root))

\* proc_NetworkSettings: the parent's tree, with the back-end hung under its parent.
ChildNode_proc_NetworkSettings(parentsCopy, parent) ==
  NetworkTopology_add_SubGraph(NetworkTopology_reset(parentsCopy), <<<<parent, Self>>>>)

\* find_PotentialAdopters goes down the children vectors.
NetworkTopology_find_PotentialAdopters_below(t, orphan) ==
  LET stop == BackEnds
      reach[i \in 0..Cardinality(Ranks)] ==
        IF i = 0 THEN {Root}
        ELSE LET above == reach[i - 1]
             IN  above \cup {n \in Ranks \ stop : \E a \in above : findElement(t.kids[a], n)}
  IN  reach[Cardinality(Ranks)] \ {t.par[orphan]}
NetworkTopology_find_PotentialAdopters(t, orphan) ==
  LET stop == BackEnds \cup {t.par[orphan]}
      reach[i \in 0..Cardinality(Ranks)] ==
        IF i = 0 THEN {Root} \ stop
        ELSE LET above == reach[i - 1]
             IN  above \cup {n \in Ranks \ stop : \E a \in above : findElement(t.kids[a], n)}
  IN  reach[Cardinality(Ranks)]

\* get_Proximity climbs from the adopter to a node among the orphan's ascendants ...
CommonAscendant(t, adopter, orphan) ==
  LET climb[i \in 0..Cardinality(Ranks)] ==
        IF i = 0 THEN adopter
        ELSE LET at == climb[i - 1]
             IN  IF at = NoRank \/ at \in t.asc[orphan] THEN at ELSE t.par[at]
  IN  climb[Cardinality(Ranks)]
\* ... and then from the orphan to that node, or off the end of the parents.
ReachesUp(t, orphan, top) ==
  \E i \in 1..Cardinality(Ranks) : ancestor(t.par, orphan, i) = top

-----------------------------------------------------------------------------
\* tfilter_TopoUpdate: every update of a packet, in order.
ApplyLight(t, u) ==
  CASE u.type = "NEW_BE" -> NetworkTopology_add_BackEnd(t, u.p, u.c, u.port)
    [] u.type = "NEW_CP" -> NetworkTopology_add_InternalNode(t, u.p, u.c, u.port)
    [] u.type = "REMOVE" -> NetworkTopology_remove_Node(t, u.c)
    [] u.type = "CHANGE_PARENT" -> NetworkTopology_set_Parent(t, u.c, u.p)
    [] u.type = "CHANGE_PORT" -> NetworkTopology_change_Port(t, u.c, u.port)
LightUpdates_short(t, us) ==
  LET apply[k \in 0..Len(us)] == IF k = 0 THEN t ELSE LET s == apply[k - 1] IN ApplyLight(s, us[k])
  IN  apply[IF Len(us) < 2 THEN Len(us) ELSE Len(us) - 1]
LightUpdates(t, us) ==
  LET apply[k \in 0..Len(us)] == IF k = 0 THEN t ELSE LET s == apply[k - 1] IN ApplyLight(s, us[k])
  IN  apply[Len(us)]
\* change_Port follows the pointer find_Node returned.
FollowsNull(t, us) ==
  \E k \in 1..Len(us) :
    /\ us[k].type = "CHANGE_PORT" /\ us[k].port # UnknownPort
    /\ ~NetworkTopology_find_Node(LightUpdates(t, SubSeq(us, 1, k - 1)), us[k].c)

\* The C++ handlers, at the front-end.
update_addBackEnd(t, p, c) == IF c \in t.nodes THEN t ELSE set_Parent(new_Node(t, c), c, p)
update_addInternalNode(t, p, c) == IF c \in t.nodes THEN t ELSE set_Parent(new_Node(t, c), c, p)
update_removeNode(t, c) == remove_Node(t, c)
update_changeParent(t, c, p) == set_Parent(t, c, p)
update_changePort(ports, c, port) == IF port = UnknownPort THEN ports ELSE [ports EXCEPT ![c] = port]

ApplyFull(t, u) ==
  CASE u.type = "NEW_BE" -> update_addBackEnd(t, u.p, u.c)
    [] u.type = "NEW_CP" -> update_addInternalNode(t, u.p, u.c)
    [] u.type = "REMOVE" -> update_removeNode(t, u.c)
    [] u.type = "CHANGE_PARENT" -> update_changeParent(t, u.c, u.p)
    [] u.type = "CHANGE_PORT" -> t
PortsAfter(ports, t, u) ==
  CASE u.type = "CHANGE_PORT" -> update_changePort(ports, u.c, u.port)
    [] u.type \in {"NEW_BE", "NEW_CP"} /\ u.c \notin t.nodes -> [ports EXCEPT ![u.c] = u.port]
    [] u.type = "REMOVE" -> [ports EXCEPT ![u.c] = UnknownPort]
    [] OTHER -> ports

\* The port wave: a process without children answers with its own port; back-ends have none,
\* and their answers are discarded above; a process with children adds its own port.
proc_PortUpdate(r) ==
  <<Update("CHANGE_PORT", NoRank, r, IF r \in BackEnds THEN UnknownPort ELSE PortNr(r))>>
IsPlaceholder(us) == Len(us) = 1 /\ us[1].type = "CHANGE_PORT" /\ us[1].port = UnknownPort
PortAggregate_only(answers, r) ==
  LET kept == SelectSeq(answers, LAMBDA us : ~IsPlaceholder(us))
      cat[k \in 0..Len(kept)] == IF k = 0 THEN <<>> ELSE LET c == cat[k - 1] IN c \o kept[k]
  IN  cat[Len(kept)]
PortAggregate(answers, r) ==
  LET kept == SelectSeq(answers, LAMBDA us : ~IsPlaceholder(us))
      cat[k \in 0..Len(kept)] == IF k = 0 THEN <<>> ELSE LET c == cat[k - 1] IN c \o kept[k]
  IN  IF r = Root THEN cat[Len(kept)] ELSE cat[Len(kept)] \o proc_PortUpdate(r)
\* What proc_PortUpdates collects at r, when every process has answered.
PortWave(t, root) ==
  LET kids(r) == LET ks == get_Children(t, r)
                 IN  [k \in 1..Cardinality(ks) |->
                        CHOOSE n \in ks : Cardinality({m \in ks : m < n}) = k - 1]
      wave[h \in 0..Cardinality(Ranks)] ==
        IF h = 0 THEN [r \in Ranks |-> <<>>]
        ELSE LET w == wave[h - 1]
             IN  [r \in Ranks |->
                    IF r # root /\ get_Children(t, r) = {} THEN proc_PortUpdate(r)
                    ELSE PortAggregate([k \in DOMAIN kids(r) |-> w[kids(r)[k]]], r)]
  IN  wave[Cardinality(Ranks)][root]

-----------------------------------------------------------------------------
LightInit ==
  /\ up \in InitialPars /\ alive = {r \in Ranks : r = Root \/ up[r] # NoRank}
  /\ fe = [nodes |-> alive, par |-> up, orphans |-> {}]
  /\ fePort = [r \in Ranks |-> IF r = Root THEN PortNr(r) ELSE UnknownPort]
  /\ pending = <<>> /\ buffer = <<>> /\ packets = <<>>
  /\ lt = Blank /\ stage = "out" /\ events = 0 /\ moved = FALSE /\ missed = FALSE

Parents == {r \in alive \ BackEnds : r = Root \/ up[r] \in alive}

\* A launched back-end connects to its parent, one that attaches to any parent; a rank that
\* is not in the parent's string makes the back-end report itself.
ReceiveSettings ==
  /\ stage = "out" /\ stage' = "ports"
  /\ \E p \in IF Self \in alive THEN {up[Self]} ELSE Parents :
       /\ alive' = alive \cup {Self} /\ up' = [up EXCEPT ![Self] = p]
       /\ lt' = ChildNode_proc_NetworkSettings(fe, p)
       /\ pending' = IF Self \in fe.nodes THEN pending
                     ELSE Append(pending, Update("NEW_BE", p, Self, UnknownPort))
  /\ events' = IF Self \in alive THEN events ELSE events + 1
  /\ UNCHANGED <<fe, fePort, buffer, packets, moved, missed>>

\* The front-end applies what its upstream filter is given and buffers it.
FrontEndApplies(us) ==
  LET run[k \in 0..Len(us)] ==
        IF k = 0 THEN <<fe, fePort>>
        ELSE LET s == run[k - 1] IN <<ApplyFull(s[1], us[k]), PortsAfter(s[2], s[1], us[k])>>
      last == run[Len(us)]
  IN  fe' = last[1] /\ fePort' = last[2] /\ buffer' = buffer \o us

\* The port wave of start-up is complete when proc_PortUpdates returns.
proc_PortUpdates ==
  /\ stage = "ports" /\ stage' = "up"
  /\ FrontEndApplies(PortWave(fe, Root))
  /\ UNCHANGED <<alive, up, pending, packets, lt, events, moved, missed>>

Attach(c) ==
  /\ stage = "up" /\ events < MaxEvents /\ c \notin {Root, Self} /\ up[c] = NoRank
  /\ \E p \in Parents :
       /\ alive' = alive \cup {c} /\ up' = [up EXCEPT ![c] = p]
       /\ pending' = Append(pending, IF c \in BackEnds THEN Update("NEW_BE", p, c, UnknownPort)
                                     ELSE Update("NEW_CP", p, c, PortNr(c)))
  /\ events' = events + 1
  /\ UNCHANGED <<fe, fePort, buffer, packets, lt, stage, moved, missed>>

Above(r) == {a \in Ranks :  \E i \in 1..Cardinality(Ranks) : ancestor(up, r, i) = a}
\* A communication process fails; its parent reports that.  Broadcasts it had not passed on
\* are lost to what was below it: nobody repeats them to a child that comes back.
Fails(f) ==
  /\ stage = "up" /\ events < MaxEvents /\ f \in alive \ (BackEnds \cup {Root}) /\ up[f] \in alive
  /\ alive' = alive \ {f} /\ pending' = Append(pending, Update("REMOVE", up[f], f, UnknownPort))
  /\ \E kept \in IF f \in Above(Self) THEN 0..Len(packets) ELSE {Len(packets)} :
       packets' = SubSeq(packets, 1, kept) /\ missed' = (missed \/ kept < Len(packets))
  /\ events' = events + 1
  /\ UNCHANGED <<up, fe, fePort, buffer, lt, stage, moved>>

\* Another orphan finds itself a parent (module Recovery has the details).
Reparent(c) ==
  /\ stage = "up" /\ c \in alive \ {Root, Self} /\ up[c] \notin alive
  /\ \E p \in Parents : /\ ~(\E i \in 0..Cardinality(Ranks) : ancestor(up, p, i) = c)
                        /\ up' = [up EXCEPT ![c] = p]
                        /\ pending' = Append(pending, Update("CHANGE_PARENT", p, c, UnknownPort))
  /\ moved' = (moved \/ c \notin BackEnds)
  /\ UNCHANGED <<alive, fe, fePort, buffer, packets, lt, stage, events, missed>>

\* Self's parent has failed: a new one from its own copy; when that one is gone too,
\* recover_FromParentFailure returns in the middle.
Network_recover_FromParentFailure ==
  /\ stage = "up" /\ up[Self] \notin alive
  /\ \E p \in NetworkTopology_find_PotentialAdopters(lt, Self) :
       IF p \in Parents
       THEN /\ lt' = NetworkTopology_set_Parent(NetworkTopology_remove_Node(lt, up[Self]), Self, p)
            /\ up' = [up EXCEPT ![Self] = p]
            /\ pending' = Append(pending, Update("CHANGE_PARENT", p, Self, UnknownPort))
            /\ UNCHANGED stage
       ELSE stage' = "lost" /\ UNCHANGED <<lt, up, pending>>
  /\ UNCHANGED <<alive, fe, fePort, buffer, packets, events, moved, missed>>

\* Updates about one process arrive in the order they were sent, and after what the process
\* that passes them on has said about itself.  (An update lost in a process that fails is the
\* matter of module Recovery.)
Deliver ==
  /\ stage = "up"
  /\ \E i \in 1..Len(pending) :
       /\ \A j \in 1..(i - 1) : pending[j].c \notin {pending[i].c, pending[i].p}
       /\ FrontEndApplies(<<pending[i]>>)
       /\ pending' = SubSeq(pending, 1, i - 1) \o SubSeq(pending, i + 1, Len(pending))
  /\ UNCHANGED <<alive, up, packets, lt, stage, events, moved, missed>>

\* send_updates_buffer: the broadcast comes down the tree.
send_updates_buffer ==
  /\ stage = "up" /\ buffer # <<>>
  /\ IF Above(Self) \subseteq alive THEN packets' = Append(packets, buffer) /\ UNCHANGED missed
     ELSE missed' = TRUE /\ UNCHANGED packets
  /\ buffer' = <<>>
  /\ UNCHANGED <<alive, up, fe, fePort, pending, lt, stage, events, moved>>

tfilter_TopoUpdate ==
  /\ stage = "up" /\ packets # <<>>
  /\ IF FollowsNull(lt, packets[1]) THEN stage' = "crashed" /\ UNCHANGED lt
     ELSE lt' = LightUpdates(lt, packets[1]) /\ UNCHANGED stage
  /\ packets' = Tail(packets)
  /\ UNCHANGED <<alive, up, fe, fePort, pending, buffer, events, moved, missed>>

LightNext ==
  \/ ReceiveSettings \/ proc_PortUpdates \/ Deliver \/ send_updates_buffer \/ tfilter_TopoUpdate
  \/ Network_recover_FromParentFailure
  \/ \E r \in Ranks : Attach(r) \/ Fails(r) \/ Reparent(r)

-----------------------------------------------------------------------------
Settled ==
  /\ stage = "up" /\ pending = <<>> /\ buffer = <<>> /\ packets = <<>>
  /\ ~missed /\ \A r \in alive \ {Root} : up[r] \in alive

\* When every update has been broadcast and applied, and no broadcast was lost in a process
\* that failed, the back-end's copy holds the nodes, parents and ports of the front-end's, and
\* both hold the tree as it is: in whatever order updates came in, and although the back-end
\* had changed its copy on its own before (lightweight tfilter_TopoUpdate,
\* recover_FromParentFailure, send_updates_buffer).
CopiesConverge ==
  Settled => /\ lt.nodes = fe.nodes /\ lt.par = fe.par /\ lt.port = fePort
             /\ fe.nodes = alive /\ \A r \in alive \ {Root} : fe.par[r] = up[r]

\* The vectors of the lightweight copy never disagree with its parent pointers: who has a
\* parent is in that node's children once, nobody else is; orphans are known nodes without a
\* parent, once each; backend_nodes and parent_nodes hold no node that has been freed.
VectorsMatchPointers ==
  LET onceIn(vec, n) == Cardinality({i \in 1..Len(vec) : vec[i] = n}) = 1
  IN  /\ \A p, c \in Ranks : findElement(lt.kids[p], c) <=> (c \in lt.nodes /\ p \in lt.nodes /\ lt.par[c] = p)
      /\ \A p, c \in Ranks : findElement(lt.kids[p], c) => onceIn(lt.kids[p], c)
      /\ \A i \in 1..Len(lt.orph) : /\ lt.orph[i] \in lt.nodes /\ lt.par[lt.orph[i]] = NoRank
                                    /\ onceIn(lt.orph, lt.orph[i])
      /\ \A i \in 1..Len(lt.be) : lt.be[i] \in lt.nodes
      /\ \A i \in 1..Len(lt.parents) : lt.parents[i] \in lt.nodes

\* A lightweight back-end considers the adopters that the C++ library would consider on the
\* same tree: never the failed parent, nor a process below it (find_PotentialAdopters).
SameAdopters ==
  stage = "up" =>
    NetworkTopology_find_PotentialAdopters(lt, Self) =
      find_PotentialAdopters([nodes |-> lt.nodes, par |-> lt.par, orphans |-> {}], Self)

\* get_Proximity finds a common ascendant for every adopter and gets to it by following the
\* orphan's parent pointers (it would follow NULL otherwise), as long as only back-ends have
\* changed their parents: the ascendants of what is below a moved node are never recomputed.
ProximityDefined ==
  (stage = "up" /\ ~moved /\ up[Self] \notin alive) =>
    \A a \in NetworkTopology_find_PotentialAdopters(lt, Self) :
      LET top == CommonAscendant(lt, a, Self)
      IN  top # NoRank /\ ReachesUp(lt, Self, top)

\* After the port wave the front-end knows the port of every communication process of the
\* launched tree: what back-ends answer is dropped on the way, and processes with and without
\* children each contribute their own once (proc_PortUpdates, tfilter_TopoUpdate_common).
PortsReachFrontEnd ==
  stage = "up" => \A r \in fe.nodes \ BackEnds : fePort[r] = PortNr(r)

\* The copy of a lightweight back-end is consistent in itself at every step, fit for choosing a
\* new parent from, and ends as the front-end's.
LightCopyCorrect ==
  CopiesConverge /\ VectorsMatchPointers /\ SameAdopters /\ ProximityDefined /\ PortsReachFrontEnd
=============================================================================
