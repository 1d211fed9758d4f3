------------------------------ MODULE Recovery ------------------------------
(***************************************************************************)
(* Failure recovery across the tree of processes (src/src/EventDetector.C, *)
(* ParentNode.C, ChildNode.C, NetworkTopology.C, Network.C).               *)
(*                                                                         *)
(* Every process keeps its own copy of the topology.  Its event detector   *)
(* is one thread: it accepts connections, notices a failed child or parent *)
(* on the event sockets and, for a failed parent, runs the steps of        *)
(* recover_FromParentFailure; receive threads apply topology updates and   *)
(* recovery reports between those steps.  A parent reports a change        *)
(* upstream on the topology stream; the front-end applies it, keeps it in  *)
(* _updates_buffer, and broadcasts the buffer when the application next    *)
(* creates a stream.  The synchronization filter of the topology stream    *)
(* can hold a packet back; it is then still in its link here.              *)
(***************************************************************************)
EXTENDS Topology, Sequences

CONSTANTS Tree,         \* the parent of every rank at the start
          EndPoints,    \* back-ends of the stream whose peers are looked at
          MaxCrashes    \* bound: processes that crash

ASSUME TreeAssumption ==
  /\ Tree \in [Ranks -> Ranks \cup {NoRank}]
  /\ \A r \in Ranks : Tree[r] = NoRank <=> r = Root
  /\ EndPoints \subseteq BackEnds
  /\ MaxCrashes \in Nat

VARIABLES
  alive,    \* processes that run
  off,      \* processes whose detector is disabled and that shut down
  node,     \* every process's copy, child PeerNodes, routing table and stream peers
  up,       \* Network::_parent
  joined,   \* children whose data connection was accepted
  fd,       \* childRankByEventDetectionSocket: children whose event socket is watched
  toParent, \* packets from a child on the data connection to a parent
  toChild,  \* packets from a parent on the data connection to a child
  listen,   \* connections waiting on a listening socket, with their first message
  rec,      \* progress of recover_FromParentFailure
  buffer,   \* _updates_buffer of the front-end
  crashes   \* how many processes crashed
links == <<toParent, toChild>>
vars == <<alive, off, node, up, joined, fd, links, listen, rec, buffer, crashes>>

Idle == [at |-> "idle", old |-> NoRank]
Steps == {"idle", "connect", "event", "finish"}

Update(type, par, child) == [type |-> type, par |-> par, child |-> child]
UpdateSet == [type : {"TOPO_REMOVE_RANK", "TOPO_CHANGE_PARENT"}, par : Ranks, child : Ranks]
TopoUpdate(updates) == [tag |-> "PROT_TOPO_UPDATE", updates |-> updates]
RecoveryRpt(child, failed, new) ==
  [tag |-> "PROT_RECOVERY_RPT", child |-> child, failed |-> failed, new |-> new]

running == alive \ off
internal == Ranks \ (BackEnds \cup {Root})

-----------------------------------------------------------------------------
\* What one process does to its own state n, a record of `node'.

recompute_ChildrenNodes(n) ==
  [n EXCEPT !.peers = {get_OutletNode(n.table, e) : e \in EndPoints} \ {NoRank}]

\* Network::update_Streams does so for every stream.
update_Streams(n) == recompute_ChildrenNodes(n)

\* Stream::remove_Node, with failure recovery on
Stream_remove_Node(n, r) == [n EXCEPT !.peers = @ \ {r}]

update_Router_Table(self, n) == [n EXCEPT !.table = update_Table(n.topo, self, n.kids)]

delete_PeerNode(n, r) == [n EXCEPT !.kids = @ \ {r}]

\* Network::remove_Node
Network_remove_Node(self, n, r, update) ==
  LET cut == Stream_remove_Node([delete_PeerNode(n, r) EXCEPT !.topo = remove_Node(@, r)], r)
  IN  IF update THEN update_Streams(update_Router_Table(self, cut)) ELSE cut

\* Mutant: the routing table is only computed anew in the new parent.
change_Parent_staleTable(self, n, child, par) ==
  LET moved == [n EXCEPT !.topo = set_Parent(@, child, par)]
  IN  IF can_Parent(n.topo, child, par) /\ par = self
      THEN update_Streams(update_Router_Table(self, moved)) ELSE moved

\* Network::change_Parent: nothing happens when a rank is unknown, and the table stays
\* as it is when the parent does not change.
change_Parent(self, n, child, par) ==
  LET moved == IF n.topo.par[child] = par THEN n
               ELSE update_Router_Table(self, [n EXCEPT !.topo = set_Parent(@, child, par)])
  IN  CASE ~can_Parent(n.topo, child, par) -> n
        [] can_Parent(n.topo, child, par) /\ par = self -> update_Streams(moved)
        [] OTHER -> moved

\* Mutant: only the parent of the removed rank takes it out of its copy.
update_removeNode_parentOnly(self, n, u) ==
  IF u.par = self THEN Network_remove_Node(self, n, u.child, TRUE) ELSE n

update_removeNode(self, n, u) ==
  IF u.par = self THEN Network_remove_Node(self, n, u.child, TRUE)
  ELSE [n EXCEPT !.topo = remove_Node(@, u.child)]

update_changeParent(self, n, u) == change_Parent(self, n, u.child, u.par)

apply_Update(self, n, u) ==
  IF u.type = "TOPO_REMOVE_RANK" THEN update_removeNode(self, n, u)
  ELSE update_changeParent(self, n, u)

\* tfilter_TopoUpdate_common: the updates of a packet are applied in their order.
tfilter_TopoUpdate(self, n, updates) ==
  LET after[i \in 0..Len(updates)] ==
        IF i = 0 THEN n ELSE apply_Update(self, after[i - 1], updates[i])
  IN  after[Len(updates)]

\* proc_RecoveryReport in a child, and step 5 of the recovery
move_Below(self, n, child, failed, new) ==
  change_Parent(self, Network_remove_Node(self, n, failed, FALSE), child, new)

\* Updates that left the upstream filter: on to the parent, or kept at the front-end.
send_Upstream(p, updates) ==
  IF p = Root
  THEN buffer' = buffer \o updates /\ toParent' = toParent
  ELSE /\ toParent' = [toParent EXCEPT ![<<p, up[p]>>] = Append(@, TopoUpdate(updates))]
       /\ buffer' = buffer

send_Downstream(p, to, packet) ==
  toChild' = [l \in Ranks \X Ranks |->
                IF l[1] = p /\ l[2] \in to THEN Append(toChild[l], packet) ELSE toChild[l]]

-----------------------------------------------------------------------------
StartTopology == [nodes |-> Ranks, par |-> Tree, orphans |-> {}]
StartNode(p) ==
  LET kids == get_Children(StartTopology, p)
      bare == [topo |-> StartTopology, kids |-> kids,
               table |-> [r \in Ranks |-> NoRank], peers |-> {}]
  IN  recompute_ChildrenNodes(update_Router_Table(p, bare))

\* After startup, every copy is the tree that was built.
Init ==
  /\ alive = Ranks /\ off = {} /\ crashes = 0
  /\ node = [p \in Ranks |-> StartNode(p)]
  /\ up = Tree
  /\ joined = [p \in Ranks |-> get_Children(StartTopology, p)]
  /\ fd = joined
  /\ toParent = [l \in Ranks \X Ranks |-> <<>>] /\ toChild = toParent
  /\ listen = [p \in Ranks |-> <<>>]
  /\ rec = [p \in Ranks |-> Idle]
  /\ buffer = <<>>

-----------------------------------------------------------------------------
Crash(p) ==
  /\ p \in running \ {Root} /\ crashes < MaxCrashes
  /\ crashes' = crashes + 1
  /\ alive' = alive \ {p}
  /\ listen' = [listen EXCEPT ![p] = <<>>]
  /\ UNCHANGED <<off, node, up, joined, fd, links, rec, buffer>>

\* Mutant: the update names the reporter's parent instead of the reporter.
recover_FromChildFailure_wrongParent(p, c) ==
  LET u == Update("TOPO_REMOVE_RANK", up[p], c)
  IN  /\ p \in running /\ rec[p] = Idle /\ c \in fd[p] \ alive
      /\ fd' = [fd EXCEPT ![p] = @ \ {c}]
      /\ node' = [node EXCEPT ![p] = tfilter_TopoUpdate(p, @, <<u>>)]
      /\ send_Upstream(p, <<u>>)
      /\ UNCHANGED <<alive, off, up, joined, toChild, listen, rec, crashes>>

\* recover_FromChildFailure: the update goes through the local upstream filter first.
recover_FromChildFailure(p, c) ==
  LET u == Update("TOPO_REMOVE_RANK", p, c)
  IN  /\ p \in running /\ rec[p] = Idle /\ c \in fd[p] \ alive
      /\ fd' = [fd EXCEPT ![p] = @ \ {c}]
      /\ node' = [node EXCEPT ![p] = tfilter_TopoUpdate(p, @, <<u>>)]
      /\ send_Upstream(p, <<u>>)
      /\ UNCHANGED <<alive, off, up, joined, toChild, listen, rec, crashes>>

\* proc_NewChildDataConnection from a child that had another parent before
proc_NewChildDataConnection(p) ==
  LET c == Head(listen[p]).child
      u == Update("TOPO_CHANGE_PARENT", p, c)
      linked == [node[p] EXCEPT !.kids = @ \cup {c},
                                !.topo = add_SubGraph(@, p, Head(listen[p]).sub)]
  IN  /\ p \in running /\ rec[p] = Idle
      /\ listen[p] # <<>> /\ Head(listen[p]).tag = "PROT_NEW_CHILD_DATA_CONNECTION"
      /\ listen' = [listen EXCEPT ![p] = Tail(@)]
      /\ joined' = [joined EXCEPT ![p] = @ \cup {c}]
      /\ node' = [node EXCEPT ![p] = tfilter_TopoUpdate(p, update_Router_Table(p, linked), <<u>>)]
      /\ send_Upstream(p, <<u>>)
      /\ UNCHANGED <<alive, off, up, fd, toChild, rec, crashes>>

proc_NewChildFDConnection(p) ==
  /\ p \in running /\ rec[p] = Idle
  /\ listen[p] # <<>> /\ Head(listen[p]).tag = "PROT_NEW_CHILD_FD_CONNECTION"
  /\ listen' = [listen EXCEPT ![p] = Tail(@)]
  /\ fd' = [fd EXCEPT ![p] = @ \cup {Head(listen[p]).child}]
  /\ UNCHANGED <<alive, off, node, up, joined, links, rec, buffer, crashes>>

-----------------------------------------------------------------------------
\* EventDetector::disable, when the recovery fails
disable(c) ==
  /\ off' = off \cup {c}
  /\ rec' = [rec EXCEPT ![c] = Idle]

\* Step 1: a new parent, from the copy as it is now; the PeerNode replaces _parent at
\* once, so what other threads send from now on waits for its connection.
find_Adopter(c) ==
  /\ c \in running \ {Root} /\ rec[c] = Idle /\ up[c] \notin alive
  /\ \/ \E a \in find_NewParent(node[c].topo, c) :
          /\ up' = [up EXCEPT ![c] = a]
          /\ rec' = [rec EXCEPT ![c] = [at |-> "connect", old |-> up[c]]]
          /\ off' = off
     \/ find_NewParent(node[c].topo, c) = {} /\ disable(c) /\ up' = up
  /\ UNCHANGED <<alive, node, joined, fd, links, listen, buffer, crashes>>

\* Mutant: a refused connection is waited for.
init_newChildDataConnection_noGiveUp(c) ==
  LET sub == get_LocalSubTree(node[c].topo, c)
      hello == [tag |-> "PROT_NEW_CHILD_DATA_CONNECTION", child |-> c, sub |-> sub]
  IN  /\ c \in running /\ rec[c].at = "connect" /\ up[c] \in alive
      /\ listen' = [listen EXCEPT ![up[c]] = Append(@, hello)]
      /\ rec' = [rec EXCEPT ![c].at = "event"]
      /\ UNCHANGED <<alive, off, node, up, joined, fd, links, buffer, crashes>>

\* Step 2: the data connection and the local subtree; there is no second candidate.
init_newChildDataConnection(c) ==
  LET sub == get_LocalSubTree(node[c].topo, c)
      hello == [tag |-> "PROT_NEW_CHILD_DATA_CONNECTION", child |-> c, sub |-> sub]
  IN  /\ c \in running /\ rec[c].at = "connect"
      /\ \/ /\ up[c] \in alive /\ sub # NoSubTree
            /\ listen' = [listen EXCEPT ![up[c]] = Append(@, hello)]
            /\ rec' = [rec EXCEPT ![c].at = "event"]
            /\ off' = off
         \/ /\ up[c] \notin alive \/ sub = NoSubTree
            /\ disable(c) /\ listen' = listen
      /\ UNCHANGED <<alive, node, up, joined, fd, links, buffer, crashes>>

\* Step 3: the event connection
init_NewChildFDConnection(c) ==
  LET hello == [tag |-> "PROT_NEW_CHILD_FD_CONNECTION", child |-> c, sub |-> NoSubTree]
  IN  /\ c \in running /\ rec[c].at = "event"
      /\ \/ /\ up[c] \in alive
            /\ listen' = [listen EXCEPT ![up[c]] = Append(@, hello)]
            /\ rec' = [rec EXCEPT ![c].at = "finish"]
            /\ off' = off
         \/ up[c] \notin alive /\ disable(c) /\ listen' = listen
      /\ UNCHANGED <<alive, node, up, joined, fd, links, buffer, crashes>>

\* Steps 4 and 5: local structures, and the report to the children of an internal node
recover_FromParentFailure(c) ==
  /\ c \in running /\ rec[c].at = "finish"
  /\ node' = [node EXCEPT ![c] = move_Below(c, @, c, rec[c].old, up[c])]
  /\ send_Downstream(c, node'[c].kids, RecoveryRpt(c, rec[c].old, up[c]))
  /\ rec' = [rec EXCEPT ![c] = Idle]
  /\ UNCHANGED <<alive, off, up, joined, fd, toParent, listen, buffer, crashes>>

-----------------------------------------------------------------------------
\* A topology update from child c, in the receive thread for c
proc_UpdateFromChild(p, c) ==
  LET packet == Head(toParent[<<c, p>>])
      taken == [toParent EXCEPT ![<<c, p>>] = Tail(@)]
  IN  /\ p \in running /\ c \in joined[p] /\ toParent[<<c, p>>] # <<>>
      /\ node' = [node EXCEPT ![p] = tfilter_TopoUpdate(p, @, packet.updates)]
      /\ \/ /\ p = Root /\ buffer' = buffer \o packet.updates
            /\ toParent' = taken
         \/ /\ p # Root /\ buffer' = buffer
            /\ toParent' = [taken EXCEPT ![<<p, up[p]>>] = Append(@, packet)]
      /\ UNCHANGED <<alive, off, up, joined, fd, toChild, listen, rec, crashes>>

\* Packets from a parent, present or past, in the receive thread for it
forward(c, p, to) ==
  toChild' = [l \in Ranks \X Ranks |->
                CASE l = <<p, c>> -> Tail(toChild[l])
                  [] l[1] = c /\ l[2] \in to -> Append(toChild[l], Head(toChild[<<p, c>>]))
                  [] OTHER -> toChild[l]]

proc_UpdateFromParent(c, p) ==
  LET packet == Head(toChild[<<p, c>>])
  IN  /\ c \in running /\ toChild[<<p, c>>] # <<>> /\ packet.tag = "PROT_TOPO_UPDATE"
      /\ node' = [node EXCEPT ![c] = tfilter_TopoUpdate(c, @, packet.updates)]
      /\ forward(c, p, node'[c].peers)
      /\ UNCHANGED <<alive, off, up, joined, fd, toParent, listen, rec, buffer, crashes>>

proc_RecoveryReport(c, p) ==
  LET packet == Head(toChild[<<p, c>>])
  IN  /\ c \in running /\ toChild[<<p, c>>] # <<>> /\ packet.tag = "PROT_RECOVERY_RPT"
      /\ node' = [node EXCEPT ![c] =
                    move_Below(c, @, packet.child, packet.failed, packet.new)]
      /\ forward(c, p, node'[c].kids)
      /\ UNCHANGED <<alive, off, up, joined, fd, toParent, listen, rec, buffer, crashes>>

\* new_Stream at the front-end: "seems like a good time to send any topology updates"
send_TopologyUpdates ==
  /\ buffer # <<>>
  /\ send_Downstream(Root, node[Root].peers, TopoUpdate(buffer))
  /\ buffer' = <<>>
  /\ UNCHANGED <<alive, off, node, up, joined, fd, toParent, listen, rec, crashes>>

-----------------------------------------------------------------------------
\* broadcast_ShutDown of a disabled process reaches the children it has event sockets to.
proc_RemoteShutDown(c) ==
  /\ c \in running \ {Root} /\ rec[c] = Idle
  /\ up[c] \in off /\ c \in fd[up[c]]
  /\ disable(c)
  /\ UNCHANGED <<alive, node, up, joined, fd, links, listen, buffer, crashes>>

\* It waits for those to close their ends before it ends.
ShutDown(p) ==
  /\ p \in off \cap alive
  /\ \A c \in fd[p] \cap running : up[c] # p
  /\ alive' = alive \ {p}
  /\ listen' = [listen EXCEPT ![p] = <<>>]
  /\ UNCHANGED <<off, node, up, joined, fd, links, rec, buffer, crashes>>

\* The steps of the recovery from a failed parent
FailOver(p) ==
  \/ find_Adopter(p)
  \/ init_newChildDataConnection(p)
  \/ init_NewChildFDConnection(p)
  \/ recover_FromParentFailure(p)

Detect(p) ==
  \/ FailOver(p)
  \/ \E c \in Ranks : recover_FromChildFailure(p, c)
  \/ proc_NewChildFDConnection(p)
  \/ proc_NewChildDataConnection(p)
  \/ proc_RemoteShutDown(p)
  \/ ShutDown(p)

Receive(p, q) ==
  \/ proc_UpdateFromChild(p, q)
  \/ proc_UpdateFromParent(p, q)
  \/ proc_RecoveryReport(p, q)

Next ==
  \/ \E p \in Ranks : Crash(p) \/ Detect(p)
  \/ \E p, q \in Ranks : Receive(p, q)
  \/ send_TopologyUpdates

Spec == Init /\ [][Next]_vars

\* The event detector of a process that runs goes on with the recovery it started.
Fairness == \A p \in Ranks \ {Root} : WF_vars(FailOver(p))
FairSpec == Spec /\ Fairness

-----------------------------------------------------------------------------
NodeSet == [topo : TopologySet, kids : SUBSET Ranks,
            table : [Ranks -> Ranks \cup {NoRank}], peers : SUBSET Ranks]

\* The types of the variables (links and listening sockets through their elements).
TypeOK ==
  /\ alive \subseteq Ranks /\ off \subseteq Ranks /\ crashes \in 0..MaxCrashes
  /\ node \in [Ranks -> NodeSet]
  /\ up \in [Ranks -> Ranks \cup {NoRank}]
  /\ joined \in [Ranks -> SUBSET Ranks] /\ fd \in [Ranks -> SUBSET Ranks]
  /\ rec \in [Ranks -> [at : Steps, old : Ranks \cup {NoRank}]]
  /\ buffer \in Seq(UpdateSet)

\* Nothing is under way: every failure was noticed, every packet and connection handled.
Quiescent ==
  /\ off \cap alive = {}
  /\ \A p \in running :
       /\ rec[p] = Idle /\ listen[p] = <<>> /\ fd[p] \subseteq alive
       /\ p # Root => up[p] \in alive
       /\ \A q \in Ranks : toChild[<<q, p>>] = <<>> /\ (q \in joined[p] => toParent[<<q, p>>] = <<>>)

\* The connections as they are: the children of p that have p as their parent.
Below(p) ==
  LET real == [nodes |-> running, par |-> [r \in Ranks |-> IF r \in running THEN up[r] ELSE NoRank]]
  IN  get_Descendants(real, p)

\* Every copy stays a forest of known nodes: a parent is itself in the copy, and a node
\* without a parent is the front-end or listed in _orphans, whatever the order in which
\* removals, re-parentings and subtrees reach that process (NetworkTopology.C).
CopiesWellFormed ==
  \A p \in Ranks :
    LET t == node[p].topo
    IN  /\ \A n \in t.nodes : t.par[n] \in t.nodes \cup {NoRank}
        /\ \A n \in Ranks \ t.nodes : t.par[n] = NoRank
        /\ t.orphans = {n \in t.nodes : t.par[n] = NoRank} \ {Root}

\* After one crash, once everything settled, all running processes hang together below
\* the front-end and the front-end's copy is exactly the tree of connections.
FrontEndSeesTree ==
  Quiescent /\ crashes <= 1 =>
    /\ Below(Root) = alive
    /\ node[Root].topo.nodes = alive
    /\ \A c \in alive \ {Root} : node[Root].topo.par[c] = up[c]

\* After one crash, the outlets lead from the front-end to every back-end that runs:
\* each process on the way passes a packet to the child that is, or has below it, that
\* back-end (Router::update_Table at every process a re-parenting passes).
RoutesReachBackEnds ==
  Quiescent /\ crashes <= 1 =>
    \A e \in BackEnds \cap alive, p \in running :
      p # e /\ e \in Below(p) => LET k == get_OutletNode(node[p].table, e)
                                 IN  k # NoRank /\ up[k] = p /\ e \in Below(k)

\* After one crash, the streams still reach every back-end that runs: each process on the
\* way has the child that leads there among the stream's peers.  Stream::remove_Node
\* keeps the stream open because, with recovery on, the back-ends below the failed peer
\* are expected to re-connect (Stream.C).
StreamsReachEndPoints ==
  Quiescent /\ crashes <= 1 =>
    \A e \in EndPoints \cap alive, p \in running :
      p # e /\ e \in Below(p) => \E k \in node[p].peers : up[k] = p /\ e \in Below(k)

\* Crashes being bounded, every process that still runs is in the end connected to a
\* parent that is there, for good: none stays between two parents (EventDetector.C).
OrphansSettle ==
  <>[](\A c \in running \ {Root} : up[c] \in alive /\ rec[c] = Idle)

\* Every process's copy of the topology is a forest of known nodes at every step of a recovery.
CopiesSound == TypeOK /\ CopiesWellFormed

\* After one crash the tree is whole again, in the front-end's eyes and for the packets it
\* routes (recover_FromChildFailure, recover_FromParentFailure, Router::update_Table).
TreeRestored == FrontEndSeesTree /\ RoutesReachBackEnds
=============================================================================
