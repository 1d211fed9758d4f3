------------------------------- MODULE Launch -------------------------------
(***************************************************************************)
(* Starting the processes of a tree.  RSH: every parent creates its        *)
(* children, which connect back to it.  Cray XT and CTI: the front-end     *)
(* starts one process on every host at once; each of these waits for the   *)
(* topology, starts the other processes of its host, joins its own parent  *)
(* and passes the topology on to hosts below it.  In all of them a process *)
(* reports to its parent when its children have reported.                  *)
(***************************************************************************)
EXTENDS ParsedGraph

CONSTANTS LaunchFiles,   \* topology files
          LaunchApps,    \* sets of hosts an application runs on
          TopoPort, FePort,
          NidMax,        \* the largest number a node identifier can have: (uint32_t)-1
          MaxFaults      \* bound on timeouts and failed creations

VARIABLES lstage,        \* of the front-end: idle, launching, waiting, ok, failed
          launcher, ltopo, lhave,
          daemon,        \* host -> the process the bulk launcher starts there
          proc,          \* rank -> how far its constructor has got
          starts,        \* rank -> how often it was started
          ltodo, lseen,  \* the loop over the children: those left, and hostsSeen
          expect, reported,   \* _num_children, _num_children_reported_init
          faults
launchVars == <<lstage, launcher, ltopo, lhave, daemon, proc, starts, ltodo, lseen, expect, reported, faults>>

-----------------------------------------------------------------------------
\* Places of a string.  The root is place 1.
Nodes(g) == {i \in 1..Len(g) : g[i].b = "["}
ParentAt(g, i) == CHOOSE j \in 1..i - 1 : /\ g[j].b = "[" /\ Matching(g, j) > i
                                          /\ \A k \in j + 1..i - 1 : g[k].b = "[" => Matching(g, k) < i
KidsAt(g, i) == {j \in Nodes(g) : j > i /\ j < Matching(g, i) /\ ParentAt(g, j) = i}
At(g, rank) == CHOOSE i \in Nodes(g) : g[i].rank = rank
KidRanks(g, rank) == LET s == SetToSortSeq(KidsAt(g, At(g, rank)), <) IN [i \in 1..Len(s) |-> g[s[i]].rank]
HostOf(g, rank) == g[At(g, rank)].host
RootRank == get_RootRank(ltopo)
Ranks == {ltopo[i].rank : i \in Nodes(ltopo)}
IsBE(r) == ltopo[At(ltopo, r)].typ = 0 /\ lhave      \* is_RootBackEnd() && beArgc > 0

\* The nearest process of a host: the children first, then what is below them, in order.
FindClosestHostToRoot(hname, g) ==
  LET find[i \in 1..Len(g)] ==
        LET kids == KidsAt(g, i)
            hits == {k \in kids : g[k].host = hname}
            deep == [k \in {j \in kids : g[j].typ = 1} |-> find[k]]
            found == {k \in DOMAIN deep : deep[k] # 0}
        IN  IF hits # {} THEN First(hits) ELSE IF found # {} THEN deep[First(found)] ELSE 0
  IN  find[1]
ClosestToRoot(g, hname, rank) ==
  LET i == FindClosestHostToRoot(hname, g) IN i # 0 /\ g[i].rank = rank
IsClosestToRoot(g, hname, rank) ==
  LET i == FindClosestHostToRoot(hname, g) IN i # 0 /\ g[i].rank = rank

FindPositionInTopology(g, hname, rank) ==
  LET i == CHOOSE j \in Nodes(g) \ {1} : g[j].host = hname /\ g[j].rank = rank
      p == g[ParentAt(g, i)]
  IN  [parentRank |-> p.rank, parentPort |-> p.port]
FindColocatedProcesses_near(g, hname, rank) ==
  {g[i].rank : i \in {j \in KidsAt(g, 1) : g[j].host = hname /\ g[j].rank # rank}}
\* The walk starts at the children of the root: the front-end is not among them.
FindColocatedProcesses(g, hname, rank) ==
  {g[i].rank : i \in {j \in Nodes(g) \ {1} : g[j].host = hname /\ g[j].rank # rank}}

FindHostsInTopology(g) == [h \in {g[i].host : i \in Nodes(g)} |-> Cardinality({i \in Nodes(g) : g[i].host = h})]
FindParentPort == TopoPort + 1

\* strstr finds "host:65535" at the end of a longer name as well (names are numbers here).
EndsWith(name, suffix) == name = suffix \/ (name > 9 /\ name % 10 = suffix)
PortOf_flat(h, fe, i) == IF h = fe /\ i = 0 THEN FePort ELSE FindParentPort
PortOf(h, fe, i) == IF h = fe /\ i = 0 THEN FePort ELSE FindParentPort + i
AssignHost(g, h, count, fe) ==
  LET hits == {i \in Nodes(g) : EndsWith(g[i].host, h) /\ g[i].port = UnknownPort}
      index(i) == Cardinality({j \in hits : j < i})
  IN  [i \in 1..Len(g) |-> IF i \in hits /\ index(i) < count THEN [g[i] EXCEPT !.port = PortOf(h, fe, index(i))]
                           ELSE g[i]]
\* ConnectProcesses: host after host, the i-th of a host listens on the i-th port.
AssignPorts(g) ==
  LET count == FindHostsInTopology(g)
      hosts == SetToSortSeq(DOMAIN count, <)
      upto[n \in 0..Len(hosts)] == IF n = 0 THEN g ELSE AssignHost(upto[n - 1], hosts[n], count[hosts[n]], get_RootHostName(g))
  IN  upto[Len(hosts)]

\* "nidxxxxx" -> xxxxx; here the numbers of hosts are their node identifiers
GetNidFromNodename(hname) == hname % (NidMax + 1)
\* The placement list: ranges of consecutive identifiers
BuildCompactNodeSpec(hosts) ==
  LET s == SetToSortSeq(hosts, <)
      walk[n \in 1..Len(s)] ==
        LET nid == GetNidFromNodename(s[n])
        IN  IF n = 1 THEN [done |-> <<>>, range |-> <<nid, nid>>]
            ELSE LET w == walk[n - 1]
                 IN  IF nid = (w.range[2] + 1) % (NidMax + 1) THEN [w EXCEPT !.range = <<w.range[1], nid>>]
                     ELSE [done |-> Append(w.done, w.range), range |-> <<nid, nid>>]
  IN  IF hosts = {} THEN <<>> ELSE Append(walk[Len(s)].done, walk[Len(s)].range)
Placed(hosts) == LET spec == BuildCompactNodeSpec(hosts)
                 IN  UNION {spec[i][1]..spec[i][2] : i \in 1..Len(spec)}

\* Hosts of processes that share a node with the application, and the others.
DetermineProcessTypes(g, app) ==
  LET hosts == {g[i].host : i \in Nodes(g) \ {1}} IN [aprun |-> hosts \ app, ath |-> hosts \cap app]
CTI_DetermineProcessTypes(g, app) ==
  LET below(S) == {g[i].host : i \in {j \in Nodes(g) \ {1} : g[j].host \in S}}
  IN  [aprun |-> below({g[i].host : i \in Nodes(g)} \ app), ath |-> below(app)]
\* aprun (or srun) starts a process on the nodes of the list; the tool helper starts one on
\* every node of the application.
SpawnProcesses(types, app) == Placed(types.aprun) \cup (IF types.ath = {} THEN {} ELSE app)
CTI_SpawnProcesses(types, app) == Placed(types.aprun) \cup (IF types.ath = {} THEN {} ELSE app)

-----------------------------------------------------------------------------
LaunchInit ==
  /\ lstage = "idle" /\ launcher = "none" /\ ltopo = <<>> /\ lhave = FALSE /\ daemon = <<>> /\ proc = <<>>
  /\ starts = <<>> /\ ltodo = <<>> /\ lseen = <<>> /\ expect = <<>> /\ reported = <<>> /\ faults = 0

LaunchString(file, have) == LET g == config(file) IN serialize(g, assign_NodeRanks(g, TRUE), have)
LaunchBegins(g, who) ==
  LET all == {g[i].rank : i \in Nodes(g)}
      root == get_RootRank(g)
  IN  /\ lstage' = "launching" /\ launcher' = who /\ ltopo' = g
      /\ proc' = [r \in all |-> IF r = root THEN "launching" ELSE "none"]
      /\ starts' = [r \in all |-> IF r = root THEN 1 ELSE 0]
      /\ ltodo' = [r \in all |-> IF r = root THEN KidRanks(g, root) ELSE <<>>]
      /\ reported' = [r \in all |-> 0] /\ faults' = 0

\* RSHNetwork::Instantiate
RSH_Instantiate ==
  /\ lstage = "idle"
  /\ \E file \in LaunchFiles, have \in BOOLEAN :
       LET g == [LaunchString(file, have) EXCEPT ![1].port = FePort]
       IN  LaunchBegins(g, "RSH") /\ lhave' = have /\ lseen' = [r \in {g[i].rank : i \in Nodes(g)} |-> {}]
           /\ expect' = [r \in {g[i].rank : i \in Nodes(g)} |-> 0]
  /\ daemon' = <<>>
\* XTNetwork::Instantiate of XTNetwork.C and of CTINetwork.C: DetermineProcessTypes,
\* SpawnProcesses and the beginning of ConnectProcesses, which counts the children of the
\* front-end.
BulkLaunch(who, g, have, booted) ==
  LET all == {g[i].rank : i \in Nodes(g)}
  IN  /\ LaunchBegins(g, who) /\ lhave' = have
      /\ daemon' = [h \in booted |-> "booting"]
      /\ expect' = [r \in all |-> IF r = get_RootRank(g) THEN Len(KidRanks(g, r)) ELSE 0]
      /\ lseen' = [r \in all |-> IF r = get_RootRank(g) /\ who = "XT" THEN {get_RootHostName(g)} ELSE {}]
XT_Instantiate ==
  /\ lstage = "idle"
  /\ \E file \in LaunchFiles, have \in BOOLEAN, app \in LaunchApps :
       LET g == AssignPorts(LaunchString(file, have))
       IN  BulkLaunch("XT", g, have, SpawnProcesses(DetermineProcessTypes(g, app), app))
CTI_Instantiate ==
  /\ lstage = "idle"
  /\ \E file \in LaunchFiles, have \in BOOLEAN, app \in LaunchApps :
       LET g == AssignPorts(LaunchString(file, have))
       IN  BulkLaunch("CTI", g, have, CTI_SpawnProcesses(CTI_DetermineProcessTypes(g, app), app))

Is(r, s) == proc[r] = s
Fault == faults < MaxFaults /\ faults' = faults + 1
Alive(r) == proc[r] # "dead"
Rest == UNCHANGED <<launcher, ltopo, lhave>>

\* The first process of a host listens on the topology port; nobody may come in time.
\* (The constructor up to getSocketConnection.)
CreateListeningSocket(h) ==
  /\ daemon[h] = "booting" /\ daemon' = [daemon EXCEPT ![h] = "listening"]
  /\ UNCHANGED <<lstage, proc, starts, ltodo, lseen, expect, reported, faults>> /\ Rest
getSocketConnection_timeout(h) ==
  /\ daemon[h] = "listening" /\ Fault /\ daemon' = [daemon EXCEPT ![h] = "gone"]
  /\ UNCHANGED <<lstage, proc, starts, ltodo, lseen, expect, reported>> /\ Rest

Next1(r) == Head(ltodo[r])
Advance(r) == ltodo' = [ltodo EXCEPT ![r] = Tail(@)]
\* Connecting to the topology port of the child's host, with retries: the process there may
\* not listen yet.  A failure ends the sender.
Deliver(r, c) ==
  LET h == HostOf(ltopo, c)
  IN  IF h \in DOMAIN daemon /\ daemon[h] # "gone"
      THEN /\ daemon[h] = "listening" /\ daemon' = [daemon EXCEPT ![h] = "gone"]
           /\ proc' = [proc EXCEPT ![c] = "first"]
           /\ Advance(r) /\ lseen' = [lseen EXCEPT ![r] = @ \cup {h}] /\ UNCHANGED lstage
      ELSE /\ proc' = [proc EXCEPT ![r] = "dead"] /\ UNCHANGED <<daemon, ltodo, lseen>>
           /\ lstage' = IF r = RootRank THEN "failed" ELSE lstage
Skip(r, h) == Advance(r) /\ lseen' = [lseen EXCEPT ![r] = @ \cup {h}] /\ UNCHANGED <<daemon, proc, lstage>>
\* One turn of the loop over the children.
PropagateTopologyOffNode(r) ==
  /\ launcher = "XT" /\ Is(r, "launching") /\ ltodo[r] # <<>>
  /\ LET c == Next1(r)  h == HostOf(ltopo, c)
     IN  IF h \notin lseen[r] /\ ClosestToRoot(ltopo, h, c) THEN Deliver(r, c) ELSE Skip(r, h)
  /\ UNCHANGED <<starts, expect, reported, faults>> /\ Rest
PropagateTopologyForBulkLaunched(r) ==
  /\ launcher = "CTI" /\ Is(r, "launching") /\ ltodo[r] # <<>>
  /\ LET c == Next1(r)  h == HostOf(ltopo, c)
     IN  IF h \notin lseen[r] /\ IsClosestToRoot(ltopo, h, c) THEN Deliver(r, c) ELSE Skip(r, h)
  /\ UNCHANGED <<starts, expect, reported, faults>> /\ Rest

\* SpawnBE and SpawnCP (which also passes the topology on): the processes in `some' run.
Spawned(some) ==
  /\ proc' = [q \in Ranks |-> IF q \in some THEN "started" ELSE proc[q]]
  /\ starts' = [q \in Ranks |-> IF q \in some THEN starts[q] + 1 ELSE starts[q]]
\* One of them fails: the process exits, what it has started goes on.
SpawnFails(r, some) ==
  /\ Fault
  /\ proc' = [q \in Ranks |-> IF q \in some THEN "started" ELSE IF q = r THEN "dead" ELSE proc[q]]
  /\ starts' = [q \in Ranks |-> IF q \in some THEN starts[q] + 1 ELSE starts[q]]
SpawnColocated_every(r) ==
  /\ Is(r, "first") \/ (launcher # "RSH" /\ Is(r, "started"))
  /\ Spawned(FindColocatedProcesses(ltopo, HostOf(ltopo, r), r) \cup {r})
  /\ UNCHANGED <<lstage, daemon, ltodo, lseen, expect, reported, faults>> /\ Rest
\* GetTopology, then SpawnBE or SpawnCP for every other process of the host, then the rest of
\* its own constructor or a back-end in its place.
SpawnColocated(r) ==
  /\ Is(r, "first")
  /\ LET others == FindColocatedProcesses(ltopo, HostOf(ltopo, r), r)
     IN  \/ Spawned(others \cup {r}) /\ UNCHANGED faults
         \/ \E some \in SUBSET others : SpawnFails(r, some)
  /\ UNCHANGED <<lstage, daemon, ltodo, lseen, expect, reported>> /\ Rest

\* A communication process opens its data socket only now.
ListenForChildren(r) ==
  /\ launcher # "RSH" /\ Is(r, "started") /\ ~IsBE(r)
  /\ proc' = [proc EXCEPT ![r] = "listening"]
  /\ UNCHANGED <<lstage, daemon, starts, ltodo, lseen, expect, reported, faults>> /\ Rest

\* A parent accepts once it listens; under RSH before it creates a child.
Accepting(p) == proc[p] \in {"listening", "connected", "counting", "launching", "waiting", "reported"}
ParentOf(r) == FindPositionInTopology(ltopo, HostOf(ltopo, r), r).parentRank
init_BackEnd(r) ==
  /\ Is(r, "started") /\ IsBE(r) /\ Accepting(ParentOf(r))
  /\ proc' = [proc EXCEPT ![r] = "waiting"]
  /\ UNCHANGED <<lstage, daemon, starts, ltodo, lseen, expect, reported, faults>> /\ Rest
init_InternalNode(r) ==
  /\ launcher # "RSH" /\ Is(r, "listening") /\ Accepting(ParentOf(r))
  /\ proc' = [proc EXCEPT ![r] = "connected"]
  /\ UNCHANGED <<lstage, daemon, starts, ltodo, lseen, expect, reported, faults>> /\ Rest
\* RSH: connects, asks for the launch packet and gets it (request_LaunchInfo).
request_LaunchInfo(r) ==
  /\ launcher = "RSH" /\ Is(r, "started") /\ ~IsBE(r) /\ Accepting(ParentOf(r))
  /\ proc' = [proc EXCEPT ![r] = "launching"]
  /\ ltodo' = [ltodo EXCEPT ![r] = KidRanks(ltopo, r)]
  /\ UNCHANGED <<lstage, daemon, starts, lseen, expect, reported, faults>> /\ Rest

\* _num_children = 0 and then one more for each child, without a lock, while reports arrive.
init_numChildrenExpected_reset(r) ==
  /\ Is(r, "connected")
  /\ expect' = [expect EXCEPT ![r] = 0] /\ ltodo' = [ltodo EXCEPT ![r] = KidRanks(ltopo, r)]
  /\ proc' = [proc EXCEPT ![r] = "counting"]
  /\ UNCHANGED <<lstage, daemon, starts, lseen, reported, faults>> /\ Rest
init_numChildrenExpected_count(r) ==
  /\ Is(r, "counting")
  /\ IF ltodo[r] # <<>>
     THEN expect' = [expect EXCEPT ![r] = @ + 1] /\ Advance(r) /\ UNCHANGED <<proc, lseen>>
     ELSE /\ ltodo' = [ltodo EXCEPT ![r] = KidRanks(ltopo, r)]
          /\ lseen' = [lseen EXCEPT ![r] = IF launcher = "XT" THEN {HostOf(ltopo, r)} ELSE {}]
          /\ proc' = [proc EXCEPT ![r] = "launching"] /\ UNCHANGED expect
  /\ UNCHANGED <<lstage, daemon, starts, reported, faults>> /\ Rest

\* RSH: _num_children is raised before the child is created.  Process::Create may fail: the
\* front-end gives up, another parent goes on to wait for reports.
proc_LaunchSubTree(r) ==
  /\ launcher = "RSH" /\ Is(r, "launching") /\ ltodo[r] # <<>>
  /\ expect' = [expect EXCEPT ![r] = @ + 1]
  /\ LET c == Next1(r)
     IN  \/ /\ proc' = [proc EXCEPT ![c] = "started"] /\ starts' = [starts EXCEPT ![c] = @ + 1]
            /\ Advance(r) /\ UNCHANGED <<faults, lstage>>
         \/ /\ Fault /\ ltodo' = [ltodo EXCEPT ![r] = <<>>] /\ UNCHANGED <<starts, proc>>
            /\ lstage' = IF r = RootRank THEN "failed" ELSE lstage
  /\ UNCHANGED <<daemon, lseen, reported>> /\ Rest

\* All children dealt with: wait for their reports.
waitfor_SubTreeInitDoneReports(r) ==
  /\ Is(r, "launching") /\ ltodo[r] = <<>> /\ lstage \notin {"ok", "failed"}
  /\ proc' = [proc EXCEPT ![r] = "waiting"]
  /\ lstage' = IF r = RootRank THEN "waiting" ELSE lstage
  /\ UNCHANGED <<daemon, starts, ltodo, lseen, expect, reported, faults>> /\ Rest

\* A report from a known child, or from a "newborn" when all known ones have reported.
proc_SubTreeInitDoneReport(p) ==
  /\ reported' = [reported EXCEPT ![p] = @ + 1]
  /\ expect' = IF reported[p] = expect[p] THEN [expect EXCEPT ![p] = @ + 1] ELSE expect
PropagateSubtreeReports_early(r) == Is(r, "waiting") /\ r # RootRank /\ UNCHANGED faults
\* The wait ends with the last report or with the timeout; the report is sent either way.
PropagateSubtreeReports(r) ==
  /\ Is(r, "waiting") /\ r # RootRank
  /\ (reported[r] >= expect[r] /\ UNCHANGED faults) \/ (reported[r] < expect[r] /\ Fault)
send_SubTreeInitDoneReport(r) ==
  /\ PropagateSubtreeReports(r) /\ Alive(ParentOf(r))
  /\ proc_SubTreeInitDoneReport(ParentOf(r))
  /\ proc' = [proc EXCEPT ![r] = "reported"]
  /\ UNCHANGED <<lstage, daemon, starts, ltodo, lseen>> /\ Rest
\* init_FrontEnd goes on, or gives up and shuts down what there is.
FrontEndDone ==
  /\ lstage = "waiting"
  /\ \/ reported[RootRank] >= expect[RootRank] /\ lstage' = "ok" /\ UNCHANGED faults
     \/ reported[RootRank] < expect[RootRank] /\ Fault /\ lstage' = "failed"
  /\ UNCHANGED <<daemon, proc, starts, ltodo, lseen, expect, reported>> /\ Rest

LaunchNext ==
  \/ RSH_Instantiate \/ XT_Instantiate \/ CTI_Instantiate \/ FrontEndDone
  \/ \E h \in DOMAIN daemon : CreateListeningSocket(h) \/ getSocketConnection_timeout(h)
  \/ \E r \in DOMAIN proc :
       \/ PropagateTopologyOffNode(r) \/ PropagateTopologyForBulkLaunched(r) \/ SpawnColocated(r)
       \/ ListenForChildren(r) \/ init_BackEnd(r) \/ init_InternalNode(r) \/ request_LaunchInfo(r)
       \/ init_numChildrenExpected_reset(r) \/ init_numChildrenExpected_count(r)
       \/ proc_LaunchSubTree(r) \/ waitfor_SubTreeInitDoneReports(r) \/ send_SubTreeInitDoneReport(r)

-----------------------------------------------------------------------------
\* No process is started twice, whoever finds out that it has to start it (ClosestToRoot,
\* FindColocatedProcesses, proc_LaunchSubTree).
StartedOnce == \A r \in DOMAIN starts : starts[r] <= 1

\* Who can do nothing more on its own, and when nobody can.
SharesFrontEndHost == \E r \in Ranks \ {RootRank} : HostOf(ltopo, r) = get_RootHostName(ltopo)
Blocked(r) ==
  \/ Is(r, "none") \/ Is(r, "reported") \/ Is(r, "dead")
  \/ (Is(r, "started") \/ Is(r, "listening")) /\ r # RootRank /\ ~Accepting(ParentOf(r))
  \/ Is(r, "launching") /\ ltodo[r] # <<>> /\ daemon # <<>> /\ HostOf(ltopo, Next1(r)) \in DOMAIN daemon
       /\ daemon[HostOf(ltopo, Next1(r))] = "booting"
  \/ Is(r, "waiting") /\ (reported[r] < expect[r] \/ r = RootRank)
Stuck == /\ \A r \in DOMAIN proc : Blocked(r)
         /\ \A h \in DOMAIN daemon : daemon[h] # "booting"
Joined(r) == proc[r] \in {"connected", "counting", "launching", "waiting", "reported"}

\* The launch is stuck only when it is over: without a fault, when no process can go on every
\* process has joined its parent; so there is no host whose first process waits for a
\* topology that never comes, and no circle of processes each waiting for another to listen.
\* With XT the hosts below must not include the front-end's own: hostsSeen begins with it and
\* the processes there are never sent the topology.
StuckOnlyWhenJoined ==
  lstage # "idle" /\ faults = 0 /\ Stuck /\ ~(launcher = "XT" /\ SharesFrontEndHost)
    => \A r \in Ranks : Joined(r)

\* No name of a host ends with the name of another.
NamesClear == \A i, j \in Nodes(ltopo) : EndsWith(ltopo[i].host, ltopo[j].host) => ltopo[i].host = ltopo[j].host

\* Two processes of a host never listen on the same port, nor on the topology port, so that
\* every process can listen where its children look for it (ConnectProcesses), if no name of
\* a host ends with the name of another.
PortsDistinct ==
  launcher \in {"XT", "CTI"} /\ NamesClear =>
    \A i, j \in Nodes(ltopo) :
      /\ ltopo[i].port \notin {TopoPort, UnknownPort}
      /\ i # j /\ ltopo[i].host = ltopo[j].host => ltopo[i].port # ltopo[j].port

\* When the front-end says that the network is up every process of the tree has joined it and
\* has seen all its children report; without a timeout, that is: a process that gives up
\* waiting reports all the same.
UpMeansComplete == lstage = "ok" /\ faults = 0 => \A r \in Ranks : r = RootRank \/ Is(r, "reported")

\* Each process is started once, reaches its parent at a port of its own, and the network is
\* called up when all have.
LaunchCorrect == StartedOnce /\ StuckOnlyWhenJoined /\ PortsDistinct /\ UpMeansComplete
=============================================================================
