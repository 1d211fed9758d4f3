----------------------------- MODULE MCServices -----------------------------
(***************************************************************************)
(* The library's services, one component at a time: sending on a stream,   *)
(* loading filters in the tree, the event manager and its callbacks,       *)
(* packets through messages and the codec, the bytes of a message through  *)
(* the socket layer, the transformation filters, the clock skews, the      *)
(* performance data, the topology files and the launchers.  They share no  *)
(* state, so each one leaves its initial state only while the others are   *)
(* in theirs.                                                              *)
(***************************************************************************)
EXTENDS StreamSend, FilterLoad, EventMgr, Sockets, PacketTransfer, TransformFilters, ClockSkew, PerfData, TreeGen, Launch, TLC

SenderSymmetry == Permutations(AppThreads)

MCLoadKids == (0 :> {1, 2}) @@ (1 :> {3})
MCEventTypes == [topology |-> {"add", "remove"}]

MCLens == <<1, 2, 0, 1>>

MCRoutes ==
  LET cpp(o) == [lib |-> "C++", order |-> o]  c(o) == [lib |-> "C", order |-> o]
  IN  {<<cpp(a), cpp(b), x>> : a, b \in Orders, x \in {cpp("little"), cpp("big"), c("little"), c("big")}}
      \cup {<<c(a), cpp(b), cpp(d)>> : a, b, d \in Orders}

WordOf(w) == Total([i \in 1..w |-> i * (Base ^ (i - 1))])
ScalarOf(el) == IF el = "s" THEN {<<>>, <<3, 1>>} ELSE {WordOf(SIZEOF(el))}
ArrayOf(el, n) == [i \in 1..n |-> IF el = "s" THEN <<i, 2>> ELSE (WordOf(SIZEOF(el)) + i - 1)]
Pkt(fmt, slots) == [stream |-> 5, tag |-> Base + 7, src |-> 2 * Base + 1, fmt |-> fmt,
                    dests |-> <<3, Base>>, slots |-> slots]
Tok(a, e) == [arr |-> a, el |-> e]
Singles ==
  UNION {{Pkt(<<Tok("", el)>>, <<v>>) : v \in ScalarOf(el)} : el \in Elems}
  \cup {Pkt(<<Tok(a, el)>>, <<IF n = 0 THEN Null ELSE ArrayOf(el, n), n>>) :
          a \in {"a", "A"}, el \in Elems, n \in {0, 2, 3}}
Mixed == Pkt(<<Tok("a", "d"), Tok("", "s"), Tok("A", "uc"), Tok("", "lf")>>,
             <<ArrayOf("d", 2), 2, <<4>>, ArrayOf("uc", 1), 1, WordOf(4)>>)
Empty == Pkt(<<>>, <<>>)
NoString == Pkt(<<Tok("", "s")>>, <<Null>>)
MCGroups == {<<p>> : p \in Singles} \cup {<<NoString>>, <<Mixed, Empty>>, <<Mixed, Empty, Empty>>}


MCTrees == {(0 :> <<1, 2>>) @@ (1 :> <<3, 4>>), (0 :> <<1, 2, 3>>), (0 :> <<1, 2>>) @@ (2 :> <<3, 4>>)}
Num(t) == IF t = "int" THEN {-4, -1, 2, 3} ELSE {0, 1, 5, 7}
Nums(t) == {[type |-> t, val |-> v] : v \in Num(t)}
Bad == [type |-> "string", val |-> 0, count |-> 1]
Triples(S) == {<<a, b, c>> : a, b, c \in S}
Avgs(t) == {[type |-> t, val |-> v, count |-> k] : v \in Num(t) \ {-4, 7}, k \in {0, 1, 2}}
Classy == {[vals |-> <<>>, memcnts |-> <<>>, mems |-> <<>>],
           [vals |-> <<1>>, memcnts |-> <<2>>, mems |-> <<10, 11>>],
           [vals |-> <<2, 1>>, memcnts |-> <<1, 2>>, mems |-> <<20, 21, 22>>],
           [vals |-> <<1, 3>>, memcnts |-> <<1, 1>>, mems |-> <<30, 31>>]}
Reps == {[id |-> 7, classes |-> <<1, 2>>, reps |-> <<11, 12>>], [id |-> 8, classes |-> <<2>>, reps |-> <<22>>],
         [id |-> 9, classes |-> <<3, 1>>, reps |-> <<33, 31>>], [id |-> 9, classes |-> <<1>>, reps |-> <<>>]}
Arrays == {[type |-> "int", val |-> <<>>], [type |-> "int", val |-> <<1>>], [type |-> "int", val |-> <<2, 3>>],
           [type |-> "uint", val |-> <<4>>], [type |-> "string", val |-> <<5>>]}
Mismatched == <<[type |-> "int", val |-> 1], [type |-> "uint", val |-> 1], [type |-> "int", val |-> 1]>>
MCWaves ==
  UNION {{[filter |-> f, leaf |-> l] :
            l \in UNION {Triples(Nums(t)) : t \in {"int", "uint"}} \cup {<<Bad, Bad, Bad>>, Mismatched}} :
         f \in {"IntSum", "Sum", "Max", "Min"}}
  \cup {[filter |-> "Avg", leaf |-> l] : l \in UNION {Triples(Avgs(t)) : t \in {"int", "uint"}} \cup {<<Bad, Bad, Bad>>}}
  \cup {[filter |-> "ArrayConcat", leaf |-> l] : l \in Triples(Arrays)}
  \cup {[filter |-> "IntEqClass", leaf |-> l] : l \in Triples(Classy)}
  \cup {[filter |-> "PDUIntEqClass", leaf |-> l] : l \in Triples(Reps)}

MCKids == (0 :> <<1, 2>>) @@ (1 :> <<3>>)
MCOffset == (0 :> 0) @@ (1 :> 6) @@ (2 :> -4) @@ (3 :> 2)

\* 11 is another name of host 10
MCNet == [h \in {1, 2, 3, 4, 5, 10, 11, 12} |-> IF h = 11 THEN 10 ELSE h]
HostLists == {<<>>, <<<<1, 2>>, <<2, 2>>, <<10, 3>>>>, <<<<2, 1>>, <<3, 3>>, <<10, 1>>>>,
              <<<<2, 4>>, <<10, 2>>, <<11, 2>>>>, <<<<1, 4>>, <<10, 4>>>>}
Specs == {<<"balanced", [form |-> "list", fanouts |-> f]>> : f \in {<<2>>, <<3>>, <<2, 2>>, <<1, 3>>, <<2, 1, 2>>, <<>>}}
   \cup {<<"balanced", [form |-> "power", fanout |-> 2, depth |-> 2]>>}
   \cup {<<"knomial", [k |-> k, n |-> n]>> : k \in {1, 2, 3}, n \in {1, 3, 4, 6, 8}}
   \cup {<<"generic", [levels |-> l]>> : l \in {<<<<<<1, 2>>>>>>, <<<<<<1, 2>>>>, <<<<1, 1>>, <<1, 3>>>>>>,
            <<<<<<1, 3>>>>, <<<<2, 1>>>>>>, <<<<<<1, 1>>>>, <<<<2, 1>>>>>>, <<<<<<2, 1>>>>>>,
            <<<<<<1, 2>>>>, <<<<1, 1>>>>, <<<<1, 2>>>>>>}}
MCGen == {[gen |-> s[1], spec |-> s[2], lists |-> l, bemax |-> m[1], intmax |-> m[2]] :
            s \in Specs, l \in {<<a>> : a \in HostLists} \cup {<<a, b>> : a, b \in HostLists},
            m \in {<<1, 1>>, <<2, 2>>, <<4, 4>>, <<4, 1>>}}

Proc(h, i) == <<h, i>>
Line(p, k) == [parent |-> p, kids |-> k]
MCLines == {Line(p, k) : p \in {Proc(1, 0), Proc(2, 0), Proc(10, 0)},
              k \in {<<>>, <<Proc(2, 0)>>, <<Proc(1, 0), Proc(3, 0)>>, <<Proc(3, 0), Proc(2, 0)>>,
                     <<Proc(10, 0), Proc(11, 0)>>, <<Proc(10, 0)>>, <<Proc(3, 0), Proc(3, 0)>>}}
MCFiles == {<<l>> : l \in MCLines} \cup {<<l, m>> : l, m \in MCLines} \cup {<<>>}

MCLaunchFiles == {
  <<Line(Proc(1, 0), <<Proc(2, 0), Proc(3, 0)>>), Line(Proc(2, 0), <<Proc(3, 1), Proc(2, 1)>>)>>,
  <<Line(Proc(1, 0), <<Proc(2, 0), Proc(3, 0)>>), Line(Proc(2, 0), <<Proc(4, 0)>>), Line(Proc(3, 0), <<Proc(4, 1)>>)>>,
  <<Line(Proc(1, 0), <<Proc(2, 0), Proc(3, 0)>>), Line(Proc(2, 0), <<Proc(3, 1)>>), Line(Proc(3, 0), <<Proc(2, 1)>>)>>,
  <<Line(Proc(1, 0), <<Proc(1, 1), Proc(2, 0)>>), Line(Proc(1, 1), <<Proc(2, 1)>>)>>,
  <<Line(Proc(1, 0), <<Proc(12, 0), Proc(2, 0)>>), Line(Proc(12, 0), <<Proc(12, 1)>>)>>}
MCApps == {{2, 5}}

Init ==
  /\ SendInit /\ LoadInit /\ EventInit /\ SocketsInit /\ PacketsInit /\ FiltersInit /\ SkewInit /\ PerfInit /\ GenInit /\ LaunchInit
SendIdle == role = "FE" /\ ~shut /\ life = "open" /\ made = {} /\ num = 0 /\ \A t \in SendThreads : job[t] = NoJob
LoadIdle == loads = 0 /\ lacks = {}
EventIdle == evs = 0 /\ regs = 0
SocketsIdle == impl.out = "none" /\ dial = NoSocket /\ lst = NoSocket
PacketsIdle == at = 0
FiltersIdle == wave = NoWave
SkewIdle == rounds = 0
PerfIdle == SeriesIdle /\ CountIdle
GenIdle == gstep = "idle"
LaunchIdle == lstage = "idle"
LocalIdle == LoadIdle /\ EventIdle
TransportIdle == SendIdle /\ SocketsIdle /\ PacketsIdle
ToolsIdle == FiltersIdle /\ SkewIdle /\ PerfIdle /\ GenIdle /\ LaunchIdle
localVars == <<loadVars, eventVars>>
transportVars == <<sendVars, socketVars, packetVars>>
toolVars == <<filterVars, skewVars, perfVars, genVars, launchVars>>
TransportNext ==
  \/ SocketsIdle /\ PacketsIdle /\ SendNext /\ UNCHANGED <<socketVars, packetVars>>
  \/ SendIdle /\ PacketsIdle /\ SocketsNext /\ UNCHANGED <<sendVars, packetVars>>
  \/ SendIdle /\ SocketsIdle /\ PacketsNext /\ UNCHANGED <<sendVars, socketVars>>
ToolsNext ==
  \/ SkewIdle /\ PerfIdle /\ GenIdle /\ LaunchIdle /\ FiltersNext
     /\ UNCHANGED <<skewVars, perfVars, genVars, launchVars>>
  \/ FiltersIdle /\ PerfIdle /\ GenIdle /\ LaunchIdle /\ SkewNext
     /\ UNCHANGED <<filterVars, perfVars, genVars, launchVars>>
  \/ FiltersIdle /\ SkewIdle /\ GenIdle /\ LaunchIdle /\ PerfNext
     /\ UNCHANGED <<filterVars, skewVars, genVars, launchVars>>
  \/ FiltersIdle /\ SkewIdle /\ PerfIdle /\ LaunchIdle /\ GenNext
     /\ UNCHANGED <<filterVars, skewVars, perfVars, launchVars>>
  \/ FiltersIdle /\ SkewIdle /\ PerfIdle /\ GenIdle /\ LaunchNext
     /\ UNCHANGED <<filterVars, skewVars, perfVars, genVars>>
LocalNext ==
  \/ EventIdle /\ LoadNext /\ UNCHANGED eventVars
  \/ LoadIdle /\ EventNext /\ UNCHANGED loadVars
ServicesNext ==
  \/ ToolsIdle /\ LocalIdle /\ TransportNext /\ UNCHANGED <<toolVars, localVars>>
  \/ TransportIdle /\ LocalIdle /\ ToolsNext /\ UNCHANGED <<transportVars, localVars>>
  \/ TransportIdle /\ ToolsIdle /\ LocalNext /\ UNCHANGED <<transportVars, toolVars>>
Spec == Init /\ [][ServicesNext]_<<transportVars, toolVars, localVars>>
=============================================================================
