------------------------------ MODULE PerfData ------------------------------
(***************************************************************************)
(* Performance data of one stream: every node keeps a series of samples    *)
(* for a metric and context (PerfDataMgr), the front-end switches the      *)
(* recording on and off, prints it, and collects it: the request goes down *)
(* the tree, the back-ends answer on an aggregation stream, and every      *)
(* inner node adds its own series when tfilter_PerfData runs.              *)
(*                                                                         *)
(* One metric of type PERFDATA_TYPE_UINT in one context is modelled; the   *)
(* series of the others are separate.  At one node the counters            *)
(* PERFDATA_MET_NUM_PKTS of the contexts SEND and RECV are followed too:   *)
(* they are read and written back in two critical sections.                *)
(***************************************************************************)
EXTENDS Integers, Sequences, FiniteSets, SequencesExt

CONSTANTS PDKids,       \* inner node -> sequence of its children; the front-end is 0
          Samples,      \* values that are recorded
          PDBits,       \* bound: width of an unsigned word
          MaxSamples,   \* bound: samples recorded, at all nodes
          MaxCalls,     \* bound: calls of the front-end
          Senders, Receivers,  \* threads that send and receive on the stream at one node
          MaxCount      \* bound: packets sent or received there

VARIABLES active,   \* node -> is the metric enabled (active_metrics)
          series,   \* node -> its samples (the_data)
          request,  \* node -> messages of its parent not handled yet
          answer,   \* node -> << >> or its packet on the aggregation stream
          call,     \* the call of the front-end that is in progress
          streamsLock,  \* is _streams_sync held by the application thread at the front-end
          result,   \* what the last collection returned: rank -> samples
          calls,    \* number of calls begun
          added, taken, out,  \* ghosts: node -> samples recorded / sent up / delivered
          count,    \* context -> << >> or the counter
          rmw,      \* thread -> the value it has read, or -1
          counted, told, raced   \* ghosts of the counters

seriesVars == <<active, series, request, answer, call, streamsLock, result, calls, added, taken, out>>
countVars == <<count, rmw, counted, told, raced>>
perfVars == <<seriesVars, countVars>>

PDInner == DOMAIN PDKids
PDNodes == PDInner \cup UNION {Range(PDKids[n]) : n \in PDInner}
Contexts == {"SEND", "RECV"}
Aggregations == {"CONCAT", "SUM", "MIN", "MAX", "AVG"}
Idle == [op |-> "none", aggr |-> "CONCAT", net |-> FALSE]
Word(x) == x % (2 ^ PDBits)
Add(s) == FoldLeft(LAMBDA a, x : a + x, 0, s)

PerfInit ==
  /\ active = [n \in PDNodes |-> FALSE] /\ series = [n \in PDNodes |-> <<>>]
  /\ request = [n \in PDNodes |-> <<>>] /\ answer = [n \in PDNodes |-> <<>>]
  /\ call = Idle /\ streamsLock = FALSE /\ result = <<>> /\ calls = 0
  /\ added = [n \in PDNodes |-> <<>>] /\ taken = added /\ out = added
  /\ count = [c \in Contexts |-> <<>>] /\ rmw = [t \in Senders \cup Receivers |-> -1]
  /\ counted = [c \in Contexts |-> 0] /\ told = counted
  /\ raced = [c \in Contexts |-> FALSE]

-----------------------------------------------------------------------------
\* PerfDataMgr
enable(n) == active' = [active EXCEPT ![n] = TRUE]
disable(n) == active' = [active EXCEPT ![n] = FALSE]
collect_still(n) == <<series[n], series>>
\* The samples of a node, which are cleared: [what was there, what is left everywhere].
collect(n) == <<series[n], [series EXCEPT ![n] = <<>>]>>
print(n) == series' = collect(n)[2] /\ out' = [out EXCEPT ![n] = @ \o collect(n)[1]]

\* A thread of the node records a sample when it finds the metric enabled.
add_DataInstance(n) ==
  /\ active[n] /\ Add([i \in 1..Cardinality(PDNodes) |-> Len(added[i - 1])]) < MaxSamples
  /\ \E v \in Samples : /\ series' = [series EXCEPT ![n] = Append(@, v)]
                        /\ added' = [added EXCEPT ![n] = Append(@, v)]
  /\ UNCHANGED <<active, request, answer, call, streamsLock, result, calls, taken, out, countVars>>

-----------------------------------------------------------------------------
\* The front-end
ToChildren(n, m) == [k \in PDNodes |-> IF k \in Range(PDKids[n]) THEN Append(request[k], m) ELSE request[k]]
MayCall == call = Idle /\ calls < MaxCalls
Begin(op, aggr, net) ==
  /\ MayCall /\ calls' = calls + 1
  /\ request' = ToChildren(0, [op |-> op, aggr |-> aggr])
enable_PerformanceData ==
  /\ Begin("enable", "CONCAT", FALSE) /\ enable(0)
  /\ UNCHANGED <<series, answer, call, streamsLock, result, added, taken, out, countVars>>
disable_PerformanceData ==
  /\ Begin("disable", "CONCAT", FALSE) /\ disable(0)
  /\ UNCHANGED <<series, answer, call, streamsLock, result, added, taken, out, countVars>>
print_PerformanceData ==
  /\ Begin("print", "CONCAT", FALSE) /\ print(0)
  /\ UNCHANGED <<active, answer, call, streamsLock, result, added, taken, countVars>>

\* The request goes out and the call waits in recv on the aggregation stream.
collect_Request(aggr, net) ==
  /\ Begin("collect", aggr, net)
  /\ call' = [op |-> "collect", aggr |-> aggr, net |-> net] /\ result' = <<>>
  /\ UNCHANGED <<active, series, answer, added, taken, out, countVars>>
collect_PerformanceData(aggr) == collect_Request(aggr, FALSE) /\ UNCHANGED streamsLock

\* The calls of Network do the same for every stream, with _streams_sync held around the
\* loop; it is held while the collection of one stream waits.
Network_enable_PerformanceData == enable_PerformanceData /\ ~streamsLock
Network_disable_PerformanceData == disable_PerformanceData /\ ~streamsLock
Network_print_PerformanceData == print_PerformanceData /\ ~streamsLock
Network_collect_PerformanceData ==
  ~streamsLock /\ streamsLock' = TRUE /\ \E a \in Aggregations : collect_Request(a, TRUE)

-----------------------------------------------------------------------------
\* The requests at the children
Handle(n, op) == /\ request[n] # <<>> /\ Head(request[n]).op = op
                 /\ LET fwd == IF n \in PDInner THEN ToChildren(n, Head(request[n])) ELSE request
                    IN  request' = [fwd EXCEPT ![n] = Tail(@)]
proc_EnablePerfData(n) ==
  /\ Handle(n, "enable") /\ enable(n)
  /\ UNCHANGED <<series, answer, call, streamsLock, result, calls, added, taken, out, countVars>>
proc_DisablePerfData(n) ==
  /\ Handle(n, "disable") /\ disable(n)
  /\ UNCHANGED <<series, answer, call, streamsLock, result, calls, added, taken, out, countVars>>
proc_PrintPerfData(n) ==
  /\ Handle(n, "print") /\ print(n)
  /\ UNCHANGED <<active, answer, call, streamsLock, result, calls, added, taken, countVars>>

\* Stream::collect_PerfData: the packet of one node and its one rank.
collect_PerfData(n, s) == [ranks |-> <<n>>, nelems |-> <<Len(s)>>, data |-> s]
proc_CollectPerfData_silent(n) ==
  /\ Handle(n, "collect")
  /\ IF n \in PDInner \/ series[n] = <<>> THEN UNCHANGED <<series, answer, taken>>
     ELSE LET c == collect(n)
          IN  /\ series' = c[2] /\ taken' = [taken EXCEPT ![n] = c[1]]
              /\ answer' = [answer EXCEPT ![n] = <<collect_PerfData(n, c[1])>>]
  /\ UNCHANGED <<active, call, streamsLock, result, calls, added, out, countVars>>
\* Inner nodes only forward the request.
proc_CollectPerfData(n) ==
  /\ Handle(n, "collect")
  /\ IF n \in PDInner THEN UNCHANGED <<series, answer, taken>>
     ELSE LET c == collect(n)
          IN  /\ series' = c[2] /\ taken' = [taken EXCEPT ![n] = c[1]]
              /\ answer' = [answer EXCEPT ![n] = <<collect_PerfData(n, c[1])>>]
  /\ UNCHANGED <<active, call, streamsLock, result, calls, added, out, countVars>>

-----------------------------------------------------------------------------
\* tfilter_PerfData: packets without samples are passed over
WithData(ps) == SelectSeq(ps, LAMBDA p : p.data # <<>>)
Nrank(p) == IF p.ranks[1] < 0 THEN -p.ranks[1] ELSE 1
InitValue_zero(aggr) == 0
\* The results start from all bits set for MIN and from zero for the others.
InitValue(aggr) == IF aggr = "MIN" THEN 2 ^ PDBits - 1 ELSE 0
Combine_unweighted(aggr, a, p, u) ==
  LET x == p.data[u]
  IN  CASE aggr = "SUM" -> Word(a + x)
        [] aggr = "MIN" -> IF a < x THEN a ELSE x
        [] aggr = "MAX" -> IF a > x THEN a ELSE x
        [] aggr = "AVG" -> Word(a + x)
Combine(aggr, a, p, u) ==
  LET x == p.data[u]
  IN  CASE aggr = "SUM" -> Word(a + x)
        [] aggr = "MIN" -> IF a < x THEN a ELSE x
        [] aggr = "MAX" -> IF a > x THEN a ELSE x
        [] aggr = "AVG" -> Word(a + Word(x * Nrank(p)))
AggrResult(aggr, ps, u) ==
  LET upto[i \in 0..Len(ps)] == IF i = 0 THEN InitValue(aggr)
                                ELSE IF u <= Len(ps[i].data) THEN Combine(aggr, upto[i - 1], ps[i], u)
                                ELSE upto[i - 1]
  IN  upto[Len(ps)]
\* The sums are divided for as many elements as the last packet of all has.
Divide(aggr, last, nranks, u, x) == IF aggr = "AVG" /\ u <= Len(last.data) THEN x \div nranks ELSE x
Aggregate(aggr, ps) ==
  LET ds == WithData(ps)
      total == Add([i \in 1..Len(ds) |-> Nrank(ds[i])])
      Longest == CHOOSE m \in 0..MaxSamples : /\ \A i \in 1..Len(ds) : Len(ds[i].data) <= m
                                              /\ m = 0 \/ \E i \in 1..Len(ds) : Len(ds[i].data) = m
  IN  IF aggr = "CONCAT"
      THEN [ranks |-> FlattenSeq([i \in 1..Len(ds) |-> ds[i].ranks]),
            nelems |-> FlattenSeq([i \in 1..Len(ds) |-> ds[i].nelems]),
            data |-> FlattenSeq([i \in 1..Len(ds) |-> ds[i].data])]
      ELSE [ranks |-> <<-total>>, nelems |-> <<Longest>>,
            data |-> [u \in 1..Longest |-> Divide(aggr, ps[Len(ps)], total, u, AggrResult(aggr, ds, u))]]

\* results[rank] for the ranks of a packet (the end of Stream::collect_PerformanceData)
Unpacked(p) ==
  LET from(i) == Add(SubSeq(p.nelems, 1, i - 1))
  IN  [r \in Range(p.ranks) |-> LET i == CHOOSE j \in 1..Len(p.ranks) :
                                           p.ranks[j] = r /\ \A k \in j + 1..Len(p.ranks) : p.ranks[k] # r
                                IN  SubSeq(p.data, from(i) + 1, from(i) + p.nelems[i])]

\* The filter runs at an inner node with the packets of all its children; its own
\* samples come first.  The receiving thread of the front-end finds the stream with
\* get_Stream, under _streams_sync.
tfilter_PerfData(n) ==
  /\ call.op = "collect" /\ \A i \in 1..Len(PDKids[n]) : answer[PDKids[n][i]] # <<>>
  /\ n = 0 => ~streamsLock
  /\ LET c == collect(n)
         p == Aggregate(call.aggr, <<collect_PerfData(n, c[1])>> \o
                                   [i \in 1..Len(PDKids[n]) |-> answer[PDKids[n][i]][1]])
         took == [taken EXCEPT ![n] = c[1]]
     IN  /\ series' = c[2]
         /\ IF n # 0
            THEN /\ answer' = [k \in PDNodes |-> IF k = n THEN <<p>>
                                                 ELSE IF k \in Range(PDKids[n]) THEN <<>> ELSE answer[k]]
                 /\ taken' = took /\ UNCHANGED <<call, result, out>>
            ELSE /\ result' = Unpacked(p) /\ call' = [call EXCEPT !.op = "returned"]
                 /\ answer' = [k \in PDNodes |-> <<>>] /\ taken' = took
                 /\ out' = [k \in PDNodes |->
                              out[k] \o IF call.aggr # "CONCAT" THEN took[k]
                                        ELSE IF k \in DOMAIN Unpacked(p) THEN Unpacked(p)[k] ELSE <<>>]
  /\ UNCHANGED <<active, request, streamsLock, calls, added, countVars>>

collect_Return ==
  /\ call.op = "returned" /\ call' = Idle /\ streamsLock' = FALSE
  /\ taken' = [n \in PDNodes |-> <<>>]
  /\ UNCHANGED <<active, series, request, answer, result, calls, added, out, countVars>>

-----------------------------------------------------------------------------
\* The counters of one node
CtxOf(t) == IF t \in Senders THEN "SEND" ELSE "RECV"
get_DataValue(c) == IF count[c] = <<>> THEN 0 ELSE count[c][1]
set_DataValue_push(c, v) == Append(count[c], v)
set_DataValue(c, v) == <<v>>
\* Senders run together; receivers hold _incoming_packet_buffer_sync.
CountRead(t) ==
  /\ rmw[t] = -1 /\ counted[CtxOf(t)] < MaxCount
  /\ t \in Receivers => \A u \in Receivers : rmw[u] = -1
  /\ rmw' = [rmw EXCEPT ![t] = get_DataValue(CtxOf(t))]
  /\ UNCHANGED <<seriesVars, count, counted, told, raced>>
CountWrite(t) ==
  /\ rmw[t] # -1
  /\ count' = [count EXCEPT ![CtxOf(t)] = set_DataValue(CtxOf(t), rmw[t] + 1)]
  /\ rmw' = [rmw EXCEPT ![t] = -1]
  /\ counted' = [counted EXCEPT ![CtxOf(t)] = @ + 1]
  /\ raced' = [raced EXCEPT ![CtxOf(t)] =
                 @ \/ \E u \in (Senders \cup Receivers) \ {t} : CtxOf(u) = CtxOf(t) /\ rmw[u] # -1]
  /\ UNCHANGED <<seriesVars, told>>
CountCollect(c) ==
  /\ count[c] # <<>>
  /\ told' = [told EXCEPT ![c] = @ + get_DataValue(c)]
  /\ count' = [count EXCEPT ![c] = <<>>]
  /\ raced' = [raced EXCEPT ![c] = @ \/ \E u \in Senders \cup Receivers : CtxOf(u) = c /\ rmw[u] # -1]
  /\ UNCHANGED <<seriesVars, rmw, counted>>

SeriesIdle == calls = 0
CountIdle == counted = [c \in Contexts |-> 0] /\ \A t \in Senders \cup Receivers : rmw[t] = -1
SeriesNext ==
  \/ enable_PerformanceData \/ disable_PerformanceData \/ print_PerformanceData
  \/ \E a \in Aggregations : collect_PerformanceData(a)
  \/ Network_enable_PerformanceData \/ Network_disable_PerformanceData
  \/ Network_print_PerformanceData \/ Network_collect_PerformanceData
  \/ \E n \in PDNodes : \/ add_DataInstance(n)
                        \/ proc_EnablePerfData(n) \/ proc_DisablePerfData(n)
                        \/ proc_PrintPerfData(n) \/ proc_CollectPerfData(n)
  \/ \E n \in PDInner : tfilter_PerfData(n)
  \/ collect_Return
CountNext ==
  \/ \E t \in Senders \cup Receivers : CountRead(t) \/ CountWrite(t)
  \/ \E c \in Contexts : CountCollect(c)
PerfNext == (CountIdle /\ SeriesNext) \/ (SeriesIdle /\ CountNext)
PerfSpec == PerfInit /\ [][PerfNext]_perfVars

-----------------------------------------------------------------------------
\* Every sample a node has recorded is, in its order, delivered (returned by a collection
\* under the rank of the node, or printed), on its way up in an answer, or still in the
\* series: collections and prints that follow each other neither lose nor repeat one
\* (PerfDataMgr::collect, tfilter_PerfData, Stream::collect_PerformanceData).
EverySampleOnce ==
  \A n \in PDNodes :
    added[n] = out[n] \o (IF call.op = "collect" THEN taken[n] ELSE <<>>) \o series[n]

\* The samples with which the nodes took part, at position u
TakenAt(u) == {n \in PDNodes : Len(taken[n]) >= u}
SumAt(u) == LET ns == SetToSeq(TakenAt(u)) IN Add([i \in 1..Len(ns) |-> taken[ns[i]][u]])
Contributors == Cardinality(TakenAt(1))

\* A sum, minimum or maximum over the tree is the one over all nodes at once, whatever
\* nodes had no samples and however long their series were (tfilter_PerfData).
TreeAggregatesFlat ==
  call.op = "returned" /\ call.aggr \in {"SUM", "MIN", "MAX"} =>
    /\ DOMAIN result = {-Contributors}
    /\ \A u \in 1..MaxSamples : TakenAt(u) # {} =>
         LET x == result[-Contributors][u]
             S == {taken[n][u] : n \in TakenAt(u)}
         IN  CASE call.aggr = "SUM" -> x = Word(SumAt(u))
               [] call.aggr = "MIN" -> x \in S /\ \A y \in S : x <= y
               [] call.aggr = "MAX" -> x \in S /\ \A y \in S : x >= y

\* An average over the tree lies between the least and the greatest sample when all nodes
\* have as many samples (tfilter_PerfData weights an aggregate by its ranks and divides
\* by the length of the last packet).
AverageBetween ==
  call.op = "returned" /\ call.aggr = "AVG"
  /\ (\A n, m \in PDNodes : Len(taken[n]) = Len(taken[m])) /\ Contributors > 0
  /\ (\A u \in 1..MaxSamples : SumAt(u) < 2 ^ PDBits) =>
       \A u \in 1..Len(taken[0]) :
         LET x == result[-Contributors][u]
             S == {taken[n][u] : n \in PDNodes}
         IN  /\ \E y \in S : y <= x
             /\ \E y \in S : x <= y

\* Unless a packet was counted, or the counter collected, between the read and the write
\* of another thread, every packet is counted exactly once, over all collections
\* (Stream::send and get_IncomingPacket, which add one with get_DataValue and
\* set_DataValue).
CountedOnce == \A c \in Contexts : raced[c] \/ told[c] + get_DataValue(c) = counted[c]

\* While a collection on one stream waits, a request or a complete set of answers is on its
\* way that brings it nearer to its end; nobody waits for everybody
\* (Stream::collect_PerformanceData, where every back-end answers even without samples).
CollectCanFinish ==
  call.op = "collect" /\ ~call.net =>
    \/ \E n \in PDNodes : request[n] # <<>>
    \/ \E n \in PDInner : \A i \in 1..Len(PDKids[n]) : answer[PDKids[n][i]] # <<>>

\* Collecting performance data while it grows ends, and tells every sample and packet once and
\* their aggregates right.
PerfDataCorrect ==
  EverySampleOnce /\ TreeAggregatesFlat /\ AverageBetween /\ CountedOnce /\ CollectCanFinish
=============================================================================
