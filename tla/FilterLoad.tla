----------------------------- MODULE FilterLoad -----------------------------
(***************************************************************************)
(* Loading user-defined filters in the whole tree (Network::               *)
(* load_FilterFuncs, ParentNode::proc_newFilter, BackEndNode::             *)
(* proc_newFilter).  The front-end loads the functions, sends the ones it  *)
(* could load down the tree and sleeps; every process loads them and       *)
(* reports the ones it could not, an internal process once it and all its  *)
(* children have.  The front-end subtracts what was reported.  Reports are *)
(* handled by one receive thread per child, under event_lock; the request  *)
(* by the thread that receives from the parent, outside it.                *)
(***************************************************************************)
EXTENDS Naturals, Sequences, FiniteSets, SequencesExt

CONSTANTS LoadKids,       \* internal process -> set of its children; 0 is the front-end
          UserFuncs,      \* the functions of the shared object
          MaxLoads,       \* bound: calls of load_FilterFuncs
          MaxLacks,       \* bound: functions missing from the shared objects of the processes
          MaxLoadFaults   \* bound: back-ends that fail

ASSUME LoadAssumption == 0 \in DOMAIN LoadKids /\ MaxLoads \in Nat /\ MaxLoadFaults \in Nat

LoadParents == DOMAIN LoadKids
LoadNodes == {0} \cup UNION {LoadKids[p] : p \in LoadParents}
\* The processes are a finite tree below the front-end: nobody has two parents, everybody is
\* below the front-end, and no path goes down for ever.
WithKids(S) == \A p \in LoadParents : p \in S => LoadKids[p] \subseteq S
ASSUME LoadTree ==
  /\ LoadParents \subseteq LoadNodes
  /\ \A p \in LoadParents : IsFiniteSet(LoadKids[p]) /\ 0 \notin LoadKids[p]
  /\ \A p, q \in LoadParents : p # q => LoadKids[p] \cap LoadKids[q] = {}
  /\ \A S \in SUBSET LoadNodes : 0 \in S /\ WithKids(S) => S = LoadNodes
  /\ \A S \in SUBSET LoadNodes : S # {} => \E n \in S : n \in LoadParents => LoadKids[n] \cap S = {}

LoadParentOf(c) == CHOOSE p \in LoadParents : c \in LoadKids[p]
FirstId == 100

VARIABLES lacks,     \* the <<process, function>> pairs missing from the process's shared object
          fe,        \* the calling thread: [pc, asked (the request: [id, func]s), woken]
          next_id,   \* next_filter_id
          table,     \* process -> its FilterInfo: id -> function
          asks,      \* child -> queue of PROT_NEW_FILTER packets to it
          reports,   \* child -> queue of PROT_EVENT packets from it
          tally,     \* internal process -> [reported, waiting, errors, busy]
          feErrors,  \* _filter_error_* of the front-end's Network
          members,   \* internal process -> its children (get_NumChildren)
          loads,     \* calls so far
          verdict,   \* what the last call said: [asked, good (places)]
          dead,      \* back-ends that have failed
          early      \* a call was answered before it slept (history)
loadVars == <<lacks, fe, next_id, table, asks, reports, tally, feErrors, members, loads, verdict, dead, early>>

NoFuncs == [i \in {} |-> 0]
NoAnswer == [asked |-> <<>>, good |-> {}]
LoadInit ==
  /\ \E k \in 0..MaxLacks : lacks \in kSubset(k, LoadNodes \X UserFuncs)
  /\ fe = [pc |-> "idle", asked |-> <<>>, woken |-> FALSE] /\ next_id = FirstId
  /\ table = [n \in LoadNodes |-> NoFuncs]
  /\ asks = [n \in LoadNodes \ {0} |-> <<>>] /\ reports = [n \in LoadNodes \ {0} |-> <<>>]
  /\ tally = [p \in LoadParents |-> [reported |-> 0, waiting |-> 0, errors |-> {}, busy |-> <<>>]]
  /\ feErrors = {} /\ members = LoadKids /\ loads = 0 /\ verdict = NoAnswer /\ dead = {} /\ early = FALSE

\* Filter::load_FilterFunc, register_Filter: an id that is taken is refused.
CanLoad(n, a) == a.id \notin DOMAIN table[n] /\ <<n, a.func>> \notin lacks
Loaded(n, asked) ==
  LET new == {a \in Range(asked) : CanLoad(n, a)}
  IN  [i \in DOMAIN table[n] \cup {a.id : a \in new} |->
         IF i \in DOMAIN table[n] THEN table[n][i] ELSE (CHOOSE a \in new : a.id = i).func]
\* A report names the functions by their place in the request.
NotLoaded(n, asked) == {u \in DOMAIN asked : ~CanLoad(n, asked[u])}
AskChildren(p, m) == [n \in DOMAIN asks |-> IF n \in members[p] THEN Append(asks[n], m) ELSE asks[n]]

-----------------------------------------------------------------------------
\* The loop of Network::load_FilterFuncs: the functions that could be loaded here, in order.
LoadedHere(funcs) ==
  LET ok[u \in 0..Len(funcs)] ==
        IF u = 0 THEN <<>> ELSE IF <<0, funcs[u]>> \in lacks THEN ok[u - 1] ELSE Append(ok[u - 1], funcs[u])
  IN  ok[Len(funcs)]
\* Network::load_FilterFuncs: an id is used up only by a function that could be loaded here.
load_FilterFuncs ==
  /\ fe.pc = "idle" /\ loads < MaxLoads
  /\ \E funcs \in SeqOf(UserFuncs, 2) \ {<<>>} :
       LET ok == LoadedHere(funcs)
           asked == [u \in DOMAIN ok |-> [id |-> next_id + u - 1, func |-> ok[u]]]
       IN  /\ IsInjective(funcs)
           /\ table' = [table EXCEPT ![0] = Loaded(0, asked)]
           /\ next_id' = next_id + Len(ok)
           /\ IF ok = <<>>
              THEN fe' = fe /\ asks' = asks /\ verdict' = NoAnswer
              ELSE /\ asks' = AskChildren(0, asked) /\ verdict' = verdict
                   /\ fe' = [pc |-> IF members[0] = {} THEN "count" ELSE "sent", asked |-> asked, woken |-> FALSE]
  /\ loads' = loads + 1
  /\ UNCHANGED <<lacks, reports, tally, feErrors, members, dead, early>>

\* waitOn_ProtEvent looks at nothing before it sleeps.
waitOn_ProtEvent ==
  /\ fe.pc = "sent" /\ fe' = [fe EXCEPT !.pc = "wait", !.woken = FALSE]
  /\ UNCHANGED <<lacks, next_id, table, asks, reports, tally, feErrors, members, loads, verdict, dead, early>>
Wakes ==
  /\ fe.pc = "wait" /\ fe.woken /\ fe' = [fe EXCEPT !.pc = "count"]
  /\ UNCHANGED <<lacks, next_id, table, asks, reports, tally, feErrors, members, loads, verdict, dead, early>>
Answered ==
  /\ fe.pc = "count"
  /\ verdict' = [asked |-> fe.asked, good |-> DOMAIN fe.asked \ feErrors]
  /\ fe' = [fe EXCEPT !.pc = "idle"]
  /\ UNCHANGED <<lacks, next_id, table, asks, reports, tally, feErrors, members, loads, dead, early>>

-----------------------------------------------------------------------------
\* ParentNode::proc_newFilter, up to send_PacketToChildren.
proc_newFilter_late(p) ==
  /\ p # 0 /\ asks[p] # <<>> /\ tally[p].busy = <<>>
  /\ tally' = [tally EXCEPT ![p].waiting = Cardinality(members[p]), ![p].busy = Head(asks[p])]
  /\ asks' = [AskChildren(p, Head(asks[p])) EXCEPT ![p] = Tail(@)]
  /\ UNCHANGED <<lacks, fe, next_id, table, reports, feErrors, members, loads, verdict, dead, early>>
proc_newFilter(p) ==
  /\ p # 0 /\ asks[p] # <<>> /\ tally[p].busy = <<>>
  /\ tally' = [tally EXCEPT ![p] = [reported |-> 0, waiting |-> Cardinality(members[p]), errors |-> {},
                                    busy |-> Head(asks[p])]]
  /\ asks' = [AskChildren(p, Head(asks[p])) EXCEPT ![p] = Tail(@)]
  /\ UNCHANGED <<lacks, fe, next_id, table, reports, feErrors, members, loads, verdict, dead, early>>

AllReported_short(p, c) == c.reported = c.waiting
AllReported(p, c) == c.reported = c.waiting + 1
\* ParentNode::proc_FilterLoadEvent with the queues rep of what is left to be received.
Reported(p, errs, rep) ==
  LET c == [tally[p] EXCEPT !.reported = @ + 1, !.errors = @ \cup errs]
      all == p = 0 /\ c.reported = Cardinality(members[0])
  IN  /\ tally' = [tally EXCEPT ![p] = IF all THEN [c EXCEPT !.reported = 0, !.errors = {}] ELSE c]
      /\ reports' = IF p # 0 /\ AllReported(p, c) THEN [rep EXCEPT ![p] = Append(@, c.errors)] ELSE rep
      \* Network::signal_ProtEvent
      /\ feErrors' = IF all THEN c.errors ELSE feErrors
      /\ fe' = IF all THEN [fe EXCEPT !.woken = (fe.pc = "wait")] ELSE fe
      /\ early' = (early \/ (all /\ fe.pc # "wait"))
proc_FilterLoadEvent(p, c) ==
  /\ reports[c] # <<>> /\ c \in LoadKids[p]
  /\ Reported(p, Head(reports[c]), [reports EXCEPT ![c] = Tail(@)])
  /\ UNCHANGED <<lacks, next_id, table, asks, members, loads, verdict, dead>>

\* The second half of ParentNode::proc_newFilter reports to itself.
LoadHere(p) ==
  LET asked == tally[p].busy
      c == [tally[p] EXCEPT !.reported = @ + 1, !.errors = @ \cup NotLoaded(p, asked)]
  IN
  /\ p # 0 /\ asked # <<>>
  /\ table' = [table EXCEPT ![p] = Loaded(p, asked)]
  /\ tally' = [tally EXCEPT ![p] = [c EXCEPT !.busy = <<>>]]
  /\ reports' = IF AllReported(p, c) THEN [reports EXCEPT ![p] = Append(@, c.errors)] ELSE reports
  /\ UNCHANGED <<lacks, fe, next_id, asks, feErrors, members, loads, verdict, dead, early>>

\* BackEndNode::proc_newFilter
BackEnd_newFilter(n) ==
  /\ n \notin LoadParents \cup dead /\ asks[n] # <<>>
  /\ table' = [table EXCEPT ![n] = Loaded(n, Head(asks[n]))]
  /\ reports' = [reports EXCEPT ![n] = Append(@, NotLoaded(n, Head(asks[n])))]
  /\ asks' = [asks EXCEPT ![n] = Tail(@)]
  /\ UNCHANGED <<lacks, fe, next_id, tally, feErrors, members, loads, verdict, dead, early>>

\* A back-end fails; later its parent takes it out of its children.  What it sent before may
\* still be received.
BackEndFails(n) ==
  /\ n \notin LoadParents \cup dead /\ Cardinality(dead) < MaxLoadFaults /\ fe.pc # "idle"
  /\ dead' = dead \cup {n}
  /\ UNCHANGED <<lacks, fe, next_id, table, asks, reports, tally, feErrors, members, loads, verdict, early>>
remove_Child(n) ==
  /\ n \in dead /\ n \in members[LoadParentOf(n)]
  /\ members' = [members EXCEPT ![LoadParentOf(n)] = @ \ {n}]
  /\ UNCHANGED <<lacks, fe, next_id, table, asks, reports, tally, feErrors, loads, verdict, dead, early>>

LoadNext ==
  \/ load_FilterFuncs \/ waitOn_ProtEvent \/ Wakes \/ Answered
  \/ \E p \in LoadParents : proc_newFilter(p) \/ LoadHere(p)
  \/ \E p \in LoadParents : \E c \in LoadKids[p] : proc_FilterLoadEvent(p, c)
  \/ \E n \in LoadNodes \ {0} : BackEnd_newFilter(n) \/ BackEndFails(n) \/ remove_Child(n)
LoadSpec == LoadInit /\ [][LoadNext]_loadVars

-----------------------------------------------------------------------------
\* The front-end is told the truth: a function counts as loaded exactly when every process has
\* it under the same id, whatever the order of the reports ("ensure that filter is loaded down
\* the entire tree": load_FilterFuncs), as long as no process fails.
LoadedMeansEverywhere ==
  dead = {} =>
    \A u \in DOMAIN verdict.asked :
      LET a == verdict.asked[u]
      IN  u \in verdict.good <=> \A n \in LoadNodes : a.id \in DOMAIN table[n] /\ table[n][a.id] = a.func

\* The front-end sleeps only while an answer is still to come; only a report that came before
\* it slept, or a failed process, leaves it waiting for ever.
SleeperIsAnswered ==
  fe.pc = "wait" /\ ~fe.woken =>
    \/ early \/ dead # {}
    \/ \E n \in LoadNodes \ {0} : asks[n] # <<>> \/ reports[n] # <<>>
    \/ \E p \in LoadParents : tally[p].busy # <<>>

\* load_FilterFuncs returns, and says the truth about the whole tree.
LoadingCorrect == LoadedMeansEverywhere /\ SleeperIsAnswered
=============================================================================
