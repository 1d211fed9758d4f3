------------------------------ MODULE ClockSkew ------------------------------
(***************************************************************************)
(* Paradyn's estimation of clock skews (ParadynFilterDefinitions.C).  A    *)
(* message goes down the tree and an answer comes up; every node works out *)
(* the skew to each child from the two round trips, keeps the smallest of  *)
(* several rounds, and later adds it to what the child reports of the      *)
(* back-ends below.                                                        *)
(*                                                                         *)
(* Each clock is the true time plus the offset of its node.  All times are *)
(* even, so that the halves of differences are whole.  The timestamps a    *)
(* node saves are global variables of its process.                         *)
(***************************************************************************)
EXTENDS Integers, Sequences, FiniteSets

CONSTANTS SkewKids,    \* inner node -> sequence of its children; root 0
          Offset,      \* node -> offset of its clock
          Latencies,   \* times a message may take, even
          MaxRounds    \* bound on the rounds

VARIABLES
  rounds,   \* rounds begun
  down,     \* node -> its message from the parent: [sent (parent's clock), at (true time)]
  saved,    \* node -> savedLocalParSendTimestamp and savedLocalRecvTimestamp
  reply,   \* node -> its message to the parent: [stamps, at]
  skews,    \* node -> localSkews
  worst,    \* node -> the largest error of a round trip to it, doubled (history)
  cumul     \* node -> the skews it has reported
skewVars == <<rounds, down, saved, reply, skews, worst, cumul>>

NodeSet == DOMAIN Offset
BackEnds == NodeSet \ DOMAIN SkewKids
\* Every node is below the root, and only back-ends have no children.
ClosedDown(S) == \A n \in DOMAIN SkewKids : n \in S => \A i \in 1..Len(SkewKids[n]) : SkewKids[n][i] \in S
ASSUME SkewAssumption ==
  /\ 0 \in DOMAIN SkewKids /\ DOMAIN SkewKids \subseteq NodeSet
  /\ \A n \in DOMAIN SkewKids : SkewKids[n] \in Seq(NodeSet) /\ SkewKids[n] # <<>>
  /\ \A S \in SUBSET NodeSet : 0 \in S /\ ClosedDown(S) => S = NodeSet
ASSUME TimesAssumption ==
  /\ \A n \in NodeSet : Offset[n] \in Int /\ Offset[n] % 2 = 0
  /\ \A l \in Latencies : l \in Nat /\ l % 2 = 0

None == [none |-> TRUE]
Abs(x) == IF x < 0 THEN -x ELSE x
Clock(n, t) == t + Offset[n]

SkewInit ==
  /\ rounds = 0
  /\ down = [n \in NodeSet |-> None]
  /\ saved = [n \in NodeSet |-> [par |-> 0, recv |-> 0]]
  /\ reply = [n \in NodeSet |-> None]
  /\ skews = [n \in DOMAIN SkewKids |-> <<>>]
  /\ worst = [n \in NodeSet |-> 0]
  /\ cumul = [n \in NodeSet |-> <<>>]

Quiet == \A n \in NodeSet : down[n] = None /\ reply[n] = None /\ cumul[n] = <<>>

\* node n sends a copy of a message to each child at true time t
SendDown(n, t) ==
  \E lat \in [1..Len(SkewKids[n]) -> Latencies] :
     down' = [m \in NodeSet |->
                IF m = n THEN None
                ELSE IF \E i \in 1..Len(SkewKids[n]) : SkewKids[n][i] = m
                THEN [sent |-> Clock(n, t), at |-> t + lat[CHOOSE i \in 1..Len(SkewKids[n]) : SkewKids[n][i] = m]]
                ELSE down[m]]

\* The front-end begins a round with the time of its own clock.
BeginRound ==
  /\ Quiet /\ rounds < MaxRounds
  /\ rounds' = rounds + 1
  /\ SendDown(0, 0)
  /\ UNCHANGED <<saved, reply, skews, worst, cumul>>

save_LocalClockSkewDownstream(n) ==
  /\ n \in DOMAIN SkewKids /\ down[n] # None
  /\ saved' = [saved EXCEPT ![n] = [par |-> down[n].sent, recv |-> Clock(n, down[n].at)]]
  /\ SendDown(n, down[n].at)
  /\ UNCHANGED <<rounds, reply, skews, worst, cumul>>

\* A back-end answers with the three timestamps.
BackEndAnswers(b) ==
  /\ b \in BackEnds /\ down[b] # None
  /\ \E work, lat \in Latencies :
       reply' = [reply EXCEPT ![b] =
                    [stamps |-> <<down[b].sent, Clock(b, down[b].at), Clock(b, down[b].at + work)>>,
                     at |-> down[b].at + work + lat]]
  /\ down' = [down EXCEPT ![b] = None]
  /\ UNCHANGED <<rounds, saved, skews, worst, cumul>>

\* Mutant: forgets the time the child kept the message.
SkewTo_keeps(recv, s) == recv - (s[3] + (recv - s[1]) \div 2)

\* skew = recv - (child's send + latency), the latency taken for half of the round trip
\* without the time the child kept the message
SkewTo(recv, s) == recv - (s[3] + (recv - s[1] - (s[3] - s[2])) \div 2)

Latest(S) == CHOOSE t \in S : \A u \in S : u <= t
Smaller(old, new) == IF Abs(old) > Abs(new) THEN new ELSE old

\* The receive time is sampled once all children have answered.  localSkews begins at
\* MAXDOUBLE, which the first estimate always replaces.
save_LocalClockSkewUpstream(n) ==
  /\ n \in DOMAIN SkewKids
  /\ \A i \in 1..Len(SkewKids[n]) : reply[SkewKids[n][i]] # None
  /\ LET kids == SkewKids[n]
         t == Latest({reply[kids[i]].at : i \in 1..Len(kids)})
         temp(i) == SkewTo(Clock(n, t), reply[kids[i]].stamps)
     IN  /\ skews' = [skews EXCEPT ![n] =
              [i \in 1..Len(kids) |-> IF skews[n] = <<>> THEN temp(i) ELSE Smaller(skews[n][i], temp(i))]]
         /\ worst' = [m \in NodeSet |->
              IF \E i \in 1..Len(kids) : kids[i] = m
              THEN LET s == reply[m].stamps
                       d1 == s[2] - Offset[m] - (s[1] - Offset[n])
                       d2 == t - (s[3] - Offset[m])
                   IN  Latest({worst[m], Abs(d2 - d1)})
              ELSE worst[m]]
         /\ \E lat \in Latencies :
              reply' = [m \in NodeSet |->
                IF \E i \in 1..Len(kids) : kids[i] = m THEN None
                ELSE IF m = n /\ n # 0
                THEN [stamps |-> <<saved[n].par, saved[n].recv, Clock(n, t)>>, at |-> t + lat]
                ELSE reply[m]]
  /\ UNCHANGED <<rounds, down, saved, cumul>>

\* Collecting: a back-end reports one zero, a node the reports of its children, each plus
\* the skew to that child.
BackEndReports(b) ==
  /\ b \in BackEnds /\ rounds > 0 /\ cumul[b] = <<>>
  /\ \A n \in NodeSet : down[n] = None /\ reply[n] = None
  /\ cumul' = [cumul EXCEPT ![b] = <<0>>]
  /\ UNCHANGED <<rounds, down, saved, reply, skews, worst>>

\* The reports one after the other, each with the local skew of its child added.
Cumulative(reports, local) ==
  LET upto[i \in 0..Len(reports)] ==
        IF i = 0 THEN <<>> ELSE upto[i - 1] \o [j \in 1..Len(reports[i]) |-> reports[i][j] + local[i]]
  IN  upto[Len(reports)]

\* Mutant: adds the skew to the first child everywhere.
get_ClockSkew_first(n) ==
  /\ n \in DOMAIN SkewKids /\ cumul[n] = <<>> /\ skews[n] # <<>>
  /\ \A i \in 1..Len(SkewKids[n]) : cumul[SkewKids[n][i]] # <<>>
  /\ LET reports == [i \in 1..Len(SkewKids[n]) |-> cumul[SkewKids[n][i]]]
     IN  cumul' = [cumul EXCEPT ![n] = Cumulative(reports, [i \in 1..Len(reports) |-> skews[n][1]])]
  /\ UNCHANGED <<rounds, down, saved, reply, skews, worst>>

get_ClockSkew(n) ==
  /\ n \in DOMAIN SkewKids /\ cumul[n] = <<>> /\ skews[n] # <<>>
  /\ \A i \in 1..Len(SkewKids[n]) : cumul[SkewKids[n][i]] # <<>>
  /\ LET reports == [i \in 1..Len(SkewKids[n]) |-> cumul[SkewKids[n][i]]]
     IN  cumul' = [cumul EXCEPT ![n] = Cumulative(reports, skews[n])]
  /\ UNCHANGED <<rounds, down, saved, reply, skews, worst>>

SkewNext ==
  \/ BeginRound
  \/ \E n \in NodeSet :
       \/ save_LocalClockSkewDownstream(n) \/ BackEndAnswers(n) \/ save_LocalClockSkewUpstream(n)
       \/ BackEndReports(n) \/ get_ClockSkew(n)
SkewSpec == SkewInit /\ [][SkewNext]_skewVars

-----------------------------------------------------------------------------
\* The estimate of a child's skew is off by at most half of the largest difference there
\* was between the way down and the way up (which includes the wait for slower siblings)
\* (save_LocalClockSkewUpstream).
SkewErrorBounded ==
  \A n \in DOMAIN SkewKids : skews[n] # <<>> =>
     \A i \in 1..Len(SkewKids[n]) :
        2 * Abs(skews[n][i] - (Offset[n] - Offset[SkewKids[n][i]])) <= worst[SkewKids[n][i]]

\* Links whose ways were equally long in every round are measured exactly, whatever the
\* back-ends took to answer and however the messages of the links interleaved, and the
\* front-end is told the true difference to the clock of every back-end (get_ClockSkew).
SkewsAddUp ==
  cumul[0] # <<>> /\ (\A n \in NodeSet : worst[n] = 0) =>
     {cumul[0][i] : i \in 1..Len(cumul[0])} = {Offset[0] - Offset[b] : b \in BackEnds}

\* The skews of the links, and their sums along the paths to the back-ends, are as exact as the
\* latencies allow.
SkewsCorrect == SkewErrorBounded /\ SkewsAddUp
=============================================================================
