-------------------------- MODULE TransformFilters --------------------------
(***************************************************************************)
(* One wave of a stream on its way up the tree through the transformation  *)
(* filters that come with MRNet (FilterDefinitions.C) and with Paradyn     *)
(* (ParadynFilterDefinitions.C): every inner node runs the filter on the   *)
(* packets of its children, in the order of its children, as soon as it    *)
(* has them all.                                                           *)
(*                                                                         *)
(* Integers are words of WordBits bits, signed or not.  The two kinds of   *)
(* floating point numbers are left out: their rounding is not modelled.    *)
(***************************************************************************)
EXTENDS Integers, Sequences, SequencesExt, FiniteSets

CONSTANTS WordBits,     \* bound: width of an integer
          Trees,        \* functions from inner nodes to sequences of children; root 0
          Waves         \* set of [filter, leaf]: a filter and one packet for each leaf

VARIABLES wave,   \* the filter and the packets of the back-ends
          shape,   \* the tree they go up
          up      \* node -> the packet it has sent to its parent, or why there is none
filterVars == <<wave, shape, up>>

Unsent == [st |-> "unsent"]
Sent(v) == [st |-> "sent", val |-> v]
Dropped == [st |-> "dropped"]     \* the filter returned without a packet
Aborted == [st |-> "aborted"]     \* an assertion of the filter, or a division by zero
NoWave == [filter |-> "none", leaf |-> <<>>]

Inner == DOMAIN shape
WaveNodes == Inner \cup UNION {Range(shape[n]) : n \in Inner}
LeavesOf == LET of[n \in WaveNodes] == IF n \notin Inner THEN <<n>>
                                   ELSE LET upto[i \in 0..Len(shape[n])] ==
                                              IF i = 0 THEN <<>> ELSE upto[i - 1] \o of[shape[n][i]]
                                        IN  upto[Len(shape[n])]
            IN  of[0]

FiltersInit == wave = NoWave /\ shape = <<>> /\ up = <<>>

BeginWave ==
  /\ wave = NoWave
  /\ \E t \in Trees, w \in Waves : wave' = w /\ shape' = t
  /\ up' = [n \in DOMAIN shape' \cup UNION {Range(shape'[m]) : m \in DOMAIN shape'} |->
              IF n \in DOMAIN shape' THEN Unsent
              ELSE LET leaves == SetToSortSeq((UNION {Range(shape'[m]) : m \in DOMAIN shape'}) \ DOMAIN shape', <)
                   IN  Sent(wave'.leaf[CHOOSE i \in 1..Len(leaves) : leaves[i] = n])]

\* The input of node n is complete.
Ready(n, name) ==
  /\ wave.filter = name /\ n \in Inner /\ up[n] = Unsent
  /\ \A i \in 1..Len(shape[n]) : up[shape[n][i]].st = "sent"
Ipackets(n) == [i \in 1..Len(shape[n]) |-> up[shape[n][i]].val]
Emit(n, r) == up' = [up EXCEPT ![n] = r] /\ UNCHANGED <<wave, shape>>

SameFormat(ps) == \A i \in 1..Len(ps) : ps[i].type = ps[1].type
Numeric(t) == t \in {"int", "uint"}

-----------------------------------------------------------------------------
\* The helpers: arithmetic of the type of the packets
Modulus == 2 ^ WordBits
Wrap(t, x) == IF t = "uint" THEN x % Modulus
              ELSE ((x + Modulus \div 2) % Modulus) - Modulus \div 2
sum(t, a, b) == Wrap(t, a + b)
mult(t, a, k) == Wrap(t, a * k)
div(t, a, k) == Wrap(t, IF a >= 0 THEN a \div k ELSE -((-a) \div k))
mrn_min(a, b) == IF a < b THEN a ELSE b
mrn_max(a, b) == IF a > b THEN a ELSE b

\* f over the elements of s, from e on
Chain(f(_, _), e, s) ==
  LET upto[i \in 0..Len(s)] == IF i = 0 THEN e ELSE f(upto[i - 1], s[i]) IN upto[Len(s)]

tfilter_IntSum(n) ==
  /\ Ready(n, "IntSum")
  /\ LET ps == Ipackets(n)
     IN  Emit(n, IF \E i \in 1..Len(ps) : ps[i].type # "int" THEN Aborted
                 ELSE Sent([type |-> "int", val |-> Chain(LAMBDA a, p : sum("int", a, p.val), 0, ps)]))

\* A filter of one number per packet: formats must agree, and those of no number are
\* refused without a packet.
Reduce(n, name, f(_, _)) ==
  /\ Ready(n, name)
  /\ LET ps == Ipackets(n)
     IN  Emit(n, IF ~Numeric(ps[1].type) THEN Dropped
                 ELSE IF ~SameFormat(ps) THEN Aborted
                 ELSE Sent([type |-> ps[1].type,
                            val |-> Chain(f, ps[1].val, [i \in 1..(Len(ps) - 1) |-> ps[i + 1].val])]))

\* Mutant: the first packet counts twice.
tfilter_Sum_twice(n) ==
  Reduce(n, "Sum", LAMBDA a, b : sum(Ipackets(n)[1].type, a, sum(Ipackets(n)[1].type, b, Ipackets(n)[1].val)))

tfilter_Sum(n) == Reduce(n, "Sum", LAMBDA a, b : sum(Ipackets(n)[1].type, a, b))
tfilter_Max(n) == Reduce(n, "Max", mrn_max)
tfilter_Min(n) == Reduce(n, "Min", mrn_min)

\* Mutant: divides by the number of packets.
tfilter_Avg_packets(n) ==
  /\ Ready(n, "Avg")
  /\ LET ps == Ipackets(n)
         t == ps[1].type
         count == Chain(LAMBDA a, p : a + p.count, 0, ps)
         total == Chain(LAMBDA a, p : sum(t, a, mult(t, p.val, p.count)), 0, ps)
     IN  Emit(n, IF ~Numeric(t) THEN Dropped
                 ELSE IF ~SameFormat(ps) \/ count = 0 THEN Aborted
                 ELSE Sent([type |-> t, val |-> div(t, total, Len(ps)), count |-> count]))

\* Averages weighted by their counts; the sum and the quotient are of the type of the
\* packets.
tfilter_Avg(n) ==
  /\ Ready(n, "Avg")
  /\ LET ps == Ipackets(n)
         t == ps[1].type
         count == Chain(LAMBDA a, p : a + p.count, 0, ps)
         total == Chain(LAMBDA a, p : sum(t, a, mult(t, p.val, p.count)), 0, ps)
     IN  Emit(n, IF ~Numeric(t) THEN Dropped
                 ELSE IF ~SameFormat(ps) \/ count = 0 THEN Aborted
                 ELSE Sent([type |-> t, val |-> div(t, total, count), count |-> count]))

\* Mutant: the position does not move on.
tfilter_ArrayConcat_still(n) ==
  /\ Ready(n, "ArrayConcat")
  /\ LET ps == Ipackets(n)
     IN  Emit(n, IF ~Numeric(ps[1].type) THEN Dropped ELSE IF ~SameFormat(ps) THEN Aborted
                 ELSE Sent([type |-> ps[1].type,
                            val |-> Chain(LAMBDA a, p : p.val \o SubSeq(a, Len(p.val) + 1, Len(a)), <<>>, ps)]))

\* Arrays of the a kind.  (An array of the A kind has its 64-bit length unpacked into a
\* 32-bit variable.)
tfilter_ArrayConcat(n) ==
  /\ Ready(n, "ArrayConcat")
  /\ LET ps == Ipackets(n)
     IN  Emit(n, IF ~Numeric(ps[1].type) THEN Dropped ELSE IF ~SameFormat(ps) THEN Aborted
                 ELSE Sent([type |-> ps[1].type, val |-> Chain(LAMBDA a, p : a \o p.val, <<>>, ps)]))

\* Mutant: every class takes its members from the front.
MembersOf_front(p, j) == SubSeq(p.mems, 1, p.memcnts[j])

\* Three arrays: values, members per value, members one class after the other.  The
\* classes of the output are in ascending order, their members in order of arrival.
MembersOf(p, j) ==
  LET before == Chain(+, 0, SubSeq(p.memcnts, 1, j - 1))
  IN  SubSeq(p.mems, before + 1, before + p.memcnts[j])

classes(ps) ==
  LET vals == {v \in UNION {Range(ps[i].vals) : i \in 1..Len(ps)} :
                 \E i \in 1..Len(ps) : \E j \in 1..Len(ps[i].vals) : ps[i].vals[j] = v /\ ps[i].memcnts[j] > 0}
  IN  [v \in vals |->
         Chain(LAMBDA a, p : Chain(LAMBDA b, j : IF p.vals[j] = v THEN b \o MembersOf(p, j) ELSE b,
                                   a, [k \in 1..Len(p.vals) |-> k]), <<>>, ps)]
tfilter_IntEqClass(n) ==
  /\ Ready(n, "IntEqClass")
  /\ LET ps == Ipackets(n)
         cs == classes(ps)
         vals == SetToSortSeq(DOMAIN cs, <)
     IN  Emit(n, IF \E i \in 1..Len(ps) : Len(ps[i].vals) # Len(ps[i].memcnts) THEN Aborted
                 ELSE Sent([vals |-> vals,
                            memcnts |-> [i \in 1..Len(vals) |-> Len(cs[vals[i]])],
                            mems |-> Chain(LAMBDA a, v : a \o cs[v], <<>>, vals)]))

\* Mutant: the last representative wins.
tfilter_PDUIntEqClass_last(n) ==
  /\ Ready(n, "PDUIntEqClass")
  /\ LET ps == Ipackets(n)
         pairs == Chain(LAMBDA a, p : a \o [j \in 1..Len(p.classes) |-> <<p.classes[j], p.reps[j]>>], <<>>, ps)
         cs == SetToSortSeq({pairs[i][1] : i \in 1..Len(pairs)}, <)
         last(c) == CHOOSE i \in 1..Len(pairs) : pairs[i][1] = c /\ \A k \in (i + 1)..Len(pairs) : pairs[k][1] # c
     IN  Emit(n, IF \E i \in 1..Len(ps) : Len(ps[i].classes) # Len(ps[i].reps) THEN Aborted
                 ELSE Sent([id |-> ps[1].id, classes |-> cs, reps |-> [i \in 1..Len(cs) |-> pairs[last(cs[i])][2]]]))

\* A class keeps the first representative that comes in.
tfilter_PDUIntEqClass(n) ==
  /\ Ready(n, "PDUIntEqClass")
  /\ LET ps == Ipackets(n)
         pairs == Chain(LAMBDA a, p : a \o [j \in 1..Len(p.classes) |-> <<p.classes[j], p.reps[j]>>], <<>>, ps)
         cs == SetToSortSeq({pairs[i][1] : i \in 1..Len(pairs)}, <)
         first(c) == CHOOSE i \in 1..Len(pairs) : pairs[i][1] = c /\ \A k \in 1..(i - 1) : pairs[k][1] # c
     IN  Emit(n, IF \E i \in 1..Len(ps) : Len(ps[i].classes) # Len(ps[i].reps) THEN Aborted
                 ELSE Sent([id |-> ps[1].id, classes |-> cs, reps |-> [i \in 1..Len(cs) |-> pairs[first(cs[i])][2]]]))

FiltersNext ==
  \/ BeginWave
  \/ \E n \in Inner :
       \/ tfilter_IntSum(n) \/ tfilter_Sum(n) \/ tfilter_Max(n) \/ tfilter_Min(n) \/ tfilter_Avg(n)
       \/ tfilter_ArrayConcat(n) \/ tfilter_IntEqClass(n) \/ tfilter_PDUIntEqClass(n)

-----------------------------------------------------------------------------
LeafPackets == [i \in 1..Len(LeavesOf) |-> up[LeavesOf[i]].val]
Done(names) == wave.filter \in names /\ up[0].st = "sent"
Result == up[0].val

\* Whatever the shape of the tree, and wherever the words overflowed on the way, the sum,
\* maximum and minimum at the front-end are those of all back-ends together
\* (tfilter_IntSum, tfilter_Sum, tfilter_Max, tfilter_Min).
ShapeDoesNotMatter ==
  LET vals == [i \in 1..Len(LeavesOf) |-> LeafPackets[i].val]
  IN  /\ Done({"IntSum", "Sum"}) => Result.val = Wrap(Result.type, Chain(+, 0, vals))
      /\ Done({"Max"}) => Result.val \in Range(vals) /\ \A i \in 1..Len(vals) : vals[i] <= Result.val
      /\ Done({"Min"}) => Result.val \in Range(vals) /\ \A i \in 1..Len(vals) : vals[i] >= Result.val

\* The average of averages keeps the exact count, and lies between the smallest and the
\* greatest input as long as the weighted sum fits the type, although every level rounds
\* (tfilter_Avg).
AverageInRange ==
  Done({"Avg"}) =>
     LET ps == LeafPackets
         counted == {i \in 1..Len(ps) : ps[i].count > 0}
         size == Chain(LAMBDA a, p : a + p.count * (IF p.val < 0 THEN -p.val ELSE p.val), 0, ps)
     IN  /\ Result.count = Chain(LAMBDA a, p : a + p.count, 0, ps)
         /\ size < Modulus \div 2 =>
              /\ \E i \in counted : ps[i].val <= Result.val
              /\ \E i \in counted : Result.val <= ps[i].val

\* Concatenation yields every array once, in the order of the back-ends in the tree
\* (tfilter_ArrayConcat).
ConcatInOrder == Done({"ArrayConcat"}) => Result.val = Chain(LAMBDA a, p : a \o p.val, <<>>, LeafPackets)

\* Every member ends up once in the class of its value; no class appears twice and the
\* three arrays fit each other (tfilter_IntEqClass).
ClassesPartition ==
  Done({"IntEqClass"}) =>
     /\ \A i, j \in 1..Len(Result.vals) : i < j => Result.vals[i] < Result.vals[j]
     /\ Len(Result.mems) = Chain(+, 0, Result.memcnts)
     /\ \A k \in 1..Len(LeafPackets) : LET p == LeafPackets[k] IN
          \A j \in 1..Len(p.vals), m \in Range(p.mems) :
             m \in Range(MembersOf(p, j)) =>
               Cardinality({c \in 1..Len(Result.vals) :
                              m \in Range(MembersOf(Result, c)) /\ Result.vals[c] = p.vals[j]}) = 1
     /\ Len(Result.mems) = Chain(LAMBDA a, p : a + Len(p.mems), 0, LeafPackets)

\* The representative of a class is that of the first back-end that has the class
\* (tfilter_PDUIntEqClass).
FirstRepresentative ==
  Done({"PDUIntEqClass"}) =>
     LET has(k, c) == \E j \in 1..Len(LeafPackets[k].classes) : LeafPackets[k].classes[j] = c
     IN  /\ Range(Result.classes) = UNION {Range(LeafPackets[k].classes) : k \in 1..Len(LeafPackets)}
         /\ \A i \in 1..Len(Result.classes) :
              \E k \in 1..Len(LeafPackets) :
                 /\ has(k, Result.classes[i]) /\ \A l \in 1..(k - 1) : ~has(l, Result.classes[i])
                 /\ \E j \in 1..Len(LeafPackets[k].classes) :
                      LeafPackets[k].classes[j] = Result.classes[i] /\ LeafPackets[k].reps[j] = Result.reps[i]

\* A filter applied level by level gives what it would give to all back-ends' packets at once.
FiltersCorrect ==
  ShapeDoesNotMatter /\ AverageInRange /\ ConcatInOrder /\ ClassesPartition /\ FirstRepresentative
=============================================================================
