--------------------------- MODULE Services_proofs ---------------------------
(***************************************************************************)
(* Proofs about the library's services: FilterLoad, for any tree of        *)
(* processes, any functions and any number of loads (why the reports that  *)
(* come back in any order add up to the truth about the whole tree),       *)
(* Sockets, for any buffers and any way the kernel splits the transfer,    *)
(* ClockSkew, for any tree, any offsets of the clocks and any latencies,   *)
(* and the packet counters of PerfData, for any number of threads.         *)
(***************************************************************************)
EXTENDS FilterLoad, Sockets, ClockSkew, PerfData, FiniteSetTheorems, SequenceTheorems, WellFoundedInduction, TLAPS

\* Induction over the numbers, with a set in the place of a predicate.
LEMMA NatInduct ==
  ASSUME NEW S, 0 \in S, \A n \in Nat : n \in S => n + 1 \in S
  PROVE  Nat \subseteq S
  <1> SUFFICES ASSUME Nat \ S # {} PROVE FALSE
    OBVIOUS
  <1> DEFINE R == OpToRel(<, Nat)
  <1>1. IsWellFoundedOn(R, Nat)
    BY NatLessThanWellFounded, Zenon
  <1>2. R = {ss \in Nat \X Nat : ss[1] < ss[2]}
    BY DEF OpToRel
  <1> HIDE DEF R
  <1>3. PICK x \in Nat \ S : \A y \in Nat \ S : ~(<<y, x>> \in R)
    BY <1>1, WFMin
  <1>4. x # 0 /\ x - 1 \in Nat /\ x - 1 < x
    BY <1>3
  <1>5. x - 1 \in S
    BY <1>2, <1>3, <1>4
  <1> QED BY <1>3, <1>4, <1>5

-----------------------------------------------------------------------------
\* Loading filters

Request == [id : Nat, func : UserFuncs]
\* A process and everybody below it.
Below(n) == {m \in LoadNodes : \A S \in SUBSET LoadNodes : n \in S /\ WithKids(S) => m \in S}
\* The places of the functions that somebody from n down cannot load.
Lacking(n) == {u \in DOMAIN fe.asked : <<n, fe.asked[u].func>> \in lacks}
BelowLacking(n) == UNION {Lacking(m) : m \in Below(n)}
\* What is known of the children in C.
KidsLacking(p, C) == UNION {BelowLacking(c) : c \in LoadKids[p] \cap C}

\* The ids of the request are new to process n, or it has answered for them.
Untouched(n) == \A u \in DOMAIN fe.asked : fe.asked[u].id \notin DOMAIN table[n]
Settled(n) ==
  \A u \in DOMAIN fe.asked :
    LET a == fe.asked[u]
    IN  /\ u \in Lacking(n) => a.id \notin DOMAIN table[n]
        /\ u \notin Lacking(n) => a.id \in DOMAIN table[n] /\ table[n][a.id] = a.func
IsParent(n) == n \in LoadParents
Loading(n) == IsParent(n) /\ tally[n].busy # <<>>

\* The parent of n has seen the request: R are the processes that have.
Asked(n, R) == \E p \in R : IsParent(p) /\ n \in LoadKids[p]
\* Process n has not seen it.
Unreached(n, R, C) ==
  /\ n \notin C /\ reports[n] = <<>> /\ ~Loading(n) /\ Untouched(n)
  /\ asks[n] = IF Asked(n, R) THEN <<fe.asked>> ELSE <<>>
\* It has, and its own load is over and so are those of all its children.
Complete(n, C) == ~Loading(n) /\ (IsParent(n) => LoadKids[n] \subseteq C)
\* It has seen the request; C are the processes whose report was received.
Reached(n, R, C) ==
  /\ asks[n] = <<>> /\ Asked(n, R)
  /\ reports[n] = IF Complete(n, C) /\ n \notin C THEN <<BelowLacking(n)>> ELSE <<>>
  /\ n \in C => Complete(n, C)
  /\ IF Loading(n) THEN tally[n].busy = fe.asked /\ Untouched(n) ELSE Settled(n)
  /\ IsParent(n) =>
       /\ tally[n].waiting = Cardinality(LoadKids[n])
       /\ tally[n].reported = Cardinality(LoadKids[n] \cap C) + (IF Loading(n) THEN 0 ELSE 1)
       /\ tally[n].errors = KidsLacking(n, C) \cup (IF Loading(n) THEN {} ELSE Lacking(n))
\* The front-end has all the answers.
Finished(C) == LoadKids[0] \subseteq C
FrontEndOK(R, C) ==
  /\ 0 \in R /\ 0 \notin C /\ tally[0].busy = <<>> /\ Settled(0) /\ Lacking(0) = {}
  /\ IF Finished(C)
     THEN /\ tally[0].reported = 0 /\ tally[0].errors = {} /\ feErrors = KidsLacking(0, C)
          /\ fe.pc = "sent" => early
          /\ fe.pc = "wait" => fe.woken \/ early
     ELSE /\ tally[0].reported = Cardinality(LoadKids[0] \cap C) /\ tally[0].errors = KidsLacking(0, C)
          /\ fe.pc # "count" /\ ~fe.woken
NodeOK(n, R, C) == IF n \in R THEN Reached(n, R, C) ELSE Unreached(n, R, C)
RoundOK(R, C) == FrontEndOK(R, C) /\ \A n \in LoadNodes \ {0} : NodeOK(n, R, C)
\* Between two calls nothing is under way.
Rested ==
  /\ \A n \in LoadNodes \ {0} : asks[n] = <<>> /\ reports[n] = <<>>
  /\ \A p \in LoadParents : tally[p].busy = <<>>
  /\ tally[0].reported = 0 /\ tally[0].errors = {}
  /\ LoadKids[0] = {} => feErrors = {}

LoadTypeOK ==
  /\ next_id \in Nat
  /\ fe \in [pc : {"idle", "sent", "wait", "count"}, asked : Seq(Request), woken : BOOLEAN]
  /\ DOMAIN table = LoadNodes
  /\ DOMAIN asks = LoadNodes \ {0} /\ DOMAIN reports = LoadNodes \ {0}
  /\ tally \in [LoadParents -> [reported : Nat, waiting : Nat, errors : SUBSET Nat, busy : Seq(Request)]]
  /\ members = LoadKids
\* Ids are given out once, so those of a new request are nobody's.
IdsOK ==
  /\ \A n \in LoadNodes : \A i \in DOMAIN table[n] : i \in Nat /\ i < next_id
  /\ \A u \in DOMAIN fe.asked : fe.asked[u].id < next_id
  /\ \A u, v \in DOMAIN fe.asked : fe.asked[u].id = fe.asked[v].id => u = v
VerdictOK ==
  /\ verdict.asked \in Seq(Request)
  /\ \A u \in DOMAIN verdict.asked :
       /\ verdict.asked[u].id < next_id
       /\ fe.pc # "idle" => \A v \in DOMAIN fe.asked : fe.asked[v].id # verdict.asked[u].id
       /\ u \in verdict.good <=>
            \A n \in LoadNodes : verdict.asked[u].id \in DOMAIN table[n] /\ table[n][verdict.asked[u].id] = verdict.asked[u].func
LoadInv ==
  dead = {} =>
    /\ LoadTypeOK /\ IdsOK /\ VerdictOK
    /\ IF fe.pc = "idle" THEN Rested ELSE fe.asked # <<>> /\ \E R, C \in SUBSET LoadNodes : RoundOK(R, C)

-----------------------------------------------------------------------------
\* The tree: a process is below itself and below whatever its children are below.
LEMMA KidsAreNodes == \A p \in LoadParents : p \in LoadNodes /\ LoadKids[p] \subseteq LoadNodes \ {0}
  <1>1. \A p \in LoadParents : LoadKids[p] \subseteq LoadNodes
    BY DEF LoadNodes
  <1> QED BY <1>1, LoadTree

LEMMA OneParent == \A p, q \in LoadParents : \A c : c \in LoadKids[p] /\ c \in LoadKids[q] => p = q
  <1>1. \A p, q \in LoadParents : p # q => LoadKids[p] \cap LoadKids[q] = {}
    BY LoadTree
  <1> QED BY <1>1

LEMMA ParentOfNode == ASSUME NEW n \in LoadNodes \ {0} PROVE \E p \in LoadParents : n \in LoadKids[p]
  BY DEF LoadNodes

\* Everybody is below the front-end.
LEMMA AllBelow == Below(0) = LoadNodes
  <1>1. \A S \in SUBSET LoadNodes : 0 \in S /\ WithKids(S) => S = LoadNodes
    BY LoadTree
  <1> QED BY <1>1 DEF Below

LEMMA BelowLeaf == ASSUME NEW n \in LoadNodes \ LoadParents PROVE Below(n) = {n}
  <1>1. WithKids({n})
    BY DEF WithKids
  <1>2. n \in Below(n)
    BY DEF Below
  <1>3. \A m \in Below(n) : m \in {n}
    BY <1>1 DEF Below
  <1> QED BY <1>2, <1>3

LEMMA BelowClosed == ASSUME NEW n PROVE Below(n) \in SUBSET LoadNodes /\ WithKids(Below(n))
  <1>1. Below(n) \in SUBSET LoadNodes
    BY DEF Below
  <1>2. ASSUME NEW p \in LoadParents, p \in Below(n), NEW c \in LoadKids[p], NEW S \in SUBSET LoadNodes, n \in S /\ WithKids(S)
        PROVE  c \in S
    <2>1. p \in S
      BY <1>2 DEF Below
    <2> QED BY <1>2, <2>1 DEF WithKids
  <1>3. ASSUME NEW p \in LoadParents, p \in Below(n), NEW c \in LoadKids[p] PROVE c \in Below(n)
    <2>1. c \in LoadNodes
      BY KidsAreNodes
    <2> QED BY <1>2, <1>3, <2>1 DEF Below
  <1> QED BY <1>1, <1>3 DEF WithKids

LEMMA BelowParent ==
  ASSUME NEW n \in LoadParents
  PROVE  Below(n) = {n} \cup UNION {Below(c) : c \in LoadKids[n]}
  <1> DEFINE T == {n} \cup UNION {Below(c) : c \in LoadKids[n]}
  <1>1. n \in Below(n) /\ \A c \in LoadKids[n] : c \in Below(c)
    BY KidsAreNodes DEF Below
  <1>2. T \in SUBSET LoadNodes
    BY KidsAreNodes, BelowClosed
  <1>3. ASSUME NEW p \in LoadParents, p \in T PROVE LoadKids[p] \subseteq T
    <2>1. CASE p = n
      BY <1>1, <2>1
    <2>2. CASE p # n
      <3>1. PICK c \in LoadKids[n] : p \in Below(c)
        BY <1>3, <2>2
      <3>2. LoadKids[p] \subseteq Below(c)
        BY <3>1, BelowClosed DEF WithKids
      <3> QED BY <3>2
    <2> QED BY <2>1, <2>2
  <1>4. WithKids(T)
    BY <1>3 DEF WithKids
  <1>5. Below(n) \subseteq T
    <2> HIDE DEF T
    <2>1. n \in T
      BY DEF T
    <2> QED BY <1>2, <1>4, <2>1 DEF Below
  <1>6. ASSUME NEW c \in LoadKids[n], NEW m \in Below(c), NEW S \in SUBSET LoadNodes, n \in S /\ WithKids(S)
        PROVE  m \in S
    <2>1. c \in S
      BY <1>6 DEF WithKids
    <2> QED BY <1>6, <2>1 DEF Below
  <1>7. ASSUME NEW c \in LoadKids[n], NEW m \in Below(c) PROVE m \in Below(n)
    <2>1. m \in LoadNodes
      BY BelowClosed
    <2> QED BY <1>6, <2>1 DEF Below
  <1> QED BY <1>1, <1>5, <1>7

\* What is lacking from a process down: at a back-end its own, at a parent its own and what its
\* children say.
LEMMA LackingLeaf == ASSUME NEW n \in LoadNodes \ LoadParents PROVE BelowLacking(n) = Lacking(n)
  BY BelowLeaf DEF BelowLacking

LEMMA LackingParent ==
  ASSUME NEW n \in LoadParents, NEW C, LoadKids[n] \subseteq C
  PROVE  BelowLacking(n) = KidsLacking(n, C) \cup Lacking(n)
  <1>1. LoadKids[n] \cap C = LoadKids[n]
    OBVIOUS
  <1>2. ASSUME NEW u PROVE u \in BelowLacking(n) <=> u \in KidsLacking(n, C) \cup Lacking(n)
    <2>1. u \in BelowLacking(n) <=> \E m \in Below(n) : u \in Lacking(m)
      BY DEF BelowLacking
    <2>2. u \in KidsLacking(n, C) <=> \E c \in LoadKids[n] : u \in BelowLacking(c)
      BY <1>1 DEF KidsLacking
    <2>3. \A c : u \in BelowLacking(c) <=> \E m \in Below(c) : u \in Lacking(m)
      BY DEF BelowLacking
    <2>4. (\E m \in Below(n) : u \in Lacking(m)) <=> (u \in Lacking(n) \/ \E c \in LoadKids[n] : \E m \in Below(c) : u \in Lacking(m))
      BY BelowParent
    <2> QED BY <2>1, <2>2, <2>3, <2>4
  <1> QED BY <1>2

-----------------------------------------------------------------------------

\* The functions that the front-end could load are those it does not lack.
LEMMA LoadedHereOK ==
  ASSUME NEW funcs \in Seq(UserFuncs)
  PROVE  LoadedHere(funcs) \in Seq({f \in UserFuncs : <<0, f>> \notin lacks})
  <1> DEFINE Have == {f \in UserFuncs : <<0, f>> \notin lacks}
             Rec(k, f) == f = [u \in 0..k |-> IF u = 0 THEN <<>>
                                ELSE IF <<0, funcs[u]>> \in lacks THEN f[u - 1] ELSE Append(f[u - 1], funcs[u])]
             Good(k) == \E f : Rec(k, f)
             S == {k \in Nat : Good(k)}
  <1>0. Len(funcs) \in Nat
    OBVIOUS
  <1>1. Good(0)
    <2> DEFINE f == [u \in 0..0 |-> <<>>]
    <2>1. Rec(0, f)
      OBVIOUS
    <2> QED BY <2>1
  <1>2. ASSUME NEW k \in Nat, Good(k) PROVE Good(k + 1)
    <2>1. PICK g : Rec(k, g)
      BY <1>2
    <2> DEFINE last == IF <<0, funcs[k + 1]>> \in lacks THEN g[k] ELSE Append(g[k], funcs[k + 1])
               f == [u \in 0..(k + 1) |-> IF u = k + 1 THEN last ELSE g[u]]
    <2>2. ASSUME NEW u \in 0..(k + 1)
          PROVE  f[u] = IF u = 0 THEN <<>> ELSE IF <<0, funcs[u]>> \in lacks THEN f[u - 1] ELSE Append(f[u - 1], funcs[u])
      <3>1. CASE u = 0
        BY <2>1, <3>1
      <3>2. CASE u # 0 /\ u # k + 1
        <4>1. u - 1 \in 0..k /\ u \in 0..k
          BY <3>2
        <4>2. f[u] = g[u] /\ f[u - 1] = g[u - 1]
          BY <4>1, <3>2
        <4>3. g[u] = IF <<0, funcs[u]>> \in lacks THEN g[u - 1] ELSE Append(g[u - 1], funcs[u])
          BY <2>1, <4>1, <3>2
        <4> QED BY <4>2, <4>3, <3>2
      <3>3. CASE u = k + 1
        BY <3>3
      <3> QED BY <3>1, <3>2, <3>3
    <2>3. Rec(k + 1, f)
      BY <2>2
    <2> QED BY <2>3
  <1> HIDE DEF Good
  <1>3. Good(Len(funcs))
    <2>1. 0 \in S
      BY <1>1
    <2>2. \A k \in Nat : k \in S => k + 1 \in S
      BY <1>2
    <2> HIDE DEF S
    <2>3. Nat \subseteq S
      BY <2>1, <2>2, NatInduct
    <2> QED BY <1>0, <2>3 DEF S
  <1> DEFINE ok == CHOOSE f : Rec(Len(funcs), f)
  <1>4. Rec(Len(funcs), ok)
    BY <1>3 DEF Good
  <1>5. LoadedHere(funcs) = ok[Len(funcs)]
    BY DEF LoadedHere
  <1> HIDE DEF ok
  <1> DEFINE T == {k \in Nat : k <= Len(funcs) => ok[k] \in Seq(Have)}
  <1>6. 0 \in T
    BY <1>0, <1>4
  <1>7. ASSUME NEW k \in Nat, k \in T PROVE k + 1 \in T
    <2> SUFFICES ASSUME k + 1 <= Len(funcs) PROVE ok[k + 1] \in Seq(Have)
      OBVIOUS
    <2>1. ok[k] \in Seq(Have) /\ funcs[k + 1] \in UserFuncs
      BY <1>0, <1>7
    <2>2. k + 1 \in 0..Len(funcs) /\ k + 1 # 0 /\ (k + 1) - 1 = k
      BY <1>0
    <2>3. ok[k + 1] = IF <<0, funcs[k + 1]>> \in lacks THEN ok[k] ELSE Append(ok[k], funcs[k + 1])
      BY <1>4, <2>2
    <2> QED BY <2>1, <2>3
  <1>8. Nat \subseteq T
    <2> HIDE DEF T
    <2> QED BY <1>6, <1>7, NatInduct
  <1> QED BY <1>0, <1>5, <1>8

\* A process that knows none of the ids of a request registers what it does not lack, and
\* nothing else about its table changes.
NewIds(asked) == \A u, v \in DOMAIN asked : asked[u].id = asked[v].id => u = v
LEMMA LoadsIt ==
  ASSUME NEW n, NEW asked \in Seq(Request), NewIds(asked),
         \A u \in DOMAIN asked : asked[u].id \notin DOMAIN table[n]
  PROVE  /\ NotLoaded(n, asked) = {u \in DOMAIN asked : <<n, asked[u].func>> \in lacks}
         /\ \A i \in DOMAIN table[n] : i \in DOMAIN Loaded(n, asked) /\ Loaded(n, asked)[i] = table[n][i]
         /\ \A i \in DOMAIN Loaded(n, asked) : i \in DOMAIN table[n] \/ \E u \in DOMAIN asked : i = asked[u].id
         /\ \A u \in DOMAIN asked :
              IF <<n, asked[u].func>> \in lacks THEN asked[u].id \notin DOMAIN Loaded(n, asked)
              ELSE asked[u].id \in DOMAIN Loaded(n, asked) /\ Loaded(n, asked)[asked[u].id] = asked[u].func
  <1> DEFINE new == {a \in Range(asked) : CanLoad(n, a)}
             ids == {a.id : a \in new}
             pick(i) == (CHOOSE a \in new : a.id = i).func
  <1>1. Loaded(n, asked) = [i \in DOMAIN table[n] \cup ids |-> IF i \in DOMAIN table[n] THEN table[n][i] ELSE pick(i)]
    BY DEF Loaded
  <1>2. Range(asked) = {asked[u] : u \in DOMAIN asked}
    BY DEF Range
  <1>3. \A u \in DOMAIN asked : CanLoad(n, asked[u]) <=> <<n, asked[u].func>> \notin lacks
    BY DEF CanLoad
  <1>4. \A a \in new : \E u \in DOMAIN asked : a = asked[u] /\ <<n, asked[u].func>> \notin lacks
    BY <1>2, <1>3
  <1>5. ASSUME NEW u \in DOMAIN asked, <<n, asked[u].func>> \notin lacks PROVE asked[u] \in new
    BY <1>2, <1>3, <1>5
  <1>6. ASSUME NEW u \in DOMAIN asked, <<n, asked[u].func>> \in lacks PROVE asked[u].id \notin ids
    <2> SUFFICES ASSUME NEW a \in new, a.id = asked[u].id PROVE FALSE
      OBVIOUS
    <2>1. PICK v \in DOMAIN asked : a = asked[v] /\ <<n, asked[v].func>> \notin lacks
      BY <1>4
    <2>2. v = u
      BY <2>1 DEF NewIds
    <2> QED BY <1>6, <2>1, <2>2
  <1>7. ASSUME NEW u \in DOMAIN asked, <<n, asked[u].func>> \notin lacks PROVE pick(asked[u].id) = asked[u].func
    <2>1. ASSUME NEW a \in new, a.id = asked[u].id PROVE a = asked[u]
      <3>1. PICK v \in DOMAIN asked : a = asked[v]
        BY <1>4
      <3> QED BY <2>1, <3>1 DEF NewIds
    <2> HIDE DEF new
    <2> QED BY <1>5, <1>7, <2>1
  <1> HIDE DEF new, pick
  <1>8. \A i \in ids : \E u \in DOMAIN asked : i = asked[u].id
    BY <1>4
  <1>9. \A u \in DOMAIN asked : <<n, asked[u].func>> \notin lacks => asked[u].id \in ids
    BY <1>5
  <1> HIDE DEF ids
  <1>10. DOMAIN Loaded(n, asked) = DOMAIN table[n] \cup ids
    BY <1>1
  <1>11. \A u \in DOMAIN asked : <<n, asked[u].func>> \notin lacks => Loaded(n, asked)[asked[u].id] = asked[u].func
    BY <1>1, <1>7, <1>9
  <1>12. \A i \in DOMAIN table[n] : Loaded(n, asked)[i] = table[n][i]
    BY <1>1
  <1>13. NotLoaded(n, asked) = {u \in DOMAIN asked : <<n, asked[u].func>> \in lacks}
    BY <1>3 DEF NotLoaded
  <1> QED BY <1>6, <1>8, <1>9, <1>10, <1>11, <1>12, <1>13

-----------------------------------------------------------------------------
\* What a step of the round leaves alone: the request, and what is lacking.
SameRequest == fe'.asked = fe.asked /\ lacks' = lacks

LEMMA LackingKept ==
  ASSUME SameRequest
  PROVE  /\ \A n : Lacking(n)' = Lacking(n) /\ BelowLacking(n)' = BelowLacking(n)
         /\ \A p, C : KidsLacking(p, C)' = KidsLacking(p, C)
  <1>1. \A n : Lacking(n)' = Lacking(n)
    BY DEF SameRequest, Lacking
  <1>2. \A n : BelowLacking(n)' = BelowLacking(n)
    BY <1>1 DEF BelowLacking
  <1> QED BY <1>1, <1>2 DEF KidsLacking

\* A process the step does not touch.
LEMMA OtherNode ==
  ASSUME SameRequest, NEW m \in LoadNodes \ {0}, NEW R, NEW R2, NEW C, NEW C2, NodeOK(m, R, C),
         asks'[m] = asks[m], reports'[m] = reports[m], table'[m] = table[m],
         IsParent(m) => tally'[m] = tally[m] /\ LoadKids[m] \cap C2 = LoadKids[m] \cap C,
         m \in C2 <=> m \in C, m \in R2 <=> m \in R, Asked(m, R2) <=> Asked(m, R)
  PROVE  NodeOK(m, R2, C2)'
  <1>1. Lacking(m)' = Lacking(m) /\ BelowLacking(m)' = BelowLacking(m)
    BY LackingKept
  <1>2. Untouched(m)' <=> Untouched(m)
    BY DEF SameRequest, Untouched
  <1>3. Settled(m)' <=> Settled(m)
    BY <1>1 DEF SameRequest, Settled
  <1>4. Loading(m)' <=> Loading(m)
    BY DEF Loading, IsParent
  <1>5. IsParent(m) => KidsLacking(m, C2)' = KidsLacking(m, C)
    <2>1. KidsLacking(m, C2)' = KidsLacking(m, C2)
      BY LackingKept
    <2> QED BY <2>1 DEF KidsLacking
  <1>6. Complete(m, C2)' <=> Complete(m, C)
    BY <1>4 DEF Complete
  <1>7. m \notin R => Unreached(m, R2, C2)'
    BY <1>2, <1>4 DEF NodeOK, Unreached, SameRequest
  <1>8. m \in R => Reached(m, R2, C2)'
    <2> SUFFICES ASSUME m \in R PROVE Reached(m, R2, C2)'
      OBVIOUS
    <2>1. Reached(m, R, C)
      BY DEF NodeOK
    <2>2. IsParent(m) => LoadKids[m] \cap C2 = LoadKids[m] \cap C /\ tally'[m] = tally[m]
      OBVIOUS
    <2>3. asks'[m] = <<>> /\ Asked(m, R2) /\ (m \in C2 => Complete(m, C2)')
      BY <1>6, <2>1 DEF Reached
    <2>4. reports'[m] = IF Complete(m, C2)' /\ m \notin C2 THEN <<BelowLacking(m)'>> ELSE <<>>
      BY <1>1, <1>6, <2>1 DEF Reached
    <2>5. IF Loading(m)' THEN tally'[m].busy = fe'.asked /\ Untouched(m)' ELSE Settled(m)'
      BY <1>2, <1>3, <1>4, <2>1, <2>2 DEF Reached, SameRequest, Loading
    <2>6. ASSUME IsParent(m)
          PROVE  /\ tally'[m].waiting = Cardinality(LoadKids[m])
                 /\ tally'[m].reported = Cardinality(LoadKids[m] \cap C2) + (IF Loading(m)' THEN 0 ELSE 1)
                 /\ tally'[m].errors = KidsLacking(m, C2)' \cup (IF Loading(m)' THEN {} ELSE Lacking(m)')
      BY <1>1, <1>4, <1>5, <2>1, <2>2, <2>6 DEF Reached
    <2> QED BY <2>3, <2>4, <2>5, <2>6 DEF Reached, IsParent
  <1> QED BY <1>7, <1>8 DEF NodeOK

\* The front-end, when the step changes nothing of what it has gathered.
LEMMA OtherFrontEnd ==
  ASSUME SameRequest, NEW R, NEW R2, NEW C, NEW C2, FrontEndOK(R, C),
         table'[0] = table[0], tally'[0] = tally[0], feErrors' = feErrors, fe' = fe, early => early',
         R \subseteq R2, 0 \notin C2, LoadKids[0] \cap C2 = LoadKids[0] \cap C
  PROVE  FrontEndOK(R2, C2)'
  <1>1. Lacking(0)' = Lacking(0)
    BY LackingKept
  <1>2. Settled(0)' <=> Settled(0)
    BY <1>1 DEF SameRequest, Settled
  <1>3. KidsLacking(0, C2)' = KidsLacking(0, C)
    <2>1. KidsLacking(0, C2)' = KidsLacking(0, C2)
      BY LackingKept
    <2> QED BY <2>1 DEF KidsLacking
  <1>4. Finished(C2) <=> Finished(C)
    BY DEF Finished
  <1> QED BY <1>1, <1>2, <1>3, <1>4 DEF FrontEndOK, Finished

\* The answer of an earlier call stays true when what is loaded has other ids.
OtherIds(n, asked) ==
  \A i : (\A u \in DOMAIN asked : i # asked[u].id) =>
           (i \in DOMAIN table'[n] <=> i \in DOMAIN table[n]) /\ (i \in DOMAIN table[n] => table'[n][i] = table[n][i])
LEMMA VerdictKept ==
  ASSUME VerdictOK, verdict' = verdict, NEW asked, \A n \in LoadNodes : OtherIds(n, asked),
         fe'.pc # "idle" => fe'.asked = asked,
         \A u \in DOMAIN verdict.asked : verdict.asked[u].id < next_id' /\ \A v \in DOMAIN asked : verdict.asked[u].id # asked[v].id
  PROVE  VerdictOK'
  <1>1. ASSUME NEW u \in DOMAIN verdict.asked, NEW n \in LoadNodes
        PROVE  (verdict.asked[u].id \in DOMAIN table'[n] /\ table'[n][verdict.asked[u].id] = verdict.asked[u].func)
                 <=> (verdict.asked[u].id \in DOMAIN table[n] /\ table[n][verdict.asked[u].id] = verdict.asked[u].func)
    <2> DEFINE i == verdict.asked[u].id
    <2>1. \A v \in DOMAIN asked : i # asked[v].id
      OBVIOUS
    <2> HIDE DEF i
    <2>2. (i \in DOMAIN table'[n] <=> i \in DOMAIN table[n]) /\ (i \in DOMAIN table[n] => table'[n][i] = table[n][i])
      BY <2>1 DEF OtherIds
    <2>3. (i \in DOMAIN table'[n] /\ table'[n][i] = verdict.asked[u].func) <=> (i \in DOMAIN table[n] /\ table[n][i] = verdict.asked[u].func)
      BY <2>2
    <2> QED BY <2>3 DEF i
  <1> QED BY <1>1 DEF VerdictOK

\* One process loads a request whose ids it does not know.
UnknownTo(n, asked) == \A u \in DOMAIN asked : asked[u].id \notin DOMAIN table[n]
LoadsInto(n, asked) == table' = [table EXCEPT ![n] = Loaded(n, asked)]
OldOrNew(m, asked) == \A i \in DOMAIN table'[m] : i \in Nat /\ (i < next_id \/ \E u \in DOMAIN asked : i = asked[u].id)
LEMMA LoadKeepsTables ==
  ASSUME LoadTypeOK, IdsOK, NEW n \in LoadNodes, NEW asked \in Seq(Request), NewIds(asked),
         UnknownTo(n, asked), LoadsInto(n, asked)
  PROVE  /\ DOMAIN table' = LoadNodes
         /\ \A m \in LoadNodes : OtherIds(m, asked) /\ OldOrNew(m, asked)
         /\ \A m \in LoadNodes : m # n => table'[m] = table[m]
  <1>0. \A u \in DOMAIN asked : asked[u].id \notin DOMAIN table[n]
    BY DEF UnknownTo
  <1>1. DOMAIN table = LoadNodes
    BY DEF LoadTypeOK
  <1>2. DOMAIN table' = LoadNodes /\ table'[n] = Loaded(n, asked) /\ \A m \in LoadNodes : m # n => table'[m] = table[m]
    BY <1>1 DEF LoadsInto
  <1>3. \A i \in DOMAIN table[n] : i \in DOMAIN Loaded(n, asked) /\ Loaded(n, asked)[i] = table[n][i]
    BY <1>0, LoadsIt
  <1>4. \A i \in DOMAIN Loaded(n, asked) : i \in DOMAIN table[n] \/ \E u \in DOMAIN asked : i = asked[u].id
    BY <1>0, LoadsIt
  <1>5. OtherIds(n, asked)
    BY <1>2, <1>3, <1>4 DEF OtherIds
  <1>6. \A m \in LoadNodes : m # n => OtherIds(m, asked)
    BY <1>2 DEF OtherIds
  <1>7. \A u \in DOMAIN asked : asked[u].id \in Nat
    <2>1. \A u \in DOMAIN asked : asked[u] \in Request
      OBVIOUS
    <2> QED BY <2>1 DEF Request
  <1>8. OldOrNew(n, asked)
    BY <1>2, <1>4, <1>7 DEF IdsOK, OldOrNew
  <1>9. \A m \in LoadNodes : m # n => OldOrNew(m, asked)
    BY <1>2 DEF IdsOK, OldOrNew
  <1> QED BY <1>2, <1>5, <1>6, <1>8, <1>9

LEMMA RequestSettled ==
  ASSUME LoadTypeOK, NEW n \in LoadNodes, NewIds(fe.asked), Untouched(n), SameRequest,
         table' = [table EXCEPT ![n] = Loaded(n, fe.asked)]
  PROVE  Settled(n)' /\ NotLoaded(n, fe.asked) = Lacking(n)
  <1>1. fe.asked \in Seq(Request) /\ DOMAIN table = LoadNodes
    BY DEF LoadTypeOK
  <1>2. \A u \in DOMAIN fe.asked : fe.asked[u].id \notin DOMAIN table[n]
    BY DEF Untouched
  <1>3. /\ NotLoaded(n, fe.asked) = {u \in DOMAIN fe.asked : <<n, fe.asked[u].func>> \in lacks}
        /\ \A u \in DOMAIN fe.asked :
             IF <<n, fe.asked[u].func>> \in lacks THEN fe.asked[u].id \notin DOMAIN Loaded(n, fe.asked)
             ELSE fe.asked[u].id \in DOMAIN Loaded(n, fe.asked) /\ Loaded(n, fe.asked)[fe.asked[u].id] = fe.asked[u].func
    <2> DEFINE asked == fe.asked
    <2>1. asked \in Seq(Request) /\ NewIds(asked) /\ \A u \in DOMAIN asked : asked[u].id \notin DOMAIN table[n]
      BY <1>1, <1>2
    <2> HIDE DEF asked
    <2>2. /\ NotLoaded(n, asked) = {u \in DOMAIN asked : <<n, asked[u].func>> \in lacks}
          /\ \A u \in DOMAIN asked :
               IF <<n, asked[u].func>> \in lacks THEN asked[u].id \notin DOMAIN Loaded(n, asked)
               ELSE asked[u].id \in DOMAIN Loaded(n, asked) /\ Loaded(n, asked)[asked[u].id] = asked[u].func
      BY <2>1, LoadsIt
    <2> QED BY <2>2 DEF asked
  <1>4. table'[n] = Loaded(n, fe.asked)
    BY <1>1
  <1> HIDE DEF NewIds
  <1>5. \A u \in DOMAIN fe.asked : u \in Lacking(n)' <=> <<n, fe.asked[u].func>> \in lacks
    BY DEF Lacking, SameRequest
  <1>6. Settled(n)'
    BY <1>3, <1>4, <1>5 DEF Settled, SameRequest
  <1>7. NotLoaded(n, fe.asked) = Lacking(n)
    BY <1>3 DEF Lacking
  <1> QED BY <1>6, <1>7

\* The children of p that have reported, with one more.
LEMMA OneMoreReport ==
  ASSUME NEW p \in LoadParents, NEW C, NEW c \in LoadKids[p], c \notin C
  PROVE  /\ Cardinality(LoadKids[p] \cap C) \in Nat
         /\ Cardinality(LoadKids[p] \cap (C \cup {c})) = Cardinality(LoadKids[p] \cap C) + 1
         /\ KidsLacking(p, C \cup {c}) = KidsLacking(p, C) \cup BelowLacking(c)
  <1>1. IsFiniteSet(LoadKids[p])
    BY LoadTree
  <1>2. IsFiniteSet(LoadKids[p] \cap C) /\ Cardinality(LoadKids[p] \cap C) \in Nat
    BY <1>1, FS_Subset, FS_CardinalityType
  <1>3. LoadKids[p] \cap (C \cup {c}) = (LoadKids[p] \cap C) \cup {c} /\ c \notin LoadKids[p] \cap C
    OBVIOUS
  <1>4. Cardinality((LoadKids[p] \cap C) \cup {c}) = Cardinality(LoadKids[p] \cap C) + 1
    BY <1>2, <1>3, FS_AddElement
  <1> QED BY <1>2, <1>3, <1>4 DEF KidsLacking

\* Counting tells whether all the children of p have reported.
LEMMA AllKidsReported ==
  ASSUME NEW p \in LoadParents, NEW C
  PROVE  /\ Cardinality(LoadKids[p] \cap C) \in Nat /\ Cardinality(LoadKids[p]) \in Nat
         /\ Cardinality(LoadKids[p] \cap C) <= Cardinality(LoadKids[p])
         /\ Cardinality(LoadKids[p] \cap C) = Cardinality(LoadKids[p]) <=> LoadKids[p] \subseteq C
  <1>1. IsFiniteSet(LoadKids[p])
    BY LoadTree
  <1>2. LoadKids[p] \cap C \in SUBSET LoadKids[p]
    OBVIOUS
  <1>3. Cardinality(LoadKids[p] \cap C) = Cardinality(LoadKids[p]) => LoadKids[p] \cap C = LoadKids[p]
    BY <1>1, <1>2, FS_Subset
  <1>4. LoadKids[p] \subseteq C => LoadKids[p] \cap C = LoadKids[p]
    OBVIOUS
  <1>5. Cardinality(LoadKids[p] \cap C) \in Nat /\ Cardinality(LoadKids[p]) \in Nat
    BY <1>1, <1>2, FS_Subset, FS_CardinalityType
  <1>6. Cardinality(LoadKids[p] \cap C) <= Cardinality(LoadKids[p])
    BY <1>1, <1>2, FS_Subset
  <1> QED BY <1>3, <1>4, <1>5, <1>6

LEMMA NotOwnKid == \A p \in LoadParents : p \notin LoadKids[p]
  <1> SUFFICES ASSUME NEW p \in LoadParents, p \in LoadKids[p] PROVE FALSE
    OBVIOUS
  <1>1. \A S \in SUBSET LoadNodes : S # {} => \E n \in S : n \in LoadParents => LoadKids[n] \cap S = {}
    BY LoadTree
  <1>2. {p} \in SUBSET LoadNodes /\ {p} # {}
    BY KidsAreNodes
  <1>3. \E n \in {p} : n \in LoadParents => LoadKids[n] \cap {p} = {}
    BY <1>1, <1>2
  <1>4. LoadKids[p] \cap {p} = {}
    BY <1>3
  <1> QED BY <1>4

-----------------------------------------------------------------------------
\* What a waiting packet says about the process it waits for.
LEMMA AskedNode ==
  ASSUME NEW R, NEW C, NEW n \in LoadNodes \ {0}, NodeOK(n, R, C), asks[n] # <<>>
  PROVE  n \notin R /\ Unreached(n, R, C) /\ asks[n] = <<fe.asked>> /\ Asked(n, R)
  BY DEF NodeOK, Reached, Unreached
LEMMA ReportingNode ==
  ASSUME NEW R, NEW C, NEW n \in LoadNodes \ {0}, NodeOK(n, R, C), reports[n] # <<>>
  PROVE  n \in R /\ n \notin C /\ Reached(n, R, C) /\ Complete(n, C) /\ reports[n] = <<BelowLacking(n)>>
  BY DEF NodeOK, Reached, Unreached
LEMMA LoadingNode ==
  ASSUME NEW R, NEW C, NEW n \in LoadNodes \ {0}, NodeOK(n, R, C), Loading(n)
  PROVE  /\ n \in R /\ n \notin C /\ Reached(n, R, C) /\ reports[n] = <<>>
         /\ tally[n].busy = fe.asked /\ Untouched(n)
  BY DEF NodeOK, Reached, Unreached, Complete

\* The children of a process that has not seen the request.
LEMMA KidsUnreached ==
  ASSUME NEW R, NEW C, \A n \in LoadNodes \ {0} : NodeOK(n, R, C), NEW p \in LoadParents, p \notin R,
         NEW k \in LoadKids[p]
  PROVE  k \in LoadNodes \ {0} /\ k \notin R /\ k \notin C /\ ~Asked(k, R) /\ Unreached(k, R, C) /\ asks[k] = <<>>
  <1>1. k \in LoadNodes \ {0} /\ NodeOK(k, R, C)
    BY KidsAreNodes
  <1>2. ~Asked(k, R)
    BY OneParent DEF Asked, IsParent
  <1> QED BY <1>1, <1>2 DEF NodeOK, Reached, Unreached

LEMMA NewFilterKeeps ==
  ASSUME LoadTypeOK, fe.asked # <<>>, NEW R \in SUBSET LoadNodes, NEW C \in SUBSET LoadNodes, RoundOK(R, C),
         NEW p \in LoadParents, proc_newFilter(p)
  PROVE  RoundOK(R \cup {p}, C)' /\ LoadTypeOK'
  <1> DEFINE R2 == R \cup {p}
             new == [reported |-> 0, waiting |-> Cardinality(members[p]), errors |-> {}, busy |-> Head(asks[p])]
  <1>0. p \in LoadNodes \ {0} /\ \A n \in LoadNodes \ {0} : NodeOK(n, R, C)
    BY KidsAreNodes DEF proc_newFilter, RoundOK
  <1>1. p \notin R /\ Unreached(p, R, C) /\ asks[p] = <<fe.asked>> /\ Asked(p, R)
    BY <1>0, AskedNode DEF proc_newFilter
  <1>2. Head(asks[p]) = fe.asked /\ Tail(asks[p]) = <<>>
    BY <1>1
  <1>3. members = LoadKids /\ DOMAIN asks = LoadNodes \ {0} /\ DOMAIN tally = LoadParents /\ fe.asked \in Seq(Request)
    BY DEF LoadTypeOK
  <1>4. p \notin LoadKids[p]
    BY NotOwnKid
  <1>5. tally' = [tally EXCEPT ![p] = new] /\ SameRequest
    BY DEF proc_newFilter, SameRequest
  <1>6. /\ DOMAIN asks' = LoadNodes \ {0} /\ asks'[p] = <<>>
        /\ \A k \in LoadKids[p] : asks'[k] = Append(asks[k], fe.asked)
        /\ \A m \in LoadNodes \ {0} : m # p /\ m \notin LoadKids[p] => asks'[m] = asks[m]
    <2> DEFINE ac == AskChildren(p, fe.asked)
    <2>1. ac = [n \in LoadNodes \ {0} |-> IF n \in LoadKids[p] THEN Append(asks[n], fe.asked) ELSE asks[n]]
      BY <1>3 DEF AskChildren
    <2>2. asks' = [ac EXCEPT ![p] = Tail(@)]
      BY <1>2 DEF proc_newFilter
    <2>3. \A k \in LoadKids[p] : k \in LoadNodes \ {0} /\ k # p
      BY <1>4, KidsAreNodes
    <2> QED BY <1>0, <1>2, <1>4, <2>1, <2>2, <2>3
  <1>7. reports' = reports /\ table' = table /\ feErrors' = feErrors /\ early' = early /\ fe' = fe /\ lacks' = lacks
    BY DEF proc_newFilter
  <1>8. new.busy = fe.asked /\ new.reported = 0 /\ new.errors = {} /\ new.waiting = Cardinality(LoadKids[p])
    BY <1>2, <1>3
  <1>9. new \in [reported : Nat, waiting : Nat, errors : SUBSET Nat, busy : Seq(Request)]
    <2>1. Cardinality(LoadKids[p]) \in Nat
      BY AllKidsReported
    <2> QED BY <1>2, <1>3, <2>1
  <1> HIDE DEF new
  <1>10. tally'[p] = new /\ DOMAIN tally' = LoadParents /\ \A q \in LoadParents : q # p => tally'[q] = tally[q]
    BY <1>3, <1>5
  <1>11. LoadTypeOK'
    <2>1. tally' \in [LoadParents -> [reported : Nat, waiting : Nat, errors : SUBSET Nat, busy : Seq(Request)]]
      BY <1>5, <1>9 DEF LoadTypeOK
    <2> QED BY <1>6, <1>7, <2>1 DEF LoadTypeOK, proc_newFilter
  <1>12. LoadKids[p] \cap C = {}
    BY <1>0, <1>1, KidsUnreached
  <1>13. Reached(p, R2, C)'
    <2>1. Loading(p)'
      BY <1>8, <1>10 DEF Loading, IsParent
    <2>2. Untouched(p)'
      BY <1>1, <1>7 DEF Unreached, Untouched
    <2>3. Asked(p, R2)
      BY <1>1 DEF Asked
    <2>4. p \notin C /\ reports'[p] = <<>>
      BY <1>1, <1>7 DEF Unreached
    <2>5. Cardinality(LoadKids[p] \cap C) = 0
      BY <1>12, FS_EmptySet
    <2>6. KidsLacking(p, C)' = {}
      BY <1>12 DEF KidsLacking
    <2>7. tally'[p].waiting = Cardinality(LoadKids[p]) /\ tally'[p].reported = 0 /\ tally'[p].errors = {} /\ tally'[p].busy = fe'.asked
      BY <1>7, <1>8, <1>10
    <2>8. ~Complete(p, C)'
      BY <2>1 DEF Complete
    <2> HIDE DEF R2
    <2> QED BY <1>6, <2>1, <2>2, <2>3, <2>4, <2>5, <2>6, <2>7, <2>8 DEF Reached
  <1>14. ASSUME NEW k \in LoadKids[p] PROVE Unreached(k, R2, C)' /\ k \notin R2
    <2>1. k \in LoadNodes \ {0} /\ k \notin R /\ k \notin C /\ Unreached(k, R, C) /\ asks[k] = <<>>
      BY <1>0, <1>1, KidsUnreached
    <2>2. k # p
      BY <1>4
    <2>3. Asked(k, R2)
      BY DEF Asked, IsParent
    <2>4. asks'[k] = <<fe'.asked>>
      BY <1>3, <1>6, <1>7, <2>1
    <2>5. ~Loading(k)'
      BY <1>10, <2>1, <2>2 DEF Unreached, Loading, IsParent
    <2>6. Untouched(k)' /\ reports'[k] = <<>>
      BY <1>7, <2>1 DEF Unreached, Untouched
    <2>7. k \notin R2
      BY <2>1, <2>2
    <2> HIDE DEF R2
    <2> QED BY <2>1, <2>3, <2>4, <2>5, <2>6, <2>7 DEF Unreached
  <1>15. ASSUME NEW m \in LoadNodes \ {0}, m # p, m \notin LoadKids[p] PROVE NodeOK(m, R2, C)'
    <2>1. Asked(m, R2) <=> Asked(m, R)
      BY <1>15 DEF Asked
    <2>2. asks'[m] = asks[m] /\ reports'[m] = reports[m] /\ table'[m] = table[m]
      BY <1>6, <1>7, <1>15
    <2>3. IsParent(m) => tally'[m] = tally[m]
      BY <1>10, <1>15 DEF IsParent
    <2>4. m \in R2 <=> m \in R
      BY <1>15
    <2> HIDE DEF R2
    <2> QED BY <1>0, <1>5, <2>1, <2>2, <2>3, <2>4, OtherNode
  <1>16. FrontEndOK(R2, C)'
    <2>1. FrontEndOK(R, C) /\ 0 \notin C
      BY DEF RoundOK, FrontEndOK
    <2>2. tally'[0] = tally[0]
      BY <1>0, <1>10, LoadAssumption DEF LoadParents
    <2>3. R \subseteq R2
      OBVIOUS
    <2> HIDE DEF R2
    <2> QED BY <1>5, <1>7, <2>1, <2>2, <2>3, OtherFrontEnd
  <1>17. ASSUME NEW m \in LoadNodes \ {0} PROVE NodeOK(m, R2, C)'
    <2>1. CASE m = p
      BY <1>13, <2>1 DEF NodeOK
    <2>2. CASE m \in LoadKids[p]
      BY <1>14, <2>2 DEF NodeOK
    <2> QED BY <1>15, <2>1, <2>2
  <1> QED BY <1>11, <1>16, <1>17 DEF RoundOK

LEMMA BackEndKeeps ==
  ASSUME LoadTypeOK, NewIds(fe.asked), NEW R \in SUBSET LoadNodes, NEW C \in SUBSET LoadNodes, RoundOK(R, C),
         NEW b \in LoadNodes \ {0}, BackEnd_newFilter(b)
  PROVE  /\ RoundOK(R \cup {b}, C)' /\ LoadTypeOK'
         /\ Untouched(b) /\ table' = [table EXCEPT ![b] = Loaded(b, fe.asked)]
  <1> DEFINE R2 == R \cup {b}
  <1>0. b \notin LoadParents /\ \A n \in LoadNodes \ {0} : NodeOK(n, R, C)
    BY DEF BackEnd_newFilter, RoundOK
  <1>1. b \notin R /\ Unreached(b, R, C) /\ asks[b] = <<fe.asked>> /\ Asked(b, R)
    BY <1>0, AskedNode DEF BackEnd_newFilter
  <1>2. Head(asks[b]) = fe.asked /\ Tail(asks[b]) = <<>>
    BY <1>1
  <1>3. DOMAIN asks = LoadNodes \ {0} /\ DOMAIN reports = LoadNodes \ {0} /\ DOMAIN table = LoadNodes
    BY DEF LoadTypeOK
  <1>4. table' = [table EXCEPT ![b] = Loaded(b, fe.asked)] /\ SameRequest
    BY <1>2 DEF BackEnd_newFilter, SameRequest
  <1>5. asks'[b] = <<>> /\ DOMAIN asks' = LoadNodes \ {0} /\ \A m \in LoadNodes \ {0} : m # b => asks'[m] = asks[m]
    BY <1>2, <1>3 DEF BackEnd_newFilter
  <1>6. Untouched(b) /\ reports[b] = <<>> /\ b \notin C
    BY <1>1 DEF Unreached
  <1>7. Settled(b)' /\ NotLoaded(b, fe.asked) = Lacking(b)
    BY <1>4, <1>6, RequestSettled
  <1>8. reports'[b] = <<Lacking(b)>> /\ DOMAIN reports' = LoadNodes \ {0} /\ \A m \in LoadNodes \ {0} : m # b => reports'[m] = reports[m]
    <2>1. reports' = [reports EXCEPT ![b] = Append(@, Lacking(b))]
      BY <1>2, <1>7 DEF BackEnd_newFilter
    <2> QED BY <1>3, <1>6, <2>1
  <1>9. tally' = tally /\ feErrors' = feErrors /\ early' = early /\ fe' = fe
    BY DEF BackEnd_newFilter
  <1>10. LoadTypeOK'
    <2>1. DOMAIN table' = LoadNodes
      BY <1>3, <1>4
    <2> QED BY <1>5, <1>8, <1>9, <2>1 DEF LoadTypeOK, BackEnd_newFilter
  <1>11. Reached(b, R2, C)'
    <2>1. ~IsParent(b) /\ ~Loading(b)' /\ Complete(b, C)'
      BY <1>0 DEF IsParent, Loading, Complete
    <2>2. BelowLacking(b)' = Lacking(b)
      BY <1>0, <1>4, LackingKept, LackingLeaf
    <2>3. Asked(b, R2)
      BY <1>1 DEF Asked
    <2> HIDE DEF R2
    <2> QED BY <1>5, <1>6, <1>7, <1>8, <2>1, <2>2, <2>3 DEF Reached
  <1>12. ASSUME NEW m \in LoadNodes \ {0}, m # b PROVE NodeOK(m, R2, C)'
    <2>1. Asked(m, R2) <=> Asked(m, R)
      BY <1>0 DEF Asked, IsParent
    <2>2. asks'[m] = asks[m] /\ reports'[m] = reports[m] /\ table'[m] = table[m]
      BY <1>3, <1>4, <1>5, <1>8, <1>12
    <2>3. m \in R2 <=> m \in R
      BY <1>12
    <2> HIDE DEF R2
    <2> QED BY <1>0, <1>4, <1>9, <2>1, <2>2, <2>3, OtherNode
  <1>13. FrontEndOK(R2, C)'
    <2>1. FrontEndOK(R, C) /\ 0 \notin C
      BY DEF RoundOK, FrontEndOK
    <2>2. table'[0] = table[0]
      BY <1>3, <1>4 DEF LoadNodes
    <2>3. R \subseteq R2
      OBVIOUS
    <2> HIDE DEF R2
    <2> QED BY <1>4, <1>9, <2>1, <2>2, <2>3, OtherFrontEnd
  <1>14. NodeOK(b, R2, C)'
    BY <1>11 DEF NodeOK
  <1> QED BY <1>4, <1>6, <1>10, <1>12, <1>13, <1>14 DEF RoundOK

LEMMA LoadHereKeeps ==
  ASSUME LoadTypeOK, NewIds(fe.asked), NEW R \in SUBSET LoadNodes, NEW C \in SUBSET LoadNodes, RoundOK(R, C),
         NEW p \in LoadParents, LoadHere(p)
  PROVE  /\ RoundOK(R, C)' /\ LoadTypeOK'
         /\ Untouched(p) /\ table' = [table EXCEPT ![p] = Loaded(p, fe.asked)]
  <1> DEFINE c == [tally[p] EXCEPT !.reported = @ + 1, !.errors = @ \cup NotLoaded(p, tally[p].busy)]
             new == [c EXCEPT !.busy = <<>>]
             Tally == [reported : Nat, waiting : Nat, errors : SUBSET Nat, busy : Seq(Request)]
  <1>0. p \in LoadNodes \ {0} /\ (\A n \in LoadNodes \ {0} : NodeOK(n, R, C)) /\ Loading(p)
    BY KidsAreNodes DEF LoadHere, RoundOK, Loading, IsParent
  <1>1. p \in R /\ p \notin C /\ Reached(p, R, C) /\ reports[p] = <<>> /\ tally[p].busy = fe.asked /\ Untouched(p)
    BY <1>0, LoadingNode
  <1>2. DOMAIN reports = LoadNodes \ {0} /\ DOMAIN table = LoadNodes /\ tally \in [LoadParents -> Tally] /\ fe.asked \in Seq(Request)
    BY DEF LoadTypeOK
  <1>3. table' = [table EXCEPT ![p] = Loaded(p, fe.asked)] /\ SameRequest
    BY <1>1 DEF LoadHere, SameRequest
  <1>4. Settled(p)' /\ NotLoaded(p, fe.asked) = Lacking(p)
    BY <1>0, <1>1, <1>3, RequestSettled
  <1>5. /\ tally[p] \in Tally /\ tally[p].waiting = Cardinality(LoadKids[p])
        /\ tally[p].reported = Cardinality(LoadKids[p] \cap C) /\ tally[p].errors = KidsLacking(p, C)
    <2>1. Cardinality(LoadKids[p] \cap C) \in Nat
      BY AllKidsReported
    <2>2. tally[p] \in Tally /\ IsParent(p)
      BY <1>2 DEF IsParent
    <2>3. tally[p].waiting = Cardinality(LoadKids[p]) /\ tally[p].reported = Cardinality(LoadKids[p] \cap C) + 0 /\ tally[p].errors = KidsLacking(p, C)
      BY <1>0, <1>1, <2>2 DEF Reached
    <2> QED BY <2>1, <2>2, <2>3
  <1>6. c.waiting = Cardinality(LoadKids[p]) /\ c.reported = Cardinality(LoadKids[p] \cap C) + 1 /\ c.errors = KidsLacking(p, C) \cup Lacking(p)
    BY <1>1, <1>4, <1>5
  <1>7. new.waiting = c.waiting /\ new.reported = c.reported /\ new.errors = c.errors /\ new.busy = <<>> /\ new \in Tally
    <2>1. Lacking(p) \subseteq Nat
      BY <1>2 DEF Lacking
    <2>2. tally[p].errors \cup NotLoaded(p, tally[p].busy) \in SUBSET Nat /\ tally[p].reported + 1 \in Nat /\ <<>> \in Seq(Request)
      BY <1>1, <1>4, <1>5, <2>1
    <2>3. new = [tally[p] EXCEPT !.reported = tally[p].reported + 1, !.errors = tally[p].errors \cup NotLoaded(p, tally[p].busy), !.busy = <<>>]
      BY <1>5
    <2>4. \A t \in Tally : \A r \in Nat, e \in SUBSET Nat, q \in Seq(Request) : [t EXCEPT !.reported = r, !.errors = e, !.busy = q] \in Tally
      OBVIOUS
    <2>5. new \in Tally
      BY <1>5, <2>2, <2>3, <2>4
    <2> QED BY <1>5, <2>5
  <1>8. tally' = [tally EXCEPT ![p] = new] /\ reports' = IF AllReported(p, c) THEN [reports EXCEPT ![p] = Append(@, c.errors)] ELSE reports
    BY DEF LoadHere
  <1> HIDE DEF c, new
  <1>9. tally'[p] = new /\ tally' \in [LoadParents -> Tally] /\ \A q \in LoadParents : q # p => tally'[q] = tally[q]
    BY <1>2, <1>7, <1>8
  <1>10. AllReported(p, c) <=> LoadKids[p] \subseteq C
    BY <1>6, AllKidsReported DEF AllReported
  <1>11. LoadKids[p] \subseteq C => c.errors = BelowLacking(p)
    BY <1>6, LackingParent
  <1>12. /\ DOMAIN reports' = LoadNodes \ {0} /\ \A m \in LoadNodes \ {0} : m # p => reports'[m] = reports[m]
         /\ reports'[p] = IF LoadKids[p] \subseteq C THEN <<BelowLacking(p)>> ELSE <<>>
    BY <1>0, <1>1, <1>2, <1>8, <1>10, <1>11
  <1>13. asks' = asks /\ feErrors' = feErrors /\ early' = early /\ fe' = fe /\ lacks' = lacks
    BY DEF LoadHere
  <1>14. LoadTypeOK'
    <2>1. DOMAIN table' = LoadNodes
      BY <1>2, <1>3
    <2> QED BY <1>9, <1>12, <1>13, <2>1 DEF LoadTypeOK, LoadHere
  <1>15. Reached(p, R, C)'
    <2>1. ~Loading(p)'
      BY <1>7, <1>9 DEF Loading
    <2>2. Complete(p, C)' <=> LoadKids[p] \subseteq C
      BY <2>1 DEF Complete, IsParent
    <2>3. Lacking(p)' = Lacking(p) /\ BelowLacking(p)' = BelowLacking(p) /\ KidsLacking(p, C)' = KidsLacking(p, C)
      BY <1>3, LackingKept
    <2>4. asks'[p] = <<>> /\ Asked(p, R)
      BY <1>1, <1>13 DEF Reached
    <2>5. /\ tally'[p].waiting = Cardinality(LoadKids[p]) /\ tally'[p].reported = Cardinality(LoadKids[p] \cap C) + 1
          /\ tally'[p].errors = KidsLacking(p, C)' \cup Lacking(p)'
      BY <1>6, <1>7, <1>9, <2>3
    <2>6. reports'[p] = IF Complete(p, C)' /\ p \notin C THEN <<BelowLacking(p)'>> ELSE <<>>
      BY <1>1, <1>12, <2>2, <2>3
    <2> QED BY <1>1, <1>4, <2>1, <2>4, <2>5, <2>6 DEF Reached
  <1>16. ASSUME NEW m \in LoadNodes \ {0}, m # p PROVE NodeOK(m, R, C)'
    <2>1. asks'[m] = asks[m] /\ reports'[m] = reports[m] /\ table'[m] = table[m]
      BY <1>2, <1>3, <1>12, <1>13, <1>16
    <2>2. IsParent(m) => tally'[m] = tally[m]
      BY <1>9, <1>16 DEF IsParent
    <2> QED BY <1>0, <1>3, <2>1, <2>2, OtherNode
  <1>17. FrontEndOK(R, C)'
    <2>1. FrontEndOK(R, C) /\ 0 \notin C
      BY DEF RoundOK, FrontEndOK
    <2>2. table'[0] = table[0] /\ tally'[0] = tally[0]
      BY <1>0, <1>2, <1>3, <1>9, LoadAssumption DEF LoadNodes, LoadParents
    <2> QED BY <1>3, <1>13, <2>1, <2>2, OtherFrontEnd
  <1>18. NodeOK(p, R, C)'
    BY <1>1, <1>15 DEF NodeOK
  <1> QED BY <1>1, <1>3, <1>14, <1>16, <1>17, <1>18 DEF RoundOK

\* A report is received: the parent of c counts it.
LEMMA ReportKeeps ==
  ASSUME LoadTypeOK, fe.pc # "idle", NEW R \in SUBSET LoadNodes, NEW C \in SUBSET LoadNodes, RoundOK(R, C),
         NEW p \in LoadParents, NEW c \in LoadKids[p], proc_FilterLoadEvent(p, c)
  PROVE  RoundOK(R, C \cup {c})' /\ LoadTypeOK' /\ fe'.pc = fe.pc /\ SameRequest
  <1> DEFINE C2 == C \cup {c}
             Tally == [reported : Nat, waiting : Nat, errors : SUBSET Nat, busy : Seq(Request)]
             t == [tally[p] EXCEPT !.reported = @ + 1, !.errors = @ \cup Head(reports[c])]
             all == p = 0 /\ t.reported = Cardinality(members[0])
             new == IF all THEN [t EXCEPT !.reported = 0, !.errors = {}] ELSE t
             rep == [reports EXCEPT ![c] = Tail(@)]
  <1>0. c \in LoadNodes \ {0} /\ c # p /\ \A n \in LoadNodes \ {0} : NodeOK(n, R, C)
    BY KidsAreNodes, NotOwnKid DEF RoundOK
  <1>1. c \in R /\ c \notin C /\ Reached(c, R, C) /\ Complete(c, C) /\ reports[c] = <<BelowLacking(c)>>
    BY <1>0, ReportingNode DEF proc_FilterLoadEvent
  <1>2. Head(reports[c]) = BelowLacking(c) /\ Tail(reports[c]) = <<>>
    BY <1>1
  <1>3. p \in R
    BY <1>1, OneParent DEF Reached, Asked, IsParent
  <1>4. /\ members = LoadKids /\ DOMAIN reports = LoadNodes \ {0} /\ tally \in [LoadParents -> Tally]
        /\ fe \in [pc : {"idle", "sent", "wait", "count"}, asked : Seq(Request), woken : BOOLEAN]
    BY DEF LoadTypeOK
  <1>5. /\ Cardinality(LoadKids[p] \cap C) \in Nat
        /\ Cardinality(LoadKids[p] \cap C2) = Cardinality(LoadKids[p] \cap C) + 1
        /\ KidsLacking(p, C2) = KidsLacking(p, C) \cup BelowLacking(c)
    BY <1>1, OneMoreReport
  <1>6. tally[p] \in Tally /\ BelowLacking(c) \subseteq Nat
    <2>1. DOMAIN fe.asked \subseteq Nat
      BY <1>4
    <2> QED BY <1>4, <2>1 DEF BelowLacking, Lacking
  <1>7. /\ t \in Tally /\ t.reported = tally[p].reported + 1 /\ t.errors = tally[p].errors \cup BelowLacking(c)
        /\ t.waiting = tally[p].waiting /\ t.busy = tally[p].busy
    <2>1. \A a \in Tally : \A r \in Nat, e \in SUBSET Nat : [a EXCEPT !.reported = r, !.errors = e] \in Tally
      OBVIOUS
    <2>2. tally[p].reported + 1 \in Nat /\ tally[p].errors \cup Head(reports[c]) \in SUBSET Nat
      BY <1>2, <1>6
    <2>3. t \in Tally
      BY <1>6, <2>1, <2>2
    <2> QED BY <1>2, <1>6, <2>3
  <1>8. /\ tally' = [tally EXCEPT ![p] = new]
        /\ reports' = IF p # 0 /\ AllReported(p, t) THEN [rep EXCEPT ![p] = Append(@, t.errors)] ELSE rep
        /\ feErrors' = IF all THEN t.errors ELSE feErrors
        /\ fe' = IF all THEN [fe EXCEPT !.woken = (fe.pc = "wait")] ELSE fe
        /\ early' = (early \/ (all /\ fe.pc # "wait"))
    BY DEF proc_FilterLoadEvent, Reported
  <1>9. asks' = asks /\ table' = table /\ lacks' = lacks
    BY DEF proc_FilterLoadEvent
  <1>10. fe'.asked = fe.asked /\ fe'.pc = fe.pc /\ SameRequest /\ fe' \in [pc : {"idle", "sent", "wait", "count"}, asked : Seq(Request), woken : BOOLEAN]
    BY <1>4, <1>8, <1>9 DEF SameRequest
  <1> HIDE DEF t
  <1>11. new \in Tally /\ new.waiting = t.waiting /\ new.busy = t.busy /\ (~all => new = t)
    <2>1. \A a \in Tally : [a EXCEPT !.reported = 0, !.errors = {}] \in Tally
      OBVIOUS
    <2> QED BY <1>7, <2>1
  <1>12. all => new.reported = 0 /\ new.errors = {}
    BY <1>7
  <1>13. DOMAIN rep = LoadNodes \ {0} /\ rep[c] = <<>> /\ \A m \in LoadNodes \ {0} : m # c => rep[m] = reports[m]
    BY <1>0, <1>2, <1>4
  <1> HIDE DEF new, rep
  <1>14. tally'[p] = new /\ tally' \in [LoadParents -> Tally] /\ \A q \in LoadParents : q # p => tally'[q] = tally[q]
    BY <1>4, <1>8, <1>11
  <1>15. /\ DOMAIN reports' = LoadNodes \ {0} /\ reports'[c] = <<>>
         /\ \A m \in LoadNodes \ {0} : m # c /\ m # p => reports'[m] = reports[m]
         /\ p # 0 => reports'[p] = IF AllReported(p, t) THEN Append(reports[p], t.errors) ELSE reports[p]
    <2>1. p \in LoadNodes
      BY KidsAreNodes
    <2> QED BY <1>0, <1>8, <1>13, <2>1
  <1>16. LoadTypeOK'
    BY <1>9, <1>10, <1>14, <1>15 DEF LoadTypeOK, proc_FilterLoadEvent
  <1>17. \A m \in LoadParents : m # p => LoadKids[m] \cap C2 = LoadKids[m] \cap C
    BY OneParent
  <1>18. Reached(c, R, C2)'
    <2>1. Lacking(c)' = Lacking(c)
      BY <1>10, LackingKept
    <2>2. IsParent(c) => tally'[c] = tally[c] /\ LoadKids[c] \cap C2 = LoadKids[c] \cap C
      BY <1>0, <1>14, <1>17 DEF IsParent
    <2>3. Loading(c)' <=> Loading(c)
      BY <2>2 DEF Loading, IsParent
    <2>4. ~Loading(c)
      BY <1>1 DEF Complete
    <2>5. Complete(c, C2)'
      BY <1>1, <2>2, <2>3 DEF Complete
    <2>6. Settled(c)'
      BY <1>1, <1>9, <1>10, <2>1, <2>4 DEF Reached, Settled
    <2>7. IsParent(c) => KidsLacking(c, C2)' = KidsLacking(c, C)
      <3>1. KidsLacking(c, C2)' = KidsLacking(c, C2)
        BY <1>10, LackingKept
      <3> QED BY <2>2, <3>1 DEF KidsLacking
    <2>8. asks'[c] = <<>> /\ Asked(c, R) /\ c \in C2
      BY <1>1, <1>9 DEF Reached
    <2>9. ASSUME IsParent(c)
          PROVE  /\ tally'[c].waiting = Cardinality(LoadKids[c]) /\ tally'[c].reported = Cardinality(LoadKids[c] \cap C2) + 1
                 /\ tally'[c].errors = KidsLacking(c, C2)' \cup Lacking(c)'
      BY <1>1, <2>1, <2>2, <2>4, <2>7, <2>9 DEF Reached
    <2> HIDE DEF C2
    <2> QED BY <1>15, <2>3, <2>4, <2>5, <2>6, <2>8, <2>9 DEF Reached, IsParent
  <1>19. ASSUME p # 0 PROVE Reached(p, R, C2)' /\ p \in LoadNodes \ {0}
    <2>0. p \in LoadNodes \ {0} /\ Reached(p, R, C) /\ IsParent(p)
      BY <1>0, <1>3, <1>19, KidsAreNodes DEF NodeOK, IsParent
    <2>1. ~Complete(p, C) /\ p \notin C /\ reports[p] = <<>>
      BY <1>1, <2>0 DEF Reached, Complete
    <2>2. ~all /\ new = t
      BY <1>11, <1>19
    <2>3. /\ t.waiting = Cardinality(LoadKids[p])
          /\ t.reported = Cardinality(LoadKids[p] \cap C2) + (IF Loading(p) THEN 0 ELSE 1)
          /\ t.errors = KidsLacking(p, C2) \cup (IF Loading(p) THEN {} ELSE Lacking(p))
      <3>1. t.waiting = Cardinality(LoadKids[p])
        BY <1>7, <2>0 DEF Reached
      <3>2. tally[p].reported = Cardinality(LoadKids[p] \cap C) + (IF Loading(p) THEN 0 ELSE 1)
        BY <2>0 DEF Reached
      <3>3. t.reported = Cardinality(LoadKids[p] \cap C2) + (IF Loading(p) THEN 0 ELSE 1)
        BY <1>5, <1>7, <3>2
      <3>4. t.errors = KidsLacking(p, C2) \cup (IF Loading(p) THEN {} ELSE Lacking(p))
        BY <1>5, <1>7, <2>0 DEF Reached
      <3> QED BY <3>1, <3>3, <3>4
    <2>4. Loading(p)' <=> Loading(p)
      BY <1>7, <1>14, <2>2 DEF Loading, IsParent
    <2>5. /\ Cardinality(LoadKids[p] \cap C2) \in Nat /\ Cardinality(LoadKids[p]) \in Nat
          /\ Cardinality(LoadKids[p] \cap C2) <= Cardinality(LoadKids[p])
          /\ Cardinality(LoadKids[p] \cap C2) = Cardinality(LoadKids[p]) <=> LoadKids[p] \subseteq C2
      BY AllKidsReported
    <2>6. AllReported(p, t) <=> (~Loading(p) /\ LoadKids[p] \subseteq C2)
      <3>1. AllReported(p, t) <=> t.reported = t.waiting + 1
        BY DEF AllReported
      <3>2. CASE Loading(p)
        BY <2>3, <2>5, <3>1, <3>2
      <3>3. CASE ~Loading(p)
        BY <2>3, <2>5, <3>1, <3>3
      <3> QED BY <3>2, <3>3
    <2>7. Complete(p, C2)' <=> AllReported(p, t)
      BY <2>0, <2>4, <2>6 DEF Complete
    <2>8. AllReported(p, t) => t.errors = BelowLacking(p)
      BY <2>3, <2>6, LackingParent
    <2>9. Lacking(p)' = Lacking(p) /\ BelowLacking(p)' = BelowLacking(p) /\ KidsLacking(p, C2)' = KidsLacking(p, C2)
      BY <1>10, LackingKept
    <2>10. reports'[p] = IF Complete(p, C2)' /\ p \notin C2 THEN <<BelowLacking(p)'>> ELSE <<>>
      <3>1. p \notin C2
        BY <1>0, <2>1
      <3>2. Append(<<>>, t.errors) = <<t.errors>>
        OBVIOUS
      <3> HIDE DEF C2
      <3> QED BY <1>15, <1>19, <2>1, <2>7, <2>8, <2>9, <3>1, <3>2
    <2>11. asks'[p] = <<>> /\ Asked(p, R) /\ p \notin C2
      BY <1>0, <1>9, <2>0, <2>1 DEF Reached
    <2>12. IF Loading(p)' THEN tally'[p].busy = fe'.asked /\ Untouched(p)' ELSE Settled(p)'
      <3>1. tally'[p].busy = tally[p].busy
        BY <1>7, <1>14, <2>2
      <3>2. Untouched(p)' <=> Untouched(p)
        BY <1>9, <1>10 DEF Untouched
      <3>3. Settled(p)' <=> Settled(p)
        BY <1>9, <1>10, <2>9 DEF Settled
      <3> QED BY <1>10, <2>0, <2>4, <3>1, <3>2, <3>3 DEF Reached
    <2>13. /\ tally'[p].waiting = Cardinality(LoadKids[p])
           /\ tally'[p].reported = Cardinality(LoadKids[p] \cap C2) + (IF Loading(p)' THEN 0 ELSE 1)
           /\ tally'[p].errors = KidsLacking(p, C2)' \cup (IF Loading(p)' THEN {} ELSE Lacking(p)')
      BY <1>14, <2>2, <2>3, <2>4, <2>9
    <2> HIDE DEF C2
    <2> QED BY <2>0, <2>10, <2>11, <2>12, <2>13 DEF Reached
  <1>20. ASSUME NEW m \in LoadNodes \ {0}, m # c, m # p PROVE NodeOK(m, R, C2)'
    <2>1. asks'[m] = asks[m] /\ reports'[m] = reports[m] /\ table'[m] = table[m]
      BY <1>9, <1>15, <1>20
    <2>2. IsParent(m) => tally'[m] = tally[m] /\ LoadKids[m] \cap C2 = LoadKids[m] \cap C
      BY <1>14, <1>17, <1>20 DEF IsParent
    <2>3. m \in C2 <=> m \in C
      BY <1>20
    <2> HIDE DEF C2
    <2> QED BY <1>0, <1>10, <2>1, <2>2, <2>3, OtherNode
  <1>21. FrontEndOK(R, C2)'
    <2>0. FrontEndOK(R, C) /\ 0 \notin C /\ 0 \notin C2
      BY <1>0 DEF RoundOK, FrontEndOK
    <2>1. CASE p # 0
      <3>1. tally'[0] = tally[0] /\ LoadKids[0] \cap C2 = LoadKids[0] \cap C
        BY <1>14, <1>17, <2>1, LoadAssumption DEF LoadParents
      <3>2. feErrors' = feErrors /\ fe' = fe
        BY <1>8, <2>1
      <3>3. early => early'
        BY <1>8
      <3> HIDE DEF C2
      <3> QED BY <1>9, <1>10, <2>0, <3>1, <3>2, <3>3, OtherFrontEnd
    <2>2. CASE p = 0
      <3>1. ~Finished(C)
        BY <1>1, <2>2 DEF Finished
      <3>2. tally[0].reported = Cardinality(LoadKids[0] \cap C) /\ tally[0].errors = KidsLacking(0, C) /\ fe.pc # "count" /\ ~fe.woken
        BY <2>0, <3>1 DEF FrontEndOK
      <3>3. t.reported = Cardinality(LoadKids[0] \cap C2) /\ t.errors = KidsLacking(0, C2)
        BY <1>5, <1>7, <2>2, <3>2
      <3>4. all <=> Finished(C2)
        BY <1>4, <2>2, <3>3, AllKidsReported DEF Finished
      <3>5. Lacking(0)' = Lacking(0) /\ KidsLacking(0, C2)' = KidsLacking(0, C2)
        BY <1>10, LackingKept
      <3>6. Settled(0)' /\ Lacking(0)' = {} /\ 0 \in R
        BY <1>9, <1>10, <2>0, <3>5 DEF FrontEndOK, Settled
      <3>7. tally'[0] = new /\ tally'[0].busy = <<>>
        BY <1>7, <1>11, <1>14, <2>0, <2>2 DEF FrontEndOK
      <3>8. ASSUME Finished(C2)
            PROVE  /\ tally'[0].reported = 0 /\ tally'[0].errors = {} /\ feErrors' = KidsLacking(0, C2)'
                   /\ fe'.pc = "sent" => early'
                   /\ fe'.pc = "wait" => fe'.woken \/ early'
        <4>1. all
          BY <3>4, <3>8
        <4>2. feErrors' = t.errors /\ fe' = [fe EXCEPT !.woken = (fe.pc = "wait")]
          BY <1>8, <4>1
        <4>3. fe.pc = "wait" => fe'.woken
          BY <1>4, <4>2
        <4>4. fe.pc = "sent" => early'
          BY <1>8, <4>1
        <4> QED BY <1>10, <1>12, <3>3, <3>5, <3>7, <4>1, <4>2, <4>3, <4>4
      <3>9. ASSUME ~Finished(C2)
            PROVE  /\ tally'[0].reported = Cardinality(LoadKids[0] \cap C2) /\ tally'[0].errors = KidsLacking(0, C2)'
                   /\ fe'.pc # "count" /\ ~fe'.woken
        <4>1. ~all /\ fe' = fe
          BY <1>8, <3>4, <3>9
        <4> QED BY <1>11, <3>2, <3>3, <3>5, <3>7, <4>1
      <3> HIDE DEF C2
      <3> QED BY <2>0, <3>6, <3>7, <3>8, <3>9 DEF FrontEndOK, Finished
    <2> QED BY <2>1, <2>2
  <1>22. ASSUME NEW m \in LoadNodes \ {0} PROVE NodeOK(m, R, C2)'
    <2>1. CASE m = c
      BY <1>1, <1>18, <2>1 DEF NodeOK
    <2>2. CASE m = p
      BY <1>3, <1>19, <2>2 DEF NodeOK
    <2> QED BY <1>20, <2>1, <2>2
  <1> HIDE DEF C2
  <1>23. RoundOK(R, C2)'
    BY <1>21, <1>22 DEF RoundOK
  <1> QED BY <1>10, <1>16, <1>23 DEF C2

-----------------------------------------------------------------------------
\* When the front-end has the reports of its children, everybody has reported.
LEMMA FinishedAll ==
  ASSUME NEW R \in SUBSET LoadNodes, NEW C \in SUBSET LoadNodes, RoundOK(R, C), Finished(C)
  PROVE  \A n \in LoadNodes \ {0} :
           n \in C /\ n \in R /\ asks[n] = <<>> /\ reports[n] = <<>> /\ ~Loading(n) /\ Settled(n)
  <1>0. \A n \in LoadNodes \ {0} : NodeOK(n, R, C)
    BY DEF RoundOK
  <1>1. \A n \in LoadNodes \ {0} : n \in C => n \in R /\ Reached(n, R, C) /\ Complete(n, C)
    BY <1>0 DEF NodeOK, Reached, Unreached
  <1> DEFINE S == C \cup {0}
  <1>2. ASSUME NEW p \in LoadParents, p \in S PROVE LoadKids[p] \subseteq S
    <2>1. CASE p = 0
      BY <2>1 DEF Finished
    <2>2. CASE p # 0
      BY <1>1, <1>2, <2>2 DEF Complete, IsParent
    <2> QED BY <2>1, <2>2
  <1>3. S \in SUBSET LoadNodes /\ 0 \in S /\ WithKids(S)
    BY <1>2 DEF WithKids, LoadNodes
  <1>4. S = LoadNodes
    <2> HIDE DEF S
    <2> QED BY <1>3, LoadTree
  <1>5. \A n \in LoadNodes \ {0} : n \in C
    BY <1>4
  <1> QED BY <1>1, <1>5 DEF Reached, Complete

\* While the front-end is not answered, somebody still has something to do.
LEMMA SomebodyWorks ==
  ASSUME NEW R \in SUBSET LoadNodes, NEW C \in SUBSET LoadNodes, RoundOK(R, C), ~Finished(C)
  PROVE  \/ \E n \in LoadNodes \ {0} : asks[n] # <<>> \/ reports[n] # <<>>
         \/ \E p \in LoadParents : tally[p].busy # <<>>
  <1> SUFFICES ASSUME \A n \in LoadNodes \ {0} : asks[n] = <<>> /\ reports[n] = <<>>,
                      \A p \in LoadParents : tally[p].busy = <<>>
               PROVE  FALSE
    OBVIOUS
  <1>0. (\A n \in LoadNodes \ {0} : NodeOK(n, R, C)) /\ 0 \in R /\ 0 \notin C
    BY DEF RoundOK, FrontEndOK
  <1>1. ASSUME NEW p \in LoadParents, p \in R, NEW k \in LoadKids[p] PROVE k \in R
    <2>1. k \in LoadNodes \ {0} /\ Asked(k, R)
      BY <1>1, KidsAreNodes DEF Asked, IsParent
    <2> QED BY <1>0, <2>1 DEF NodeOK, Unreached
  <1>2. R = LoadNodes
    <2>1. WithKids(R)
      BY <1>1 DEF WithKids
    <2> QED BY <1>0, <2>1, LoadTree
  <1>3. ASSUME NEW n \in LoadNodes \ {0}, n \in LoadParents => LoadKids[n] \subseteq C PROVE n \in C
    <2>1. Complete(n, C)
      BY <1>3 DEF Complete, Loading, IsParent
    <2>2. Reached(n, R, C)
      BY <1>0, <1>2 DEF NodeOK
    <2>3. reports[n] = <<>>
      OBVIOUS
    <2>4. reports[n] = IF Complete(n, C) /\ n \notin C THEN <<BelowLacking(n)>> ELSE <<>>
      BY <2>2 DEF Reached
    <2> QED BY <2>1, <2>3, <2>4
  <1> DEFINE S == LoadNodes \ (C \cup {0})
  <1>4. S # {}
    BY KidsAreNodes, LoadAssumption DEF Finished, LoadParents
  <1>5. PICK n \in S : n \in LoadParents => LoadKids[n] \cap S = {}
    <2>1. S \in SUBSET LoadNodes
      OBVIOUS
    <2> HIDE DEF S
    <2> QED BY <1>4, <2>1, LoadTree
  <1>6. n \in LoadParents => LoadKids[n] \subseteq C
    BY <1>5, KidsAreNodes
  <1> QED BY <1>3, <1>5, <1>6

\* The front-end says the truth about the whole tree, and nothing is left under way.
LEMMA AnswerKeeps ==
  ASSUME LoadTypeOK, IdsOK, NEW R \in SUBSET LoadNodes, NEW C \in SUBSET LoadNodes, RoundOK(R, C), Answered
  PROVE  LoadTypeOK' /\ IdsOK' /\ VerdictOK' /\ fe'.pc = "idle" /\ Rested'
  <1>1. fe.pc = "count" /\ FrontEndOK(R, C) /\ Finished(C)
    BY DEF Answered, RoundOK, FrontEndOK
  <1>2. \A n \in LoadNodes \ {0} :
           n \in C /\ n \in R /\ asks[n] = <<>> /\ reports[n] = <<>> /\ ~Loading(n) /\ Settled(n)
    BY <1>1, FinishedAll
  <1>3. fe \in [pc : {"idle", "sent", "wait", "count"}, asked : Seq(Request), woken : BOOLEAN]
    BY DEF LoadTypeOK
  <1>4. /\ fe' \in [pc : {"idle", "sent", "wait", "count"}, asked : Seq(Request), woken : BOOLEAN]
        /\ fe'.pc = "idle" /\ fe'.asked = fe.asked
    BY <1>3 DEF Answered
  <1>5. LoadTypeOK' /\ IdsOK'
    BY <1>4 DEF LoadTypeOK, IdsOK, Answered
  <1>6. \A p \in LoadParents : tally[p].busy = <<>>
    <2>1. ASSUME NEW p \in LoadParents, p # 0 PROVE tally[p].busy = <<>>
      BY <1>2, <2>1, KidsAreNodes DEF Loading, IsParent
    <2> QED BY <1>1, <2>1 DEF FrontEndOK
  <1>7. Rested'
    <2>1. LoadKids[0] = {} => feErrors = {}
      BY <1>1 DEF FrontEndOK, KidsLacking
    <2> QED BY <1>1, <1>2, <1>6, <2>1 DEF Rested, FrontEndOK, Answered
  <1>8. Settled(0) /\ Lacking(0) = {} /\ feErrors = KidsLacking(0, C)
    BY <1>1 DEF FrontEndOK
  <1>9. feErrors = BelowLacking(0)
    <2>1. 0 \in LoadParents /\ LoadKids[0] \subseteq C
      BY <1>1, LoadAssumption DEF LoadParents, Finished
    <2> QED BY <1>8, <2>1, LackingParent
  <1>10. \A n \in LoadNodes : Settled(n)
    BY <1>2, <1>8
  <1>11. ASSUME NEW u \in DOMAIN fe.asked
         PROVE  u \notin feErrors <=> \A n \in LoadNodes : fe.asked[u].id \in DOMAIN table[n] /\ table[n][fe.asked[u].id] = fe.asked[u].func
    <2>1. u \in feErrors <=> \E n \in LoadNodes : u \in Lacking(n)
      BY <1>9, AllBelow DEF BelowLacking
    <2>2. \A n \in LoadNodes : u \notin Lacking(n) <=> fe.asked[u].id \in DOMAIN table[n] /\ table[n][fe.asked[u].id] = fe.asked[u].func
      BY <1>10 DEF Settled
    <2> QED BY <2>1, <2>2
  <1>12. verdict' = [asked |-> fe.asked, good |-> DOMAIN fe.asked \ feErrors] /\ table' = table /\ next_id' = next_id
    BY DEF Answered
  <1>13. verdict'.asked = fe.asked /\ \A u \in DOMAIN fe.asked : u \in verdict'.good <=> u \notin feErrors
    BY <1>12
  <1>14. VerdictOK'
    <2>1. fe.asked \in Seq(Request)
      BY <1>3
    <2> QED BY <1>4, <1>11, <1>12, <1>13, <2>1 DEF VerdictOK, IdsOK
  <1> QED BY <1>4, <1>5, <1>7, <1>14

\* A new call: the front-end loads what it can and asks its children.
LEMMA CallKeeps ==
  ASSUME LoadTypeOK, IdsOK, VerdictOK, Rested, load_FilterFuncs
  PROVE  /\ LoadTypeOK' /\ IdsOK' /\ VerdictOK'
         /\ IF fe'.pc = "idle" THEN Rested' ELSE fe'.asked # <<>> /\ RoundOK({0}, {})'
  <1>1. PICK funcs \in SeqOf(UserFuncs, 2) \ {<<>>} :
          LET ok == LoadedHere(funcs)
              asked == [u \in DOMAIN ok |-> [id |-> next_id + u - 1, func |-> ok[u]]]
          IN  /\ table' = [table EXCEPT ![0] = Loaded(0, asked)]
              /\ next_id' = next_id + Len(ok)
              /\ IF ok = <<>>
                 THEN fe' = fe /\ asks' = asks /\ verdict' = NoAnswer
                 ELSE /\ asks' = AskChildren(0, asked) /\ verdict' = verdict
                      /\ fe' = [pc |-> IF members[0] = {} THEN "count" ELSE "sent", asked |-> asked, woken |-> FALSE]
    BY DEF load_FilterFuncs
  <1> DEFINE ok == LoadedHere(funcs)
             asked == [u \in DOMAIN ok |-> [id |-> next_id + u - 1, func |-> ok[u]]]
  <1>2. funcs \in Seq(UserFuncs)
    <2>1. PICK m \in 0..2 : funcs \in [1..m -> UserFuncs]
      BY DEF SeqOf
    <2>2. m \in Nat
      OBVIOUS
    <2> QED BY <2>1, <2>2, SeqDef
  <1>3. ok \in Seq({f \in UserFuncs : <<0, f>> \notin lacks})
    BY <1>2, LoadedHereOK
  <1> HIDE DEF ok
  <1>4. /\ table' = [table EXCEPT ![0] = Loaded(0, asked)]
        /\ next_id' = next_id + Len(ok)
        /\ ok = <<>> => fe' = fe /\ asks' = asks /\ verdict' = NoAnswer
        /\ ok # <<>> => /\ asks' = AskChildren(0, asked) /\ verdict' = verdict
                        /\ fe' = [pc |-> IF members[0] = {} THEN "count" ELSE "sent", asked |-> asked, woken |-> FALSE]
    BY <1>1 DEF ok
  <1>5. next_id \in Nat /\ Len(ok) \in Nat /\ DOMAIN ok = 1..Len(ok) /\ members = LoadKids /\ 0 \in LoadNodes /\ 0 \in LoadParents
    BY <1>3, LoadAssumption DEF LoadTypeOK, LoadNodes, LoadParents
  <1>6. \A u \in DOMAIN ok : asked[u].id = next_id + u - 1 /\ asked[u].func = ok[u] /\ asked[u] \in Request /\ <<0, ok[u]>> \notin lacks
    BY <1>3, <1>5 DEF Request
  <1>7. asked \in Seq(Request) /\ DOMAIN asked = DOMAIN ok /\ Len(asked) = Len(ok)
    <2>1. asked \in [1..Len(ok) -> Request]
      BY <1>5, <1>6
    <2> QED BY <1>5, <2>1
  <1> HIDE DEF asked
  <1>8. \A u \in DOMAIN asked : asked[u].id \in Nat /\ asked[u].id >= next_id /\ asked[u].id < next_id'
    <2> SUFFICES ASSUME NEW u \in DOMAIN asked
                 PROVE  asked[u].id \in Nat /\ asked[u].id >= next_id /\ asked[u].id < next_id'
      OBVIOUS
    <2>1. u \in 1..Len(ok) /\ asked[u].id = next_id + u - 1 /\ next_id' = next_id + Len(ok)
      BY <1>4, <1>5, <1>6, <1>7
    <2>2. \A a, b \in Nat : \A k \in 1..b : a + k - 1 \in Nat /\ a + k - 1 >= a /\ a + k - 1 < a + b
      OBVIOUS
    <2>3. next_id + u - 1 \in Nat /\ next_id + u - 1 >= next_id /\ next_id + u - 1 < next_id + Len(ok)
      BY <1>5, <2>1, <2>2
    <2> QED BY <2>1, <2>3
  <1>9. NewIds(asked)
    <2> SUFFICES ASSUME NEW u \in DOMAIN asked, NEW v \in DOMAIN asked, asked[u].id = asked[v].id PROVE u = v
      BY DEF NewIds
    <2>1. u \in 1..Len(ok) /\ asked[u].id = next_id + u - 1 /\ v \in 1..Len(ok) /\ asked[v].id = next_id + v - 1
      BY <1>5, <1>6, <1>7
    <2>2. \A a, b \in Nat : \A k, m \in 1..b : a + k - 1 = a + m - 1 => k = m
      OBVIOUS
    <2> QED BY <1>5, <2>1, <2>2
  <1>10. \A n \in LoadNodes : \A u \in DOMAIN asked : asked[u].id \notin DOMAIN table[n]
    BY <1>5, <1>8 DEF IdsOK
  <1>11. /\ DOMAIN table' = LoadNodes
         /\ \A m \in LoadNodes : OtherIds(m, asked) /\ OldOrNew(m, asked)
         /\ \A m \in LoadNodes : m # 0 => table'[m] = table[m]
    <2>1. UnknownTo(0, asked) /\ LoadsInto(0, asked)
      BY <1>4, <1>5, <1>10 DEF UnknownTo, LoadsInto
    <2> QED BY <1>5, <1>7, <1>9, <2>1, LoadKeepsTables
  <1>12. next_id' \in Nat /\ next_id <= next_id' /\ \A m \in LoadNodes : \A i \in DOMAIN table'[m] : i \in Nat /\ i < next_id'
    <2>1. next_id' \in Nat /\ next_id <= next_id'
      BY <1>4, <1>5
    <2> QED BY <1>5, <1>8, <1>11, <2>1 DEF OldOrNew
  <1>13. /\ reports' = reports /\ tally' = tally /\ members' = members /\ feErrors' = feErrors /\ lacks' = lacks
    BY DEF load_FilterFuncs
  <1>14. CASE ok = <<>>
    <2>1. fe' = fe /\ asks' = asks /\ verdict' = NoAnswer /\ fe.pc = "idle"
      BY <1>4, <1>14 DEF load_FilterFuncs
    <2>2. LoadTypeOK' /\ Rested'
      BY <1>11, <1>12, <1>13, <2>1 DEF LoadTypeOK, Rested
    <2>3. IdsOK'
      <3>1. \A u \in DOMAIN fe.asked : fe.asked[u].id < next_id'
        <4>1. fe.asked \in Seq(Request)
          BY DEF LoadTypeOK
        <4>2. \A u \in DOMAIN fe.asked : fe.asked[u].id \in Nat
          <5>1. \A u \in DOMAIN fe.asked : fe.asked[u] \in Request
            BY <4>1
          <5> QED BY <5>1 DEF Request
        <4> QED BY <1>5, <1>12, <4>2 DEF IdsOK
      <3> QED BY <1>12, <2>1, <3>1 DEF IdsOK
    <2>4. VerdictOK'
      BY <2>1 DEF VerdictOK, NoAnswer
    <2> QED BY <2>1, <2>2, <2>3, <2>4
  <1>15. CASE ok # <<>>
    <2>1. /\ asks' = AskChildren(0, asked) /\ verdict' = verdict
          /\ fe' = [pc |-> IF members[0] = {} THEN "count" ELSE "sent", asked |-> asked, woken |-> FALSE]
      BY <1>4, <1>15
    <2>2. /\ fe'.pc = (IF LoadKids[0] = {} THEN "count" ELSE "sent") /\ fe'.asked = asked /\ fe'.woken = FALSE
          /\ fe' \in [pc : {"idle", "sent", "wait", "count"}, asked : Seq(Request), woken : BOOLEAN]
      BY <1>5, <1>7, <2>1
    <2>3. DOMAIN asks' = LoadNodes \ {0} /\ \A n \in LoadNodes \ {0} : asks'[n] = IF n \in LoadKids[0] THEN <<asked>> ELSE <<>>
      <3>1. DOMAIN asks = LoadNodes \ {0} /\ \A n \in LoadNodes \ {0} : asks[n] = <<>>
        BY DEF LoadTypeOK, Rested
      <3>2. asks' = [n \in LoadNodes \ {0} |-> IF n \in LoadKids[0] THEN Append(asks[n], asked) ELSE asks[n]]
        BY <1>5, <2>1, <3>1 DEF AskChildren
      <3>3. Append(<<>>, asked) = <<asked>>
        OBVIOUS
      <3> QED BY <3>1, <3>2, <3>3
    <2>4. LoadTypeOK'
      BY <1>11, <1>12, <1>13, <2>2, <2>3 DEF LoadTypeOK
    <2>5. IdsOK'
      BY <1>8, <1>9, <1>12, <2>2 DEF IdsOK, NewIds
    <2>6. VerdictOK'
      <3>1. ASSUME NEW u \in DOMAIN verdict.asked
            PROVE  verdict.asked[u].id < next_id' /\ \A v \in DOMAIN asked : verdict.asked[u].id # asked[v].id
        <4>1. verdict.asked[u] \in Request /\ verdict.asked[u].id < next_id
          BY DEF VerdictOK
        <4>2. verdict.asked[u].id \in Nat
          BY <4>1 DEF Request
        <4> QED BY <1>5, <1>8, <1>12, <4>1, <4>2
      <3> QED BY <1>11, <2>1, <2>2, <3>1, VerdictKept
    <2>7. \A n \in LoadNodes : Lacking(n)' = {u \in DOMAIN asked : <<n, asked[u].func>> \in lacks}
      BY <1>13, <2>2 DEF Lacking
    <2>8. Lacking(0)' = {}
      BY <1>5, <1>6, <1>7, <2>7
    <2>9. Settled(0)'
      <3>1. \A u \in DOMAIN asked :
              IF <<0, asked[u].func>> \in lacks THEN asked[u].id \notin DOMAIN Loaded(0, asked)
              ELSE asked[u].id \in DOMAIN Loaded(0, asked) /\ Loaded(0, asked)[asked[u].id] = asked[u].func
        BY <1>5, <1>7, <1>9, <1>10, LoadsIt
      <3>2. table'[0] = Loaded(0, asked)
        BY <1>4, <1>5 DEF LoadTypeOK
      <3>3. \A u \in DOMAIN asked : <<0, asked[u].func>> \notin lacks
        BY <1>6, <1>7
      <3> QED BY <2>2, <2>8, <3>1, <3>2, <3>3 DEF Settled
    <2>10. FrontEndOK({0}, {})'
      <3>1. Finished({}) <=> LoadKids[0] = {}
        BY DEF Finished
      <3>2. KidsLacking(0, {})' = {}
        BY DEF KidsLacking
      <3>3. LoadKids[0] \cap {} = {} /\ Cardinality(LoadKids[0] \cap {}) = 0
        BY FS_EmptySet
      <3>4. tally'[0].busy = <<>> /\ tally'[0].reported = 0 /\ tally'[0].errors = {} /\ (LoadKids[0] = {} => feErrors' = {})
        BY <1>5, <1>13 DEF Rested
      <3> QED BY <2>2, <2>8, <2>9, <3>1, <3>2, <3>3, <3>4 DEF FrontEndOK, Finished
    <2>11. ASSUME NEW n \in LoadNodes \ {0} PROVE NodeOK(n, {0}, {})'
      <3>1. Asked(n, {0}) <=> n \in LoadKids[0]
        BY <1>5 DEF Asked, IsParent
      <3>2. reports'[n] = <<>> /\ ~Loading(n)'
        BY <1>13 DEF Rested, Loading, IsParent
      <3>3. Untouched(n)'
        BY <1>10, <1>11, <2>2, <2>11 DEF Untouched
      <3>4. asks'[n] = IF Asked(n, {0}) THEN <<fe'.asked>> ELSE <<>>
        BY <2>2, <2>3, <3>1
      <3>5. Unreached(n, {0}, {})'
        BY <3>2, <3>3, <3>4 DEF Unreached
      <3> QED BY <2>11, <3>5 DEF NodeOK
    <2>12. fe'.pc # "idle" /\ fe'.asked # <<>>
      BY <1>5, <1>7, <1>15, <2>2
    <2> QED BY <2>4, <2>5, <2>6, <2>10, <2>11, <2>12 DEF RoundOK
  <1> QED BY <1>14, <1>15

-----------------------------------------------------------------------------
LEMMA LoadInvInit == LoadInit => LoadInv
  <1> SUFFICES ASSUME LoadInit PROVE LoadInv
    OBVIOUS
  <1>1. LoadTypeOK
    <2>1. fe \in [pc : {"idle", "sent", "wait", "count"}, asked : Seq(Request), woken : BOOLEAN]
      BY DEF LoadInit
    <2>2. tally \in [LoadParents -> [reported : Nat, waiting : Nat, errors : SUBSET Nat, busy : Seq(Request)]]
      BY DEF LoadInit
    <2> QED BY <2>1, <2>2 DEF LoadInit, LoadTypeOK, FirstId
  <1>2. IdsOK
    BY DEF LoadInit, IdsOK, NoFuncs
  <1>3. VerdictOK
    BY DEF LoadInit, VerdictOK, NoAnswer
  <1>4. fe.pc = "idle" /\ Rested
    BY LoadAssumption DEF LoadInit, Rested, LoadParents
  <1> QED BY <1>1, <1>2, <1>3, <1>4 DEF LoadInv

LEMMA LoadInvStep == ASSUME LoadInv, LoadNext PROVE LoadInv'
  <1> SUFFICES ASSUME dead' = {}
               PROVE  /\ LoadTypeOK' /\ IdsOK' /\ VerdictOK'
                      /\ IF fe'.pc = "idle" THEN Rested' ELSE fe'.asked # <<>> /\ \E R, C \in SUBSET LoadNodes : RoundOK(R, C)'
    BY DEF LoadInv
  <1>1. dead = {} /\ \A n \in LoadNodes : ~BackEndFails(n) /\ ~remove_Child(n)
    BY DEF LoadNext, load_FilterFuncs, waitOn_ProtEvent, Wakes, Answered, proc_newFilter, LoadHere, proc_FilterLoadEvent,
           BackEnd_newFilter, BackEndFails, remove_Child
  <1>2. /\ LoadTypeOK /\ IdsOK /\ VerdictOK
        /\ IF fe.pc = "idle" THEN Rested ELSE fe.asked # <<>> /\ \E R, C \in SUBSET LoadNodes : RoundOK(R, C)
    BY <1>1 DEF LoadInv
  <1>3. CASE load_FilterFuncs
    <2>1. fe.pc = "idle" /\ Rested
      BY <1>2, <1>3 DEF load_FilterFuncs
    <2>2. {0} \in SUBSET LoadNodes /\ {} \in SUBSET LoadNodes
      BY DEF LoadNodes
    <2>3. /\ LoadTypeOK' /\ IdsOK' /\ VerdictOK'
          /\ IF fe'.pc = "idle" THEN Rested' ELSE fe'.asked # <<>> /\ RoundOK({0}, {})'
      BY <1>2, <1>3, <2>1, CallKeeps
    <2> QED BY <2>2, <2>3
  <1>4. CASE fe.pc = "idle" /\ ~load_FilterFuncs
    <2>1. Rested
      BY <1>2, <1>4
    <2>2. \A n \in LoadNodes \ {0} : asks[n] = <<>> /\ reports[n] = <<>>
      BY <2>1 DEF Rested
    <2>3. \A p \in LoadParents : ~proc_newFilter(p) /\ ~LoadHere(p)
      BY <2>1, <2>2, KidsAreNodes DEF Rested, proc_newFilter, LoadHere
    <2>4. \A p \in LoadParents : \A c \in LoadKids[p] : ~proc_FilterLoadEvent(p, c)
      BY <2>2, KidsAreNodes DEF proc_FilterLoadEvent
    <2>5. \A n \in LoadNodes \ {0} : ~BackEnd_newFilter(n)
      BY <2>2 DEF BackEnd_newFilter
    <2>6. ~waitOn_ProtEvent /\ ~Wakes /\ ~Answered
      BY <1>4 DEF waitOn_ProtEvent, Wakes, Answered
    <2> QED BY <1>1, <1>4, <2>3, <2>4, <2>5, <2>6 DEF LoadNext
  <1>5. CASE fe.pc # "idle"
    <2>1. fe.asked # <<>>
      BY <1>2, <1>5
    <2>2. PICK R, C \in SUBSET LoadNodes : RoundOK(R, C)
      BY <1>2, <1>5
    <2>3. NewIds(fe.asked) /\ fe.asked \in Seq(Request)
      BY <1>2 DEF IdsOK, NewIds, LoadTypeOK
    <2>4. fe \in [pc : {"idle", "sent", "wait", "count"}, asked : Seq(Request), woken : BOOLEAN]
      BY <1>2 DEF LoadTypeOK
    <2>5. FrontEndOK(R, C) /\ \A n \in LoadNodes \ {0} : NodeOK(n, R, C)
      BY <2>2 DEF RoundOK
    \* Only the front-end's own thread moves.
    <2>6. ASSUME asks' = asks, reports' = reports, table' = table, tally' = tally, members' = members, SameRequest,
                 verdict' = verdict, next_id' = next_id, FrontEndOK(R, C)', fe'.pc # "idle",
                 fe' \in [pc : {"idle", "sent", "wait", "count"}, asked : Seq(Request), woken : BOOLEAN]
          PROVE  /\ LoadTypeOK' /\ IdsOK' /\ VerdictOK'
                 /\ IF fe'.pc = "idle" THEN Rested' ELSE fe'.asked # <<>> /\ RoundOK(R, C)'
      <3>1. \A n \in LoadNodes \ {0} : NodeOK(n, R, C)'
        BY <2>5, <2>6, OtherNode
      <3>2. LoadTypeOK' /\ IdsOK' /\ VerdictOK'
        BY <1>2, <1>5, <2>6 DEF LoadTypeOK, IdsOK, VerdictOK, SameRequest
      <3> QED BY <2>1, <2>6, <3>1, <3>2 DEF RoundOK, SameRequest
    <2>7. CASE waitOn_ProtEvent
      <3>1. fe' = [fe EXCEPT !.pc = "wait", !.woken = FALSE] /\ fe.pc = "sent" /\ SameRequest
        BY <2>4, <2>7 DEF waitOn_ProtEvent, SameRequest
      <3>2. fe'.pc = "wait" /\ fe'.woken = FALSE /\ fe' \in [pc : {"idle", "sent", "wait", "count"}, asked : Seq(Request), woken : BOOLEAN]
        BY <2>4, <3>1
      <3>3. Lacking(0)' = Lacking(0) /\ KidsLacking(0, C)' = KidsLacking(0, C)
        BY <3>1, LackingKept
      <3>4. tally' = tally /\ table' = table /\ feErrors' = feErrors /\ early' = early
        BY <2>7 DEF waitOn_ProtEvent
      <3>5. Settled(0)'
        BY <2>5, <3>1, <3>3, <3>4 DEF FrontEndOK, Settled, SameRequest
      <3>6. FrontEndOK(R, C)'
        BY <2>5, <3>1, <3>2, <3>3, <3>4, <3>5 DEF FrontEndOK, Finished
      <3> QED BY <2>6, <2>7, <3>1, <3>2, <3>6 DEF waitOn_ProtEvent
    <2>8. CASE Wakes
      <3>1. fe' = [fe EXCEPT !.pc = "count"] /\ fe.pc = "wait" /\ fe.woken /\ SameRequest
        BY <2>4, <2>8 DEF Wakes, SameRequest
      <3>2. fe'.pc = "count" /\ fe' \in [pc : {"idle", "sent", "wait", "count"}, asked : Seq(Request), woken : BOOLEAN]
        BY <2>4, <3>1
      <3>3. Lacking(0)' = Lacking(0) /\ KidsLacking(0, C)' = KidsLacking(0, C)
        BY <3>1, LackingKept
      <3>4. tally' = tally /\ table' = table /\ feErrors' = feErrors /\ early' = early
        BY <2>8 DEF Wakes
      <3>5. Settled(0)' /\ Finished(C)
        BY <2>5, <3>1, <3>3, <3>4 DEF FrontEndOK, Settled, SameRequest
      <3>6. FrontEndOK(R, C)'
        BY <2>5, <3>1, <3>2, <3>3, <3>4, <3>5 DEF FrontEndOK, Finished
      <3> QED BY <2>6, <2>8, <3>1, <3>2, <3>6 DEF Wakes
    <2>9. CASE Answered
      BY <1>2, <2>2, <2>9, AnswerKeeps
    <2> DEFINE Goal == /\ LoadTypeOK' /\ IdsOK' /\ VerdictOK' /\ fe'.pc # "idle" /\ fe'.asked # <<>>
                       /\ \E R2, C2 \in SUBSET LoadNodes : RoundOK(R2, C2)'
    \* One process loads the request.
    <2>10. ASSUME NEW n \in LoadNodes, Untouched(n), table' = [table EXCEPT ![n] = Loaded(n, fe.asked)],
                  fe' = fe, next_id' = next_id, verdict' = verdict
           PROVE  IdsOK' /\ VerdictOK'
      <3>1. \A m \in LoadNodes : OtherIds(m, fe.asked) /\ OldOrNew(m, fe.asked)
        <4>1. UnknownTo(n, fe.asked) /\ LoadsInto(n, fe.asked)
          BY <2>10 DEF Untouched, UnknownTo, LoadsInto
        <4> QED BY <1>2, <2>3, <4>1, LoadKeepsTables
      <3>2. IdsOK'
        BY <1>2, <2>10, <3>1 DEF IdsOK, OldOrNew
      <3>3. \A u \in DOMAIN verdict.asked : verdict.asked[u].id < next_id' /\ \A v \in DOMAIN fe.asked : verdict.asked[u].id # fe.asked[v].id
        BY <1>2, <1>5, <2>10 DEF VerdictOK
      <3>4. VerdictOK'
        BY <1>2, <2>10, <3>1, <3>3, VerdictKept
      <3> QED BY <3>2, <3>4
    \* No table changes.
    <2>11. ASSUME table' = table, fe'.asked = fe.asked, fe'.pc = fe.pc, next_id' = next_id, verdict' = verdict
           PROVE  IdsOK' /\ VerdictOK'
      BY <1>2, <2>11 DEF IdsOK, VerdictOK
    <2>12. ASSUME NEW p \in LoadParents, proc_newFilter(p) PROVE Goal
      <3>1. RoundOK(R \cup {p}, C)' /\ LoadTypeOK'
        BY <1>2, <2>1, <2>2, <2>12, NewFilterKeeps
      <3>2. R \cup {p} \in SUBSET LoadNodes
        BY KidsAreNodes
      <3>3. fe' = fe /\ table' = table /\ next_id' = next_id /\ verdict' = verdict
        BY <2>12 DEF proc_newFilter
      <3>4. IdsOK' /\ VerdictOK'
        BY <2>11, <3>3
      <3> QED BY <1>5, <2>1, <3>1, <3>2, <3>3, <3>4
    <2>13. ASSUME NEW p \in LoadParents, LoadHere(p) PROVE Goal
      <3>1. RoundOK(R, C)' /\ LoadTypeOK' /\ Untouched(p) /\ table' = [table EXCEPT ![p] = Loaded(p, fe.asked)]
        BY <1>2, <2>2, <2>3, <2>13, LoadHereKeeps
      <3>2. fe' = fe /\ next_id' = next_id /\ verdict' = verdict /\ p \in LoadNodes
        BY <2>13, KidsAreNodes DEF LoadHere
      <3>3. IdsOK' /\ VerdictOK'
        BY <2>10, <3>1, <3>2
      <3> QED BY <1>5, <2>1, <3>1, <3>2, <3>3
    <2>14. ASSUME NEW n \in LoadNodes \ {0}, BackEnd_newFilter(n) PROVE Goal
      <3>1. RoundOK(R \cup {n}, C)' /\ LoadTypeOK' /\ Untouched(n) /\ table' = [table EXCEPT ![n] = Loaded(n, fe.asked)]
        BY <1>2, <2>2, <2>3, <2>14, BackEndKeeps
      <3>2. fe' = fe /\ next_id' = next_id /\ verdict' = verdict /\ R \cup {n} \in SUBSET LoadNodes
        BY <2>14 DEF BackEnd_newFilter
      <3>3. IdsOK' /\ VerdictOK'
        BY <2>10, <3>1, <3>2
      <3> QED BY <1>5, <2>1, <3>1, <3>2, <3>3
    <2>15. ASSUME NEW p \in LoadParents, NEW c \in LoadKids[p], proc_FilterLoadEvent(p, c) PROVE Goal
      <3>1. RoundOK(R, C \cup {c})' /\ LoadTypeOK' /\ fe'.pc = fe.pc /\ fe'.asked = fe.asked
        BY <1>2, <1>5, <2>2, <2>15, ReportKeeps DEF SameRequest
      <3>2. C \cup {c} \in SUBSET LoadNodes
        BY KidsAreNodes
      <3>3. table' = table /\ next_id' = next_id /\ verdict' = verdict
        BY <2>15 DEF proc_FilterLoadEvent
      <3>4. IdsOK' /\ VerdictOK'
        BY <2>11, <3>1, <3>3
      <3> QED BY <1>5, <2>1, <3>1, <3>2, <3>4
    <2>16. ~load_FilterFuncs
      BY <1>5 DEF load_FilterFuncs
    <2>17. Goal => /\ LoadTypeOK' /\ IdsOK' /\ VerdictOK'
                   /\ IF fe'.pc = "idle" THEN Rested' ELSE fe'.asked # <<>> /\ \E R2, C2 \in SUBSET LoadNodes : RoundOK(R2, C2)'
      OBVIOUS
    <2> HIDE DEF Goal
    <2> QED BY <1>1, <2>7, <2>8, <2>9, <2>12, <2>13, <2>14, <2>15, <2>16, <2>17 DEF LoadNext
  <1> QED BY <1>3, <1>4, <1>5

LEMMA LoadInvCorrect == LoadInv => LoadingCorrect
  <1> SUFFICES ASSUME LoadInv PROVE LoadingCorrect
    OBVIOUS
  <1>1. LoadedMeansEverywhere
    BY DEF LoadInv, VerdictOK, LoadedMeansEverywhere
  <1>2. ASSUME fe.pc = "wait", ~fe.woken, ~early, dead = {}
        PROVE  \/ \E n \in LoadNodes \ {0} : asks[n] # <<>> \/ reports[n] # <<>>
               \/ \E p \in LoadParents : tally[p].busy # <<>>
    <2>1. PICK R, C \in SUBSET LoadNodes : RoundOK(R, C)
      BY <1>2 DEF LoadInv
    <2>2. ~Finished(C)
      BY <1>2, <2>1 DEF RoundOK, FrontEndOK
    <2> QED BY <2>1, <2>2, SomebodyWorks
  <1>3. SleeperIsAnswered
    BY <1>2 DEF SleeperIsAnswered
  <1> QED BY <1>1, <1>3 DEF LoadingCorrect

\* load_FilterFuncs is told the truth about every process of the tree, for any tree, any
\* functions and any number of calls, and sleeps only while an answer is on its way, a report
\* came before it slept, or a process has failed.
THEOREM LoadingCorrectTheorem == LoadSpec => []LoadingCorrect
  <1>1. LoadInv /\ UNCHANGED loadVars => LoadInv'
    <2> SUFFICES ASSUME LoadInv, UNCHANGED loadVars PROVE LoadInv'
      OBVIOUS
    <2>1. SameRequest /\ dead' = dead /\ fe' = fe /\ asks' = asks /\ reports' = reports /\ table' = table /\ tally' = tally
      BY DEF loadVars, SameRequest
    <2>2. LoadTypeOK => LoadTypeOK'
      BY DEF loadVars, LoadTypeOK
    <2>3. (IdsOK => IdsOK') /\ (VerdictOK => VerdictOK') /\ (Rested => Rested')
      BY DEF loadVars, IdsOK, VerdictOK, Rested
    <2>4. ASSUME NEW R \in SUBSET LoadNodes, NEW C \in SUBSET LoadNodes, RoundOK(R, C) PROVE RoundOK(R, C)'
      <3>1. \A n \in LoadNodes \ {0} : NodeOK(n, R, C)'
        BY <2>1, <2>4, OtherNode DEF RoundOK
      <3>2. FrontEndOK(R, C) /\ 0 \notin C /\ feErrors' = feErrors /\ (early => early')
        BY <2>4 DEF RoundOK, FrontEndOK, loadVars
      <3>3. FrontEndOK(R, C)'
        BY <2>1, <3>2, OtherFrontEnd
      <3> QED BY <3>1, <3>3 DEF RoundOK
    <2> QED BY <2>1, <2>2, <2>3, <2>4 DEF LoadInv
  <1>2. LoadInv /\ [LoadNext]_loadVars => LoadInv'
    BY <1>1, LoadInvStep
  <1> QED BY <1>2, LoadInvInit, LoadInvCorrect, PTL DEF LoadSpec

-----------------------------------------------------------------------------
\* Sockets

\* Pieces that follow each other from byte a to the one before byte b.
Piece == [at : Nat, n : Nat]
EndOf(p) == p.at + p.n
Contiguous(s, a, b) ==
  /\ s \in Seq(Piece) /\ a \in Nat /\ b \in Nat
  /\ s = <<>> => a = b
  /\ s # <<>> => s[1].at = a /\ EndOf(s[Len(s)]) = b
  /\ \A i \in 1..(Len(s) - 1) : s[i + 1].at = EndOf(s[i])
FirstByte(s, b) == IF s = <<>> THEN b ELSE s[1].at
\* The first byte behind the first ndx buffers.
Behind(ndx) == Sums(Lens)[ndx] + 1
\* Where a batch can begin.
Batched(ndx) == ndx = Len(Lens) \/ \E j \in 0..Len(Lens) : ndx = j * IovMax

SndType == [pc : {"batch", "pieces", "done"}, ndx : 0..Len(Lens), left : Seq(Piece), ret : Nat, part : Nat]
RcvType == [pc : {"batch", "pieces", "done", "failed"}, ndx : 0..Len(Lens), left : Seq(Piece), ret : Int, part : Nat]
ImplType == [out : Impls \cup {"none"}, in : Impls \cup {"none"}, interrupted : BOOLEAN]
Active(w) == w.pc = "batch" \/ w.pc = "pieces"
\* The next byte to move.
Cursor(w) == FirstByte(w.left, Behind(w.ndx))

\* How far an implementation can be with its buffers.
WinShape(w) ==
  /\ w.pc # "pieces"
  /\ w.pc = "batch" => \/ w.ndx = 0 /\ w.left = <<>>
                       \/ w.ndx # 0 /\ w.ndx = Len(Lens) /\ w.left # <<>> /\ w.ret < TotalLen
Shape(how, w) ==
  /\ how = "none" => w = NotStarted
  /\ how = "unix" => Batched(w.ndx) /\ (w.pc = "batch" => w.left = <<>>)
  /\ how = "lightweight" => (w.pc = "batch" => w.ndx = 0 /\ w.left = <<>>) /\ (w.pc = "pieces" => w.ndx = Len(Lens))
  /\ how \in Windows => WinShape(w)

\* What the sender has handed over ends before its next byte, and right there when no writev
\* was interrupted.
SndInv ==
  /\ impl \in ImplType /\ snd \in SndType /\ sent \in Seq(Nat)
  /\ impl.out = "none" => impl.in = "none"
  /\ Len(sent) <= TotalLen /\ WireIsPrefix /\ SendReportsTruth
  /\ Shape(impl.out, snd)
  /\ Active(snd) =>
       /\ Contiguous(snd.left, Cursor(snd), Behind(snd.ndx))
       /\ snd.ret = Len(sent) /\ Len(sent) < Cursor(snd)
       /\ ~impl.interrupted => Len(sent) + 1 = Cursor(snd)

\* The first n bytes of the message are in their places.
Received(n) == [b \in 1..TotalLen |-> IF b <= n THEN b ELSE 0]
\* What was received is the beginning of what was sent, and the next byte goes to its own place.
RcvInv ==
  ~impl.interrupted =>
    /\ rcv \in RcvType /\ consumed \in Nat /\ consumed <= Len(sent)
    /\ mem = Received(consumed)
    /\ Shape(impl.in, rcv)
    /\ Active(rcv) => /\ Contiguous(rcv.left, Cursor(rcv), Behind(rcv.ndx))
                      /\ rcv.ret = consumed /\ consumed + 1 = Cursor(rcv)
    /\ rcv.pc = "done" => rcv.ret = TotalLen /\ consumed = TotalLen
    /\ rcv.pc = "failed" => rcv.ret # TotalLen

SocketRes == {"none", "trying", "unresolved", "connected", "failed", "binding", "listening", "timedOut", "accepted"}
SocketType == [impl : Impls \cup {"none"}, fd : {"none", "open", "closed"}, tries : Nat, res : SocketRes]
DialInv ==
  /\ dial \in SocketType /\ (dial.impl = "none" => dial = NoSocket)
  /\ NumRetry > 0 => dial.tries <= NumRetry /\ (dial.impl = "lightweight" /\ dial.res = "trying" => dial.tries < NumRetry)
  /\ dial.res \in {"trying", "connected"} => dial.fd = "open"
  /\ dial.impl = "unix" /\ dial.res = "failed" => dial.fd # "open"
LstInv ==
  /\ lst \in SocketType /\ (lst.impl = "none" => lst = NoSocket)
  /\ lst.res \in {"binding", "listening", "timedOut", "accepted"} => lst.fd = "open"
  /\ lst.res = "failed" => lst.fd # "open"
  /\ lst.res = "accepted" => dial.res = "connected"
SocketsInv == SndInv /\ RcvInv /\ DialInv /\ LstInv

-----------------------------------------------------------------------------
\* The running totals of a list of lengths.
Summed(s, f) ==
  /\ DOMAIN f = 0..Len(s) /\ f[0] = 0
  /\ \A i \in 1..Len(s) : f[i] = f[i - 1] + s[i]
  /\ \A i \in 0..Len(s) : f[i] \in Nat
  /\ \A i, j \in 0..Len(s) : i <= j => f[i] <= f[j]

\* The recursive definition has a value, and it says what it should.
LEMMA SumsUnfold ==
  ASSUME NEW s \in Seq(Nat)
  PROVE  /\ DOMAIN Sums(s) = 0..Len(s) /\ Sums(s)[0] = 0
         /\ \A i \in 1..Len(s) : Sums(s)[i] = Sums(s)[i - 1] + s[i]
  <1> DEFINE N == Len(s)
             Rec(k, f) == f = [i \in 0..k |-> IF i = 0 THEN 0 ELSE f[i - 1] + s[i]]
             Good(k) == \E f : Rec(k, f)
             S == {k \in Nat : Good(k)}
  <1>0. N \in Nat
    OBVIOUS
  <1>1. Good(0)
    <2> DEFINE f == [i \in 0..0 |-> 0]
    <2>1. Rec(0, f)
      OBVIOUS
    <2> QED BY <2>1
  <1>2. ASSUME NEW k \in Nat, Good(k) PROVE Good(k + 1)
    <2>1. PICK g : Rec(k, g)
      BY <1>2
    <2> DEFINE f == [i \in 0..(k + 1) |-> IF i = k + 1 THEN g[k] + s[k + 1] ELSE g[i]]
    <2>2. ASSUME NEW i \in 0..(k + 1) PROVE f[i] = IF i = 0 THEN 0 ELSE f[i - 1] + s[i]
      <3>1. CASE i = 0
        BY <2>1, <3>1
      <3>2. CASE i # 0 /\ i # k + 1
        <4>1. i - 1 \in 0..k /\ i \in 0..k /\ i - 1 \in 0..(k + 1) /\ i - 1 # k + 1
          BY <3>2
        <4>2. f[i] = g[i] /\ f[i - 1] = g[i - 1]
          BY <4>1, <3>2
        <4>3. g[i] = g[i - 1] + s[i]
          BY <2>1, <4>1, <3>2
        <4> QED BY <4>2, <4>3, <3>2
      <3>3. CASE i = k + 1
        BY <3>3
      <3> QED BY <3>1, <3>2, <3>3
    <2>3. Rec(k + 1, f)
      BY <2>2
    <2> QED BY <2>3
  <1> HIDE DEF Good
  <1>3. Good(N)
    <2>1. 0 \in S
      BY <1>1
    <2>2. \A k \in Nat : k \in S => k + 1 \in S
      BY <1>2
    <2> HIDE DEF S
    <2>3. Nat \subseteq S
      BY <2>1, <2>2, NatInduct
    <2> QED BY <1>0, <2>3 DEF S
  <1> DEFINE total == CHOOSE f : Rec(N, f)
  <1>4. Rec(N, total)
    BY <1>3 DEF Good
  <1>5. Sums(s) = total
    BY DEF Sums
  <1> HIDE DEF total
  <1>6. DOMAIN total = 0..N /\ total[0] = 0 /\ \A i \in 1..N : total[i] = total[i - 1] + s[i]
    BY <1>0, <1>4
  <1> QED BY <1>5, <1>6

LEMMA SumsOK == ASSUME NEW s \in Seq(Nat) PROVE Summed(s, Sums(s))
  <1> DEFINE f == Sums(s)
             N == Len(s)
  <1>1. DOMAIN f = 0..N /\ f[0] = 0 /\ \A i \in 1..N : f[i] = f[i - 1] + s[i]
    BY SumsUnfold
  <1>2. N \in Nat /\ \A i \in 1..N : s[i] \in Nat
    OBVIOUS
  <1> HIDE DEF f, N
  <1>3. \A i \in 0..N : f[i] \in Nat
    <2> DEFINE S == {n \in Nat : n <= N => f[n] \in Nat}
    <2>1. 0 \in S
      BY <1>1
    <2>2. ASSUME NEW n \in Nat, n \in S PROVE n + 1 \in S
      <3>1. CASE n + 1 <= N
        <4>1. n + 1 \in 1..N /\ n <= N /\ (n + 1) - 1 = n
          BY <3>1, <1>2
        <4>2. f[n + 1] = f[n] + s[n + 1]
          BY <4>1, <1>1
        <4> QED BY <4>1, <4>2, <2>2, <1>2
      <3> QED BY <3>1
    <2> HIDE DEF S
    <2>3. Nat \subseteq S
      BY <2>1, <2>2, NatInduct
    <2> QED BY <2>3, <1>2 DEF S
  <1>4. \A i, j \in 0..N : i <= j => f[i] <= f[j]
    <2> SUFFICES ASSUME NEW i \in 0..N PROVE \A j \in 0..N : i <= j => f[i] <= f[j]
      OBVIOUS
    <2> DEFINE S == {d \in Nat : i + d <= N => f[i] <= f[i + d]}
    <2>1. 0 \in S
      BY <1>3, <1>2
    <2>2. ASSUME NEW d \in Nat, d \in S PROVE d + 1 \in S
      <3>1. CASE i + (d + 1) <= N
        <4>1. i + (d + 1) \in 1..N /\ i + d \in 0..N /\ (i + (d + 1)) - 1 = i + d
          BY <3>1, <1>2
        <4>2. f[i + (d + 1)] = f[i + d] + s[i + (d + 1)]
          BY <4>1, <1>1
        <4>3. f[i + d] \in Nat /\ f[i] \in Nat /\ s[i + (d + 1)] \in Nat /\ f[i] <= f[i + d]
          BY <4>1, <1>2, <1>3, <2>2
        <4> QED BY <4>2, <4>3
      <3> QED BY <3>1
    <2> HIDE DEF S
    <2>3. Nat \subseteq S
      BY <2>1, <2>2, NatInduct
    <2>4. ASSUME NEW j \in 0..N, i <= j PROVE f[i] <= f[j]
      <3>1. j - i \in Nat /\ i + (j - i) = j
        BY <2>4, <1>2
      <3>2. j - i \in S
        BY <2>3, <3>1
      <3> QED BY <3>1, <3>2, <1>2 DEF S
    <2> QED BY <2>4
  <1> QED BY <1>1, <1>3, <1>4 DEF Summed, f, N

LEMMA LensSummed == Summed(Lens, Sums(Lens)) /\ Len(Lens) \in Nat /\ TotalLen \in Nat /\ TotalLen = Sums(Lens)[Len(Lens)]
  <1>1. Summed(Lens, Sums(Lens)) /\ Len(Lens) \in Nat
    BY LensAssumption, SumsOK
  <1> QED BY <1>1 DEF Summed, TotalLen

-----------------------------------------------------------------------------
\* The totals of pieces that follow each other are the distances from the first byte.
Measured(s, a, b) ==
  /\ Upto(s)[0] = 0 /\ Size(s) = b - a /\ a <= b /\ Size(s) = Upto(s)[Len(s)]
  /\ \A i \in 0..Len(s) : Upto(s)[i] \in Nat /\ Upto(s)[i] <= Size(s)
  /\ \A i \in 1..Len(s) : Upto(s)[i] = EndOf(s[i]) - a /\ Upto(s)[i - 1] = s[i].at - a
  /\ \A i, j \in 0..Len(s) : i <= j => Upto(s)[i] <= Upto(s)[j]

LEMMA PiecesTyped ==
  ASSUME NEW s \in Seq(Piece)
  PROVE  Len(s) \in Nat /\ \A i \in 1..Len(s) : s[i].at \in Nat /\ s[i].n \in Nat /\ s[i] = [at |-> s[i].at, n |-> s[i].n]
  <1>1. Len(s) \in Nat /\ \A i \in 1..Len(s) : s[i] \in Piece
    OBVIOUS
  <1> QED BY <1>1 DEF Piece

LEMMA ContiguousMeasured ==
  ASSUME NEW s, NEW a, NEW b, Contiguous(s, a, b)
  PROVE  Measured(s, a, b)
  <1> DEFINE lens == [i \in 1..Len(s) |-> s[i].n]
             f == Upto(s)
             N == Len(s)
  <1>1. s \in Seq(Piece) /\ a \in Nat /\ b \in Nat
    BY DEF Contiguous
  <1>2. N \in Nat /\ \A i \in 1..N : s[i].at \in Nat /\ s[i].n \in Nat
    BY <1>1, PiecesTyped
  <1>3. lens \in Seq(Nat) /\ Len(lens) = N /\ \A i \in 1..N : lens[i] = s[i].n
    BY <1>2
  <1>4. Summed(lens, f)
    <2> HIDE DEF lens
    <2>1. Summed(lens, Sums(lens))
      BY <1>3, SumsOK
    <2> QED BY <2>1 DEF Upto, lens
  <1> HIDE DEF lens, f, N
  <1>5. /\ f[0] = 0 /\ \A i \in 1..N : f[i] = f[i - 1] + s[i].n
        /\ \A i \in 0..N : f[i] \in Nat
        /\ \A i, j \in 0..N : i <= j => f[i] <= f[j]
    BY <1>3, <1>4 DEF Summed
  <1>6. \A i \in 1..N : f[i] = EndOf(s[i]) - a /\ f[i - 1] = s[i].at - a
    <2> DEFINE S == {n \in Nat : n + 1 <= N => f[n] = s[n + 1].at - a}
    <2>1. 0 \in S
      <3>1. N >= 1 => s # <<>>
        BY <1>1 DEF N
      <3>2. N >= 1 => s[1].at = a
        BY <3>1 DEF Contiguous
      <3> QED BY <3>2, <1>1, <1>2, <1>5
    <2>2. ASSUME NEW n \in Nat, n \in S PROVE n + 1 \in S
      <3>1. CASE (n + 1) + 1 <= N
        <4>1. n + 1 \in 1..(N - 1) /\ n + 1 \in 1..N /\ (n + 1) + 1 \in 1..N /\ (n + 1) - 1 = n /\ n \in 0..N
          BY <3>1, <1>2
        <4>2. s[(n + 1) + 1].at = EndOf(s[n + 1])
          BY <4>1 DEF Contiguous, N
        <4>3. f[n + 1] = f[n] + s[n + 1].n
          BY <4>1, <1>5
        <4>4. f[n] = s[n + 1].at - a
          BY <2>2, <4>1
        <4>5. s[n + 1].at \in Nat /\ s[n + 1].n \in Nat
          BY <4>1, <1>2
        <4> QED BY <4>2, <4>3, <4>4, <4>5, <1>1 DEF EndOf
      <3> QED BY <3>1
    <2> HIDE DEF S
    <2>3. Nat \subseteq S
      BY <2>1, <2>2, NatInduct
    <2>4. ASSUME NEW i \in 1..N PROVE f[i] = EndOf(s[i]) - a /\ f[i - 1] = s[i].at - a
      <3>1. i - 1 \in Nat /\ (i - 1) + 1 = i /\ i <= N
        BY <1>2
      <3>2. f[i - 1] = s[i].at - a
        BY <2>3, <3>1 DEF S
      <3>3. s[i].at \in Nat /\ s[i].n \in Nat /\ f[i] = f[i - 1] + s[i].n
        BY <1>2, <1>5
      <3> QED BY <3>2, <3>3, <1>1 DEF EndOf
    <2> QED BY <2>4
  <1>7. Size(s) = f[N]
    BY DEF Size, f, N
  <1>8. f[N] = b - a /\ a <= b
    <2>1. CASE N = 0
      <3>1. s = <<>>
        BY <1>1, <2>1 DEF N
      <3>2. a = b
        BY <3>1 DEF Contiguous
      <3> QED BY <2>1, <3>2, <1>1, <1>5
    <2>2. CASE N # 0
      <3>1. s # <<>> /\ N \in 1..N /\ N \in 0..N
        BY <1>1, <1>2, <2>2 DEF N
      <3>2. EndOf(s[N]) = b
        BY <3>1 DEF Contiguous, N
      <3>3. f[N] \in Nat /\ f[N] = b - a
        BY <3>1, <3>2, <1>5, <1>6
      <3> QED BY <3>3, <1>1
    <2> QED BY <2>1, <2>2
  <1>9. \A i \in 0..N : f[i] <= f[N]
    BY <1>2, <1>5
  <1> QED BY <1>5, <1>6, <1>7, <1>8, <1>9 DEF Measured, f, N

-----------------------------------------------------------------------------
\* Every byte is in a piece.
LEMMA ByteInPiece ==
  ASSUME NEW s, NEW a, NEW b, Contiguous(s, a, b), NEW j \in Nat, 0 < j, j <= Size(s)
  PROVE  \E p \in 1..Len(s) : Upto(s)[p - 1] < j /\ j <= Upto(s)[p]
  <1> DEFINE f == Upto(s)
             N == Len(s)
  <1>1. Measured(s, a, b) /\ N \in Nat
    BY ContiguousMeasured, PiecesTyped DEF Contiguous
  <1>2. f[0] = 0 /\ Size(s) = f[N] /\ \A i \in 0..N : f[i] \in Nat
    BY <1>1 DEF Measured
  <1> SUFFICES ASSUME \A p \in 1..N : ~(f[p - 1] < j /\ j <= f[p]) PROVE FALSE
    OBVIOUS
  <1> HIDE DEF f, N
  <1> DEFINE S == {n \in Nat : n <= N => f[n] < j}
  <1>3. 0 \in S
    BY <1>2
  <1>4. ASSUME NEW n \in Nat, n \in S PROVE n + 1 \in S
    <2>1. CASE n + 1 <= N
      <3>1. n + 1 \in 1..N /\ (n + 1) - 1 = n /\ n <= N /\ n + 1 \in 0..N
        BY <2>1, <1>1
      <3>2. f[n] < j /\ f[n + 1] \in Nat
        BY <3>1, <1>4, <1>2
      <3>3. ~(f[n] < j /\ j <= f[n + 1])
        BY <3>1
      <3> QED BY <3>2, <3>3
    <2> QED BY <2>1
  <1> HIDE DEF S
  <1>5. N \in S
    BY <1>1, <1>3, <1>4, NatInduct
  <1>6. f[N] < j /\ f[N] \in Nat
    BY <1>5, <1>1, <1>2 DEF S
  <1> QED BY <1>6, <1>2

\* The bytes of pieces that follow each other are consecutive.
LEMMA BytesConsecutive ==
  ASSUME NEW s, NEW a, NEW b, Contiguous(s, a, b)
  PROVE  Size(s) = b - a /\ a <= b /\ BytesOf(s) = [j \in 1..(b - a) |-> a + j - 1]
  <1>1. Measured(s, a, b) /\ Len(s) \in Nat /\ a \in Nat /\ b \in Nat
    BY ContiguousMeasured, PiecesTyped DEF Contiguous
  <1>2. Size(s) = b - a /\ a <= b
    BY <1>1 DEF Measured
  <1>3. ASSUME NEW j \in 1..Size(s)
        PROVE  (LET i == CHOOSE p \in 1..Len(s) : Upto(s)[p - 1] < j /\ j <= Upto(s)[p]
                IN  s[i].at + (j - Upto(s)[i - 1]) - 1) = a + j - 1
    <2> DEFINE i == CHOOSE p \in 1..Len(s) : Upto(s)[p - 1] < j /\ j <= Upto(s)[p]
    <2>1. j \in Nat /\ 0 < j /\ j <= Size(s)
      BY <1>1, <1>2
    <2>2. i \in 1..Len(s)
      BY <2>1, ByteInPiece
    <2> HIDE DEF i
    <2>3. Upto(s)[i - 1] = s[i].at - a /\ s[i].at \in Nat
      BY <1>1, <2>2, PiecesTyped DEF Measured, Contiguous
    <2>4. s[i].at + (j - Upto(s)[i - 1]) - 1 = a + j - 1
      BY <1>1, <2>1, <2>3
    <2> QED BY <2>4 DEF i
  <1>4. BytesOf(s) = [j \in 1..Size(s) |-> a + j - 1]
    BY <1>3 DEF BytesOf
  <1> QED BY <1>2, <1>4

\* How far the pieces are full when k bytes were moved: to the end when all were.
LEMMA FullOK ==
  ASSUME NEW s, NEW a, NEW b, Contiguous(s, a, b), NEW k \in Nat, k <= b - a
  PROVE  /\ Full(s, k) \in 0..Len(s)
         /\ Upto(s)[Full(s, k)] <= k
         /\ k = b - a => Full(s, k) = Len(s)
         /\ k # b - a => Full(s, k) # Len(s) /\ k < Upto(s)[Full(s, k) + 1]
  <1> DEFINE f == Upto(s)
             N == Len(s)
             Ok(m) == (\A i \in 1..m : f[i] <= k) /\ (m = N \/ f[m + 1] > k)
  <1>1. Measured(s, a, b) /\ N \in Nat /\ a \in Nat /\ b \in Nat
    BY ContiguousMeasured, PiecesTyped DEF Contiguous
  <1>2. f[0] = 0 /\ f[N] = b - a /\ \A i \in 0..N : f[i] \in Nat /\ f[i] <= b - a
    BY <1>1 DEF Measured
  <1>3. \A i, j \in 0..N : i <= j => f[i] <= f[j]
    BY <1>1 DEF Measured
  <1>4. \E m \in 0..N : Ok(m)
    <2>1. CASE k = b - a
      <3>1. Ok(N)
        BY <2>1, <1>1, <1>2
      <3> QED BY <3>1, <1>1
    <2>2. CASE k # b - a
      <3>1. k + 1 \in Nat /\ 0 < k + 1 /\ k + 1 <= Size(s)
        <4>1. Size(s) = b - a
          BY <1>1 DEF Measured
        <4> QED BY <4>1, <2>2, <1>1
      <3>2. PICK p \in 1..N : f[p - 1] < k + 1 /\ k + 1 <= f[p]
        BY <3>1, ByteInPiece
      <3>3. p - 1 \in 0..N /\ (p - 1) + 1 = p /\ p \in 0..N
        BY <1>1
      <3>4. \A i \in 1..(p - 1) : f[i] <= k
        <4> SUFFICES ASSUME NEW i \in 1..(p - 1) PROVE f[i] <= k
          OBVIOUS
        <4>1. i \in 0..N /\ i <= p - 1
          BY <1>1
        <4>2. f[i] <= f[p - 1] /\ f[i] \in Nat /\ f[p - 1] \in Nat
          BY <4>1, <3>3, <1>2, <1>3
        <4> QED BY <4>2, <3>2
      <3>5. f[(p - 1) + 1] > k
        BY <3>2, <3>3, <1>2
      <3>6. Ok(p - 1)
        BY <3>4, <3>5
      <3> QED BY <3>3, <3>6
    <2> QED BY <2>1, <2>2
  <1> DEFINE m == CHOOSE c \in 0..N : Ok(c)
  <1>5. Full(s, k) = m
    BY DEF Full
  <1>6. m \in 0..N /\ Ok(m)
    BY <1>4
  <1> HIDE DEF m
  <1>7. f[m] <= k
    <2>1. CASE m = 0
      BY <2>1, <1>2
    <2>2. CASE m # 0
      <3>1. m \in 1..m
        BY <2>2, <1>6, <1>1
      <3> QED BY <3>1, <1>6
    <2> QED BY <2>1, <2>2
  <1>8. ASSUME k = b - a PROVE m = N
    <2> SUFFICES ASSUME m # N PROVE FALSE
      OBVIOUS
    <2>1. f[m + 1] > k /\ m + 1 \in 0..N
      BY <1>6, <1>1
    <2>2. f[m + 1] \in Nat /\ f[m + 1] <= b - a
      BY <2>1, <1>2
    <2> QED BY <2>1, <2>2, <1>8
  <1>9. ASSUME k # b - a PROVE m # N /\ k < f[m + 1]
    <2>1. m # N
      BY <1>7, <1>9, <1>2, <1>1
    <2>2. m + 1 \in 0..N /\ f[m + 1] > k
      BY <2>1, <1>1, <1>6
    <2>3. f[m + 1] \in Nat
      BY <2>2, <1>2
    <2> QED BY <2>1, <2>2, <2>3
  <1> QED BY <1>5, <1>6, <1>7, <1>8, <1>9

\* What is left after k bytes goes on at the next byte.
LEMMA UnsentContiguous ==
  ASSUME NEW s, NEW a, NEW b, Contiguous(s, a, b), NEW k \in Nat, k <= b - a
  PROVE  /\ Contiguous(unsent(s, k), a + k, b)
         /\ k = b - a => unsent(s, k) = <<>>
         /\ k # b - a => unsent(s, k) # <<>>
  <1> DEFINE N == Len(s)
             m == Full(s, k)
             part == k - Upto(s)[m]
             u == unsent(s, k)
  <1>1. /\ m \in 0..N /\ Upto(s)[m] <= k
        /\ k = b - a => m = N
        /\ k # b - a => m # N /\ k < Upto(s)[m + 1]
    BY FullOK
  <1>2. Measured(s, a, b) /\ N \in Nat /\ a \in Nat /\ b \in Nat /\ s \in Seq(Piece)
    BY ContiguousMeasured, PiecesTyped DEF Contiguous
  <1>3. u = [i \in 1..(N - m) |->
               IF i = 1 THEN [at |-> s[m + 1].at + part, n |-> s[m + 1].n - part] ELSE s[m + i]]
    BY DEF unsent
  <1>4. \A i \in 1..N : s[i].at \in Nat /\ s[i].n \in Nat /\ s[i] \in Piece
    <2>1. \A i \in 1..N : s[i] \in Piece
      BY <1>2
    <2> QED BY <1>2, <2>1, PiecesTyped
  <1>5. part \in Nat
    <2>1. Upto(s)[m] \in Nat
      BY <1>1, <1>2 DEF Measured
    <2> QED BY <2>1, <1>1
  <1> HIDE DEF u, m
  <1>6. CASE k = b - a
    <2>1. u = <<>>
      <3>1. N - m = 0
        BY <1>1, <1>2, <1>6
      <3>2. 1..(N - m) = {}
        BY <3>1
      <3> QED BY <1>3, <3>2
    <2>2. a + k = b /\ a + k \in Nat
      BY <1>2, <1>6
    <2>3. Contiguous(u, a + k, b)
      BY <2>1, <2>2, <1>2 DEF Contiguous
    <2> QED BY <2>1, <2>3, <1>6 DEF u
  <1>7. CASE k # b - a
    <2>1. m + 1 \in 1..N /\ (m + 1) - 1 = m /\ N - m \in Nat /\ 1 <= N - m /\ m \in Nat
      BY <1>1, <1>2, <1>7
    <2>2. s[m + 1].at \in Nat /\ s[m + 1].n \in Nat
      BY <2>1, <1>4
    <2>3. Upto(s)[m] = s[m + 1].at - a /\ Upto(s)[m + 1] = s[m + 1].at + s[m + 1].n - a
      <3>1. \A i \in 1..N : Upto(s)[i] = EndOf(s[i]) - a /\ Upto(s)[i - 1] = s[i].at - a
        BY <1>2 DEF Measured
      <3>2. Upto(s)[m + 1] = EndOf(s[m + 1]) - a /\ Upto(s)[(m + 1) - 1] = s[m + 1].at - a
        BY <2>1, <3>1
      <3> QED BY <2>1, <2>2, <3>2, <1>2 DEF EndOf
    <2>4. part < s[m + 1].n /\ s[m + 1].at + part = a + k
      BY <2>2, <2>3, <1>1, <1>2, <1>7
    <2>5. [at |-> s[m + 1].at + part, n |-> s[m + 1].n - part] \in Piece
      BY <2>2, <2>4, <1>5 DEF Piece
    <2>6. ASSUME NEW i \in 1..(N - m) PROVE u[i] \in Piece /\ m + i \in 1..N
      <3>1. m + i \in 1..N
        BY <2>1, <1>2
      <3> QED BY <3>1, <2>5, <1>3, <1>4
    <2>7. u \in Seq(Piece) /\ Len(u) = N - m
      <3>1. u \in [1..(N - m) -> Piece]
        BY <2>6, <1>3
      <3> QED BY <2>1, <3>1
    <2>8. u # <<>>
      BY <2>1, <2>7
    <2>9. 1 \in 1..(N - m) /\ N - m \in 1..(N - m)
      BY <2>1
    <2>10. u[1].at = a + k
      BY <2>4, <2>9, <1>3
    <2>11. \A i \in 1..(N - m) : EndOf(u[i]) = EndOf(s[m + i])
      <3> SUFFICES ASSUME NEW i \in 1..(N - m) PROVE EndOf(u[i]) = EndOf(s[m + i])
        OBVIOUS
      <3>1. CASE i = 1
        <4>1. u[i].at = s[m + 1].at + part /\ u[i].n = s[m + 1].n - part
          BY <3>1, <1>3
        <4> QED BY <4>1, <3>1, <2>2, <1>5 DEF EndOf
      <3>2. CASE i # 1
        BY <3>2, <1>3
      <3> QED BY <3>1, <3>2
    <2>12. EndOf(u[Len(u)]) = b
      <3>1. EndOf(u[N - m]) = EndOf(s[m + (N - m)])
        BY <2>9, <2>11
      <3>2. m + (N - m) = N /\ s # <<>>
        BY <2>1, <1>2
      <3>3. EndOf(s[N]) = b
        BY <3>2 DEF Contiguous
      <3> QED BY <3>1, <3>2, <3>3, <2>7
    <2>13. ASSUME NEW i \in 1..(Len(u) - 1) PROVE u[i + 1].at = EndOf(u[i])
      <3>1. i \in 1..(N - m) /\ i + 1 \in 1..(N - m) /\ i + 1 # 1 /\ m + i \in 1..(N - 1) /\ m + (i + 1) = (m + i) + 1
        BY <2>1, <2>7, <1>2
      <3>2. u[i + 1] = s[(m + i) + 1]
        BY <3>1, <1>3
      <3>3. s[(m + i) + 1].at = EndOf(s[m + i])
        BY <3>1 DEF Contiguous
      <3> QED BY <3>1, <3>2, <3>3, <2>11
    <2>14. a + k \in Nat
      BY <1>2
    <2>15. Contiguous(u, a + k, b)
      BY <2>7, <2>8, <2>10, <2>12, <2>13, <2>14, <1>2 DEF Contiguous
    <2> QED BY <2>8, <2>15, <1>7 DEF u
  <1> QED BY <1>6, <1>7

-----------------------------------------------------------------------------
LEMMA MinOfTwo ==
  ASSUME NEW x \in Nat, NEW y \in Nat
  PROVE  Min({x, y}) \in Nat /\ Min({x, y}) <= x /\ Min({x, y}) <= y /\ (Min({x, y}) = x \/ Min({x, y}) = y)
  <1> DEFINE S == {x, y}
             Least(c) == \A d \in S : c <= d
  <1>1. \E c \in S : Least(c)
    <2>1. CASE x <= y
      <3>1. Least(x)
        BY <2>1
      <3> QED BY <3>1
    <2>2. CASE y <= x
      <3>1. Least(y)
        BY <2>2
      <3> QED BY <3>1
    <2> QED BY <2>1, <2>2
  <1> DEFINE m == CHOOSE c \in S : Least(c)
  <1>2. m \in S /\ Least(m)
    BY <1>1
  <1>3. Min(S) = m
    BY DEF Min
  <1> HIDE DEF m
  <1>4. m \in Nat /\ m <= x /\ m <= y /\ (m = x \/ m = y)
    BY <1>2
  <1> QED BY <1>3, <1>4

LEMMA AmountOK == ASSUME NEW n \in Nat, NEW k \in Amount(n) PROVE k \in Nat /\ k <= n
  BY DEF Amount

\* Where the buffers lie.
LEMMA BehindOK ==
  /\ \A i \in 0..Len(Lens) : Behind(i) \in Nat /\ Behind(i) <= TotalLen + 1
  /\ \A i, j \in 0..Len(Lens) : i <= j => Behind(i) <= Behind(j)
  /\ \A i \in 1..Len(Lens) : Behind(i) = Behind(i - 1) + Lens[i]
  /\ Behind(0) = 1 /\ Behind(Len(Lens)) = TotalLen + 1
  <1> DEFINE f == Sums(Lens)
             N == Len(Lens)
  <1>0. N \in Nat /\ TotalLen \in Nat /\ TotalLen = f[N] /\ Summed(Lens, f) /\ \A i \in 1..N : Lens[i] \in Nat
    BY LensSummed, LensAssumption
  <1>1. /\ f[0] = 0 /\ \A i \in 1..N : f[i] = f[i - 1] + Lens[i]
        /\ \A i \in 0..N : f[i] \in Nat
        /\ \A i, j \in 0..N : i <= j => f[i] <= f[j]
    BY <1>0 DEF Summed
  <1>2. \A i : Behind(i) = f[i] + 1
    BY DEF Behind
  <1> HIDE DEF f, N
  <1>3. \A i \in 0..N : Behind(i) \in Nat /\ Behind(i) <= TotalLen + 1
    <2> SUFFICES ASSUME NEW i \in 0..N PROVE Behind(i) \in Nat /\ Behind(i) <= TotalLen + 1
      OBVIOUS
    <2>1. f[i] <= f[N] /\ f[i] \in Nat
      BY <1>0, <1>1
    <2> QED BY <2>1, <1>0, <1>2
  <1>4. \A i, j \in 0..N : i <= j => Behind(i) <= Behind(j)
    <2> SUFFICES ASSUME NEW i \in 0..N, NEW j \in 0..N, i <= j PROVE Behind(i) <= Behind(j)
      OBVIOUS
    <2>1. f[i] <= f[j] /\ f[i] \in Nat /\ f[j] \in Nat
      BY <1>1
    <2> QED BY <2>1, <1>2
  <1>5. \A i \in 1..N : Behind(i) = Behind(i - 1) + Lens[i]
    <2> SUFFICES ASSUME NEW i \in 1..N PROVE Behind(i) = Behind(i - 1) + Lens[i]
      OBVIOUS
    <2>1. f[i] = f[i - 1] + Lens[i] /\ Lens[i] \in Nat /\ i - 1 \in 0..N
      BY <1>0, <1>1
    <2>2. f[i - 1] \in Nat
      BY <2>1, <1>1
    <2> QED BY <2>1, <2>2, <1>2
  <1>6. Behind(0) = 1 /\ Behind(N) = TotalLen + 1
    BY <1>0, <1>1, <1>2
  <1> QED BY <1>3, <1>4, <1>5, <1>6 DEF N

LEMMA BuffersContiguous ==
  ASSUME NEW lo \in Nat, NEW hi \in Nat, lo <= hi, hi <= Len(Lens)
  PROVE  Contiguous(Buffers(lo + 1, hi), Behind(lo), Behind(hi)) /\ Len(Buffers(lo + 1, hi)) = hi - lo
  <1> DEFINE s == Buffers(lo + 1, hi)
             N == Len(Lens)
  <1>0. N \in Nat /\ \A i \in 1..N : Lens[i] \in Nat
    BY LensSummed, LensAssumption
  <1>1. s = [k \in 1..(hi - lo) |-> [at |-> Behind(lo + k - 1), n |-> Lens[lo + k]]]
    <2>1. hi - (lo + 1) + 1 = hi - lo
      OBVIOUS
    <2>2. ASSUME NEW k \in 1..(hi - lo)
          PROVE  (lo + 1) + k - 1 = lo + k /\ StartOf(lo + k) = Behind(lo + k - 1)
      <3>1. (lo + 1) + k - 1 = lo + k /\ (lo + k) - 1 = lo + k - 1 /\ lo + k - 1 \in 0..N
        BY <1>0
      <3>2. Sums(Lens)[lo + k - 1] \in Nat
        BY <3>1, LensSummed DEF Summed
      <3> QED BY <3>1, <3>2 DEF StartOf, Behind
    <2> QED BY <2>1, <2>2 DEF Buffers
  <1> HIDE DEF s, N
  <1>2. ASSUME NEW k \in 1..(hi - lo)
        PROVE  /\ s[k] \in Piece /\ s[k].at = Behind(lo + k - 1) /\ EndOf(s[k]) = Behind(lo + k)
    <2>1. lo + k \in 1..N /\ lo + k - 1 \in 0..N /\ (lo + k) - 1 = lo + k - 1
      BY <1>0 DEF N
    <2>2. Behind(lo + k - 1) \in Nat /\ Lens[lo + k] \in Nat /\ Behind(lo + k) = Behind(lo + k - 1) + Lens[lo + k]
      BY <2>1, <1>0, BehindOK DEF N
    <2>3. s[k] = [at |-> Behind(lo + k - 1), n |-> Lens[lo + k]]
      BY <1>1
    <2>4. s[k].at = Behind(lo + k - 1) /\ s[k].n = Lens[lo + k]
      BY <2>3
    <2> QED BY <2>2, <2>3, <2>4 DEF Piece, EndOf
  <1>3. hi - lo \in Nat /\ s \in Seq(Piece) /\ Len(s) = hi - lo
    <2>1. s \in [1..(hi - lo) -> Piece]
      BY <1>1, <1>2
    <2> QED BY <2>1
  <1>4. Behind(lo) \in Nat /\ Behind(hi) \in Nat
    BY <1>0, BehindOK DEF N
  <1>5. s = <<>> => Behind(lo) = Behind(hi)
    <2>1. s = <<>> => hi = lo
      BY <1>3
    <2> QED BY <2>1
  <1>6. s # <<>> => s[1].at = Behind(lo) /\ EndOf(s[Len(s)]) = Behind(hi)
    <2> SUFFICES ASSUME s # <<>> PROVE s[1].at = Behind(lo) /\ EndOf(s[Len(s)]) = Behind(hi)
      OBVIOUS
    <2>1. 1 \in 1..(hi - lo) /\ hi - lo \in 1..(hi - lo) /\ lo + 1 - 1 = lo /\ lo + (hi - lo) = hi
      BY <1>3
    <2> QED BY <2>1, <1>2, <1>3
  <1>7. ASSUME NEW i \in 1..(Len(s) - 1) PROVE s[i + 1].at = EndOf(s[i])
    <2>1. i \in 1..(hi - lo) /\ i + 1 \in 1..(hi - lo) /\ lo + (i + 1) - 1 = lo + i
      BY <1>3
    <2> QED BY <2>1, <1>2
  <1>8. Contiguous(s, Behind(lo), Behind(hi))
    BY <1>3, <1>4, <1>5, <1>6, <1>7 DEF Contiguous
  <1> QED BY <1>3, <1>8 DEF s

LEMMA AllContiguous ==
  Contiguous(Buffers(1, Len(Lens)), 1, TotalLen + 1)
  <1>1. 0 \in Nat /\ Len(Lens) \in Nat /\ 0 <= Len(Lens) /\ Len(Lens) <= Len(Lens) /\ 0 + 1 = 1
    BY LensSummed
  <1>2. Contiguous(Buffers(0 + 1, Len(Lens)), Behind(0), Behind(Len(Lens)))
    BY <1>1, BuffersContiguous
  <1> QED BY <1>1, <1>2, BehindOK

\* The batches, and what they leave: there is something in all of them.
LEMMA NextBatch ==
  ASSUME NEW j \in 0..Len(Lens), j * IovMax < Len(Lens)
  PROVE  /\ Min({j * IovMax + IovMax, Len(Lens)}) \in Nat
         /\ j * IovMax \in Nat /\ j * IovMax < Min({j * IovMax + IovMax, Len(Lens)})
         /\ Min({j * IovMax + IovMax, Len(Lens)}) <= Len(Lens)
         /\ Batched(Min({j * IovMax + IovMax, Len(Lens)}))
  <1> DEFINE N == Len(Lens)
             hi == Min({j * IovMax + IovMax, N})
  <1>0. N \in Nat /\ IovMax \in Nat /\ IovMax >= 1 /\ j \in Nat
    BY LensSummed, LensAssumption
  <1>1. j * IovMax \in Nat /\ j * IovMax + IovMax \in Nat
    BY <1>0
  <1> HIDE DEF hi, N
  <1>2. hi \in Nat /\ hi <= j * IovMax + IovMax /\ hi <= N /\ (hi = j * IovMax + IovMax \/ hi = N)
    <2>1. \A x \in Nat : x = j * IovMax + IovMax => Min({x, N}) \in Nat /\ Min({x, N}) <= x /\ Min({x, N}) <= N /\ (Min({x, N}) = x \/ Min({x, N}) = N)
      BY <1>0, MinOfTwo
    <2> QED BY <1>1, <2>1 DEF hi
  <1>3. j * IovMax < hi
    <2>1. j * IovMax < N
      BY DEF N
    <2> QED BY <1>0, <1>1, <1>2, <2>1
  <1>4. Batched(hi)
    <2>1. CASE hi = N
      BY <2>1 DEF Batched, N
    <2>2. CASE hi = j * IovMax + IovMax
      <3>1. hi = (j + 1) * IovMax
        <4>1. \A x, y \in Nat : (x + 1) * y = x * y + y
          OBVIOUS
        <4> QED BY <4>1, <2>2, <1>0
      <3>2. j + 1 <= (j + 1) * IovMax
        <4>1. \A x, y \in Nat : y >= 1 => x <= x * y
          <5> SUFFICES ASSUME NEW x \in Nat, NEW y \in Nat, y >= 1 PROVE x <= x * y
            OBVIOUS
          <5>1. y - 1 \in Nat /\ x * y = x * (y - 1) + x
            OBVIOUS
          <5>2. x * (y - 1) \in Nat
            BY <5>1
          <5> QED BY <5>1, <5>2
        <4> QED BY <4>1, <1>0
      <3>3. j + 1 \in 0..N
        BY <3>1, <3>2, <1>0, <1>2
      <3> QED BY <3>1, <3>3 DEF Batched, N
    <2> QED BY <2>1, <2>2, <1>2
  <1> QED BY <1>1, <1>2, <1>3, <1>4 DEF hi, N

BatchOK(ndx) ==
  /\ Batched(ndx + Len(Batch(ndx))) /\ ndx + Len(Batch(ndx)) \in 0..Len(Lens) /\ ndx < ndx + Len(Batch(ndx))
  /\ Contiguous(Batch(ndx), Behind(ndx), Behind(ndx + Len(Batch(ndx))))

LEMMA BatchContiguous ==
  ASSUME NEW ndx \in 0..Len(Lens), Batched(ndx), ndx < Len(Lens)
  PROVE  BatchOK(ndx)
  <1>0. Len(Lens) \in Nat /\ ndx \in Nat
    BY LensSummed
  <1>1. PICK j \in 0..Len(Lens) : ndx = j * IovMax
    BY <1>0 DEF Batched
  <1> DEFINE hi == Min({ndx + IovMax, Len(Lens)})
  <1>2. hi \in Nat /\ ndx < hi /\ hi <= Len(Lens) /\ Batched(hi)
    BY <1>1, NextBatch
  <1>3. Batch(ndx) = Buffers(ndx + 1, hi)
    BY DEF Batch
  <1> HIDE DEF hi
  <1>4. Contiguous(Buffers(ndx + 1, hi), Behind(ndx), Behind(hi)) /\ Len(Buffers(ndx + 1, hi)) = hi - ndx
    BY <1>0, <1>2, BuffersContiguous
  <1>5. ndx + Len(Batch(ndx)) = hi
    BY <1>0, <1>2, <1>3, <1>4
  <1>6. hi \in 0..Len(Lens)
    BY <1>0, <1>2
  <1> QED BY <1>2, <1>3, <1>4, <1>5, <1>6 DEF BatchOK

LEMMA BytesRemain ==
  ASSUME NEW ndx \in 0..Len(Lens), Batched(ndx), ndx < Len(Lens)
  PROVE  Behind(ndx) <= TotalLen
  <1>0. Len(Lens) \in Nat /\ ndx \in Nat /\ TotalLen \in Nat
    BY LensSummed
  <1>1. PICK j \in 0..Len(Lens) : ndx = j * IovMax
    BY <1>0 DEF Batched
  <1>2. PICK i \in 1..Len(Lens) : ndx < i /\ Lens[i] > 0
    BY <1>1, LensAssumption
  <1>3. i - 1 \in 0..Len(Lens) /\ ndx <= i - 1 /\ i \in 0..Len(Lens)
    BY <1>0, <1>2
  <1>4. Behind(ndx) <= Behind(i - 1) /\ Behind(i) = Behind(i - 1) + Lens[i] /\ Behind(i) <= TotalLen + 1
    BY <1>3, BehindOK
  <1>5. Behind(ndx) \in Nat /\ Behind(i - 1) \in Nat /\ Lens[i] \in Nat
    BY <1>3, BehindOK, LensAssumption
  <1> QED BY <1>0, <1>2, <1>4, <1>5

LEMMA BatchedZero == Batched(0) /\ 0 \in 0..Len(Lens)
  <1>1. Len(Lens) \in Nat /\ IovMax \in Nat
    BY LensSummed, LensAssumption
  <1>2. 0 = 0 * IovMax /\ 0 \in 0..Len(Lens)
    BY <1>1
  <1> QED BY <1>2 DEF Batched

-----------------------------------------------------------------------------
\* k of the bytes of s, which are those from a on, were moved: `left' goes on at the next byte
\* and ends before byte b.
Moved(left, a, b, k) == Contiguous(left, a + k, b) /\ FirstByte(left, b) = a + k

LEMMA FirstByteOK == ASSUME NEW s, NEW a, NEW b, Contiguous(s, a, b) PROVE FirstByte(s, b) = a
  BY DEF Contiguous, FirstByte

LEMMA UnsentMoved ==
  ASSUME NEW s, NEW a, NEW b, Contiguous(s, a, b), NEW k \in Nat, k <= Size(s)
  PROVE  Moved(unsent(s, k), a, b, k) /\ (unsent(s, k) = <<>> <=> k = Size(s)) /\ Size(s) = b - a
  <1>1. Size(s) = b - a
    BY BytesConsecutive
  <1>2. k <= b - a
    BY <1>1
  <1>3. Contiguous(unsent(s, k), a + k, b) /\ (unsent(s, k) = <<>> <=> k = b - a)
    BY <1>2, UnsentContiguous
  <1> QED BY <1>1, <1>3, FirstByteOK DEF Moved

\* The first piece and the others.
LEMMA HeadContiguous ==
  ASSUME NEW s, NEW a, NEW b, Contiguous(s, a, b), s # <<>>
  PROVE  /\ Contiguous(<<Head(s)>>, a, EndOf(Head(s))) /\ Contiguous(Tail(s), EndOf(Head(s)), b)
         /\ Size(<<Head(s)>>) = Head(s).n /\ Head(s).n \in Nat /\ EndOf(Head(s)) = a + Head(s).n /\ EndOf(Head(s)) <= b
  <1> DEFINE p == Head(s)
             t == Tail(s)
             N == Len(s)
             h == <<p>>
  <1>1. s \in Seq(Piece) /\ a \in Nat /\ b \in Nat /\ N \in Nat /\ N >= 1
    BY DEF Contiguous
  <1>2. p = s[1] /\ p \in Piece /\ p.at \in Nat /\ p.n \in Nat
    <2>1. p = s[1] /\ 1 \in 1..N
      BY <1>1
    <2>2. s[1] \in Piece
      BY <1>1, <2>1
    <2> QED BY <2>1, <2>2 DEF Piece
  <1>3. p.at = a /\ EndOf(p) = a + p.n /\ EndOf(p) \in Nat /\ EndOf(s[N]) = b
    BY <1>1, <1>2 DEF Contiguous, EndOf
  <1>4. \A i \in 1..(N - 1) : s[i + 1].at = EndOf(s[i])
    BY DEF Contiguous
  <1>5. t \in Seq(Piece) /\ Len(t) = N - 1 /\ \A i \in 1..(N - 1) : t[i] = s[i + 1]
    BY <1>1
  <1>6. h \in Seq(Piece) /\ Len(h) = 1 /\ h[1] = p /\ h # <<>>
    BY <1>2
  <1> HIDE DEF p, t, N, h
  <1>7. Contiguous(h, a, EndOf(p))
    <2>1. 1..(Len(h) - 1) = {}
      BY <1>6
    <2> QED BY <2>1, <1>1, <1>3, <1>6 DEF Contiguous
  <1>8. Contiguous(t, EndOf(p), b)
    <2>1. CASE N = 1
      <3>1. t = <<>>
        BY <2>1, <1>5
      <3>2. 1..(Len(t) - 1) = {}
        BY <2>1, <1>5
      <3>3. EndOf(p) = b
        BY <2>1, <1>2, <1>3
      <3> QED BY <3>1, <3>2, <3>3, <1>1, <1>3, <1>5 DEF Contiguous
    <2>2. CASE N # 1
      <3>1. 1 \in 1..(N - 1) /\ N - 1 \in 1..(N - 1) /\ (N - 1) + 1 = N /\ t # <<>>
        BY <2>2, <1>1, <1>5
      <3>2. t[1].at = EndOf(p) /\ EndOf(t[Len(t)]) = b
        BY <3>1, <1>2, <1>3, <1>4, <1>5
      <3>3. ASSUME NEW i \in 1..(Len(t) - 1) PROVE t[i + 1].at = EndOf(t[i])
        <4>1. i \in 1..(N - 1) /\ i + 1 \in 1..(N - 1)
          BY <1>1, <1>5
        <4> QED BY <4>1, <1>4, <1>5
      <3> QED BY <3>1, <3>2, <3>3, <1>1, <1>3, <1>5 DEF Contiguous
    <2> QED BY <2>1, <2>2
  <1>9. Size(h) = EndOf(p) - a /\ EndOf(p) <= b
    BY <1>7, <1>8, BytesConsecutive
  <1>10. Size(h) = p.n
    BY <1>9, <1>1, <1>2, <1>3
  <1> QED BY <1>2, <1>3, <1>7, <1>8, <1>9, <1>10 DEF p, t, h

LEMMA ConcatContiguous ==
  ASSUME NEW s, NEW t, NEW a, NEW m, NEW b, Contiguous(s, a, m), Contiguous(t, m, b)
  PROVE  Contiguous(s \o t, a, b)
  <1> DEFINE c == s \o t
             N == Len(s)
             M == Len(t)
  <1>1. s \in Seq(Piece) /\ t \in Seq(Piece) /\ a \in Nat /\ b \in Nat /\ m \in Nat /\ N \in Nat /\ M \in Nat
    BY DEF Contiguous
  <1>2. c \in Seq(Piece) /\ Len(c) = N + M /\ \A i \in 1..(N + M) : c[i] = IF i <= N THEN s[i] ELSE t[i - N]
    BY <1>1
  <1>3. CASE s = <<>>
    <2>1. c = t /\ a = m
      BY <1>1, <1>3 DEF Contiguous
    <2> QED BY <2>1
  <1>4. CASE t = <<>>
    <2>1. c = s /\ b = m
      BY <1>1, <1>4 DEF Contiguous
    <2> QED BY <2>1
  <1>5. CASE s # <<>> /\ t # <<>>
    <2>1. N >= 1 /\ M >= 1
      BY <1>1, <1>5
    <2>2. s[1].at = a /\ EndOf(s[N]) = m /\ t[1].at = m /\ EndOf(t[M]) = b
      BY <1>5 DEF Contiguous
    <2>3. (\A i \in 1..(N - 1) : s[i + 1].at = EndOf(s[i])) /\ (\A i \in 1..(M - 1) : t[i + 1].at = EndOf(t[i]))
      BY DEF Contiguous
    <2> HIDE DEF c, N, M
    <2>4. c # <<>>
      BY <1>1, <1>2, <2>1
    <2>5. c[1] = s[1] /\ c[N + M] = t[M]
      <3>1. 1 \in 1..(N + M) /\ 1 <= N /\ N + M \in 1..(N + M) /\ ~(N + M <= N) /\ (N + M) - N = M
        BY <1>1, <2>1
      <3> QED BY <3>1, <1>2
    <2>6. ASSUME NEW i \in 1..(Len(c) - 1) PROVE c[i + 1].at = EndOf(c[i])
      <3>1. i \in Nat /\ i \in 1..(N + M) /\ i + 1 \in 1..(N + M)
        BY <1>1, <1>2
      <3>2. CASE i + 1 <= N
        <4>1. i \in 1..(N - 1) /\ i <= N
          BY <3>1, <3>2, <1>1
        <4> QED BY <4>1, <3>1, <3>2, <1>2, <2>3
      <3>3. CASE i = N
        <4>1. ~(i + 1 <= N) /\ (i + 1) - N = 1 /\ i <= N
          BY <3>1, <3>3, <1>1
        <4> QED BY <4>1, <3>1, <3>3, <1>2, <2>2
      <3>4. CASE i > N
        <4>1. ~(i + 1 <= N) /\ ~(i <= N) /\ (i + 1) - N = (i - N) + 1 /\ i - N \in 1..(M - 1)
          BY <3>1, <3>4, <1>1
        <4>2. c[i + 1] = t[(i - N) + 1] /\ c[i] = t[i - N]
          BY <4>1, <3>1, <1>2
        <4> QED BY <4>1, <4>2, <2>3
      <3> QED BY <3>1, <3>2, <3>3, <3>4, <1>1
    <2>7. Contiguous(c, a, b)
      BY <1>1, <1>2, <2>2, <2>4, <2>5, <2>6 DEF Contiguous
    <2> QED BY <2>7 DEF c
  <1> QED BY <1>3, <1>4, <1>5

\* send and recv go on with the first piece.
LEMMA PieceMoved ==
  ASSUME NEW s, NEW a, NEW b, Contiguous(s, a, b), s # <<>>, NEW k \in Nat, k <= Head(s).n
  PROVE  Moved(unsent(<<Head(s)>>, k) \o Tail(s), a, b, k)
  <1> DEFINE p == Head(s)
             h == <<p>>
  <1>1. /\ Contiguous(h, a, EndOf(p)) /\ Contiguous(Tail(s), EndOf(p), b)
        /\ Size(h) = p.n
    BY HeadContiguous
  <1> HIDE DEF p, h
  <1>2. k <= Size(h)
    BY <1>1 DEF p
  <1>3. Contiguous(unsent(h, k), a + k, EndOf(p))
    BY <1>1, <1>2, UnsentMoved DEF Moved
  <1>4. Contiguous(unsent(h, k) \o Tail(s), a + k, b)
    BY <1>1, <1>3, ConcatContiguous
  <1> QED BY <1>4, FirstByteOK DEF Moved, p, h

-----------------------------------------------------------------------------
\* The kernel takes bytes that follow those it has.
LEMMA TakeOK ==
  ASSUME NEW s, NEW a, NEW b, Contiguous(s, a, b), NEW k \in Nat, k <= Size(s), Take(s, k), sent \in Seq(Nat)
  PROVE  /\ sent' \in Seq(Nat) /\ Len(sent') = Len(sent) + k
         /\ sent = [i \in 1..Len(sent) |-> i] /\ Len(sent) + 1 = a => sent' = [i \in 1..Len(sent') |-> i]
  <1> DEFINE B == BytesOf(s)
             u == SubSeq(B, 1, k)
             N == Len(sent)
  <1>0. N \in Nat /\ a \in Nat /\ b \in Nat
    BY DEF Contiguous
  <1>1. Size(s) = b - a /\ a <= b /\ B = [j \in 1..(b - a) |-> a + j - 1]
    BY BytesConsecutive
  <1>2. b - a \in Nat /\ \A j \in 1..(b - a) : a + j - 1 \in Nat
    BY <1>0, <1>1
  <1>3. B \in Seq(Nat) /\ Len(B) = b - a
    BY <1>1, <1>2
  <1>4. \A j \in 1..(b - a) : B[j] = a + j - 1
    BY <1>1
  <1> HIDE DEF B
  <1>5. u \in Seq(Nat) /\ Len(u) = k /\ \A i \in 1..k : u[i] = B[i]
    BY <1>0, <1>1, <1>3
  <1>6. sent' = sent \o u
    BY DEF Take, B
  <1> HIDE DEF u
  <1>7. sent' \in Seq(Nat) /\ Len(sent') = N + k /\ \A i \in 1..(N + k) : sent'[i] = IF i <= N THEN sent[i] ELSE u[i - N]
    <2>1. u \in Seq(Nat) /\ sent \in Seq(Nat) /\ N = Len(sent) /\ Len(u) = k
      BY <1>5
    <2> HIDE DEF N
    <2>2. (sent \o u) \in Seq(Nat) /\ Len(sent \o u) = N + k
      BY <2>1
    <2>3. \A i \in 1..(N + k) : (sent \o u)[i] = IF i <= N THEN sent[i] ELSE u[i - N]
      BY <2>1
    <2> QED BY <1>6, <2>2, <2>3
  <1> HIDE DEF N
  <1>8. ASSUME sent = [i \in 1..N |-> i], N + 1 = a PROVE sent' = [i \in 1..Len(sent') |-> i]
    <2>1. ASSUME NEW i \in 1..(N + k) PROVE sent'[i] = i
      <3>1. CASE i <= N
        <4>1. i \in 1..N
          BY <3>1, <1>0
        <4>2. sent[i] = i
          BY <4>1, <1>8
        <4> QED BY <3>1, <4>2, <1>7
      <3>2. CASE ~(i <= N)
        <4>1. i - N \in 1..k /\ i - N \in 1..(b - a) /\ a + (i - N) - 1 = i
          <5>1. k <= b - a /\ N + 1 = a /\ i \in Nat /\ i <= N + k
            BY <1>0, <1>1, <1>8
          <5> QED BY <3>2, <5>1, <1>0, <1>1
        <4> QED BY <4>1, <3>2, <1>4, <1>5, <1>7
      <3> QED BY <3>1, <3>2
    <2>2. sent' = [i \in 1..Len(sent') |-> sent'[i]]
      BY <1>7
    <2> QED BY <1>7, <2>1, <2>2
  <1> QED BY <1>7, <1>8 DEF N

LEMMA StoreOK ==
  ASSUME NEW s, NEW e, Contiguous(s, consumed + 1, e), NEW k \in Nat, k <= Size(s), Store(s, k),
         consumed \in Nat, sent \in Seq(Nat), consumed + k <= Len(sent),
         sent = [i \in 1..Len(sent) |-> i], mem = Received(consumed)
  PROVE  consumed' = consumed + k /\ mem' = Received(consumed + k)
  <1> DEFINE P == BytesOf(s)
             a == consumed + 1
             val(b) == IF \E i \in 1..k : P[i] = b THEN sent[consumed + (CHOOSE i \in 1..k : P[i] = b)] ELSE mem[b]
  <1>0. Len(sent) \in Nat /\ TotalLen \in Nat /\ e \in Nat /\ a \in Nat
    BY LensSummed DEF Contiguous
  <1>1. Size(s) = e - a /\ a <= e /\ P = [j \in 1..(e - a) |-> a + j - 1]
    BY BytesConsecutive
  <1>2. \A i \in 1..k : P[i] = consumed + i
    <2> SUFFICES ASSUME NEW i \in 1..k PROVE P[i] = consumed + i
      OBVIOUS
    <2>1. i \in 1..(e - a) /\ a + i - 1 = consumed + i
      BY <1>0, <1>1
    <2> QED BY <1>1, <2>1
  <1>3. consumed' = consumed + k /\ mem' = [b \in 1..TotalLen |-> val(b)]
    BY DEF Store
  <1> HIDE DEF P, a
  <1>4. ASSUME NEW b \in 1..TotalLen PROVE val(b) = IF b <= consumed + k THEN b ELSE 0
    <2>1. CASE \E i \in 1..k : P[i] = b
      <3> DEFINE c == CHOOSE i \in 1..k : P[i] = b
      <3>1. c \in 1..k /\ P[c] = b
        BY <2>1
      <3>2. val(b) = sent[consumed + c]
        BY <2>1
      <3> HIDE DEF c
      <3>3. consumed + c = b /\ c <= k /\ c \in Nat /\ 1 <= c
        BY <3>1, <1>2
      <3>4. b \in 1..Len(sent) /\ b <= consumed + k
        BY <3>3, <1>0
      <3>5. sent[b] = b
        BY <3>4
      <3> QED BY <3>2, <3>3, <3>4, <3>5
    <2>2. CASE ~\E i \in 1..k : P[i] = b
      <3>1. val(b) = mem[b]
        BY <2>2
      <3>2. mem[b] = IF b <= consumed THEN b ELSE 0
        BY DEF Received
      <3>3. b <= consumed + k => b <= consumed
        <4> SUFFICES ASSUME b <= consumed + k, b > consumed PROVE FALSE
          BY <1>0
        <4>1. b - consumed \in 1..k /\ consumed + (b - consumed) = b
          BY <1>0
        <4> QED BY <4>1, <2>2, <1>2
      <3>4. b <= consumed => b <= consumed + k
        BY <1>0
      <3> QED BY <3>1, <3>2, <3>3, <3>4
    <2> QED BY <2>1, <2>2
  <1> HIDE DEF val
  <1>5. mem' = Received(consumed + k)
    BY <1>3, <1>4 DEF Received
  <1> QED BY <1>3, <1>5

-----------------------------------------------------------------------------
\* A transfer w has moved k more bytes and is v now.
Stepped(how, w, v, k) ==
  /\ v.ndx \in 0..Len(Lens) /\ v.left \in Seq(Piece) /\ Shape(how, v)
  /\ Moved(v.left, Cursor(w), Behind(v.ndx), k)

\* ... by writev or recvmsg
LEMMA BatchStepped ==
  ASSUME NEW w, NEW v, NEW k \in Nat, w.ndx \in 0..Len(Lens), Shape("unix", w), w.pc = "batch", w.ndx < Len(Lens),
         k <= Size(Batch(w.ndx)), v.pc = IF k = Size(Batch(w.ndx)) THEN "batch" ELSE "pieces",
         v.ndx = w.ndx + Len(Batch(w.ndx)), v.left = unsent(Batch(w.ndx), k)
  PROVE  Stepped("unix", w, v, k) /\ Contiguous(Batch(w.ndx), Cursor(w), Behind(v.ndx))
  <1> DEFINE B == Batch(w.ndx)
  <1>1. Batched(w.ndx) /\ w.left = <<>>
    BY DEF Shape
  <1>2. Cursor(w) = Behind(w.ndx)
    BY <1>1 DEF Cursor, FirstByte
  <1>3. BatchOK(w.ndx)
    BY <1>1, BatchContiguous
  <1>4. Contiguous(B, Cursor(w), Behind(v.ndx)) /\ Batched(v.ndx) /\ v.ndx \in 0..Len(Lens)
    BY <1>2, <1>3 DEF BatchOK
  <1> HIDE DEF B
  <1>5. Moved(unsent(B, k), Cursor(w), Behind(v.ndx), k) /\ (unsent(B, k) = <<>> <=> k = Size(B))
    <2>1. k <= Size(B)
      BY DEF B
    <2> QED BY <1>4, <2>1, UnsentMoved
  <1>6. v.left \in Seq(Piece)
    BY <1>5 DEF Moved, Contiguous, B
  <1>7. v.pc = "batch" => v.left = <<>>
    BY <1>5 DEF B
  <1>8. Shape("unix", v)
    BY <1>4, <1>7 DEF Shape, Windows
  <1> QED BY <1>4, <1>5, <1>6, <1>8 DEF Stepped, B

\* ... by send or recv
LEMMA PieceStepped ==
  ASSUME NEW how, how = "unix" \/ how = "lightweight", NEW w, NEW v, NEW k \in Nat, w.ndx \in 0..Len(Lens), Shape(how, w), w.pc = "pieces",
         w.left # <<>>, Contiguous(w.left, Cursor(w), Behind(w.ndx)), k <= Head(w.left).n,
         v.pc = w.pc, v.ndx = w.ndx, v.left = unsent(<<Head(w.left)>>, k) \o Tail(w.left)
  PROVE  Stepped(how, w, v, k)
  <1>1. Moved(v.left, Cursor(w), Behind(v.ndx), k)
    BY PieceMoved
  <1>2. v.left \in Seq(Piece)
    BY <1>1 DEF Moved, Contiguous
  <1>3. Shape(how, v)
    BY DEF Shape, Windows
  <1> QED BY <1>1, <1>2, <1>3 DEF Stepped

\* ... by WSASend or WSARecv
WinLeft(w) == IF w.ndx = 0 THEN Buffers(1, Len(Lens)) ELSE w.left
LEMMA WinLeftContiguous ==
  ASSUME NEW w, WinShape(w), w.pc = "batch", w.ndx \in 0..Len(Lens), Contiguous(w.left, Cursor(w), Behind(w.ndx))
  PROVE  Contiguous(WinLeft(w), Cursor(w), TotalLen + 1)
  <1>1. CASE w.ndx = 0
    <2>1. w.left = <<>>
      BY <1>1 DEF WinShape
    <2>2. Cursor(w) = 1
      BY <1>1, <2>1, BehindOK DEF Cursor, FirstByte
    <2> QED BY <1>1, <2>2, AllContiguous DEF WinLeft
  <1>2. CASE w.ndx # 0
    <2>1. w.ndx = Len(Lens)
      BY <1>2 DEF WinShape
    <2> QED BY <1>2, <2>1, BehindOK DEF WinLeft
  <1> QED BY <1>1, <1>2

LEMMA WinStepped ==
  ASSUME NEW how, how \in Windows, NEW w, NEW v, NEW k \in Nat, w.ndx \in 0..Len(Lens), Shape(how, w), w.pc = "batch",
         Contiguous(w.left, Cursor(w), Behind(w.ndx)), w.ret \in Nat, w.ret < Cursor(w), k <= Size(WinLeft(w)),
         v.pc = IF k = Size(WinLeft(w)) THEN "done" ELSE "batch",
         v.ndx = Len(Lens), v.left = unsent(WinLeft(w), k), v.ret = w.ret + k
  PROVE  Stepped(how, w, v, k) /\ (v.pc = "done" => Cursor(w) + k = TotalLen + 1)
  <1> DEFINE L == WinLeft(w)
             a == Cursor(w)
  <1>0. TotalLen \in Nat /\ Len(Lens) \in Nat
    BY LensSummed
  <1>1. Contiguous(L, a, TotalLen + 1)
    BY WinLeftContiguous DEF Shape
  <1>2. a \in Nat
    BY <1>1 DEF Contiguous
  <1> HIDE DEF L, a
  <1>3. Moved(unsent(L, k), a, TotalLen + 1, k) /\ (unsent(L, k) = <<>> <=> k = Size(L)) /\ Size(L) = (TotalLen + 1) - a
    <2>1. k <= Size(L)
      BY DEF L
    <2> QED BY <1>1, <2>1, UnsentMoved
  <1>4. Behind(v.ndx) = TotalLen + 1 /\ v.ndx \in 0..Len(Lens)
    BY <1>0, BehindOK
  <1>5. v.left \in Seq(Piece) /\ v.left = unsent(L, k)
    BY <1>3 DEF Moved, Contiguous, L
  <1>6. v.pc = "done" => a + k = TotalLen + 1
    <2>1. v.pc = "done" => k = Size(L)
      BY DEF L
    <2> QED BY <2>1, <1>0, <1>2, <1>3
  <1>7. ASSUME v.pc = "batch" PROVE v.ndx # 0 /\ v.left # <<>> /\ v.ret < TotalLen
    <2>1. k # Size(L) /\ k <= Size(L)
      BY <1>7 DEF L
    <2>2. a + k <= TotalLen
      BY <2>1, <1>0, <1>2, <1>3
    <2>3. v.ret < TotalLen
      BY <2>2, <1>0, <1>2 DEF a
    <2>4. TotalLen # 0
      BY <2>3, <1>0
    <2>5. v.ndx # 0
      BY <2>4, <1>0, <1>4, BehindOK
    <2> QED BY <2>1, <2>3, <2>5, <1>3, <1>5
  <1>8. WinShape(v)
    BY <1>7 DEF WinShape
  <1>9. Shape(how, v)
    BY <1>8 DEF Shape, Windows
  <1> QED BY <1>3, <1>4, <1>5, <1>6, <1>9 DEF Stepped, a

-----------------------------------------------------------------------------
\* The sender goes on by k bytes.
SndMoves(a, k) ==
  /\ impl' = impl /\ sent' \in Seq(Nat) /\ Len(sent') = Len(sent) + k
  /\ sent = [i \in 1..Len(sent) |-> i] /\ Len(sent) + 1 = a => sent' = [i \in 1..Len(sent') |-> i]

LEMMA SndMovesOK ==
  ASSUME SndInv, Active(snd), NEW k \in Nat, SndMoves(Cursor(snd), k), snd' \in SndType, snd'.ret = snd.ret + k,
         Stepped(impl.out, snd, snd', k)
  PROVE  SndInv'
  <1> DEFINE a == Cursor(snd)
  <1>0. /\ impl \in ImplType /\ sent \in Seq(Nat) /\ (impl.out = "none" => impl.in = "none") /\ WireIsPrefix
        /\ Contiguous(snd.left, a, Behind(snd.ndx)) /\ snd.ret = Len(sent) /\ Len(sent) < a
        /\ ~impl.interrupted => Len(sent) + 1 = a
    BY DEF SndInv
  <1>1. Len(sent) \in Nat /\ a \in Nat /\ TotalLen \in Nat
    BY <1>0, LensSummed DEF Contiguous
  <1>2. impl' = impl /\ sent' \in Seq(Nat) /\ Len(sent') = Len(sent) + k
    BY DEF SndMoves
  <1>3. snd'.ndx \in 0..Len(Lens) /\ Shape(impl.out, snd') /\ Contiguous(snd'.left, a + k, Behind(snd'.ndx))
        /\ FirstByte(snd'.left, Behind(snd'.ndx)) = a + k
    BY DEF Stepped, Moved
  <1>4. Cursor(snd') = a + k
    BY <1>3 DEF Cursor
  <1> HIDE DEF a
  <1>5. a + k <= Behind(snd'.ndx) /\ Behind(snd'.ndx) <= TotalLen + 1 /\ Behind(snd'.ndx) \in Nat
    <2>1. a + k <= Behind(snd'.ndx)
      BY <1>3, BytesConsecutive
    <2> QED BY <2>1, <1>3, BehindOK
  <1>6. Len(sent') <= TotalLen /\ Len(sent') < a + k
    BY <1>0, <1>1, <1>2, <1>5
  <1>7. ~impl.interrupted => sent' = [i \in 1..Len(sent') |-> i]
    BY <1>0 DEF SndMoves, WireIsPrefix, a
  <1>8. snd'.ret = Len(sent') /\ (~impl.interrupted => Len(sent') + 1 = a + k)
    <2>1. snd'.ret = Len(sent')
      BY <1>0, <1>1, <1>2
    <2>2. Len(sent) + 1 = a => Len(sent') + 1 = a + k
      BY <1>1, <1>2
    <2> QED BY <1>0, <2>1, <2>2
  <1>9. WireIsPrefix'
    BY <1>2, <1>7 DEF WireIsPrefix
  <1>10. SendReportsTruth'
    BY <1>8 DEF SendReportsTruth, TotalLen
  <1>11. Active(snd)' => /\ Contiguous(snd'.left, Cursor(snd'), Behind(snd'.ndx))
                         /\ snd'.ret = Len(sent') /\ Len(sent') < Cursor(snd')
                         /\ ~impl'.interrupted => Len(sent') + 1 = Cursor(snd')
    BY <1>2, <1>3, <1>4, <1>6, <1>8
  <1>12. Shape(impl'.out, snd') /\ impl' \in ImplType /\ (impl'.out = "none" => impl'.in = "none")
    BY <1>0, <1>2, <1>3
  <1> QED BY <1>2, <1>6, <1>9, <1>10, <1>11, <1>12 DEF SndInv

\* The receiver does not notice what the sender does.
LEMMA RcvKept ==
  ASSUME RcvInv, UNCHANGED <<impl, rcv, consumed, mem>>, sent \in Seq(Nat), sent' \in Seq(Nat), Len(sent) <= Len(sent')
  PROVE  RcvInv'
  <1>1. Len(sent) \in Nat /\ Len(sent') \in Nat
    OBVIOUS
  <1>2. consumed \in Nat /\ consumed <= Len(sent) => consumed <= Len(sent')
    BY <1>1
  <1> QED BY <1>2 DEF RcvInv

LEMMA TakeMoves ==
  ASSUME SndInv, Active(snd), NEW s, NEW b, Contiguous(s, Cursor(snd), b), NEW k \in Nat, k <= Size(s), Take(s, k), impl' = impl
  PROVE  SndMoves(Cursor(snd), k) /\ Len(sent) <= Len(sent') /\ sent' \in Seq(Nat) /\ sent \in Seq(Nat)
  <1>1. sent \in Seq(Nat) /\ Len(sent) \in Nat
    BY DEF SndInv
  <1>2. /\ sent' \in Seq(Nat) /\ Len(sent') = Len(sent) + k
        /\ sent = [i \in 1..Len(sent) |-> i] /\ Len(sent) + 1 = Cursor(snd) => sent' = [i \in 1..Len(sent') |-> i]
    BY <1>1, TakeOK
  <1>3. Len(sent) <= Len(sent')
    BY <1>1, <1>2
  <1> QED BY <1>1, <1>2, <1>3 DEF SndMoves

LEMMA SndTyped ==
  ASSUME SndInv
  PROVE  /\ snd \in SndType /\ snd.ndx \in 0..Len(Lens) /\ snd.ret \in Nat /\ snd.left \in Seq(Piece)
         /\ sent \in Seq(Nat) /\ Len(sent) \in Nat /\ Shape(impl.out, snd)
         /\ Active(snd) => Contiguous(snd.left, Cursor(snd), Behind(snd.ndx))
  BY DEF SndInv, SndType

LEMMA WritevKeeps == ASSUME SndInv, RcvInv, Send_writev PROVE SndInv' /\ RcvInv'
  <1> DEFINE B == Batch(snd.ndx)
  <1>0. snd \in SndType /\ snd.ndx \in 0..Len(Lens) /\ snd.ret \in Nat /\ Shape(impl.out, snd)
    BY SndTyped
  <1>1. impl.out = "unix" /\ snd.pc = "batch" /\ snd.ndx < Len(Lens) /\ UNCHANGED <<impl, rcv, consumed, mem>>
    BY DEF Send_writev
  <1>2. Active(snd) /\ Batched(snd.ndx)
    BY <1>0, <1>1 DEF Active, Shape
  <1>3. BatchOK(snd.ndx)
    BY <1>0, <1>1, <1>2, BatchContiguous
  <1>4. Size(B) \in Nat
    <2>1. Contiguous(B, Behind(snd.ndx), Behind(snd.ndx + Len(B)))
      BY <1>3 DEF BatchOK
    <2> HIDE DEF B
    <2>2. Behind(snd.ndx) \in Nat /\ Behind(snd.ndx + Len(B)) \in Nat
      BY <2>1 DEF Contiguous
    <2> QED BY <2>1, <2>2, BytesConsecutive
  <1>5. PICK k \in Amount(Size(B)) :
          /\ Take(B, k)
          /\ snd' = [snd EXCEPT !.pc = IF k = Size(B) THEN "batch" ELSE "pieces",
                                !.ndx = @ + Len(B), !.left = unsent(B, k), !.ret = @ + k]
    BY DEF Send_writev
  <1>6. k \in Nat /\ k <= Size(B)
    BY <1>4, AmountOK
  <1>7. /\ snd'.pc = (IF k = Size(B) THEN "batch" ELSE "pieces") /\ snd'.ndx = snd.ndx + Len(B)
        /\ snd'.left = unsent(B, k) /\ snd'.ret = snd.ret + k
    BY <1>0, <1>5 DEF SndType
  <1>8. Stepped("unix", snd, snd', k) /\ Contiguous(B, Cursor(snd), Behind(snd'.ndx))
    BY <1>0, <1>1, <1>6, <1>7, BatchStepped
  <1>9. snd' \in SndType
    <2>1. snd'.ndx \in 0..Len(Lens) /\ snd'.left \in Seq(Piece) /\ snd'.ret \in Nat
      BY <1>0, <1>6, <1>7, <1>8 DEF Stepped
    <2> HIDE DEF B
    <2> QED BY <1>0, <1>5, <1>7, <2>1 DEF SndType
  <1> HIDE DEF B
  <1>10. SndMoves(Cursor(snd), k) /\ Len(sent) <= Len(sent') /\ sent' \in Seq(Nat) /\ sent \in Seq(Nat)
    BY <1>1, <1>2, <1>5, <1>6, <1>8, TakeMoves
  <1> QED BY <1>1, <1>2, <1>6, <1>7, <1>8, <1>9, <1>10, SndMovesOK, RcvKept

LEMMA SendPieceKeeps ==
  ASSUME SndInv, RcvInv, sendPiece, impl.out = "unix" \/ impl.out = "lightweight" PROVE SndInv' /\ RcvInv'
  <1> DEFINE h == <<Head(snd.left)>>
  <1>0. snd \in SndType /\ snd.ndx \in 0..Len(Lens) /\ snd.ret \in Nat /\ Shape(impl.out, snd)
    BY SndTyped
  <1>1. snd.pc = "pieces" /\ snd.left # <<>> /\ UNCHANGED <<impl, rcv, consumed, mem>>
    BY DEF sendPiece
  <1>2. Active(snd)
    BY <1>1 DEF Active
  <1>3. Contiguous(snd.left, Cursor(snd), Behind(snd.ndx))
    BY <1>2, SndTyped
  <1>4. Contiguous(h, Cursor(snd), EndOf(Head(snd.left))) /\ Size(h) = Head(snd.left).n /\ Head(snd.left).n \in Nat
    BY <1>1, <1>3, HeadContiguous
  <1>5. PICK k \in Amount(Head(snd.left).n) :
          /\ Take(h, k)
          /\ snd' = [snd EXCEPT !.left = unsent(h, k) \o Tail(@), !.ret = @ + k]
    BY DEF sendPiece
  <1>6. k \in Nat /\ k <= Head(snd.left).n
    BY <1>4, AmountOK
  <1>7. /\ snd'.pc = snd.pc /\ snd'.ndx = snd.ndx
        /\ snd'.left = unsent(h, k) \o Tail(snd.left) /\ snd'.ret = snd.ret + k
    BY <1>0, <1>5 DEF SndType
  <1>8. Stepped(impl.out, snd, snd', k)
    BY <1>0, <1>1, <1>3, <1>6, <1>7, PieceStepped
  <1>9. snd' \in SndType
    <2>1. snd'.ndx \in 0..Len(Lens) /\ snd'.left \in Seq(Piece) /\ snd'.ret \in Nat
      BY <1>0, <1>6, <1>7, <1>8 DEF Stepped
    <2> HIDE DEF h
    <2> QED BY <1>0, <1>5, <1>7, <2>1 DEF SndType
  <1> HIDE DEF h
  <1>10. SndMoves(Cursor(snd), k) /\ Len(sent) <= Len(sent') /\ sent' \in Seq(Nat) /\ sent \in Seq(Nat)
    BY <1>1, <1>2, <1>4, <1>5, <1>6, TakeMoves
  <1> QED BY <1>1, <1>2, <1>6, <1>7, <1>8, <1>9, <1>10, SndMovesOK, RcvKept

LEMMA WSASendKeeps ==
  ASSUME SndInv, RcvInv, WSASend, impl.out \in Windows PROVE SndInv' /\ RcvInv'
  <1> DEFINE L == WinLeft(snd)
  <1>0. snd \in SndType /\ snd.ndx \in 0..Len(Lens) /\ snd.ret \in Nat /\ Shape(impl.out, snd)
    BY SndTyped
  <1>1. snd.pc = "batch" /\ UNCHANGED <<impl, rcv, consumed, mem>>
    BY DEF WSASend
  <1>2. Active(snd)
    BY <1>1 DEF Active
  <1>3. Contiguous(snd.left, Cursor(snd), Behind(snd.ndx)) /\ snd.ret < Cursor(snd)
    BY <1>2 DEF SndInv
  <1>4. Contiguous(L, Cursor(snd), TotalLen + 1)
    BY <1>0, <1>1, <1>3, WinLeftContiguous DEF Shape
  <1>5. PICK k \in Amount(Size(L)) :
          /\ Take(L, k)
          /\ snd' = [snd EXCEPT !.pc = IF k = Size(L) THEN "done" ELSE "batch",
                                !.ndx = Len(Lens), !.left = unsent(L, k), !.ret = @ + k]
    BY DEF WSASend, WinLeft
  <1>6. k \in Nat /\ k <= Size(L)
    <2> HIDE DEF L
    <2>1. Cursor(snd) \in Nat /\ TotalLen \in Nat
      BY <1>4, LensSummed DEF Contiguous
    <2>2. Size(L) = (TotalLen + 1) - Cursor(snd) /\ Cursor(snd) <= TotalLen + 1
      BY <1>4, BytesConsecutive
    <2>3. Size(L) \in Nat
      BY <2>1, <2>2
    <2> QED BY <2>3, AmountOK
  <1>7. /\ snd'.pc = (IF k = Size(L) THEN "done" ELSE "batch") /\ snd'.ndx = Len(Lens)
        /\ snd'.left = unsent(L, k) /\ snd'.ret = snd.ret + k
    BY <1>0, <1>5 DEF SndType
  <1>8. Stepped(impl.out, snd, snd', k)
    BY <1>0, <1>1, <1>3, <1>6, <1>7, WinStepped
  <1>9. snd' \in SndType
    <2>1. snd'.ndx \in 0..Len(Lens) /\ snd'.left \in Seq(Piece) /\ snd'.ret \in Nat
      BY <1>0, <1>6, <1>7, <1>8 DEF Stepped
    <2> HIDE DEF L
    <2> QED BY <1>0, <1>5, <1>7, <2>1 DEF SndType
  <1> HIDE DEF L
  <1>10. SndMoves(Cursor(snd), k) /\ Len(sent) <= Len(sent') /\ sent' \in Seq(Nat) /\ sent \in Seq(Nat)
    BY <1>1, <1>2, <1>4, <1>5, <1>6, TakeMoves
  <1> QED BY <1>1, <1>2, <1>6, <1>7, <1>8, <1>9, <1>10, SndMovesOK, RcvKept

\* The sender's steps that move nothing.
LEMMA SndStillOK ==
  ASSUME SndInv, impl' = impl, sent' = sent, Active(snd), snd' \in SndType, snd'.ret = snd.ret, Stepped(impl.out, snd, snd', 0)
  PROVE  SndInv'
  <1>1. 0 \in Nat /\ sent' \in Seq(Nat) /\ Len(sent') = Len(sent) + 0 /\ snd'.ret = snd.ret + 0
    BY SndTyped
  <1>2. SndMoves(Cursor(snd), 0)
    BY <1>1 DEF SndMoves
  <1> QED BY <1>1, <1>2, SndMovesOK

LEMMA StayMoved ==
  ASSUME NEW left, NEW a, NEW b, Contiguous(left, a, b)
  PROVE  Moved(left, a, b, 0)
  <1>1. a + 0 = a
    BY DEF Contiguous
  <1> QED BY <1>1, FirstByteOK DEF Moved

LEMMA EmptyContiguous == ASSUME NEW a \in Nat PROVE Contiguous(<<>>, a, a) /\ FirstByte(<<>>, a) = a
  <1>1. 1..(Len(<<>>) - 1) = {} /\ <<>> \in Seq(Piece)
    OBVIOUS
  <1> QED BY <1>1 DEF Contiguous, FirstByte

\* Send is over: all of it, as it says, is with the kernel.
LEMMA SndOver ==
  ASSUME SndInv, impl' = impl, sent' = sent, snd' \in SndType, snd'.pc = "done", impl.out # "none", Batched(snd'.ndx),
         snd'.ret = TotalLen <=> Len(sent) = TotalLen
  PROVE  SndInv'
  <1>1. SendReportsTruth'
    BY DEF SendReportsTruth, TotalLen
  <1>2. Shape(impl'.out, snd') /\ ~Active(snd')
    BY DEF Shape, WinShape, Active
  <1>3. WireIsPrefix'
    BY DEF SndInv, WireIsPrefix
  <1> QED BY <1>1, <1>2, <1>3 DEF SndInv

LEMMA InterruptedKeeps == ASSUME SndInv, RcvInv, Send_interrupted PROVE SndInv' /\ RcvInv'
  <1> DEFINE B == Batch(snd.ndx)
             n == snd.ndx + Len(B)
  <1>0. snd \in SndType /\ snd.ndx \in 0..Len(Lens) /\ snd.ret \in Nat /\ Shape(impl.out, snd) /\ sent \in Seq(Nat) /\ Len(sent) \in Nat
    BY SndTyped
  <1>1. impl.out = "unix" /\ snd.pc = "batch" /\ snd.ndx < Len(Lens) /\ impl' = [impl EXCEPT !.interrupted = TRUE]
        /\ snd' = [snd EXCEPT !.ndx = n] /\ sent' = sent
    BY DEF Send_interrupted
  <1>2. Active(snd) /\ Batched(snd.ndx) /\ snd.left = <<>>
    BY <1>0, <1>1 DEF Active, Shape
  <1>3. BatchOK(snd.ndx)
    BY <1>0, <1>1, <1>2, BatchContiguous
  <1>4. Batched(n) /\ n \in 0..Len(Lens) /\ snd.ndx < n
    BY <1>3 DEF BatchOK
  <1> HIDE DEF n
  <1>5. snd' \in SndType /\ snd'.ndx = n /\ snd'.left = <<>> /\ snd'.pc = "batch" /\ snd'.ret = snd.ret
    BY <1>0, <1>1, <1>2, <1>4 DEF SndType
  <1>6. impl' \in ImplType /\ impl'.interrupted /\ impl'.out = "unix"
    BY <1>1 DEF SndInv, ImplType
  <1>7. Behind(n) \in Nat /\ Behind(snd.ndx) <= Behind(n) /\ Behind(snd.ndx) \in Nat
    <2>1. n \in Nat /\ snd.ndx \in Nat /\ snd.ndx <= n
      BY <1>0, <1>4, LensSummed
    <2> QED BY <2>1, <1>0, <1>4, BehindOK
  <1>8. Cursor(snd) = Behind(snd.ndx) /\ Cursor(snd') = Behind(n)
    BY <1>2, <1>5 DEF Cursor, FirstByte
  <1>9. snd.ret = Len(sent) /\ Len(sent) < Behind(snd.ndx) /\ Len(sent) <= TotalLen
    BY <1>2, <1>8 DEF SndInv
  <1>10. Len(sent) < Behind(n)
    BY <1>0, <1>7, <1>9
  <1>11. Contiguous(snd'.left, Cursor(snd'), Behind(snd'.ndx))
    BY <1>5, <1>7, <1>8, EmptyContiguous
  <1>12. Shape(impl'.out, snd')
    BY <1>4, <1>5, <1>6 DEF Shape, Windows
  <1>13. WireIsPrefix' /\ SendReportsTruth'
    BY <1>5, <1>6 DEF WireIsPrefix, SendReportsTruth
  <1>14. SndInv'
    <2>1. snd'.ret = Len(sent') /\ Len(sent') < Cursor(snd') /\ Len(sent') <= TotalLen /\ sent' \in Seq(Nat)
      BY <1>0, <1>1, <1>5, <1>8, <1>9, <1>10
    <2> QED BY <2>1, <1>5, <1>6, <1>11, <1>12, <1>13 DEF SndInv
  <1>15. RcvInv'
    BY <1>6 DEF RcvInv
  <1> QED BY <1>14, <1>15

LEMMA NextBatchKeeps == ASSUME SndInv, RcvInv, Send_nextBatch PROVE SndInv' /\ RcvInv'
  <1>0. snd \in SndType /\ snd.ndx \in 0..Len(Lens) /\ snd.ret \in Nat /\ Shape(impl.out, snd) /\ sent \in Seq(Nat) /\ Len(sent) \in Nat
    BY SndTyped
  <1>1. impl.out = "unix" /\ UNCHANGED <<impl, rcv, sent, consumed, mem>>
    BY DEF Send_nextBatch
  <1>2. RcvInv'
    BY <1>0, <1>1, RcvKept
  <1>3. CASE snd.pc = "pieces" /\ snd.left = <<>> /\ snd' = [snd EXCEPT !.pc = "batch"]
    <2>1. snd' \in SndType /\ snd'.ndx = snd.ndx /\ snd'.left = snd.left /\ snd'.ret = snd.ret /\ snd'.pc = "batch"
      BY <1>0, <1>3 DEF SndType
    <2>2. Active(snd) /\ Batched(snd.ndx)
      BY <1>0, <1>1, <1>3 DEF Active, Shape
    <2>3. Contiguous(snd'.left, Cursor(snd), Behind(snd'.ndx))
      BY <2>1, <2>2, SndTyped
    <2>4. Moved(snd'.left, Cursor(snd), Behind(snd'.ndx), 0)
      BY <2>3, StayMoved
    <2>5. Shape("unix", snd')
      BY <2>1, <2>2, <1>3 DEF Shape, Windows
    <2>6. Stepped(impl.out, snd, snd', 0)
      BY <2>1, <2>4, <2>5, <1>0, <1>1, <1>3 DEF Stepped
    <2> QED BY <2>1, <2>2, <2>6, <1>1, <1>2, SndStillOK
  <1>4. CASE snd.pc = "batch" /\ snd.ndx = Len(Lens) /\ snd' = [snd EXCEPT !.pc = "done"]
    <2>1. snd' \in SndType /\ snd'.ndx = snd.ndx /\ snd'.ret = snd.ret /\ snd'.pc = "done"
      BY <1>0, <1>4 DEF SndType
    <2>2. Active(snd) /\ Batched(snd'.ndx)
      BY <1>0, <1>1, <1>4, <2>1 DEF Active, Shape
    <2>3. snd'.ret = Len(sent)
      BY <2>1, <2>2 DEF SndInv
    <2>4. SndInv'
      BY <1>1, <2>1, <2>2, <2>3, SndOver
    <2> QED BY <2>4, <1>2
  <1> QED BY <1>3, <1>4 DEF Send_nextBatch

LEMMA SendLightweightKeeps == ASSUME SndInv, RcvInv, Send_lightweight PROVE SndInv' /\ RcvInv'
  <1>0. snd \in SndType /\ snd.ndx \in 0..Len(Lens) /\ snd.ret \in Nat /\ Shape(impl.out, snd) /\ sent \in Seq(Nat) /\ Len(sent) \in Nat
    BY SndTyped
  <1>1. impl.out = "lightweight" /\ UNCHANGED <<impl, rcv, sent, consumed, mem>>
    BY DEF Send_lightweight
  <1>2. RcvInv'
    BY <1>0, <1>1, RcvKept
  <1>3. CASE snd.pc = "batch" /\ snd' = [snd EXCEPT !.pc = "pieces", !.ndx = Len(Lens), !.left = Buffers(1, Len(Lens))]
    <2>1. Active(snd) /\ snd.ndx = 0 /\ snd.left = <<>>
      BY <1>0, <1>1, <1>3 DEF Active, Shape
    <2>2. Cursor(snd) = 1 /\ Behind(Len(Lens)) = TotalLen + 1 /\ Len(Lens) \in 0..Len(Lens)
      BY <2>1, BehindOK, LensSummed DEF Cursor, FirstByte
    <2>3. Contiguous(Buffers(1, Len(Lens)), 1, TotalLen + 1) /\ Buffers(1, Len(Lens)) \in Seq(Piece)
      BY AllContiguous DEF Contiguous
    <2>4. snd' \in SndType /\ snd'.ndx = Len(Lens) /\ snd'.left = Buffers(1, Len(Lens)) /\ snd'.ret = snd.ret /\ snd'.pc = "pieces"
      BY <1>0, <1>3, <2>2, <2>3 DEF SndType
    <2>5. Moved(snd'.left, Cursor(snd), Behind(snd'.ndx), 0)
      BY <2>2, <2>3, <2>4, StayMoved
    <2>6. Shape("lightweight", snd')
      BY <2>4 DEF Shape, Windows
    <2>7. Stepped(impl.out, snd, snd', 0)
      BY <2>2, <2>3, <2>4, <2>5, <2>6, <1>1 DEF Stepped
    <2> QED BY <2>1, <2>4, <2>7, <1>1, <1>2, SndStillOK
  <1>4. CASE snd.pc = "pieces" /\ snd.left = <<>> /\ snd' = [snd EXCEPT !.pc = "done"]
    <2>1. snd' \in SndType /\ snd'.ndx = snd.ndx /\ snd'.ret = snd.ret /\ snd'.pc = "done"
      BY <1>0, <1>4 DEF SndType
    <2>2. Active(snd) /\ Batched(snd'.ndx)
      BY <1>0, <1>1, <1>4, <2>1 DEF Active, Shape, Batched
    <2>3. snd'.ret = Len(sent)
      BY <2>1, <2>2 DEF SndInv
    <2>4. SndInv'
      BY <1>1, <2>1, <2>2, <2>3, SndOver
    <2> QED BY <2>4, <1>2
  <1> QED BY <1>3, <1>4 DEF Send_lightweight

\* A failed Send that answers -1 or zero has left something out.
LEMMA SendFailsKeeps == ASSUME SndInv, RcvInv, Send_fails PROVE SndInv' /\ RcvInv'
  <1> DEFINE upfront == snd.pc = "batch" /\ (impl.out = "unix" => snd.ndx < Len(Lens))
             ret == IF upfront THEN 0 ELSE snd.ret
  <1>0. snd \in SndType /\ snd.ndx \in 0..Len(Lens) /\ snd.ret \in Nat /\ Shape(impl.out, snd) /\ sent \in Seq(Nat) /\ Len(sent) \in Nat
    BY SndTyped
  <1>1. /\ impl.out # "none" /\ UNCHANGED <<impl, rcv, sent, consumed, mem>> /\ snd.pc \in {"batch", "pieces"}
        /\ snd' = [snd EXCEPT !.pc = "done", !.ret = ret]
    BY DEF Send_fails
  <1>2. RcvInv'
    BY <1>0, <1>1, RcvKept
  <1>3. Active(snd) /\ snd.ret = Len(sent) /\ Len(sent) < Cursor(snd) /\ TotalLen \in Nat
    BY <1>1, LensSummed DEF Active, SndInv
  <1>4. snd' \in SndType /\ snd'.ndx = snd.ndx /\ snd'.ret = ret /\ snd'.pc = "done"
    <2>1. ret \in Nat
      BY <1>0
    <2> HIDE DEF ret
    <2> QED BY <1>0, <1>1, <2>1 DEF SndType
  <1>5. impl.out = "unix" \/ impl.out = "lightweight" \/ impl.out \in Windows
    BY <1>1 DEF SndInv, ImplType, Impls, Windows
  <1>6. ret = TotalLen <=> Len(sent) = TotalLen
    <2>1. CASE ~upfront
      BY <1>3, <2>1
    <2>2. CASE upfront
      <3> SUFFICES Len(sent) = TotalLen <=> TotalLen = 0
        BY <2>2
      <3>1. CASE snd.left = <<>> /\ snd.ndx = 0
        <4>1. Cursor(snd) = 1
          BY <3>1, BehindOK DEF Cursor, FirstByte
        <4>2. Len(sent) = 0
          BY <4>1, <1>0, <1>3
        <4> QED BY <4>2
      <3>2. CASE impl.out = "unix"
        <4>1. Batched(snd.ndx) /\ snd.left = <<>> /\ snd.ndx < Len(Lens)
          BY <1>0, <2>2, <3>2 DEF Shape
        <4>2. Cursor(snd) = Behind(snd.ndx) /\ Behind(snd.ndx) <= TotalLen /\ Behind(snd.ndx) \in Nat
          BY <4>1, <1>0, BytesRemain, BehindOK DEF Cursor, FirstByte
        <4> QED BY <4>2, <1>0, <1>3
      <3>3. CASE impl.out = "lightweight"
        <4>1. snd.ndx = 0 /\ snd.left = <<>>
          BY <1>0, <2>2, <3>3 DEF Shape
        <4> QED BY <3>1, <4>1
      <3>4. CASE impl.out \in Windows
        <4>1. (snd.ndx = 0 /\ snd.left = <<>>) \/ snd.ret < TotalLen
          BY <1>0, <2>2, <3>4 DEF Shape, WinShape
        <4>2. CASE snd.ret < TotalLen
          BY <4>2, <1>0, <1>3
        <4> QED BY <3>1, <4>1, <4>2
      <3> QED BY <3>2, <3>3, <3>4, <1>5
    <2> QED BY <2>1, <2>2
  <1>7. SndInv'
    <2> HIDE DEF ret
    <2>1. CASE Batched(snd.ndx)
      BY <1>1, <1>4, <1>6, <2>1, SndOver
    <2>2. CASE ~Batched(snd.ndx)
      <3>1. impl.out # "unix"
        BY <1>0, <2>2 DEF Shape
      <3>2. SendReportsTruth'
        BY <1>1, <1>4, <1>6 DEF SendReportsTruth, TotalLen
      <3>3. Shape(impl'.out, snd') /\ ~Active(snd')
        BY <1>1, <1>4, <3>1 DEF Shape, WinShape, Active
      <3>4. WireIsPrefix'
        BY <1>1 DEF SndInv, WireIsPrefix
      <3> QED BY <1>1, <1>4, <3>2, <3>3, <3>4 DEF SndInv
    <2> QED BY <2>1, <2>2
  <1> QED BY <1>2, <1>7

LEMMA DisconnectKeeps == ASSUME SndInv, RcvInv, Disconnect PROVE SndInv' /\ RcvInv'
  <1>1. UNCHANGED <<impl, snd, rcv, sent, consumed, mem>>
    BY DEF Disconnect
  <1> QED BY <1>1 DEF SndInv, RcvInv, WireIsPrefix, SendReportsTruth

\* A transfer that has not begun.
LEMMA NotStartedOK ==
  ASSUME NEW how \in Impls
  PROVE  /\ Shape(how, NotStarted) /\ Active(NotStarted) /\ Cursor(NotStarted) = 1
         /\ Contiguous(NotStarted.left, 1, Behind(NotStarted.ndx)) /\ NotStarted.ret = 0 /\ NotStarted.pc = "batch"
         /\ NotStarted \in SndType /\ NotStarted \in RcvType
  <1>1. NotStarted.left = <<>> /\ NotStarted.ndx = 0 /\ NotStarted.ret = 0 /\ NotStarted.pc = "batch" /\ NotStarted.part = 0
    BY DEF NotStarted
  <1>2. Batched(0) /\ 0 \in 0..Len(Lens) /\ Behind(0) = 1
    BY BatchedZero, BehindOK
  <1>3. Shape(how, NotStarted)
    BY <1>1, <1>2 DEF Shape, WinShape, Impls, Windows
  <1>4. NotStarted \in SndType /\ NotStarted \in RcvType
    BY <1>2 DEF SndType, RcvType, NotStarted
  <1>5. Contiguous(<<>>, 1, 1) /\ FirstByte(<<>>, 1) = 1
    BY EmptyContiguous
  <1> QED BY <1>1, <1>2, <1>3, <1>4, <1>5 DEF Active, Cursor

LEMMA BeginKeeps == ASSUME SndInv, RcvInv, BeginTransfer PROVE SndInv' /\ RcvInv'
  <1>1. UNCHANGED <<snd, rcv, sent, consumed, mem>> /\ impl.out = "none" /\ impl.in = "none"
    BY DEF BeginTransfer, SndInv
  <1>2. PICK o \in Impls, i \in Impls : impl' = [impl EXCEPT !.out = o, !.in = i]
    BY DEF BeginTransfer
  <1>3. impl' \in ImplType /\ impl'.out = o /\ impl'.in = i /\ impl'.interrupted = impl.interrupted /\ o # "none"
    BY <1>2 DEF SndInv, ImplType, Impls
  <1>4. snd = NotStarted
    BY <1>1 DEF SndInv, Shape
  <1>5. Shape(o, snd) /\ Active(snd)
    BY <1>4, NotStartedOK
  <1>6. SndInv'
    <2>1. WireIsPrefix' /\ SendReportsTruth' /\ Len(sent') <= TotalLen /\ sent' \in Seq(Nat) /\ snd' \in SndType
      BY <1>1, <1>3 DEF SndInv, WireIsPrefix, SendReportsTruth
    <2>2. Shape(impl'.out, snd') /\ (impl'.out = "none" => impl'.in = "none")
      BY <1>1, <1>3, <1>5
    <2>3. /\ Contiguous(snd'.left, Cursor(snd'), Behind(snd'.ndx))
          /\ snd'.ret = Len(sent') /\ Len(sent') < Cursor(snd')
          /\ ~impl'.interrupted => Len(sent') + 1 = Cursor(snd')
      BY <1>1, <1>3, <1>5 DEF SndInv
    <2> QED BY <1>3, <2>1, <2>2, <2>3 DEF SndInv
  <1>7. RcvInv'
    <2> SUFFICES ASSUME ~impl.interrupted PROVE RcvInv'
      BY <1>3 DEF RcvInv
    <2>1. rcv = NotStarted
      BY <1>1 DEF RcvInv, Shape
    <2>2. Shape(i, rcv)
      BY <2>1, NotStartedOK
    <2> QED BY <1>1, <1>3, <2>2 DEF RcvInv
  <1> QED BY <1>6, <1>7

-----------------------------------------------------------------------------
\* The sender does not notice what the receiver does.
LEMMA SndKept == ASSUME SndInv, UNCHANGED <<impl, snd, sent>> PROVE SndInv'
  <1>1. WireIsPrefix' /\ SendReportsTruth'
    BY DEF SndInv, WireIsPrefix, SendReportsTruth
  <1> QED BY <1>1 DEF SndInv

LEMMA RcvTyped ==
  ASSUME SndInv, RcvInv, ~impl.interrupted
  PROVE  /\ rcv \in RcvType /\ rcv.ndx \in 0..Len(Lens) /\ rcv.left \in Seq(Piece) /\ rcv.part \in Nat
         /\ sent \in Seq(Nat) /\ Len(sent) \in Nat /\ Shape(impl.in, rcv) /\ consumed \in Nat /\ consumed <= Len(sent)
         /\ Active(rcv) => Contiguous(rcv.left, Cursor(rcv), Behind(rcv.ndx)) /\ rcv.ret = consumed /\ consumed + 1 = Cursor(rcv)
         /\ sent = [i \in 1..Len(sent) |-> i] /\ mem = Received(consumed) /\ Waiting \in Nat
  <1>1. rcv \in RcvType /\ consumed \in Nat /\ consumed <= Len(sent) /\ Shape(impl.in, rcv) /\ mem = Received(consumed)
        /\ (Active(rcv) => Contiguous(rcv.left, Cursor(rcv), Behind(rcv.ndx)) /\ rcv.ret = consumed /\ consumed + 1 = Cursor(rcv))
    BY DEF RcvInv
  <1>2. sent \in Seq(Nat) /\ Len(sent) \in Nat /\ sent = [i \in 1..Len(sent) |-> i]
    BY DEF SndInv, WireIsPrefix
  <1>3. Waiting \in Nat
    BY <1>1, <1>2 DEF Waiting
  <1>4. rcv.ndx \in 0..Len(Lens) /\ rcv.left \in Seq(Piece) /\ rcv.part \in Nat
    BY <1>1 DEF RcvType
  <1> QED BY <1>1, <1>2, <1>3, <1>4

\* The receiver goes on by k bytes.
LEMMA RcvMovesOK ==
  ASSUME SndInv, RcvInv, ~impl.interrupted, UNCHANGED <<impl, sent>>, Active(rcv), NEW k \in Nat, consumed + k <= Len(sent),
         consumed' = consumed + k, mem' = Received(consumed + k),
         rcv' \in RcvType, rcv'.ret = rcv.ret + k, Stepped(impl.in, rcv, rcv', k), rcv'.pc # "failed",
         rcv'.pc = "done" => Cursor(rcv) + k = TotalLen + 1
  PROVE  RcvInv'
  <1>1. consumed \in Nat /\ rcv.ret = consumed /\ consumed + 1 = Cursor(rcv) /\ TotalLen \in Nat
    BY RcvTyped, LensSummed
  <1>2. consumed' \in Nat /\ consumed' <= Len(sent') /\ mem' = Received(consumed') /\ rcv'.ret = consumed'
    BY <1>1
  <1>3. Shape(impl'.in, rcv') /\ Contiguous(rcv'.left, Cursor(rcv) + k, Behind(rcv'.ndx)) /\ FirstByte(rcv'.left, Behind(rcv'.ndx)) = Cursor(rcv) + k
    BY DEF Stepped, Moved
  <1>4. Cursor(rcv') = Cursor(rcv) + k
    BY <1>3 DEF Cursor
  <1>5. consumed' + 1 = Cursor(rcv')
    BY <1>1, <1>4
  <1>6. rcv'.pc = "done" => rcv'.ret = TotalLen /\ consumed' = TotalLen
    <2>1. Cursor(rcv) + k = TotalLen + 1 => consumed' = TotalLen
      BY <1>1
    <2> QED BY <1>2, <2>1
  <1>7. RcvInv' <=> (~impl'.interrupted =>
           /\ rcv' \in RcvType /\ consumed' \in Nat /\ consumed' <= Len(sent')
           /\ mem' = Received(consumed')
           /\ Shape(impl'.in, rcv')
           /\ Active(rcv') => /\ Contiguous(rcv'.left, Cursor(rcv'), Behind(rcv'.ndx))
                              /\ rcv'.ret = consumed' /\ consumed' + 1 = Cursor(rcv')
           /\ rcv'.pc = "done" => rcv'.ret = TotalLen /\ consumed' = TotalLen
           /\ rcv'.pc = "failed" => rcv'.ret # TotalLen)
    BY DEF RcvInv, Received, Shape, WinShape, Batched, Active, Cursor, FirstByte, Behind, TotalLen
  <1> QED BY <1>2, <1>3, <1>4, <1>5, <1>6, <1>7

LEMMA StoreMoves ==
  ASSUME SndInv, RcvInv, ~impl.interrupted, Active(rcv), NEW s, NEW e, Contiguous(s, Cursor(rcv), e),
         NEW k, k \in Amount(Min({Size(s), Waiting})), Store(s, k)
  PROVE  /\ k \in Nat /\ k <= Size(s) /\ consumed + k <= Len(sent)
         /\ consumed' = consumed + k /\ mem' = Received(consumed + k)
  <1>1. /\ consumed \in Nat /\ consumed + 1 = Cursor(rcv) /\ Len(sent) \in Nat /\ sent \in Seq(Nat)
        /\ sent = [i \in 1..Len(sent) |-> i] /\ mem = Received(consumed) /\ Waiting \in Nat
    BY RcvTyped
  <1>2. Size(s) \in Nat
    <2>1. Cursor(rcv) \in Nat /\ e \in Nat
      BY DEF Contiguous
    <2>2. Size(s) = e - Cursor(rcv) /\ Cursor(rcv) <= e
      BY BytesConsecutive
    <2> QED BY <2>1, <2>2
  <1> DEFINE m == Min({Size(s), Waiting})
  <1>3. m \in Nat /\ m <= Size(s) /\ m <= Waiting
    BY <1>1, <1>2, MinOfTwo
  <1>4. k \in Nat /\ k <= m
    BY <1>3, AmountOK
  <1> HIDE DEF m
  <1>5. k <= Size(s) /\ consumed + k <= Len(sent)
    BY <1>1, <1>2, <1>3, <1>4 DEF Waiting
  <1>6. Contiguous(s, consumed + 1, e)
    BY <1>1
  <1>7. consumed' = consumed + k /\ mem' = Received(consumed + k)
    BY <1>1, <1>4, <1>5, <1>6, StoreOK
  <1> QED BY <1>4, <1>5, <1>7

LEMMA RecvmsgKeeps == ASSUME SndInv, RcvInv, ~impl.interrupted, Recv_recvmsg PROVE SndInv' /\ RcvInv'
  <1> DEFINE B == Batch(rcv.ndx)
  <1>0. rcv \in RcvType /\ rcv.ndx \in 0..Len(Lens) /\ Shape(impl.in, rcv) /\ rcv.ret \in Int
    BY RcvTyped DEF RcvType
  <1>1. impl.in = "unix" /\ rcv.pc = "batch" /\ rcv.ndx < Len(Lens) /\ UNCHANGED <<impl, snd, sent>>
    BY DEF Recv_recvmsg
  <1>2. Active(rcv) /\ Batched(rcv.ndx) /\ rcv.left = <<>>
    BY <1>0, <1>1 DEF Active, Shape
  <1>3. BatchOK(rcv.ndx) /\ Cursor(rcv) = Behind(rcv.ndx)
    BY <1>0, <1>1, <1>2, BatchContiguous DEF Cursor, FirstByte
  <1>4. Contiguous(B, Cursor(rcv), Behind(rcv.ndx + Len(B)))
    BY <1>3 DEF BatchOK
  <1>5. PICK k \in Amount(Min({Size(B), Waiting})) :
          /\ Store(B, k)
          /\ rcv' = [rcv EXCEPT !.pc = IF k = Size(B) THEN "batch" ELSE "pieces",
                                !.ndx = @ + Len(B), !.left = unsent(B, k), !.ret = @ + k]
    BY DEF Recv_recvmsg
  <1> HIDE DEF B
  <1>6. /\ k \in Nat /\ k <= Size(B) /\ consumed + k <= Len(sent)
        /\ consumed' = consumed + k /\ mem' = Received(consumed + k)
    BY <1>2, <1>4, <1>5, StoreMoves
  <1>7. /\ rcv'.pc = (IF k = Size(B) THEN "batch" ELSE "pieces") /\ rcv'.ndx = rcv.ndx + Len(B)
        /\ rcv'.left = unsent(B, k) /\ rcv'.ret = rcv.ret + k
    BY <1>0, <1>5 DEF RcvType
  <1>8. Stepped("unix", rcv, rcv', k)
    BY <1>0, <1>1, <1>6, <1>7, BatchStepped DEF B
  <1>9. rcv' \in RcvType /\ rcv'.pc # "failed" /\ rcv'.pc # "done"
    <2>1. rcv'.ndx \in 0..Len(Lens) /\ rcv'.left \in Seq(Piece) /\ rcv'.ret \in Int
      BY <1>0, <1>6, <1>7, <1>8 DEF Stepped
    <2>2. rcv'.pc = "batch" \/ rcv'.pc = "pieces"
      BY <1>7
    <2> QED BY <1>0, <1>5, <1>7, <2>1, <2>2 DEF RcvType
  <1>10. RcvInv'
    BY <1>1, <1>2, <1>6, <1>7, <1>8, <1>9, RcvMovesOK
  <1> QED BY <1>1, <1>10, SndKept

LEMMA RecvPieceKeeps ==
  ASSUME SndInv, RcvInv, ~impl.interrupted, recvPiece, impl.in = "unix" \/ impl.in = "lightweight" PROVE SndInv' /\ RcvInv'
  <1> DEFINE h == <<Head(rcv.left)>>
             more(k) == IF k = Head(rcv.left).n THEN 0 ELSE rcv.part + k
  <1>0. rcv \in RcvType /\ rcv.ndx \in 0..Len(Lens) /\ Shape(impl.in, rcv) /\ rcv.ret \in Int /\ rcv.part \in Nat
    BY RcvTyped DEF RcvType
  <1>1. rcv.pc = "pieces" /\ rcv.left # <<>> /\ UNCHANGED <<impl, snd, sent>>
    BY DEF recvPiece
  <1>2. Active(rcv)
    BY <1>1 DEF Active
  <1>3. Contiguous(rcv.left, Cursor(rcv), Behind(rcv.ndx))
    BY <1>2, RcvTyped
  <1>4. Contiguous(h, Cursor(rcv), EndOf(Head(rcv.left))) /\ Size(h) = Head(rcv.left).n /\ Head(rcv.left).n \in Nat
    BY <1>1, <1>3, HeadContiguous
  <1>5. PICK k \in Amount(Min({Head(rcv.left).n, Waiting})) :
          /\ Store(h, k)
          /\ rcv' = [rcv EXCEPT !.left = unsent(h, k) \o Tail(@), !.ret = @ + k, !.part = more(k)]
    BY DEF recvPiece
  <1> HIDE DEF h
  <1>6. /\ k \in Nat /\ k <= Head(rcv.left).n /\ consumed + k <= Len(sent)
        /\ consumed' = consumed + k /\ mem' = Received(consumed + k)
    BY <1>2, <1>4, <1>5, StoreMoves
  <1>7. more(k) \in Nat
    BY <1>0, <1>6
  <1> HIDE DEF more
  <1>8. /\ rcv'.pc = rcv.pc /\ rcv'.ndx = rcv.ndx /\ rcv'.part = more(k)
        /\ rcv'.left = unsent(h, k) \o Tail(rcv.left) /\ rcv'.ret = rcv.ret + k
    BY <1>0, <1>5 DEF RcvType
  <1>9. Stepped(impl.in, rcv, rcv', k)
    BY <1>0, <1>1, <1>3, <1>6, <1>8, PieceStepped DEF h
  <1>10. rcv' \in RcvType /\ rcv'.pc # "failed" /\ rcv'.pc # "done"
    <2>1. rcv'.ndx \in 0..Len(Lens) /\ rcv'.left \in Seq(Piece) /\ rcv'.ret \in Int
      BY <1>0, <1>6, <1>8, <1>9 DEF Stepped
    <2> QED BY <1>0, <1>1, <1>5, <1>7, <1>8, <2>1 DEF RcvType
  <1>11. RcvInv'
    BY <1>1, <1>2, <1>6, <1>8, <1>9, <1>10, RcvMovesOK
  <1> QED BY <1>1, <1>11, SndKept

LEMMA WSARecvKeeps ==
  ASSUME SndInv, RcvInv, ~impl.interrupted, WSARecv, impl.in \in Windows PROVE SndInv' /\ RcvInv'
  <1> DEFINE L == WinLeft(rcv)
  <1>0. rcv \in RcvType /\ rcv.ndx \in 0..Len(Lens) /\ Shape(impl.in, rcv) /\ rcv.ret \in Int /\ consumed \in Nat
    BY RcvTyped DEF RcvType
  <1>1. rcv.pc = "batch" /\ UNCHANGED <<impl, snd, sent>>
    BY DEF WSARecv
  <1>2. Active(rcv)
    BY <1>1 DEF Active
  <1>3. Contiguous(rcv.left, Cursor(rcv), Behind(rcv.ndx)) /\ rcv.ret = consumed /\ consumed + 1 = Cursor(rcv)
    BY <1>2, RcvTyped
  <1>4. Contiguous(L, Cursor(rcv), TotalLen + 1)
    BY <1>0, <1>1, <1>3, WinLeftContiguous DEF Shape
  <1>5. PICK k \in Amount(Min({Size(L), Waiting})) :
          /\ Store(L, k)
          /\ rcv' = [rcv EXCEPT !.pc = IF k = Size(L) THEN "done" ELSE "batch",
                                !.ndx = Len(Lens), !.left = unsent(L, k), !.ret = @ + k]
    BY DEF WSARecv, WinLeft
  <1> HIDE DEF L
  <1>6. /\ k \in Nat /\ k <= Size(L) /\ consumed + k <= Len(sent)
        /\ consumed' = consumed + k /\ mem' = Received(consumed + k)
    BY <1>2, <1>4, <1>5, StoreMoves
  <1>7. /\ rcv'.pc = (IF k = Size(L) THEN "done" ELSE "batch") /\ rcv'.ndx = Len(Lens)
        /\ rcv'.left = unsent(L, k) /\ rcv'.ret = rcv.ret + k
    BY <1>0, <1>5 DEF RcvType
  <1>8. Stepped(impl.in, rcv, rcv', k) /\ (rcv'.pc = "done" => Cursor(rcv) + k = TotalLen + 1)
    <2>1. rcv.ret \in Nat /\ rcv.ret < Cursor(rcv)
      BY <1>0, <1>3
    <2> QED BY <2>1, <1>0, <1>1, <1>3, <1>6, <1>7, WinStepped DEF L
  <1>9. rcv' \in RcvType /\ rcv'.pc # "failed"
    <2>1. rcv'.ndx \in 0..Len(Lens) /\ rcv'.left \in Seq(Piece) /\ rcv'.ret \in Int
      BY <1>0, <1>6, <1>7, <1>8 DEF Stepped
    <2>2. rcv'.pc = "batch" \/ rcv'.pc = "done"
      BY <1>7
    <2> QED BY <1>0, <1>5, <1>7, <2>1, <2>2 DEF RcvType
  <1>10. RcvInv'
    BY <1>1, <1>2, <1>6, <1>7, <1>8, <1>9, RcvMovesOK
  <1> QED BY <1>1, <1>10, SndKept

\* The receiver's steps that move nothing.
LEMMA RcvStillOK ==
  ASSUME SndInv, RcvInv, ~impl.interrupted, UNCHANGED <<impl, sent, consumed, mem>>, Active(rcv),
         rcv' \in RcvType, rcv'.ret = rcv.ret, Stepped(impl.in, rcv, rcv', 0), rcv'.pc # "failed",
         rcv'.pc = "done" => Cursor(rcv) = TotalLen + 1
  PROVE  RcvInv'
  <1>1. /\ consumed \in Nat /\ consumed <= Len(sent) /\ mem = Received(consumed) /\ rcv.ret \in Nat /\ Cursor(rcv) \in Nat
    BY RcvTyped
  <1>2. 0 \in Nat /\ consumed + 0 = consumed /\ rcv.ret + 0 = rcv.ret /\ Cursor(rcv) + 0 = Cursor(rcv)
    BY <1>1
  <1> QED BY <1>1, <1>2, RcvMovesOK

LEMMA RecvNextKeeps == ASSUME SndInv, RcvInv, ~impl.interrupted, Recv_nextBatch PROVE SndInv' /\ RcvInv'
  <1>0. rcv \in RcvType /\ rcv.ndx \in 0..Len(Lens) /\ Shape(impl.in, rcv) /\ rcv.left \in Seq(Piece)
    BY RcvTyped
  <1>1. impl.in = "unix" /\ UNCHANGED <<impl, snd, sent, consumed, mem>>
    BY DEF Recv_nextBatch
  <1>2. SndInv'
    BY <1>1, SndKept
  <1>3. Active(rcv)
    BY DEF Recv_nextBatch, Active
  <1>4. Contiguous(rcv.left, Cursor(rcv), Behind(rcv.ndx)) /\ Batched(rcv.ndx)
    BY <1>0, <1>1, <1>3, RcvTyped DEF Shape
  <1>5. Moved(rcv.left, Cursor(rcv), Behind(rcv.ndx), 0)
    BY <1>4, StayMoved
  <1>6. rcv.left = <<>>
    BY <1>0, <1>1 DEF Recv_nextBatch, Shape
  <1>7. CASE rcv' = [rcv EXCEPT !.pc = "batch"]
    <2>1. rcv' \in RcvType /\ rcv'.ndx = rcv.ndx /\ rcv'.left = rcv.left /\ rcv'.ret = rcv.ret /\ rcv'.pc = "batch"
      BY <1>0, <1>7 DEF RcvType
    <2>2. Shape("unix", rcv')
      BY <2>1, <1>4, <1>6 DEF Shape, Windows
    <2>3. Stepped(impl.in, rcv, rcv', 0)
      BY <2>1, <2>2, <1>0, <1>1, <1>5 DEF Stepped
    <2>4. RcvInv'
      BY <1>1, <1>3, <2>1, <2>3, RcvStillOK
    <2> QED BY <1>2, <2>4
  <1>8. CASE rcv.ndx = Len(Lens) /\ rcv' = [rcv EXCEPT !.pc = "done"]
    <2>1. rcv' \in RcvType /\ rcv'.ndx = rcv.ndx /\ rcv'.left = rcv.left /\ rcv'.ret = rcv.ret /\ rcv'.pc = "done"
      BY <1>0, <1>8 DEF RcvType
    <2>2. Shape("unix", rcv')
      BY <2>1, <1>4 DEF Shape, Windows
    <2>3. Stepped(impl.in, rcv, rcv', 0)
      BY <2>1, <2>2, <1>0, <1>1, <1>5 DEF Stepped
    <2>4. Cursor(rcv) = TotalLen + 1
      BY <1>6, <1>8, BehindOK DEF Cursor, FirstByte
    <2>5. RcvInv'
      BY <1>1, <1>3, <2>1, <2>3, <2>4, RcvStillOK
    <2> QED BY <1>2, <2>5
  <1> QED BY <1>7, <1>8 DEF Recv_nextBatch

LEMMA RecvLightweightKeeps == ASSUME SndInv, RcvInv, ~impl.interrupted, Recv_lightweight PROVE SndInv' /\ RcvInv'
  <1>0. rcv \in RcvType /\ rcv.ndx \in 0..Len(Lens) /\ Shape(impl.in, rcv) /\ rcv.left \in Seq(Piece)
    BY RcvTyped
  <1>1. impl.in = "lightweight" /\ UNCHANGED <<impl, snd, sent, consumed, mem>>
    BY DEF Recv_lightweight
  <1>2. SndInv'
    BY <1>1, SndKept
  <1>3. Active(rcv)
    BY DEF Recv_lightweight, Active
  <1>4. Contiguous(rcv.left, Cursor(rcv), Behind(rcv.ndx))
    BY <1>3, RcvTyped
  <1>5. CASE rcv.pc = "batch" /\ rcv' = [rcv EXCEPT !.pc = "pieces", !.ndx = Len(Lens), !.left = Buffers(1, Len(Lens))]
    <2>1. rcv.ndx = 0 /\ rcv.left = <<>>
      BY <1>0, <1>1, <1>5 DEF Shape
    <2>2. Cursor(rcv) = 1 /\ Behind(Len(Lens)) = TotalLen + 1 /\ Len(Lens) \in 0..Len(Lens)
      BY <2>1, BehindOK, LensSummed DEF Cursor, FirstByte
    <2>3. Contiguous(Buffers(1, Len(Lens)), 1, TotalLen + 1) /\ Buffers(1, Len(Lens)) \in Seq(Piece)
      BY AllContiguous DEF Contiguous
    <2>4. rcv' \in RcvType /\ rcv'.ndx = Len(Lens) /\ rcv'.left = Buffers(1, Len(Lens)) /\ rcv'.ret = rcv.ret /\ rcv'.pc = "pieces"
      BY <1>0, <1>5, <2>2, <2>3 DEF RcvType
    <2>5. Moved(rcv'.left, Cursor(rcv), Behind(rcv'.ndx), 0)
      BY <2>2, <2>3, <2>4, StayMoved
    <2>6. Shape("lightweight", rcv')
      BY <2>4 DEF Shape, Windows
    <2>7. Stepped(impl.in, rcv, rcv', 0)
      BY <2>2, <2>3, <2>4, <2>5, <2>6, <1>1 DEF Stepped
    <2>8. RcvInv'
      BY <1>1, <1>3, <2>4, <2>7, RcvStillOK
    <2> QED BY <1>2, <2>8
  <1>6. CASE rcv.pc = "pieces" /\ rcv.left = <<>> /\ rcv' = [rcv EXCEPT !.pc = "done"]
    <2>1. rcv' \in RcvType /\ rcv'.ndx = rcv.ndx /\ rcv'.left = rcv.left /\ rcv'.ret = rcv.ret /\ rcv'.pc = "done"
      BY <1>0, <1>6 DEF RcvType
    <2>2. Shape("lightweight", rcv')
      BY <2>1 DEF Shape, Windows
    <2>3. Stepped(impl.in, rcv, rcv', 0)
      BY <2>1, <2>2, <1>0, <1>1, <1>4, StayMoved DEF Stepped
    <2>4. Cursor(rcv) = TotalLen + 1
      <3>1. rcv.ndx = Len(Lens)
        BY <1>0, <1>1, <1>6 DEF Shape
      <3> QED BY <3>1, <1>6, BehindOK DEF Cursor, FirstByte
    <2>5. RcvInv'
      BY <1>1, <1>3, <2>1, <2>3, <2>4, RcvStillOK
    <2> QED BY <1>2, <2>5
  <1> QED BY <1>5, <1>6 DEF Recv_lightweight

\* A failed Recv never says that everything is there: something was still to come.
LEMMA RecvFailsKeeps == ASSUME SndInv, RcvInv, ~impl.interrupted, Recv_fails PROVE SndInv' /\ RcvInv'
  <1> DEFINE ret == IF impl.in \in Windows THEN 0 ELSE rcv.ret - rcv.part
  <1>0. rcv \in RcvType /\ rcv.ndx \in 0..Len(Lens) /\ Shape(impl.in, rcv) /\ rcv.part \in Nat /\ consumed \in Nat /\ TotalLen \in Nat
    BY RcvTyped, LensSummed
  <1>1. /\ UNCHANGED <<impl, snd, sent, consumed, mem>> /\ impl.in # "none"
        /\ rcv.pc = "batch" \/ rcv.pc = "pieces"
        /\ rcv.pc = "batch" => rcv.ndx < Len(Lens) \/ rcv.left # <<>>
        /\ rcv.pc = "pieces" => rcv.left # <<>> /\ Head(rcv.left).n > 0
        /\ rcv' = [rcv EXCEPT !.pc = "failed", !.ret = ret]
    BY DEF Recv_fails
  <1>2. Contiguous(rcv.left, Cursor(rcv), Behind(rcv.ndx)) /\ rcv.ret = consumed /\ consumed + 1 = Cursor(rcv)
    BY <1>1, RcvTyped DEF Active
  <1>3. Behind(rcv.ndx) \in Nat /\ Behind(rcv.ndx) <= TotalLen + 1
    BY <1>0, BehindOK
  <1>4. impl.in = "unix" \/ impl.in = "lightweight" \/ impl.in \in Windows
    BY <1>1 DEF SndInv, ImplType, Impls, Windows
  <1>5. consumed < TotalLen
    <2>1. CASE rcv.left = <<>> /\ rcv.ndx < Len(Lens) /\ Batched(rcv.ndx)
      <3>1. Cursor(rcv) = Behind(rcv.ndx) /\ Behind(rcv.ndx) <= TotalLen
        BY <2>1, <1>0, BytesRemain DEF Cursor, FirstByte
      <3> QED BY <3>1, <1>0, <1>2, <1>3
    <2>2. CASE rcv.pc = "pieces"
      <3>1. Head(rcv.left).n > 0 /\ rcv.left # <<>>
        BY <1>1, <2>2
      <3>2. EndOf(Head(rcv.left)) = Cursor(rcv) + Head(rcv.left).n /\ EndOf(Head(rcv.left)) <= Behind(rcv.ndx) /\ Head(rcv.left).n \in Nat
        BY <3>1, <1>2, HeadContiguous
      <3> HIDE DEF ret
      <3>3. Cursor(rcv) \in Nat
        BY <1>0, <1>2
      <3> QED BY <3>1, <3>2, <3>3, <1>0, <1>2, <1>3
    <2>3. CASE rcv.pc = "batch"
      <3>1. CASE impl.in = "unix"
        BY <3>1, <2>1, <2>3, <1>0, <1>1 DEF Shape
      <3>2. CASE impl.in = "lightweight"
        BY <3>2, <2>1, <2>3, <1>0, <1>1, BatchedZero DEF Shape
      <3>3. CASE impl.in \in Windows
        <4>1. (rcv.ndx = 0 /\ rcv.left = <<>>) \/ rcv.ret < TotalLen
          BY <3>3, <2>3, <1>0 DEF Shape, WinShape
        <4> QED BY <4>1, <2>1, <2>3, <1>1, <1>2, BatchedZero
      <3> QED BY <3>1, <3>2, <3>3, <1>4
    <2> QED BY <2>2, <2>3, <1>1
  <1>6. ret \in Int /\ ret # TotalLen
    BY <1>0, <1>2, <1>5
  <1> HIDE DEF ret
  <1>7. rcv' \in RcvType /\ rcv'.pc = "failed" /\ rcv'.ret # TotalLen /\ rcv'.ndx = rcv.ndx
    BY <1>0, <1>1, <1>6 DEF RcvType
  <1>8. Shape(impl.in, rcv') /\ ~Active(rcv')
    BY <1>0, <1>1, <1>7 DEF Shape, WinShape, Active
  <1>9. RcvInv'
    BY <1>1, <1>7, <1>8 DEF RcvInv
  <1> QED BY <1>1, <1>9, SndKept

\* After an interrupted writev nothing is said of the receiver.
LEMMA RcvVacuous == ASSUME SndInv, impl.interrupted, UNCHANGED <<impl, snd, sent>> PROVE SndInv' /\ RcvInv'
  <1>1. RcvInv'
    BY DEF RcvInv
  <1> QED BY <1>1, SndKept

-----------------------------------------------------------------------------
\* Connecting and listening.
LEMMA ConnectStartKeeps == ASSUME DialInv, LstInv, Connect_start PROVE DialInv' /\ LstInv'
  <1>1. dial = NoSocket /\ lst' = lst
    BY DEF Connect_start, DialInv
  <1>2. PICK i \in {"unix", "lightweight"} :
          \/ dial' = [dial EXCEPT !.impl = i, !.fd = "open", !.res = "trying"]
          \/ dial' = [dial EXCEPT !.impl = i, !.fd = "open", !.res = "unresolved"]
          \/ dial' = [dial EXCEPT !.impl = i, !.res = "failed"]
    BY DEF Connect_start
  <1>3. dial' \in SocketType /\ dial'.impl = i /\ dial'.tries = 0 /\ (dial'.res = "failed" => dial'.fd = "none")
        /\ (dial'.res \in {"trying", "connected"} => dial'.fd = "open")
    <2>1. i \in Impls
      BY DEF Impls
    <2>2. CASE dial' = [dial EXCEPT !.impl = i, !.fd = "open", !.res = "trying"]
      <3>1. dial' = [impl |-> i, fd |-> "open", tries |-> 0, res |-> "trying"]
        BY <1>1, <2>2 DEF NoSocket
      <3> QED BY <2>1, <3>1 DEF SocketType, SocketRes
    <2>3. CASE dial' = [dial EXCEPT !.impl = i, !.fd = "open", !.res = "unresolved"]
      <3>1. dial' = [impl |-> i, fd |-> "open", tries |-> 0, res |-> "unresolved"]
        BY <1>1, <2>3 DEF NoSocket
      <3> QED BY <2>1, <3>1 DEF SocketType, SocketRes
    <2>4. CASE dial' = [dial EXCEPT !.impl = i, !.res = "failed"]
      <3>1. dial' = [impl |-> i, fd |-> "none", tries |-> 0, res |-> "failed"]
        BY <1>1, <2>4 DEF NoSocket
      <3> QED BY <2>1, <3>1 DEF SocketType, SocketRes
    <2> QED BY <1>2, <2>2, <2>3, <2>4
  <1>4. NumRetry \in Nat
    BY LensAssumption
  <1>5. DialInv'
    BY <1>2, <1>3, <1>4 DEF DialInv
  <1>6. LstInv'
    BY <1>1 DEF LstInv, NoSocket
  <1> QED BY <1>5, <1>6

LEMMA ConnectKeeps == ASSUME DialInv, LstInv, Connect PROVE DialInv' /\ LstInv'
  <1>0. dial \in SocketType /\ dial.tries \in Nat /\ NumRetry \in Nat /\ (NumRetry > 0 => dial.tries <= NumRetry)
    BY LensAssumption DEF DialInv, SocketType
  <1>1. dial.impl = "unix" /\ dial.res = "trying" /\ dial.fd = "open" /\ lst' = lst
    BY DEF Connect, DialInv
  <1>2. LstInv'
    BY <1>1 DEF LstInv
  <1>3. CASE dial' = [dial EXCEPT !.res = "connected"]
    <2>1. dial' \in SocketType /\ dial'.impl = "unix" /\ dial'.tries = dial.tries /\ dial'.res = "connected" /\ dial'.fd = "open"
      BY <1>0, <1>1, <1>3 DEF SocketType, SocketRes
    <2>2. DialInv'
      BY <2>1, <1>0 DEF DialInv
    <2> QED BY <1>2, <2>2
  <1>4. CASE ~Exhausted(dial.tries) /\ dial' = [dial EXCEPT !.tries = @ + 1]
    <2>1. dial' \in SocketType /\ dial'.impl = "unix" /\ dial'.tries = dial.tries + 1 /\ dial'.res = "trying" /\ dial'.fd = "open"
      BY <1>0, <1>1, <1>4 DEF SocketType
    <2>2. NumRetry > 0 => dial'.tries <= NumRetry
      BY <2>1, <1>0, <1>4 DEF Exhausted
    <2>3. DialInv'
      BY <2>1, <2>2 DEF DialInv
    <2> QED BY <1>2, <2>3
  <1>5. CASE dial' = [dial EXCEPT !.fd = "closed", !.res = "failed"]
    <2>1. dial' \in SocketType /\ dial'.impl = "unix" /\ dial'.tries = dial.tries /\ dial'.res = "failed" /\ dial'.fd = "closed"
      BY <1>0, <1>1, <1>5 DEF SocketType, SocketRes
    <2>2. DialInv'
      BY <2>1, <1>0 DEF DialInv
    <2> QED BY <1>2, <2>2
  <1> QED BY <1>3, <1>4, <1>5 DEF Connect

LEMMA ConnectLightweightKeeps == ASSUME DialInv, LstInv, Connect_lightweight PROVE DialInv' /\ LstInv'
  <1>0. dial \in SocketType /\ dial.tries \in Nat /\ NumRetry \in Nat
    BY LensAssumption DEF DialInv, SocketType
  <1>1. dial.impl = "lightweight" /\ dial.res = "trying" /\ dial.fd = "open" /\ lst' = lst
    BY DEF Connect_lightweight, DialInv
  <1>2. LstInv'
    BY <1>1 DEF LstInv
  <1>3. NumRetry > 0 => dial.tries < NumRetry
    BY <1>1 DEF DialInv
  <1>4. CASE dial' = [dial EXCEPT !.res = "connected"] \/ dial' = [dial EXCEPT !.res = "failed"]
    <2>1. dial' \in SocketType /\ dial'.impl = "lightweight" /\ dial'.tries = dial.tries /\ dial'.res # "trying" /\ dial'.fd = "open"
      BY <1>0, <1>1, <1>4 DEF SocketType, SocketRes
    <2>2. NumRetry > 0 => dial'.tries <= NumRetry
      BY <2>1, <1>0, <1>3
    <2>3. DialInv'
      BY <2>1, <2>2 DEF DialInv
    <2> QED BY <1>2, <2>3
  <1>5. CASE dial' = [dial EXCEPT !.tries = @ + 1, !.res = IF Exhausted(dial.tries + 1) THEN "failed" ELSE @]
    <2>1. dial' \in SocketType /\ dial'.impl = "lightweight" /\ dial'.tries = dial.tries + 1 /\ dial'.fd = "open"
          /\ dial'.res = IF Exhausted(dial.tries + 1) THEN "failed" ELSE "trying"
      <3>1. dial.tries + 1 \in Nat
        BY <1>0
      <3> QED BY <1>0, <1>1, <1>5, <3>1 DEF SocketType, SocketRes
    <2>2. NumRetry > 0 => dial'.tries <= NumRetry
      BY <2>1, <1>0, <1>3
    <2>3. NumRetry > 0 /\ dial'.res = "trying" => dial'.tries < NumRetry
      BY <2>1, <1>0 DEF Exhausted
    <2>4. DialInv'
      BY <2>1, <2>2, <2>3 DEF DialInv
    <2> QED BY <1>2, <2>4
  <1> QED BY <1>4, <1>5 DEF Connect_lightweight

LEMMA ListenKeeps == ASSUME DialInv, LstInv, ListenSocket PROVE DialInv' /\ LstInv'
  <1>1. lst = NoSocket /\ dial' = dial
    BY DEF ListenSocket, LstInv
  <1>2. PICK i \in Impls : \/ lst' = [lst EXCEPT !.impl = i, !.fd = "open", !.res = "binding"]
                           \/ lst' = [lst EXCEPT !.impl = i, !.res = "failed"]
    BY DEF ListenSocket
  <1>3. lst' \in SocketType /\ lst'.impl = i /\ i # "none"
        /\ ((lst'.res = "binding" /\ lst'.fd = "open") \/ (lst'.res = "failed" /\ lst'.fd = "none"))
    <2>1. i # "none"
      BY DEF Impls
    <2>2. CASE lst' = [lst EXCEPT !.impl = i, !.fd = "open", !.res = "binding"]
      <3>1. lst' = [impl |-> i, fd |-> "open", tries |-> 0, res |-> "binding"]
        BY <1>1, <2>2 DEF NoSocket
      <3> QED BY <2>1, <3>1 DEF SocketType, SocketRes
    <2>3. CASE lst' = [lst EXCEPT !.impl = i, !.res = "failed"]
      <3>1. lst' = [impl |-> i, fd |-> "none", tries |-> 0, res |-> "failed"]
        BY <1>1, <2>3 DEF NoSocket
      <3> QED BY <2>1, <3>1 DEF SocketType, SocketRes
    <2> QED BY <1>2, <2>2, <2>3
  <1>4. LstInv'
    BY <1>3 DEF LstInv
  <1>5. DialInv'
    BY <1>1 DEF DialInv
  <1> QED BY <1>4, <1>5

LEMMA BindingKeeps == ASSUME DialInv, LstInv, NEW found, Binding(found) PROVE DialInv' /\ LstInv'
  <1>0. lst \in SocketType /\ lst.tries \in Nat /\ lst.res = "binding" /\ lst.fd = "open" /\ lst.impl # "none" /\ dial' = dial
    BY DEF Binding, LstInv, SocketType, NoSocket
  <1>1. DialInv'
    BY <1>0 DEF DialInv
  <1>2. \/ lst' = [lst EXCEPT !.fd = "closed", !.res = "failed"]
        \/ lst' = [lst EXCEPT !.res = "listening"]
        \/ lst' = [lst EXCEPT !.tries = @ + 1]
    BY DEF Binding
  <1>3. lst' \in SocketType /\ lst'.impl # "none"
        /\ ((lst'.res = "failed" /\ lst'.fd = "closed") \/ (lst'.res \in {"listening", "binding"} /\ lst'.fd = "open"))
    <2>1. CASE lst' = [lst EXCEPT !.fd = "closed", !.res = "failed"]
      BY <1>0, <2>1 DEF SocketType, SocketRes
    <2>2. CASE lst' = [lst EXCEPT !.res = "listening"]
      BY <1>0, <2>2 DEF SocketType, SocketRes
    <2>3. CASE lst' = [lst EXCEPT !.tries = @ + 1]
      <3>1. lst.tries + 1 \in Nat
        BY <1>0
      <3> QED BY <1>0, <2>3, <3>1 DEF SocketType
    <2> QED BY <1>2, <2>1, <2>2, <2>3
  <1>4. LstInv'
    BY <1>3 DEF LstInv
  <1> QED BY <1>1, <1>4

LEMMA AcceptKeeps == ASSUME DialInv, LstInv, Accept PROVE DialInv' /\ LstInv'
  <1>0. lst \in SocketType /\ lst.res \in {"listening", "timedOut"} /\ lst.fd = "open" /\ lst.impl # "none" /\ dial' = dial
    BY DEF Accept, LstInv, SocketType, NoSocket
  <1>1. DialInv'
    BY <1>0 DEF DialInv
  <1>2. \/ dial.res = "connected" /\ lst' = [lst EXCEPT !.res = "accepted"]
        \/ lst' = [lst EXCEPT !.res = "timedOut"]
    BY DEF Accept
  <1>3. lst' \in SocketType /\ lst'.impl # "none" /\ lst'.fd = "open"
        /\ (lst'.res = "timedOut" \/ (lst'.res = "accepted" /\ dial'.res = "connected"))
    BY <1>0, <1>2 DEF SocketType, SocketRes
  <1>4. LstInv'
    BY <1>3 DEF LstInv
  <1> QED BY <1>1, <1>4

LEMMA EndsKept == ASSUME DialInv, LstInv, UNCHANGED endVars PROVE DialInv' /\ LstInv'
  BY DEF DialInv, LstInv, endVars

LEMMA TransferKept == ASSUME SndInv, RcvInv, UNCHANGED transferVars PROVE SndInv' /\ RcvInv'
  <1>1. UNCHANGED <<impl, snd, sent>> /\ UNCHANGED <<impl, rcv, consumed, mem>>
    BY DEF transferVars
  <1>2. sent \in Seq(Nat) /\ sent' \in Seq(Nat) /\ Len(sent) \in Nat /\ Len(sent) <= Len(sent')
    BY <1>1 DEF SndInv
  <1> QED BY <1>1, <1>2, SndKept, RcvKept

-----------------------------------------------------------------------------
LEMMA SocketsInitOK == ASSUME SocketsInit PROVE SocketsInv
  <1>0. TotalLen \in Nat /\ 0 <= TotalLen
    BY LensSummed
  <1>1. snd = NotStarted /\ rcv = NotStarted /\ sent = <<>> /\ consumed = 0 /\ mem = [b \in 1..TotalLen |-> 0]
        /\ impl = [out |-> "none", in |-> "none", interrupted |-> FALSE] /\ dial = NoSocket /\ lst = NoSocket
    BY DEF SocketsInit
  <1>2. "unix" \in Impls
    BY DEF Impls
  <1>3. /\ Active(NotStarted) /\ Cursor(NotStarted) = 1 /\ Contiguous(NotStarted.left, 1, Behind(NotStarted.ndx))
        /\ NotStarted.ret = 0 /\ NotStarted.pc = "batch" /\ NotStarted \in SndType /\ NotStarted \in RcvType
    BY <1>2, NotStartedOK
  <1>4. impl \in ImplType /\ impl.out = "none" /\ impl.in = "none" /\ ~impl.interrupted
    BY <1>1 DEF ImplType
  <1>5. Shape("none", NotStarted)
    BY DEF Shape, Windows
  <1>6. sent \in Seq(Nat) /\ Len(sent) = 0 /\ sent = [i \in 1..Len(sent) |-> i]
    BY <1>1
  <1>7. WireIsPrefix /\ SendReportsTruth
    BY <1>1, <1>3, <1>6 DEF WireIsPrefix, SendReportsTruth
  <1>8. SndInv
    BY <1>0, <1>1, <1>3, <1>4, <1>5, <1>6, <1>7 DEF SndInv
  <1>9. mem = Received(0)
    BY <1>0, <1>1 DEF Received
  <1>10. RcvInv
    BY <1>1, <1>3, <1>4, <1>5, <1>6, <1>9 DEF RcvInv
  <1>11. DialInv /\ LstInv
    BY <1>1, LensAssumption DEF DialInv, LstInv, NoSocket, SocketType, SocketRes, Impls
  <1> QED BY <1>8, <1>10, <1>11 DEF SocketsInv

LEMMA SendersKeep ==
  ASSUME SndInv, RcvInv,
         \/ Send_writev \/ Send_interrupted \/ send_unix \/ Send_nextBatch
         \/ Send_lightweight \/ send_lightweight \/ Send_win \/ Send_lightweight_win \/ Send_fails
  PROVE  SndInv' /\ RcvInv'
  <1>1. CASE send_unix
    BY <1>1, SendPieceKeeps DEF send_unix
  <1>2. CASE send_lightweight
    BY <1>2, SendPieceKeeps DEF send_lightweight
  <1>3. CASE Send_win
    BY <1>3, WSASendKeeps DEF Send_win, Windows
  <1>4. CASE Send_lightweight_win
    BY <1>4, WSASendKeeps DEF Send_lightweight_win, Windows
  <1> QED BY <1>1, <1>2, <1>3, <1>4, WritevKeeps, InterruptedKeeps, NextBatchKeeps, SendLightweightKeeps, SendFailsKeeps

Receives ==
  \/ Recv_recvmsg \/ recv_unix \/ Recv_nextBatch
  \/ Recv_lightweight \/ recv_lightweight \/ Recv_win \/ Recv_lightweight_win \/ Recv_fails
LEMMA ReceiversKeep ==
  ASSUME SndInv, RcvInv, Receives
  PROVE  SndInv' /\ RcvInv'
  <1>0. UNCHANGED <<impl, snd, sent>>
    BY DEF Receives, Recv_recvmsg, recv_unix, Recv_nextBatch, Recv_lightweight, recv_lightweight, recvPiece,
           Recv_win, Recv_lightweight_win, WSARecv, Recv_fails
  <1>1. CASE impl.interrupted
    BY <1>0, <1>1, RcvVacuous
  <1>2. CASE ~impl.interrupted
    <2>1. CASE recv_unix
      BY <1>2, <2>1, RecvPieceKeeps DEF recv_unix
    <2>2. CASE recv_lightweight
      BY <1>2, <2>2, RecvPieceKeeps DEF recv_lightweight
    <2>3. CASE Recv_win
      BY <1>2, <2>3, WSARecvKeeps DEF Recv_win, Windows
    <2>4. CASE Recv_lightweight_win
      BY <1>2, <2>4, WSARecvKeeps DEF Recv_lightweight_win, Windows
    <2> QED BY <1>2, <2>1, <2>2, <2>3, <2>4, RecvmsgKeeps, RecvNextKeeps, RecvLightweightKeeps, RecvFailsKeeps DEF Receives
  <1> QED BY <1>1, <1>2

LEMMA SocketsInductive == ASSUME SocketsInv, [SocketsNext]_socketVars PROVE SocketsInv'
  <1>0. SndInv /\ RcvInv /\ DialInv /\ LstInv
    BY DEF SocketsInv
  <1>1. CASE \/ Send_writev \/ Send_interrupted \/ send_unix \/ Send_nextBatch
             \/ Send_lightweight \/ send_lightweight \/ Send_win \/ Send_lightweight_win \/ Send_fails
    <2>1. UNCHANGED endVars
      BY <1>1 DEF Send_writev, Send_interrupted, send_unix, Send_nextBatch, Send_lightweight, send_lightweight, sendPiece,
                  Send_win, Send_lightweight_win, WSASend, Send_fails
    <2> QED BY <1>0, <1>1, <2>1, SendersKeep, EndsKept DEF SocketsInv
  <1>2. CASE Receives
    <2>1. UNCHANGED endVars
      BY <1>2 DEF Receives, Recv_recvmsg, recv_unix, Recv_nextBatch, Recv_lightweight, recv_lightweight, recvPiece,
                  Recv_win, Recv_lightweight_win, WSARecv, Recv_fails
    <2> QED BY <1>0, <1>2, <2>1, ReceiversKeep, EndsKept DEF SocketsInv
  <1>3. CASE BeginTransfer
    <2>1. UNCHANGED endVars
      BY <1>3 DEF BeginTransfer
    <2> QED BY <1>0, <1>3, <2>1, BeginKeeps, EndsKept DEF SocketsInv
  <1>4. CASE Disconnect
    <2>1. UNCHANGED endVars
      BY <1>4 DEF Disconnect
    <2> QED BY <1>0, <1>4, <2>1, DisconnectKeeps, EndsKept DEF SocketsInv
  <1>5. CASE Connect_start
    <2>1. UNCHANGED transferVars
      BY <1>5 DEF Connect_start
    <2> QED BY <1>0, <1>5, <2>1, ConnectStartKeeps, TransferKept DEF SocketsInv
  <1>6. CASE Connect
    <2>1. UNCHANGED transferVars
      BY <1>6 DEF Connect
    <2> QED BY <1>0, <1>6, <2>1, ConnectKeeps, TransferKept DEF SocketsInv
  <1>7. CASE Connect_lightweight
    <2>1. UNCHANGED transferVars
      BY <1>7 DEF Connect_lightweight
    <2> QED BY <1>0, <1>7, <2>1, ConnectLightweightKeeps, TransferKept DEF SocketsInv
  <1>8. CASE ListenSocket
    <2>1. UNCHANGED transferVars
      BY <1>8 DEF ListenSocket
    <2> QED BY <1>0, <1>8, <2>1, ListenKeeps, TransferKept DEF SocketsInv
  <1>9. CASE CreateListening \/ XPlat_SocketUtils_CreateListening
    <2>1. PICK found \in BOOLEAN : Binding(found)
      <3>1. Binding(TRUE) \/ Binding(FALSE)
        BY <1>9 DEF CreateListening, XPlat_SocketUtils_CreateListening, GetPort, XPlat_SocketUtils_GetPort
      <3> QED BY <3>1
    <2>2. UNCHANGED transferVars
      BY <2>1 DEF Binding
    <2>3. DialInv' /\ LstInv'
      BY <1>0, <2>1, BindingKeeps
    <2> QED BY <1>0, <2>2, <2>3, TransferKept DEF SocketsInv
  <1>10. CASE AcceptConnection \/ XPlat_SocketUtils_AcceptConnection
    <2>1. Accept
      BY <1>10 DEF AcceptConnection, XPlat_SocketUtils_AcceptConnection
    <2>2. UNCHANGED transferVars
      BY <2>1 DEF Accept
    <2> QED BY <1>0, <2>1, <2>2, AcceptKeeps, TransferKept DEF SocketsInv
  <1>11. CASE UNCHANGED socketVars
    <2>1. UNCHANGED transferVars /\ UNCHANGED endVars
      BY <1>11 DEF socketVars, transferVars, endVars
    <2> QED BY <1>0, <2>1, TransferKept, EndsKept DEF SocketsInv
  <1> QED BY <1>1, <1>2, <1>3, <1>4, <1>5, <1>6, <1>7, <1>8, <1>9, <1>10, <1>11 DEF SocketsNext, Receives

LEMMA SocketsInvImplies == ASSUME SocketsInv PROVE SocketsCorrect
  <1>0. SndInv /\ RcvInv /\ DialInv /\ LstInv /\ TotalLen \in Nat
    BY LensSummed DEF SocketsInv
  <1>1. WireIsPrefix /\ SendReportsTruth
    BY <1>0 DEF SndInv
  <1>2. BytesInPlace
    <2> SUFFICES ASSUME ~impl.interrupted PROVE BytesInPlace
      BY DEF BytesInPlace
    <2>1. /\ mem = Received(consumed) /\ consumed \in Nat
          /\ rcv.pc = "done" => rcv.ret = TotalLen /\ consumed = TotalLen
          /\ rcv.pc = "failed" => rcv.ret # TotalLen
      BY <1>0 DEF RcvInv
    <2>2. \A b \in 1..TotalLen : mem[b] \in {0, b}
      BY <2>1 DEF Received
    <2>3. rcv.pc = "done" => \A b \in 1..TotalLen : mem[b] = b
      <3>1. \A b \in 1..TotalLen : b <= TotalLen
        BY <1>0
      <3> QED BY <2>1, <3>1 DEF Received
    <2>4. rcv.pc \in {"done", "failed"} => (rcv.ret = TotalLen <=> rcv.pc = "done" /\ \A b \in 1..TotalLen : mem[b] = b)
      <3>1. CASE rcv.pc = "done"
        BY <3>1, <2>1, <2>3
      <3>2. CASE rcv.pc = "failed"
        BY <3>2, <2>1
      <3> QED BY <3>1, <3>2
    <2> QED BY <2>2, <2>4 DEF BytesInPlace
  <1>3. TriesBounded
    BY <1>0 DEF DialInv, TriesBounded
  <1>4. DescriptorsClosed
    BY <1>0 DEF DialInv, LstInv, DescriptorsClosed
  <1> QED BY <1>1, <1>2, <1>3, <1>4 DEF SocketsCorrect

\* However the kernel splits, delays or refuses the transfer of any buffers, in every mixture of
\* the four implementations, messages go through whole or are known not to have, and connecting
\* ends with what it opened accounted for (SocketUtils).
THEOREM SocketsCorrectTheorem == SocketsSpec => []SocketsCorrect
  <1>1. SocketsInit => SocketsInv
    BY SocketsInitOK
  <1>2. SocketsInv /\ [SocketsNext]_socketVars => SocketsInv'
    BY SocketsInductive
  <1>3. SocketsInv => SocketsCorrect
    BY SocketsInvImplies
  <1> QED BY <1>1, <1>2, <1>3, PTL DEF SocketsSpec

-----------------------------------------------------------------------------
\* Clock skews

Even == {x \in Int : \E k \in Int : x = 2 * k}
\* The back-ends from n down.
BackEndsBelow(n) == {b \in BackEnds : \A S \in SUBSET NodeSet : n \in S /\ ClosedDown(S) => b \in S}

DownOK(d) == d # None => d.sent \in Even /\ d.at \in Even
ReplyOK(r) == r # None => r.stamps[1] \in Even /\ r.stamps[2] \in Even /\ r.stamps[3] \in Even /\ r.at \in Even
SavedOK(s) == s.par \in Even /\ s.recv \in Even
TimesOK ==
  /\ DOMAIN down = NodeSet /\ DOMAIN saved = NodeSet /\ DOMAIN reply = NodeSet
  /\ \A n \in NodeSet : DownOK(down[n]) /\ SavedOK(saved[n]) /\ ReplyOK(reply[n])
SkewsOK ==
  /\ DOMAIN skews = DOMAIN SkewKids /\ worst \in [NodeSet -> Nat]
  /\ \A n \in DOMAIN SkewKids : skews[n] # <<>> => skews[n] \in [1..Len(SkewKids[n]) -> Int]
\* Every report is exact while no round trip was lopsided.
Exact == \A n \in NodeSet : worst[n] = 0
CumulOK ==
  /\ cumul \in [NodeSet -> Seq(Int)]
  /\ \A n \in NodeSet : cumul[n] # <<>> /\ Exact => Range(cumul[n]) = {Offset[n] - Offset[b] : b \in BackEndsBelow(n)}
SkewInv == TimesOK /\ SkewsOK /\ SkewErrorBounded /\ CumulOK

-----------------------------------------------------------------------------
\* All times of the model are even.
LEMMA EvenSum ==
  ASSUME NEW x \in Even, NEW y \in Even
  PROVE  x + y \in Even /\ x - y \in Even /\ x \in Int
  <1>1. PICK j \in Int : x = 2 * j
    BY DEF Even
  <1>2. PICK k \in Int : y = 2 * k
    BY DEF Even
  <1>3. x + y = 2 * (j + k) /\ x - y = 2 * (j - k) /\ j + k \in Int /\ j - k \in Int
    BY <1>1, <1>2
  <1>4. (\E i \in Int : x + y = 2 * i) /\ (\E i \in Int : x - y = 2 * i)
    BY <1>3
  <1>5. x \in Int /\ x + y \in Int /\ x - y \in Int
    BY <1>1, <1>2
  <1> QED BY <1>4, <1>5 DEF Even

LEMMA EvenConstants ==
  /\ \A n \in NodeSet : Offset[n] \in Even
  /\ \A l \in Latencies : l \in Even
  /\ 0 \in Even
  <1>1. ASSUME NEW x \in Int, x % 2 = 0 PROVE x \in Even
    BY <1>1 DEF Even
  <1> QED BY <1>1, TimesAssumption

LEMMA ClockEven ==
  ASSUME NEW n \in NodeSet, NEW t \in Even
  PROVE  Clock(n, t) \in Even
  BY EvenSum, EvenConstants DEF Clock

\* The latest of finitely many times is one of them.
LEMMA LatestOK ==
  ASSUME NEW N \in Nat \ {0}, NEW f, \A i \in 1..N : f[i] \in Int
  PROVE  Latest({f[i] : i \in 1..N}) \in {f[i] : i \in 1..N}
  <1> DEFINE Top(k) == \E t \in 1..k : \A u \in 1..k : f[u] <= f[t]
             S == {n \in Nat : n + 1 <= N => Top(n + 1)}
  <1>1. 0 \in S
    OBVIOUS
  <1>2. ASSUME NEW n \in Nat, n \in S PROVE n + 1 \in S
    <2>1. SUFFICES ASSUME (n + 1) + 1 <= N PROVE Top((n + 1) + 1)
      OBVIOUS
    <2>2. PICK t \in 1..(n + 1) : \A u \in 1..(n + 1) : f[u] <= f[t]
      BY <1>2, <2>1
    <2>3. f[t] \in Int /\ f[(n + 1) + 1] \in Int /\ \A u \in 1..(n + 1) : f[u] \in Int
      BY <2>1
    <2>4. CASE f[t] <= f[(n + 1) + 1]
      <3>1. \A u \in 1..((n + 1) + 1) : f[u] <= f[(n + 1) + 1]
        <4> TAKE u \in 1..((n + 1) + 1)
        <4>1. CASE u = (n + 1) + 1
          BY <4>1, <2>3
        <4>2. CASE u \in 1..(n + 1)
          BY <4>2, <2>2, <2>3, <2>4
        <4> QED BY <4>1, <4>2
      <3> QED BY <3>1
    <2>5. CASE ~(f[t] <= f[(n + 1) + 1])
      <3>1. \A u \in 1..((n + 1) + 1) : f[u] <= f[t]
        <4> TAKE u \in 1..((n + 1) + 1)
        <4>1. CASE u = (n + 1) + 1
          BY <4>1, <2>3, <2>5
        <4>2. CASE u \in 1..(n + 1)
          BY <4>2, <2>2
        <4> QED BY <4>1, <4>2
      <3>2. t \in 1..((n + 1) + 1)
        OBVIOUS
      <3> QED BY <3>1, <3>2
    <2> QED BY <2>4, <2>5
  <1> HIDE DEF S
  <1>3. N - 1 \in S
    BY <1>1, <1>2, NatInduct
  <1>4. PICK t \in 1..N : \A u \in 1..N : f[u] <= f[t]
    BY <1>3 DEF S
  <1> DEFINE T == {f[i] : i \in 1..N}
  <1>5. f[t] \in T /\ \A u \in T : u <= f[t]
    BY <1>4
  <1> HIDE DEF T
  <1>6. Latest(T) \in T
    BY <1>5 DEF Latest
  <1> QED BY <1>6 DEF T

\* The larger of two numbers.
LEMMA LatestOfTwo ==
  ASSUME NEW x \in Nat, NEW y \in Nat
  PROVE  Latest({x, y}) \in Nat /\ x <= Latest({x, y}) /\ y <= Latest({x, y})
  <1>1. \E t \in {x, y} : \A u \in {x, y} : u <= t
    OBVIOUS
  <1>2. Latest({x, y}) \in {x, y} /\ \A u \in {x, y} : u <= Latest({x, y})
    BY <1>1 DEF Latest
  <1> QED BY <1>2

\* What is wrong with an estimate is half of the difference between the two ways.
Lopsided(s, m, n, t) == Abs((t - (s[3] - Offset[m])) - (s[2] - Offset[m] - (s[1] - Offset[n])))
LEMMA EstimateOK ==
  ASSUME NEW n \in NodeSet, NEW m \in NodeSet, NEW t \in Even, NEW s,
         s[1] \in Even, s[2] \in Even, s[3] \in Even
  PROVE  /\ SkewTo(Clock(n, t), s) \in Int /\ Lopsided(s, m, n, t) \in Nat
         /\ 2 * Abs(SkewTo(Clock(n, t), s) - (Offset[n] - Offset[m])) = Lopsided(s, m, n, t)
  <1> DEFINE on == Offset[n]
             om == Offset[m]
             a == s[1]
             b == s[2]
             c == s[3]
             x == (t + on) - a - (c - b)
  <1>1. on \in Int /\ om \in Int /\ a \in Int /\ b \in Int /\ c \in Int /\ t \in Int
    BY EvenConstants DEF Even
  <1>2. x \in Even
    BY EvenSum, EvenConstants
  <1>3. SkewTo(Clock(n, t), s) = (t + on) - (c + x \div 2)
    BY DEF SkewTo, Clock
  <1>4. Lopsided(s, m, n, t) = Abs((t - (c - om)) - (b - om - (a - on)))
    BY DEF Lopsided
  <1>5. x = (t + on) - a - (c - b)
    OBVIOUS
  <1> HIDE DEF on, om, a, b, c, x
  <1>6. PICK k \in Int : x = 2 * k
    BY <1>2 DEF Even
  <1>7. x \div 2 = k
    BY <1>6
  <1>8. SkewTo(Clock(n, t), s) = (t + on) - (c + k)
    BY <1>3, <1>7
  <1> DEFINE e == ((t + on) - (c + k)) - (on - om)
             l == (t - (c - om)) - (b - om - (a - on))
  <1>9. e \in Int /\ l \in Int /\ 2 * e = l
    BY <1>1, <1>5, <1>6
  <1> HIDE DEF e, l
  <1>10. Abs(l) \in Nat /\ 2 * Abs(e) = Abs(l)
    BY <1>9 DEF Abs
  <1>11. SkewTo(Clock(n, t), s) \in Int
    BY <1>8, <1>1
  <1>12. SkewTo(Clock(n, t), s) - (on - om) = e
    BY <1>8 DEF e
  <1> QED BY <1>4, <1>10, <1>11, <1>12 DEF l, on, om


-----------------------------------------------------------------------------
\* The back-ends below a node.
LEMMA BelowBackEnd == ASSUME NEW b \in BackEnds PROVE BackEndsBelow(b) = {b}
  <1>1. {b} \in SUBSET NodeSet /\ ClosedDown({b})
    BY DEF BackEnds, ClosedDown
  <1> QED BY <1>1 DEF BackEndsBelow

LEMMA BelowRoot == BackEndsBelow(0) = BackEnds
  <1>1. \A b \in BackEnds : b \in NodeSet
    BY DEF BackEnds
  <1> QED BY <1>1, SkewAssumption DEF BackEndsBelow

LEMMA BelowInner ==
  ASSUME NEW n \in DOMAIN SkewKids
  PROVE  BackEndsBelow(n) = UNION {BackEndsBelow(SkewKids[n][i]) : i \in 1..Len(SkewKids[n])}
  <1> DEFINE K == 1..Len(SkewKids[n])
  <1>1. n \in NodeSet /\ \A i \in K : SkewKids[n][i] \in NodeSet
    BY SkewAssumption
  <1>2. ASSUME NEW b, NEW i \in K, b \in BackEndsBelow(SkewKids[n][i]) PROVE b \in BackEndsBelow(n)
    BY <1>2 DEF BackEndsBelow, ClosedDown
  <1>3. ASSUME NEW b, b \in BackEndsBelow(n), \A i \in K : b \notin BackEndsBelow(SkewKids[n][i]) PROVE FALSE
    <2> DEFINE Avoid == {S \in SUBSET NodeSet : ClosedDown(S) /\ b \notin S}
               U == {n} \cup UNION Avoid
    <2>1. b \in BackEnds /\ b # n
      BY <1>3 DEF BackEndsBelow, BackEnds
    <2>2. \A i \in K : SkewKids[n][i] \in UNION Avoid
      BY <1>3, <2>1 DEF BackEndsBelow
    <2>3. ClosedDown(U)
      <3> SUFFICES ASSUME NEW p \in DOMAIN SkewKids, p \in U, NEW i \in 1..Len(SkewKids[p]) PROVE SkewKids[p][i] \in U
        BY DEF ClosedDown
      <3>1. CASE p = n
        BY <3>1, <2>2
      <3>2. CASE p # n
        <4>1. PICK S \in Avoid : p \in S
          BY <3>2
        <4>2. SkewKids[p][i] \in S
          BY <4>1 DEF ClosedDown
        <4> QED BY <4>2
      <3> QED BY <3>1, <3>2
    <2>4. U \in SUBSET NodeSet /\ n \in U /\ b \notin U
      BY <1>1, <2>1
    <2> HIDE DEF U
    <2> QED BY <2>3, <2>4, <1>3 DEF BackEndsBelow
  <1> QED BY <1>2, <1>3

-----------------------------------------------------------------------------
\* The lists one after the other: what Cumulative computes.
Shifted(lists, local, i) == [j \in 1..Len(lists[i]) |-> lists[i][j] + local[i]]
Joined(lists, local, N, f) ==
  /\ DOMAIN f = 0..N /\ f[0] = <<>>
  /\ \A i \in 1..N : f[i] = f[i - 1] \o Shifted(lists, local, i)
LEMMA CumulativeUnfold ==
  ASSUME NEW lists, NEW local, Len(lists) \in Nat
  PROVE  \E f : Joined(lists, local, Len(lists), f) /\ Cumulative(lists, local) = f[Len(lists)]
  <1> DEFINE N == Len(lists)
             Step(g, i) == IF i = 0 THEN <<>> ELSE g[i - 1] \o [j \in 1..Len(lists[i]) |-> lists[i][j] + local[i]]
             Rec(k, g) == g = [i \in 0..k |-> Step(g, i)]
             Good(k) == \E g : Rec(k, g)
             S == {k \in Nat : Good(k)}
  <1>0. N \in Nat
    OBVIOUS
  <1>1. Good(0)
    <2> DEFINE g == [i \in 0..0 |-> <<>>]
    <2>1. Rec(0, g)
      OBVIOUS
    <2> QED BY <2>1
  <1>2. ASSUME NEW k \in Nat, Good(k) PROVE Good(k + 1)
    <2>1. PICK g : Rec(k, g)
      BY <1>2
    <2> DEFINE f == [i \in 0..(k + 1) |-> IF i = k + 1 THEN Step(g, k + 1) ELSE g[i]]
    <2>2. ASSUME NEW i \in 0..(k + 1) PROVE f[i] = Step(f, i)
      <3>1. CASE i = 0
        <4>1. g[0] = <<>>
          BY <2>1
        <4> QED BY <4>1, <3>1
      <3>2. CASE i # 0 /\ i # k + 1
        <4>1. i - 1 \in 0..k /\ i \in 0..k /\ i - 1 \in 0..(k + 1) /\ i - 1 # k + 1
          BY <3>2
        <4>2. f[i] = g[i] /\ f[i - 1] = g[i - 1]
          BY <4>1, <3>2
        <4>3. g[i] = Step(g, i)
          BY <2>1, <4>1
        <4> QED BY <4>2, <4>3, <3>2
      <3>3. CASE i = k + 1
        <4>1. i - 1 = k /\ k \in 0..(k + 1) /\ k # k + 1 /\ i # 0
          BY <3>3
        <4>2. f[k] = g[k] /\ f[i] = Step(g, k + 1)
          BY <4>1, <3>3
        <4> QED BY <4>1, <4>2, <3>3
      <3> QED BY <3>1, <3>2, <3>3
    <2>3. Rec(k + 1, f)
      BY <2>2
    <2> QED BY <2>3
  <1> HIDE DEF Good
  <1>3. Good(N)
    <2>1. 0 \in S
      BY <1>1
    <2>2. \A k \in Nat : k \in S => k + 1 \in S
      BY <1>2
    <2> HIDE DEF S
    <2>3. Nat \subseteq S
      BY <2>1, <2>2, NatInduct
    <2> QED BY <1>0, <2>3 DEF S
  <1> DEFINE total == CHOOSE f : Rec(N, f)
  <1>4. Rec(N, total)
    BY <1>3 DEF Good
  <1>5. Cumulative(lists, local) = total[N]
    BY DEF Cumulative
  <1> HIDE DEF total
  <1>6. DOMAIN total = 0..N /\ total[0] = <<>>
    BY <1>0, <1>4
  <1>7. ASSUME NEW i \in 1..N PROVE total[i] = total[i - 1] \o Shifted(lists, local, i)
    <2>1. i \in 0..N /\ i # 0
      BY <1>0
    <2>2. total[i] = Step(total, i)
      BY <1>4, <2>1
    <2> QED BY <2>1, <2>2 DEF Shifted
  <1> QED BY <1>5, <1>6, <1>7 DEF Joined

LEMMA CumulativeOK ==
  ASSUME NEW N \in Nat \ {0}, NEW lists \in [1..N -> Seq(Int)], NEW local \in [1..N -> Int]
  PROVE  /\ Cumulative(lists, local) \in Seq(Int)
         /\ Range(Cumulative(lists, local)) = UNION {{x + local[i] : x \in Range(lists[i])} : i \in 1..N}
  <1>0. Len(lists) = N
    OBVIOUS
  <1>1. PICK f : Joined(lists, local, N, f) /\ Cumulative(lists, local) = f[N]
    BY <1>0, CumulativeUnfold
  <1> DEFINE More(i) == {x + local[i] : x \in Range(lists[i])}
             All(n) == UNION {More(i) : i \in 1..n}
             S == {n \in Nat : n <= N => f[n] \in Seq(Int) /\ Range(f[n]) = All(n)}
  <1>2. ASSUME NEW i \in 1..N PROVE Shifted(lists, local, i) \in Seq(Int) /\ Range(Shifted(lists, local, i)) = More(i)
    <2> DEFINE s == Shifted(lists, local, i)
               r == lists[i]
    <2>1. r \in Seq(Int) /\ local[i] \in Int /\ Len(r) \in Nat
      OBVIOUS
    <2>2. s = [j \in 1..Len(r) |-> r[j] + local[i]]
      BY DEF Shifted
    <2>3. Range(r) = {r[j] : j \in 1..Len(r)}
      BY <2>1, RangeEquality
    <2> HIDE DEF s, r
    <2>4. s \in [1..Len(r) -> Int]
      <3>1. \A j \in 1..Len(r) : r[j] \in Int
        BY <2>1
      <3>2. \A j \in 1..Len(r) : r[j] + local[i] \in Int
        BY <2>1, <3>1
      <3> QED BY <2>2, <3>2
    <2>5. s \in Seq(Int) /\ Len(s) = Len(r)
      <3> DEFINE k == Len(r)
      <3>1. k \in Nat /\ s \in [1..k -> Int]
        BY <2>1, <2>4
      <3> HIDE DEF k
      <3>2. s \in Seq(Int) /\ Len(s) = k
        BY <3>1
      <3> QED BY <3>2 DEF k
    <2>6. Range(s) = {s[j] : j \in 1..Len(s)}
      BY <2>5, RangeEquality
    <2>7. Range(s) = {x + local[i] : x \in Range(r)}
      BY <2>2, <2>3, <2>5, <2>6
    <2> QED BY <2>5, <2>7 DEF s, r
  <1> HIDE DEF More
  <1>3. 0 \in S
    <2>1. f[0] = <<>> /\ <<>> \in Seq(Int) /\ All(0) = {}
      BY <1>1 DEF Joined
    <2>2. Range(<<>>) = {}
      BY DEF Range
    <2> QED BY <2>1, <2>2
  <1>4. ASSUME NEW n \in Nat, n \in S PROVE n + 1 \in S
    <2> SUFFICES ASSUME n + 1 <= N PROVE f[n + 1] \in Seq(Int) /\ Range(f[n + 1]) = All(n + 1)
      OBVIOUS
    <2> DEFINE s == Shifted(lists, local, n + 1)
    <2>1. n + 1 \in 1..N /\ (n + 1) - 1 = n /\ n <= N
      OBVIOUS
    <2>2. f[n + 1] = f[n] \o s
      BY <1>1, <2>1 DEF Joined
    <2>3. f[n] \in Seq(Int) /\ Range(f[n]) = All(n)
      BY <1>4, <2>1
    <2>4. s \in Seq(Int) /\ Range(s) = More(n + 1)
      BY <1>2, <2>1
    <2> HIDE DEF s
    <2>5. f[n + 1] \in Seq(Int) /\ Range(f[n + 1]) = All(n) \cup More(n + 1)
      BY <2>2, <2>3, <2>4, RangeConcatenation
    <2>6. 1..(n + 1) = (1..n) \cup {n + 1}
      OBVIOUS
    <2>7. All(n + 1) = All(n) \cup More(n + 1)
      BY <2>6
    <2> QED BY <2>5, <2>7
  <1> HIDE DEF S
  <1>5. N \in S
    BY <1>3, <1>4, NatInduct
  <1> QED BY <1>1, <1>5 DEF S, More


-----------------------------------------------------------------------------
\* The steps.
LEMMA SendDownOK ==
  ASSUME TimesOK, NEW n \in DOMAIN SkewKids, NEW t \in Even, SendDown(n, t)
  PROVE  DOMAIN down' = NodeSet /\ \A m \in NodeSet : DownOK(down'[m])
  <1> DEFINE K == 1..Len(SkewKids[n])
             Kid(m) == \E i \in K : SkewKids[n][i] = m
             at(m) == CHOOSE i \in K : SkewKids[n][i] = m
  <1>1. PICK lat \in [K -> Latencies] :
           down' = [m \in NodeSet |->
                IF m = n THEN None
                ELSE IF Kid(m) THEN [sent |-> Clock(n, t), at |-> t + lat[at(m)]] ELSE down[m]]
    BY DEF SendDown
  <1>2. Clock(n, t) \in Even
    BY ClockEven, SkewAssumption
  <1>3. ASSUME NEW m \in NodeSet PROVE DownOK(down'[m])
    <2>1. CASE m = n
      BY <1>1, <2>1 DEF DownOK
    <2>2. CASE m # n /\ Kid(m)
      <3>1. at(m) \in K
        BY <2>2
      <3>2. t + lat[at(m)] \in Even
        BY <3>1, EvenSum, EvenConstants
      <3> DEFINE a == t + lat[at(m)]
      <3>3. down'[m] = [sent |-> Clock(n, t), at |-> a]
        BY <1>1, <2>2
      <3> HIDE DEF a
      <3> QED BY <1>2, <3>2, <3>3 DEF DownOK, a
    <2>3. CASE m # n /\ ~Kid(m)
      <3>1. down'[m] = down[m]
        BY <1>1, <2>3
      <3> QED BY <3>1 DEF TimesOK, DownOK
    <2> QED BY <2>1, <2>2, <2>3
  <1> QED BY <1>1, <1>3

\* What does not touch the skews and the lists.
LEMMA SkewsKept ==
  ASSUME SkewInv, UNCHANGED <<skews, worst, cumul>>
  PROVE  SkewsOK' /\ SkewErrorBounded' /\ CumulOK'
  BY DEF SkewInv, SkewsOK, SkewErrorBounded, CumulOK, Exact, BackEndsBelow, ClosedDown, BackEnds, NodeSet, Abs

LEMMA InitKeeps == ASSUME SkewInit PROVE SkewInv
  <1>1. TimesOK
    BY EvenConstants DEF SkewInit, TimesOK, DownOK, SavedOK, ReplyOK
  <1>2. SkewsOK /\ SkewErrorBounded
    BY DEF SkewInit, SkewsOK, SkewErrorBounded
  <1>3. CumulOK
    <2>1. cumul = [n \in NodeSet |-> <<>>] /\ <<>> \in Seq(Int)
      BY DEF SkewInit
    <2> QED BY <2>1 DEF CumulOK
  <1> QED BY <1>1, <1>2, <1>3 DEF SkewInv

LEMMA BeginRoundKeeps == ASSUME SkewInv, BeginRound PROVE SkewInv'
  <1>1. SendDown(0, 0) /\ UNCHANGED <<saved, reply, skews, worst, cumul>> /\ TimesOK
    BY DEF BeginRound, SkewInv
  <1>2. DOMAIN down' = NodeSet /\ \A m \in NodeSet : DownOK(down'[m])
    BY <1>1, SendDownOK, EvenConstants, SkewAssumption
  <1>3. TimesOK'
    BY <1>1, <1>2 DEF TimesOK, DownOK, SavedOK, ReplyOK, NodeSet
  <1> QED BY <1>1, <1>3, SkewsKept DEF SkewInv

LEMMA DownstreamKeeps ==
  ASSUME SkewInv, NEW n \in NodeSet, save_LocalClockSkewDownstream(n)
  PROVE  SkewInv'
  <1>1. /\ n \in DOMAIN SkewKids /\ down[n] # None /\ SendDown(n, down[n].at) /\ TimesOK
        /\ saved' = [saved EXCEPT ![n] = [par |-> down[n].sent, recv |-> Clock(n, down[n].at)]]
        /\ UNCHANGED <<reply, skews, worst, cumul>>
    BY DEF save_LocalClockSkewDownstream, SkewInv
  <1>2. down[n].sent \in Even /\ down[n].at \in Even
    BY <1>1 DEF TimesOK, DownOK
  <1>3. DOMAIN down' = NodeSet /\ \A m \in NodeSet : DownOK(down'[m])
    BY <1>1, <1>2, SendDownOK
  <1>4. Clock(n, down[n].at) \in Even
    BY <1>2, ClockEven
  <1>5. DOMAIN saved' = NodeSet /\ \A m \in NodeSet : SavedOK(saved'[m])
    BY <1>1, <1>2, <1>4 DEF TimesOK, SavedOK
  <1>6. TimesOK'
    BY <1>1, <1>3, <1>5 DEF TimesOK, DownOK, SavedOK, ReplyOK, NodeSet
  <1> QED BY <1>1, <1>6, SkewsKept DEF SkewInv

LEMMA BackEndAnswersKeeps ==
  ASSUME SkewInv, NEW b \in NodeSet, BackEndAnswers(b)
  PROVE  SkewInv'
  <1>1. PICK work \in Latencies, lat \in Latencies :
          reply' = [reply EXCEPT ![b] =
                    [stamps |-> <<down[b].sent, Clock(b, down[b].at), Clock(b, down[b].at + work)>>,
                     at |-> down[b].at + work + lat]]
    BY DEF BackEndAnswers
  <1>2. down[b] # None /\ down' = [down EXCEPT ![b] = None] /\ UNCHANGED <<saved, skews, worst, cumul>> /\ TimesOK
    BY DEF BackEndAnswers, SkewInv
  <1>3. down[b].sent \in Even /\ down[b].at \in Even
    BY <1>2 DEF TimesOK, DownOK
  <1>4. down[b].at + work \in Even /\ down[b].at + work + lat \in Even
    BY <1>3, EvenSum, EvenConstants
  <1>5. Clock(b, down[b].at) \in Even /\ Clock(b, down[b].at + work) \in Even
    BY <1>3, <1>4, ClockEven
  <1> DEFINE x == Clock(b, down[b].at)
             y == Clock(b, down[b].at + work)
             z == down[b].at + work + lat
             r == [stamps |-> <<down[b].sent, x, y>>, at |-> z]
  <1>6. reply' = [reply EXCEPT ![b] = r]
    BY <1>1
  <1>7. ReplyOK(r)
    <2> HIDE DEF x, y, z
    <2> QED BY <1>3, <1>4, <1>5 DEF ReplyOK, x, y, z
  <1> HIDE DEF r
  <1>8. DOMAIN reply' = NodeSet /\ \A m \in NodeSet : ReplyOK(reply'[m])
    BY <1>2, <1>6, <1>7 DEF TimesOK
  <1>9. DOMAIN down' = NodeSet /\ \A m \in NodeSet : DownOK(down'[m])
    BY <1>2 DEF TimesOK, DownOK
  <1>10. TimesOK'
    BY <1>2, <1>8, <1>9 DEF TimesOK, DownOK, SavedOK, ReplyOK, NodeSet
  <1> QED BY <1>2, <1>10, SkewsKept DEF SkewInv


\* An estimate of the distance d that is off by at most half of w.
Within(x, d, w) == x \in Int /\ 2 * Abs(x - d) <= w
LEMMA WithinGrows ==
  ASSUME NEW x, NEW d \in Int, NEW v \in Nat, NEW w \in Nat, v <= w, Within(x, d, v)
  PROVE  Within(x, d, w)
  <1>1. x \in Int /\ Abs(x - d) \in Int
    BY DEF Within, Abs
  <1> QED BY <1>1 DEF Within

LEMMA BoundedIsWithin ==
  ASSUME SkewsOK
  PROVE  SkewErrorBounded <=> \A n \in DOMAIN SkewKids : skews[n] # <<>> => \A i \in 1..Len(SkewKids[n]) :
           Within(skews[n][i], Offset[n] - Offset[SkewKids[n][i]], worst[SkewKids[n][i]])
  <1>1. ASSUME NEW n \in DOMAIN SkewKids, skews[n] # <<>>, NEW i \in 1..Len(SkewKids[n])
        PROVE  skews[n][i] \in Int
    BY <1>1 DEF SkewsOK
  <1> QED BY <1>1 DEF SkewErrorBounded, Within

\* Reports stay exact while the errors only grow.
LEMMA CumulKept ==
  ASSUME SkewInv, UNCHANGED cumul, worst' \in [NodeSet -> Nat], \A m \in NodeSet : worst[m] <= worst'[m]
  PROVE  CumulOK'
  <1>1. Exact' => Exact
    <2> SUFFICES ASSUME Exact', NEW m \in NodeSet PROVE worst[m] = 0
      BY DEF Exact
    <2>1. worst'[m] = 0
      BY DEF Exact
    <2>2. worst[m] \in Nat /\ worst[m] <= worst'[m]
      BY DEF SkewInv, SkewsOK
    <2> QED BY <2>1, <2>2
  <1>2. cumul' = cumul /\ CumulOK
    BY DEF SkewInv
  <1>3. cumul' \in [NodeSet -> Seq(Int)]
    BY <1>2 DEF CumulOK
  <1>4. ASSUME NEW n \in NodeSet, cumul'[n] # <<>>, Exact'
        PROVE  Range(cumul'[n]) = {Offset[n] - Offset[b] : b \in BackEndsBelow(n)}
    BY <1>1, <1>2, <1>4 DEF CumulOK
  <1> QED BY <1>3, <1>4 DEF CumulOK

\* The answers of the children are complete: the new estimates.
LEMMA UpstreamSteps ==
  ASSUME SkewInv, NEW n \in NodeSet, save_LocalClockSkewUpstream(n)
  PROVE  /\ n \in DOMAIN SkewKids /\ UNCHANGED <<down, saved, cumul>>
         /\ DOMAIN skews' = DOMAIN SkewKids /\ \A p \in DOMAIN SkewKids : p # n => skews'[p] = skews[p]
         /\ skews'[n] = [i \in 1..Len(SkewKids[n]) |-> skews'[n][i]]
         /\ worst' \in [NodeSet -> Nat] /\ \A m \in NodeSet : worst[m] <= worst'[m]
         /\ \A i \in 1..Len(SkewKids[n]) : \E x : \E e \in Nat :
              /\ Within(x, Offset[n] - Offset[SkewKids[n][i]], e) /\ e <= worst'[SkewKids[n][i]]
              /\ skews'[n][i] = x \/ (skews[n] # <<>> /\ skews'[n][i] = skews[n][i])
         /\ DOMAIN reply' = NodeSet /\ \A m \in NodeSet : ReplyOK(reply'[m])
  <1> DEFINE kids == SkewKids[n]
             N == Len(kids)
             ats == {reply[kids[i]].at : i \in 1..N}
             t == Latest(ats)
             Kid(m) == \E i \in 1..N : kids[i] = m
             temp(i) == SkewTo(Clock(n, t), reply[kids[i]].stamps)
  <1>1. /\ n \in DOMAIN SkewKids /\ \A i \in 1..N : reply[kids[i]] # None
        /\ skews' = [skews EXCEPT ![n] = [i \in 1..N |-> IF skews[n] = <<>> THEN temp(i) ELSE Smaller(skews[n][i], temp(i))]]
        /\ worst' = [m \in NodeSet |-> IF Kid(m) THEN Latest({worst[m], Lopsided(reply[m].stamps, m, n, t)}) ELSE worst[m]]
        /\ UNCHANGED <<down, saved, cumul>>
    BY DEF save_LocalClockSkewUpstream, Lopsided
  <1>2. PICK lat \in Latencies :
          reply' = [m \in NodeSet |->
                IF Kid(m) THEN None
                ELSE IF m = n /\ n # 0
                THEN [stamps |-> <<saved[n].par, saved[n].recv, Clock(n, t)>>, at |-> t + lat]
                ELSE reply[m]]
    BY DEF save_LocalClockSkewUpstream
  <1>3. N \in Nat \ {0} /\ \A i \in 1..N : kids[i] \in NodeSet
    BY <1>1, SkewAssumption
  <1>4. \A m \in NodeSet : Kid(m) => reply[m] # None
    BY <1>1
  <1>5. \A i \in 1..N : reply[kids[i]].at \in Even
    BY <1>1, <1>3 DEF SkewInv, TimesOK, ReplyOK
  <1>6. t \in Even
    <2> DEFINE f == [i \in 1..N |-> reply[kids[i]].at]
    <2>1. \A i \in 1..N : f[i] \in Int
      BY <1>5 DEF Even
    <2>2. ats = {f[i] : i \in 1..N}
      OBVIOUS
    <2>3. \A i \in 1..N : f[i] \in Even
      BY <1>5
    <2> HIDE DEF f, N
    <2>4. Latest({f[i] : i \in 1..N}) \in {f[i] : i \in 1..N}
      BY <1>3, <2>1, LatestOK
    <2>5. t = Latest({f[i] : i \in 1..N})
      BY <2>2
    <2> QED BY <2>3, <2>4, <2>5
  <1> HIDE DEF t
  <1>7. ASSUME NEW m \in NodeSet, Kid(m)
        PROVE  /\ SkewTo(Clock(n, t), reply[m].stamps) \in Int
               /\ Lopsided(reply[m].stamps, m, n, t) \in Nat
               /\ Within(SkewTo(Clock(n, t), reply[m].stamps), Offset[n] - Offset[m], Lopsided(reply[m].stamps, m, n, t))
    <2> DEFINE s == reply[m].stamps
    <2>1. s[1] \in Even /\ s[2] \in Even /\ s[3] \in Even
      BY <1>4, <1>7 DEF SkewInv, TimesOK, ReplyOK
    <2> HIDE DEF s
    <2> DEFINE x == SkewTo(Clock(n, t), s)
               e == Lopsided(s, m, n, t)
    <2>2. x \in Int /\ e \in Nat /\ 2 * Abs(x - (Offset[n] - Offset[m])) = e
      BY <2>1, <1>6, EstimateOK
    <2>3. e <= e
      BY <2>2
    <2> HIDE DEF x, e
    <2>4. Within(x, Offset[n] - Offset[m], e)
      BY <2>2, <2>3 DEF Within
    <2> QED BY <2>2, <2>4 DEF x, e, s
  <1>8. \A m \in NodeSet : worst[m] \in Nat
    BY DEF SkewInv, SkewsOK
  <1>9. ASSUME NEW m \in NodeSet
        PROVE  /\ worst'[m] \in Nat /\ worst[m] <= worst'[m]
               /\ Kid(m) => Lopsided(reply[m].stamps, m, n, t) <= worst'[m]
    <2>1. CASE Kid(m)
      <3> DEFINE e == Lopsided(reply[m].stamps, m, n, t)
      <3>1. worst'[m] = Latest({worst[m], e}) /\ e \in Nat
        BY <1>1, <1>7, <2>1
      <3> HIDE DEF e
      <3>2. worst'[m] \in Nat /\ worst[m] <= worst'[m] /\ e <= worst'[m]
        BY <1>8, <3>1, LatestOfTwo
      <3> QED BY <3>2 DEF e
    <2>2. CASE ~Kid(m)
      <3>1. worst'[m] = worst[m]
        BY <1>1, <2>2
      <3> QED BY <1>8, <2>2, <3>1
    <2> QED BY <2>1, <2>2
  <1>10. worst' \in [NodeSet -> Nat] /\ \A m \in NodeSet : worst[m] <= worst'[m]
    <2>1. DOMAIN worst' = NodeSet /\ worst' = [m \in NodeSet |-> worst'[m]]
      BY <1>1
    <2> QED BY <2>1, <1>9
  <1>11. /\ DOMAIN skews' = DOMAIN SkewKids /\ \A p \in DOMAIN SkewKids : p # n => skews'[p] = skews[p]
         /\ skews'[n] = [i \in 1..N |-> IF skews[n] = <<>> THEN temp(i) ELSE Smaller(skews[n][i], temp(i))]
    BY <1>1 DEF SkewInv, SkewsOK
  <1>12. ASSUME NEW i \in 1..N
         PROVE  \E x : \E e \in Nat :
              /\ Within(x, Offset[n] - Offset[kids[i]], e) /\ e <= worst'[kids[i]]
              /\ skews'[n][i] = x \/ (skews[n] # <<>> /\ skews'[n][i] = skews[n][i])
    <2> DEFINE x == temp(i)
               e == Lopsided(reply[kids[i]].stamps, kids[i], n, t)
    <2>1. kids[i] \in NodeSet /\ Kid(kids[i])
      BY <1>3
    <2>2. e \in Nat /\ Within(x, Offset[n] - Offset[kids[i]], e)
      BY <1>7, <2>1
    <2>3. e <= worst'[kids[i]]
      BY <1>9, <2>1
    <2>4. skews'[n][i] = IF skews[n] = <<>> THEN x ELSE Smaller(skews[n][i], x)
      BY <1>11
    <2> HIDE DEF x, e
    <2>5. skews'[n][i] = x \/ (skews[n] # <<>> /\ skews'[n][i] = skews[n][i])
      BY <2>4 DEF Smaller
    <2> QED BY <2>2, <2>3, <2>5
  <1>13. ASSUME NEW m \in NodeSet PROVE ReplyOK(reply'[m])
    <2>1. CASE Kid(m)
      BY <1>2, <2>1 DEF ReplyOK
    <2>2. CASE ~Kid(m) /\ m = n /\ n # 0
      <3> DEFINE c == Clock(n, t)
                 z == t + lat
                 par == saved[n].par
                 recv == saved[n].recv
      <3>1. c \in Even /\ z \in Even
        BY <1>6, ClockEven, EvenSum, EvenConstants
      <3>2. par \in Even /\ recv \in Even
        BY DEF SkewInv, TimesOK, SavedOK
      <3>3. reply'[m] = [stamps |-> <<par, recv, c>>, at |-> z]
        BY <1>2, <2>2
      <3> HIDE DEF c, z, par, recv
      <3> QED BY <3>1, <3>2, <3>3 DEF ReplyOK
    <2>3. CASE ~Kid(m) /\ ~(m = n /\ n # 0)
      <3>1. reply'[m] = reply[m]
        BY <1>2, <2>3
      <3> QED BY <3>1 DEF SkewInv, TimesOK, ReplyOK
    <2> QED BY <2>1, <2>2, <2>3
  <1>14. DOMAIN reply' = NodeSet
    BY <1>2
  <1>15. skews'[n] = [i \in 1..N |-> skews'[n][i]]
    BY <1>11
  <1> QED BY <1>1, <1>10, <1>11, <1>12, <1>13, <1>14, <1>15


LEMMA UpstreamKeeps ==
  ASSUME SkewInv, NEW n \in NodeSet, save_LocalClockSkewUpstream(n)
  PROVE  SkewInv'
  <1> DEFINE N == Len(SkewKids[n])
             dist(p, i) == Offset[p] - Offset[SkewKids[p][i]]
  <1>1. /\ n \in DOMAIN SkewKids /\ UNCHANGED <<down, saved, cumul>>
        /\ DOMAIN skews' = DOMAIN SkewKids /\ \A p \in DOMAIN SkewKids : p # n => skews'[p] = skews[p]
        /\ skews'[n] = [i \in 1..N |-> skews'[n][i]]
        /\ worst' \in [NodeSet -> Nat] /\ \A m \in NodeSet : worst[m] <= worst'[m]
        /\ \A i \in 1..N : \E x : \E e \in Nat :
              /\ Within(x, dist(n, i), e) /\ e <= worst'[SkewKids[n][i]]
              /\ skews'[n][i] = x \/ (skews[n] # <<>> /\ skews'[n][i] = skews[n][i])
        /\ DOMAIN reply' = NodeSet /\ \A m \in NodeSet : ReplyOK(reply'[m])
    BY UpstreamSteps
  <1>2. TimesOK'
    BY <1>1 DEF SkewInv, TimesOK, DownOK, SavedOK, ReplyOK, NodeSet
  <1>3. CumulOK'
    BY <1>1, CumulKept
  <1>4. ASSUME NEW p \in DOMAIN SkewKids, NEW i \in 1..Len(SkewKids[p])
        PROVE  /\ dist(p, i) \in Int /\ SkewKids[p][i] \in NodeSet
               /\ worst[SkewKids[p][i]] \in Nat /\ worst'[SkewKids[p][i]] \in Nat
               /\ worst[SkewKids[p][i]] <= worst'[SkewKids[p][i]]
    <2>1. SkewKids[p][i] \in NodeSet /\ p \in NodeSet
      BY SkewAssumption
    <2>2. Offset[p] \in Int /\ Offset[SkewKids[p][i]] \in Int
      BY <2>1, TimesAssumption
    <2>3. worst \in [NodeSet -> Nat]
      BY DEF SkewInv, SkewsOK
    <2> QED BY <1>1, <2>1, <2>2, <2>3
  <1>5. ASSUME NEW p \in DOMAIN SkewKids, skews[p] # <<>>, NEW i \in 1..Len(SkewKids[p])
        PROVE  Within(skews[p][i], dist(p, i), worst'[SkewKids[p][i]])
    <2>1. Within(skews[p][i], dist(p, i), worst[SkewKids[p][i]])
      BY <1>5, BoundedIsWithin DEF SkewInv
    <2> HIDE DEF dist
    <2> QED BY <2>1, <1>4, WithinGrows
  <1>6. ASSUME NEW i \in 1..N PROVE Within(skews'[n][i], dist(n, i), worst'[SkewKids[n][i]])
    <2>1. PICK x : \E e \in Nat :
              /\ Within(x, dist(n, i), e) /\ e <= worst'[SkewKids[n][i]]
              /\ skews'[n][i] = x \/ (skews[n] # <<>> /\ skews'[n][i] = skews[n][i])
      BY <1>1
    <2>2. PICK e \in Nat :
              /\ Within(x, dist(n, i), e) /\ e <= worst'[SkewKids[n][i]]
              /\ skews'[n][i] = x \/ (skews[n] # <<>> /\ skews'[n][i] = skews[n][i])
      BY <2>1
    <2>3. CASE skews'[n][i] = x
      <3>1. dist(n, i) \in Int /\ worst'[SkewKids[n][i]] \in Nat
        BY <1>1, <1>4
      <3> HIDE DEF dist
      <3>2. Within(x, dist(n, i), worst'[SkewKids[n][i]])
        BY <2>2, <3>1, WithinGrows
      <3> QED BY <2>3, <3>2
    <2>4. CASE skews[n] # <<>> /\ skews'[n][i] = skews[n][i]
      BY <1>1, <1>5, <2>4
    <2> QED BY <2>2, <2>3, <2>4
  <1>7. ASSUME NEW p \in DOMAIN SkewKids, skews'[p] # <<>>, NEW i \in 1..Len(SkewKids[p])
        PROVE  Within(skews'[p][i], dist(p, i), worst'[SkewKids[p][i]])
    <2>1. CASE p = n
      BY <1>6, <2>1
    <2>2. CASE p # n
      BY <1>1, <1>5, <1>7, <2>2
    <2> QED BY <2>1, <2>2
  <1>8. SkewsOK'
    <2>1. ASSUME NEW p \in DOMAIN SkewKids, skews'[p] # <<>> PROVE skews'[p] \in [1..Len(SkewKids[p]) -> Int]
      <3>1. CASE p = n
        <4>1. \A i \in 1..N : skews'[n][i] \in Int
          BY <1>6 DEF Within
        <4> QED BY <1>1, <3>1, <4>1
      <3>2. CASE p # n
        <4>1. skews'[p] = skews[p]
          BY <1>1, <3>2
        <4> QED BY <4>1, <2>1 DEF SkewInv, SkewsOK
      <3> QED BY <3>1, <3>2
    <2> QED BY <1>1, <2>1 DEF SkewsOK, NodeSet
  <1>9. SkewErrorBounded'
    BY <1>7 DEF SkewErrorBounded, Within
  <1> QED BY <1>2, <1>3, <1>8, <1>9 DEF SkewInv

\* One more report: the errors do not change.
LEMMA NewReportKeeps ==
  ASSUME SkewInv, UNCHANGED <<down, saved, reply, skews, worst>>, NEW n \in NodeSet, NEW r \in Seq(Int),
         cumul' = [cumul EXCEPT ![n] = r],
         Exact => Range(r) = {Offset[n] - Offset[b] : b \in BackEndsBelow(n)}
  PROVE  SkewInv'
  <1>1. TimesOK' /\ SkewsOK' /\ SkewErrorBounded'
    BY DEF SkewInv, TimesOK, DownOK, SavedOK, ReplyOK, NodeSet, SkewsOK, SkewErrorBounded, Abs
  <1>2. Exact' <=> Exact
    BY DEF Exact, NodeSet
  <1>3. cumul \in [NodeSet -> Seq(Int)]
    BY DEF SkewInv, CumulOK
  <1>4. cumul' \in [NodeSet -> Seq(Int)]
    BY <1>3
  <1>5. ASSUME NEW m \in NodeSet, cumul'[m] # <<>>, Exact'
        PROVE  Range(cumul'[m]) = {Offset[m] - Offset[b] : b \in BackEndsBelow(m)}
    <2>1. CASE m = n
      BY <1>2, <1>3, <1>5, <2>1
    <2>2. CASE m # n
      <3>1. cumul'[m] = cumul[m]
        BY <1>3, <2>2
      <3> QED BY <1>2, <1>5, <3>1 DEF SkewInv, CumulOK
    <2> QED BY <2>1, <2>2
  <1>6. CumulOK'
    BY <1>4, <1>5 DEF CumulOK
  <1> QED BY <1>1, <1>6 DEF SkewInv

LEMMA BackEndReportsKeeps ==
  ASSUME SkewInv, NEW b \in NodeSet, BackEndReports(b)
  PROVE  SkewInv'
  <1>1. b \in BackEnds /\ cumul' = [cumul EXCEPT ![b] = <<0>>] /\ UNCHANGED <<down, saved, reply, skews, worst>>
    BY DEF BackEndReports
  <1>2. <<0>> \in Seq(Int) /\ Range(<<0>>) = {0}
    BY DEF Range
  <1>3. {Offset[b] - Offset[c] : c \in BackEndsBelow(b)} = {0}
    <2>1. Offset[b] \in Int /\ Offset[b] - Offset[b] = 0
      BY TimesAssumption
    <2> QED BY <1>1, <2>1, BelowBackEnd
  <1> QED BY <1>1, <1>2, <1>3, NewReportKeeps

LEMMA GetClockSkewKeeps ==
  ASSUME SkewInv, NEW n \in NodeSet, get_ClockSkew(n)
  PROVE  SkewInv'
  <1> DEFINE kids == SkewKids[n]
             N == Len(kids)
             lists == [i \in 1..N |-> cumul[kids[i]]]
             local == skews[n]
             r == Cumulative(lists, local)
  <1>1. /\ n \in DOMAIN SkewKids /\ skews[n] # <<>> /\ \A i \in 1..N : cumul[kids[i]] # <<>>
        /\ cumul' = [cumul EXCEPT ![n] = r] /\ UNCHANGED <<down, saved, reply, skews, worst>>
    BY DEF get_ClockSkew
  <1>2. N \in Nat \ {0} /\ \A i \in 1..N : kids[i] \in NodeSet
    BY <1>1, SkewAssumption
  <1>3. local \in [1..N -> Int] /\ worst \in [NodeSet -> Nat]
    BY <1>1 DEF SkewInv, SkewsOK
  <1>4. cumul \in [NodeSet -> Seq(Int)]
    BY DEF SkewInv, CumulOK
  <1>5. lists \in [1..N -> Seq(Int)]
    BY <1>2, <1>4
  <1>6. r \in Seq(Int) /\ Range(r) = UNION {{x + local[i] : x \in Range(lists[i])} : i \in 1..N}
    <2> HIDE DEF lists, local, N
    <2> QED BY <1>2, <1>3, <1>5, CumulativeOK
  <1>7. ASSUME Exact PROVE Range(r) = {Offset[n] - Offset[b] : b \in BackEndsBelow(n)}
    <2>1. ASSUME NEW i \in 1..N PROVE local[i] = Offset[n] - Offset[kids[i]]
      <3>1. Within(local[i], Offset[n] - Offset[kids[i]], worst[kids[i]])
        BY <1>1, BoundedIsWithin DEF SkewInv
      <3>2. worst[kids[i]] = 0
        BY <1>2, <1>7 DEF Exact
      <3>3. Offset[n] \in Int /\ Offset[kids[i]] \in Int
        BY <1>2, TimesAssumption
      <3> DEFINE x == local[i]
                 d == Offset[n] - Offset[kids[i]]
      <3>4. x \in Int /\ d \in Int /\ 2 * Abs(x - d) <= 0
        BY <3>1, <3>2, <3>3 DEF Within
      <3> HIDE DEF x, d
      <3>5. x = d
        BY <3>4 DEF Abs
      <3> QED BY <3>5 DEF x, d
    <2>2. ASSUME NEW i \in 1..N
          PROVE  {x + local[i] : x \in Range(lists[i])} = {Offset[n] - Offset[b] : b \in BackEndsBelow(kids[i])}
      <3>1. Range(lists[i]) = {Offset[kids[i]] - Offset[b] : b \in BackEndsBelow(kids[i])}
        BY <1>1, <1>2, <1>7 DEF SkewInv, CumulOK
      <3>2. {x + local[i] : x \in Range(lists[i])} = {(Offset[kids[i]] - Offset[b]) + local[i] : b \in BackEndsBelow(kids[i])}
        BY <3>1
      <3>3. ASSUME NEW b \in BackEndsBelow(kids[i])
            PROVE  (Offset[kids[i]] - Offset[b]) + local[i] = Offset[n] - Offset[b]
        <4>1. b \in NodeSet
          BY DEF BackEndsBelow, BackEnds
        <4>2. Offset[b] \in Int /\ Offset[n] \in Int /\ Offset[kids[i]] \in Int
          BY <1>2, <4>1, TimesAssumption
        <4> QED BY <2>1, <4>2
      <3> QED BY <3>2, <3>3
    <2>3. Range(r) = UNION {{Offset[n] - Offset[b] : b \in BackEndsBelow(kids[i])} : i \in 1..N}
      <3> DEFINE A(i) == {x + local[i] : x \in Range(lists[i])}
                 B(i) == {Offset[n] - Offset[b] : b \in BackEndsBelow(kids[i])}
      <3>1. \A i \in 1..N : A(i) = B(i)
        BY <2>2
      <3>2. Range(r) = UNION {A(i) : i \in 1..N}
        BY <1>6
      <3> HIDE DEF A, B, N, r
      <3>3. Range(r) = UNION {B(i) : i \in 1..N}
        BY <3>1, <3>2
      <3> QED BY <3>3 DEF B
    <2>4. BackEndsBelow(n) = UNION {BackEndsBelow(kids[i]) : i \in 1..N}
      BY <1>1, BelowInner
    <2> HIDE DEF r
    <2> QED BY <2>3, <2>4
  <1> HIDE DEF r
  <1> QED BY <1>1, <1>6, <1>7, NewReportKeeps

-----------------------------------------------------------------------------
LEMMA SkewInvImplies == ASSUME SkewInv PROVE SkewsCorrect
  <1>1. ASSUME cumul[0] # <<>>, \A n \in NodeSet : worst[n] = 0
        PROVE  {cumul[0][i] : i \in 1..Len(cumul[0])} = {Offset[0] - Offset[b] : b \in BackEnds}
    <2>1. 0 \in NodeSet /\ cumul[0] \in Seq(Int)
      BY SkewAssumption DEF SkewInv, CumulOK
    <2>2. Range(cumul[0]) = {Offset[0] - Offset[b] : b \in BackEnds}
      BY <1>1, <2>1, BelowRoot DEF SkewInv, CumulOK, Exact
    <2>3. Range(cumul[0]) = {cumul[0][i] : i \in 1..Len(cumul[0])}
      BY <2>1, RangeEquality
    <2> QED BY <2>2, <2>3
  <1> QED BY <1>1 DEF SkewsCorrect, SkewsAddUp, SkewInv

LEMMA SkewStep == ASSUME SkewInv, [SkewNext]_skewVars PROVE SkewInv'
  <1>1. CASE BeginRound
    BY <1>1, BeginRoundKeeps
  <1>2. ASSUME NEW n \in NodeSet, save_LocalClockSkewDownstream(n) PROVE SkewInv'
    BY <1>2, DownstreamKeeps
  <1>3. ASSUME NEW n \in NodeSet, BackEndAnswers(n) PROVE SkewInv'
    BY <1>3, BackEndAnswersKeeps
  <1>4. ASSUME NEW n \in NodeSet, save_LocalClockSkewUpstream(n) PROVE SkewInv'
    BY <1>4, UpstreamKeeps
  <1>5. ASSUME NEW n \in NodeSet, BackEndReports(n) PROVE SkewInv'
    BY <1>5, BackEndReportsKeeps
  <1>6. ASSUME NEW n \in NodeSet, get_ClockSkew(n) PROVE SkewInv'
    BY <1>6, GetClockSkewKeeps
  <1>7. CASE UNCHANGED skewVars
    <2>1. UNCHANGED <<down, saved, reply, skews, worst, cumul>>
      BY <1>7 DEF skewVars
    <2>2. TimesOK'
      BY <2>1 DEF SkewInv, TimesOK, DownOK, SavedOK, ReplyOK, NodeSet
    <2> QED BY <2>1, <2>2, SkewsKept DEF SkewInv
  <1> QED BY <1>1, <1>2, <1>3, <1>4, <1>5, <1>6, <1>7 DEF SkewNext

\* The skew to a child is off by at most half of the largest difference there was between the
\* way down and the way up, and links that were always even-handed are measured exactly: the
\* front-end is told the true difference to the clock of every back-end, in any tree, for any
\* offsets, latencies and number of rounds (save_LocalClockSkewUpstream, get_ClockSkew).
THEOREM SkewsCorrectTheorem == SkewSpec => []SkewsCorrect
  <1>1. SkewInit => SkewInv
    BY InitKeeps
  <1>2. SkewInv /\ [SkewNext]_skewVars => SkewInv'
    BY SkewStep
  <1>3. SkewInv => SkewsCorrect
    BY SkewInvImplies
  <1> QED BY <1>1, <1>2, <1>3, PTL DEF SkewSpec

-----------------------------------------------------------------------------
\* The packet counters.

PDThreads == Senders \cup Receivers
IsCount(q) == q = <<>> \/ \E v \in Nat : q = <<v>>
\* A thread between its read and its write has read the counter as it still is, unless
\* something came in between.
CountInv ==
  /\ count \in [Contexts -> Seq(Nat)] /\ rmw \in [PDThreads -> Nat \cup {-1}]
  /\ \A c \in Contexts : IsCount(count[c])
  /\ counted \in [Contexts -> Nat] /\ told \in [Contexts -> Nat] /\ raced \in [Contexts -> BOOLEAN]
  /\ \A t \in PDThreads : rmw[t] # -1 => raced[CtxOf(t)] \/ rmw[t] = get_DataValue(CtxOf(t))
  /\ CountedOnce

LEMMA CountValue ==
  ASSUME NEW v \in Nat
  PROVE  IsCount(<<v>>) /\ <<v>> \in Seq(Nat) /\ <<v>> # <<>> /\ <<v>>[1] = v /\ IsCount(<<>>) /\ <<>> \in Seq(Nat)
  BY DEF IsCount

LEMMA CountOf ==
  ASSUME CountInv, NEW c \in Contexts
  PROVE  get_DataValue(c) \in Nat
  BY CountValue DEF CountInv, get_DataValue, IsCount

LEMMA CtxIs == ASSUME NEW t PROVE CtxOf(t) \in Contexts
  BY DEF CtxOf, Contexts

LEMMA CountReadKeeps ==
  ASSUME CountInv, NEW t \in PDThreads, CountRead(t)
  PROVE  CountInv'
  <1> DEFINE c == CtxOf(t)
  <1>1. c \in Contexts /\ get_DataValue(c) \in Nat
    BY CtxIs, CountOf
  <1>2. rmw' = [rmw EXCEPT ![t] = get_DataValue(c)] /\ UNCHANGED <<count, counted, told, raced>>
    BY DEF CountRead
  <1>3. \A d \in Contexts : get_DataValue(d)' = get_DataValue(d)
    BY <1>2 DEF get_DataValue
  <1> HIDE DEF c
  <1>4. rmw' \in [PDThreads -> Nat \cup {-1}]
    BY <1>1, <1>2 DEF CountInv
  <1>5. ASSUME NEW u \in PDThreads, rmw'[u] # -1
        PROVE  raced'[CtxOf(u)] \/ rmw'[u] = get_DataValue(CtxOf(u))'
    BY <1>1, <1>2, <1>3, <1>5, CtxIs DEF CountInv, c
  <1>6. CountedOnce'
    BY <1>2, <1>3 DEF CountInv, CountedOnce
  <1>7. \A u \in PDThreads : CtxOf(u)' = CtxOf(u)
    BY DEF CtxOf
  <1> QED BY <1>2, <1>4, <1>5, <1>6, <1>7 DEF CountInv

LEMMA CountWriteKeeps ==
  ASSUME CountInv, NEW t \in PDThreads, CountWrite(t)
  PROVE  CountInv'
  <1> DEFINE c == CtxOf(t)
             v == rmw[t] + 1
             others == \E u \in PDThreads \ {t} : CtxOf(u) = c /\ rmw[u] # -1
  <1>1. /\ c \in Contexts /\ get_DataValue(c) \in Nat /\ rmw[t] \in Nat /\ v \in Nat
        /\ counted \in [Contexts -> Nat] /\ told \in [Contexts -> Nat] /\ raced \in [Contexts -> BOOLEAN]
    BY CtxIs, CountOf DEF CountWrite, CountInv
  <1>2. /\ count' = [count EXCEPT ![c] = <<v>>] /\ rmw' = [rmw EXCEPT ![t] = -1]
        /\ counted' = [counted EXCEPT ![c] = @ + 1] /\ told' = told
    BY DEF CountWrite, set_DataValue
  <1>3. raced' = [raced EXCEPT ![c] = @ \/ others]
    BY DEF CountWrite, PDThreads
  <1> HIDE DEF v, others
  <1>4. <<v>> \in Seq(Nat) /\ IsCount(<<v>>) /\ <<v>> # <<>> /\ <<v>>[1] = v
    BY <1>1, CountValue
  <1>5. /\ count' \in [Contexts -> Seq(Nat)] /\ rmw' \in [PDThreads -> Nat \cup {-1}]
        /\ counted' \in [Contexts -> Nat] /\ told' \in [Contexts -> Nat]
    BY <1>1, <1>2, <1>4 DEF CountInv
  <1>6. raced' \in [Contexts -> BOOLEAN]
    BY <1>1, <1>3 DEF CountInv
  <1>7. \A d \in Contexts : IsCount(count'[d])
    BY <1>1, <1>2, <1>4 DEF CountInv
  <1>8. get_DataValue(c)' = v /\ \A d \in Contexts \ {c} : get_DataValue(d)' = get_DataValue(d)
    <2>1. count'[c] = <<v>> /\ \A d \in Contexts \ {c} : count'[d] = count[d]
      BY <1>1, <1>2 DEF CountInv
    <2>2. c' = c
      BY DEF CtxOf
    <2> QED BY <1>4, <2>1, <2>2 DEF get_DataValue
  <1>9. ASSUME NEW u \in PDThreads, rmw'[u] # -1
        PROVE  raced'[CtxOf(u)] \/ rmw'[u] = get_DataValue(CtxOf(u))'
    <2>1. u # t /\ rmw'[u] = rmw[u] /\ CtxOf(u) \in Contexts /\ CtxOf(u)' = CtxOf(u)
      BY <1>2, <1>9, CtxIs DEF CountInv, CtxOf
    <2>2. CASE CtxOf(u) = c
      <3>1. others
        BY <1>9, <2>1, <2>2 DEF others
      <3> QED BY <1>1, <1>3, <2>2, <3>1
    <2>3. CASE CtxOf(u) # c
      <3>1. raced'[CtxOf(u)] = raced[CtxOf(u)] /\ get_DataValue(CtxOf(u))' = get_DataValue(CtxOf(u))
        BY <1>1, <1>3, <1>8, <2>1, <2>3
      <3> QED BY <1>9, <2>1, <3>1 DEF CountInv
    <2> QED BY <2>2, <2>3
  <1>10. CountedOnce'
    <2>1. ASSUME NEW d \in Contexts, ~raced'[d]
          PROVE  told'[d] + get_DataValue(d)' = counted'[d]
      <3>1. ~raced[d]
        BY <1>1, <1>3, <2>1
      <3>2. told[d] + get_DataValue(d) = counted[d] /\ get_DataValue(d) \in Nat
        BY <3>1, CountOf DEF CountInv, CountedOnce
      <3>3. CASE d = c
        <4>1. rmw[t] = get_DataValue(c)
          BY <1>1, <3>1, <3>3 DEF CountInv
        <4>2. get_DataValue(d)' = get_DataValue(d) + 1
          BY <1>8, <3>3, <4>1 DEF v, CtxOf
        <4> QED BY <1>1, <1>2, <3>2, <3>3, <4>2
      <3>4. CASE d # c
        BY <1>1, <1>2, <1>8, <3>2, <3>4
      <3> QED BY <3>3, <3>4
    <2> QED BY <2>1 DEF CountedOnce
  <1>11. \A u \in PDThreads : CtxOf(u)' = CtxOf(u)
    BY DEF CtxOf
  <1> QED BY <1>5, <1>6, <1>7, <1>9, <1>10, <1>11 DEF CountInv

LEMMA CountCollectKeeps ==
  ASSUME CountInv, NEW c \in Contexts, CountCollect(c)
  PROVE  CountInv'
  <1> DEFINE others == \E u \in PDThreads : CtxOf(u) = c /\ rmw[u] # -1
  <1>1. /\ get_DataValue(c) \in Nat
        /\ counted \in [Contexts -> Nat] /\ told \in [Contexts -> Nat] /\ raced \in [Contexts -> BOOLEAN]
    BY CountOf DEF CountInv
  <1>2. /\ count' = [count EXCEPT ![c] = <<>>] /\ rmw' = rmw /\ counted' = counted
        /\ told' = [told EXCEPT ![c] = @ + get_DataValue(c)]
    BY DEF CountCollect
  <1>3. raced' = [raced EXCEPT ![c] = @ \/ others]
    BY DEF CountCollect, PDThreads
  <1> HIDE DEF others
  <1>4. <<>> \in Seq(Nat) /\ IsCount(<<>>)
    BY DEF IsCount
  <1>5. /\ count' \in [Contexts -> Seq(Nat)] /\ told' \in [Contexts -> Nat]
        /\ \A d \in Contexts : IsCount(count'[d])
    BY <1>1, <1>2, <1>4 DEF CountInv
  <1>6. raced' \in [Contexts -> BOOLEAN]
    BY <1>1, <1>3
  <1>7. get_DataValue(c)' = 0 /\ \A d \in Contexts \ {c} : get_DataValue(d)' = get_DataValue(d)
    <2>1. count'[c] = <<>> /\ \A d \in Contexts \ {c} : count'[d] = count[d]
      BY <1>2 DEF CountInv
    <2> QED BY <2>1 DEF get_DataValue
  <1>8. ASSUME NEW u \in PDThreads, rmw'[u] # -1
        PROVE  raced'[CtxOf(u)] \/ rmw'[u] = get_DataValue(CtxOf(u))'
    <2>1. rmw'[u] = rmw[u] /\ CtxOf(u) \in Contexts /\ CtxOf(u)' = CtxOf(u)
      BY <1>2, CtxIs DEF CtxOf
    <2>2. CASE CtxOf(u) = c
      <3>1. others
        BY <1>8, <2>1, <2>2 DEF others
      <3> QED BY <1>1, <1>3, <2>2, <3>1
    <2>3. CASE CtxOf(u) # c
      <3>1. raced'[CtxOf(u)] = raced[CtxOf(u)] /\ get_DataValue(CtxOf(u))' = get_DataValue(CtxOf(u))
        BY <1>1, <1>3, <1>7, <2>1, <2>3
      <3> QED BY <1>8, <2>1, <3>1 DEF CountInv
    <2> QED BY <2>2, <2>3
  <1>9. CountedOnce'
    <2>1. ASSUME NEW d \in Contexts, ~raced'[d]
          PROVE  told'[d] + get_DataValue(d)' = counted'[d]
      <3>1. ~raced[d]
        BY <1>1, <1>3, <2>1
      <3>2. told[d] + get_DataValue(d) = counted[d] /\ get_DataValue(d) \in Nat
        BY <3>1, CountOf DEF CountInv, CountedOnce
      <3>3. CASE d = c
        BY <1>1, <1>2, <1>7, <3>2, <3>3
      <3>4. CASE d # c
        BY <1>1, <1>2, <1>7, <3>2, <3>4
      <3> QED BY <3>3, <3>4
    <2> QED BY <2>1 DEF CountedOnce
  <1>10. \A u \in PDThreads : CtxOf(u)' = CtxOf(u)
    BY DEF CtxOf
  <1> QED BY <1>1, <1>2, <1>5, <1>6, <1>8, <1>9, <1>10 DEF CountInv

LEMMA CountInit == PerfInit => CountInv
  <1> SUFFICES ASSUME PerfInit PROVE CountInv
    OBVIOUS
  <1>1. /\ count = [c \in Contexts |-> <<>>] /\ rmw = [t \in PDThreads |-> -1]
        /\ counted = [c \in Contexts |-> 0] /\ told = [c \in Contexts |-> 0] /\ raced = [c \in Contexts |-> FALSE]
    BY DEF PerfInit, PDThreads
  <1>2. \A c \in Contexts : get_DataValue(c) = 0 /\ IsCount(count[c])
    BY <1>1 DEF get_DataValue, IsCount
  <1>3. CountedOnce
    BY <1>1, <1>2 DEF CountedOnce
  <1> QED BY <1>1, <1>2, <1>3 DEF CountInv

\* However many threads send and receive on a stream, and whenever its counters are collected:
\* a context whose read-modify-writes never overlapped another one or a collection has counted
\* every packet exactly once.  The two critical sections of Stream::send and get_IncomingPacket
\* lose a count in no other way.
THEOREM CountedOnceTheorem == PerfSpec => []CountedOnce
  <1>1. ASSUME CountInv, UNCHANGED countVars PROVE CountInv'
    BY <1>1 DEF CountInv, countVars, CountedOnce, get_DataValue, CtxOf
  <1>2. ASSUME CountInv, [PerfNext]_perfVars PROVE CountInv'
    <2>1. CASE UNCHANGED perfVars
      BY <1>1, <1>2, <2>1 DEF perfVars
    <2>2. CASE SeriesNext
      <3>1. UNCHANGED countVars
        BY <2>2 DEF SeriesNext, enable_PerformanceData, disable_PerformanceData, print_PerformanceData, collect_PerformanceData,
           collect_Request, Network_enable_PerformanceData, Network_disable_PerformanceData, Network_print_PerformanceData,
           Network_collect_PerformanceData, add_DataInstance, proc_EnablePerfData, proc_DisablePerfData, proc_PrintPerfData,
           proc_CollectPerfData, tfilter_PerfData, collect_Return
      <3> QED BY <1>1, <1>2, <3>1
    <2>3. CASE CountNext
      BY <1>2, <2>3, CountReadKeeps, CountWriteKeeps, CountCollectKeeps DEF CountNext, PDThreads
    <2> QED BY <1>2, <2>1, <2>2, <2>3 DEF PerfNext
  <1>3. CountInv => CountedOnce
    BY DEF CountInv
  <1> QED BY <1>2, <1>3, CountInit, PTL DEF PerfSpec
=============================================================================
