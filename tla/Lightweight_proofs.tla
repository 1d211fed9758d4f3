------------------------- MODULE Lightweight_proofs -------------------------
(***************************************************************************)
(* Proofs about the lightweight back-end library.                          *)
(*                                                                         *)
(* The map of map.c, for any finite set of keys: however insert and erase  *)
(* have shaped the tree, a search finds exactly the keys that were put in  *)
(* and not taken out.  The shape is described by the set of keys in and    *)
(* below every node, T.                                                    *)
(*                                                                         *)
(* The threads that receive, for any number of them: who holds RECV_SYNC,  *)
(* that at most one thread listens, and that a thread which waits for the  *)
(* listener has one (SleepInv).                                            *)
(***************************************************************************)
EXTENDS LightContainers, LightNetwork, FiniteSetTheorems, SequenceTheorems, WellFoundedInduction, TLAPS

\* A tree of the nodes P with the given root and links: T[n] has n and the nodes below it,
\* smaller ones on the left and greater ones on the right.
Rooted(r, P, T) == P \subseteq MapKeys /\ r \in P \cup {0} /\ T[0] = {} /\ T[r] = P
Linked(L, R, P, T) ==
  \A n \in P : n \in T[n] /\ T[n] \subseteq P /\ L[n] \in P \cup {0} /\ R[n] \in P \cup {0}
Sorted(L, R, P, T) ==
  \A n, x \in P : /\ x \in T[L[n]] <=> x \in T[n] /\ x < n
                  /\ x \in T[R[n]] <=> x \in T[n] /\ n < x
\* What is below n is on the side of m that n is on.
Nested(P, T) == \A m, n, x \in P : n # m /\ n \in T[m] /\ x \in T[n] => x \in T[m] /\ x # m /\ (x < m <=> n < m)
\* Of two nodes with something below both, one is below the other.
OneBranch(P, T) == \A m, n, x \in P : x \in T[m] /\ x \in T[n] => m \in T[n] \/ n \in T[m]
Tree(r, L, R, P, T) ==
  Rooted(r, P, T) /\ Linked(L, R, P, T) /\ Sorted(L, R, P, T) /\ Nested(P, T) /\ OneBranch(P, T)

\* Node p is above or at the place that a search for the key leads to.
Guided(key, p, P, T) == \A n \in P : n # p /\ p \in T[n] => (key < n <=> p < n)

Inserted == {k \in MapKeys : shadow[k] # 0}
MapType == [root : MapNodes, left : [MapKeys -> MapNodes], right : [MapKeys -> MapNodes],
            val : [MapKeys -> MapNodes], keys : Seq(MapKeys)]
\* The array of keys lists P, each key once.
ListsOnce(s, P) ==
  /\ s \in Seq(MapKeys) /\ {s[i] : i \in 1..Len(s)} = P
  /\ \A i, j \in 1..Len(s) : s[i] = s[j] => i = j
\* What insert starts a new node with.
NoLinks(L, R, P) == \A n \in MapKeys \ P : L[n] = 0 /\ R[n] = 0
MapInv ==
  /\ doubled \in BOOLEAN
  /\ ~doubled =>
       /\ map \in MapType /\ shadow \in [MapKeys -> MapNodes] /\ map.val = shadow
       /\ ListsOnce(map.keys, Inserted) /\ NoLinks(map.left, map.right, Inserted)
       /\ \E T : Tree(map.root, map.left, map.right, Inserted, T)

-----------------------------------------------------------------------------
LEMMA KeysAreInts == MapKeys \subseteq Int /\ 0 \notin MapKeys
  BY MapKeysAssumption

\* Two nodes are not below each other.
LEMMA NotBothBelow ==
  ASSUME NEW r, NEW L, NEW R, NEW P, NEW T, Tree(r, L, R, P, T),
         NEW m \in P, NEW n \in P, m # n, n \in T[m]
  PROVE  m \notin T[n]
  BY DEF Tree, Nested

\* A node has its children below it, and no child is the node itself.
LEMMA ChildBelow ==
  ASSUME NEW r, NEW L, NEW R, NEW P, NEW T, Tree(r, L, R, P, T),
         NEW n \in P, NEW c \in P, L[n] = c \/ R[n] = c
  PROVE  /\ c \in T[n] /\ c # n /\ n \notin T[c]
         /\ L[n] = c <=> c < n
         /\ R[n] = c <=> n < c
  <1>0. n \in Int /\ c \in Int /\ c \in T[c]
    BY KeysAreInts DEF Tree, Rooted, Linked
  <1>1. CASE L[n] = c
    <2>1. c \in T[n] /\ c < n /\ n \notin T[c]
      BY <1>0, <1>1 DEF Tree, Sorted
    <2>2. R[n] # c
      BY <1>0, <2>1 DEF Tree, Sorted
    <2> QED BY <1>0, <1>1, <2>1, <2>2
  <1>2. CASE R[n] = c
    <2>1. c \in T[n] /\ n < c /\ n \notin T[c]
      BY <1>0, <1>2 DEF Tree, Sorted
    <2>2. L[n] # c
      BY <1>0, <2>1 DEF Tree, Sorted
    <2> QED BY <1>0, <1>2, <2>1, <2>2
  <1> QED BY <1>1, <1>2

\* No node has two parents, and the root has none.
LEMMA OneAbove ==
  ASSUME NEW r, NEW L, NEW R, NEW P, NEW T, Tree(r, L, R, P, T), NEW c \in P,
         NEW m \in P, L[m] = c \/ R[m] = c
  PROVE  c # r /\ \A n \in P : L[n] = c \/ R[n] = c => n = m
  <1>1. c \in T[m] /\ c # m /\ m \notin T[c]
    BY ChildBelow
  <1>2. c # r
    BY <1>1 DEF Tree, Rooted
  <1>3. ASSUME NEW n \in P, L[n] = c \/ R[n] = c, n # m PROVE FALSE
    <2>1. c \in T[n] /\ c # n /\ n \notin T[c]
      BY <1>3, ChildBelow
    <2>2. m \in T[n] \/ n \in T[m]
      BY <1>1, <2>1 DEF Tree, OneBranch
    <2>3. CASE m \in T[n]
      <3>1. c < n <=> m < n
        BY <1>1, <1>3, <2>3 DEF Tree, Nested
      <3>2. m \in Int /\ n \in Int
        BY KeysAreInts DEF Tree, Rooted
      <3>3. (L[n] = c <=> c < n) /\ (R[n] = c <=> n < c)
        BY <1>3, ChildBelow
      <3>4. (m \in T[L[n]] <=> m < n) /\ (m \in T[R[n]] <=> n < m)
        BY <2>3 DEF Tree, Sorted
      <3>5. m \in T[c]
        BY <1>3, <3>1, <3>2, <3>3, <3>4
      <3> QED BY <1>1, <3>5
    <2>4. CASE n \in T[m]
      <3>1. c < m <=> n < m
        BY <2>1, <1>3, <2>4 DEF Tree, Nested
      <3>2. m \in Int /\ n \in Int
        BY KeysAreInts DEF Tree, Rooted
      <3>3. (L[m] = c <=> c < m) /\ (R[m] = c <=> m < c)
        BY ChildBelow
      <3>4. (n \in T[L[m]] <=> n < m) /\ (n \in T[R[m]] <=> m < n)
        BY <2>4 DEF Tree, Sorted
      <3>5. n \in T[c]
        BY <1>3, <3>1, <3>2, <3>3, <3>4
      <3> QED BY <2>1, <3>5
    <2> QED BY <2>2, <2>3, <2>4
  <1> QED BY <1>2, <1>3


-----------------------------------------------------------------------------
\* Taking a node out: where it was linked there is now c, the root of what was below it.
Minus(T, k) == [n \in MapNodes |-> T[n] \ {k}]
Replaced(L, M, Q, k, c) == \A n \in Q : M[n] = IF L[n] = k THEN c ELSE L[n]
LEMMA SpliceKeepsTree ==
  ASSUME NEW r, NEW L, NEW R, NEW P, NEW T, Tree(r, L, R, P, T),
         NEW k \in P, NEW c \in (P \ {k}) \cup {0}, \A x \in P : x \in T[c] <=> x \in T[k] /\ x # k,
         NEW L2, NEW R2, Replaced(L, L2, P \ {k}, k, c), Replaced(R, R2, P \ {k}, k, c)
  PROVE  Tree(IF r = k THEN c ELSE r, L2, R2, P \ {k}, Minus(T, k))
  <1> DEFINE r2 == IF r = k THEN c ELSE r
             Q == P \ {k}
             U == Minus(T, k)
  <1>0. P \subseteq MapKeys /\ k # 0 /\ T[0] = {}
    BY KeysAreInts DEF Tree, Rooted
  <1>1. \A n \in P \cup {0} : \A x \in P : x \in U[n] <=> x \in T[n] /\ x # k
    BY <1>0 DEF Minus, MapNodes
  <1>2. \A n \in P \cup {0} : U[n] = T[n] \ {k}
    BY <1>0 DEF Minus, MapNodes
  <1> HIDE DEF U
  <1>3. Rooted(r2, Q, U)
    <2>1. r2 \in Q \cup {0} /\ U[0] = {}
      BY <1>0, <1>2 DEF Tree, Rooted
    <2>2. T[r] = P /\ r \in P \cup {0}
      BY DEF Tree, Rooted
    <2>3. CASE r = k
      <3>1. \A x \in Q : x \in T[c]
        BY <2>2, <2>3
      <3>2. T[c] \subseteq P
        BY <1>0 DEF Tree, Linked
      <3>3. T[c] \ {k} = Q
        BY <3>1, <3>2
      <3> QED BY <1>0, <1>2, <2>1, <2>3, <3>3 DEF Rooted
    <2>4. CASE r # k
      BY <1>0, <1>2, <2>1, <2>2, <2>4 DEF Rooted
    <2> QED BY <2>3, <2>4
  <1>4. Linked(L2, R2, Q, U)
    <2> SUFFICES ASSUME NEW n \in Q
                 PROVE  n \in U[n] /\ U[n] \subseteq Q /\ L2[n] \in Q \cup {0} /\ R2[n] \in Q \cup {0}
      BY DEF Linked
    <2>1. n \in T[n] /\ T[n] \subseteq P /\ L[n] \in P \cup {0} /\ R[n] \in P \cup {0}
      BY DEF Tree, Linked
    <2>2. U[n] = T[n] \ {k}
      BY <1>2
    <2>3. L2[n] \in Q \cup {0} /\ R2[n] \in Q \cup {0}
      BY <2>1 DEF Replaced
    <2> QED BY <2>1, <2>2, <2>3
  <1>5. Sorted(L2, R2, Q, U)
    <2> SUFFICES ASSUME NEW n \in Q, NEW x \in Q
                 PROVE  /\ x \in U[L2[n]] <=> x \in U[n] /\ x < n
                        /\ x \in U[R2[n]] <=> x \in U[n] /\ n < x
      BY DEF Sorted
    <2>1. L[n] \in P \cup {0} /\ R[n] \in P \cup {0} /\ L2[n] \in P \cup {0} /\ R2[n] \in P \cup {0}
      BY DEF Tree, Linked, Replaced
    <2>2. /\ x \in T[L[n]] <=> x \in T[n] /\ x < n
          /\ x \in T[R[n]] <=> x \in T[n] /\ n < x
      BY DEF Tree, Sorted
    <2>3. x \in U[L2[n]] <=> x \in T[L[n]]
      BY <1>1, <2>1 DEF Replaced
    <2>4. x \in U[R2[n]] <=> x \in T[R[n]]
      BY <1>1, <2>1 DEF Replaced
    <2>5. x \in U[n] <=> x \in T[n]
      BY <1>1
    <2> QED BY <2>2, <2>3, <2>4, <2>5
  <1>6. Nested(Q, U)
    <2>1. \A n, x \in Q : x \in U[n] <=> x \in T[n]
      BY <1>1
    <2> QED BY <2>1 DEF Tree, Nested
  <1>7. OneBranch(Q, U)
    <2>1. \A n, x \in Q : x \in U[n] <=> x \in T[n]
      BY <1>1
    <2> QED BY <2>1 DEF Tree, OneBranch
  <1> QED BY <1>3, <1>4, <1>5, <1>6, <1>7 DEF Tree, U

\* Moving a new key t to the place of k: what was below k is below t, on the same sides.
Renamed(T, k, t) ==
  [n \in MapNodes |-> IF n = t THEN (T[k] \ {k}) \cup {t} ELSE IF k \in T[n] THEN (T[n] \ {k}) \cup {t} ELSE T[n]]
SameSides(P, T, k, t) ==
  /\ \A x \in P : x # k /\ x \in T[k] => (x < k <=> x < t)
  /\ \A n \in P : n # k /\ k \in T[n] => (k < n <=> t < n)
LEMMA RenameKeepsTree ==
  ASSUME NEW r, NEW L, NEW R, NEW P, NEW T, Tree(r, L, R, P, T),
         NEW k \in P, NEW t \in MapKeys \ P, SameSides(P, T, k, t),
         NEW L2, NEW R2, Replaced(L, L2, P \ {k}, k, t), Replaced(R, R2, P \ {k}, k, t),
         L2[t] = L[k], R2[t] = R[k]
  PROVE  Tree(IF r = k THEN t ELSE r, L2, R2, (P \ {k}) \cup {t}, Renamed(T, k, t))
  <1> DEFINE r2 == IF r = k THEN t ELSE r
             Q == (P \ {k}) \cup {t}
             U == Renamed(T, k, t)
             old(n) == IF n = t THEN k ELSE n
  <1>0. P \subseteq MapKeys /\ k # 0 /\ t # 0 /\ t # k /\ T[0] = {} /\ P \subseteq Int /\ t \in Int /\ 0 \notin P
    BY KeysAreInts DEF Tree, Rooted
  <1>1. \A n \in P \cup {0} : T[n] \subseteq P
    BY <1>0 DEF Tree, Linked
  <1>2. \A n \in Q : old(n) \in P
    OBVIOUS
  <1>3. \A n \in Q \cup {0} : \A x \in Q : x \in U[n] <=> old(x) \in T[old(n)]
    <2> SUFFICES ASSUME NEW n \in Q \cup {0}, NEW x \in Q PROVE x \in U[n] <=> old(x) \in T[old(n)]
      OBVIOUS
    <2>1. n \in MapNodes
      BY <1>0 DEF MapNodes
    <2>2. CASE n = t
      BY <1>0, <1>1, <2>1, <2>2 DEF Renamed, Tree, Linked
    <2>3. CASE n # t
      <3>1. n \in P \cup {0} /\ T[n] \subseteq P
        BY <1>1, <2>3
      <3>2. U[n] = IF k \in T[n] THEN (T[n] \ {k}) \cup {t} ELSE T[n]
        BY <2>1, <2>3 DEF Renamed
      <3> QED BY <1>0, <2>3, <3>1, <3>2
    <2> QED BY <2>2, <2>3
  <1>4. \A n \in Q \cup {0} : U[n] \subseteq Q
    <2> SUFFICES ASSUME NEW n \in Q \cup {0} PROVE U[n] \subseteq Q
      OBVIOUS
    <2>1. n \in MapNodes
      BY <1>0 DEF MapNodes
    <2>2. CASE n = t
      BY <1>0, <1>1, <2>1, <2>2 DEF Renamed
    <2>3. CASE n # t
      <3>1. T[n] \subseteq P
        BY <1>1, <2>3
      <3>2. U[n] = IF k \in T[n] THEN (T[n] \ {k}) \cup {t} ELSE T[n]
        BY <2>1, <2>3 DEF Renamed
      <3> QED BY <1>0, <3>1, <3>2
    <2> QED BY <2>2, <2>3
  <1>5. U[0] = {}
    BY <1>0 DEF Renamed, MapNodes
  <1> HIDE DEF U
  <1>6. Rooted(r2, Q, U)
    <2>1. r \in P \cup {0} /\ T[r] = P /\ r # 0
      BY <1>0 DEF Tree, Rooted
    <2>2. r2 \in Q /\ old(r2) = r
      BY <1>0, <2>1
    <2>3. \A x \in Q : x \in U[r2]
      BY <1>2, <1>3, <2>1, <2>2
    <2>4. U[r2] = Q
      BY <1>4, <2>2, <2>3
    <2> QED BY <1>0, <1>5, <2>2, <2>4 DEF Rooted
  <1>7. \A n \in Q : /\ L2[n] \in Q \cup {0} /\ old(L2[n]) = L[old(n)]
                     /\ R2[n] \in Q \cup {0} /\ old(R2[n]) = R[old(n)]
    <2> SUFFICES ASSUME NEW n \in Q
                 PROVE  /\ L2[n] \in Q \cup {0} /\ old(L2[n]) = L[old(n)]
                        /\ R2[n] \in Q \cup {0} /\ old(R2[n]) = R[old(n)]
      OBVIOUS
    <2>1. CASE n = t
      <3>1. L[k] \in P \cup {0} /\ R[k] \in P \cup {0}
        BY DEF Tree, Linked
      <3>2. L[k] # k /\ R[k] # k
        BY <1>0, ChildBelow
      <3> QED BY <1>0, <2>1, <3>1, <3>2
    <2>2. CASE n # t
      <3>1. n \in P /\ n # k /\ L[n] \in P \cup {0} /\ R[n] \in P \cup {0}
        BY <2>2 DEF Tree, Linked
      <3>2. L2[n] = (IF L[n] = k THEN t ELSE L[n]) /\ R2[n] = IF R[n] = k THEN t ELSE R[n]
        BY <3>1 DEF Replaced
      <3> QED BY <1>0, <2>2, <3>1, <3>2
    <2> QED BY <2>1, <2>2
  <1>8. Linked(L2, R2, Q, U)
    <2>1. \A n \in Q : n \in U[n]
      BY <1>2, <1>3 DEF Tree, Linked
    <2> QED BY <1>4, <1>7, <2>1 DEF Linked
  \* t is on the same side of the nodes that k is above or below.
  <1>9. \A n, x \in Q : old(x) \in T[old(n)] => (x < n <=> old(x) < old(n)) /\ (n < x <=> old(n) < old(x))
    <2> SUFFICES ASSUME NEW n \in Q, NEW x \in Q, old(x) \in T[old(n)]
                 PROVE  (x < n <=> old(x) < old(n)) /\ (n < x <=> old(n) < old(x))
      OBVIOUS
    <2>0. n \in Int /\ x \in Int /\ k \in Int /\ t \in Int
      BY <1>0
    <2>1. CASE n = t /\ x # t
      <3>1. x \in P /\ x # k /\ x \in T[k] /\ x # t
        BY <2>1
      <3>2. x < k <=> x < t
        BY <3>1 DEF SameSides
      <3> QED BY <1>0, <2>0, <2>1, <3>1, <3>2
    <2>2. CASE n # t /\ x = t
      <3>1. n \in P /\ n # k /\ k \in T[n] /\ n # t
        BY <2>2
      <3>2. k < n <=> t < n
        BY <3>1 DEF SameSides
      <3> QED BY <1>0, <2>0, <2>2, <3>1, <3>2
    <2>3. CASE (n = t /\ x = t) \/ (n # t /\ x # t)
      BY <2>0, <2>3
    <2> QED BY <2>1, <2>2, <2>3
  <1> HIDE DEF Q
  <1>10. Sorted(L2, R2, Q, U)
    <2> SUFFICES ASSUME NEW n \in Q, NEW x \in Q
                 PROVE  /\ x \in U[L2[n]] <=> x \in U[n] /\ x < n
                        /\ x \in U[R2[n]] <=> x \in U[n] /\ n < x
      BY DEF Sorted
    <2> HIDE DEF old
    <2>1. /\ x \in U[L2[n]] <=> old(x) \in T[L[old(n)]]
          /\ x \in U[R2[n]] <=> old(x) \in T[R[old(n)]]
          /\ x \in U[n] <=> old(x) \in T[old(n)]
      BY <1>3, <1>7
    <2>2. /\ old(x) \in T[L[old(n)]] <=> old(x) \in T[old(n)] /\ old(x) < old(n)
          /\ old(x) \in T[R[old(n)]] <=> old(x) \in T[old(n)] /\ old(n) < old(x)
      BY <1>2 DEF Tree, Sorted
    <2>3. old(x) \in T[old(n)] => (x < n <=> old(x) < old(n)) /\ (n < x <=> old(n) < old(x))
      BY <1>9
    <2> QED BY <2>1, <2>2, <2>3
  <1>11. Nested(Q, U)
    <2> SUFFICES ASSUME NEW m \in Q, NEW n \in Q, NEW x \in Q, n # m, n \in U[m], x \in U[n]
                 PROVE  x \in U[m] /\ x # m /\ (x < m <=> n < m)
      BY DEF Nested
    <2>0. old(n) # old(m) /\ (old(x) # old(m) => x # m)
      BY DEF Q
    <2> HIDE DEF old
    <2>1. old(n) \in T[old(m)] /\ old(x) \in T[old(n)]
      BY <1>3
    <2>2. old(x) \in T[old(m)] /\ old(x) # old(m) /\ (old(x) < old(m) <=> old(n) < old(m))
      BY <1>2, <2>0, <2>1 DEF Tree, Nested
    <2>3. (x < m <=> old(x) < old(m)) /\ (n < m <=> old(n) < old(m))
      BY <1>9, <2>1, <2>2
    <2> QED BY <1>3, <2>0, <2>2, <2>3
  <1>12. OneBranch(Q, U)
    <2> SUFFICES ASSUME NEW m \in Q, NEW n \in Q, NEW x \in Q, x \in U[m], x \in U[n]
                 PROVE  m \in U[n] \/ n \in U[m]
      BY DEF OneBranch
    <2> HIDE DEF old
    <2>1. old(x) \in T[old(m)] /\ old(x) \in T[old(n)]
      BY <1>3
    <2>2. old(m) \in T[old(n)] \/ old(n) \in T[old(m)]
      BY <1>2, <2>1 DEF Tree, OneBranch
    <2> QED BY <1>3, <2>2
  <1> QED BY <1>6, <1>8, <1>10, <1>11, <1>12 DEF Tree, U, Q


\* Hanging a new key below the node that a search for it ends at.
Plus(T, k, p) ==
  [n \in MapNodes |-> IF n = k THEN {k} ELSE IF p \in T[n] THEN T[n] \cup {k} ELSE T[n]]
LEMMA GrowKeepsTree ==
  ASSUME NEW r, NEW L, NEW R, NEW P, NEW T, Tree(r, L, R, P, T),
         NEW k \in MapKeys \ P, NEW p \in P, Guided(k, p, P, T),
         NEW L2, NEW R2, L2[k] = 0, R2[k] = 0, \A n \in P \ {p} : L2[n] = L[n] /\ R2[n] = R[n],
         \/ k < p /\ L[p] = 0 /\ L2[p] = k /\ R2[p] = R[p]
         \/ p < k /\ R[p] = 0 /\ R2[p] = k /\ L2[p] = L[p]
  PROVE  Tree(r, L2, R2, P \cup {k}, Plus(T, k, p))
  <1> DEFINE Q == P \cup {k}
             U == Plus(T, k, p)
  <1>0. P \subseteq MapKeys /\ T[0] = {} /\ P \subseteq Int /\ k \in Int /\ 0 \notin P /\ k # 0
    BY KeysAreInts DEF Tree, Rooted
  <1>1. \A n \in P \cup {0} : T[n] \subseteq P
    BY <1>0 DEF Tree, Linked
  <1>2. \A n \in P \cup {0} : U[n] = IF p \in T[n] THEN T[n] \cup {k} ELSE T[n]
    BY <1>0 DEF Plus, MapNodes
  <1>3. U[k] = {k}
    BY <1>0 DEF Plus, MapNodes
  <1> HIDE DEF U
  <1>4. /\ \A n \in P \cup {0} : \A x \in P : x \in U[n] <=> x \in T[n]
        /\ \A n \in P \cup {0} : k \in U[n] <=> p \in T[n]
        /\ \A x : x \in U[k] <=> x = k
    BY <1>1, <1>2, <1>3
  <1>5. Rooted(r, Q, U)
    <2>1. T[r] = P /\ r \in P /\ U[0] = {}
      BY <1>0, <1>2 DEF Tree, Rooted
    <2>2. U[r] = Q
      BY <1>2, <2>1
    <2> QED BY <1>0, <2>1, <2>2 DEF Rooted
  <1>6. Linked(L2, R2, Q, U)
    <2> SUFFICES ASSUME NEW n \in Q
                 PROVE  n \in U[n] /\ U[n] \subseteq Q /\ L2[n] \in Q \cup {0} /\ R2[n] \in Q \cup {0}
      BY DEF Linked
    <2>1. CASE n = k
      BY <1>3, <2>1
    <2>2. CASE n # k
      <3>1. n \in T[n] /\ T[n] \subseteq P /\ L[n] \in P \cup {0} /\ R[n] \in P \cup {0}
        BY <2>2 DEF Tree, Linked
      <3>2. L2[n] \in Q \cup {0} /\ R2[n] \in Q \cup {0}
        BY <2>2, <3>1
      <3> QED BY <1>2, <2>2, <3>1, <3>2
    <2> QED BY <2>1, <2>2
  <1>7. \A n \in P : /\ k \in U[L2[n]] <=> k \in U[n] /\ k < n
                     /\ k \in U[R2[n]] <=> k \in U[n] /\ n < k
    <2> SUFFICES ASSUME NEW n \in P
                 PROVE  /\ k \in U[L2[n]] <=> k \in U[n] /\ k < n
                        /\ k \in U[R2[n]] <=> k \in U[n] /\ n < k
      OBVIOUS
    <2>0. L[n] \in P \cup {0} /\ R[n] \in P \cup {0} /\ n \in Int /\ k \in Int /\ n # k /\ p \in Int /\ n \in T[n]
      BY <1>0 DEF Tree, Linked
    <2>1. CASE n = p
      <3>1. k \in U[n] /\ k \in U[k] /\ k \notin U[0]
        BY <1>0, <1>4, <2>0, <2>1
      <3>2. p \notin T[L[p]] /\ p \notin T[R[p]]
        BY <2>0, <2>1 DEF Tree, Sorted
      <3>3. k \notin U[L[p]] /\ k \notin U[R[p]]
        BY <1>4, <2>0, <2>1, <3>2
      <3>4. (k < p => ~(p < k)) /\ (p < k => ~(k < p))
        BY <2>0
      <3> QED BY <2>1, <3>1, <3>3, <3>4
    <2>2. CASE n # p
      <3>1. L2[n] = L[n] /\ R2[n] = R[n]
        BY <2>2
      <3>2. /\ p \in T[L[n]] <=> p \in T[n] /\ p < n
            /\ p \in T[R[n]] <=> p \in T[n] /\ n < p
        BY DEF Tree, Sorted
      <3>3. p \in T[n] => (k < n <=> p < n) /\ (n < k <=> n < p)
        BY <2>0, <2>2 DEF Guided
      <3>4. (k \in U[L[n]] <=> p \in T[L[n]]) /\ (k \in U[R[n]] <=> p \in T[R[n]]) /\ (k \in U[n] <=> p \in T[n])
        BY <1>4, <2>0
      <3> QED BY <3>1, <3>2, <3>3, <3>4
    <2> QED BY <2>1, <2>2
  <1>8. Sorted(L2, R2, Q, U)
    <2> SUFFICES ASSUME NEW n \in Q, NEW x \in Q
                 PROVE  /\ x \in U[L2[n]] <=> x \in U[n] /\ x < n
                        /\ x \in U[R2[n]] <=> x \in U[n] /\ n < x
      BY DEF Sorted
    <2>1. CASE n = k
      <3>1. L2[n] = 0 /\ R2[n] = 0 /\ U[0] = {}
        BY <1>0, <1>2, <2>1
      <3>2. x \in U[n] => x = n /\ ~(x < n) /\ ~(n < x)
        BY <1>0, <1>4, <2>1
      <3> QED BY <3>1, <3>2
    <2>2. CASE n # k /\ x = k
      BY <1>7, <2>2
    <2>3. CASE n # k /\ x # k
      <3>0. n \in P /\ x \in P /\ L[n] \in P \cup {0} /\ R[n] \in P \cup {0}
        BY <2>3 DEF Tree, Linked
      <3>1. /\ x \in T[L[n]] <=> x \in T[n] /\ x < n
            /\ x \in T[R[n]] <=> x \in T[n] /\ n < x
        BY <3>0 DEF Tree, Sorted
      <3>2. (x \in U[L[n]] <=> x \in T[L[n]]) /\ (x \in U[R[n]] <=> x \in T[R[n]]) /\ (x \in U[n] <=> x \in T[n])
        BY <1>4, <3>0
      <3>3. x \in U[L2[n]] <=> x \in T[L[n]]
        <4>1. CASE L2[n] = L[n]
          BY <3>2, <4>1
        <4>2. CASE L2[n] # L[n]
          <5>1. L2[n] = k /\ L[n] = 0
            BY <3>0, <4>2
          <5> QED BY <1>0, <1>4, <2>3, <5>1
        <4> QED BY <4>1, <4>2
      <3>4. x \in U[R2[n]] <=> x \in T[R[n]]
        <4>1. CASE R2[n] = R[n]
          BY <3>2, <4>1
        <4>2. CASE R2[n] # R[n]
          <5>1. R2[n] = k /\ R[n] = 0
            BY <3>0, <4>2
          <5> QED BY <1>0, <1>4, <2>3, <5>1
        <4> QED BY <4>1, <4>2
      <3> QED BY <3>1, <3>2, <3>3, <3>4
    <2> QED BY <2>1, <2>2, <2>3
  <1>9. Nested(Q, U)
    <2> SUFFICES ASSUME NEW m \in Q, NEW n \in Q, NEW x \in Q, n # m, n \in U[m], x \in U[n]
                 PROVE  x \in U[m] /\ x # m /\ (x < m <=> n < m)
      BY DEF Nested
    <2>1. m # k
      BY <1>4
    <2>2. CASE n = k
      BY <1>4, <2>1, <2>2
    <2>3. CASE n # k /\ x # k
      <3>1. m \in P /\ n \in P /\ x \in P
        BY <2>1, <2>3
      <3>2. n \in T[m] /\ x \in T[n]
        BY <1>4, <3>1
      <3>3. x \in T[m] /\ x # m /\ (x < m <=> n < m)
        BY <3>1, <3>2 DEF Tree, Nested
      <3> QED BY <1>4, <3>1, <3>3
    <2>4. CASE n # k /\ x = k
      <3>1. m \in P /\ n \in P
        BY <2>1, <2>4
      <3>2. n \in T[m] /\ p \in T[n]
        BY <1>4, <2>4, <3>1
      <3>3. p \in T[m] /\ p # m /\ (p < m <=> n < m)
        BY <3>1, <3>2 DEF Tree, Nested
      <3>4. k < m <=> p < m
        BY <3>1, <3>3 DEF Guided
      <3>5. k \in U[m]
        BY <1>4, <3>1, <3>3
      <3> QED BY <2>1, <2>4, <3>3, <3>4, <3>5
    <2> QED BY <2>2, <2>3, <2>4
  <1>10. OneBranch(Q, U)
    <2> SUFFICES ASSUME NEW m \in Q, NEW n \in Q, NEW x \in Q, x \in U[m], x \in U[n]
                 PROVE  m \in U[n] \/ n \in U[m]
      BY DEF OneBranch
    <2>1. CASE m = k \/ n = k
      BY <1>4, <2>1
    <2>2. CASE m # k /\ n # k /\ x # k
      <3>1. m \in P /\ n \in P /\ x \in P
        BY <2>2
      <3>2. m \in T[n] \/ n \in T[m]
        BY <1>4, <3>1 DEF Tree, OneBranch
      <3> QED BY <1>4, <3>1, <3>2
    <2>3. CASE m # k /\ n # k /\ x = k
      <3>1. m \in P /\ n \in P
        BY <2>3
      <3>2. p \in T[m] /\ p \in T[n]
        BY <1>4, <2>3, <3>1
      <3>3. m \in T[n] \/ n \in T[m]
        BY <3>1, <3>2 DEF Tree, OneBranch
      <3> QED BY <1>4, <3>1, <3>3
    <2> QED BY <2>1, <2>2, <2>3
  <1> QED BY <1>5, <1>6, <1>8, <1>9, <1>10 DEF Tree, U

\* The first key is the root.
LEMMA FirstKeepsTree ==
  ASSUME NEW L, NEW R, NEW k \in MapKeys, L[k] = 0, R[k] = 0
  PROVE  Tree(k, L, R, {k}, [n \in MapNodes |-> IF n = k THEN {k} ELSE {}])
  <1> DEFINE U == [n \in MapNodes |-> IF n = k THEN {k} ELSE {}]
  <1>1. U[k] = {k} /\ U[0] = {} /\ k \in Int
    BY KeysAreInts DEF MapNodes
  <1> HIDE DEF U
  <1>2. Rooted(k, {k}, U) /\ Linked(L, R, {k}, U)
    BY <1>1 DEF Rooted, Linked
  <1>3. Sorted(L, R, {k}, U)
    BY <1>1 DEF Sorted
  <1>4. Nested({k}, U) /\ OneBranch({k}, U)
    BY <1>1 DEF Nested, OneBranch
  <1> QED BY <1>2, <1>3, <1>4 DEF Tree, U


-----------------------------------------------------------------------------
\* Induction over the numbers, with a set in the place of a predicate.
LEMMA Induction ==
  ASSUME NEW S, 0 \in S, \A n \in Nat : n \in S => n + 1 \in S
  PROVE  Nat \subseteq S
  <1> SUFFICES ASSUME Nat \ S # {} PROVE FALSE
    OBVIOUS
  <1> DEFINE Less == OpToRel(<, Nat)
  <1>1. IsWellFoundedOn(Less, Nat)
    BY NatLessThanWellFounded, Zenon
  <1>2. Less = {ss \in Nat \X Nat : ss[1] < ss[2]}
    BY DEF OpToRel
  <1> HIDE DEF Less
  <1>3. PICK x \in Nat \ S : \A y \in Nat \ S : ~(<<y, x>> \in Less)
    BY <1>1, WFMin
  <1>4. x # 0 /\ x - 1 \in Nat /\ x - 1 < x
    BY <1>3
  <1>5. x - 1 \in S
    BY <1>2, <1>3, <1>4
  <1> QED BY <1>3, <1>4, <1>5

\* The places that a descent comes to.
LEMMA DescentUnfolds ==
  ASSUME NEW next, NEW from
  PROVE  \E at : /\ at[0] = from /\ Descend(next, from) = at[Cardinality(MapKeys)]
                 /\ \A n \in 0..Cardinality(MapKeys) : n # 0 => at[n] = next[at[n - 1]]
  <1> DEFINE N == Cardinality(MapKeys)
             Rec(k, f) == f = [n \in 0..k |-> IF n = 0 THEN from ELSE next[f[n - 1]]]
             Good(k) == \E f : Rec(k, f)
             S == {k \in Nat : Good(k)}
  <1>0. N \in Nat
    BY MapKeysAssumption, FS_CardinalityType
  <1>1. Good(0)
    <2> DEFINE f == [n \in 0..0 |-> from]
    <2>1. Rec(0, f)
      OBVIOUS
    <2> QED BY <2>1
  <1>2. ASSUME NEW k \in Nat, Good(k) PROVE Good(k + 1)
    <2>1. PICK g : Rec(k, g)
      BY <1>2
    <2> DEFINE f == [n \in 0..(k + 1) |-> IF n = k + 1 THEN next[g[k]] ELSE g[n]]
    <2>2. ASSUME NEW n \in 0..(k + 1)
          PROVE  f[n] = IF n = 0 THEN from ELSE next[f[n - 1]]
      <3>1. CASE n = 0
        BY <2>1, <3>1
      <3>2. CASE n # 0 /\ n # k + 1
        <4>1. n - 1 \in 0..k /\ n \in 0..k /\ n - 1 \in 0..(k + 1) /\ n - 1 # k + 1
          BY <3>2
        <4>2. f[n] = g[n] /\ f[n - 1] = g[n - 1]
          BY <4>1, <3>2
        <4>3. g[n] = next[g[n - 1]]
          BY <2>1, <4>1, <3>2
        <4> QED BY <4>2, <4>3, <3>2
      <3>3. CASE n = k + 1
        BY <3>3
      <3> QED BY <3>1, <3>2, <3>3
    <2>3. Rec(k + 1, f)
      BY <2>2
    <2> QED BY <2>3
  <1> HIDE DEF Good
  <1>3. Good(N)
    <2>1. 0 \in S
      BY <1>1
    <2>2. \A k \in Nat : k \in S => k + 1 \in S
      BY <1>2
    <2> HIDE DEF S
    <2>3. Nat \subseteq S
      BY <2>1, <2>2, Induction
    <2> QED BY <1>0, <2>3 DEF S
  <1> DEFINE place == CHOOSE f : Rec(N, f)
  <1>4. Rec(N, place)
    BY <1>3 DEF Good
  <1>5. Descend(next, from) = place[N]
    BY DEF Descend
  <1> HIDE DEF place
  <1>6. place[0] = from /\ \A n \in 0..N : n # 0 => place[n] = next[place[n - 1]]
    BY <1>0, <1>4
  <1> QED BY <1>5, <1>6

\* A descent that gets into smaller and smaller sets until it stops has stopped at its end.
Shrinks(next, Places, size) ==
  \A p \in Places : /\ next[p] \in Places /\ size[p] \subseteq MapKeys
                    /\ next[p] = p \/ (size[next[p]] \subseteq size[p] /\ size[next[p]] # size[p])
LEMMA DescentEnds ==
  ASSUME NEW next, NEW from, NEW Places, NEW size, from \in Places, Shrinks(next, Places, size)
  PROVE  Descend(next, from) \in Places /\ next[Descend(next, from)] = Descend(next, from)
  <1> DEFINE N == Cardinality(MapKeys)
  <1>0. N \in Nat /\ IsFiniteSet(MapKeys)
    BY MapKeysAssumption, FS_CardinalityType
  <1>1. PICK at : /\ at[0] = from /\ Descend(next, from) = at[N]
                  /\ \A n \in 0..N : n # 0 => at[n] = next[at[n - 1]]
    BY DescentUnfolds
  <1>2. \A p \in Places : Cardinality(size[p]) \in Nat /\ IsFiniteSet(size[p]) /\ Cardinality(size[p]) <= N
    <2> SUFFICES ASSUME NEW p \in Places
                 PROVE  Cardinality(size[p]) \in Nat /\ IsFiniteSet(size[p]) /\ Cardinality(size[p]) <= N
      OBVIOUS
    <2>1. size[p] \in SUBSET MapKeys
      BY DEF Shrinks
    <2> QED BY <1>0, <2>1, FS_Subset, FS_CardinalityType
  <1>3. \A p \in Places : next[p] # p => Cardinality(size[next[p]]) < Cardinality(size[p])
    <2> SUFFICES ASSUME NEW p \in Places, next[p] # p
                 PROVE  Cardinality(size[next[p]]) < Cardinality(size[p])
      OBVIOUS
    <2>1. size[next[p]] \in SUBSET size[p] /\ size[next[p]] # size[p] /\ next[p] \in Places
      BY DEF Shrinks
    <2>2. Cardinality(size[next[p]]) <= Cardinality(size[p])
          /\ (Cardinality(size[next[p]]) = Cardinality(size[p]) => size[next[p]] = size[p])
      BY <1>2, <2>1, FS_Subset
    <2> QED BY <1>2, <2>1, <2>2
  <1> DEFINE S == {n \in Nat : n <= N => /\ at[n] \in Places
                                         /\ next[at[n]] = at[n] \/ Cardinality(size[at[n]]) <= N - n}
  <1>4. 0 \in S
    BY <1>0, <1>1, <1>2
  <1>5. ASSUME NEW n \in Nat, n \in S PROVE n + 1 \in S
    <2> SUFFICES ASSUME n + 1 <= N
                 PROVE  /\ at[n + 1] \in Places
                        /\ next[at[n + 1]] = at[n + 1] \/ Cardinality(size[at[n + 1]]) <= N - (n + 1)
      OBVIOUS
    <2>1. n + 1 \in 0..N /\ n + 1 # 0 /\ (n + 1) - 1 = n /\ n <= N
      BY <1>0
    <2>2. at[n + 1] = next[at[n]]
      BY <1>1, <2>1
    <2>3. at[n] \in Places /\ (next[at[n]] = at[n] \/ Cardinality(size[at[n]]) <= N - n)
      BY <1>5, <2>1
    <2>4. at[n + 1] \in Places
      BY <2>2, <2>3 DEF Shrinks
    <2>5. CASE next[at[n]] = at[n]
      BY <2>2, <2>4, <2>5
    <2>6. CASE next[at[n]] # at[n]
      <3>1. Cardinality(size[at[n + 1]]) < Cardinality(size[at[n]]) /\ Cardinality(size[at[n]]) <= N - n
        BY <1>3, <2>2, <2>3, <2>6
      <3>2. Cardinality(size[at[n + 1]]) \in Nat /\ Cardinality(size[at[n]]) \in Nat
        BY <1>2, <2>3, <2>4
      <3>3. \A a, b \in Nat : a < b /\ b <= N - n => a <= N - (n + 1)
        BY <1>0
      <3> QED BY <2>4, <3>1, <3>2, <3>3
    <2> QED BY <2>5, <2>6
  <1>6. at[N] \in Places /\ (next[at[N]] = at[N] \/ Cardinality(size[at[N]]) <= 0)
    <2>1. Nat \subseteq S
      <3> HIDE DEF S
      <3> QED BY <1>4, <1>5, Induction
    <2> QED BY <1>0, <2>1
  <1>7. next[at[N]] = at[N]
    <2> SUFFICES ASSUME next[at[N]] # at[N] PROVE FALSE
      OBVIOUS
    <2>1. Cardinality(size[next[at[N]]]) < Cardinality(size[at[N]]) /\ next[at[N]] \in Places
      BY <1>3, <1>6 DEF Shrinks
    <2>2. Cardinality(size[next[at[N]]]) \in Nat /\ Cardinality(size[at[N]]) \in Nat
      BY <1>2, <1>6, <2>1
    <2> QED BY <1>6, <2>1, <2>2
  <1> QED BY <1>1, <1>6, <1>7


-----------------------------------------------------------------------------
\* A search starts at a place it is guided to, and a step down keeps it there.
LEMMA GuidedToRoot ==
  ASSUME NEW r, NEW L, NEW R, NEW P, NEW T, Tree(r, L, R, P, T), NEW key, r # 0
  PROVE  r \in P /\ Guided(key, r, P, T)
  <1>1. r \in P /\ T[r] = P
    BY DEF Tree, Rooted
  <1>2. \A n \in P : n # r => r \notin T[n]
    BY <1>1, NotBothBelow
  <1> QED BY <1>1, <1>2 DEF Guided

LEMMA GuidedDown ==
  ASSUME NEW r, NEW L, NEW R, NEW P, NEW T, Tree(r, L, R, P, T), NEW key \in MapKeys,
         NEW p \in P, p # key, Guided(key, p, P, T),
         NEW c \in P, c = IF key < p THEN L[p] ELSE R[p]
  PROVE  Guided(key, c, P, T)
  <1> SUFFICES ASSUME NEW n \in P, n # c, c \in T[n] PROVE key < n <=> c < n
    BY DEF Guided
  <1>0. key \in Int /\ p \in Int /\ n \in Int /\ c \in Int /\ c \in T[c]
    BY KeysAreInts DEF Tree, Rooted, Linked
  <1>1. c \in T[p] /\ c # p /\ p \notin T[c] /\ (c < p <=> key < p)
    <2>1. c \in T[p] /\ c # p /\ p \notin T[c] /\ (L[p] = c <=> c < p) /\ (R[p] = c <=> p < c)
      BY ChildBelow
    <2> QED BY <1>0, <2>1
  <1>2. n \in T[p] \/ p \in T[n]
    BY <1>1 DEF Tree, OneBranch
  <1>3. CASE n = p
    BY <1>1, <1>3
  <1>4. CASE n # p /\ p \in T[n]
    <2>1. c < n <=> p < n
      BY <1>1, <1>4 DEF Tree, Nested
    <2>2. key < n <=> p < n
      BY <1>4 DEF Guided
    <2> QED BY <2>1, <2>2
  <1>5. CASE n # p /\ n \in T[p]
    <2>1. c < p <=> n < p
      BY <1>5 DEF Tree, Nested
    <2>2. (n \in T[L[p]] <=> n < p) /\ (n \in T[R[p]] <=> p < n)
      BY <1>5 DEF Tree, Sorted
    <2>3. n \in T[c]
      BY <1>0, <1>1, <1>5, <2>1, <2>2
    <2>4. n \notin T[c]
      BY NotBothBelow
    <2> QED BY <2>3, <2>4
  <1> QED BY <1>2, <1>3, <1>4, <1>5

\* Where a search for a key can be: at a node it is guided to, or at a missing child of one.
SearchedTo(key, p, r, L, R, P, T) ==
  /\ p.node \in P \cup {0} /\ (p.node # 0 => Guided(key, p.node, P, T))
  /\ key \in P => p.node # 0 /\ key \in T[p.node]
  /\ \/ p.parent = 0 /\ p.node = r
     \/ /\ p.parent \in P /\ p.parent # key /\ Guided(key, p.parent, P, T)
        /\ p.node = IF key < p.parent THEN L[p.parent] ELSE R[p.parent]
LEMMA SearchFinds ==
  ASSUME NEW m \in MapType, NEW P, NEW T, Tree(m.root, m.left, m.right, P, T), NEW key \in MapKeys
  PROVE  /\ SearchedTo(key, find_node_recursive(m, key), m.root, m.left, m.right, P, T)
         /\ find_node_recursive(m, key).node = IF key \in P THEN key ELSE 0
  <1> DEFINE r == m.root
             L == m.left
             R == m.right
             Place == [parent : MapNodes, node : MapNodes]
             Places == {p \in Place : SearchedTo(key, p, r, L, R, P, T)}
             size == [p \in Places |-> T[p.node]]
             next == SearchStep(m, key)
             from == [parent |-> 0, node |-> m.root]
  <1>0. /\ P \subseteq MapKeys /\ P \subseteq Int /\ 0 \notin P /\ key \in Int /\ r \in P \cup {0} /\ T[0] = {} /\ T[r] = P
        /\ \A n \in P : n \in T[n] /\ T[n] \subseteq P /\ L[n] \in P \cup {0} /\ R[n] \in P \cup {0}
    BY KeysAreInts DEF Tree, Rooted, Linked
  <1>1. from \in Places
    <2>1. from \in Place /\ from.node = r /\ from.parent = 0
      BY <1>0 DEF MapNodes
    <2>2. r # 0 => Guided(key, r, P, T)
      BY GuidedToRoot
    <2>3. SearchedTo(key, from, r, L, R, P, T)
      BY <1>0, <2>1, <2>2 DEF SearchedTo
    <2> QED BY <2>1, <2>3
  <1>2. Shrinks(next, Places, size)
    <2> SUFFICES ASSUME NEW p \in Places
                 PROVE  /\ next[p] \in Places /\ size[p] \subseteq MapKeys
                        /\ next[p] = p \/ (size[next[p]] \subseteq size[p] /\ size[next[p]] # size[p])
      BY DEF Shrinks
    <2> DEFINE n == p.node
               c == IF key < n THEN L[n] ELSE R[n]
               q == [parent |-> n, node |-> c]
    <2>1. p \in Place /\ SearchedTo(key, p, r, L, R, P, T) /\ n \in P \cup {0}
      BY DEF SearchedTo
    <2>2. size[p] = T[n] /\ size[p] \subseteq MapKeys
      BY <1>0, <2>1
    <2>3. next[p] = IF n = 0 \/ n = key THEN p ELSE q
      BY <2>1 DEF SearchStep
    <2>4. CASE n = 0 \/ n = key
      <3>1. next[p] = p
        BY <2>3, <2>4
      <3> HIDE DEF next, size, Places
      <3> QED BY <2>2, <3>1
    <2>5. CASE ~(n = 0 \/ n = key)
      <3>1. n \in P /\ n # key /\ Guided(key, n, P, T) /\ (key \in P => key \in T[n]) /\ n \in Int
        BY <1>0, <2>1, <2>5 DEF SearchedTo
      <3>2. c \in P \cup {0} /\ n \in T[n] /\ T[n] \subseteq P
        BY <1>0, <3>1
      <3>3. \A x \in P : x \in T[c] <=> x \in T[n] /\ (IF key < n THEN x < n ELSE n < x)
        BY <3>1 DEF Tree, Sorted
      <3>4. T[c] \subseteq P
        BY <1>0, <3>2
      <3>5. T[c] \subseteq T[n] /\ n \notin T[c]
        <4>1. ~(n < n)
          BY <3>1
        <4>2. n \notin T[c]
          BY <3>1, <3>3, <4>1
        <4>3. T[c] \subseteq T[n]
          BY <3>3, <3>4
        <4> QED BY <4>2, <4>3
      <3>6. key \in P => key \in T[c] /\ c # 0
        BY <1>0, <3>1, <3>3
      <3>7. c # 0 => Guided(key, c, P, T)
        BY <3>1, <3>2, GuidedDown
      <3>8. q \in Place /\ q.parent = n /\ q.node = c
        BY <1>0, <3>1, <3>2 DEF MapNodes
      <3> HIDE DEF q, c
      <3>9. SearchedTo(key, q, r, L, R, P, T)
        <4>1. q.node = IF key < q.parent THEN L[q.parent] ELSE R[q.parent]
          BY <3>8 DEF c
        <4> QED BY <3>1, <3>2, <3>6, <3>7, <3>8, <4>1 DEF SearchedTo
      <3>10. q \in Places /\ size[q] = T[c]
        BY <3>8, <3>9
      <3> QED BY <2>2, <2>3, <2>5, <3>2, <3>5, <3>10
    <2> QED BY <2>4, <2>5
  <1> DEFINE f == find_node_recursive(m, key)
  <1>3. f = Descend(next, from)
    BY DEF find_node_recursive
  <1>4. f \in Places /\ next[f] = f
    <2> HIDE DEF Places, size, next, from, f
    <2> QED BY <1>1, <1>2, <1>3, DescentEnds
  <1> HIDE DEF f, from
  <1>5. f \in Place /\ SearchedTo(key, f, r, L, R, P, T)
    BY <1>4
  <1>6. f.node = 0 \/ f.node = key
    <2> SUFFICES ASSUME f.node # 0, f.node # key PROVE FALSE
      OBVIOUS
    <2> DEFINE c == IF key < f.node THEN L[f.node] ELSE R[f.node]
               q == [parent |-> f.node, node |-> c]
    <2>1. next[f] = q
      BY <1>5 DEF SearchStep
    <2>2. f.node = c
      BY <1>4, <2>1
    <2>3. f.node \in P
      BY <1>5 DEF SearchedTo
    <2> QED BY <2>2, <2>3, ChildBelow
  <1>7. f.node = IF key \in P THEN key ELSE 0
    BY <1>5, <1>6 DEF SearchedTo
  <1> QED BY <1>5, <1>7 DEF f

\* The walk to the right from a left child ends at the greatest key on the left.
GreatestLeft(key, p, L, R, P, T) ==
  /\ p.node \in T[L[key]] /\ (\A x \in T[L[key]] : x \in T[p.node] \/ x < p.node)
  /\ p.parent \in P /\ (L[p.parent] = p.node \/ R[p.parent] = p.node)
LEMMA RightmostIsGreatest ==
  ASSUME NEW m \in MapType, NEW P, NEW T, Tree(m.root, m.left, m.right, P, T), NEW key \in P, m.left[key] # 0
  PROVE  /\ GreatestLeft(key, Rightmost(m, key), m.left, m.right, P, T)
         /\ Rightmost(m, key).node \in P /\ m.right[Rightmost(m, key).node] = 0
  <1> DEFINE L == m.left
             R == m.right
             Place == [parent : MapKeys, node : MapKeys]
             Places == {p \in Place : GreatestLeft(key, p, L, R, P, T)}
             size == [p \in Places |-> T[p.node]]
             next == RightStep(m)
             from == [parent |-> key, node |-> m.left[key]]
  <1>0. /\ P \subseteq MapKeys /\ P \subseteq Int /\ 0 \notin P /\ T[0] = {} /\ L[key] \in P /\ T[L[key]] \subseteq P
        /\ \A n \in P : n \in T[n] /\ T[n] \subseteq P /\ L[n] \in P \cup {0} /\ R[n] \in P \cup {0}
    BY KeysAreInts DEF Tree, Rooted, Linked
  <1>1. from \in Places
    <2>1. from \in Place /\ from.node = L[key] /\ from.parent = key
      BY <1>0
    <2>2. GreatestLeft(key, from, L, R, P, T)
      BY <1>0, <2>1 DEF GreatestLeft
    <2> QED BY <2>1, <2>2
  <1>2. Shrinks(next, Places, size)
    <2> SUFFICES ASSUME NEW p \in Places
                 PROVE  /\ next[p] \in Places /\ size[p] \subseteq MapKeys
                        /\ next[p] = p \/ (size[next[p]] \subseteq size[p] /\ size[next[p]] # size[p])
      BY DEF Shrinks
    <2> DEFINE n == p.node
               c == R[n]
               q == [parent |-> n, node |-> c]
    <2>1. p \in Place /\ GreatestLeft(key, p, L, R, P, T) /\ n \in P
      BY <1>0 DEF GreatestLeft
    <2>2. size[p] = T[n] /\ size[p] \subseteq MapKeys
      BY <1>0, <2>1
    <2>3. next[p] = IF R[n] = 0 THEN p ELSE q
      BY <2>1 DEF RightStep
    <2>4. CASE R[n] = 0
      <3>1. next[p] = p
        BY <2>3, <2>4
      <3> HIDE DEF next, size, Places
      <3> QED BY <2>2, <3>1
    <2>5. CASE R[n] # 0
      <3>1. c \in P /\ n \in T[n] /\ T[n] \subseteq P /\ T[c] \subseteq P /\ n \in Int /\ c \in Int /\ c \in T[c]
        BY <1>0, <2>1, <2>5
      <3>2. \A x \in P : x \in T[c] <=> x \in T[n] /\ n < x
        BY <2>1 DEF Tree, Sorted
      <3>3. T[c] \subseteq T[n] /\ n \notin T[c] /\ n < c
        BY <3>1, <3>2, <2>1
      <3>4. c \in T[L[key]]
        <4>1. c \in T[n] /\ n \in T[L[key]]
          BY <2>1, <3>1, <3>3 DEF GreatestLeft
        <4>2. n # L[key] => c \in T[L[key]]
          <5>1. \A a, b, x \in P : b # a /\ b \in T[a] /\ x \in T[b] => x \in T[a]
            BY DEF Tree, Nested
          <5> HIDE DEF n, c, Places
          <5> QED BY <1>0, <2>1, <3>1, <4>1, <5>1
        <4> QED BY <4>1, <4>2
      <3>5. ASSUME NEW x \in T[L[key]] PROVE x \in T[c] \/ x < c
        <4>1. x \in P /\ x \in Int
          BY <1>0
        <4>2. x \in T[n] \/ x < n
          BY <2>1, <3>5 DEF GreatestLeft
        <4>3. CASE x < n
          BY <3>1, <3>3, <4>1, <4>3
        <4>4. CASE x \in T[n] /\ ~(x < n)
          <5>1. x = n \/ n < x
            BY <3>1, <4>1, <4>4
          <5> QED BY <3>2, <3>3, <4>1, <4>4, <5>1
        <4> QED BY <4>2, <4>3, <4>4
      <3>6. q \in Place /\ q.parent = n /\ q.node = c
        BY <1>0, <2>1, <3>1
      <3> HIDE DEF q
      <3>7. GreatestLeft(key, q, L, R, P, T)
        BY <2>1, <3>4, <3>5, <3>6 DEF GreatestLeft
      <3>8. q \in Places /\ size[q] = T[c]
        BY <3>6, <3>7
      <3> QED BY <2>2, <2>3, <2>5, <3>1, <3>3, <3>8
    <2> QED BY <2>4, <2>5
  <1> DEFINE f == Rightmost(m, key)
  <1>3. f = Descend(next, from)
    BY DEF Rightmost
  <1>4. f \in Places /\ next[f] = f
    <2> HIDE DEF Places, size, next, from, f
    <2> QED BY <1>1, <1>2, <1>3, DescentEnds
  <1> HIDE DEF f, from
  <1>5. f \in Place /\ GreatestLeft(key, f, L, R, P, T) /\ f.node \in P
    BY <1>0, <1>4 DEF GreatestLeft
  <1>6. R[f.node] = 0
    <2> SUFFICES ASSUME R[f.node] # 0 PROVE FALSE
      OBVIOUS
    <2> DEFINE q == [parent |-> f.node, node |-> R[f.node]]
    <2>1. next[f] = q
      BY <1>5 DEF RightStep
    <2>2. f.node = R[f.node]
      BY <1>4, <2>1
    <2> QED BY <1>5, <2>2, ChildBelow
  <1> QED BY <1>5, <1>6 DEF f


-----------------------------------------------------------------------------
\* What the assignments of insert and erase do to the fields of a map.
LEMMA RelinkFields ==
  ASSUME NEW m \in MapType, NEW above \in MapNodes, NEW old, NEW new \in MapNodes
  PROVE  LET q == Relink(m, above, old, new)
         IN  /\ q \in MapType /\ q.val = m.val /\ q.keys = m.keys
             /\ q.root = IF above = 0 THEN new ELSE m.root
             /\ q.left = IF above # 0 /\ m.left[above] = old THEN [m.left EXCEPT ![above] = new] ELSE m.left
             /\ q.right = IF above # 0 /\ m.left[above] # old THEN [m.right EXCEPT ![above] = new] ELSE m.right
  BY DEF Relink, MapType, MapNodes

LEMMA WithoutFields ==
  ASSUME NEW m \in MapType, NEW key \in MapKeys
  PROVE  LET q == Without(m, key)
         IN  /\ q \in MapType /\ q.root = m.root /\ q.keys = m.keys /\ q.left = [m.left EXCEPT ![key] = 0]
             /\ q.right = [m.right EXCEPT ![key] = 0] /\ q.val = [m.val EXCEPT ![key] = 0]
  BY DEF Without, MapType, MapNodes

MovedTo(cut, t, key) == [cut EXCEPT !.left[t] = cut.left[key], !.right[t] = cut.right[key]]
Moved(m, q, t, key) ==
  /\ q \in MapType /\ q.root = m.root /\ q.keys = m.keys /\ q.val = m.val
  /\ q.left = [m.left EXCEPT ![t] = m.left[key]] /\ q.right = [m.right EXCEPT ![t] = m.right[key]]
LEMMA MovedFields ==
  ASSUME NEW m \in MapType, NEW key \in MapKeys, NEW t \in MapKeys
  PROVE  Moved(m, MovedTo(m, t, key), t, key)
  BY DEF MovedTo, Moved, MapType, MapNodes

LEMMA KeysField ==
  ASSUME NEW m \in MapType, NEW s \in Seq(MapKeys)
  PROVE  LET q == [m EXCEPT !.keys = s]
         IN  /\ q \in MapType /\ q.root = m.root /\ q.left = m.left /\ q.right = m.right /\ q.val = m.val /\ q.keys = s
  BY DEF MapType

\* A tree is what its links say.
Agree(L, L2, P) == \A n \in P : L2[n] = L[n]
LEMMA SameLinks ==
  ASSUME NEW r, NEW L, NEW R, NEW P, NEW T, Tree(r, L, R, P, T),
         NEW L2, NEW R2, Agree(L, L2, P), Agree(R, R2, P)
  PROVE  Tree(r, L2, R2, P, T)
  <1>1. Linked(L2, R2, P, T)
    BY DEF Tree, Linked, Agree
  <1>2. Sorted(L2, R2, P, T)
    BY DEF Tree, Sorted, Agree
  <1> QED BY <1>1, <1>2 DEF Tree

\* Relink at the parent of a node replaces the node in the whole tree.
Above(m, P, above, k) == (above = 0 /\ m.root = k) \/ (above \in P /\ (m.left[above] = k \/ m.right[above] = k))
Relinked(m, q, P, k, new) ==
  /\ q \in MapType /\ q.val = m.val /\ q.keys = m.keys
  /\ q.root = IF m.root = k THEN new ELSE m.root
  /\ Replaced(m.left, q.left, P, k, new) /\ Replaced(m.right, q.right, P, k, new)
  /\ \A n \in MapKeys \ P : q.left[n] = m.left[n] /\ q.right[n] = m.right[n]
LEMMA RelinkReplaces ==
  ASSUME NEW m \in MapType, NEW P, NEW T, Tree(m.root, m.left, m.right, P, T),
         NEW k \in P, NEW above, Above(m, P, above, k), NEW new \in MapNodes
  PROVE  Relinked(m, Relink(m, above, k, new), P, k, new)
  <1> DEFINE q == Relink(m, above, k, new)
             L == m.left
             R == m.right
  <1>0. P \subseteq MapKeys /\ above \in MapNodes /\ 0 \notin P /\ L \in [MapKeys -> MapNodes] /\ R \in [MapKeys -> MapNodes]
    BY KeysAreInts DEF Tree, Rooted, Above, MapNodes, MapType
  <1>1. /\ q \in MapType /\ q.val = m.val /\ q.keys = m.keys
        /\ q.root = (IF above = 0 THEN new ELSE m.root)
        /\ q.left = (IF above # 0 /\ L[above] = k THEN [L EXCEPT ![above] = new] ELSE L)
        /\ q.right = (IF above # 0 /\ L[above] # k THEN [R EXCEPT ![above] = new] ELSE R)
    BY <1>0, RelinkFields
  <1> HIDE DEF q
  <1>2. CASE above = 0
    <2>1. \A n \in P : L[n] # k /\ R[n] # k
      BY <1>0, <1>2, OneAbove DEF Above
    <2> QED BY <1>0, <1>1, <1>2, <2>1 DEF Relinked, Replaced, Above, q
  <1>3. CASE above # 0
    <2>1. above \in P /\ (L[above] = k \/ R[above] = k)
      BY <1>3 DEF Above
    <2>2. m.root # k /\ \A n \in P : L[n] = k \/ R[n] = k => n = above
      BY <2>1, OneAbove
    <2>3. L[above] = k => R[above] # k
      <3>1. (L[above] = k <=> k < above) /\ (R[above] = k <=> above < k)
        BY <2>1, ChildBelow
      <3>2. k \in Int /\ above \in Int
        BY <1>0, <2>1, KeysAreInts
      <3> QED BY <3>1, <3>2
    <2>4. Replaced(L, q.left, P, k, new)
      BY <1>0, <1>1, <1>3, <2>1, <2>2 DEF Replaced
    <2>5. Replaced(R, q.right, P, k, new)
      BY <1>0, <1>1, <1>3, <2>1, <2>2, <2>3 DEF Replaced
    <2>6. \A n \in MapKeys \ P : q.left[n] = m.left[n] /\ q.right[n] = m.right[n]
      BY <1>0, <1>1, <2>1
    <2> QED BY <1>1, <1>3, <2>2, <2>4, <2>5, <2>6 DEF Relinked, q
  <1> QED BY <1>2, <1>3


-----------------------------------------------------------------------------
\* The array of the keys.
LEMMA ListGrows ==
  ASSUME NEW P, NEW s, ListsOnce(s, P), NEW k \in MapKeys \ P
  PROVE  ListsOnce(Append(s, k), P \cup {k})
  <1> DEFINE q == Append(s, k)
             N == Len(s)
  <1>0. s \in Seq(MapKeys) /\ N \in Nat /\ P = {s[i] : i \in 1..N}
    BY DEF ListsOnce
  <1>1. q \in Seq(MapKeys) /\ Len(q) = N + 1 /\ q[N + 1] = k /\ \A i \in 1..N : q[i] = s[i]
    BY <1>0
  <1> HIDE DEF q
  <1>2. \A i \in 1..(N + 1) : i \in 1..N \/ i = N + 1
    BY <1>0
  <1>3. \A i \in 1..N : i \in 1..(N + 1) /\ s[i] \in P
    BY <1>0
  <1>4. N + 1 \in 1..(N + 1)
    BY <1>0
  <1> HIDE DEF N
  <1>5. {q[i] : i \in 1..(N + 1)} = P \cup {k}
    <2>1. ASSUME NEW x \in P PROVE \E i \in 1..(N + 1) : x = q[i]
      <3>1. PICK i \in 1..N : x = s[i]
        BY <1>0
      <3> QED BY <1>1, <1>3, <3>1
    <2>2. ASSUME NEW i \in 1..(N + 1) PROVE q[i] \in P \cup {k}
      BY <1>1, <1>2, <1>3
    <2> QED BY <1>1, <1>4, <2>1, <2>2
  <1>6. ASSUME NEW i \in 1..(N + 1), NEW j \in 1..(N + 1), q[i] = q[j] PROVE i = j
    <2>1. CASE i \in 1..N /\ j \in 1..N
      BY <1>1, <1>6, <2>1 DEF ListsOnce, N
    <2>2. CASE ~(i \in 1..N /\ j \in 1..N)
      BY <1>1, <1>2, <1>3, <1>6, <2>2
    <2> QED BY <2>1, <2>2
  <1> QED BY <1>1, <1>5, <1>6 DEF ListsOnce, q

LEMMA ListShrinks ==
  ASSUME NEW P, NEW s, ListsOnce(s, P), NEW k \in P
  PROVE  ListsOnce(ShiftKeys(s, k), P \ {k})
  <1> DEFINE N == Len(s)
             c == CHOOSE j \in 1..N : s[j] = k
             q == [j \in 1..(N - 1) |-> IF j < c THEN s[j] ELSE s[j + 1]]
             from(j) == IF j < c THEN j ELSE j + 1
  <1>0. s \in Seq(MapKeys) /\ N \in Nat /\ P = {s[i] : i \in 1..N} /\ \A i, j \in 1..N : s[i] = s[j] => i = j
    BY DEF ListsOnce
  <1>1. c \in 1..N /\ s[c] = k
    <2>1. \E j \in 1..N : s[j] = k
      BY <1>0
    <2> QED BY <2>1
  <1>2. ShiftKeys(s, k) = q
    BY DEF ShiftKeys
  <1> HIDE DEF c
  <1>3. \A j \in 1..(N - 1) : from(j) \in 1..N /\ from(j) # c
    BY <1>0, <1>1
  <1>4. \A j \in 1..(N - 1) : q[j] = s[from(j)]
    OBVIOUS
  <1>5. \A i, j \in 1..(N - 1) : from(i) = from(j) => i = j
    BY <1>0, <1>1
  <1>6. \A i \in 1..N : i # c => \E j \in 1..(N - 1) : i = from(j)
    <2> SUFFICES ASSUME NEW i \in 1..N, i # c PROVE \E j \in 1..(N - 1) : i = from(j)
      OBVIOUS
    <2>1. CASE i < c
      <3>1. i \in 1..(N - 1)
        BY <1>0, <1>1, <2>1
      <3> QED BY <2>1, <3>1
    <2>2. CASE ~(i < c)
      <3>1. i - 1 \in 1..(N - 1) /\ ~(i - 1 < c) /\ (i - 1) + 1 = i
        BY <1>0, <1>1, <2>2
      <3> QED BY <3>1
    <2> QED BY <2>1, <2>2
  <1>7. q \in Seq(MapKeys) /\ Len(q) = N - 1
    <2>1. N - 1 \in Nat
      BY <1>0, <1>1
    <2>2. \A j \in 1..(N - 1) : q[j] \in MapKeys
      BY <1>0, <1>3, <1>4
    <2>3. q \in [1..(N - 1) -> MapKeys]
      BY <2>2
    <2> QED BY <2>1, <2>3
  <1> HIDE DEF q, from, N
  <1>8. {q[j] : j \in 1..(N - 1)} = P \ {k}
    <2>1. ASSUME NEW j \in 1..(N - 1) PROVE q[j] \in P \ {k}
      BY <1>0, <1>1, <1>3, <1>4
    <2>2. ASSUME NEW x \in P \ {k} PROVE \E j \in 1..(N - 1) : x = q[j]
      <3>1. PICK i \in 1..N : x = s[i]
        BY <1>0
      <3>2. PICK j \in 1..(N - 1) : i = from(j)
        BY <1>1, <1>6, <3>1
      <3> QED BY <1>4, <3>1, <3>2
    <2> QED BY <2>1, <2>2
  <1>9. ASSUME NEW i \in 1..(N - 1), NEW j \in 1..(N - 1), q[i] = q[j] PROVE i = j
    <2>1. from(i) = from(j)
      BY <1>0, <1>3, <1>4, <1>9
    <2> QED BY <1>5, <2>1
  <1> QED BY <1>2, <1>7, <1>8, <1>9 DEF ListsOnce

LEMMA ListLength ==
  ASSUME NEW P, NEW s, ListsOnce(s, P)
  PROVE  Len(s) = Cardinality(P)
  <1>1. s \in Seq(MapKeys) /\ Len(s) \in Nat /\ P = {s[i] : i \in 1..Len(s)} /\ \A i, j \in 1..Len(s) : s[i] = s[j] => i = j
    BY DEF ListsOnce
  <1>2. s \in [1..Len(s) -> P]
    BY <1>1
  <1>3. s \in Bijection(1..Len(s), P)
    BY <1>1, <1>2 DEF Bijection, Injection, Surjection, IsInjective
  <1>4. ExistsBijection(1..Len(s), P)
    BY <1>3 DEF ExistsBijection
  <1>5. P \subseteq MapKeys
    BY <1>1
  <1> QED BY <1>1, <1>4, <1>5, MapKeysAssumption, FS_Subset, FS_CountingElements


-----------------------------------------------------------------------------
\* insert of a new key.
GoodMap(m, P) ==
  /\ m \in MapType /\ ListsOnce(m.keys, P) /\ NoLinks(m.left, m.right, P)
  /\ \E T : Tree(m.root, m.left, m.right, P, T)
LEMMA InsertGood ==
  ASSUME NEW m, NEW P, GoodMap(m, P), NEW k \in MapKeys \ P, NEW v \in MapNodes
  PROVE  GoodMap(insert(m, k, v), P \cup {k}) /\ insert(m, k, v).val = [m.val EXCEPT ![k] = v]
  <1>1. PICK T : Tree(m.root, m.left, m.right, P, T)
    BY DEF GoodMap
  <1>2. m \in MapType /\ ListsOnce(m.keys, P) /\ NoLinks(m.left, m.right, P)
    BY DEF GoodMap
  <1>0. P \subseteq MapKeys /\ k \in Int /\ P \subseteq Int /\ 0 \notin P /\ k # 0
    BY <1>1, KeysAreInts DEF Tree, Rooted
  <1> DEFINE p == find_node_recursive(m, k)
             linked == IF p.parent = 0 THEN [m EXCEPT !.root = k, !.val[k] = v]
                       ELSE IF k < p.parent THEN [m EXCEPT !.left[p.parent] = k, !.val[k] = v]
                       ELSE [m EXCEPT !.right[p.parent] = k, !.val[k] = v]
             q == [linked EXCEPT !.keys = Append(m.keys, k)]
  <1>3. SearchedTo(k, p, m.root, m.left, m.right, P, T) /\ p.node = 0
    BY <1>1, <1>2, SearchFinds
  <1>4. insert(m, k, v) = q
    <2>1. p.node # k
      BY <1>0, <1>3
    <2>2. linked.keys = m.keys
      BY <1>2 DEF MapType
    <2> QED BY <2>1, <2>2 DEF insert
  <1>5. (p.parent = 0 /\ m.root = 0) \/ (p.parent \in P /\ p.parent # 0)
    BY <1>0, <1>3 DEF SearchedTo
  <1> HIDE DEF p
  <1>6. linked \in MapType /\ linked.val = [m.val EXCEPT ![k] = v] /\ linked.keys = m.keys
    BY <1>0, <1>2, <1>5 DEF MapType, MapNodes
  <1>7. ListsOnce(Append(m.keys, k), P \cup {k}) /\ Append(m.keys, k) \in Seq(MapKeys)
    <2>1. ListsOnce(Append(m.keys, k), P \cup {k})
      BY <1>2, ListGrows
    <2> QED BY <2>1 DEF ListsOnce
  <1>8. q \in MapType /\ q.root = linked.root /\ q.left = linked.left /\ q.right = linked.right /\ q.val = linked.val
        /\ q.keys = Append(m.keys, k)
    <2> HIDE DEF linked
    <2> QED BY <1>6, <1>7, KeysField
  <1>9. NoLinks(linked.left, linked.right, P \cup {k}) /\ \E U : Tree(linked.root, linked.left, linked.right, P \cup {k}, U)
    <2>0. m.left \in [MapKeys -> MapNodes] /\ m.right \in [MapKeys -> MapNodes] /\ m.left[k] = 0 /\ m.right[k] = 0
      BY <1>2 DEF NoLinks, MapType
    <2>1. CASE p.parent = 0
      <3>1. linked.root = k /\ linked.left = m.left /\ linked.right = m.right
        BY <1>2, <2>1 DEF MapType
      <3>2. P = {}
        BY <1>1, <1>5, <2>1, <1>0 DEF Tree, Rooted
      <3>3. \E U : Tree(k, m.left, m.right, {k}, U)
        BY <2>0, FirstKeepsTree
      <3> HIDE DEF linked
      <3>4. P \cup {k} = {k}
        BY <3>2
      <3> QED BY <1>2, <3>1, <3>3, <3>4 DEF NoLinks
    <2>2. CASE p.parent # 0
      <3> DEFINE n == p.parent
      <3>1. n \in P /\ Guided(k, n, P, T) /\ n # k /\ 0 = IF k < n THEN m.left[n] ELSE m.right[n]
        BY <1>0, <1>3, <2>2 DEF SearchedTo
      <3>2. linked.root = m.root
        BY <1>2, <2>2 DEF MapType
      <3>3. /\ linked.left = IF k < n THEN [m.left EXCEPT ![n] = k] ELSE m.left
            /\ linked.right = IF k < n THEN m.right ELSE [m.right EXCEPT ![n] = k]
        BY <1>2, <2>2 DEF MapType
      <3> HIDE DEF linked, n
      <3>4. n \in MapKeys /\ n \in Int /\ k \in Int
        BY <1>0, <3>1
      <3>5. \A x \in MapKeys \ {n} : linked.left[x] = m.left[x] /\ linked.right[x] = m.right[x]
        BY <2>0, <3>3
      <3>6. linked.left[k] = 0 /\ linked.right[k] = 0 /\ \A x \in P \ {n} : linked.left[x] = m.left[x] /\ linked.right[x] = m.right[x]
        BY <1>0, <2>0, <3>1, <3>5
      <3>7. \/ k < n /\ m.left[n] = 0 /\ linked.left[n] = k /\ linked.right[n] = m.right[n]
            \/ n < k /\ m.right[n] = 0 /\ linked.right[n] = k /\ linked.left[n] = m.left[n]
        BY <2>0, <3>1, <3>3, <3>4
      <3>8. \E U : Tree(m.root, linked.left, linked.right, P \cup {k}, U)
        BY <1>1, <3>1, <3>6, <3>7, GrowKeepsTree
      <3>9. NoLinks(linked.left, linked.right, P \cup {k})
        BY <1>2, <3>1, <3>5 DEF NoLinks
      <3> QED BY <3>2, <3>8, <3>9
    <2> QED BY <2>1, <2>2
  <1> HIDE DEF q, linked
  <1>10. GoodMap(q, P \cup {k})
    BY <1>7, <1>8, <1>9 DEF GoodMap
  <1> QED BY <1>4, <1>6, <1>8, <1>10

-----------------------------------------------------------------------------
\* erase of a node with at most one child.
Erased(m, q, P, key) ==
  /\ q \in MapType /\ q.keys = m.keys /\ q.val = [m.val EXCEPT ![key] = 0]
  /\ NoLinks(q.left, q.right, P \ {key})
  /\ \E U : Tree(q.root, q.left, q.right, P \ {key}, U)
LEMMA EraseOne ==
  ASSUME NEW m \in MapType, NEW P, NEW T, Tree(m.root, m.left, m.right, P, T), NoLinks(m.left, m.right, P),
         NEW key \in P, NEW above, Above(m, P, above, key), m.left[key] = 0 \/ m.right[key] = 0,
         NEW c, c = IF m.left[key] # 0 THEN m.left[key] ELSE m.right[key]
  PROVE  Erased(m, Without(Relink(m, above, key, c), key), P, key)
  <1> DEFINE u == Relink(m, above, key, c)
             q == Without(u, key)
  <1>0. /\ P \subseteq MapKeys /\ P \subseteq Int /\ 0 \notin P /\ T[0] = {} /\ key \in MapKeys /\ key \in Int
        /\ m.left[key] \in P \cup {0} /\ m.right[key] \in P \cup {0}
    BY KeysAreInts DEF Tree, Rooted, Linked
  <1>1. c \in (P \ {key}) \cup {0} /\ c \in MapNodes
    <2>1. m.left[key] # key /\ m.right[key] # key
      BY ChildBelow
    <2> QED BY <1>0, <2>1 DEF MapNodes
  <1>2. \A x \in P : x \in T[c] <=> x \in T[key] /\ x # key
    <2> SUFFICES ASSUME NEW x \in P PROVE x \in T[c] <=> x \in T[key] /\ x # key
      OBVIOUS
    <2>1. /\ x \in T[m.left[key]] <=> x \in T[key] /\ x < key
          /\ x \in T[m.right[key]] <=> x \in T[key] /\ key < x
      BY DEF Tree, Sorted
    <2>2. x # key <=> x < key \/ key < x
      BY <1>0
    <2> QED BY <1>0, <2>1, <2>2
  <1>3. /\ u \in MapType /\ u.val = m.val /\ u.keys = m.keys
        /\ u.root = (IF m.root = key THEN c ELSE m.root)
        /\ Replaced(m.left, u.left, P, key, c) /\ Replaced(m.right, u.right, P, key, c)
        /\ \A n \in MapKeys \ P : u.left[n] = m.left[n] /\ u.right[n] = m.right[n]
    <2>1. Relinked(m, u, P, key, c)
      BY <1>1, RelinkReplaces
    <2> QED BY <2>1 DEF Relinked
  <1> HIDE DEF u
  <1>4. /\ q \in MapType /\ q.root = u.root /\ q.keys = u.keys /\ q.left = [u.left EXCEPT ![key] = 0]
        /\ q.right = [u.right EXCEPT ![key] = 0] /\ q.val = [u.val EXCEPT ![key] = 0]
    BY <1>0, <1>3, WithoutFields
  <1> HIDE DEF q
  <1>5. u.left \in [MapKeys -> MapNodes] /\ u.right \in [MapKeys -> MapNodes]
    BY <1>3 DEF MapType
  <1>6. Replaced(m.left, q.left, P \ {key}, key, c) /\ Replaced(m.right, q.right, P \ {key}, key, c)
    BY <1>0, <1>3, <1>4, <1>5 DEF Replaced
  <1>7. Tree(q.root, q.left, q.right, P \ {key}, Minus(T, key))
    BY <1>1, <1>2, <1>3, <1>4, <1>6, SpliceKeepsTree
  <1>8. NoLinks(q.left, q.right, P \ {key})
    <2> SUFFICES ASSUME NEW n \in MapKeys \ (P \ {key}) PROVE q.left[n] = 0 /\ q.right[n] = 0
      BY DEF NoLinks
    <2>1. CASE n = key
      BY <1>4, <1>5, <2>1
    <2>2. CASE n # key
      BY <1>3, <1>4, <1>5, <2>2 DEF NoLinks
    <2> QED BY <2>1, <2>2
  <1>9. Erased(m, q, P, key)
    BY <1>3, <1>4, <1>7, <1>8 DEF Erased
  <1> QED BY <1>9 DEF q, u


\* erase of a node with two children: the greatest key on its left is taken out and moved up.
LEMMA EraseTwo ==
  ASSUME NEW m \in MapType, NEW P, NEW T, Tree(m.root, m.left, m.right, P, T), NoLinks(m.left, m.right, P),
         NEW key \in P, NEW above, Above(m, P, above, key), m.left[key] # 0, m.right[key] # 0
  PROVE  Erased(m, Promote(m, above, key), P, key)
  <1> DEFINE L == m.left
             R == m.right
             tmp == Rightmost(m, key)
             t == tmp.node
             a == tmp.parent
             c == m.left[t]
             cut == Relink(m, a, t, c)
             moved == MovedTo(cut, t, key)
             w == Relink(moved, above, key, t)
             q == Without(w, key)
             S == P \ {t}
  <1>0. Promote(m, above, key) = q
    BY DEF Promote, MovedTo
  <1>1. GreatestLeft(key, tmp, L, R, P, T) /\ t \in P /\ R[t] = 0
    BY RightmostIsGreatest
  <1> HIDE DEF tmp
  <1>2. /\ P \subseteq MapKeys /\ P \subseteq Int /\ 0 \notin P /\ T[0] = {} /\ L[key] \in P /\ c \in P \cup {0}
        /\ \A n \in P : n \in T[n] /\ T[n] \subseteq P
    BY <1>1, KeysAreInts DEF Tree, Rooted, Linked
  \* The promoted key is below the erased one, on its left, and everything else there is smaller.
  <1>3. t \in T[key] /\ t < key /\ t # key
    <2>1. t \in T[L[key]]
      BY <1>1 DEF GreatestLeft
    <2>2. t \in T[key] /\ t < key
      BY <1>1, <2>1 DEF Tree, Sorted
    <2> QED BY <1>1, <1>2, <2>2
  <1>4. \A x \in P : x \in T[key] /\ x < key /\ x # t => x < t
    <2> SUFFICES ASSUME NEW x \in P, x \in T[key], x < key, x # t PROVE x < t
      OBVIOUS
    <2>1. x \in T[L[key]]
      BY DEF Tree, Sorted
    <2>2. x \in T[t] \/ x < t
      BY <1>1, <2>1 DEF GreatestLeft
    <2>3. ~(x \in T[t] /\ t < x)
      BY <1>1, <1>2 DEF Tree, Sorted
    <2>4. x \in Int /\ t \in Int
      BY <1>1, <1>2
    <2> QED BY <2>2, <2>3, <2>4
  <1>5. \A x \in P : x \in T[c] <=> x \in T[t] /\ x # t
    <2> SUFFICES ASSUME NEW x \in P PROVE x \in T[c] <=> x \in T[t] /\ x # t
      OBVIOUS
    <2>1. /\ x \in T[c] <=> x \in T[t] /\ x < t
          /\ x \in T[R[t]] <=> x \in T[t] /\ t < x
      BY <1>1 DEF Tree, Sorted
    <2>2. x # t <=> x < t \/ t < x
      <3>1. x \in Int /\ t \in Int
        BY <1>1, <1>2
      <3> QED BY <3>1
    <2> QED BY <1>1, <1>2, <2>1, <2>2
  <1>6. Above(m, P, a, t)
    BY <1>1 DEF GreatestLeft, Above
  <1>7. c \in S \cup {0} /\ c \in MapNodes /\ t \in MapNodes /\ t \in MapKeys /\ key \in MapKeys
    <2>1. c # t
      BY <1>1, ChildBelow
    <2> QED BY <1>1, <1>2, <2>1 DEF MapNodes
  <1> HIDE DEF a, t, c
  \* Take it out.
  <1>8. Relinked(m, cut, P, t, c)
    BY <1>1, <1>6, <1>7, RelinkReplaces
  <1> HIDE DEF cut
  <1>9. Replaced(L, cut.left, S, t, c) /\ Replaced(R, cut.right, S, t, c) /\ cut \in MapType
        /\ cut.root = (IF m.root = t THEN c ELSE m.root)
    BY <1>8 DEF Relinked, Replaced
  <1>10. Tree(cut.root, cut.left, cut.right, S, Minus(T, t))
    BY <1>1, <1>5, <1>7, <1>9, SpliceKeepsTree
  <1>11. /\ moved \in MapType /\ moved.root = cut.root /\ moved.keys = cut.keys /\ moved.val = cut.val
         /\ moved.left = [cut.left EXCEPT ![t] = cut.left[key]] /\ moved.right = [cut.right EXCEPT ![t] = cut.right[key]]
    <2>1. Moved(cut, moved, t, key)
      BY <1>7, <1>9, MovedFields
    <2> QED BY <2>1 DEF Moved
  <1> HIDE DEF moved
  <1>12. cut.left \in [MapKeys -> MapNodes] /\ cut.right \in [MapKeys -> MapNodes]
    BY <1>9 DEF MapType
  <1>13. /\ moved.left[t] = cut.left[key] /\ moved.right[t] = cut.right[key]
         /\ \A n \in MapKeys \ {t} : moved.left[n] = cut.left[n] /\ moved.right[n] = cut.right[n]
    BY <1>7, <1>11, <1>12
  <1> DEFINE U == Minus(T, t)
  <1>14. Tree(moved.root, moved.left, moved.right, S, U)
    <2>1. Agree(cut.left, moved.left, S) /\ Agree(cut.right, moved.right, S)
      BY <1>2, <1>13 DEF Agree
    <2> QED BY <1>10, <1>11, <2>1, SameLinks
  \* Its place is now that of the erased one.
  <1>15. Above(moved, S, above, key)
    <2>1. CASE above = 0 /\ m.root = key
      BY <1>3, <1>9, <1>11, <2>1 DEF Above
    <2>2. CASE above \in P /\ (L[above] = key \/ R[above] = key)
      <3>1. key \in T[above]
        BY <2>2, ChildBelow
      <3>2. above # t
        BY <1>1, <1>3, <3>1, NotBothBelow
      <3>3. above \in S /\ above \in MapKeys \ {t}
        BY <1>2, <2>2, <3>2
      <3>4. (L[above] = key => cut.left[above] = key) /\ (R[above] = key => cut.right[above] = key)
        BY <1>3, <1>9, <3>3 DEF Replaced
      <3> QED BY <1>13, <2>2, <3>3, <3>4 DEF Above
    <2> QED BY <2>1, <2>2 DEF Above
  <1>16. key \in S
    BY <1>3
  <1>17. Relinked(moved, w, S, key, t)
    BY <1>7, <1>11, <1>14, <1>15, <1>16, RelinkReplaces
  <1> HIDE DEF w
  <1>18. /\ w \in MapType /\ w.val = moved.val /\ w.keys = moved.keys
         /\ w.root = (IF moved.root = key THEN t ELSE moved.root)
         /\ Replaced(moved.left, w.left, S, key, t) /\ Replaced(moved.right, w.right, S, key, t)
         /\ \A n \in MapKeys \ S : w.left[n] = moved.left[n] /\ w.right[n] = moved.right[n]
    BY <1>17 DEF Relinked
  <1>19. /\ q \in MapType /\ q.root = w.root /\ q.keys = w.keys /\ q.left = [w.left EXCEPT ![key] = 0]
         /\ q.right = [w.right EXCEPT ![key] = 0] /\ q.val = [w.val EXCEPT ![key] = 0]
    BY <1>7, <1>18, WithoutFields
  <1> HIDE DEF q
  <1>20. w.left \in [MapKeys -> MapNodes] /\ w.right \in [MapKeys -> MapNodes]
    BY <1>18 DEF MapType
  <1>21. /\ q.left[key] = 0 /\ q.right[key] = 0
         /\ \A n \in MapKeys \ {key} : q.left[n] = w.left[n] /\ q.right[n] = w.right[n]
    BY <1>7, <1>19, <1>20
  <1>22. Replaced(moved.left, q.left, S \ {key}, key, t) /\ Replaced(moved.right, q.right, S \ {key}, key, t)
    BY <1>2, <1>18, <1>21 DEF Replaced
  <1>23. q.left[t] = moved.left[key] /\ q.right[t] = moved.right[key]
    <2>1. t \in MapKeys \ S /\ t \in MapKeys \ {key} /\ key \in MapKeys \ {t}
      BY <1>3, <1>7
    <2> QED BY <1>13, <1>18, <1>21, <2>1
  <1>24. SameSides(S, U, key, t)
    <2>0. \A n \in S : U[n] = T[n] \ {t}
      BY <1>2 DEF Minus, MapNodes
    <2>1. ASSUME NEW x \in S, x # key, x \in U[key] PROVE x < key <=> x < t
      <3>1. x \in P /\ x \in T[key] /\ x # t
        BY <1>16, <2>0, <2>1
      <3>2. x < key => x < t
        BY <1>4, <3>1
      <3>3. x \in Int /\ key \in Int /\ t \in Int
        BY <1>1, <1>2, <3>1
      <3> QED BY <1>3, <3>2, <3>3
    <2>2. ASSUME NEW n \in S, n # key, key \in U[n] PROVE key < n <=> t < n
      <3>1. key \in T[n]
        BY <2>0, <2>2
      <3> QED BY <1>1, <1>3, <2>2, <3>1 DEF Tree, Nested
    <2> QED BY <2>1, <2>2 DEF SameSides
  <1> HIDE DEF U
  <1>25. \E V : Tree(q.root, q.left, q.right, P \ {key}, V)
    <2>1. t \in MapKeys \ S
      BY <1>7
    <2>2. q.root = IF moved.root = key THEN t ELSE moved.root
      BY <1>18, <1>19
    <2>3. (S \ {key}) \cup {t} = P \ {key}
      BY <1>1, <1>3
    <2> HIDE DEF S
    <2>4. Tree(q.root, q.left, q.right, (S \ {key}) \cup {t}, Renamed(U, key, t))
      BY <1>14, <1>16, <1>22, <1>23, <1>24, <2>1, <2>2, RenameKeepsTree
    <2> QED BY <2>3, <2>4
  <1>26. NoLinks(q.left, q.right, P \ {key})
    <2> SUFFICES ASSUME NEW n \in MapKeys \ (P \ {key}) PROVE q.left[n] = 0 /\ q.right[n] = 0
      BY DEF NoLinks
    <2>1. CASE n = key
      BY <1>21, <2>1
    <2>2. CASE n # key
      <3>1. n \in MapKeys \ P /\ n \in MapKeys \ {t} /\ n \in MapKeys \ S /\ n \in MapKeys \ {key}
        BY <1>1, <2>2
      <3>2. cut.left[n] = m.left[n] /\ cut.right[n] = m.right[n]
        BY <1>8, <3>1 DEF Relinked
      <3>3. m.left[n] = 0 /\ m.right[n] = 0
        BY <3>1 DEF NoLinks
      <3> QED BY <1>13, <1>18, <1>21, <3>1, <3>2, <3>3
    <2> QED BY <2>1, <2>2
  <1>27. q.keys = m.keys /\ q.val = [m.val EXCEPT ![key] = 0]
    <2>1. cut.keys = m.keys /\ cut.val = m.val
      BY <1>8 DEF Relinked
    <2> QED BY <1>11, <1>18, <1>19, <2>1
  <1>28. Erased(m, q, P, key)
    BY <1>19, <1>25, <1>26, <1>27 DEF Erased
  <1> QED BY <1>0, <1>28


LEMMA EraseGood ==
  ASSUME NEW m, NEW P, GoodMap(m, P), NEW key \in P
  PROVE  GoodMap(erase(m, key), P \ {key}) /\ erase(m, key).val = [m.val EXCEPT ![key] = 0]
  <1>1. PICK T : Tree(m.root, m.left, m.right, P, T)
    BY DEF GoodMap
  <1>2. m \in MapType /\ ListsOnce(m.keys, P) /\ NoLinks(m.left, m.right, P)
    BY DEF GoodMap
  <1>0. P \subseteq MapKeys /\ key \in MapKeys /\ 0 \notin P
    BY <1>1, KeysAreInts DEF Tree, Rooted
  <1> DEFINE s == ShiftKeys(m.keys, key)
             short == [m EXCEPT !.keys = s]
             above == find_node_recursive(m, key).parent
             c == IF m.left[key] # 0 THEN m.left[key] ELSE m.right[key]
             q == IF m.left[key] # 0 /\ m.right[key] # 0 THEN Promote(short, above, key)
                  ELSE Without(Relink(short, above, key, c), key)
  <1>3. erase(m, key) = q
    <2>1. \E i \in 1..Len(m.keys) : m.keys[i] = key
      BY <1>2 DEF ListsOnce
    <2> QED BY <2>1 DEF erase
  <1>4. ListsOnce(s, P \ {key}) /\ s \in Seq(MapKeys)
    <2>1. ListsOnce(s, P \ {key})
      BY <1>2, ListShrinks
    <2> HIDE DEF s
    <2> QED BY <2>1 DEF ListsOnce
  <1>5. /\ short \in MapType /\ short.root = m.root /\ short.left = m.left /\ short.right = m.right
        /\ short.val = m.val /\ short.keys = s
    <2> HIDE DEF s
    <2> QED BY <1>2, <1>4, KeysField
  <1>6. Above(m, P, above, key)
    <2> DEFINE p == find_node_recursive(m, key)
    <2>1. SearchedTo(key, p, m.root, m.left, m.right, P, T) /\ p.node = key
      BY <1>0, <1>1, <1>2, SearchFinds
    <2> HIDE DEF p
    <2>2. Above(m, P, p.parent, key)
      BY <2>1 DEF SearchedTo, Above
    <2> QED BY <2>2 DEF p
  <1>7. Above(short, P, above, key) /\ Tree(short.root, short.left, short.right, P, T) /\ NoLinks(short.left, short.right, P)
    <2> HIDE DEF short, above
    <2> QED BY <1>1, <1>2, <1>5, <1>6 DEF Above
  <1> HIDE DEF short, above, s
  <1>8. /\ q \in MapType /\ q.keys = short.keys /\ q.val = [short.val EXCEPT ![key] = 0]
        /\ NoLinks(q.left, q.right, P \ {key}) /\ \E U : Tree(q.root, q.left, q.right, P \ {key}, U)
    <2>1. CASE m.left[key] # 0 /\ m.right[key] # 0
      <3>1. q = Promote(short, above, key) /\ short.left[key] # 0 /\ short.right[key] # 0
        BY <1>5, <2>1
      <3>2. Erased(short, q, P, key)
        BY <1>5, <1>7, <3>1, EraseTwo
      <3> QED BY <3>2 DEF Erased
    <2>2. CASE ~(m.left[key] # 0 /\ m.right[key] # 0)
      <3>1. /\ q = Without(Relink(short, above, key, c), key) /\ (short.left[key] = 0 \/ short.right[key] = 0)
            /\ c = IF short.left[key] # 0 THEN short.left[key] ELSE short.right[key]
        BY <1>5, <2>2
      <3> HIDE DEF c
      <3>2. Erased(short, q, P, key)
        BY <1>5, <1>7, <3>1, EraseOne
      <3> QED BY <3>2 DEF Erased
    <2> QED BY <2>1, <2>2
  <1> HIDE DEF q
  <1>9. GoodMap(q, P \ {key})
    BY <1>4, <1>5, <1>8 DEF GoodMap
  <1> QED BY <1>3, <1>5, <1>8, <1>9

-----------------------------------------------------------------------------
LEMMA MapInvInit == MapInit => MapInv
  <1> SUFFICES ASSUME MapInit PROVE MapInv
    OBVIOUS
  <1>1. map = new_map_t /\ shadow = [k \in MapKeys |-> 0] /\ doubled = FALSE
    BY DEF MapInit
  <1>2. /\ map \in MapType /\ map.val = shadow /\ map.root = 0 /\ map.keys = <<>>
        /\ map.left = [k \in MapKeys |-> 0] /\ map.right = [k \in MapKeys |-> 0]
    BY <1>1 DEF new_map_t, MapType, MapNodes
  <1>3. Inserted = {}
    BY <1>1 DEF Inserted
  <1>4. ListsOnce(map.keys, {})
    BY <1>2 DEF ListsOnce
  <1>5. NoLinks(map.left, map.right, {})
    BY <1>2 DEF NoLinks
  <1>6. Tree(map.root, map.left, map.right, {}, [n \in MapNodes |-> {}])
    BY <1>2 DEF Tree, Rooted, Linked, Sorted, Nested, OneBranch, MapNodes
  <1>7. shadow \in [MapKeys -> MapNodes]
    BY <1>1 DEF MapNodes
  <1> QED BY <1>1, <1>2, <1>3, <1>4, <1>5, <1>6, <1>7 DEF MapInv

LEMMA MapInvStep == ASSUME MapInv, [MapNext]_mapVars PROVE MapInv'
  <1>0. ~doubled => /\ GoodMap(map, Inserted) /\ shadow \in [MapKeys -> MapNodes] /\ map.val = shadow
    BY DEF MapInv, GoodMap
  <1>1. CASE MapInsert
    <2>1. PICK k \in MapKeys : /\ ~doubled /\ map' = insert(map, k, k) /\ shadow' = [shadow EXCEPT ![k] = k]
                               /\ doubled' = (shadow[k] # 0)
      BY <1>1 DEF MapInsert
    <2>2. CASE shadow[k] # 0
      <3>1. doubled' = TRUE
        BY <2>1, <2>2
      <3> QED BY <3>1 DEF MapInv
    <2>3. CASE shadow[k] = 0
      <3>1. k \in MapKeys \ Inserted /\ k \in MapNodes /\ k # 0 /\ doubled' = FALSE
        BY <2>1, <2>3, KeysAreInts DEF Inserted, MapNodes
      <3>2. GoodMap(map', Inserted \cup {k}) /\ (map').val = [map.val EXCEPT ![k] = k]
        BY <1>0, <2>1, <3>1, InsertGood
      <3>3. Inserted' = Inserted \cup {k}
        BY <1>0, <2>1, <3>1 DEF Inserted
      <3>4. shadow' \in [MapKeys -> MapNodes] /\ (map').val = shadow'
        BY <1>0, <2>1, <3>1, <3>2
      <3>5. GoodMap(map', Inserted')
        BY <3>2, <3>3
      <3> QED BY <3>1, <3>4, <3>5 DEF MapInv, GoodMap
    <2> QED BY <2>2, <2>3
  <1>2. CASE MapErase
    <2>1. PICK k \in MapKeys : /\ ~doubled /\ map' = erase(map, k) /\ shadow' = [shadow EXCEPT ![k] = 0]
                               /\ doubled' = doubled
      BY <1>2 DEF MapErase
    <2>2. Inserted' = Inserted \ {k} /\ shadow' \in [MapKeys -> MapNodes]
      BY <1>0, <2>1 DEF Inserted, MapNodes
    <2>3. CASE k \in Inserted
      <3>1. GoodMap(map', Inserted \ {k}) /\ (map').val = [map.val EXCEPT ![k] = 0]
        BY <1>0, <2>1, <2>3, EraseGood
      <3>2. (map').val = shadow'
        BY <1>0, <2>1, <3>1
      <3>3. GoodMap(map', Inserted')
        BY <2>2, <3>1
      <3> QED BY <2>1, <2>2, <3>2, <3>3 DEF MapInv, GoodMap
    <2>4. CASE k \notin Inserted
      <3>1. ~\E i \in 1..Len(map.keys) : map.keys[i] = k
        BY <1>0, <2>1, <2>4 DEF GoodMap, ListsOnce
      <3>2. map' = map
        BY <2>1, <3>1 DEF erase
      <3>3. Inserted' = Inserted
        BY <2>2, <2>4
      <3>4. shadow' = shadow
        BY <1>0, <2>1, <2>4 DEF Inserted
      <3>5. GoodMap(map', Inserted') /\ (map').val = shadow'
        BY <1>0, <2>1, <3>2, <3>3, <3>4
      <3> QED BY <2>1, <2>2, <3>5 DEF MapInv, GoodMap
    <2> QED BY <2>3, <2>4
  <1>3. CASE UNCHANGED mapVars
    <2>1. map' = map /\ shadow' = shadow /\ doubled' = doubled /\ Inserted' = Inserted
      BY <1>3 DEF mapVars, Inserted
    <2> QED BY <2>1 DEF MapInv
  <1> QED BY <1>1, <1>2, <1>3 DEF MapNext

LEMMA MapInvCorrect == MapInv => MapIsMap
  <1> SUFFICES ASSUME MapInv, ~doubled PROVE MapIsMap
    BY DEF MapIsMap
  <1>1. /\ map \in MapType /\ shadow \in [MapKeys -> MapNodes] /\ map.val = shadow /\ ListsOnce(map.keys, Inserted)
    BY DEF MapInv
  <1>2. PICK T : Tree(map.root, map.left, map.right, Inserted, T)
    BY DEF MapInv
  <1>3. ASSUME NEW k \in MapKeys PROVE get_val(map, k) = shadow[k]
    <2> DEFINE n == find_node_recursive(map, k).node
    <2>1. n = IF k \in Inserted THEN k ELSE 0
      BY <1>1, <1>2, SearchFinds
    <2>2. k # 0
      BY KeysAreInts
    <2>3. get_val(map, k) = IF n = 0 THEN 0 ELSE map.val[k]
      BY DEF get_val
    <2> HIDE DEF n
    <2> QED BY <1>1, <2>1, <2>2, <2>3 DEF Inserted
  <1>4. {map.keys[i] : i \in 1..Len(map.keys)} = Inserted
    BY <1>1 DEF ListsOnce
  <1>5. Len(map.keys) = Cardinality(Inserted)
    BY <1>1, ListLength
  <1> QED BY <1>3, <1>4, <1>5 DEF MapIsMap, Inserted

\* The map of map.c is a map, for any finite set of keys and any sequence of insert and erase:
\* get_val returns what was inserted and not erased, and the array of keys lists just that.
THEOREM MapIsMapTheorem == MapSpec => []MapIsMap
  <1>1. MapInit => MapInv
    BY MapInvInit
  <1>2. MapInv /\ [MapNext]_mapVars => MapInv'
    BY MapInvStep
  <1>3. MapInv => MapIsMap
    BY MapInvCorrect
  <1> QED BY <1>1, <1>2, <1>3, PTL DEF MapSpec

-----------------------------------------------------------------------------
\* The threads of the library.

\* The labels at which a thread holds RECV_SYNC, and those of a thread that listens.
Holding == {"rcheck", "orig", "loop", "towait", "proc"}
Recovering == {"enter", "theirs", "mine", "drop", "connect", "evconnect", "finish"}
Listening == {"recv", "read", "reread", "event", "evread", "nested", "recov", "retry", "relock", "proc", "fail"} \cup Recovering
Receiving == {"start", "check", "sloop", "sget", "lock", "woken", "asleep"} \cup Holding \cup Listening

\* What a thread's label says of its call, and of its listening.
Sending == {"send", "write", "rewrite", "sendnew", "srecov"}
LabelOK(pc, op, listened) ==
  /\ listened => pc \in Listening /\ op # "send"
  /\ pc \in Receiving \ Recovering => op # "send"
  /\ pc \in Listening \ (Recovering \cup {"proc"}) => listened
  /\ (pc \in Recovering /\ op # "send") => listened
  /\ pc \in Sending => op = "send"
Fields == {"pc", "op", "blk", "s", "start", "orig", "peer", "ready", "list", "listened", "checked"}
ThreadOK(r) == DOMAIN r = Fields /\ r.listened \in BOOLEAN /\ LabelOK(r.pc, r.op, r.listened)
LockOK ==
  /\ DOMAIN lock = {"NET", "RECV", "PARENT"}
  /\ lock["RECV"] = [by |-> lock["RECV"].by, n |-> lock["RECV"].n]
  /\ lock["RECV"].n = IF lock["RECV"].by = NoThread THEN 0 ELSE 1
  /\ lock["RECV"].by \in Threads \cup {NoThread}
  /\ \A t \in Threads : thr[t].pc \in Holding <=> lock["RECV"].by = t
\* There is one listener at most.
ListenerOK ==
  /\ listening \in {0, 1}
  /\ \A t, u \in Threads : thr[t].listened /\ thr[u].listened => t = u
  /\ listening = 1 <=> \E t \in Threads : thr[t].listened
\* Who waits, or is about to, can rely on a listener, unless a broadcast went unheard.
SleeperOK == castUnheld \in BOOLEAN /\ (castUnheld \/ \A t \in Threads : thr[t].pc \in {"towait", "asleep"} => listening = 1)
SleepInv ==
  /\ DOMAIN thr = Threads /\ \A t \in Threads : ThreadOK(thr[t])
  /\ LockOK /\ ListenerOK /\ SleeperOK

-----------------------------------------------------------------------------
\* The monitors other than RECV_SYNC do not matter here.
SameRecv(l, k) == DOMAIN l = DOMAIN k /\ l["RECV"] = k["RECV"]
LEMMA OtherMonitors ==
  ASSUME NEW l, NEW t, NEW m \in {"NET", "PARENT"}
  PROVE  SameRecv(Locked(l, m, t), l) /\ SameRecv(Unlocked(l, m), l)
  BY DEF SameRecv, Locked, Unlocked

LEMMA ReturnLockSame ==
  ASSUME NEW l, NEW r, NEW got, NEW ret
  PROVE  SameRecv(ReturnLock(l, r, got), l) /\ SameRecv(AfterLock(l, r, ret), l)
  <1>1. SameRecv(l, l)
    BY DEF SameRecv
  <1> QED BY <1>1, OtherMonitors DEF ReturnLock, AfterLock

LEMMA RecvTaken ==
  ASSUME LockOK, NEW t \in Threads, thr[t].pc \notin Holding, Free("RECV", t)
  PROVE  /\ DOMAIN Locked(lock, "RECV", t) = DOMAIN lock /\ lock["RECV"].by = NoThread
         /\ Locked(lock, "RECV", t)["RECV"] = [by |-> t, n |-> 1]
  <1>1. lock["RECV"].by = NoThread /\ lock["RECV"].n = 0 /\ "RECV" \in DOMAIN lock
    BY DEF LockOK, Free
  <1> QED BY <1>1 DEF Locked

LEMMA RecvGiven ==
  ASSUME LockOK, NEW t \in Threads, thr[t].pc \in Holding
  PROVE  /\ DOMAIN Unlocked(lock, "RECV") = DOMAIN lock
         /\ Unlocked(lock, "RECV")["RECV"] = [by |-> NoThread, n |-> 0]
  <1>1. lock["RECV"].by = t /\ t # NoThread /\ lock["RECV"].n = 1 /\ "RECV" \in DOMAIN lock
    BY LightNetworkAssumption DEF LockOK
  <1> QED BY <1>1 DEF Unlocked

\* A record like q at label pc, for a call op, listening or not.
Is(r, pc, op, listened) == DOMAIN r = Fields /\ r.pc = pc /\ r.op = op /\ r.listened = listened

\* The records of threads whose calls begin or end.
LEMMA IdleOK == Is(Idle, "idle", "none", FALSE) /\ ThreadOK(Idle)
  <1>1. Is(Idle, "idle", "none", FALSE)
    BY DEF Idle, Is, Fields
  <1> QED BY <1>1 DEF ThreadOK, LabelOK, Is, Receiving, Listening, Holding, Recovering, Sending

LEMMA IdleEdits ==
  ASSUME NEW pc, NEW op, NEW blk, NEW s
  PROVE  /\ Is([Idle EXCEPT !.op = op, !.blk = blk, !.pc = pc], pc, op, FALSE)
         /\ Is([Idle EXCEPT !.op = op, !.blk = blk, !.s = s, !.pc = pc], pc, op, FALSE)
  <1>1. DOMAIN Idle = Fields /\ Idle.listened = FALSE
    BY IdleOK DEF Is
  <1> HIDE DEF Idle
  <1> QED BY <1>1 DEF Is, Fields

\* Out of Network_recv_internal and of the calls.
Outside == {"idle", "start", "check", "sloop"}
IsOutside(r) == ThreadOK(r) /\ r.pc \in Outside /\ ~r.listened
LEMMA OutsideOK ==
  ASSUME NEW r, NEW pc \in Outside, NEW op, op # "send", Is(r, pc, op, FALSE)
  PROVE  IsOutside(r)
  BY DEF IsOutside, Is, ThreadOK, LabelOK, Receiving, Listening, Holding, Recovering, Sending, Outside

LEMMA ReturnedOK ==
  ASSUME NEW r, NEW got
  PROVE  IsOutside(Returned(r, got))
  <1> DEFINE q == [Idle EXCEPT !.op = "wait", !.blk = TRUE, !.pc = "start"]
  <1>1. Is(q, "start", "wait", FALSE)
    BY IdleEdits
  <1>2. Returned(r, got) \in {q, Idle}
    BY DEF Returned
  <1> HIDE DEF q
  <1>3. IsOutside(q)
    BY <1>1, OutsideOK DEF Outside
  <1>4. IsOutside(Idle)
    BY IdleOK, OutsideOK DEF Outside
  <1> QED BY <1>2, <1>3, <1>4

LEMMA AfterInternalOK ==
  ASSUME NEW r, NEW ret, r.op # "send"
  PROVE  IsOutside(AfterInternal(r, ret))
  <1> DEFINE q == [Idle EXCEPT !.op = r.op, !.blk = r.blk, !.s = r.s, !.pc = "sloop"]
             w == [Idle EXCEPT !.op = r.op, !.blk = r.blk, !.pc = "start"]
  <1>1. Is(q, "sloop", r.op, FALSE) /\ Is(w, "start", r.op, FALSE)
    BY IdleEdits
  <1>2. AfterInternal(r, ret) \in {q, w, Returned(r, FALSE)}
    BY DEF AfterInternal
  <1> HIDE DEF q, w
  <1>3. IsOutside(q) /\ IsOutside(w)
    BY <1>1, OutsideOK DEF Outside
  <1> QED BY <1>2, <1>3, ReturnedOK

\* The assignments a thread makes to its local variables.
LEMMA Edits ==
  ASSUME NEW r, ThreadOK(r), NEW l, NEW x, NEW y
  PROVE  /\ Is([r EXCEPT !.pc = l], l, r.op, r.listened)
         /\ Is([r EXCEPT !.start = x, !.pc = l], l, r.op, r.listened)
         /\ Is([r EXCEPT !.pc = l, !.start = x], l, r.op, r.listened)
         /\ Is([r EXCEPT !.ready = x, !.pc = l, !.checked = y], l, r.op, r.listened)
         /\ Is([r EXCEPT !.orig = x, !.pc = l], l, r.op, r.listened)
         /\ Is([r EXCEPT !.peer = x, !.pc = l], l, r.op, r.listened)
         /\ Is([r EXCEPT !.list = x, !.ready = y, !.pc = l], l, r.op, r.listened)
         /\ Is([r EXCEPT !.list = x, !.pc = l], l, r.op, r.listened)
         /\ Is([r EXCEPT !.pc = l, !.list = x], l, r.op, r.listened)
         /\ Is([r EXCEPT !.listened = x, !.pc = l], l, r.op, x)
  BY DEF ThreadOK, Is, Fields

-----------------------------------------------------------------------------
\* One thread goes on, takes or gives back RECV_SYNC, or begins to listen.
LockMove(t, r) ==
  /\ DOMAIN lock' = DOMAIN lock
  /\ \/ lock'["RECV"] = lock["RECV"] /\ (r.pc \in Holding <=> thr[t].pc \in Holding)
     \/ lock["RECV"].by = NoThread /\ lock'["RECV"] = [by |-> t, n |-> 1] /\ r.pc \in Holding
     \/ thr[t].pc \in Holding /\ lock'["RECV"] = [by |-> NoThread, n |-> 0] /\ r.pc \notin Holding
ListenMove(t, r) ==
  \/ listening' = listening /\ r.listened = thr[t].listened
  \/ listening = 0 /\ listening' = 1 /\ r.listened
LEMMA MoveKeeps ==
  ASSUME SleepInv, NEW t \in Threads, NEW r, thr' = [thr EXCEPT ![t] = r], ThreadOK(r),
         LockMove(t, r), ListenMove(t, r), UNCHANGED castUnheld,
         r.pc \in {"towait", "asleep"} => listening = 1 \/ castUnheld
  PROVE  SleepInv'
  <1>0. /\ DOMAIN thr = Threads /\ (\A u \in Threads : ThreadOK(thr[u])) /\ LockOK /\ ListenerOK /\ SleeperOK
        /\ t # NoThread /\ NoThread \notin Threads
    BY LightNetworkAssumption DEF SleepInv
  <1>1. DOMAIN thr' = Threads /\ thr'[t] = r /\ \A u \in Threads \ {t} : thr'[u] = thr[u]
    BY <1>0
  <1>2. \A u \in Threads : ThreadOK(thr'[u])
    BY <1>0, <1>1
  <1>3. LockOK'
    <2>1. CASE lock'["RECV"] = lock["RECV"] /\ (r.pc \in Holding <=> thr[t].pc \in Holding)
      BY <1>0, <1>1, <2>1 DEF LockOK, LockMove
    <2>2. CASE lock["RECV"].by = NoThread /\ lock'["RECV"] = [by |-> t, n |-> 1] /\ r.pc \in Holding
      BY <1>0, <1>1, <2>2 DEF LockOK, LockMove
    <2>3. CASE thr[t].pc \in Holding /\ lock'["RECV"] = [by |-> NoThread, n |-> 0] /\ r.pc \notin Holding
      BY <1>0, <1>1, <2>3 DEF LockOK, LockMove
    <2> QED BY <2>1, <2>2, <2>3 DEF LockMove
  <1>4. ListenerOK'
    <2>1. CASE listening' = listening /\ r.listened = thr[t].listened
      <3>1. \A u \in Threads : thr'[u].listened = thr[u].listened
        BY <1>1, <2>1
      <3> QED BY <1>0, <2>1, <3>1 DEF ListenerOK
    <2>2. CASE listening = 0 /\ listening' = 1 /\ r.listened
      <3>1. \A u \in Threads : ~thr[u].listened
        BY <1>0, <2>2 DEF ListenerOK
      <3> QED BY <1>1, <2>2, <3>1 DEF ListenerOK
    <2> QED BY <2>1, <2>2 DEF ListenMove
  <1>5. SleeperOK'
    <2>1. listening = 1 => listening' = 1
      BY DEF ListenMove
    <2> QED BY <1>0, <1>1, <2>1 DEF SleeperOK
  <1> QED BY <1>1, <1>2, <1>3, <1>4, <1>5 DEF SleepInv

\* The common case: neither RECV_SYNC nor the listener is concerned.
LEMMA PlainMove ==
  ASSUME SleepInv, NEW t \in Threads, NEW r, thr' = [thr EXCEPT ![t] = r], ThreadOK(r),
         SameRecv(lock', lock), UNCHANGED <<listening, castUnheld>>,
         r.pc \in Holding <=> thr[t].pc \in Holding, r.listened = thr[t].listened,
         r.pc \in {"towait", "asleep"} => listening = 1 \/ castUnheld
  PROVE  SleepInv'
  BY MoveKeeps DEF LockMove, ListenMove, SameRecv

\* Nothing that matters changes.
LEMMA NothingMoves ==
  ASSUME SleepInv, UNCHANGED <<thr, lock, listening, castUnheld>>
  PROVE  SleepInv'
  BY DEF SleepInv, ThreadOK, LockOK, ListenerOK, SleeperOK


\* One thread goes on to the label l, in the same call.
LEMMA GoesOn ==
  ASSUME SleepInv, NEW t \in Threads, NEW r, NEW l, thr' = [thr EXCEPT ![t] = r],
         Is(r, l, thr[t].op, thr[t].listened), LabelOK(l, thr[t].op, thr[t].listened),
         SameRecv(lock', lock), UNCHANGED <<listening, castUnheld>>,
         l \in Holding <=> thr[t].pc \in Holding,
         l \in {"towait", "asleep"} => listening = 1 \/ castUnheld
  PROVE  SleepInv'
  <1>1. ThreadOK(thr[t])
    BY DEF SleepInv
  <1>2. ThreadOK(r)
    BY <1>1 DEF Is, ThreadOK
  <1> QED BY <1>1, <1>2, PlainMove DEF Is

\* Its call goes on outside Network_recv_internal, or is over.
LEMMA GoesOut ==
  ASSUME SleepInv, NEW t \in Threads, NEW r, thr' = [thr EXCEPT ![t] = r], IsOutside(r),
         SameRecv(lock', lock), UNCHANGED <<listening, castUnheld>>,
         thr[t].pc \notin Holding, ~thr[t].listened
  PROVE  SleepInv'
  <1>1. r.pc \notin Holding /\ r.pc \notin {"towait", "asleep"} /\ r.listened = FALSE /\ thr[t].listened = FALSE /\ ThreadOK(r)
    BY DEF IsOutside, Outside, Holding, SleepInv, ThreadOK
  <1> QED BY <1>1, PlainMove

LEMMA SameIsSame == ASSUME lock' = lock PROVE SameRecv(lock', lock)
  BY DEF SameRecv

LEMMA LabelAt ==
  ASSUME SleepInv, NEW t \in Threads
  PROVE  ThreadOK(thr[t]) /\ LabelOK(thr[t].pc, thr[t].op, thr[t].listened) /\ thr[t].listened \in BOOLEAN
  BY DEF SleepInv, ThreadOK

\* The steps between labels that concern neither RECV_SYNC nor the listener.
Plain ==
  {<<"start", "check">>, <<"check", "lock">>, <<"sloop", "lock">>, <<"sloop", "sget">>,
   <<"rcheck", "loop">>, <<"rcheck", "orig">>, <<"orig", "loop">>, <<"loop", "proc">>,
   <<"recv", "read">>, <<"retry", "reread">>, <<"read", "relock">>, <<"reread", "relock">>,
   <<"read", "event">>, <<"reread", "fail">>, <<"event", "evread">>, <<"event", "nested">>,
   <<"evread", "relock">>, <<"evread", "recov">>, <<"evread", "fail">>, <<"recov", "enter">>, <<"recov", "retry">>}
PlainRecovery ==
  {<<"send", "write">>, <<"sendnew", "rewrite">>, <<"write", "srecov">>, <<"srecov", "enter">>, <<"srecov", "rewrite">>,
   <<"enter", "mine">>, <<"enter", "theirs">>, <<"mine", "drop">>, <<"drop", "connect">>,
   <<"connect", "evconnect">>, <<"evconnect", "finish">>}
Safe(l, q) ==
  LabelOK(l, q.op, q.listened) /\ (l \in Holding <=> q.pc \in Holding) /\ l \notin {"towait", "asleep"}
LEMMA PlainSafe ==
  ASSUME SleepInv, NEW t \in Threads, NEW l, <<thr[t].pc, l>> \in Plain \cup PlainRecovery
  PROVE  Safe(l, thr[t])
  <1>1. CASE <<thr[t].pc, l>> \in Plain
    BY <1>1, LabelAt DEF Plain, Safe, LabelOK, Receiving, Listening, Holding, Recovering, Sending
  <1>2. CASE <<thr[t].pc, l>> \in PlainRecovery
    BY <1>2, LabelAt DEF PlainRecovery, Safe, LabelOK, Receiving, Listening, Holding, Recovering, Sending
  <1> QED BY <1>1, <1>2
LEMMA RecoveredSafe ==
  ASSUME SleepInv, NEW t \in Threads, thr[t].pc \in Recovering
  PROVE  Safe(Recovered(t), thr[t])
  BY LabelAt DEF Recovered, Safe, LabelOK, Receiving, Listening, Holding, Recovering, Sending

LEMMA GoesSafely ==
  ASSUME SleepInv, NEW t \in Threads, NEW r, NEW l, thr' = [thr EXCEPT ![t] = r],
         Is(r, l, thr[t].op, thr[t].listened), Safe(l, thr[t]),
         SameRecv(lock', lock), UNCHANGED <<listening, castUnheld>>
  PROVE  SleepInv'
  BY GoesOn DEF Safe
\* Only the label changes.
LEMMA GoKeeps ==
  ASSUME SleepInv, NEW t \in Threads, NEW l, Go(t, l), Safe(l, thr[t]),
         SameRecv(lock', lock), UNCHANGED <<listening, castUnheld>>
  PROVE  SleepInv'
  <1> DEFINE r == [thr[t] EXCEPT !.pc = l]
  <1>1. thr' = [thr EXCEPT ![t] = r]
    BY DEF Go
  <1>2. Is(r, l, thr[t].op, thr[t].listened)
    BY LabelAt, Edits
  <1> HIDE DEF r
  <1> QED BY <1>1, <1>2, GoesSafely

-----------------------------------------------------------------------------
\* The actions, one by one.

LEMMA CallKeeps ==
  ASSUME SleepInv, NEW t \in Threads, Call(t)
  PROVE  SleepInv'
  <1>1. PICK c \in Calls[t] :
          /\ lock' = IF c.op = "wait" THEN Locked(lock, "NET", t) ELSE lock
          /\ thr' = [thr EXCEPT ![t] = [Idle EXCEPT !.op = c.op, !.blk = c.blk, !.s = c.s,
                                          !.pc = CASE c.op = "send" -> "send" [] c.op = "stream" -> "check" [] OTHER -> "start"]]
    BY DEF Call
  <1> DEFINE l == CASE c.op = "send" -> "send" [] c.op = "stream" -> "check" [] OTHER -> "start"
             r == [Idle EXCEPT !.op = c.op, !.blk = c.blk, !.s = c.s, !.pc = l]
  <1>2. Is(r, l, c.op, FALSE)
    BY IdleEdits
  <1>3. (l = "send" /\ c.op = "send") \/ (l \in {"check", "start"} /\ c.op # "send")
    BY DEF l
  <1>4. thr' = [thr EXCEPT ![t] = r]
    BY <1>1
  <1> HIDE DEF l, r
  <1>5. ThreadOK(r) /\ r.pc \notin Holding /\ r.pc \notin {"towait", "asleep"} /\ r.listened = FALSE
    BY <1>2, <1>3 DEF Is, ThreadOK, LabelOK, Receiving, Listening, Holding, Recovering, Sending
  <1>6. thr[t].pc \notin Holding /\ thr[t].listened = FALSE
    BY LabelAt DEF Call, At, LabelOK, Holding, Listening, Recovering
  <1>7. SameRecv(lock', lock)
    BY <1>1, OtherMonitors, SameIsSame
  <1>8. UNCHANGED <<listening, castUnheld>>
    BY DEF Call, recvVars
  <1> QED BY <1>4, <1>5, <1>6, <1>7, <1>8, PlainMove

LEMMA StreamCheckStartKeeps ==
  ASSUME SleepInv, NEW t \in Threads, StreamCheckStart(t)
  PROVE  SleepInv'
  <1> DEFINE l == "check"
             r == [thr[t] EXCEPT !.start = iter, !.pc = l]
  <1>1. thr' = [thr EXCEPT ![t] = r] /\ UNCHANGED <<lock, listening, castUnheld>>
    BY DEF StreamCheckStart, At, recvVars
  <1>2. <<thr[t].pc, l>> \in Plain \cup PlainRecovery
    BY DEF StreamCheckStart, At, Plain, PlainRecovery
  <1>3. Is(r, l, thr[t].op, thr[t].listened)
    BY LabelAt, Edits
  <1> HIDE DEF r, l
  <1> QED BY <1>1, <1>2, <1>3, PlainSafe, GoesSafely, SameIsSame

LEMMA CheckKeeps ==
  ASSUME SleepInv, NEW t \in Threads, Check(t)
  PROVE  SleepInv'
  <1>1. thr[t].pc = "check" /\ UNCHANGED <<listening, castUnheld>>
    BY DEF Check, At
  <1>2. Safe("lock", thr[t]) /\ thr[t].pc \notin Holding /\ ~thr[t].listened
    BY <1>1, LabelAt, PlainSafe DEF Plain, LabelOK, Listening, Holding, Recovering
  <1>3. CASE Go(t, "lock") /\ lock' = lock
    BY <1>1, <1>2, <1>3, GoKeeps, SameIsSame
  <1>4. CASE thr' = [thr EXCEPT ![t] = Returned(thr[t], TRUE)] /\ lock' = ReturnLock(lock, thr[t], TRUE)
    BY <1>1, <1>2, <1>4, ReturnedOK, ReturnLockSame, GoesOut
  <1> QED BY <1>3, <1>4 DEF Check

LEMMA StreamLoopKeeps ==
  ASSUME SleepInv, NEW t \in Threads, StreamLoop(t)
  PROVE  SleepInv'
  <1> DEFINE l == IF bufs[thr[t].s] = <<>> THEN "lock" ELSE "sget"
  <1>1. Go(t, l) /\ UNCHANGED <<lock, listening, castUnheld>>
    BY DEF StreamLoop, At, recvVars
  <1>2. <<thr[t].pc, l>> \in Plain \cup PlainRecovery
    BY DEF StreamLoop, At, Plain, PlainRecovery
  <1> HIDE DEF l
  <1> QED BY <1>1, <1>2, PlainSafe, GoKeeps, SameIsSame

LEMMA StreamGetKeeps ==
  ASSUME SleepInv, NEW t \in Threads, StreamGet(t)
  PROVE  SleepInv'
  <1>1. thr[t].pc = "sget" /\ UNCHANGED <<lock, listening, castUnheld>>
    BY DEF StreamGet, At
  <1>2. thr[t].pc \notin Holding /\ ~thr[t].listened
    BY <1>1, LabelAt DEF LabelOK, Listening, Holding, Recovering
  <1>3. CASE thr' = thr
    BY <1>1, <1>3, NothingMoves
  <1>4. CASE thr' = [thr EXCEPT ![t] = Returned(thr[t], TRUE)]
    BY <1>1, <1>2, <1>4, ReturnedOK, SameIsSame, GoesOut
  <1> QED BY <1>3, <1>4 DEF StreamGet, Ends

LEMMA RecvCheckKeeps ==
  ASSUME SleepInv, NEW t \in Threads, RecvCheck(t)
  PROVE  SleepInv'
  <1> DEFINE l == IF thr[t].checked THEN "loop" ELSE "orig"
             r == [thr[t] EXCEPT !.ready = Look(t).p, !.pc = l, !.checked = TRUE]
  <1>1. thr' = [thr EXCEPT ![t] = r] /\ UNCHANGED <<lock, listening, castUnheld>>
    BY DEF RecvCheck, At, recvVars
  <1>2. <<thr[t].pc, l>> \in Plain \cup PlainRecovery
    BY DEF RecvCheck, At, Plain, PlainRecovery
  <1>3. Is(r, l, thr[t].op, thr[t].listened)
    BY LabelAt, Edits
  <1> HIDE DEF r, l
  <1> QED BY <1>1, <1>2, <1>3, PlainSafe, GoesSafely, SameIsSame

LEMMA OrigParentKeeps ==
  ASSUME SleepInv, NEW t \in Threads, OrigParent(t)
  PROVE  SleepInv'
  <1> DEFINE l == "loop"
             r == [thr[t] EXCEPT !.orig = parent, !.pc = l]
  <1>1. thr' = [thr EXCEPT ![t] = r] /\ UNCHANGED <<lock, listening, castUnheld>>
    BY DEF OrigParent, At, recvVars
  <1>2. <<thr[t].pc, l>> \in Plain \cup PlainRecovery
    BY DEF OrigParent, At, Plain, PlainRecovery
  <1>3. Is(r, l, thr[t].op, thr[t].listened)
    BY LabelAt, Edits
  <1> HIDE DEF r, l
  <1> QED BY <1>1, <1>2, <1>3, PlainSafe, GoesSafely, SameIsSame

LEMMA ProcReadyKeeps ==
  ASSUME SleepInv, NEW t \in Threads, ProcReady(t)
  PROVE  SleepInv'
  <1> DEFINE l == "proc"
             r == [thr[t] EXCEPT !.list = <<thr[t].ready>>, !.ready = NoPacket, !.pc = l]
  <1>1. thr' = [thr EXCEPT ![t] = r] /\ UNCHANGED <<lock, listening, castUnheld>>
    BY DEF ProcReady, At, recvVars
  <1>2. <<thr[t].pc, l>> \in Plain \cup PlainRecovery
    BY DEF ProcReady, At, Plain, PlainRecovery
  <1>3. Is(r, l, thr[t].op, thr[t].listened)
    BY LabelAt, Edits
  <1> HIDE DEF r, l
  <1> QED BY <1>1, <1>2, <1>3, PlainSafe, GoesSafely, SameIsSame

LEMMA GetParentKeeps ==
  ASSUME SleepInv, NEW t \in Threads, GetParent(t)
  PROVE  SleepInv'
  <1> DEFINE l == IF thr[t].pc = "recv" THEN "read" ELSE "reread"
             r == [thr[t] EXCEPT !.peer = parent, !.pc = l]
  <1>1. thr' = [thr EXCEPT ![t] = r] /\ UNCHANGED <<lock, listening, castUnheld>>
    BY DEF GetParent, At, recvVars
  <1>2. <<thr[t].pc, l>> \in Plain \cup PlainRecovery
    BY DEF GetParent, At, Plain, PlainRecovery
  <1>3. Is(r, l, thr[t].op, thr[t].listened)
    BY LabelAt, Edits
  <1> HIDE DEF r, l
  <1> QED BY <1>1, <1>2, <1>3, PlainSafe, GoesSafely, SameIsSame

LEMMA PeerNode_recvKeeps ==
  ASSUME SleepInv, NEW t \in Threads, PeerNode_recv(t)
  PROVE  SleepInv'
  <1>1. thr[t].pc \in {"read", "reread"} /\ UNCHANGED <<lock, listening, castUnheld>>
    BY DEF PeerNode_recv, At, recvVars
  <1> DEFINE r == [thr[t] EXCEPT !.list = Head(inbox[thr[t].peer]), !.pc = "relock"]
             l == IF thr[t].pc = "read" THEN "event" ELSE "fail"
  <1>2. <<thr[t].pc, "relock">> \in Plain /\ <<thr[t].pc, l>> \in Plain
    BY <1>1 DEF Plain
  <1>3. thr' = [thr EXCEPT ![t] = r] \/ Go(t, l) \/ Go(t, "relock")
    BY DEF PeerNode_recv
  <1>4. Is(r, "relock", thr[t].op, thr[t].listened)
    BY LabelAt, Edits
  <1> HIDE DEF r, l
  <1>5. Safe("relock", thr[t]) /\ Safe(l, thr[t])
    BY <1>2, PlainSafe
  <1>6. CASE thr' = [thr EXCEPT ![t] = r]
    BY <1>1, <1>4, <1>5, <1>6, GoesSafely, SameIsSame
  <1>7. CASE Go(t, l) \/ Go(t, "relock")
    BY <1>1, <1>5, <1>7, GoKeeps, SameIsSame
  <1> QED BY <1>3, <1>6, <1>7

LEMMA EventLockKeeps ==
  ASSUME SleepInv, NEW t \in Threads, EventLock(t)
  PROVE  SleepInv'
  <1>1. thr[t].pc = "event" /\ lock' = Locked(lock, "PARENT", t) /\ UNCHANGED <<listening, castUnheld>>
    BY DEF EventLock, At, recvVars
  <1> DEFINE r == [thr[t] EXCEPT !.peer = parent, !.pc = "evread"]
  <1>2. Safe("evread", thr[t]) /\ Safe("nested", thr[t]) /\ SameRecv(lock', lock)
    BY <1>1, PlainSafe, OtherMonitors DEF Plain
  <1>3. thr' = [thr EXCEPT ![t] = r] \/ Go(t, "nested")
    BY DEF EventLock
  <1>4. Is(r, "evread", thr[t].op, thr[t].listened)
    BY LabelAt, Edits
  <1> HIDE DEF r
  <1> QED BY <1>1, <1>2, <1>3, <1>4, GoesSafely, GoKeeps

LEMMA EventReadKeeps ==
  ASSUME SleepInv, NEW t \in Threads, EventRead(t)
  PROVE  SleepInv'
  <1> DEFINE failed == thr[t].peer = NoPeer \/ (event[thr[t].peer] = "none" /\ thr[t].peer \in gone)
             l == IF ~failed THEN "relock" ELSE IF recover THEN "recov" ELSE "fail"
             r == [thr[t] EXCEPT !.pc = l,
                     !.list = IF ~failed /\ event[thr[t].peer] = "shutdown" THEN <<PROT_EDT_REMOTE_SHUTDOWN>> ELSE @]
  <1>1. thr[t].pc = "evread" /\ lock' = Unlocked(lock, "PARENT") /\ UNCHANGED <<listening, castUnheld>>
    BY DEF EventRead, At, recvVars
  <1>2. thr' = [thr EXCEPT ![t] = r]
    BY DEF EventRead
  <1>3. Is(r, l, thr[t].op, thr[t].listened)
    BY LabelAt, Edits
  <1>4. <<thr[t].pc, l>> \in Plain
    BY <1>1 DEF Plain
  <1> HIDE DEF r, l
  <1> QED BY <1>1, <1>2, <1>3, <1>4, PlainSafe, OtherMonitors, GoesSafely

LEMMA RecovCheckKeeps ==
  ASSUME SleepInv, NEW t \in Threads, RecovCheck(t)
  PROVE  SleepInv'
  <1> DEFINE l == IF parent = thr[t].orig THEN "enter" ELSE "retry"
  <1>1. Go(t, l) /\ UNCHANGED <<lock, listening, castUnheld>>
    BY DEF RecovCheck, At, recvVars
  <1>2. <<thr[t].pc, l>> \in Plain \cup PlainRecovery
    BY DEF RecovCheck, At, Plain, PlainRecovery
  <1> HIDE DEF l
  <1> QED BY <1>1, <1>2, PlainSafe, GoKeeps, SameIsSame

LEMMA SendParentKeeps ==
  ASSUME SleepInv, NEW t \in Threads, SendParent(t)
  PROVE  SleepInv'
  <1>1. thr[t].pc \in {"send", "sendnew"} /\ UNCHANGED <<lock, listening, castUnheld>>
    BY DEF SendParent, At, recvVars
  <1> DEFINE l == IF thr[t].pc = "send" THEN "write" ELSE "rewrite"
             r == [thr[t] EXCEPT !.peer = parent, !.pc = l]
  <1>2. <<thr[t].pc, l>> \in PlainRecovery
    BY <1>1 DEF PlainRecovery
  <1>3. Is(r, l, thr[t].op, thr[t].listened)
    BY LabelAt, Edits
  <1>4. thr' = thr \/ thr' = [thr EXCEPT ![t] = r]
    BY DEF SendParent, Ends
  <1> HIDE DEF r, l
  <1> QED BY <1>1, <1>2, <1>3, <1>4, PlainSafe, NothingMoves, GoesSafely, SameIsSame

LEMMA PeerNode_sendDirectlyKeeps ==
  ASSUME SleepInv, NEW t \in Threads, PeerNode_sendDirectly(t)
  PROVE  SleepInv'
  <1>1. thr[t].pc \in {"write", "rewrite"} /\ UNCHANGED <<lock, listening, castUnheld>>
    BY DEF PeerNode_sendDirectly, At, recvVars
  <1>2. CASE thr' = [thr EXCEPT ![t] = Idle]
    <2>1. thr[t].pc \notin Holding /\ ~thr[t].listened
      BY <1>1, LabelAt DEF LabelOK, Listening, Holding, Recovering
    <2>2. IsOutside(Idle)
      BY IdleOK, OutsideOK DEF Outside
    <2> QED BY <1>1, <1>2, <2>1, <2>2, GoesOut, SameIsSame
  <1>3. CASE thr[t].pc = "write" /\ Go(t, "srecov")
    BY <1>1, <1>3, PlainSafe, GoKeeps, SameIsSame DEF PlainRecovery
  <1> QED BY <1>2, <1>3 DEF PeerNode_sendDirectly

LEMMA SendRecovKeeps ==
  ASSUME SleepInv, NEW t \in Threads, SendRecov(t)
  PROVE  SleepInv'
  <1>1. thr[t].pc = "srecov" /\ UNCHANGED <<lock, listening, castUnheld>>
    BY DEF SendRecov, At, recvVars
  <1> DEFINE r == [thr[t] EXCEPT !.peer = parent, !.pc = "rewrite"]
  <1>2. Safe("enter", thr[t]) /\ Safe("rewrite", thr[t])
    BY <1>1, PlainSafe DEF PlainRecovery
  <1>3. Is(r, "rewrite", thr[t].op, thr[t].listened)
    BY LabelAt, Edits
  <1>4. thr' = thr \/ Go(t, "enter") \/ thr' = [thr EXCEPT ![t] = r]
    BY DEF SendRecov, Ends, Go
  <1> HIDE DEF r
  <1> QED BY <1>1, <1>2, <1>3, <1>4, NothingMoves, GoKeeps, GoesSafely, SameIsSame

LEMMA RecoverEnterKeeps ==
  ASSUME SleepInv, NEW t \in Threads, RecoverEnter(t)
  PROVE  SleepInv'
  <1>1. thr[t].pc = "enter" /\ UNCHANGED lock /\ UNCHANGED <<listening, castUnheld>>
    BY DEF RecoverEnter, At, recvVars
  <1>2. Go(t, "mine") \/ Go(t, "theirs")
    BY DEF RecoverEnter
  <1>3. Safe("mine", thr[t]) /\ Safe("theirs", thr[t])
    BY <1>1, PlainSafe, RecoveredSafe DEF PlainRecovery, Recovering
  <1> QED BY <1>1, <1>2, <1>3, GoKeeps, SameIsSame

LEMMA RecoverOtherKeeps ==
  ASSUME SleepInv, NEW t \in Threads, RecoverOther(t)
  PROVE  SleepInv'
  <1>1. thr[t].pc = "theirs" /\ UNCHANGED lock /\ UNCHANGED <<listening, castUnheld>>
    BY DEF RecoverOther, At, recvVars
  <1>2. Go(t, Recovered(t))
    BY DEF RecoverOther
  <1>3. Safe(Recovered(t), thr[t])
    BY <1>1, PlainSafe, RecoveredSafe DEF PlainRecovery, Recovering
  <1> QED BY <1>1, <1>2, <1>3, GoKeeps, SameIsSame

LEMMA RecoverLockKeeps ==
  ASSUME SleepInv, NEW t \in Threads, RecoverLock(t)
  PROVE  SleepInv'
  <1>1. thr[t].pc = "mine" /\ lock' = Locked(lock, "NET", t) /\ UNCHANGED <<listening, castUnheld>>
    BY DEF RecoverLock, At, recvVars
  <1>2. Go(t, "drop")
    BY DEF RecoverLock
  <1>3. Safe("drop", thr[t])
    BY <1>1, PlainSafe, RecoveredSafe DEF PlainRecovery, Recovering
  <1> QED BY <1>1, <1>2, <1>3, GoKeeps, OtherMonitors

LEMMA RecoverDropKeeps ==
  ASSUME SleepInv, NEW t \in Threads, RecoverDrop(t)
  PROVE  SleepInv'
  <1>1. thr[t].pc = "drop" /\ UNCHANGED <<lock, listening, castUnheld>>
    BY DEF RecoverDrop, At, recvVars
  <1> DEFINE r == [thr[t] EXCEPT !.peer = parent + 1, !.pc = "connect"]
  <1>2. Is(r, "connect", thr[t].op, thr[t].listened) /\ Safe("connect", thr[t])
    BY <1>1, LabelAt, Edits, PlainSafe DEF PlainRecovery
  <1>3. thr' = thr \/ thr' = [thr EXCEPT ![t] = r]
    BY DEF RecoverDrop, Ends
  <1> HIDE DEF r
  <1> QED BY <1>1, <1>2, <1>3, NothingMoves, GoesSafely, SameIsSame

LEMMA RecoverConnectKeeps ==
  ASSUME SleepInv, NEW t \in Threads, RecoverConnect(t)
  PROVE  SleepInv'
  <1>1. thr[t].pc = "connect" /\ UNCHANGED lock /\ UNCHANGED <<listening, castUnheld>>
    BY DEF RecoverConnect, At, recvVars
  <1>2. Go(t, Recovered(t)) \/ Go(t, "evconnect")
    BY DEF RecoverConnect
  <1>3. Safe(Recovered(t), thr[t]) /\ Safe("evconnect", thr[t])
    BY <1>1, PlainSafe, RecoveredSafe DEF PlainRecovery, Recovering
  <1> QED BY <1>1, <1>2, <1>3, GoKeeps, SameIsSame

LEMMA RecoverEventKeeps ==
  ASSUME SleepInv, NEW t \in Threads, RecoverEvent(t)
  PROVE  SleepInv'
  <1>1. thr[t].pc = "evconnect" /\ UNCHANGED lock /\ UNCHANGED <<listening, castUnheld>>
    BY DEF RecoverEvent, At, recvVars
  <1>2. Go(t, "finish")
    BY DEF RecoverEvent
  <1>3. Safe("finish", thr[t])
    BY <1>1, PlainSafe, RecoveredSafe DEF PlainRecovery, Recovering
  <1> QED BY <1>1, <1>2, <1>3, GoKeeps, SameIsSame

LEMMA RecoverFinishKeeps ==
  ASSUME SleepInv, NEW t \in Threads, RecoverFinish(t)
  PROVE  SleepInv'
  <1>1. thr[t].pc = "finish" /\ lock' = Unlocked(lock, "NET") /\ UNCHANGED <<listening, castUnheld>>
    BY DEF RecoverFinish, At, recvVars
  <1>2. Go(t, Recovered(t))
    BY DEF RecoverFinish
  <1>3. Safe(Recovered(t), thr[t])
    BY <1>1, PlainSafe, RecoveredSafe DEF PlainRecovery, Recovering
  <1> QED BY <1>1, <1>2, <1>3, GoKeeps, OtherMonitors

-----------------------------------------------------------------------------
\* RECV_SYNC is taken and given back.

LEMMA Takes ==
  ASSUME SleepInv, NEW t \in Threads, NEW r, NEW l \in {"rcheck", "proc"}, thr' = [thr EXCEPT ![t] = r],
         Is(r, l, thr[t].op, thr[t].listened), LabelOK(l, thr[t].op, thr[t].listened),
         thr[t].pc \notin Holding, Free("RECV", t), lock' = Locked(lock, "RECV", t), UNCHANGED <<listening, castUnheld>>
  PROVE  SleepInv'
  <1>1. ThreadOK(r) /\ r.pc \in Holding /\ r.pc \notin {"towait", "asleep"} /\ r.listened = thr[t].listened
    BY LabelAt DEF Is, ThreadOK, Holding
  <1>2. LockOK
    BY DEF SleepInv
  <1>3. LockMove(t, r)
    BY <1>1, <1>2, RecvTaken DEF LockMove
  <1>4. ListenMove(t, r)
    BY <1>1 DEF ListenMove
  <1> QED BY <1>1, <1>3, <1>4, MoveKeeps

LEMMA RecvLockKeeps ==
  ASSUME SleepInv, NEW t \in Threads, RecvLock(t)
  PROVE  SleepInv'
  <1> DEFINE r == [thr[t] EXCEPT !.pc = "rcheck", !.start = iter]
  <1>1. /\ thr[t].pc \in {"lock", "woken"} /\ thr' = [thr EXCEPT ![t] = r] /\ Free("RECV", t)
        /\ lock' = Locked(lock, "RECV", t) /\ UNCHANGED <<listening, castUnheld>>
    BY DEF RecvLock, At, recvVars
  <1>2. Is(r, "rcheck", thr[t].op, thr[t].listened)
    BY LabelAt, Edits
  <1> HIDE DEF r
  <1>3. LabelOK("rcheck", thr[t].op, thr[t].listened) /\ thr[t].pc \notin Holding
    BY <1>1, LabelAt DEF LabelOK, Receiving, Listening, Holding, Recovering, Sending
  <1> QED BY <1>1, <1>2, <1>3, Takes

LEMMA RelockKeeps ==
  ASSUME SleepInv, NEW t \in Threads, Relock(t)
  PROVE  SleepInv'
  <1> DEFINE r == [thr[t] EXCEPT !.pc = "proc"]
  <1>1. /\ thr[t].pc = "relock" /\ thr' = [thr EXCEPT ![t] = r] /\ Free("RECV", t)
        /\ lock' = Locked(lock, "RECV", t) /\ UNCHANGED <<listening, castUnheld>>
    BY DEF Relock, At, recvVars, Go
  <1>2. Is(r, "proc", thr[t].op, thr[t].listened)
    BY LabelAt, Edits
  <1> HIDE DEF r
  <1>3. LabelOK("proc", thr[t].op, thr[t].listened) /\ thr[t].pc \notin Holding
    BY <1>1, LabelAt DEF LabelOK, Receiving, Listening, Holding, Recovering, Sending
  <1> QED BY <1>1, <1>2, <1>3, Takes

\* What RECV_SYNC is once its holder has given it back and, perhaps, left NET_SYNC.
LEMMA GivesBack ==
  ASSUME SleepInv, NEW t \in Threads, thr[t].pc \in Holding, SameRecv(lock', Unlocked(lock, "RECV"))
  PROVE  DOMAIN lock' = DOMAIN lock /\ lock'["RECV"] = [by |-> NoThread, n |-> 0]
  BY RecvGiven DEF SleepInv, SameRecv

LEMMA SameAsGiven == ASSUME lock' = Unlocked(lock, "RECV") PROVE SameRecv(lock', Unlocked(lock, "RECV"))
  BY DEF SameRecv

\* Somebody begins to listen when nobody does.
LEMMA BecomeListenerKeeps ==
  ASSUME SleepInv, NEW t \in Threads, BecomeListener(t)
  PROVE  SleepInv'
  <1> DEFINE r == [thr[t] EXCEPT !.listened = TRUE, !.pc = "recv"]
  <1>1. /\ thr[t].pc = "loop" /\ thr' = [thr EXCEPT ![t] = r] /\ listening = 0 /\ listening' = 1
        /\ lock' = Unlocked(lock, "RECV") /\ UNCHANGED castUnheld
    BY DEF BecomeListener, At
  <1>2. Is(r, "recv", thr[t].op, TRUE)
    BY LabelAt, Edits
  <1> HIDE DEF r
  <1>3. thr[t].op # "send" /\ thr[t].pc \in Holding
    BY <1>1, LabelAt DEF LabelOK, Receiving, Holding, Listening, Recovering
  <1>4. ThreadOK(r) /\ r.listened /\ r.pc \notin Holding /\ r.pc \notin {"towait", "asleep"}
    BY <1>2, <1>3 DEF Is, ThreadOK, LabelOK, Receiving, Listening, Holding, Recovering, Sending
  <1>5. LockMove(t, r)
    BY <1>1, <1>3, <1>4, GivesBack, SameAsGiven DEF LockMove
  <1>6. ListenMove(t, r)
    BY <1>1, <1>4 DEF ListenMove
  <1> QED BY <1>1, <1>4, <1>5, <1>6, MoveKeeps

LEMMA GiveUpKeeps ==
  ASSUME SleepInv, NEW t \in Threads, GiveUp(t)
  PROVE  SleepInv'
  <1> DEFINE r == AfterInternal(thr[t], 0)
  <1>1. /\ thr[t].pc = "loop" /\ thr' = [thr EXCEPT ![t] = r] /\ UNCHANGED <<listening, castUnheld>>
        /\ lock' = AfterLock(Unlocked(lock, "RECV"), thr[t], 0)
    BY DEF GiveUp, At, recvVars
  <1>2. thr[t].op # "send" /\ ~thr[t].listened /\ thr[t].pc \in Holding
    BY <1>1, LabelAt DEF LabelOK, Receiving, Holding, Listening, Recovering
  <1>3. IsOutside(r)
    BY <1>2, AfterInternalOK
  <1> HIDE DEF r
  <1>4. ThreadOK(r) /\ r.pc \notin Holding /\ r.pc \notin {"towait", "asleep"} /\ r.listened = FALSE /\ thr[t].listened = FALSE
    BY <1>2, <1>3, LabelAt DEF IsOutside, ThreadOK, Outside, Holding
  <1>5. LockMove(t, r)
    BY <1>1, <1>2, <1>4, GivesBack, ReturnLockSame DEF LockMove
  <1>6. ListenMove(t, r)
    BY <1>1, <1>4 DEF ListenMove
  <1> QED BY <1>1, <1>4, <1>5, <1>6, MoveKeeps

\* A thread decides to wait only while another listens, and holds RECV_SYNC until it sleeps.
LEMMA DecideToWaitKeeps ==
  ASSUME SleepInv, NEW t \in Threads, DecideToWait(t)
  PROVE  SleepInv'
  <1> DEFINE r == [thr[t] EXCEPT !.pc = "towait"]
  <1>1. thr[t].pc = "loop" /\ thr' = [thr EXCEPT ![t] = r] /\ listening = 1 /\ UNCHANGED <<lock, listening, castUnheld>>
    BY DEF DecideToWait, At, recvVars, Go
  <1>2. Is(r, "towait", thr[t].op, thr[t].listened)
    BY LabelAt, Edits
  <1> HIDE DEF r
  <1>3. LabelOK("towait", thr[t].op, thr[t].listened) /\ "towait" \in Holding /\ thr[t].pc \in Holding
    BY <1>1, LabelAt DEF LabelOK, Receiving, Listening, Holding, Recovering, Sending
  <1> QED BY <1>1, <1>2, <1>3, GoesOn, SameIsSame

LEMMA WaitKeeps ==
  ASSUME SleepInv, NEW t \in Threads, Wait(t)
  PROVE  SleepInv'
  <1> DEFINE r == [thr[t] EXCEPT !.pc = "asleep"]
  <1>1. /\ thr[t].pc = "towait" /\ thr' = [thr EXCEPT ![t] = r] /\ UNCHANGED <<listening, castUnheld>>
        /\ lock' = Unlocked(lock, "RECV")
    BY DEF Wait, At, recvVars, Go
  <1>2. Is(r, "asleep", thr[t].op, thr[t].listened)
    BY LabelAt, Edits
  <1> HIDE DEF r
  <1>3. LabelOK("asleep", thr[t].op, thr[t].listened) /\ thr[t].pc \in Holding
    BY <1>1, LabelAt DEF LabelOK, Receiving, Listening, Holding, Recovering, Sending
  <1>4. ThreadOK(r) /\ r.pc \notin Holding /\ r.listened = thr[t].listened
    BY <1>2, <1>3, LabelAt DEF Is, ThreadOK, Holding
  <1>5. listening = 1 \/ castUnheld
    BY <1>1 DEF SleepInv, SleeperOK
  <1>6. LockMove(t, r)
    BY <1>1, <1>3, <1>4, GivesBack, SameAsGiven DEF LockMove
  <1>7. ListenMove(t, r)
    BY <1>1, <1>4 DEF ListenMove
  <1> QED BY <1>1, <1>4, <1>5, <1>6, <1>7, MoveKeeps

-----------------------------------------------------------------------------
\* The listener stops and wakes those who wait.  Nobody else is about to wait: the listener
\* holds RECV_SYNC, or the broadcast is one of those nobody may hear.
LEMMA StopsKeeps ==
  ASSUME SleepInv, NEW t \in Threads, NEW r, thr[t].listened, IsOutside(r),
         thr' = [Woken EXCEPT ![t] = r], listening' = 0, DOMAIN lock' = DOMAIN lock,
         \/ /\ thr[t].pc \in Holding /\ lock'["RECV"] = [by |-> NoThread, n |-> 0] /\ UNCHANGED castUnheld
         \/ /\ thr[t].pc \notin Holding /\ lock'["RECV"] = lock["RECV"]
            /\ castUnheld' = (castUnheld \/ lock["RECV"].by # NoThread)
  PROVE  SleepInv'
  <1>0. /\ DOMAIN thr = Threads /\ (\A u \in Threads : ThreadOK(thr[u])) /\ LockOK /\ ListenerOK /\ SleeperOK
        /\ t # NoThread /\ NoThread \notin Threads
    BY LightNetworkAssumption DEF SleepInv
  <1>1. DOMAIN thr' = Threads /\ thr'[t] = r /\ \A u \in Threads \ {t} : thr'[u] = Woken[u]
    BY DEF Woken
  <1>2. ThreadOK(r) /\ r.pc \notin Holding /\ r.pc \notin {"towait", "asleep"} /\ ~r.listened
    BY DEF IsOutside, Outside, Holding
  <1>3. ASSUME NEW u \in Threads \ {t}
        PROVE  /\ ThreadOK(thr'[u]) /\ thr'[u].listened = thr[u].listened /\ thr'[u].pc # "asleep"
               /\ thr'[u].pc \in Holding <=> thr[u].pc \in Holding
               /\ thr'[u].pc = "towait" <=> thr[u].pc = "towait"
    <2>1. CASE thr[u].pc = "asleep"
      <3> DEFINE w == [thr[u] EXCEPT !.pc = "woken"]
      <3>1. thr'[u] = w
        BY <1>1, <2>1 DEF Woken
      <3>2. Is(w, "woken", thr[u].op, thr[u].listened)
        BY <1>0, Edits
      <3> HIDE DEF w
      <3>3. LabelOK("woken", thr[u].op, thr[u].listened)
        BY <2>1, LabelAt DEF LabelOK, Receiving, Listening, Holding, Recovering, Sending
      <3> QED BY <2>1, <3>1, <3>2, <3>3, <1>0 DEF Is, ThreadOK, Holding
    <2>2. CASE thr[u].pc # "asleep"
      <3>1. thr'[u] = thr[u]
        BY <1>1, <2>2 DEF Woken
      <3> QED BY <1>0, <2>2, <3>1
    <2> QED BY <2>1, <2>2
  <1>4. \A u \in Threads : ThreadOK(thr'[u])
    BY <1>1, <1>2, <1>3
  <1>5. \A u \in Threads \ {t} : ~thr[u].listened
    BY <1>0 DEF ListenerOK
  <1>6. ListenerOK'
    BY <1>1, <1>2, <1>3, <1>5 DEF ListenerOK
  <1>7. LockOK'
    <2>1. CASE thr[t].pc \in Holding /\ lock'["RECV"] = [by |-> NoThread, n |-> 0]
      <3>1. lock["RECV"].by = t
        BY <1>0, <2>1 DEF LockOK
      <3>2. \A u \in Threads : thr'[u].pc \notin Holding
        BY <1>0, <1>1, <1>2, <1>3, <3>1 DEF LockOK
      <3> QED BY <1>0, <2>1, <3>2 DEF LockOK
    <2>2. CASE thr[t].pc \notin Holding /\ lock'["RECV"] = lock["RECV"]
      <3>1. \A u \in Threads : thr'[u].pc \in Holding <=> thr[u].pc \in Holding
        BY <1>1, <1>2, <1>3, <2>2
      <3> QED BY <1>0, <2>2, <3>1 DEF LockOK
    <2> QED BY <2>1, <2>2
  <1>8. SleeperOK'
    <2>1. castUnheld' \in BOOLEAN
      BY <1>0 DEF SleeperOK
    <2>2. ASSUME NEW u \in Threads, thr'[u].pc \in {"towait", "asleep"}
          PROVE  castUnheld'
      <3>1. u # t /\ thr[u].pc = "towait"
        BY <1>1, <1>2, <1>3, <2>2
      <3>2. lock["RECV"].by = u
        BY <1>0, <3>1 DEF LockOK, Holding
      <3>3. thr[t].pc \notin Holding
        BY <1>0, <3>1, <3>2 DEF LockOK
      <3> QED BY <1>0, <3>2, <3>3
    <2> QED BY <2>1, <2>2 DEF SleeperOK
  <1> QED BY <1>1, <1>4, <1>6, <1>7, <1>8 DEF SleepInv

LEMMA CleanUpKeeps ==
  ASSUME SleepInv, NEW t \in Threads, NEW ret, CleanUp(t, ret), thr[t].pc = "proc", UNCHANGED castUnheld,
         lock' = AfterLock(Unlocked(lock, "RECV"), thr[t], ret)
  PROVE  SleepInv'
  <1> DEFINE r == AfterInternal(thr[t], ret)
  <1>1. thr[t].op # "send" /\ thr[t].pc \in Holding
    BY LabelAt DEF LabelOK, Receiving, Listening, Holding, Recovering
  <1>2. IsOutside(r)
    BY <1>1, AfterInternalOK
  <1>3. DOMAIN lock' = DOMAIN lock /\ lock'["RECV"] = [by |-> NoThread, n |-> 0]
    BY <1>1, ReturnLockSame, GivesBack
  <1>4. CASE thr[t].listened
    <2>1. Woken[t] = thr[t]
      BY DEF Woken
    <2>2. thr' = [Woken EXCEPT ![t] = r] /\ listening' = 0
      BY <1>4, <2>1 DEF CleanUp
    <2> HIDE DEF r
    <2> QED BY <1>1, <1>2, <1>3, <1>4, <2>2, StopsKeeps
  <1>5. CASE ~thr[t].listened
    <2>1. thr' = [thr EXCEPT ![t] = r] /\ listening' = listening
      BY <1>5 DEF CleanUp
    <2> HIDE DEF r
    <2>2. ThreadOK(r) /\ r.pc \notin Holding /\ r.pc \notin {"towait", "asleep"} /\ r.listened = FALSE /\ thr[t].listened = FALSE
      BY <1>2, <1>5, LabelAt DEF IsOutside, ThreadOK, Outside, Holding
    <2>3. LockMove(t, r)
      BY <1>1, <1>3, <2>2 DEF LockMove
    <2>4. ListenMove(t, r)
      BY <2>1, <2>2 DEF ListenMove
    <2> QED BY <2>1, <2>2, <2>3, <2>4, MoveKeeps
  <1> QED BY <1>4, <1>5

LEMMA ProcKeeps ==
  ASSUME SleepInv, NEW t \in Threads, ChildNode_proc_PacketsFromParent(t)
  PROVE  SleepInv'
  <1>1. thr[t].pc = "proc" /\ UNCHANGED castUnheld
    BY DEF ChildNode_proc_PacketsFromParent, At
  <1>2. \/ UNCHANGED <<thr, lock, listening>>
        \/ \E ret : CleanUp(t, ret) /\ lock' = AfterLock(Unlocked(lock, "RECV"), thr[t], ret)
    BY DEF ChildNode_proc_PacketsFromParent, Ends
  <1> QED BY <1>1, <1>2, NothingMoves, CleanUpKeeps

LEMMA FailCleanUpKeeps ==
  ASSUME SleepInv, NEW t \in Threads, FailCleanUp(t)
  PROVE  SleepInv'
  <1> DEFINE r == AfterInternal(thr[t], 2)
  <1>1. /\ thr[t].pc = "fail" /\ lock' = AfterLock(lock, thr[t], 2)
        /\ castUnheld' = (castUnheld \/ lock["RECV"].by # NoThread)
    BY DEF FailCleanUp, At
  <1>2. thr[t].listened /\ thr[t].op # "send" /\ thr[t].pc \notin Holding
    BY <1>1, LabelAt DEF LabelOK, Receiving, Listening, Holding, Recovering
  <1>3. IsOutside(r)
    BY <1>2, AfterInternalOK
  <1>4. Woken[t] = thr[t]
    BY <1>1 DEF Woken
  <1>5. thr' = [Woken EXCEPT ![t] = r] /\ listening' = 0
    BY <1>2, <1>4 DEF FailCleanUp, CleanUp
  <1>6. DOMAIN lock' = DOMAIN lock /\ lock'["RECV"] = lock["RECV"]
    BY <1>1, ReturnLockSame DEF SameRecv
  <1> HIDE DEF r
  <1> QED BY <1>1, <1>2, <1>3, <1>5, <1>6, StopsKeeps

-----------------------------------------------------------------------------
LEMMA SleepInit == NetInit => SleepInv
  <1> SUFFICES ASSUME NetInit PROVE SleepInv
    OBVIOUS
  <1>1. DOMAIN thr = Threads /\ \A t \in Threads : thr[t] = Idle
    BY DEF NetInit
  <1>2. lock["RECV"] = [by |-> NoThread, n |-> 0] /\ DOMAIN lock = {"NET", "RECV", "PARENT"} /\ listening = 0 /\ castUnheld = FALSE
    BY DEF NetInit
  <1>3. \A t \in Threads : ThreadOK(thr[t]) /\ thr[t].pc = "idle" /\ ~thr[t].listened
    BY <1>1, IdleOK DEF Is
  <1>4. LockOK
    BY <1>2, <1>3, LightNetworkAssumption DEF LockOK, Holding
  <1>5. ListenerOK
    BY <1>2, <1>3 DEF ListenerOK
  <1>6. SleeperOK
    BY <1>2, <1>3 DEF SleeperOK
  <1> QED BY <1>1, <1>3, <1>4, <1>5, <1>6 DEF SleepInv

LEMMA SleepNext == ASSUME SleepInv, [NetNext]_netVars PROVE SleepInv'
  <1>1. CASE UNCHANGED netVars
    BY <1>1, NothingMoves DEF netVars, recvVars
  <1>2. CASE ParentSends \/ ParentShutsDown \/ \E p \in Peers : ParentFails(p)
    <2>1. UNCHANGED <<thr, lock, listening, castUnheld>>
      BY <1>2 DEF ParentSends, ParentShutsDown, ParentFails, recvVars
    <2> QED BY <2>1, NothingMoves
  <1>3. CASE \E t \in Threads : Call(t)
    BY <1>3, CallKeeps
  <1>4. ASSUME NEW t \in Threads, ThreadStep(t) PROVE SleepInv'
    BY <1>4, StreamCheckStartKeeps, CheckKeeps, StreamLoopKeeps, StreamGetKeeps, RecvLockKeeps, RecvCheckKeeps,
       OrigParentKeeps, ProcReadyKeeps, BecomeListenerKeeps, GiveUpKeeps, DecideToWaitKeeps, WaitKeeps, GetParentKeeps,
       PeerNode_recvKeeps, EventLockKeeps, EventReadKeeps, RecovCheckKeeps, RelockKeeps, ProcKeeps, FailCleanUpKeeps,
       SendParentKeeps, PeerNode_sendDirectlyKeeps, SendRecovKeeps, RecoverEnterKeeps, RecoverOtherKeeps,
       RecoverLockKeeps, RecoverDropKeeps, RecoverConnectKeeps, RecoverEventKeeps, RecoverFinishKeeps DEF ThreadStep
  <1> QED BY <1>1, <1>2, <1>3, <1>4 DEF NetNext

\* However many threads call the lightweight library, and whatever its parents do: while a thread
\* sleeps on THREAD_LISTENING somebody listens for it, unless a listener that failed broadcast the
\* condition without RECV_SYNC while another thread held it.  With it goes that there is one
\* listener at most (Network_recv_internal and recv_clean_up in src/src/lightweight/Network.c).
THEOREM SleepersHaveListenerTheorem == NetSpec => [](SleepersHaveListener /\ ListenerOK)
  <1>1. SleepInv => SleepersHaveListener /\ ListenerOK
    BY DEF SleepInv, SleeperOK, ListenerOK, SleepersHaveListener
  <1> QED BY <1>1, SleepInit, SleepNext, PTL DEF NetSpec
=============================================================================
