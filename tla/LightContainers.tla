--------------------------- MODULE LightContainers ---------------------------
(***************************************************************************)
(* The containers of the lightweight library: the map, an unbalanced       *)
(* search tree with an array of its keys (map.c), and the vector           *)
(* (vector.c).  A node of the tree is named by the key it holds at the     *)
(* moment; 0 is NULL.                                                      *)
(***************************************************************************)
EXTENDS Integers, Sequences, FiniteSets

CONSTANT MapKeys            \* the keys (hash_key is the identity); they are only compared

ASSUME MapKeysAssumption == MapKeys \subseteq Int \ {0} /\ IsFiniteSet(MapKeys)

VARIABLES map,              \* [root, left, right, val, keys]
          shadow,           \* what a map should hold: key -> value, 0 for none
          doubled           \* insert was called for a key the map holds
mapVars == <<map, shadow, doubled>>

MapNodes == MapKeys \cup {0}
new_map_t == [root |-> 0, left |-> [k \in MapKeys |-> 0], right |-> [k \in MapKeys |-> 0],
              val |-> [k \in MapKeys |-> 0], keys |-> <<>>]

\* Go down the tree from a place: no way down is longer than there are keys.
Descend(next, from) ==
  LET place[n \in 0..Cardinality(MapKeys)] == IF n = 0 THEN from ELSE next[place[n - 1]]
  IN  place[Cardinality(MapKeys)]
\* find_node_recursive: the node with the key, or 0, and the node above it (*parent).
SearchStep(m, key) ==
  [p \in [parent : MapNodes, node : MapNodes] |->
     IF p.node = 0 \/ p.node = key THEN p
     ELSE [parent |-> p.node, node |-> IF key < p.node THEN m.left[p.node] ELSE m.right[p.node]]]
find_node_recursive(m, key) == Descend(SearchStep(m, key), [parent |-> 0, node |-> m.root])
get_val(m, key) == IF find_node_recursive(m, key).node = 0 THEN 0 ELSE m.val[key]

\* Put `new' where the tree has `old' below `parent' (0: at the root).
Relink(m, parent, old, new) ==
  IF parent = 0 THEN [m EXCEPT !.root = new]
  ELSE IF m.left[parent] = old THEN [m EXCEPT !.left[parent] = new]
  ELSE [m EXCEPT !.right[parent] = new]

\* insert: a key that is there makes insert_recursive return NULL, which its caller links in
\* place of the node; the key is appended to the array in any case.
insert(m, key, v) ==
  LET p == find_node_recursive(m, key)
      linked == IF p.node = key THEN Relink(m, p.parent, key, 0)
                ELSE IF p.parent = 0 THEN [m EXCEPT !.root = key, !.val[key] = v]
                ELSE IF key < p.parent THEN [m EXCEPT !.left[p.parent] = key, !.val[key] = v]
                ELSE [m EXCEPT !.right[p.parent] = key, !.val[key] = v]
  IN  [linked EXCEPT !.keys = Append(@, key)]

\* The greatest key on the left of a node, and the node above it.
RightStep(m) ==
  [p \in [parent : MapKeys, node : MapKeys] |->
     IF m.right[p.node] = 0 THEN p ELSE [parent |-> p.node, node |-> m.right[p.node]]]
Rightmost(m, key) == Descend(RightStep(m), [parent |-> key, node |-> m.left[key]])
Without(m, key) == [m EXCEPT !.left[key] = 0, !.right[key] = 0, !.val[key] = 0]
Promote_drop(m, parent, key) ==
  LET tmp == Rightmost(m, key)
      cut == Relink(m, tmp.parent, tmp.node, 0)
      moved == [cut EXCEPT !.left[tmp.node] = cut.left[key], !.right[tmp.node] = cut.right[key]]
  IN  Without(Relink(moved, parent, key, tmp.node), key)
\* Case 2: the greatest key on the left takes the place; its own left subtree moves up.
Promote(m, parent, key) ==
  LET tmp == Rightmost(m, key)
      cut == Relink(m, tmp.parent, tmp.node, m.left[tmp.node])
      moved == [cut EXCEPT !.left[tmp.node] = cut.left[key], !.right[tmp.node] = cut.right[key]]
  IN  Without(Relink(moved, parent, key, tmp.node), key)
\* The keys behind the erased one move up.
ShiftKeys(keys, key) ==
  LET i == CHOOSE j \in 1..Len(keys) : keys[j] = key
  IN  [j \in 1..(Len(keys) - 1) |-> IF j < i THEN keys[j] ELSE keys[j + 1]]
\* erase: a leaf goes, a node with one child is replaced by it.
erase(m, key) ==
  LET there == \E i \in 1..Len(m.keys) : m.keys[i] = key
      short == [m EXCEPT !.keys = ShiftKeys(@, key)]
      parent == find_node_recursive(m, key).parent
  IN  IF ~there THEN m
      ELSE IF m.left[key] # 0 /\ m.right[key] # 0 THEN Promote(short, parent, key)
      ELSE Without(Relink(short, parent, key, IF m.left[key] # 0 THEN m.left[key] ELSE m.right[key]), key)

-----------------------------------------------------------------------------
\* vector.c: eraseElement goes on with the next index after it has closed the gap.
pushBackElement(vec, e) == Append(vec, e)
findElement(vec, e) == \E i \in 1..Len(vec) : vec[i] = e
eraseElement(vec, e) ==
  LET scan[i \in 0..Len(vec)] ==
        IF i = 0 THEN vec
        ELSE LET s == scan[i - 1]
             IN  IF i <= Len(s) /\ s[i] = e THEN SubSeq(s, 1, i - 1) \o SubSeq(s, i + 1, Len(s)) ELSE s
  IN  scan[Len(vec)]

-----------------------------------------------------------------------------
MapInit == map = new_map_t /\ shadow = [k \in MapKeys |-> 0] /\ doubled = FALSE

MapInsert == \E k \in MapKeys :
  /\ ~doubled
  /\ map' = insert(map, k, k) /\ shadow' = [shadow EXCEPT ![k] = k]
  /\ doubled' = (shadow[k] # 0)
MapErase == \E k \in MapKeys :
  /\ ~doubled
  /\ map' = erase(map, k) /\ shadow' = [shadow EXCEPT ![k] = 0] /\ UNCHANGED doubled
MapNext == MapInsert \/ MapErase
MapSpec == MapInit /\ [][MapNext]_mapVars

\* The map holds what was put into it and not taken out, and its array of keys lists exactly
\* that, however the tree has been rearranged by erase (map.c); as long as nobody inserts a
\* key twice, which cuts off the subtree the key is in.
MapIsMap ==
  ~doubled =>
    /\ \A k \in MapKeys : get_val(map, k) = shadow[k]
    /\ {map.keys[i] : i \in 1..Len(map.keys)} = {k \in MapKeys : shadow[k] # 0}
    /\ Len(map.keys) = Cardinality({k \in MapKeys : shadow[k] # 0})
=============================================================================
