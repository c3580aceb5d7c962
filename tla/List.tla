--------------------------------- MODULE List ---------------------------------
(***************************************************************************)
(* The linked lists of src/src/list.c.  A list keeps its first node; the   *)
(* prev of the first node is the last one, the next of the last one is     *)
(* null.  Nodes come from the pool of the list or from its stack of        *)
(* recycled nodes.  One caller uses a list (there is no lock), so every    *)
(* action is one whole call; what is hard is the sequence of calls.        *)
(*                                                                         *)
(* What is in a node that was removed from its list is never read, and is  *)
(* null here.                                                              *)
(*                                                                         *)
(* seq, skewed, rebuilt and fault are not in the code: what the calls put  *)
(* into a list, the lists that were inserted into before their first node, *)
(* the lists that sort or resize left with a null prev of the first node,  *)
(* and what the program did to its memory:                                 *)
(*   freed    a list has nodes in a pool that was freed                    *)
(*   outside  a store past the array of recycled nodes hit something       *)
(*   null     a null pointer was followed, which ends the program          *)
(***************************************************************************)
EXTENDS Integers, Sequences, SequencesExt, FiniteSets, FiniteSetsExt

CONSTANTS Lists,        \* the lists of the caller
          Data,         \* the data of a node, numbers that sort compares
          Node,         \* bound: the nodes that are allocated at a time, as many as a
                        \* list counts
          Null,         \* the null pointer
          MaxRecyclable \* the max_recyclable_nodes the caller resizes to

ASSUME ListAssumption ==
  /\ IsFiniteSet(Lists) /\ Null \notin Lists
  /\ IsFiniteSet(Node) /\ Null \notin Node
  /\ Data \subseteq Nat
  /\ MaxRecyclable \subseteq Nat

MaxNodes == Cardinality(Node)

VARIABLES head, count,          \* of each list
          first_free, max_recyclable,
          mp,                   \* the lists that have a pool
          next, prev, data,     \* of each node
          home,                 \* the list in whose pool the node is
          seq, skewed, rebuilt, fault

nodes == <<next, prev, data, home>>
recycling == <<first_free, max_recyclable>>
vars == <<head, count, recycling, mp, nodes, seq, skewed, rebuilt, fault>>

\* The nodes a caller meets who goes from the first node along next, in order.
Walk(l) ==
  LET w[k \in 0 .. MaxNodes] ==
        IF k = 0 THEN IF head[l] = Null THEN <<>> ELSE <<head[l]>>
        ELSE LET way == w[k - 1]
             IN  IF way = <<>> THEN way
                 ELSE IF next[Last(way)] = Null THEN way ELSE Append(way, next[Last(way)])
  IN  w[MaxNodes]

Values(s) == [i \in 1 .. Len(s) |-> data[s[i]]]

\* The nodes the pools may give out.  Memory that was freed is not given out again
\* while a list still has a node there among its recycled ones.
Fresh == {n \in Node : home[n] = Null /\ \A l \in Lists : ~Contains(first_free[l], n)}
-------------------------------------------------------------------------------
(* ina_list_new of every list: a pool, and room to recycle nodes.            *)
Init ==
  /\ head = [l \in Lists |-> Null]
  /\ count = [l \in Lists |-> 0]
  /\ first_free = [l \in Lists |-> <<>>]
  /\ max_recyclable = [l \in Lists |-> Max(MaxRecyclable)]
  /\ mp = Lists
  /\ next = [n \in Node |-> Null]
  /\ prev = [n \in Node |-> Null]
  /\ data = [n \in Node |-> Null]
  /\ home = [n \in Node |-> Null]
  /\ seq = [l \in Lists |-> <<>>]
  /\ skewed = {}
  /\ rebuilt = {}
  /\ fault = "none"

\* Mutant: the recycled node stays on the stack.
NodeNew_Stays(l, n) ==
  \/ /\ first_free[l] # <<>>
     /\ n = Last(first_free[l])
     /\ UNCHANGED <<first_free, fault, home>>
  \/ /\ first_free[l] = <<>>
     /\ l \in mp
     /\ n \in Fresh
     /\ home' = [home EXCEPT ![n] = l]
     /\ UNCHANGED <<first_free, fault>>

\* ina_list_node_new gives list l node n: the one recycled last, or one of the
\* pool.
NodeNew(l, n) ==
  \/ /\ first_free[l] # <<>>
     /\ n = Last(first_free[l])
     /\ first_free' = [first_free EXCEPT ![l] = Front(@)]
     /\ fault' = IF home[n] = Null THEN "freed" ELSE fault
     /\ UNCHANGED home
  \/ /\ first_free[l] = <<>>
     /\ l \in mp
     /\ n \in Fresh
     /\ home' = [home EXCEPT ![n] = l]
     /\ UNCHANGED <<first_free, fault>>

\* ina_list_node_free of n.  The stack grows from index 1 on of an array that has
\* max_recyclable places, so that the entry that fills it lies past its end: the store
\* meets slack of the allocation, and the entry is there when it is read, or whatever
\* else is kept there.
Recycled(l, n) ==
  \/ /\ Len(first_free[l]) < max_recyclable[l]
     /\ first_free' = [first_free EXCEPT ![l] = Append(@, n)]
     /\ fault' \in IF Len(first_free[l]) + 1 = max_recyclable[l] THEN {fault, "outside"} ELSE {fault}
  \/ /\ Len(first_free[l]) >= max_recyclable[l]
     /\ UNCHANGED <<first_free, fault>>

\* The first node of a list, by either insertion.
InsertFirst(l, v) ==
  \E n \in Node :
    /\ head[l] = Null
    /\ count[l] < MaxNodes
    /\ NodeNew(l, n)
    /\ data' = [data EXCEPT ![n] = v]
    /\ prev' = [prev EXCEPT ![n] = n]
    /\ next' = [next EXCEPT ![n] = Null]
    /\ head' = [head EXCEPT ![l] = n]
    /\ count' = [count EXCEPT ![l] = @ + 1]
    /\ seq' = [seq EXCEPT ![l] = <<v>>]
    /\ rebuilt' = rebuilt \ {l}
    /\ UNCHANGED <<max_recyclable, mp, skewed>>

\* Mutant: the prev of the first node is not moved on to the new last one.
InsertTail_NoPrev(l, v) ==
  \E n \in Node :
    /\ head[l] # Null
    /\ prev[head[l]] # Null
    /\ count[l] < MaxNodes
    /\ NodeNew(l, n)
    /\ data' = [data EXCEPT ![n] = v]
    /\ prev' = [prev EXCEPT ![n] = prev[head[l]]]
    /\ next' = [next EXCEPT ![n] = Null, ![prev[head[l]]] = n]
    /\ count' = [count EXCEPT ![l] = @ + 1]
    /\ seq' = [seq EXCEPT ![l] = Append(@, v)]
    /\ UNCHANGED <<head, max_recyclable, mp, skewed, rebuilt>>

\* ina_list_insert_tail_data into a list that has nodes.
InsertTail(l, v) ==
  \E n \in Node :
    /\ head[l] # Null
    /\ prev[head[l]] # Null
    /\ count[l] < MaxNodes
    /\ NodeNew(l, n)
    /\ data' = [data EXCEPT ![n] = v]
    /\ prev' = [prev EXCEPT ![n] = prev[head[l]], ![head[l]] = n]
    /\ next' = [next EXCEPT ![n] = Null, ![prev[head[l]]] = n]
    /\ count' = [count EXCEPT ![l] = @ + 1]
    /\ seq' = [seq EXCEPT ![l] = Append(@, v)]
    /\ UNCHANGED <<head, max_recyclable, mp, skewed, rebuilt>>

\* ina_list_insert_head_data into a list that has nodes: the node is put before
\* the first one, and the list's head stays, so that nobody gets to see it.
InsertHead(l, v) ==
  \E n \in Node :
    /\ head[l] # Null
    /\ count[l] < MaxNodes
    /\ NodeNew(l, n)
    /\ data' = [data EXCEPT ![n] = v]
    /\ prev' = [prev EXCEPT ![n] = prev[head[l]], ![head[l]] = n]
    /\ next' = [next EXCEPT ![n] = head[l]]
    /\ count' = [count EXCEPT ![l] = @ + 1]
    /\ seq' = [seq EXCEPT ![l] = <<v>> \o @]
    /\ skewed' = skewed \cup {l}
    /\ UNCHANGED <<head, max_recyclable, mp, rebuilt>>

\* The insertions follow a null pointer: all of them where there is neither a recycled
\* node nor a pool, because the list gave its pool away; at the end of the list also
\* where the first node has no prev.
InsertEnds(l) ==
  /\ \/ first_free[l] = <<>> /\ l \notin mp
     \/ head[l] # Null /\ prev[head[l]] = Null
  /\ fault' = "null"
  /\ UNCHANGED <<head, count, recycling, mp, nodes, seq, skewed, rebuilt>>

\* ina_list_remove and ina_list_node_free of the node at place i of the walk, which
\* ina_list_remove_data does for the first one that has the data.
RemoveNode(l, i) ==
  LET n == Walk(l)[i]
      before == IF next[n] # Null THEN [prev EXCEPT ![next[n]] = prev[n]]
                                  ELSE [prev EXCEPT ![head[l]] = prev[n]]
  IN  /\ i \in DOMAIN Walk(l)
      /\ prev' = [before EXCEPT ![n] = Null]
      /\ IF head[l] = n
         THEN /\ head' = [head EXCEPT ![l] = next[n]]
              /\ next' = [next EXCEPT ![n] = Null]
         ELSE /\ next' = [next EXCEPT ![prev[n]] = next[n], ![n] = Null]
              /\ UNCHANGED head
      /\ count' = [count EXCEPT ![l] = @ - 1]
      /\ Recycled(l, n)
      /\ seq' = [seq EXCEPT ![l] = RemoveAt(@, i)]
      /\ rebuilt' = IF next[n] = Null THEN rebuilt \ {l} ELSE rebuilt
      /\ data' = [data EXCEPT ![n] = Null]
      /\ UNCHANGED <<max_recyclable, mp, home, skewed>>

\* ina_list_concat: the nodes of s go to the end of d, and with them its pool.
\* The nodes s has recycled stay on its stack.  A list is not joined to itself.
Concat(d, s) ==
  LET tail == prev[head[d]]
  IN  /\ d # s
      /\ head[s] # Null
      /\ count[d] + count[s] <= MaxNodes
      /\ \/ /\ head[d] = Null
            /\ head' = [head EXCEPT ![d] = head[s], ![s] = Null]
            /\ UNCHANGED <<next, prev>>
         \/ /\ head[d] # Null
            /\ tail # Null
            /\ head' = [head EXCEPT ![s] = Null]
            /\ prev' = [prev EXCEPT ![head[d]] = prev[head[s]], ![head[s]] = tail]
            /\ next' = [next EXCEPT ![tail] = head[s]]
      /\ count' = [count EXCEPT ![d] = (IF head[d] = Null THEN 0 ELSE @) + count[s], ![s] = 0]
      /\ mp' = IF s \in mp THEN (mp \ {s}) \cup {d} ELSE mp
      /\ home' = [n \in Node |-> IF home[n] = s THEN d ELSE home[n]]
      /\ seq' = [seq EXCEPT ![d] = @ \o seq[s], ![s] = <<>>]
      /\ rebuilt' = (rebuilt \ {s, d}) \cup (IF s \in rebuilt THEN {d} ELSE {})
      /\ UNCHANGED <<recycling, data, skewed, fault>>

\* ina_list_concat follows the prev of the first node of d, which is null.
ConcatEnds(d, s) ==
  /\ d # s
  /\ head[s] # Null
  /\ head[d] # Null
  /\ prev[head[d]] = Null
  /\ fault' = "null"
  /\ UNCHANGED <<head, count, recycling, mp, nodes, seq, skewed, rebuilt>>
--------------------------------------------------------------------------------
(* ina_list_sort: __ina_mergesort splits after the middle node, and takes the *)
(* node of the second half when the data are equal.                          *)

\* Mutant: the nodes are compared the other way round.
Merge_Inverted(a, b) ==
  LET used[k \in 0 .. Len(a) + Len(b)] ==
        IF k = 0 THEN 0
        ELSE LET i == used[k - 1] + 1
                 j == k - used[k - 1]
             IN  IF i <= Len(a) /\ (j > Len(b) \/ data[a[i]] > data[b[j]]) THEN i ELSE i - 1
  IN  [k \in 1 .. Len(a) + Len(b) |-> IF used[k] > used[k - 1] THEN a[used[k]] ELSE b[k - used[k]]]

\* __ina_merge: one call takes one node, the k-th one the first of what is left of
\* a or of b.  used[k] is how many of the first k nodes are of a.
Merge(a, b) ==
  LET used[k \in 0 .. Len(a) + Len(b)] ==
        IF k = 0 THEN 0
        ELSE LET i == used[k - 1] + 1
                 j == k - used[k - 1]
             IN  IF i <= Len(a) /\ (j > Len(b) \/ data[a[i]] < data[b[j]]) THEN i ELSE i - 1
  IN  [k \in 1 .. Len(a) + Len(b) |-> IF used[k] > used[k - 1] THEN a[used[k]] ELSE b[k - used[k]]]

\* __ina_mergesort of the n nodes of s after place i, and so of all of them.
MergeSort(s) ==
  LET sort[n \in 0 .. Len(s)] ==
        [i \in 0 .. Len(s) - n |->
           IF n <= 1 THEN SubSeq(s, i + 1, i + n)
           ELSE LET half == (n + 1) \div 2
                IN  Merge(sort[half][i], sort[n - half][i + half])]
  IN  sort[Len(s)][0]

\* The numbers of s in ascending order.
Rearranged(s) == {[i \in 1 .. Len(s) |-> s[p[i]]] : p \in Injection(1 .. Len(s), 1 .. Len(s))}
InOrder(s) == CHOOSE t \in Rearranged(s) : \A i, j \in 1 .. Len(s) : i < j => t[i] <= t[j]

\* next and prev when the nodes of s are linked in this order and the prev of the
\* first one is null; old is what the other nodes have.
Nexts(s, old) == [n \in Node |-> IF Contains(s, n) /\ n # Last(s)
                                 THEN s[CHOOSE i \in 2 .. Len(s) : s[i - 1] = n]
                                 ELSE IF Contains(s, n) THEN Null ELSE old[n]]
Prevs(s, old) == [n \in Node |-> IF Contains(s, n) /\ n # Head(s)
                                 THEN s[CHOOSE i \in 1 .. Len(s) - 1 : s[i + 1] = n]
                                 ELSE IF Contains(s, n) THEN Null ELSE old[n]]

Sort(l) ==
  LET s == MergeSort(Walk(l))
  IN  /\ Len(s) > 1
      /\ head' = [head EXCEPT ![l] = Head(s)]
      /\ next' = Nexts(s, next)
      /\ prev' = Prevs(s, prev)
      /\ seq' = [seq EXCEPT ![l] = InOrder(@)]
      /\ rebuilt' = rebuilt \cup {l}
      /\ UNCHANGED <<count, recycling, mp, data, home, skewed, fault>>
--------------------------------------------------------------------------------
\* The pool of list l is freed: the nodes in it are gone, also those that another
\* list has in use.
Gone(l) == {n \in Node : home[n] = l}
InUse(l) == \E m \in Lists \ {l} : ToSet(Walk(m)) \cap Gone(l) # {}

\* ina_list_resize: the nodes are copied to a new pool.  A list that gave its pool
\* away gets one and keeps its nodes.
Resize(l, max) ==
  /\ \/ /\ l \in mp
        /\ LET old == Walk(l)
               clean(f) == [n \in Node |-> IF n \in Gone(l) THEN Null ELSE f[n]]
           IN  \E new \in [1 .. Len(old) -> Fresh] :
               /\ IsInjective(new)
               /\ head' = [head EXCEPT ![l] = IF old = <<>> THEN Null ELSE Head(new)]
               /\ next' = Nexts(new, clean(next))
               /\ prev' = Prevs(new, clean(prev))
               /\ data' = [n \in Node |->
                             IF Contains(new, n) THEN data[old[CHOOSE i \in DOMAIN new : new[i] = n]]
                                                 ELSE clean(data)[n]]
               /\ home' = [n \in Node |-> IF Contains(new, n) THEN l ELSE clean(home)[n]]
               /\ rebuilt' = IF old = <<>> THEN rebuilt ELSE rebuilt \cup {l}
               /\ fault' = IF InUse(l) THEN "freed" ELSE fault
        /\ UNCHANGED mp
     \/ /\ l \notin mp
        /\ mp' = mp \cup {l}
        /\ UNCHANGED <<head, nodes, rebuilt, fault>>
  /\ first_free' = [first_free EXCEPT ![l] = <<>>]
  /\ max_recyclable' = [max_recyclable EXCEPT ![l] = max]
  /\ UNCHANGED <<count, seq, skewed>>

\* ina_list_free, and ina_list_new of another list in its place.
Free(l) ==
  LET clean(f) == [n \in Node |-> IF n \in Gone(l) THEN Null ELSE f[n]]
  IN  /\ head' = [head EXCEPT ![l] = Null]
      /\ count' = [count EXCEPT ![l] = 0]
      /\ first_free' = [first_free EXCEPT ![l] = <<>>]
      /\ max_recyclable' = [max_recyclable EXCEPT ![l] = Max(MaxRecyclable)]
      /\ mp' = mp \cup {l}
      /\ next' = clean(next)
      /\ prev' = clean(prev)
      /\ data' = clean(data)
      /\ home' = clean(home)
      /\ seq' = [seq EXCEPT ![l] = <<>>]
      /\ skewed' = skewed \ {l}
      /\ rebuilt' = rebuilt \ {l}
      /\ fault' = IF InUse(l) THEN "freed" ELSE fault

\* A program with a fault is not followed further, and a list that was inserted into
\* before its first node no further than to its being freed.
Next ==
  /\ fault = "none"
  /\ \/ \E l \in Lists \ skewed :
          \/ \E v \in Data : InsertFirst(l, v) \/ InsertTail(l, v) \/ InsertHead(l, v)
          \/ \E i \in 1 .. MaxNodes : RemoveNode(l, i)
          \/ InsertEnds(l)
          \/ \E s \in Lists \ skewed : Concat(l, s) \/ ConcatEnds(l, s)
          \/ \E max \in MaxRecyclable : Resize(l, max)
          \/ Sort(l)
     \/ \E l \in Lists : Free(l)

Spec == Init /\ [][Next]_vars
--------------------------------------------------------------------------------
\* Who goes through a list, as foreach and find do, meets what the calls put there,
\* in order, and the count is how much it is: after insertions, removals, joins, sorts
\* and resizes, with nodes recycled and moved to new pools in between.  It says nothing
\* of a list that ina_list_insert_head put a node before when it had one already, and
\* nothing once a fault happened, which the code does not exclude: insert_tail and
\* concat end the program after a sort or a resize, a list may be left with nodes in a
\* freed pool, and the last recycled node is kept past the end of its array.
WalkAgrees ==
  fault = "none" =>
    \A l \in Lists \ skewed : Values(Walk(l)) = seq[l] /\ count[l] = Len(seq[l])

\* prev leads back along the walk, and from the first node to the last one, where
\* insert_tail, remove and concat look for it.  The first node has no prev only
\* after a sort or a resize, until the last node is removed: elsewhere the null pointer
\* of InsertEnds and ConcatEnds is not met.  Excepted as in WalkAgrees.
BackLinks ==
  fault = "none" =>
    \A l \in Lists \ skewed :
      LET w == Walk(l)
      IN  /\ \A i \in 2 .. Len(w) : prev[w[i]] = w[i - 1]
          /\ w # <<>> => prev[w[1]] \in {Last(w), Null} /\ (prev[w[1]] = Null => l \in rebuilt)

\* No node is in a list twice, in two lists, or in a list and on a stack of
\* recycled nodes that will give it out again; and a node in a list is in a pool.  It
\* says nothing once a fault happened: a stack kept past the end of its array may give
\* out anything.
NodesApart ==
  fault = "none" =>
    LET walk == [l \in Lists |-> Walk(l)]
    IN  \A l, m \in Lists :
          /\ \A i \in DOMAIN walk[l] : home[walk[l][i]] # Null
          /\ \A i \in DOMAIN walk[l], j \in DOMAIN walk[m] :
               walk[l][i] = walk[m][j] => l = m /\ i = j
          /\ \A i \in DOMAIN walk[l], j \in DOMAIN first_free[m] :
               walk[l][i] # first_free[m][j]
          /\ \A i \in DOMAIN first_free[l], j \in DOMAIN first_free[m] :
               first_free[l][i] = first_free[m][j] /\ home[first_free[l][i]] # Null
                 => l = m /\ i = j
================================================================================
