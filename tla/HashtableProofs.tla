---------------------------- MODULE HashtableProofs ----------------------------
(***************************************************************************)
(* Proofs about Hashtable: its types for every set of keys, and, for keys  *)
(* of one length whose first word is not zero, that get agrees with the    *)
(* map the calls describe, for every capacity, hash function, bucket size  *)
(* and number of calls.                                                    *)
(***************************************************************************)
EXTENDS Hashtable, FiniteSetTheorems, TLAPS

USE HashtableAssumption DEF Bucket, Slot

\* Integer and pointer keys: every key fills the node's key, and none has a
\* zero first word.
FixedKeys == \A k \in Key : Len(k) = KEY_LEN /\ ~ZeroWord(k)

Placed == \A b \in Bucket : \A i \in 1 .. cnt[b] :
              nkey[b][i] \in Key /\ Hash[nkey[b][i]] = b
Distinct == \A b \in Bucket : \A i, j \in 1 .. cnt[b] :
              nkey[b][i] = nkey[b][j] => i = j
Stored == \A b \in Bucket : \A i \in 1 .. cnt[b] :
              map[nkey[b][i]] = ndata[b][i]
Found == \A k \in Key : map[k] # NULL =>
              \E i \in 1 .. cnt[Hash[k]] : nkey[Hash[k]][i] = k

\* The nodes of a bucket hold distinct keys that hash to it, each with the
\* data the map gives it, and every key of the map has a node.
StoreInv == Placed /\ Distinct /\ Stored /\ Found

\* A key of full length, as a node's key.
LEMMA KeyIsNodeKey == ASSUME FixedKeys, NEW k \in Key PROVE k \in NodeKey
BY DEF FixedKeys, NodeKey

\* Comparing all bytes is equality.
LEMMA MatchIsEq ==
    ASSUME FixedKeys, NEW k \in Key, NEW s \in NodeKey
    PROVE  Match(s, k) <=> s = k
<1>1. k \in NodeKey /\ Len(k) = KEY_LEN
  BY KeyIsNodeKey DEF FixedKeys
<1> QED BY <1>1 DEF Match, NodeKey

\* Copying all bytes leaves nothing of the node's old key.
LEMMA CopyIsKey ==
    ASSUME FixedKeys, NEW k \in Key, NEW s \in NodeKey
    PROVE  CopyKey(s, k) = k
<1>1. k \in NodeKey /\ Len(k) = KEY_LEN
  BY KeyIsNodeKey DEF FixedKeys
<1> QED BY <1>1 DEF CopyKey, NodeKey

\* No node stops the scan early.
LEMMA ReachedAll ==
    ASSUME FixedKeys, TypeOK, Placed, NEW b \in Bucket
    PROVE  Reached(b) = 1 .. cnt[b]
BY DEF Reached, FixedKeys, Placed, TypeOK

\* With the invariant, a node in use that matches k is the only one, and get
\* returns its data, which is the map's.
LEMMA LookupFromInv ==
    ASSUME FixedKeys, TypeOK, StoreInv, NEW k \in Key
    PROVE  Lookup(k) = map[k]
<1> DEFINE b == Hash[k]
           hits == {i \in InUse(b) : FirstMatch(b, k, InUse(b), i)}
<1>1. b \in Bucket
  OBVIOUS
<1>2. Reached(b) = 1 .. cnt[b]
  BY <1>1, ReachedAll DEF StoreInv
<1>3. \A i \in 1 .. cnt[b] : i \in Slot /\ nkey[b][i] \in NodeKey
  BY <1>1 DEF TypeOK
<1>4. \A i \in 1 .. cnt[b] : Match(nkey[b][i], k) <=> nkey[b][i] = k
  BY <1>3, MatchIsEq
<1>5. \A i \in 1 .. cnt[b] : nkey[b][i] = k => ndata[b][i] = map[k]
  BY <1>1 DEF StoreInv, Stored
<1>6. InUse(b) = {i \in 1 .. cnt[b] : ndata[b][i] # NULL}
  BY <1>2 DEF InUse
<1>7. \A i \in hits : ndata[b][i] = map[k]
  BY <1>4, <1>5, <1>6 DEF FirstMatch
<1>8. CASE map[k] = NULL
  <2>1. hits = {}
    BY <1>4, <1>5, <1>6, <1>8 DEF FirstMatch
  <2> QED BY <2>1, <1>8 DEF Lookup
<1>9. CASE map[k] # NULL
  <2>1. PICK i \in 1 .. cnt[b] : nkey[b][i] = k
    BY <1>9 DEF StoreInv, Found
  <2>2. \A j \in 1 .. cnt[b] : nkey[b][j] = k => j = i
    BY <1>1, <2>1 DEF StoreInv, Distinct
  <2>3. i \in InUse(b)
    BY <1>5, <1>6, <1>9, <2>1
  <2>4. FirstMatch(b, k, InUse(b), i)
    BY <1>4, <1>6, <2>1, <2>2, <2>3 DEF FirstMatch
  <2>5. hits # {}
    BY <2>3, <2>4
  <2>6. (CHOOSE j \in hits : TRUE) \in hits
    BY <2>5
  <2>7. Lookup(k) = ndata[b][CHOOSE j \in hits : TRUE]
    BY <2>5 DEF Lookup
  <2> HIDE DEF hits
  <2> QED BY <2>6, <2>7, <1>7
<1> QED BY <1>8, <1>9
--------------------------------------------------------------------------------
LEMMA CopyType ==
    ASSUME NEW k \in Key, NEW s \in NodeKey
    PROVE  CopyKey(s, k) \in NodeKey
BY DEF CopyKey, NodeKey

LEMMA RcType ==
    ASSUME NEW it \in Iterator, NEW r \in {"none", "ok", "state", "end", "wild"}
    PROVE  [it EXCEPT !.rc = r] \in Iterator
BY DEF Iterator

LEMMA PositionType ==
    ASSUME NEW it \in Iterator, NEW r \in {"none", "ok", "state", "end", "wild"},
           NEW b \in 0 .. Capacity, NEW a \in 0 .. MaxSlots,
           NEW n \in 1 .. MaxSlots + 1
    PROVE  [it EXCEPT !.bucket = b, !.arr = a, !.node = n, !.rc = r] \in Iterator
<1> DEFINE i1 == [it EXCEPT !.bucket = b]
           i2 == [i1 EXCEPT !.arr = a]
           i3 == [i2 EXCEPT !.node = n]
<1>1. i1 \in Iterator
  BY DEF Iterator
<1>2. i2 \in Iterator
  <2> HIDE DEF i1
  <2> QED BY <1>1 DEF Iterator
<1>3. i3 \in Iterator
  <2> HIDE DEF i2
  <2> QED BY <1>2 DEF Iterator
<1> QED BY <1>3, RcType

LEMMA TouchType ==
    ASSUME TypeOK, Touch
    PROVE  /\ clean' \in {"yes", "no"}
           /\ seen' \in Seq(Bucket \X Slot)
           /\ iter' \in Iterator
<1>1. iter \in Iterator /\ iter' = [iter EXCEPT !.rc = "none"]
  BY DEF TypeOK, Touch
<1>2. iter' \in Iterator
  BY <1>1, RcType
<1>3. <<>> \in Seq(Bucket \X Slot)
  OBVIOUS
<1> QED BY <1>2, <1>3 DEF TypeOK, Touch

\* The bucket a set works on has room for one more node.
LEMMA ExpandType ==
    ASSUME TypeOK, NEW b \in Bucket, Expand(b)
    PROVE  /\ max' \in [Bucket -> 0 .. MaxSlots]
           /\ max'[b] >= cnt[b] + 1
           /\ \A c \in Bucket : max'[c] >= max[c]
<1>1. /\ max \in [Bucket -> 0 .. MaxSlots]
      /\ cnt[b] \in 0 .. MaxSlots
      /\ cnt[b] <= max[b]
  BY DEF TypeOK
<1>2. MaxAfter(b) \in 0 .. MaxSlots /\ MaxAfter(b) >= cnt[b] + 1
      /\ MaxAfter(b) >= max[b]
  BY <1>1 DEF MaxAfter, Expand
<1>3. max' = [max EXCEPT ![b] = MaxAfter(b)]
  BY DEF Expand
<1> HIDE DEF Bucket
<1> QED BY <1>1, <1>2, <1>3

LEMMA InitType == Init => TypeOK
BY DEF Init, NoIter, TypeOK, Iterator, NodeKey, ZeroKey

\* Every operation of the table and the iterator keeps the types, and in
\* particular a bucket's count within its array.
LEMMA TypeStep == TypeOK /\ [Next]_vars => TypeOK'
<1> SUFFICES ASSUME TypeOK, [Next]_vars PROVE TypeOK'
  OBVIOUS
<1>1. ASSUME NEW k \in Key, NEW d \in Value, SetMatch(k, d),
             map' = [map EXCEPT ![k] = d], Touch
      PROVE  TypeOK'
  <2> DEFINE b == Hash[k]
  <2>1. b \in Bucket /\ Expand(b)
    BY <1>1 DEF SetMatch
  <2>2. PICK i \in Slot : ndata' = [ndata EXCEPT ![b][i] = d]
    BY <1>1 DEF SetMatch
  <2>3. ndata' \in [Bucket -> [Slot -> Value \cup {NULL}]]
    BY <2>1, <2>2 DEF TypeOK
  <2>4. max' \in [Bucket -> 0 .. MaxSlots] /\ \A c \in Bucket : max'[c] >= max[c]
    BY <2>1, ExpandType
  <2>5. nkey' = nkey /\ cnt' = cnt /\ count' = count
    BY <1>1 DEF SetMatch
  <2>6. \A c \in Bucket : cnt'[c] <= max'[c]
    BY <2>4, <2>5 DEF TypeOK
  <2>7. map' \in [Key -> Value \cup {NULL}]
    BY <1>1 DEF TypeOK
  <2> QED BY <1>1, <2>3, <2>4, <2>5, <2>6, <2>7, TouchType DEF TypeOK
<1>2. ASSUME NEW k \in Key, NEW d \in Value, SetNew(k, d),
             map' = [map EXCEPT ![k] = d], Touch
      PROVE  TypeOK'
  <2> DEFINE b == Hash[k]
  <2>1. b \in Bucket /\ Expand(b)
    BY <1>2 DEF SetNew
  <2>2. PICK i \in Slot :
           /\ nkey' = [nkey EXCEPT ![b][i] = CopyKey(nkey[b][i], k)]
           /\ ndata' = [ndata EXCEPT ![b][i] = d]
           /\ cnt' = [cnt EXCEPT ![b] = IF i = cnt[b] + 1 THEN i ELSE cnt[b]]
    BY <1>2 DEF SetNew
  <2>3. CopyKey(nkey[b][i], k) \in NodeKey
    BY <2>1, CopyType DEF TypeOK
  <2>4. nkey' \in [Bucket -> [Slot -> NodeKey]]
    BY <2>1, <2>2, <2>3 DEF TypeOK
  <2>5. ndata' \in [Bucket -> [Slot -> Value \cup {NULL}]]
    BY <2>1, <2>2 DEF TypeOK
  <2>6. max' \in [Bucket -> 0 .. MaxSlots] /\ max'[b] >= cnt[b] + 1
        /\ \A c \in Bucket : max'[c] >= max[c]
    BY <2>1, ExpandType
  <2>7. cnt' \in [Bucket -> 0 .. MaxSlots]
    BY <2>1, <2>2 DEF TypeOK
  <2>8. \A c \in Bucket : cnt'[c] <= max'[c]
    <3> SUFFICES ASSUME NEW c \in Bucket PROVE cnt'[c] <= max'[c]
      OBVIOUS
    <3>1. /\ cnt[c] \in 0 .. MaxSlots /\ max[c] \in 0 .. MaxSlots
          /\ max'[c] \in 0 .. MaxSlots /\ cnt[c] <= max[c] /\ i \in Nat
      BY <2>6 DEF TypeOK
    <3>2. CASE c = b
      <4>1. cnt'[b] = IF i = cnt[b] + 1 THEN i ELSE cnt[b]
        BY <2>1, <2>2 DEF TypeOK
      <4> HIDE DEF b
      <4> QED BY <3>1, <3>2, <4>1, <2>6
    <3>3. CASE c # b
      <4>1. cnt'[c] = cnt[c]
        BY <2>1, <2>2, <3>3 DEF TypeOK
      <4> QED BY <3>1, <4>1, <2>6
    <3> QED BY <3>2, <3>3
  <2>9. count' \in Int /\ map' \in [Key -> Value \cup {NULL}]
    BY <1>2 DEF TypeOK, SetNew
  <2> QED BY <1>2, <2>4, <2>5, <2>6, <2>7, <2>8, <2>9, TouchType DEF TypeOK
<1>3. ASSUME NEW k \in Key, Remove(k) PROVE TypeOK'
  <2> DEFINE b == Hash[k]
  <2>1. PICK i \in Slot : ndata' = [ndata EXCEPT ![b][i] = NULL]
    BY <1>3 DEF Remove
  <2>2. ndata' \in [Bucket -> [Slot -> Value \cup {NULL}]]
    BY <2>1 DEF TypeOK
  <2>3. nkey' = nkey /\ cnt' = cnt /\ max' = max /\ Touch
        /\ count' \in Int /\ map' \in [Key -> Value \cup {NULL}]
    BY <1>3 DEF Remove, TypeOK
  <2> QED BY <2>2, <2>3, TouchType DEF TypeOK
<1>4. CASE Clear
  <2>1. nkey' = nkey /\ ndata' = ndata /\ max' = max /\ Touch /\ count' = 0
        /\ map' \in [Key -> Value \cup {NULL}]
        /\ cnt' = [b \in Bucket |-> 0]
    BY <1>4 DEF Clear
  <2> QED BY <2>1, TouchType DEF TypeOK
<1>5. CASE IterReset
  <2>1. nkey' = nkey /\ ndata' = ndata /\ cnt' = cnt /\ max' = max
        /\ count' = count /\ map' = map /\ clean' = "yes" /\ seen' = <<>>
    BY <1>5 DEF IterReset, table
  <2>2. max[0] \in 0 .. MaxSlots /\ count \in Int
    BY DEF TypeOK, Bucket
  <2>3. iter' \in Iterator
    BY <1>5, <2>2 DEF IterReset, Iterator
  <2>4. seen' \in Seq(Bucket \X Slot)
    BY <2>1
  <2> QED BY <2>1, <2>3, <2>4 DEF TypeOK
<1>6. CASE IterFailed \/ IterWild \/ IterFree \/ IterEnd
  <2>1. iter \in Iterator
    BY DEF TypeOK
  <2>2. ASSUME IterFailed PROVE iter' \in Iterator
    BY <2>1, <2>2, RcType DEF IterFailed
  <2>3. ASSUME IterWild \/ IterFree PROVE iter' \in Iterator
    BY <2>1, <2>3 DEF IterWild, IterFree, NoIter, Iterator
  <2>4. ASSUME IterEnd PROVE iter' \in Iterator
    <3>1. Capacity \in 0 .. Capacity /\ 0 \in 0 .. MaxSlots
          /\ 1 \in 1 .. MaxSlots + 1
      OBVIOUS
    <3> QED BY <2>1, <2>4, <3>1, PositionType DEF IterEnd
  <2>5. UNCHANGED <<table, map, ghost>>
    BY <1>6 DEF IterFailed, IterWild, IterFree, IterEnd
  <2> QED BY <1>6, <2>2, <2>3, <2>4, <2>5 DEF TypeOK, table, ghost
<1>7. CASE IterNext
  <2>1. PICK p \in Ahead :
           /\ iter' = [iter EXCEPT !.bucket = p[1], !.arr = max[p[1]],
                                   !.node = p[2] + 1, !.rc = "ok"]
           /\ seen' = IF clean = "yes" THEN Append(seen, p) ELSE seen
    BY <1>7 DEF IterNext
  <2>2. p \in Bucket \X Slot
    BY DEF Ahead, Entries
  <2>3. seen' \in Seq(Bucket \X Slot)
    <3>1. CASE clean = "yes"
      <4>1. Append(seen, p) \in Seq(Bucket \X Slot)
        <5> HIDE DEF Bucket, Slot
        <5> QED BY <2>2 DEF TypeOK
      <4> QED BY <2>1, <3>1, <4>1
    <3>2. CASE clean # "yes"
      BY <2>1, <3>2 DEF TypeOK
    <3> QED BY <3>1, <3>2
  <2>4. p[1] \in Bucket /\ p[2] \in Slot /\ max[p[1]] \in 0 .. MaxSlots
    BY <2>2 DEF TypeOK
  <2>5. iter' \in Iterator
    <3>1. p[1] \in 0 .. Capacity /\ p[2] + 1 \in 1 .. MaxSlots + 1
      BY <2>4
    <3>2. iter \in Iterator
      BY DEF TypeOK
    <3> QED BY <2>1, <2>4, <3>1, <3>2, PositionType
  <2> QED BY <1>7, <2>3, <2>5 DEF IterNext, TypeOK, table
<1>8. CASE UNCHANGED vars
  BY <1>8 DEF vars, table, ghost, TypeOK
<1> QED BY <1>1, <1>2, <1>3, <1>4, <1>5, <1>6, <1>7, <1>8
        DEF Next, TableNext, IterStep, Set

\* Type correctness: bucket counts stay within their node arrays, and the
\* iterator's position within the table, whatever the keys are.
THEOREM TypeCorrect == Spec => []TypeOK
BY InitType, TypeStep, PTL DEF Spec
--------------------------------------------------------------------------------
LEMMA InitStore == Init => StoreInv
<1> SUFFICES ASSUME Init PROVE StoreInv
  OBVIOUS
<1>1. \A b \in Bucket : cnt[b] = 0
  BY DEF Init
<1>2. \A k \in Key : map[k] = NULL
  BY DEF Init
<1> QED BY <1>1, <1>2 DEF StoreInv, Placed, Distinct, Stored, Found

\* What is the same in the next state of a set or a remove outside node i of
\* bucket b, and of the map outside k.
LEMMA StoreSet ==
    ASSUME FixedKeys, TypeOK, StoreInv, NEW k \in Key,
           NEW d \in Value \cup {NULL}, NEW i \in Slot,
           i \in 1 .. cnt[Hash[k]], nkey[Hash[k]][i] = k,
           nkey' = nkey, cnt' = cnt,
           ndata' = [ndata EXCEPT ![Hash[k]][i] = d],
           map' = [map EXCEPT ![k] = d]
    PROVE  StoreInv'
<1> DEFINE b == Hash[k]
<1>0. b \in Bucket
  OBVIOUS
<1>1. Placed' /\ Distinct'
  BY DEF StoreInv, Placed, Distinct
<1>2. \A c \in Bucket : \A j \in 1 .. cnt[c] : j \in Slot
  BY DEF TypeOK
<1>3. ndata'[b][i] = d
      /\ \A c \in Bucket : \A j \in Slot :
            c # b \/ j # i => ndata'[c][j] = ndata[c][j]
  BY <1>0 DEF TypeOK
<1>4. map'[k] = d /\ \A q \in Key : q # k => map'[q] = map[q]
  BY DEF TypeOK
<1>5. Stored'
  <2> SUFFICES ASSUME NEW c \in Bucket, NEW j \in 1 .. cnt[c]
               PROVE  map'[nkey[c][j]] = ndata'[c][j]
    BY DEF Stored
  <2>1. j \in Slot /\ nkey[c][j] \in Key /\ Hash[nkey[c][j]] = c
    BY <1>2 DEF StoreInv, Placed
  <2>2. map[nkey[c][j]] = ndata[c][j]
    BY DEF StoreInv, Stored
  <2>3. CASE nkey[c][j] = k
    <3>1. c = b /\ j = i
      BY <2>1, <2>3, <1>0 DEF StoreInv, Distinct
    <3> QED BY <3>1, <2>3, <1>3, <1>4
  <2>4. CASE nkey[c][j] # k
    <3>1. c # b \/ j # i
      BY <2>4
    <3> QED BY <3>1, <2>1, <2>2, <2>4, <1>3, <1>4
  <2> QED BY <2>3, <2>4
<1>6. Found'
  <2> SUFFICES ASSUME NEW q \in Key, map'[q] # NULL
               PROVE  \E j \in 1 .. cnt[Hash[q]] : nkey[Hash[q]][j] = q
    BY DEF Found
  <2>1. CASE q = k
    BY <2>1
  <2>2. CASE q # k
    BY <2>2, <1>4 DEF StoreInv, Found
  <2> QED BY <2>1, <2>2
<1> QED BY <1>1, <1>5, <1>6 DEF StoreInv

HIDE HashtableAssumption DEF Bucket, Slot

\* What set does to the nodes, cell by cell, when it fills node i of bucket b
\* with a key none of the bucket's nodes holds: a new node at the end, or a
\* removed one, whose old key the map no longer has.
Filled(k, d, b, i) ==
    /\ cnt'[b] = IF i = cnt[b] + 1 THEN i ELSE cnt[b]
    /\ \A c \in Bucket : c # b => cnt'[c] = cnt[c]
    /\ nkey'[b][i] = k
    /\ \A c \in Bucket : \A j \in Slot :
          c # b \/ j # i => nkey'[c][j] = nkey[c][j]
    /\ ndata'[b][i] = d
    /\ \A c \in Bucket : \A j \in Slot :
          c # b \/ j # i => ndata'[c][j] = ndata[c][j]
    /\ map'[k] = d
    /\ \A q \in Key : q # k => map'[q] = map[q]

\* A node of the new table is the filled one or was there before, and a node
\* that was there still is.
LEMMA FilledNodes ==
    ASSUME NEW k, NEW d, NEW b \in Bucket, NEW i \in Slot, Filled(k, d, b, i),
           \A c \in Bucket : cnt[c] \in 0 .. MaxSlots, i \in 1 .. cnt[b] + 1
    PROVE  /\ i \in 1 .. cnt'[b]
           /\ \A c \in Bucket :
                 /\ \A j \in 1 .. cnt[c] : j \in 1 .. cnt'[c]
                 /\ \A j \in 1 .. cnt'[c] :
                       c # b \/ j # i => j \in Slot /\ j \in 1 .. cnt[c]
<1>1. cnt'[b] = IF i = cnt[b] + 1 THEN i ELSE cnt[b]
  BY DEF Filled
<1>2. i \in 1 .. cnt'[b]
  BY <1>1, HashtableAssumption DEF Slot
<1>3. ASSUME NEW c \in Bucket
      PROVE  /\ \A j \in 1 .. cnt[c] : j \in 1 .. cnt'[c]
             /\ \A j \in 1 .. cnt'[c] :
                   c # b \/ j # i => j \in Slot /\ j \in 1 .. cnt[c]
  <2>1. CASE c = b
    BY <1>1, <2>1, HashtableAssumption DEF Slot
  <2>2. CASE c # b
    <3>1. cnt'[c] = cnt[c]
      BY <2>2 DEF Filled
    <3> QED BY <2>2, <3>1, HashtableAssumption DEF Slot
  <2> QED BY <2>1, <2>2
<1> QED BY <1>2, <1>3

\* The nodes other than the filled one are as they were.
LEMMA FilledSame ==
    ASSUME StoreInv, NEW k \in Key, NEW d, NEW b \in Bucket, NEW i \in Slot,
           Filled(k, d, b, i), b = Hash[k],
           \A l \in 1 .. cnt[b] : nkey[b][l] # k
    PROVE  \A c \in Bucket : \A j \in Slot :
              j \in 1 .. cnt[c] /\ (c # b \/ j # i) =>
                 /\ nkey'[c][j] = nkey[c][j] /\ ndata'[c][j] = ndata[c][j]
                 /\ nkey[c][j] \in Key /\ Hash[nkey[c][j]] = c /\ nkey[c][j] # k
                 /\ map'[nkey[c][j]] = ndata[c][j]
<1> SUFFICES ASSUME NEW c \in Bucket, NEW j \in Slot, j \in 1 .. cnt[c],
                    c # b \/ j # i
             PROVE  /\ nkey'[c][j] = nkey[c][j] /\ ndata'[c][j] = ndata[c][j]
                    /\ nkey[c][j] \in Key /\ Hash[nkey[c][j]] = c
                    /\ nkey[c][j] # k /\ map'[nkey[c][j]] = ndata[c][j]
  OBVIOUS
<1>1. nkey[c][j] \in Key /\ Hash[nkey[c][j]] = c
  BY DEF StoreInv, Placed
<1>2. nkey[c][j] # k
  BY <1>1
<1>3. map[nkey[c][j]] = ndata[c][j]
  BY DEF StoreInv, Stored
<1>4. map'[nkey[c][j]] = map[nkey[c][j]]
  BY <1>1, <1>2 DEF Filled
<1>5. nkey'[c][j] = nkey[c][j] /\ ndata'[c][j] = ndata[c][j]
  BY DEF Filled
<1> QED BY <1>1, <1>2, <1>3, <1>4, <1>5

LEMMA StoreFilled ==
    ASSUME TypeOK, StoreInv, NEW k \in Key, NEW d, NEW b \in Bucket,
           NEW i \in Slot, Filled(k, d, b, i), b = Hash[k],
           \A l \in 1 .. cnt[b] : nkey[b][l] # k,
           i = cnt[b] + 1 \/ (i \in 1 .. cnt[b] /\ ndata[b][i] = NULL)
    PROVE  StoreInv'
<1>1. \A c \in Bucket : cnt[c] \in 0 .. MaxSlots
  BY DEF TypeOK
<1>2. i \in 1 .. cnt[b] + 1
  BY <1>1, HashtableAssumption DEF Slot
<1>a. /\ i \in 1 .. cnt'[b]
      /\ \A c \in Bucket :
            /\ \A j \in 1 .. cnt[c] : j \in 1 .. cnt'[c]
            /\ \A j \in 1 .. cnt'[c] :
                  c # b \/ j # i => j \in Slot /\ j \in 1 .. cnt[c]
  BY <1>1, <1>2, FilledNodes
<1>b. \A c \in Bucket : \A j \in Slot :
         j \in 1 .. cnt[c] /\ (c # b \/ j # i) =>
            /\ nkey'[c][j] = nkey[c][j] /\ ndata'[c][j] = ndata[c][j]
            /\ nkey[c][j] \in Key /\ Hash[nkey[c][j]] = c /\ nkey[c][j] # k
            /\ map'[nkey[c][j]] = ndata[c][j]
  BY FilledSame
<1>3. ASSUME NEW c \in Bucket, NEW j \in 1 .. cnt'[c], c # b \/ j # i
      PROVE  /\ j \in 1 .. cnt[c]
             /\ nkey'[c][j] = nkey[c][j] /\ ndata'[c][j] = ndata[c][j]
             /\ nkey[c][j] \in Key /\ Hash[nkey[c][j]] = c /\ nkey[c][j] # k
             /\ map'[nkey[c][j]] = ndata[c][j]
  <2>1. j \in Slot /\ j \in 1 .. cnt[c]
    BY <1>3, <1>a
  <2> QED BY <1>3, <2>1, <1>b
<1>4. nkey'[b][i] = k /\ ndata'[b][i] = d /\ map'[k] = d
  BY DEF Filled
<1>5. Placed'
  <2> SUFFICES ASSUME NEW c \in Bucket, NEW j \in 1 .. cnt'[c]
               PROVE  nkey'[c][j] \in Key /\ Hash[nkey'[c][j]] = c
    BY DEF Placed
  <2>1. CASE c = b /\ j = i
    BY <2>1, <1>4
  <2>2. CASE c # b \/ j # i
    <3>1. /\ nkey'[c][j] = nkey[c][j]
          /\ nkey[c][j] \in Key /\ Hash[nkey[c][j]] = c
      BY <2>2, <1>3
    <3> QED BY <3>1
  <2> QED BY <2>1, <2>2
<1>6. Distinct'
  <2> SUFFICES ASSUME NEW c \in Bucket, NEW j \in 1 .. cnt'[c],
                      NEW l \in 1 .. cnt'[c], nkey'[c][j] = nkey'[c][l]
               PROVE  j = l
    BY DEF Distinct
  <2>1. CASE c = b /\ j = i
    <3>1. CASE l = i
      BY <2>1, <3>1
    <3>2. CASE l # i
      <4>1. nkey'[c][l] # k
        BY <3>2, <1>3
      <4> QED BY <4>1, <2>1, <1>4
    <3> QED BY <3>1, <3>2
  <2>2. CASE c = b /\ j # i /\ l = i
    <3>1. nkey'[c][j] # k
      BY <2>2, <1>3
    <3> QED BY <3>1, <2>2, <1>4
  <2>3. CASE c # b \/ (j # i /\ l # i)
    <3>1. j \in 1 .. cnt[c] /\ nkey'[c][j] = nkey[c][j]
      BY <2>3, <1>3
    <3>2. l \in 1 .. cnt[c] /\ nkey'[c][l] = nkey[c][l]
      BY <2>3, <1>3
    <3> QED BY <3>1, <3>2 DEF StoreInv, Distinct
  <2> QED BY <2>1, <2>2, <2>3
<1>7. Stored'
  <2> SUFFICES ASSUME NEW c \in Bucket, NEW j \in 1 .. cnt'[c]
               PROVE  map'[nkey'[c][j]] = ndata'[c][j]
    BY DEF Stored
  <2>1. CASE c = b /\ j = i
    BY <2>1, <1>4
  <2>2. CASE c # b \/ j # i
    BY <2>2, <1>3
  <2> QED BY <2>1, <2>2
<1>8. Found'
  <2> SUFFICES ASSUME NEW q \in Key, map'[q] # NULL
               PROVE  \E j \in 1 .. cnt'[Hash[q]] : nkey'[Hash[q]][j] = q
    BY DEF Found
  <2>1. CASE q = k
    BY <2>1, <1>4, <1>a
  <2>2. CASE q # k
    <3>1. map[q] # NULL
      BY <2>2 DEF Filled
    <3>2. PICK j \in 1 .. cnt[Hash[q]] : nkey[Hash[q]][j] = q
      BY <3>1 DEF StoreInv, Found
    <3>3. Hash[q] \in Bucket
      BY HashtableAssumption
    <3>4. j \in 1 .. cnt'[Hash[q]]
      BY <3>2, <3>3, <1>a
    <3>5. map[q] = ndata[Hash[q]][j]
      BY <3>2, <3>3 DEF StoreInv, Stored
    <3>6. Hash[q] # b \/ j # i
      <4>1. ASSUME Hash[q] = b, j = i PROVE FALSE
        <5>1. i # cnt[b] + 1
          BY <4>1, <1>1
        <5>2. ndata[b][i] = NULL
          BY <5>1
        <5> QED BY <4>1, <5>2, <3>1, <3>5
      <4> QED BY <4>1
    <3>7. nkey'[Hash[q]][j] = q
      BY <3>2, <3>3, <3>4, <3>6, <1>3
    <3> QED BY <3>4, <3>7
  <2> QED BY <2>1, <2>2
<1> QED BY <1>5, <1>6, <1>7, <1>8 DEF StoreInv

LEMMA StoreNew ==
    ASSUME TypeOK, StoreInv, NEW k \in Key, NEW d \in Value,
           NEW i \in Slot,
           \A j \in 1 .. cnt[Hash[k]] : nkey[Hash[k]][j] # k,
           \/ i = cnt[Hash[k]] + 1
           \/ i \in 1 .. cnt[Hash[k]] /\ ndata[Hash[k]][i] = NULL,
           nkey' = [nkey EXCEPT ![Hash[k]][i] = k],
           cnt' = [cnt EXCEPT ![Hash[k]] =
                      IF i = cnt[Hash[k]] + 1 THEN i ELSE cnt[Hash[k]]],
           ndata' = [ndata EXCEPT ![Hash[k]][i] = d],
           map' = [map EXCEPT ![k] = d]
    PROVE  StoreInv'
<1>0. Hash[k] \in Bucket
  BY HashtableAssumption
<1>1. /\ ndata'[Hash[k]][i] = d
      /\ \A c \in Bucket : \A j \in Slot :
            c # Hash[k] \/ j # i => ndata'[c][j] = ndata[c][j]
  BY <1>0 DEF TypeOK
<1>2. /\ nkey'[Hash[k]][i] = k
      /\ \A c \in Bucket : \A j \in Slot :
            c # Hash[k] \/ j # i => nkey'[c][j] = nkey[c][j]
  BY <1>0 DEF TypeOK
<1>3. map'[k] = d /\ \A q \in Key : q # k => map'[q] = map[q]
  BY DEF TypeOK
<1>4. /\ cnt'[Hash[k]] = IF i = cnt[Hash[k]] + 1 THEN i ELSE cnt[Hash[k]]
      /\ \A c \in Bucket : c # Hash[k] => cnt'[c] = cnt[c]
  BY <1>0 DEF TypeOK
<1>5. Filled(k, d, Hash[k], i)
  BY <1>1, <1>2, <1>3, <1>4 DEF Filled
<1> QED BY <1>0, <1>5, StoreFilled

USE HashtableAssumption DEF Bucket, Slot
--------------------------------------------------------------------------------
LEMMA StoreStep ==
    ASSUME FixedKeys
    PROVE  TypeOK /\ StoreInv /\ [Next]_vars => StoreInv'
<1> SUFFICES ASSUME TypeOK, StoreInv, [Next]_vars PROVE StoreInv'
  OBVIOUS
\* For every key: its bucket, the nodes a scan of it reaches, and what a match
\* there means.
<1>a. ASSUME NEW k \in Key
      PROVE  /\ Hash[k] \in Bucket
             /\ Reached(Hash[k]) = 1 .. cnt[Hash[k]]
             /\ \A i \in 1 .. cnt[Hash[k]] :
                   /\ i \in Slot
                   /\ Match(nkey[Hash[k]][i], k) <=> nkey[Hash[k]][i] = k
  <2>1. Hash[k] \in Bucket
    OBVIOUS
  <2>2. Reached(Hash[k]) = 1 .. cnt[Hash[k]]
    BY <2>1, ReachedAll DEF StoreInv
  <2>3. \A i \in 1 .. cnt[Hash[k]] : i \in Slot /\ nkey[Hash[k]][i] \in NodeKey
    BY <2>1 DEF TypeOK
  <2> QED BY <2>1, <2>2, <2>3, MatchIsEq
<1>1. ASSUME NEW k \in Key, NEW d \in Value, SetMatch(k, d),
             map' = [map EXCEPT ![k] = d]
      PROVE  StoreInv'
  <2>1. PICK i \in Slot : /\ FirstMatch(Hash[k], k, Reached(Hash[k]), i)
                          /\ ndata' = [ndata EXCEPT ![Hash[k]][i] = d]
    BY <1>1 DEF SetMatch
  <2>0. /\ Reached(Hash[k]) = 1 .. cnt[Hash[k]]
        /\ \A j \in 1 .. cnt[Hash[k]] :
              Match(nkey[Hash[k]][j], k) <=> nkey[Hash[k]][j] = k
    BY <1>a
  <2>2. i \in 1 .. cnt[Hash[k]] /\ nkey[Hash[k]][i] = k
    BY <2>1, <2>0 DEF FirstMatch
  <2>3. nkey' = nkey /\ cnt' = cnt
    BY <1>1 DEF SetMatch
  <2> QED BY <1>1, <2>1, <2>2, <2>3, StoreSet
<1>2. ASSUME NEW k \in Key, NEW d \in Value, SetNew(k, d),
             map' = [map EXCEPT ![k] = d]
      PROVE  StoreInv'
  <2>1. PICK i \in Slot :
           /\ FreeNode(Hash[k], i)
           /\ nkey' = [nkey EXCEPT ![Hash[k]][i] = CopyKey(nkey[Hash[k]][i], k)]
           /\ ndata' = [ndata EXCEPT ![Hash[k]][i] = d]
           /\ cnt' = [cnt EXCEPT ![Hash[k]] =
                         IF i = cnt[Hash[k]] + 1 THEN i ELSE cnt[Hash[k]]]
    BY <1>2 DEF SetNew
  <2>0. /\ Reached(Hash[k]) = 1 .. cnt[Hash[k]]
        /\ \A j \in 1 .. cnt[Hash[k]] :
              Match(nkey[Hash[k]][j], k) <=> nkey[Hash[k]][j] = k
    BY <1>a
  <2>2. \A j \in 1 .. cnt[Hash[k]] : nkey[Hash[k]][j] # k
    BY <1>2, <2>0 DEF SetNew
  <2>3. \/ i = cnt[Hash[k]] + 1
        \/ i \in 1 .. cnt[Hash[k]] /\ ndata[Hash[k]][i] = NULL
    BY <2>1, <1>a DEF FreeNode
  <2>4. nkey[Hash[k]][i] \in NodeKey
    BY <1>a DEF TypeOK
  <2>5. CopyKey(nkey[Hash[k]][i], k) = k
    BY <2>4, CopyIsKey
  <2> QED BY <1>2, <2>1, <2>2, <2>3, <2>5, StoreNew
<1>3. ASSUME NEW k \in Key, Remove(k) PROVE StoreInv'
  <2>1. PICK i \in Slot : /\ FirstMatch(Hash[k], k, InUse(Hash[k]), i)
                          /\ ndata' = [ndata EXCEPT ![Hash[k]][i] = NULL]
    BY <1>3 DEF Remove
  <2>0. /\ Reached(Hash[k]) = 1 .. cnt[Hash[k]]
        /\ \A j \in 1 .. cnt[Hash[k]] :
              Match(nkey[Hash[k]][j], k) <=> nkey[Hash[k]][j] = k
    BY <1>a
  <2>2. i \in 1 .. cnt[Hash[k]] /\ nkey[Hash[k]][i] = k
    BY <2>1, <2>0 DEF FirstMatch, InUse
  <2>3. nkey' = nkey /\ cnt' = cnt /\ map' = [map EXCEPT ![k] = NULL]
    BY <1>3 DEF Remove
  <2> QED BY <2>1, <2>2, <2>3, StoreSet
<1>4. CASE Clear
  <2>1. (\A b \in Bucket : cnt'[b] = 0) /\ (\A k \in Key : map'[k] = NULL)
    BY <1>4 DEF Clear
  <2> QED BY <2>1 DEF StoreInv, Placed, Distinct, Stored, Found
<1>5. CASE IterStep \/ UNCHANGED vars
  <2>1. nkey' = nkey /\ ndata' = ndata /\ cnt' = cnt /\ map' = map
    BY <1>5 DEF IterStep, IterReset, IterFailed, IterNext, IterEnd, IterWild,
                IterFree, vars, table
  <2>2. Placed' /\ Distinct'
    BY <2>1 DEF StoreInv, Placed, Distinct
  <2>3. Stored' /\ Found'
    BY <2>1 DEF StoreInv, Stored, Found
  <2> QED BY <2>2, <2>3 DEF StoreInv
<1> QED BY <1>1, <1>2, <1>3, <1>4, <1>5 DEF Next, TableNext, Set

\* get agrees with the map the calls describe, for every table of integer or
\* pointer keys none of which has a zero first word.
THEOREM LookupAgreesHolds ==
    ASSUME FixedKeys
    PROVE  Spec => []LookupAgrees
<1> DEFINE Inv == TypeOK /\ StoreInv
<1>1. Init => Inv
  BY InitType, InitStore
<1>2. Inv /\ [Next]_vars => Inv'
  BY TypeStep, StoreStep
<1>3. Inv => LookupAgrees
  BY LookupFromInv DEF LookupAgrees
<1> QED BY <1>1, <1>2, <1>3, PTL DEF Spec
--------------------------------------------------------------------------------
(* What foreach and the iterator meet.                                         *)

LEMMA NodesFinite ==
    ASSUME NEW S \in SUBSET (Bucket \X Slot)
    PROVE  IsFiniteSet(S) /\ Cardinality(S) \in Nat
<1>1. IsFiniteSet(Bucket) /\ IsFiniteSet(Slot)
  BY FS_Interval
<1> HIDE DEF Bucket, Slot
<1>2. IsFiniteSet(Bucket \X Slot)
  BY <1>1, FS_Product
<1> QED BY <1>2, FS_Subset, FS_CardinalityType

LEMMA EntriesFinite == IsFiniteSet(Entries) /\ Cardinality(Entries) \in Nat
<1>1. Entries \in SUBSET (Bucket \X Slot)
  BY DEF Entries
<1> QED BY <1>1, NodesFinite

\* A node whose data is not NULL is an entry, whether or not it can be reached.
LEMMA EntryIs ==
    ASSUME TypeOK, NEW b \in Bucket, NEW i \in Slot
    PROVE  <<b, i>> \in Entries <=> i <= cnt[b] /\ ndata[b][i] # NULL
BY DEF Entries

\* The count of the table never exceeds the entries, whatever the keys are.
CountBelow == count <= Cardinality(Entries)

LEMMA CountStep ==
    ASSUME TypeOK, TypeOK', CountBelow, [Next]_vars
    PROVE  CountBelow'
<1> USE DEF CountBelow
<1>0. /\ IsFiniteSet(Entries) /\ Cardinality(Entries) \in Nat
      /\ IsFiniteSet(Entries') /\ Cardinality(Entries') \in Nat
      /\ count \in Int
  <2>1. Entries' \in SUBSET (Bucket \X Slot)
    BY DEF Entries
  <2> QED BY <2>1, EntriesFinite, NodesFinite DEF TypeOK
<1>1. ASSUME NEW k \in Key, NEW d \in Value, SetMatch(k, d) PROVE CountBelow'
  <2> DEFINE b == Hash[k]
  <2>1. PICK i \in Slot : ndata' = [ndata EXCEPT ![b][i] = d]
    BY <1>1 DEF SetMatch
  <2>2. cnt' = cnt /\ count' = count
    BY <1>1 DEF SetMatch
  <2>3. Entries \subseteq Entries'
    BY <2>1, <2>2 DEF Entries, TypeOK
  <2>4. Cardinality(Entries) <= Cardinality(Entries')
    BY <1>0, <2>3, FS_Subset
  <2> QED BY <1>0, <2>2, <2>4
<1>2. ASSUME NEW k \in Key, NEW d \in Value, SetNew(k, d) PROVE CountBelow'
  <2> DEFINE b == Hash[k]
  <2>1. PICK i \in Slot :
           /\ FreeNode(b, i)
           /\ ndata' = [ndata EXCEPT ![b][i] = d]
           /\ cnt' = [cnt EXCEPT ![b] = IF i = cnt[b] + 1 THEN i ELSE cnt[b]]
    BY <1>2 DEF SetNew
  <2>2. count' = count + 1
    BY <1>2 DEF SetNew
  <2>3. /\ b \in Bucket /\ d # NULL /\ cnt[b] \in Nat /\ i \in Nat
        /\ cnt \in [Bucket -> 0 .. MaxSlots]
        /\ ndata \in [Bucket -> [Slot -> Value \cup {NULL}]]
    <3>1. b \in Bucket /\ d # NULL /\ i \in Nat
      OBVIOUS
    <3>2. /\ cnt \in [Bucket -> 0 .. MaxSlots]
          /\ ndata \in [Bucket -> [Slot -> Value \cup {NULL}]]
      BY DEF TypeOK
    <3> QED BY <3>1, <3>2
  <2>4. i <= cnt[b] + 1 /\ (i <= cnt[b] => ndata[b][i] = NULL)
    BY <2>1, <2>3 DEF FreeNode, Reached
  <2>5. <<b, i>> \notin Entries
    BY <2>3, <2>4, EntryIs
  <2>6. cnt'[b] >= cnt[b] /\ i <= cnt'[b] /\ ndata'[b][i] = d
    <3> HIDE DEF b, Bucket, Slot
    <3>1. cnt'[b] = IF i = cnt[b] + 1 THEN i ELSE cnt[b]
      BY <2>1, <2>3
    <3>2. ndata'[b][i] = d
      BY <2>1, <2>3
    <3> QED BY <2>3, <2>4, <3>1, <3>2
  <2>7. Entries \cup {<<b, i>>} \subseteq Entries'
    <3>1. <<b, i>> \in Entries'
      BY <2>3, <2>6 DEF Entries
    <3>2. ASSUME NEW p \in Entries PROVE p \in Entries'
      <4>1. /\ p \in Bucket \X Slot /\ p[1] \in Bucket /\ p[2] \in Slot
            /\ p[2] <= cnt[p[1]] /\ ndata[p[1]][p[2]] # NULL
        BY DEF Entries
      <4>2. ndata'[p[1]][p[2]] # NULL
        <5> HIDE DEF b, Bucket, Slot
        <5> QED BY <2>1, <2>3, <4>1
      <4>3. cnt'[p[1]] >= cnt[p[1]] /\ cnt[p[1]] \in Nat /\ cnt'[p[1]] \in Nat /\ p[2] \in Nat
        <5>1. cnt[p[1]] \in Nat /\ p[2] \in Nat
          BY <2>3, <4>1
        <5> HIDE DEF b, Bucket, Slot
        <5> QED BY <2>1, <2>3, <2>6, <4>1, <5>1
      <4> QED BY <4>1, <4>2, <4>3 DEF Entries
    <3> QED BY <3>1, <3>2
  <2>8. /\ IsFiniteSet(Entries \cup {<<b, i>>})
        /\ Cardinality(Entries \cup {<<b, i>>}) = Cardinality(Entries) + 1
    BY <1>0, <2>5, FS_AddElement
  <2>9. Cardinality(Entries) + 1 <= Cardinality(Entries')
    BY <1>0, <2>7, <2>8, FS_Subset
  <2> QED BY <1>0, <2>2, <2>9
<1>3. ASSUME NEW k \in Key, Remove(k) PROVE CountBelow'
  <2> DEFINE b == Hash[k]
  <2>1. PICK i \in Slot :
           /\ FirstMatch(b, k, InUse(b), i)
           /\ ndata' = [ndata EXCEPT ![b][i] = NULL]
    BY <1>3 DEF Remove
  <2>2. cnt' = cnt /\ count' = count - 1
    BY <1>3 DEF Remove
  <2>3. Entries \ {<<b, i>>} \subseteq Entries'
    <3> SUFFICES ASSUME NEW p \in Entries, p # <<b, i>> PROVE p \in Entries'
      OBVIOUS
    <3>1. /\ p \in Bucket \X Slot /\ p[1] \in Bucket /\ p[2] \in Slot /\ p = <<p[1], p[2]>>
          /\ p[2] <= cnt[p[1]] /\ ndata[p[1]][p[2]] # NULL
      BY DEF Entries
    <3>2. ndata \in [Bucket -> [Slot -> Value \cup {NULL}]]
      BY DEF TypeOK
    <3>3. p[1] # b \/ p[2] # i
      BY <3>1
    <3>4. ndata'[p[1]][p[2]] = ndata[p[1]][p[2]]
      <4> HIDE DEF b, Bucket, Slot
      <4> QED BY <2>1, <3>1, <3>2, <3>3
    <3> QED BY <2>2, <3>1, <3>4 DEF Entries
  <2>4. /\ IsFiniteSet(Entries \ {<<b, i>>})
        /\ Cardinality(Entries \ {<<b, i>>}) >= Cardinality(Entries) - 1
    <3>1. /\ IsFiniteSet(Entries \ {<<b, i>>})
          /\ \/ Cardinality(Entries \ {<<b, i>>}) = Cardinality(Entries) - 1
             \/ Cardinality(Entries \ {<<b, i>>}) = Cardinality(Entries)
      BY <1>0, FS_RemoveElement
    <3> QED BY <1>0, <3>1
  <2>5. Cardinality(Entries) - 1 <= Cardinality(Entries')
    <3>1. Cardinality(Entries \ {<<b, i>>}) \in Nat
      BY <2>4, FS_CardinalityType
    <3>2. Cardinality(Entries \ {<<b, i>>}) <= Cardinality(Entries')
      BY <1>0, <2>3, FS_Subset
    <3> QED BY <1>0, <2>4, <3>1, <3>2
  <2> QED BY <1>0, <2>2, <2>5
<1>4. CASE Clear
  BY <1>0, <1>4 DEF Clear
<1>5. CASE UNCHANGED table
  BY <1>5 DEF table, Entries
<1>6. IterStep \/ UNCHANGED vars => UNCHANGED table
  BY DEF IterStep, IterReset, IterFailed, IterNext, IterEnd, IterWild, IterFree, vars
<1> QED BY <1>1, <1>2, <1>3, <1>4, <1>5, <1>6 DEF Next, TableNext, Set

\* The node of an entry holds a key of the map, another one for every entry, and
\* every key of the map has an entry.
LEMMA EntriesArePresent ==
    ASSUME FixedKeys, TypeOK, StoreInv
    PROVE  /\ Cardinality(Entries) = Cardinality(Present)
           /\ \A p \in Entries : \E k \in Key :
                 Match(nkey[p[1]][p[2]], k) /\ map[k] = ndata[p[1]][p[2]]
<1> DEFINE key == [p \in Entries |-> nkey[p[1]][p[2]]]
<1>1. ASSUME NEW p \in Entries
      PROVE  /\ p[1] \in Bucket /\ p[2] \in 1 .. cnt[p[1]]
             /\ p = <<p[1], p[2]>>
             /\ nkey[p[1]][p[2]] \in Key
             /\ nkey[p[1]][p[2]] \in NodeKey
             /\ Hash[nkey[p[1]][p[2]]] = p[1]
             /\ map[nkey[p[1]][p[2]]] = ndata[p[1]][p[2]]
             /\ ndata[p[1]][p[2]] # NULL
  <2>1. /\ p[1] \in Bucket /\ p[2] \in Slot /\ p[2] <= cnt[p[1]]
        /\ p = <<p[1], p[2]>> /\ ndata[p[1]][p[2]] # NULL
    BY DEF Entries
  <2>2. p[2] \in 1 .. cnt[p[1]] /\ nkey[p[1]][p[2]] \in NodeKey
    BY <2>1 DEF TypeOK
  <2> HIDE DEF Bucket, Slot
  <2> QED BY <2>1, <2>2 DEF StoreInv, Placed, Stored
<1>2. key \in [Entries -> Present]
  BY <1>1 DEF Present
<1>3. \A p, q \in Entries : key[p] = key[q] => p = q
  <2> SUFFICES ASSUME NEW p \in Entries, NEW q \in Entries, key[p] = key[q]
               PROVE  p = q
    OBVIOUS
  <2>1. p[1] = q[1]
    BY <1>1
  <2>2. p[2] = q[2]
    BY <1>1, <2>1 DEF StoreInv, Distinct
  <2> QED BY <1>1, <2>1, <2>2
<1>4. \A k \in Present : \E p \in Entries : key[p] = k
  <2> SUFFICES ASSUME NEW k \in Key, map[k] # NULL
               PROVE  \E p \in Entries : key[p] = k
    BY DEF Present
  <2>1. PICK i \in 1 .. cnt[Hash[k]] : nkey[Hash[k]][i] = k
    BY DEF StoreInv, Found
  <2>2. Hash[k] \in Bucket /\ i \in Slot /\ i <= cnt[Hash[k]]
    BY <2>1 DEF TypeOK
  <2>3. ndata[Hash[k]][i] # NULL
    BY <2>1, <2>2 DEF StoreInv, Stored
  <2>4. <<Hash[k], i>> \in Entries
    BY <2>2, <2>3, EntryIs
  <2> QED BY <2>1, <2>4
<1>5. key \in Bijection(Entries, Present)
  <2> HIDE DEF key
  <2> QED BY <1>2, <1>3, <1>4 DEF Bijection, Injection, IsInjective, Surjection
<1>6. Cardinality(Present) = Cardinality(Entries)
  BY <1>5, EntriesFinite, FS_Bijection DEF ExistsBijection
<1>7. \A p \in Entries : \E k \in Key :
         Match(nkey[p[1]][p[2]], k) /\ map[k] = ndata[p[1]][p[2]]
  BY <1>1, MatchIsEq
<1> QED BY <1>6, <1>7

\* ina_hashtable_foreach and a complete iteration meet each key of the map once and
\* nothing else, for every capacity, hash function and growth, and ht->count is
\* never above the number of them, for keys of full length without a zero first
\* word.
THEOREM EntriesExactHolds ==
    ASSUME FixedKeys
    PROVE  Spec => []EntriesExact
<1> DEFINE Inv == TypeOK /\ StoreInv /\ CountBelow
<1>1. Init => Inv
  <2> SUFFICES ASSUME Init PROVE CountBelow
    BY InitType, InitStore
  <2>1. count = 0
    BY DEF Init
  <2> QED BY <2>1, EntriesFinite DEF CountBelow
<1>2. Inv /\ [Next]_vars => Inv'
  BY TypeStep, StoreStep, CountStep
<1>3. Inv => EntriesExact
  BY EntriesArePresent DEF EntriesExact, CountBelow
<1> QED BY <1>1, <1>2, <1>3, PTL DEF Spec
--------------------------------------------------------------------------------
\* The nodes the iterator has returned since its reset.
Returned == {seen[n] : n \in DOMAIN seen}

\* As long as the table is not written, the iterator has the array of its bucket,
\* has returned the entries behind it once each, and is done only when none is left.
IterInv ==
    /\ iter.rc = "end" => iter.on = "yes"
    /\ clean = "yes" /\ iter.on = "yes" =>
         /\ iter.bucket < Capacity => iter.arr = max[iter.bucket]
         /\ Returned = Entries \ Ahead
         /\ Len(seen) = Cardinality(Returned)
         /\ iter.rc = "end" => Ahead = {}

\* What the iterator's last step added.
LEMMA ReturnedAppend ==
    ASSUME NEW S, NEW s \in Seq(S), NEW p \in S
    PROVE  /\ {Append(s, p)[n] : n \in DOMAIN Append(s, p)} = {s[n] : n \in DOMAIN s} \cup {p}
           /\ Len(Append(s, p)) = Len(s) + 1
<1>1. /\ Len(Append(s, p)) = Len(s) + 1
      /\ Len(s) \in Nat
      /\ DOMAIN s = 1 .. Len(s)
      /\ DOMAIN Append(s, p) = 1 .. Len(s) + 1
      /\ \A n \in 1 .. Len(s) : Append(s, p)[n] = s[n]
      /\ Append(s, p)[Len(s) + 1] = p
  OBVIOUS
<1> QED BY <1>1

LEMMA IterInit == Init => IterInv
BY DEF Init, NoIter, IterInv

LEMMA IterNextInv ==
    ASSUME TypeOK, IterInv, IterNext, clean = "yes"
    PROVE  /\ iter'.bucket < Capacity => iter'.arr = max'[iter'.bucket]
           /\ Returned' = Entries' \ Ahead'
           /\ Len(seen') = Cardinality(Returned')
<1>1. PICK p \in Ahead :
         /\ \A q \in Ahead : q # p => Before(p, q)
         /\ iter' = [iter EXCEPT !.bucket = p[1], !.arr = max[p[1]],
                                 !.node = p[2] + 1, !.rc = "ok"]
         /\ seen' = Append(seen, p)
  BY DEF IterNext
<1>2. /\ iter \in Iterator
      /\ seen \in Seq(Bucket \X Slot)
      /\ iter'.bucket = p[1] /\ iter'.arr = max[p[1]] /\ iter'.node = p[2] + 1
  BY <1>1 DEF TypeOK, Iterator
<1>3. /\ p \in Entries
      /\ p \in Bucket \X Slot
      /\ p[1] \in Bucket /\ p[2] \in Slot
      /\ \/ p[1] > iter.bucket
         \/ p[1] = iter.bucket /\ iter.arr # 0 /\ p[2] >= iter.node
  BY DEF Ahead, Entries
<1>4. max[p[1]] # 0
  BY <1>3 DEF Entries, TypeOK
<1>5. Entries' = Entries /\ max' = max
  BY DEF IterNext, table, Entries
<1>6. Ahead' = Ahead \ {p}
  <2>1. /\ iter.bucket \in Int /\ iter.node \in Int
        /\ \A q \in Entries : q[1] \in Int /\ q[2] \in Int /\ q = <<q[1], q[2]>>
    BY <1>2 DEF Iterator, Entries
  <2>2. Ahead' = {q \in Entries : \/ q[1] > p[1]
                                  \/ q[1] = p[1] /\ q[2] >= p[2] + 1}
    BY <1>2, <1>4, <1>5 DEF Ahead
  <2>3. ASSUME NEW q \in Ahead \ {p} PROVE q \in Ahead'
    <3>1. q \in Entries /\ Before(p, q)
      BY <1>1 DEF Ahead
    <3> QED BY <1>3, <2>1, <2>2, <3>1 DEF Before
  <2>4. ASSUME NEW q, q \in Ahead' PROVE q \in Ahead \ {p}
    <3>1. q \in Entries /\ (q[1] > p[1] \/ (q[1] = p[1] /\ q[2] >= p[2] + 1))
      BY <2>2, <2>4
    <3>2. q # p
      BY <1>3, <2>1, <3>1
    <3>3. \/ q[1] > iter.bucket
          \/ q[1] = iter.bucket /\ iter.arr # 0 /\ q[2] >= iter.node
      BY <1>3, <2>1, <3>1
    <3> QED BY <3>1, <3>2, <3>3 DEF Ahead
  <2> QED BY <2>3, <2>4
<1>7. /\ Returned = Entries \ Ahead
      /\ Len(seen) = Cardinality(Returned)
  BY DEF IterInv, IterNext
<1>8. Returned' = Returned \cup {p} /\ Len(seen') = Len(seen) + 1
  <2> DEFINE S == Bucket \X Slot
  <2>1. seen \in Seq(S) /\ p \in S
    BY <1>2, <1>3
  <2> HIDE DEF S
  <2>2. /\ {Append(seen, p)[n] : n \in DOMAIN Append(seen, p)}
             = {seen[n] : n \in DOMAIN seen} \cup {p}
        /\ Len(Append(seen, p)) = Len(seen) + 1
    BY <2>1, ReturnedAppend
  <2>3. Returned' = {Append(seen, p)[n] : n \in DOMAIN Append(seen, p)}
    BY <1>1 DEF Returned
  <2> QED BY <1>1, <2>2, <2>3, Zenon DEF Returned
<1>9. Returned' = Entries' \ Ahead'
  BY <1>3, <1>5, <1>6, <1>7, <1>8
<1>10. IsFiniteSet(Returned) /\ p \notin Returned
  <2>1. Returned \in SUBSET (Bucket \X Slot)
    BY <1>7 DEF Entries
  <2> QED BY <2>1, <1>7, NodesFinite
<1>11. Cardinality(Returned \cup {p}) = Cardinality(Returned) + 1
  BY <1>10, FS_AddElement
<1> QED BY <1>2, <1>5, <1>7, <1>8, <1>9, <1>11

LEMMA IterInvStep ==
    ASSUME TypeOK, IterInv, [Next]_vars
    PROVE  IterInv'
<1>0. iter \in Iterator
  BY DEF TypeOK
<1>1. CASE TableNext
  <2>1. clean' = "no" /\ iter'.rc = "none"
    BY <1>0, <1>1 DEF TableNext, Set, Remove, Clear, Touch, Iterator
  <2> QED BY <2>1 DEF IterInv
<1>2. CASE IterReset
  <2>1. /\ iter'.bucket = 0 /\ iter'.arr = max[0] /\ iter'.node = 1 /\ iter'.rc = "none"
        /\ seen' = <<>> /\ max' = max
        /\ Entries' = Entries
    BY <1>2 DEF IterReset, table, Entries
  <2>2. Ahead' = Entries'
    <3>1. ASSUME NEW p \in Entries PROVE p[1] > 0 \/ (p[1] = 0 /\ max[0] # 0 /\ p[2] >= 1)
      <4>1. p[1] \in Bucket /\ p[2] \in Slot /\ p[2] <= cnt[p[1]]
        BY DEF Entries
      <4>2. cnt[p[1]] <= max[p[1]] /\ cnt[p[1]] \in Nat /\ max[p[1]] \in Nat
        BY <4>1 DEF TypeOK
      <4> QED BY <4>1, <4>2
    <3> QED BY <2>1, <3>1 DEF Ahead
  <2>3. Returned' = {} /\ Len(seen') = 0 /\ Cardinality({}) = 0
    BY <2>1, FS_EmptySet DEF Returned
  <2> QED BY <2>1, <2>2, <2>3 DEF IterInv
<1>3. CASE IterNext
  <2>1. iter'.rc = "ok"
    BY <1>0, <1>3 DEF IterNext, Iterator
  <2>2. clean' = clean /\ iter.on = "yes"
    BY <1>3 DEF IterNext
  <2> QED BY <1>3, <2>1, <2>2, IterNextInv DEF IterInv
<1>4. CASE IterFailed
  <2>1. /\ iter'.bucket = iter.bucket /\ iter'.arr = iter.arr /\ iter'.node = iter.node
        /\ iter'.rc = "state" /\ iter'.on = iter.on
        /\ UNCHANGED <<nkey, ndata, cnt, max, count, clean, seen>>
    BY <1>0, <1>4 DEF IterFailed, Iterator, table, ghost
  <2>2. Entries' = Entries /\ Ahead' = Ahead /\ Returned' = Returned
    BY <2>1 DEF Entries, Ahead, Returned
  <2> QED BY <2>1, <2>2 DEF IterInv
<1>5. CASE IterEnd
  <2>1. /\ iter'.bucket = Capacity /\ iter'.arr = 0 /\ iter.on = "yes" /\ iter'.on = "yes"
        /\ Ahead = {}
        /\ UNCHANGED <<nkey, ndata, cnt, max, count, clean, seen>>
    BY <1>0, <1>5 DEF IterEnd, Iterator, table, ghost
  <2>2. Entries' = Entries /\ Returned' = Returned
    BY <2>1 DEF Entries, Returned
  <2>3. Ahead' = {}
    BY <2>1, <2>2 DEF Ahead, Entries
  <2> QED BY <2>1, <2>2, <2>3 DEF IterInv
<1>6. CASE IterWild \/ IterFree
  BY <1>6 DEF IterWild, IterFree, NoIter, IterInv
<1>7. CASE UNCHANGED vars
  BY <1>7 DEF vars, table, ghost, IterInv, Entries, Ahead, Returned
<1> QED BY <1>1, <1>2, <1>3, <1>4, <1>5, <1>6, <1>7 DEF Next, IterStep

\* Whatever the keys are: an iteration that reaches the end with no set, remove or
\* clear since its reset has returned every entry once.
THEOREM IterCompleteHolds == Spec => []IterComplete
<1> DEFINE Inv == TypeOK /\ IterInv
<1>1. Init => Inv
  BY InitType, IterInit
<1>2. Inv /\ [Next]_vars => Inv'
  BY TypeStep, IterInvStep
<1>3. Inv => IterComplete
  <2> SUFFICES ASSUME Inv, iter.rc = "end", clean = "yes"
               PROVE  Returned = Entries /\ Len(seen) = Cardinality(Entries)
    BY DEF IterComplete, Returned
  <2>1. Returned = Entries \ Ahead /\ Len(seen) = Cardinality(Returned) /\ Ahead = {}
    BY DEF IterInv
  <2> QED BY <2>1
<1> QED BY <1>1, <1>2, <1>3, PTL DEF Spec
================================================================================
