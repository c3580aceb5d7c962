------------------------------- MODULE Hashtable -------------------------------
(***************************************************************************)
(* The chained hash table of src/src/hashtable.c with its iterator.  One   *)
(* caller uses a table (the code takes no lock), so every action is one    *)
(* whole call; what is hard is the sequence of calls.                      *)
(*                                                                         *)
(* A key is the byte string the caller passes with its length; a node      *)
(* holds KEY_LEN bytes, of which a call writes and compares the first      *)
(* key_len only.  A bucket's node array is zero filled by the memory pool  *)
(* and grows by BUCKET_SIZE; slots past the bucket's max are still zero,   *)
(* so an array is the prefix 1..max of one function, and the value of max  *)
(* names the array (each expansion allocates a new one).                   *)
(*                                                                         *)
(* map, clean and seen are not in the code: the key/value map the caller   *)
(* asked for, whether a call changed the table since the iterator's last   *)
(* reset, and the nodes returned since.                                    *)
(***************************************************************************)
EXTENDS Integers, Sequences, FiniteSets

CONSTANTS Key,          \* the keys the caller uses: sequences of bytes
          Value,        \* the data pointers the caller stores
          NULL,         \* the null data pointer
          Byte,         \* the byte values, a finite set of naturals
          KEY_LEN,      \* bytes of a node's key union
          WORD,         \* bytes of its u32 member
          Capacity,     \* number of buckets
          Hash,         \* Hash[k]: the bucket number of k
          BUCKET_SIZE,  \* nodes a bucket grows by
          Prealloc,     \* initial max: BUCKET_SIZE with CF_PREALLOCATED, else 0
          MaxSlots,     \* bound: nodes of a bucket
          MaxDrift      \* bound: how far below zero ht->count may fall

Bucket == 0 .. Capacity - 1
Slot == 1 .. MaxSlots

ASSUME HashtableAssumption ==
    /\ KEY_LEN \in Nat \ {0}
    /\ WORD \in 1 .. KEY_LEN
    /\ 0 \in Byte
    /\ Byte \subseteq Nat
    /\ Key \subseteq Seq(Byte)
    /\ \A k \in Key : Len(k) \in 1 .. KEY_LEN
    /\ NULL \notin Value
    /\ Capacity \in Nat \ {0}
    /\ Hash \in [Key -> Bucket]
    /\ BUCKET_SIZE \in Nat \ {0}
    /\ Prealloc \in {0, BUCKET_SIZE}
    /\ MaxSlots \in Nat
    /\ Prealloc <= MaxSlots
    /\ MaxDrift \in Nat

VARIABLES nkey,     \* nkey[b][i]: key bytes of node i of bucket b
          ndata,    \* ndata[b][i]: data pointer of that node
          cnt,      \* bucket->count
          max,      \* bucket->max
          count,    \* ht->count
          iter,     \* the iterator: bucket, array and node it points to,
                    \* checksum, and the last return code of iter_next
          map, clean, seen

table == <<nkey, ndata, cnt, max, count>>
ghost == <<clean, seen>>
vars == <<table, iter, map, ghost>>

NodeKey == [1 .. KEY_LEN -> Byte]
ZeroKey == [n \in 1 .. KEY_LEN |-> 0]

\* A union key whose u32 member is zero, which ends every scan.
ZeroWord(s) == \A n \in 1 .. WORD : s[n] = 0

\* ina_mem_cmp(&next->key, key, key_len) == 0
Match(s, k) == \A n \in 1 .. Len(k) : s[n] = k[n]

\* ina_mem_cpy(&free->key, key, key_len)
CopyKey(s, k) == [n \in 1 .. KEY_LEN |-> IF n <= Len(k) THEN k[n] ELSE s[n]]

\* The nodes the scan loop of bucket b looks at.
Reached(b) == {i \in 1 .. cnt[b] : \A j \in 1 .. i : ~ZeroWord(nkey[b][j])}

\* i is the node at which a scan for k through the nodes in S stops.
FirstMatch(b, k, S, i) ==
    /\ i \in S
    /\ Match(nkey[b][i], k)
    /\ \A j \in S : j < i => ~Match(nkey[b][j], k)

\* get and remove pass over a node whose data is NULL; set does not.
InUse(b) == {i \in Reached(b) : ndata[b][i] # NULL}

\* The data ina_hashtable_get hands out, NULL for INA_ERR_NOT_FOUND.
Lookup(k) ==
    LET b == Hash[k]
        S == InUse(b)
        hits == {i \in S : FirstMatch(b, k, S, i)}
    IN  IF hits = {} THEN NULL ELSE ndata[b][CHOOSE i \in hits : TRUE]

Present == {k \in Key : map[k] # NULL}

\* The nodes ina_hashtable_foreach and the iterator stop at.
Entries == {p \in Bucket \X Slot : /\ p[2] <= cnt[p[1]]
                                    /\ ndata[p[1]][p[2]] # NULL}

\* Every call that writes the table: the iterator itself is not told.
Touch == /\ clean' = "no"
         /\ seen' = <<>>
         /\ iter' = [iter EXCEPT !.rc = "none"]
--------------------------------------------------------------------------------
NoIter == [on |-> "no", bucket |-> 0, arr |-> 0, node |-> 1, checksum |-> 0,
           rc |-> "none"]

\* ina_hashtable_new: zero filled buckets, with node arrays when preallocated.
Init == /\ nkey = [b \in Bucket |-> [i \in Slot |-> ZeroKey]]
        /\ ndata = [b \in Bucket |-> [i \in Slot |-> NULL]]
        /\ cnt = [b \in Bucket |-> 0]
        /\ max = [b \in Bucket |-> Prealloc]
        /\ count = 0
        /\ iter = NoIter
        /\ map = [k \in Key |-> NULL]
        /\ clean = "no"
        /\ seen = <<>>

\* Mutant: the test for a full bucket comes one node late.
MaxAfter_Late(b) == IF cnt[b] > max[b] THEN max[b] + BUCKET_SIZE ELSE max[b]

\* The bucket grows when it is full, before the scan, even for a key it holds.
MaxAfter(b) == IF cnt[b] = max[b] THEN max[b] + BUCKET_SIZE ELSE max[b]

Expand(b) == /\ MaxAfter(b) <= MaxSlots
             /\ max' = [max EXCEPT ![b] = MaxAfter(b)]

\* set of a key some reached node matches: its data is replaced.  The node
\* may be a removed one; ht->count is left alone in both cases.
SetMatch(k, d) ==
    LET b == Hash[k]
    IN  /\ Expand(b)
        /\ \E i \in Slot :
              /\ FirstMatch(b, k, Reached(b), i)
              /\ ndata' = [ndata EXCEPT ![b][i] = d]
        /\ UNCHANGED <<nkey, cnt, count>>

\* i is the node set fills when no reached node matches: the last removed one
\* it passed, or a new one at the end.
FreeNode(b, i) ==
    LET holes == {j \in Reached(b) : ndata[b][j] = NULL}
    IN  IF holes = {} THEN i = cnt[b] + 1
                      ELSE i \in holes /\ \A j \in holes : j <= i

\* Mutant: the scan stops at the first removed node and takes it.
SetNew_FirstHole(k, d) ==
    LET b == Hash[k]
    IN  /\ Expand(b)
        /\ \E i \in Slot :
              /\ IF \E j \in Reached(b) : ndata[b][j] = NULL
                 THEN i \in Reached(b) /\ ndata[b][i] = NULL
                 ELSE i = cnt[b] + 1
              /\ \A j \in Reached(b) : j < i => ~Match(nkey[b][j], k)
              /\ nkey' = [nkey EXCEPT ![b][i] = CopyKey(nkey[b][i], k)]
              /\ ndata' = [ndata EXCEPT ![b][i] = d]
              /\ cnt' = [cnt EXCEPT ![b] = IF i = cnt[b] + 1 THEN i ELSE cnt[b]]
        /\ count' = count + 1

SetNew(k, d) ==
    LET b == Hash[k]
    IN  /\ Expand(b)
        /\ \A i \in Reached(b) : ~Match(nkey[b][i], k)
        /\ \E i \in Slot :
              /\ FreeNode(b, i)
              /\ nkey' = [nkey EXCEPT ![b][i] = CopyKey(nkey[b][i], k)]
              /\ ndata' = [ndata EXCEPT ![b][i] = d]
              /\ cnt' = [cnt EXCEPT ![b] = IF i = cnt[b] + 1 THEN i ELSE cnt[b]]
        /\ count' = count + 1

Set(k, d) == /\ SetMatch(k, d) \/ SetNew(k, d)
             /\ map' = [map EXCEPT ![k] = d]
             /\ Touch

\* Mutant: remove also takes the last node off the bucket.
Remove_Shrinks(k) ==
    LET b == Hash[k]
    IN  /\ count > -MaxDrift
        /\ \E i \in Slot :
              /\ FirstMatch(b, k, InUse(b), i)
              /\ ndata' = [ndata EXCEPT ![b][i] = NULL]
        /\ cnt' = [cnt EXCEPT ![b] = @ - 1]
        /\ count' = count - 1
        /\ map' = [map EXCEPT ![k] = NULL]
        /\ UNCHANGED <<nkey, max>>
        /\ Touch

\* A key that is not found returns INA_ERR_NOT_FOUND and changes nothing.
Remove(k) ==
    LET b == Hash[k]
    IN  /\ count > -MaxDrift
        /\ \E i \in Slot :
              /\ FirstMatch(b, k, InUse(b), i)
              /\ ndata' = [ndata EXCEPT ![b][i] = NULL]
        /\ count' = count - 1
        /\ map' = [map EXCEPT ![k] = NULL]
        /\ UNCHANGED <<nkey, cnt, max>>
        /\ Touch

\* Keys, data and array sizes stay as they are, only the counts go to zero.
Clear == /\ cnt' = [b \in Bucket |-> 0]
         /\ count' = 0
         /\ map' = [k \in Key |-> NULL]
         /\ UNCHANGED <<nkey, ndata, max>>
         /\ Touch
--------------------------------------------------------------------------------
\* iter_new, which allocates the iterator and resets it, and iter_reset.
IterReset ==
    /\ iter' = [on |-> "yes", bucket |-> 0, arr |-> max[0], node |-> 1,
                checksum |-> count, rc |-> "none"]
    /\ clean' = "yes"
    /\ seen' = <<>>
    /\ UNCHANGED <<table, map>>

\* Mutant: a bucket is entered at its second node.
Ahead_Second == {p \in Entries : \/ p[1] > iter.bucket /\ p[2] > 1
                                 \/ /\ p[1] = iter.bucket
                                    /\ iter.arr # 0
                                    /\ p[2] >= iter.node}

\* The nodes with data from the iterator's position on.  A null node pointer
\* (the bucket had no array) passes its bucket by.
Ahead == {p \in Entries : \/ p[1] > iter.bucket
                          \/ /\ p[1] = iter.bucket
                             /\ iter.arr # 0
                             /\ p[2] >= iter.node}

Before(p, q) == p[1] < q[1] \/ (p[1] = q[1] /\ p[2] < q[2])

\* The bucket got a new array since the iterator took its pointer: the code
\* goes on with a pointer into the old one.
Stale == iter.bucket < Capacity /\ iter.arr # 0 /\ iter.arr # max[iter.bucket]

IterFailed == /\ iter.on = "yes"
              /\ iter.checksum # count
              /\ iter' = [iter EXCEPT !.rc = "state"]
              /\ UNCHANGED <<table, map, ghost>>

IterNext ==
    /\ iter.on = "yes"
    /\ iter.checksum = count
    /\ ~Stale
    /\ \E p \in Ahead :
          /\ \A q \in Ahead : q # p => Before(p, q)
          /\ iter' = [iter EXCEPT !.bucket = p[1], !.arr = max[p[1]],
                                  !.node = p[2] + 1, !.rc = "ok"]
          /\ seen' = IF clean = "yes" THEN Append(seen, p) ELSE seen
    /\ UNCHANGED <<table, map, clean>>

IterEnd ==
    /\ iter.on = "yes"
    /\ iter.checksum = count
    /\ ~Stale
    /\ Ahead = {}
    /\ iter' = [iter EXCEPT !.bucket = Capacity, !.arr = 0, !.node = 1,
                            !.rc = "end"]
    /\ UNCHANGED <<table, map, ghost>>

\* What next reads through a pointer into the old array is not modelled.
IterWild ==
    /\ iter.on = "yes"
    /\ iter.checksum = count
    /\ Stale
    /\ iter' = [NoIter EXCEPT !.rc = "wild"]
    /\ UNCHANGED <<table, map, ghost>>

IterFree == /\ iter.on = "yes"
            /\ iter' = NoIter
            /\ UNCHANGED <<table, map, ghost>>

TableNext == \/ \E k \in Key : \/ \E d \in Value : Set(k, d)
                               \/ Remove(k)
             \/ Clear

IterStep == \/ IterReset \/ IterFailed \/ IterNext
            \/ IterEnd \/ IterWild \/ IterFree

Next == TableNext \/ IterStep

Spec == Init /\ [][Next]_vars

--------------------------------------------------------------------------------
Iterator == [on : {"yes", "no"}, bucket : 0 .. Capacity,
             arr : 0 .. MaxSlots, node : 1 .. MaxSlots + 1, checksum : Int,
             rc : {"none", "ok", "state", "end", "wild"}]

TypeOK ==
    /\ nkey \in [Bucket -> [Slot -> NodeKey]]
    /\ ndata \in [Bucket -> [Slot -> Value \cup {NULL}]]
    /\ cnt \in [Bucket -> 0 .. MaxSlots]
    /\ max \in [Bucket -> 0 .. MaxSlots]
    /\ \A b \in Bucket : cnt[b] <= max[b]
    /\ count \in Int
    /\ iter \in Iterator
    /\ map \in [Key -> Value \cup {NULL}]
    /\ clean \in {"yes", "no"}
    /\ seen \in Seq(Bucket \X Slot)

\* ina_hashtable_get agrees, for every key, with the map that the calls of
\* set, remove and clear so far describe: it finds the latest data of a key
\* that was set and not removed, and nothing otherwise.  It holds for keys of
\* one length whose first word is not zero, whatever buckets they share.
LookupAgrees == \A k \in Key : Lookup(k) = map[k]

\* foreach and a complete iteration meet each key of the map once and no other
\* node: set never leaves two nodes for one key, and reuse of a removed node
\* never loses one.  ht->count never exceeds them, on which
\* ina_list_new_from_hashtable and the iterator's checksum rest; it may fall
\* short, since the matching branch of a set does not count a removed key that
\* comes back.
EntriesExact ==
    /\ Cardinality(Entries) = Cardinality(Present)
    /\ count <= Cardinality(Entries)
    /\ \A p \in Entries : \E k \in Key :
          Match(nkey[p[1]][p[2]], k) /\ map[k] = ndata[p[1]][p[2]]

\* An iteration that reached INA_ERR_END_OF with no set, remove or clear since
\* its reset returned every entry of the table exactly once.
IterComplete ==
    iter.rc = "end" /\ clean = "yes" =>
        /\ {seen[n] : n \in DOMAIN seen} = Entries
        /\ Len(seen) = Cardinality(Entries)
================================================================================
