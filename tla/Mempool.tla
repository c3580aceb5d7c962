-------------------------------- MODULE Mempool --------------------------------
(***************************************************************************)
(* The memory pools of src/src/memory.c that live on the heap: chains of   *)
(* chunks from which blocks are cut, reallocable ones from the front       *)
(* (dalloc, ralloc) and others from the back (nalloc).  One caller uses a  *)
(* pool (the code takes no lock), so every action is one whole call; what  *)
(* is hard is the sequence of calls.                                       *)
(*                                                                         *)
(* A pool is its first chunk.  A chunk is a number, 0 is the null pointer, *)
(* and chunks are made in order.  The caller writes to every byte of a     *)
(* block it is given, and may write to it again for as long as it has it.  *)
(*                                                                         *)
(* The last seven variables are not in the code: the blocks the caller     *)
(* has, the bytes that are not zero, and what a call the code accepts may  *)
(* have left behind (said where it is set):                                *)
(*   stale    pools rewound since they were zero filled                    *)
(*   mixed    pools in which a block may be cut from bytes of another one  *)
(*   dropped  pools that lost chunks without freeing them                  *)
(*   torn     pools whose first chunk was freed under the caller           *)
(*   outside  whether the caller ever had memory past the last byte of a   *)
(*            chunk, or memory that was freed; whatever else is kept       *)
(*            there, a write to it may change it, and the model does not   *)
(*            follow that                                                  *)
(***************************************************************************)
EXTENDS Integers, FiniteSets, FiniteSetsExt

CONSTANTS Pool,        \* the first chunks of the pools the caller made
          Dynamic,     \* the pools made with INA_MEM_DYNAMIC
          Autosize,    \* the pools made with INA_MEM_AUTOSIZE
          Bestfit,     \* the pools made with INA_MEM_BESTFIT and nothing else
          Size,        \* size of a pool
          MinSize,     \* INA_MEM_MIN_POOL_SIZE
          AlignSize,   \* INA_MEM_ALIGN_SIZE
          Alignment,   \* alignments the caller sets
          Request,     \* sizes the caller asks for
          MaxChunks,   \* bound: chunks ever made
          MaxBlocks    \* bound: blocks in use at a time

ASSUME MempoolAssumption ==
  /\ Pool # {}
  /\ IsFiniteSet(Pool)
  /\ Pool = 1 .. Cardinality(Pool)
  /\ Cardinality(Pool) <= MaxChunks
  /\ Dynamic \subseteq Pool
  /\ Autosize \subseteq Pool
  /\ Bestfit \subseteq Pool \ (Dynamic \cup Autosize)
  /\ Alignment \cup {AlignSize} \subseteq Nat \ {0}
  /\ \A a \in Alignment \cup {AlignSize} : \E k \in 0 .. 31 : a = 2^k
  /\ MinSize \in Nat \ {0}
  /\ Size \in Nat
  /\ Size >= MinSize
  /\ Size % AlignSize = 0
  /\ Request \subseteq Nat \ {0}
  /\ MaxChunks \in Nat
  /\ MaxBlocks \in Nat

Chunk == 1 .. MaxChunks

VARIABLES size, pos, end,  \* of each chunk: its bytes, the first free one, the
                           \* first one taken from the back
          child,           \* of each chunk: the next one
          current,         \* of each pool: the chunk it allocates from
          alignment,       \* of each pool
          made,            \* chunks made so far
          mem,             \* chunks that are allocated
          handle,          \* pools the caller may use: not merged, not freed
          blocks, dirty, stale, mixed, dropped, torn, outside

chunks == <<size, pos, end, child, made, mem>>
ghosts == <<stale, mixed, dropped, torn, outside>>
vars == <<chunks, current, alignment, handle, blocks, dirty, ghosts>>

\* INA_MEM_ALIGN_N, which masks the low bits: rounding up, for powers of two.
Align(n, a) == ((n + a - 1) \div a) * a

\* The chunk k steps down the chain from c.
Down(c) ==
  LET d[k \in 0 .. MaxChunks] ==
        IF k = 0 THEN c ELSE IF d[k - 1] = 0 THEN 0 ELSE child[d[k - 1]]
  IN  d

Chain(c) == {Down(c)[k] : k \in 0 .. MaxChunks} \ {0}

Fits(c, n) == pos[c] + n <= end[c]

Block(p, c, off, n, want, kind) ==
  [pool |-> p, chunk |-> c, off |-> off, len |-> n, size |-> want, kind |-> kind]

Bytes(b) == {<<b.chunk, i>> : i \in b.off .. b.off + b.len - 1}

Room == Cardinality(blocks) < MaxBlocks

\* The caller is given block b and fills it.
Give(b) == /\ blocks' = blocks \cup {b}
           /\ dirty' = dirty \cup Bytes(b)

\* A call on a pool whose descriptor was freed is not followed.
Usable(p) == p \in handle /\ p \notin torn
--------------------------------------------------------------------------------
\* ina_mempool_new of every pool: one zero filled chunk each.
Init ==
  /\ size = [c \in Chunk |-> IF c \in Pool THEN Size ELSE 0]
  /\ pos = [c \in Chunk |-> 0]
  /\ end = size
  /\ child = [c \in Chunk |-> 0]
  /\ made = Cardinality(Pool)
  /\ mem = Pool
  /\ current = [p \in Pool |-> p]
  /\ alignment = [p \in Pool |-> IF p \in Bestfit THEN 1 ELSE AlignSize]
  /\ handle = Pool
  /\ blocks = {}
  /\ dirty = {}
  /\ stale = {}
  /\ mixed = {}
  /\ dropped = {}
  /\ torn = {}
  /\ outside = "no"

\* Size of the chunk a pool that is full makes for a request of n bytes.
ChunkSize(p, n) ==
  Align(Max({MinSize, IF p \in Autosize \/ n > size[p] THEN n ELSE size[p]}), AlignSize)

\* A new chunk becomes the child of c, and the chunk pool p allocates from; back is
\* what the allocation takes from its back.
Grow(p, c, n, back) ==
  /\ p \in Dynamic
  /\ made < MaxChunks
  /\ made' = made + 1
  /\ mem' = mem \cup {made'}
  /\ size' = [size EXCEPT ![made'] = ChunkSize(p, n)]
  /\ end' = [end EXCEPT ![made'] = ChunkSize(p, n) - back]
  /\ child' = [child EXCEPT ![c] = made']
  /\ current' = [current EXCEPT ![p] = made']

\* Chunk c is the first one from current on that has room for n bytes; a pool
\* that is not dynamic looks at current only.
FirstFit(p, n, c) ==
  LET d == Down(current[p])
  IN  \E k \in 0 .. MaxChunks :
        /\ p \notin Dynamic => k = 0
        /\ d[k] = c
        /\ c # 0
        /\ Fits(c, n)
        /\ \A i \in 0 .. k - 1 : ~Fits(d[i], n)

Last(p) == CHOOSE c \in Chain(current[p]) : child[c] = 0

DallocFits(p, want) ==
  LET n == Align(want, alignment[p])
  IN  /\ Usable(p)
      /\ Room
      /\ \E c \in Chunk :
           /\ FirstFit(p, n, c)
           /\ Give(Block(p, c, pos[c], n, want, "d"))
           /\ pos' = [pos EXCEPT ![c] = @ + n]
           /\ current' = [current EXCEPT ![p] = c]
      /\ UNCHANGED <<size, end, child, made, mem, alignment, handle, ghosts>>

\* Mutant: the new chunk is put below current without a look at its child.
DallocGrows_AtCurrent(p, want) ==
  LET n == Align(want, alignment[p])
  IN  /\ Usable(p)
      /\ Room
      /\ ~Fits(current[p], n)
      /\ Grow(p, current[p], n, 0)
      /\ pos' = [pos EXCEPT ![made'] = n]
      /\ Give(Block(p, made + 1, 0, n, want, "d"))
      /\ UNCHANGED <<alignment, handle, ghosts>>

DallocGrows(p, want) ==
  LET n == Align(want, alignment[p])
  IN  /\ Usable(p)
      /\ Room
      /\ ~\E c \in Chunk : FirstFit(p, n, c)
      /\ Grow(p, Last(p), n, 0)
      /\ pos' = [pos EXCEPT ![made'] = n]
      /\ Give(Block(p, made + 1, 0, n, want, "d"))
      /\ UNCHANGED <<alignment, handle, ghosts>>

\* Mutant: only the bogus request is refused, the chunk is not asked for room.
NallocFits_NoCheck(p, want) ==
  LET n == Align(want, alignment[p])
      c == current[p]
  IN  /\ Usable(p)
      /\ Room
      /\ end[p] >= n
      /\ Give(Block(p, c, end[c] - n, n, want, "n"))
      /\ end' = [end EXCEPT ![c] = @ - n]
      /\ UNCHANGED <<size, pos, child, made, mem, current, alignment, handle, ghosts>>

NallocFits(p, want) ==
  LET n == Align(want, alignment[p])
      c == current[p]
  IN  /\ Usable(p)
      /\ Room
      /\ end[p] >= n
      /\ Fits(c, n)
      /\ Give(Block(p, c, end[c] - n, n, want, "n"))
      /\ end' = [end EXCEPT ![c] = @ - n]
      /\ UNCHANGED <<size, pos, child, made, mem, current, alignment, handle, ghosts>>

\* The new chunk takes the place of the children current may have (it has some
\* after a reset): they are dropped, with what is in them.
Dropping(p) == dropped' = IF child[current[p]] # 0 THEN dropped \cup {p} ELSE dropped

NallocGrows(p, want) ==
  LET n == Align(want, alignment[p])
      c == current[p]
  IN  /\ Usable(p)
      /\ Room
      /\ end[p] >= n
      /\ ~Fits(c, n)
      /\ Grow(p, c, n, n)
      /\ pos' = [pos EXCEPT ![made'] = 0]
      /\ Give(Block(p, made + 1, ChunkSize(p, n) - n, n, want, "n"))
      /\ Dropping(p)
      /\ UNCHANGED <<alignment, handle, stale, mixed, torn, outside>>
--------------------------------------------------------------------------------
(* ina_mempool_ralloc works on the first chunk of the pool, whatever current   *)
(* is.  The caller passes the size it last asked for, and the code rounds it   *)
(* by the alignment of today.                                                  *)

OldSize(b) == Align(b.size, alignment[b.pool])

\* &pool->m[pool->pos - old_size] == old
IsLast(b) ==
  LET p == b.pool
  IN  pos[p] >= OldSize(b) /\ b.chunk = p /\ b.off = pos[p] - OldSize(b)

\* Reallocable blocks of a pool in use; when the alignment was raised since the block
\* was cut, the rounded size may take in bytes of the blocks behind it.
Realloc(b) == /\ b.kind = "d"
              /\ Usable(b.pool)
              /\ end[b.pool] >= OldSize(b)
              /\ mixed' = IF OldSize(b) > b.len THEN mixed \cup {b.pool} ELSE mixed

\* Mutant: the bytes given back are not filled with zero.
RallocInPlace_NoFill(b, want) ==
  LET p == b.pool
      old == OldSize(b)
      n == Align(want, alignment[p])
      c == [b EXCEPT !.len = n, !.size = want]
  IN  /\ Realloc(b)
      /\ IsLast(b)
      /\ pos[p] + n - old <= end[p]
      /\ pos' = [pos EXCEPT ![p] = @ + n - old]
      /\ blocks' = (blocks \ {b}) \cup {c}
      /\ dirty' = dirty \cup Bytes(c)
      /\ UNCHANGED <<size, end, child, made, mem, current, alignment, handle,
                     stale, dropped, torn, outside>>

\* The last block of the chunk grows or shrinks where it is; the bytes it gives
\* back are filled with zero.
RallocInPlace(b, want) ==
  LET p == b.pool
      old == OldSize(b)
      n == Align(want, alignment[p])
      c == [b EXCEPT !.len = n, !.size = want]
  IN  /\ Realloc(b)
      /\ IsLast(b)
      /\ pos[p] + n - old <= end[p]
      /\ pos' = [pos EXCEPT ![p] = @ + n - old]
      /\ blocks' = (blocks \ {b}) \cup {c}
      /\ dirty' = (dirty \ {<<p, i>> : i \in pos'[p] .. pos[p] - 1}) \cup Bytes(c)
      /\ UNCHANGED <<size, end, child, made, mem, current, alignment, handle,
                     stale, dropped, torn, outside>>

\* Any other block is left where it is when the new size is not larger: the
\* caller has its bytes, and remembers the new size.
RallocKeeps(b, want) ==
  LET n == Align(want, alignment[b.pool])
  IN  /\ Realloc(b)
      /\ ~IsLast(b)
      /\ n <= OldSize(b)
      /\ blocks' = (blocks \ {b}) \cup {[b EXCEPT !.size = want]}
      /\ UNCHANGED <<chunks, current, alignment, handle, dirty, stale, dropped, torn,
                     outside>>

\* It moves to the front of the first chunk when there is room.
RallocMoves(b, want) ==
  LET p == b.pool
      n == Align(want, alignment[p])
      c == Block(p, p, pos[p], n, want, "d")
  IN  /\ Realloc(b)
      /\ ~IsLast(b)
      /\ n > OldSize(b)
      /\ Fits(p, n)
      /\ pos' = [pos EXCEPT ![p] = @ + n]
      /\ blocks' = (blocks \ {b}) \cup {c}
      /\ dirty' = dirty \cup Bytes(c)
      /\ UNCHANGED <<size, end, child, made, mem, current, alignment, handle,
                     stale, dropped, torn, outside>>

\* When there is none, a dynamic pool makes a chunk, and all the same returns the
\* memory at pos of the first chunk, copies the old size there and moves pos past
\* it: over what was taken from the back, or past the last byte of the chunk.
RallocSpills(b, want) ==
  LET p == b.pool
      old == OldSize(b)
      n == Align(want, alignment[p])
      c == Block(p, p, pos[p], n, want, "d")
  IN  /\ Realloc(b)
      /\ IF IsLast(b) THEN pos[p] + n - old > end[p] ELSE n > old /\ ~Fits(p, n)
      /\ Grow(p, current[p], n, 0)
      /\ pos' = [pos EXCEPT ![made'] = 0, ![p] = @ + n]
      /\ blocks' = (blocks \ {b}) \cup {c}
      /\ dirty' = dirty \cup Bytes(c) \cup {<<p, i>> : i \in pos[p] .. pos[p] + old - 1}
      /\ outside' = IF pos[p] + Max({n, old}) > size[p] THEN "yes" ELSE outside
      /\ Dropping(p)
      /\ UNCHANGED <<alignment, handle, stale, torn>>
--------------------------------------------------------------------------------
\* The caller writes to a block it has.
Write(b) ==
  /\ dirty' = dirty \cup Bytes(b)
  /\ UNCHANGED <<chunks, current, alignment, handle, blocks, ghosts>>

SetAlignment(p, a) ==
  /\ Usable(p)
  /\ alignment' = [alignment EXCEPT ![p] = a]
  /\ UNCHANGED <<chunks, current, handle, blocks, dirty, ghosts>>

\* src becomes the first child of dest; the children src has are dropped.  The
\* caller does not use src any more, its blocks live on in dest.
Merge(dest, src) ==
  /\ Usable(dest) /\ Usable(src)
  /\ dest # src
  /\ child' = [child EXCEPT ![dest] = src, ![src] = child[dest]]
  /\ handle' = handle \ {src}
  /\ blocks' = {IF b.pool = src THEN [b EXCEPT !.pool = dest] ELSE b : b \in blocks}
  /\ dropped' = IF child[src] # 0 \/ src \in dropped THEN dropped \cup {dest} ELSE dropped
  /\ stale' = IF src \in stale THEN stale \cup {dest} ELSE stale
  /\ mixed' = IF src \in mixed THEN mixed \cup {dest} ELSE mixed
  /\ UNCHANGED <<size, pos, end, made, mem, current, alignment, dirty, torn, outside>>

\* The fronts of the chunks cs are given back; what was taken from the back stays.
Rewind(cs) == pos' = [c \in Chunk |-> IF c \in cs THEN 0 ELSE pos[c]]

\* The caller gives up what it had from the front of the pool.
GiveBack(p) == blocks' = {b \in blocks : b.pool # p \/ b.kind = "n"}

Reset(p) ==
  /\ Usable(p)
  /\ Rewind(Chain(p))
  /\ GiveBack(p)
  /\ current' = [current EXCEPT ![p] = p]
  /\ stale' = stale \cup {p}
  /\ UNCHANGED <<size, end, child, made, mem, alignment, handle, dirty, mixed, dropped,
                 torn, outside>>

Clear(p) ==
  /\ Usable(p)
  /\ Rewind(Chain(p))
  /\ GiveBack(p)
  /\ current' = [current EXCEPT ![p] = p]
  /\ dirty' = {x \in dirty : x[1] \notin Chain(p)}
  /\ stale' = stale \ {p}
  /\ UNCHANGED <<size, end, child, made, mem, alignment, handle, mixed, dropped, torn,
                 outside>>

\* ina_mempool_shrink, with more children than asked for; the caller keeps its blocks.
\* When nothing was taken from the back of the first chunk, that chunk is freed
\* first, with its descriptor, and each turn of the loop reads the condition in
\* freed memory: of the chunks that are too many any others may be freed, and the
\* rest are rewound.  Otherwise nothing is freed, and every chunk is rewound.
Shrink(p, n) ==
  LET children == Cardinality(Chain(p)) - 1
      many == {c \in Chain(p) : \E k \in 0 .. children - n - 1 : Down(p)[k] = c}
  IN  /\ Usable(p)
      /\ children > n
      /\ \/ /\ end[p] = size[p]
            /\ \E S \in SUBSET many :
                 /\ p \in S
                 /\ mem' = mem \ S
                 /\ Rewind(Chain(p) \ S)
            /\ torn' = torn \cup {p}
            /\ outside' = "yes"
            /\ UNCHANGED <<stale, mixed>>
         \/ /\ end[p] # size[p]
            /\ Rewind(Chain(p))
            /\ stale' = stale \cup {p}
            /\ mixed' = mixed \cup {p}
            /\ UNCHANGED <<mem, torn, outside>>
      /\ UNCHANGED <<size, end, child, made, current, alignment, handle, blocks, dirty,
                     dropped>>

Free(p) ==
  /\ Usable(p)
  /\ mem' = mem \ Chain(p)
  /\ handle' = handle \ {p}
  /\ blocks' = {b \in blocks : b.pool # p}
  /\ dirty' = {x \in dirty : x[1] \in mem'}
  /\ UNCHANGED <<size, pos, end, child, made, current, alignment, ghosts>>
--------------------------------------------------------------------------------
Next ==
  \/ \E p \in Pool, n \in Request :
       DallocFits(p, n) \/ DallocGrows(p, n) \/ NallocFits(p, n) \/ NallocGrows(p, n)
  \/ \E b \in blocks, n \in Request :
       RallocInPlace(b, n) \/ RallocKeeps(b, n) \/ RallocMoves(b, n) \/ RallocSpills(b, n)
  \/ \E b \in blocks : Write(b)
  \/ \E p \in Pool, a \in Alignment : SetAlignment(p, a)
  \/ \E p, q \in Pool : Merge(p, q)
  \/ \E p \in Pool : Reset(p) \/ Clear(p) \/ Free(p) \/ \E n \in 0 .. 1 : Shrink(p, n)

Spec == Init /\ [][Next]_vars
--------------------------------------------------------------------------------
\* The types, that what was taken from the back of a chunk is in it, and that the
\* front passes the back in no chunk but the first one of a dynamic pool, where a
\* reallocation that does not fit may take it there.
TypeOK ==
  /\ size \in [Chunk -> Nat]
  /\ pos \in [Chunk -> Nat]
  /\ end \in [Chunk -> Nat]
  /\ \A c \in Chunk : end[c] <= size[c] /\ (pos[c] <= end[c] \/ c \in Dynamic)
  /\ child \in [Chunk -> Chunk \cup {0}]
  /\ made \in 0 .. MaxChunks
  /\ mem \subseteq 1 .. made
  /\ current \in [Pool -> Chunk]
  /\ alignment \in [Pool -> Nat \ {0}]
  /\ handle \subseteq Pool
  /\ blocks \subseteq [pool : Pool, chunk : Chunk, off : Nat, len : Nat, size : Nat,
                       kind : {"d", "n"}]
  /\ dirty \subseteq Chunk \X Nat
  /\ stale \subseteq Pool /\ mixed \subseteq Pool /\ dropped \subseteq Pool
  /\ torn \subseteq Pool
  /\ outside \in {"no", "yes"}

\* A block the caller has lies in an allocated chunk, in the part of it that is
\* accounted for, and shares no byte with another block of that chunk, whatever was
\* allocated from the front and from the back, grown, shrunk, moved, merged and
\* reset in between.  Excepted are, and each does happen: a block from the front
\* against one from the back of the first chunk of a dynamic pool, whose front a
\* reallocation that does not fit took past the back; the pools that were shrunk (mixed, torn), and those in which
\* a block was reallocated after the alignment had been raised (mixed).
BlocksApart ==
  \A b \in blocks :
    b.pool \notin mixed \cup torn =>
      /\ b.pool \in handle
      /\ b.chunk \in mem
      /\ IF b.kind = "d" THEN b.off + b.len <= pos[b.chunk]
                         ELSE b.off >= end[b.chunk] /\ b.off + b.len <= size[b.chunk]
      /\ \A c \in blocks \ {b} :
           /\ c.pool \notin torn
           /\ b.kind = c.kind \/ b.chunk \notin Dynamic \/ pos[b.chunk] <= end[b.chunk]
           => Bytes(b) \cap Bytes(c) = {}

\* The memory a pool hands out next is zero: the hash table takes its nodes from one
\* and ends its scans at a key of zero.  Excepted are the pools that were rewound
\* without being filled (stale), those in which the caller may have a block in that
\* memory (mixed), and everything once the caller had memory outside its chunks.
FreshZero ==
  outside = "no" =>
    \A p \in handle \ (stale \cup mixed) :
      \A c \in Chain(p) : \A i \in pos[c] .. end[c] - 1 : <<c, i>> \notin dirty

\* The chunks on the chain of a pool are allocated, on no other pool's chain, and the
\* one it allocates from is among them; every chunk is on the chain of a pool, so that
\* reset, clear, info and free reach it.  The last fails once a pool lost its children
\* to an nalloc or a ralloc after a reset, or by being merged (dropped), and once a
\* pool was shrunk and its first chunk freed (torn), which the first excepts too.
ChunksHeld ==
  /\ \A p \in handle \ torn :
       /\ Chain(p) \subseteq mem
       /\ current[p] \in Chain(p)
       /\ \A q \in handle \ {p} : Chain(p) \cap Chain(q) = {}
  /\ dropped \cup torn = {} => mem = UNION {Chain(p) : p \in handle}
================================================================================
