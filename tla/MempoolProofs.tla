----------------------------- MODULE MempoolProofs -----------------------------
(***************************************************************************)
(* Proofs about the memory pools, for any number of pools, chunks, blocks  *)
(* and any sizes.  The chain of a pool is shown to be the least set that   *)
(* holds its first chunk and the child of each chunk it holds; everything  *)
(* the invariants say of chains follows from that.                         *)
(***************************************************************************)
EXTENDS Mempool, FiniteSetTheorems, WellFoundedInduction, TLAPS

\* Down and Chain for any child function.
DownOf(f, c) ==
  LET d[k \in 0 .. MaxChunks] ==
        IF k = 0 THEN c ELSE IF d[k - 1] = 0 THEN 0 ELSE f[d[k - 1]]
  IN  d

ChainOf(f, c) == {DownOf(f, c)[k] : k \in 0 .. MaxChunks} \ {0}

Link == [Chunk -> Chunk \cup {0}]

\* T holds the child of every chunk in it.
Closed(f, T) == \A x \in T : f[x] # 0 => f[x] \in T
--------------------------------------------------------------------------------
(* Arithmetic, and induction over the naturals as a fact about sets.          *)

\* A set of naturals has a least element.
LEMMA Least ==
  ASSUME NEW S \in SUBSET Nat, S # {}
  PROVE  \E n \in S : \A m \in S : n <= m
  <1> DEFINE R == OpToRel(<, Nat)
  <1>1. R = {ss \in Nat \X Nat : ss[1] < ss[2]}
    BY Zenon DEF OpToRel
  <1>2. IsWellFoundedOn(R, Nat)
    BY NatLessThanWellFounded
  <1> HIDE DEF R
  <1>3. PICK n \in S : \A m \in S : ~(<<m, n>> \in R)
    BY <1>2, WFMin
  <1>4. n \in Nat /\ \A m \in S : m \in Nat
    OBVIOUS
  <1>5. ASSUME NEW m \in S PROVE n <= m
    <2>1. ~(<<m, n>> \in {ss \in Nat \X Nat : ss[1] < ss[2]})
      BY <1>1, <1>3, Zenon
    <2> QED BY <1>4, <2>1
  <1> QED BY <1>5

\* A set that holds 0 and the successor of every natural below m that it holds
\* holds every natural up to m.
LEMMA Induction ==
  ASSUME NEW S, NEW m \in Nat, 0 \in S, \A n \in 0 .. m - 1 : n \in S => n + 1 \in S
  PROVE  0 .. m \subseteq S
  <1> SUFFICES ASSUME (0 .. m) \ S # {} PROVE FALSE
    OBVIOUS
  <1>1. PICK n \in (0 .. m) \ S : \A k \in (0 .. m) \ S : n <= k
    <2>1. (0 .. m) \ S \in SUBSET Nat
      OBVIOUS
    <2> QED BY <2>1, Least
  <1>2. n # 0 /\ n - 1 \in 0 .. m - 1 /\ n = (n - 1) + 1
    BY <1>1
  <1>3. n - 1 \in S
    BY <1>1, <1>2
  <1> QED BY <1>1, <1>2, <1>3

\* Align rounds up.
LEMMA AlignUp ==
  ASSUME NEW n \in Nat, NEW a \in Nat \ {0}
  PROVE  Align(n, a) \in Nat /\ Align(n, a) >= n
  <1> DEFINE x == n + a - 1
             q == x \div a
  <1>1. x \in Nat /\ n = x - a + 1
    OBVIOUS
  <1> HIDE DEF x
  <1>2. x % a \in Nat /\ x % a < a
    BY <1>1
  <1>3. q \in Nat /\ x = (a * q) + (x % a)
    BY <1>1
  <1>4. Align(n, a) = q * a
    BY DEF Align, x
  <1> HIDE DEF q
  <1>5. q * a \in Nat /\ a * q = q * a
    BY <1>3
  <1> QED BY <1>1, <1>2, <1>3, <1>4, <1>5
--------------------------------------------------------------------------------
(* The walk down a chain.                                                     *)

\* The recursive function exists: it gives the chunks of the walk.
LEMMA DownSteps ==
  ASSUME NEW f \in Link, NEW c \in Chunk
  PROVE  /\ DownOf(f, c) \in [0 .. MaxChunks -> Chunk \cup {0}]
         /\ DownOf(f, c)[0] = c
         /\ \A k \in 0 .. MaxChunks - 1 :
              DownOf(f, c)[k + 1]
                = IF DownOf(f, c)[k] = 0 THEN 0 ELSE f[DownOf(f, c)[k]]
  <1> DEFINE Walk(d) == [k \in 0 .. MaxChunks |->
                           IF k = 0 THEN c ELSE IF d[k - 1] = 0 THEN 0 ELSE f[d[k - 1]]]
             S == {m \in Nat : \E d \in [0 .. m -> Chunk \cup {0}] :
                     /\ d[0] = c
                     /\ \A k \in 1 .. m : d[k] = IF d[k - 1] = 0 THEN 0 ELSE f[d[k - 1]]}
  <1>1. MaxChunks \in Nat
    BY MempoolAssumption
  <1>2. 0 \in S
    <2> DEFINE d == [k \in 0 .. 0 |-> c]
    <2>1. d \in [0 .. 0 -> Chunk \cup {0}]
      OBVIOUS
    <2>2. d[0] = c
      OBVIOUS
    <2> HIDE DEF d
    <2>3. \A k \in 1 .. 0 : d[k] = IF d[k - 1] = 0 THEN 0 ELSE f[d[k - 1]]
      OBVIOUS
    <2> QED BY <2>1, <2>2, <2>3
  <1>3. ASSUME NEW m \in Nat, m \in S PROVE m + 1 \in S
    <2>1. PICK d \in [0 .. m -> Chunk \cup {0}] :
            /\ d[0] = c
            /\ \A k \in 1 .. m : d[k] = IF d[k - 1] = 0 THEN 0 ELSE f[d[k - 1]]
      BY <1>3
    <2> DEFINE e == [k \in 0 .. m + 1 |->
                       IF k <= m THEN d[k] ELSE IF d[m] = 0 THEN 0 ELSE f[d[m]]]
    <2>2. e \in [0 .. m + 1 -> Chunk \cup {0}]
      BY DEF Link
    <2>3. e[0] = c
      BY <2>1
    <2>4. ASSUME NEW k \in 1 .. m + 1
          PROVE  e[k] = IF e[k - 1] = 0 THEN 0 ELSE f[e[k - 1]]
      <3>1. CASE k <= m
        <4>1. k \in 1 .. m /\ k - 1 \in 0 .. m /\ k - 1 <= m /\ k \in 0 .. m + 1 /\ k - 1 \in 0 .. m + 1
          BY <3>1
        <4>2. e[k] = d[k] /\ e[k - 1] = d[k - 1]
          BY <3>1, <4>1
        <4> QED BY <2>1, <4>1, <4>2
      <3>2. CASE k = m + 1
        <4>1. e[k] = IF d[m] = 0 THEN 0 ELSE f[d[m]]
          BY <3>2
        <4>2. e[k - 1] = d[m]
          BY <3>2
        <4> QED BY <4>1, <4>2
      <3> QED BY <3>1, <3>2
    <2> HIDE DEF e
    <2> QED BY <2>2, <2>3, <2>4
  <1> HIDE DEF S
  <1>4. MaxChunks \in S
    BY <1>1, <1>2, <1>3, Induction
  <1>5. PICK d \in [0 .. MaxChunks -> Chunk \cup {0}] :
          /\ d[0] = c
          /\ \A k \in 1 .. MaxChunks : d[k] = IF d[k - 1] = 0 THEN 0 ELSE f[d[k - 1]]
    BY <1>4 DEF S
  <1>6. d = Walk(d)
    <2>1. d = [k \in 0 .. MaxChunks |-> d[k]]
      OBVIOUS
    <2>2. ASSUME NEW k \in 0 .. MaxChunks
          PROVE  d[k] = IF k = 0 THEN c ELSE IF d[k - 1] = 0 THEN 0 ELSE f[d[k - 1]]
      BY <1>1, <1>5
    <2> QED BY <2>1, <2>2
  <1>7. DownOf(f, c) = CHOOSE e : e = Walk(e)
    BY DEF DownOf
  <1> DEFINE w == DownOf(f, c)
  <1>8. w = Walk(w)
    <2> HIDE DEF Walk
    <2> QED BY <1>6, <1>7
  <1> HIDE DEF w
  <1>9. w[0] = c /\ \A k \in 0 .. MaxChunks - 1 : w[k + 1] = IF w[k] = 0 THEN 0 ELSE f[w[k]]
    <2>1. ASSUME NEW k \in 0 .. MaxChunks
          PROVE  w[k] = IF k = 0 THEN c ELSE IF w[k - 1] = 0 THEN 0 ELSE f[w[k - 1]]
      BY <1>8, Zenon
    <2> QED BY <1>1, <2>1
  <1>10. w \in [0 .. MaxChunks -> Chunk \cup {0}]
    <2> DEFINE D == {k \in 0 .. MaxChunks : w[k] \in Chunk \cup {0}}
    <2>1. 0 \in D
      BY <1>1, <1>9
    <2>2. \A k \in 0 .. MaxChunks - 1 : k \in D => k + 1 \in D
      BY <1>1, <1>9 DEF Link
    <2> HIDE DEF D
    <2>3. 0 .. MaxChunks \subseteq D
      BY <1>1, <2>1, <2>2, Induction
    <2>4. \A k \in 0 .. MaxChunks : w[k] \in Chunk \cup {0}
      BY <2>3 DEF D
    <2>5. w = [k \in 0 .. MaxChunks |-> w[k]]
      BY <1>8
    <2> QED BY <2>4, <2>5
  <1> QED BY <1>9, <1>10 DEF w

\* A chain holds its first chunk, and only chunks.
LEMMA ChainStart ==
  ASSUME NEW f \in Link, NEW c \in Chunk
  PROVE  c \in ChainOf(f, c) /\ ChainOf(f, c) \subseteq Chunk
  <1>1. 0 \in 0 .. MaxChunks /\ 0 \notin Chunk
    BY MempoolAssumption DEF Chunk
  <1> DEFINE d == DownOf(f, c)
  <1>2. d[0] = c /\ d \in [0 .. MaxChunks -> Chunk \cup {0}]
    BY DownSteps
  <1>3. ChainOf(f, c) = {d[k] : k \in 0 .. MaxChunks} \ {0}
    BY DEF ChainOf
  <1> HIDE DEF d
  <1>4. c \in {d[k] : k \in 0 .. MaxChunks} \ {0}
    BY <1>1, <1>2
  <1> QED BY <1>2, <1>3, <1>4

\* Any set that holds the first chunk and the child of each of its chunks holds
\* the chain.
LEMMA ChainLeast ==
  ASSUME NEW f \in Link, NEW c \in Chunk, NEW T, c \in T, Closed(f, T)
  PROVE  ChainOf(f, c) \subseteq T
  <1> DEFINE d == DownOf(f, c)
             S == {k \in 0 .. MaxChunks : d[k] \in T \cup {0}}
  <1>1. MaxChunks \in Nat
    BY MempoolAssumption
  <1>2. d[0] = c /\ \A k \in 0 .. MaxChunks - 1 : d[k + 1] = IF d[k] = 0 THEN 0 ELSE f[d[k]]
    BY DownSteps
  <1> HIDE DEF d
  <1>3. 0 \in S
    BY <1>1, <1>2
  <1>4. \A k \in 0 .. MaxChunks - 1 : k \in S => k + 1 \in S
    BY <1>1, <1>2 DEF Closed
  <1> HIDE DEF S
  <1>5. 0 .. MaxChunks \subseteq S
    BY <1>1, <1>3, <1>4, Induction
  <1>6. \A k \in 0 .. MaxChunks : d[k] \in T \cup {0}
    BY <1>5 DEF S
  <1> QED BY <1>6 DEF ChainOf, d

\* A chain holds the child of each of its chunks: there are no more than MaxChunks
\* chunks, so the walk has met all of them when it stops.
LEMMA ChainClosed ==
  ASSUME NEW f \in Link, NEW c \in Chunk
  PROVE  Closed(f, ChainOf(f, c))
  <1> DEFINE d == DownOf(f, c)
  <1>1. MaxChunks \in Nat
    BY MempoolAssumption
  <1>2. /\ d \in [0 .. MaxChunks -> Chunk \cup {0}]
        /\ d[0] = c
        /\ \A k \in 0 .. MaxChunks - 1 : d[k + 1] = IF d[k] = 0 THEN 0 ELSE f[d[k]]
    BY DownSteps
  <1>3. ChainOf(f, c) = {d[k] : k \in 0 .. MaxChunks} \ {0}
    BY DEF ChainOf
  <1> HIDE DEF d
  <1> SUFFICES ASSUME NEW k \in 0 .. MaxChunks, d[k] # 0, f[d[k]] # 0
               PROVE  f[d[k]] \in ChainOf(f, c)
    BY <1>3 DEF Closed
  <1>4. CASE k # MaxChunks
    <2>1. k \in 0 .. MaxChunks - 1 /\ k + 1 \in 0 .. MaxChunks
      BY <1>1, <1>4
    <2> QED BY <1>2, <1>3, <2>1
  <1>5. CASE k = MaxChunks
    <2>1. ASSUME NEW j \in 0 .. MaxChunks, d[j] = 0 PROVE FALSE
      <3> DEFINE S == {i \in 0 .. MaxChunks - j : d[j + i] = 0}
      <3>1. 0 \in S /\ MaxChunks - j \in Nat
        BY <1>1, <2>1
      <3>2. \A i \in 0 .. MaxChunks - j - 1 : i \in S => i + 1 \in S
        <4> TAKE i \in 0 .. MaxChunks - j - 1
        <4>1. j + i \in 0 .. MaxChunks - 1 /\ j + (i + 1) = (j + i) + 1 /\ i + 1 \in 0 .. MaxChunks - j
          BY <1>1
        <4> QED BY <1>2, <4>1
      <3> HIDE DEF S
      <3>3. MaxChunks - j \in S
        BY <3>1, <3>2, Induction
      <3>4. d[j + (MaxChunks - j)] = 0 /\ j + (MaxChunks - j) = MaxChunks
        BY <1>1, <3>3 DEF S
      <3> QED BY <1>5, <3>4
    <2>2. d \in [0 .. MaxChunks -> Chunk]
      BY <1>2, <2>1
    <2>3. \E x, y \in 0 .. MaxChunks : x # y /\ d[x] = d[y]
      <3>1. IsFiniteSet(0 .. MaxChunks) /\ Cardinality(0 .. MaxChunks) = MaxChunks + 1
        BY <1>1, FS_Interval
      <3>2. IsFiniteSet(Chunk) /\ Cardinality(Chunk) = MaxChunks
        BY <1>1, FS_Interval DEF Chunk
      <3>3. Cardinality(Chunk) < Cardinality(0 .. MaxChunks)
        BY <1>1, <3>1, <3>2
      <3> QED BY <2>2, <3>1, <3>2, <3>3, FS_PigeonHole, ZenonT(60)
    <2>4. PICK i \in 0 .. MaxChunks, j \in 0 .. MaxChunks : i < j /\ d[i] = d[j]
      <3>1. PICK x \in 0 .. MaxChunks, y \in 0 .. MaxChunks : x # y /\ d[x] = d[y]
        BY <2>3
      <3>2. CASE x < y
        BY <3>1, <3>2
      <3>3. CASE y < x
        BY <3>1, <3>3
      <3> QED BY <1>1, <3>1, <3>2, <3>3
    <2> DEFINE T == {d[m] : m \in 0 .. j - 1}
    <2>5. c \in T
      BY <1>1, <1>2, <2>4
    <2>6. Closed(f, T)
      <3>1. SUFFICES ASSUME NEW m \in 0 .. j - 1 PROVE f[d[m]] \in T
        BY DEF Closed
      <3>2. m \in 0 .. MaxChunks - 1 /\ f[d[m]] = d[m + 1]
        BY <1>1, <1>2, <2>1
      <3>3. CASE m + 1 = j
        BY <1>1, <2>4, <3>2, <3>3
      <3>4. CASE m + 1 # j
        BY <1>1, <2>4, <3>2, <3>4
      <3> QED BY <3>3, <3>4
    <2>7. PICK m \in 0 .. j - 1 : d[k] = d[m]
      <3>1. d[k] \in ChainOf(f, c)
        BY <1>3
      <3> HIDE DEF T
      <3>2. d[k] \in T
        BY <2>5, <2>6, <3>1, ChainLeast
      <3> QED BY <3>2 DEF T
    <2>8. m \in 0 .. MaxChunks - 1 /\ m + 1 \in 0 .. MaxChunks
      BY <1>1
    <2> QED BY <1>2, <1>3, <2>7, <2>8
  <1> QED BY <1>4, <1>5
--------------------------------------------------------------------------------
(* Chains, from here on only as the least closed sets.                        *)

\* No chunk has two parents; chunk c has none.
Sole(f) == \A x, y \in Chunk : f[x] = f[y] /\ f[x] # 0 => x = y
Root(f, c) == \A x \in Chunk : f[x] # c

\* Every chunk of a chain but the first has its parent in the chain.
LEMMA ChainParent ==
  ASSUME NEW f \in Link, NEW c \in Chunk, NEW x \in ChainOf(f, c), x # c
  PROVE  \E y \in ChainOf(f, c) : f[y] = x
  <1> SUFFICES ASSUME \A y \in ChainOf(f, c) : f[y] # x PROVE FALSE
    OBVIOUS
  <1> DEFINE T == ChainOf(f, c) \ {x}
  <1>1. c \in T
    BY ChainStart
  <1>2. Closed(f, T)
    BY ChainClosed DEF Closed
  <1> HIDE DEF T
  <1>3. ChainOf(f, c) \subseteq T
    BY <1>1, <1>2, ChainLeast
  <1> QED BY <1>3 DEF T

\* A chunk without a parent is on no other chain.
LEMMA RootOutside ==
  ASSUME NEW f \in Link, NEW c \in Chunk, NEW r \in Chunk, Root(f, r), r # c
  PROVE  r \notin ChainOf(f, c)
  BY ChainParent, ChainStart DEF Root

\* The chains of two chunks without a parent are apart.
LEMMA ChainsApart ==
  ASSUME NEW f \in Link, Sole(f), NEW p \in Chunk, NEW q \in Chunk,
         Root(f, p), Root(f, q), p # q
  PROVE  ChainOf(f, p) \cap ChainOf(f, q) = {}
  <1> DEFINE T == ChainOf(f, q) \ ChainOf(f, p)
  <1>1. q \in T
    BY ChainStart, RootOutside
  <1>2. Closed(f, T)
    <2> SUFFICES ASSUME NEW y \in T, f[y] # 0, f[y] \in ChainOf(f, p) PROVE FALSE
      BY ChainClosed DEF Closed
    <2>1. y \in Chunk
      BY ChainStart
    <2>2. f[y] # p
      BY <2>1 DEF Root
    <2>3. PICK z \in ChainOf(f, p) : f[z] = f[y]
      BY <2>2, ChainParent
    <2>4. z = y
      BY <2>1, <2>3, ChainStart DEF Sole
    <2> QED BY <2>4
  <1> HIDE DEF T
  <1>3. ChainOf(f, q) \subseteq T
    BY <1>1, <1>2, ChainLeast
  <1> QED BY <1>3 DEF T

\* The chain of a chunk on a chain is part of it.
LEMMA ChainBelow ==
  ASSUME NEW f \in Link, NEW c \in Chunk, NEW x \in ChainOf(f, c)
  PROVE  x \in Chunk /\ ChainOf(f, x) \subseteq ChainOf(f, c)
  BY ChainStart, ChainClosed, ChainLeast

\* A chain only depends on the children of its chunks.
LEMMA ChainSame ==
  ASSUME NEW f \in Link, NEW g \in Link, NEW c \in Chunk,
         \A x \in ChainOf(f, c) : g[x] = f[x]
  PROVE  ChainOf(g, c) = ChainOf(f, c)
  <1>1. ChainOf(g, c) \subseteq ChainOf(f, c)
    <2>1. Closed(g, ChainOf(f, c))
      BY ChainClosed DEF Closed
    <2> QED BY <2>1, ChainStart, ChainLeast
  <1>2. ChainOf(f, c) \subseteq ChainOf(g, c)
    <2>1. Closed(f, ChainOf(g, c))
      BY <1>1, ChainClosed DEF Closed
    <2> QED BY <2>1, ChainStart, ChainLeast
  <1> QED BY <1>1, <1>2

\* The chain below a chunk of a chain that starts without a parent ends.
LEMMA ChainEnds ==
  ASSUME NEW f \in Link, Sole(f), NEW r \in Chunk, Root(f, r), NEW c \in ChainOf(f, r)
  PROVE  \E x \in ChainOf(f, c) : f[x] = 0
  <1> SUFFICES ASSUME \A x \in ChainOf(f, c) : f[x] # 0 PROVE FALSE
    OBVIOUS
  <1> DEFINE T == ChainOf(f, c)
             h == [x \in T |-> f[x]]
             U == ChainOf(f, r) \ T
  <1>1. c \in Chunk /\ T \subseteq Chunk /\ c \in T
    BY ChainStart
  <1>2. h \in Injection(T, T)
    <2>1. h \in [T -> T]
      BY <1>1, ChainClosed DEF Closed
    <2>2. \A x, y \in T : h[x] = h[y] => x = y
      BY <1>1 DEF Sole
    <2> QED BY <2>1, <2>2 DEF Injection, IsInjective
  <1>3. IsFiniteSet(T)
    <2>1. IsFiniteSet(Chunk)
      BY MempoolAssumption, FS_Interval DEF Chunk
    <2> QED BY <1>1, <2>1, FS_Subset
  <1>4. h \in Surjection(T, T)
    BY <1>2, <1>3, FS_Injection
  <1>5. \A t \in T : \E s \in T : f[s] = t
    BY <1>4 DEF Surjection
  <1>6. r \in U
    BY <1>1, <1>5, ChainStart DEF Root
  <1>7. Closed(f, U)
    <2> SUFFICES ASSUME NEW y \in U, f[y] # 0, f[y] \in T PROVE FALSE
      BY ChainClosed DEF Closed
    <2>1. PICK s \in T : f[s] = f[y]
      BY <1>5
    <2>2. s = y
      BY <1>1, <2>1, ChainStart DEF Sole
    <2> QED BY <2>2
  <1> HIDE DEF U
  <1>8. ChainOf(f, r) \subseteq U
    BY <1>6, <1>7, ChainLeast
  <1> QED BY <1>1, <1>8 DEF U

\* What a new last link n below chunk c does to the chain c is on: the old chain
\* and n when c had no child; otherwise the part below c is lost.
LEMMA ChainGrows ==
  ASSUME NEW f \in Link, NEW r \in Chunk, NEW c \in ChainOf(f, r),
         NEW n \in Chunk, f[n] = 0, n # c
  PROVE  LET g == [f EXCEPT ![c] = n]
         IN  /\ n \in ChainOf(g, r)
             /\ ChainOf(g, r) \subseteq ChainOf(f, r) \cup {n}
             /\ f[c] = 0 => ChainOf(g, r) = ChainOf(f, r) \cup {n}
  <1> DEFINE g == [f EXCEPT ![c] = n]
  <1>1. c \in Chunk
    BY ChainStart
  <1>2. g \in Link /\ g[c] = n /\ \A x \in Chunk \ {c} : g[x] = f[x]
    BY <1>1 DEF Link
  <1> HIDE DEF g
  <1>3. ChainOf(g, r) \subseteq ChainOf(f, r) \cup {n}
    <2>1. Closed(g, ChainOf(f, r) \cup {n})
      BY <1>2, ChainClosed, ChainStart DEF Closed
    <2> QED BY <1>2, <2>1, ChainStart, ChainLeast
  <1>4. c \in ChainOf(g, r)
    <2> SUFFICES ASSUME c \notin ChainOf(g, r) PROVE FALSE
      OBVIOUS
    <2>1. \A x \in ChainOf(g, r) : f[x] = g[x]
      BY <1>2, ChainStart
    <2>2. ChainOf(f, r) = ChainOf(g, r)
      BY <1>2, <2>1, ChainSame
    <2> QED BY <2>2
  <1>5. n \in ChainOf(g, r)
    <2>1. n # 0
      BY DEF Chunk
    <2> QED BY <1>2, <1>4, <2>1, ChainClosed DEF Closed
  <1>6. ASSUME f[c] = 0 PROVE ChainOf(f, r) \subseteq ChainOf(g, r)
    <2>1. Closed(f, ChainOf(g, r))
      BY <1>2, <1>6, ChainClosed, ChainStart DEF Closed
    <2> QED BY <1>2, <2>1, ChainStart, ChainLeast
  <1> QED BY <1>3, <1>5, <1>6 DEF g

\* What a merge does to the chain of the pool that takes the other: chunk s, the
\* first of another chain, is put behind the first chunk.
LEMMA ChainMerges ==
  ASSUME NEW f \in Link, Sole(f), NEW r \in Chunk, NEW s \in Chunk, r # s,
         Root(f, r), Root(f, s)
  PROVE  ChainOf([f EXCEPT ![r] = s, ![s] = f[r]], r) = ChainOf(f, r) \cup {s}
  <1> DEFINE g == [f EXCEPT ![r] = s, ![s] = f[r]]
  <1>1. g \in Link /\ g[r] = s /\ g[s] = f[r] /\ \A x \in Chunk \ {r, s} : g[x] = f[x]
    BY DEF Link
  <1> HIDE DEF g
  <1>2. s \notin ChainOf(f, r)
    BY RootOutside
  <1>3. ChainOf(g, r) \subseteq ChainOf(f, r) \cup {s}
    <2>1. Closed(g, ChainOf(f, r) \cup {s})
      BY <1>1, <1>2, ChainClosed, ChainStart DEF Closed
    <2> QED BY <1>1, <2>1, ChainStart, ChainLeast
  <1>4. s \in ChainOf(g, r)
    <2>1. s # 0
      BY DEF Chunk
    <2> QED BY <1>1, <2>1, ChainClosed, ChainStart DEF Closed
  <1>5. ChainOf(f, r) \subseteq ChainOf(g, r) \ {s}
    <2> DEFINE T == ChainOf(g, r) \ {s}
    <2>1. r \in T
      BY <1>1, ChainStart
    <2>2. Closed(f, T)
      <3> SUFFICES ASSUME NEW x \in T, f[x] # 0 PROVE f[x] \in T
        BY DEF Closed
      <3>1. x \in Chunk /\ f[x] # s
        BY <1>1, ChainStart DEF Root
      <3>2. CASE x = r
        BY <1>1, <1>4, <3>1, <3>2, ChainClosed DEF Closed
      <3>3. CASE x # r
        BY <1>1, <3>1, <3>3, ChainClosed DEF Closed
      <3> QED BY <3>2, <3>3
    <2> HIDE DEF T
    <2>3. ChainOf(f, r) \subseteq T
      BY <2>1, <2>2, ChainLeast
    <2> QED BY <2>3 DEF T
  <1> QED BY <1>3, <1>4, <1>5 DEF g
--------------------------------------------------------------------------------
(* Types.                                                                     *)

LEMMA MaxOfTwo ==
  ASSUME NEW a \in Nat, NEW b \in Nat
  PROVE  Max({a, b}) \in {a, b} /\ Max({a, b}) >= a /\ Max({a, b}) >= b
  <1>1. \E x \in {a, b} : \A y \in {a, b} : x >= y
    <2>1. CASE a >= b
      BY <2>1
    <2>2. CASE b >= a
      BY <2>2
    <2> QED BY <2>1, <2>2
  <1>2. Max({a, b}) \in {a, b} /\ \A y \in {a, b} : Max({a, b}) >= y
    BY <1>1 DEF Max
  <1> QED BY <1>2

\* A chunk made for a request has room for it.
LEMMA ChunkSizeFits ==
  ASSUME TypeOK, NEW p \in Pool, NEW n \in Nat
  PROVE  ChunkSize(p, n) \in Nat /\ ChunkSize(p, n) >= n
  <1> DEFINE x == IF p \in Autosize \/ n > size[p] THEN n ELSE size[p]
             y == Max({MinSize, x})
  <1>1. p \in Chunk
    BY MempoolAssumption, FS_CardinalityType DEF Chunk
  <1>2. x \in Nat /\ x >= n
    BY <1>1 DEF TypeOK
  <1>3. MinSize \in Nat /\ AlignSize \in Nat \ {0}
    BY MempoolAssumption
  <1>4. ChunkSize(p, n) = Align(y, AlignSize)
    BY DEF ChunkSize
  <1> HIDE DEF x
  <1>5. y \in Nat /\ y >= n
    BY <1>2, <1>3, MaxOfTwo
  <1> HIDE DEF y
  <1>6. Align(y, AlignSize) \in Nat /\ Align(y, AlignSize) >= y
    BY <1>3, <1>5, AlignUp
  <1> QED BY <1>2, <1>4, <1>5, <1>6

\* A rounded request is a size again.
LEMMA Rounded ==
  ASSUME TypeOK, NEW p \in Pool, NEW want \in Nat
  PROVE  Align(want, alignment[p]) \in Nat /\ Align(want, alignment[p]) >= want
  BY AlignUp DEF TypeOK

BlockType == [pool : Pool, chunk : Chunk, off : Nat, len : Nat, size : Nat,
              kind : {"d", "n"}]

LEMMA PoolChunks == Pool \subseteq Chunk /\ MaxChunks \in Nat
  BY MempoolAssumption, FS_CardinalityType DEF Chunk

\* What an allocation gives is a block, of bytes of its chunk.
LEMMA BlockTyped ==
  ASSUME NEW p \in Pool, NEW c \in Chunk, NEW off \in Nat, NEW n \in Nat,
         NEW want \in Nat, NEW kind \in {"d", "n"}
  PROVE  /\ Block(p, c, off, n, want, kind) \in BlockType
         /\ Bytes(Block(p, c, off, n, want, kind)) = {<<c, i>> : i \in off .. off + n - 1}
         /\ Bytes(Block(p, c, off, n, want, kind)) \subseteq Chunk \X Nat
  <1>1. Block(p, c, off, n, want, kind) \in BlockType
    BY DEF Block, BlockType
  <1>2. Bytes(Block(p, c, off, n, want, kind)) = {<<c, i>> : i \in off .. off + n - 1}
    BY DEF Block, Bytes
  <1> QED BY <1>1, <1>2
LEMMA TypeInit == Init => TypeOK
  <1> SUFFICES ASSUME Init PROVE TypeOK
    OBVIOUS
  <1>1. Cardinality(Pool) \in 0 .. MaxChunks /\ Pool \subseteq 1 .. Cardinality(Pool)
    BY MempoolAssumption, FS_CardinalityType
  <1>2. Size \in Nat /\ AlignSize \in Nat \ {0}
    BY MempoolAssumption
  <1> QED BY <1>1, <1>2, PoolChunks DEF Init, TypeOK

\* The part of the type invariant that is about chunks holds when one is made.
ChunkTypes ==
  /\ size \in [Chunk -> Nat]
  /\ pos \in [Chunk -> Nat]
  /\ end \in [Chunk -> Nat]
  /\ \A c \in Chunk : end[c] <= size[c] /\ (pos[c] <= end[c] \/ c \in Dynamic)
  /\ child \in [Chunk -> Chunk \cup {0}]
  /\ made \in 0 .. MaxChunks
  /\ mem \subseteq 1 .. made
  /\ current \in [Pool -> Chunk]

LEMMA GrowMade ==
  ASSUME TypeOK, NEW p, NEW c, NEW n, NEW back, Grow(p, c, n, back)
  PROVE  /\ made \in Nat /\ made' = made + 1 /\ made + 1 \in Chunk /\ p \in Dynamic
         /\ mem' = mem \cup {made + 1}
         /\ size' = [size EXCEPT ![made + 1] = ChunkSize(p, n)]
         /\ end' = [end EXCEPT ![made + 1] = ChunkSize(p, n) - back]
         /\ child' = [child EXCEPT ![c] = made + 1]
         /\ current' = [current EXCEPT ![p] = made + 1]
  <1>1. made \in Nat /\ made' = made + 1 /\ made + 1 \in Chunk
    BY PoolChunks DEF Grow, TypeOK, Chunk
  <1> QED BY <1>1 DEF Grow

LEMMA GrowTyped ==
  ASSUME TypeOK, NEW p \in Pool, NEW c, NEW n \in Nat, NEW back \in 0 .. n,
         Grow(p, c, n, back), pos' \in [Chunk -> Nat],
         pos'[made + 1] + back <= n \/ made + 1 \in Dynamic,
         \A x \in Chunk \ {made + 1} : pos'[x] <= end[x] \/ x \in Dynamic
  PROVE  ChunkTypes'
  <1> DEFINE s == ChunkSize(p, n)
  <1>1. s \in Nat /\ s >= n
    BY ChunkSizeFits
  <1>2. made' = made + 1 /\ made + 1 \in Chunk /\ made' \in 0 .. MaxChunks
    BY GrowMade, PoolChunks DEF Chunk
  <1>3. /\ size' = [size EXCEPT ![made + 1] = s]
        /\ end' = [end EXCEPT ![made + 1] = s - back]
        /\ child' = [child EXCEPT ![c] = made + 1]
        /\ current' = [current EXCEPT ![p] = made + 1]
        /\ mem' = mem \cup {made + 1}
    BY GrowMade
  <1> HIDE DEF s
  <1>4. size' \in [Chunk -> Nat] /\ end' \in [Chunk -> Nat]
    BY <1>1, <1>2, <1>3 DEF TypeOK
  <1>5. ASSUME NEW x \in Chunk
        PROVE  end'[x] <= size'[x] /\ (pos'[x] <= end'[x] \/ x \in Dynamic)
    <2>1. CASE x = made + 1
      BY <1>1, <1>2, <1>3, <2>1 DEF TypeOK
    <2>2. CASE x # made + 1
      BY <1>3, <2>2 DEF TypeOK
    <2> QED BY <2>1, <2>2
  <1>6. child' \in [Chunk -> Chunk \cup {0}] /\ current' \in [Pool -> Chunk]
    BY <1>2, <1>3 DEF TypeOK
  <1>7. mem' \subseteq 1 .. made'
    BY <1>2, <1>3 DEF TypeOK
  <1> QED BY <1>2, <1>4, <1>5, <1>6, <1>7 DEF ChunkTypes

LEMMA DallocFitsTyped ==
  ASSUME TypeOK, NEW p \in Pool, NEW want \in Request, DallocFits(p, want)
  PROVE  TypeOK'
  <1> DEFINE n == Align(want, alignment[p])
  <1>1. want \in Nat /\ n \in Nat
    BY MempoolAssumption, Rounded
  <1>2. PICK c \in Chunk : /\ FirstFit(p, n, c)
                           /\ Give(Block(p, c, pos[c], n, want, "d"))
                           /\ pos' = [pos EXCEPT ![c] = @ + n]
                           /\ current' = [current EXCEPT ![p] = c]
    BY DEF DallocFits
  <1>3. UNCHANGED <<size, end, child, made, mem, alignment, handle, ghosts>>
    BY DEF DallocFits
  <1> HIDE DEF n
  <1> DEFINE b == Block(p, c, pos[c], n, want, "d")
  <1>4. pos[c] \in Nat
    BY DEF TypeOK
  <1>5. b \in BlockType /\ Bytes(b) \subseteq Chunk \X Nat
    BY <1>1, <1>4, BlockTyped
  <1>6. blocks' = blocks \cup {b} /\ dirty' = dirty \cup Bytes(b)
    BY <1>2 DEF Give
  <1> HIDE DEF b
  <1>7. blocks' \subseteq BlockType /\ dirty' \subseteq Chunk \X Nat
    BY <1>5, <1>6 DEF TypeOK, BlockType
  <1>8. pos[c] + n <= end[c]
    BY <1>2 DEF FirstFit, Fits
  <1>9. /\ pos' \in [Chunk -> Nat]
        /\ \A x \in Chunk : end'[x] <= size'[x] /\ (pos'[x] <= end'[x] \/ x \in Dynamic)
    BY <1>1, <1>2, <1>3, <1>8 DEF TypeOK
  <1> QED BY <1>2, <1>3, <1>7, <1>9 DEF TypeOK, ghosts, BlockType

LEMMA NallocFitsTyped ==
  ASSUME TypeOK, NEW p \in Pool, NEW want \in Request, NallocFits(p, want)
  PROVE  TypeOK'
  <1> DEFINE n == Align(want, alignment[p])
             c == current[p]
             b == Block(p, c, end[c] - n, n, want, "n")
  <1>1. want \in Nat /\ n \in Nat
    BY MempoolAssumption, Rounded
  <1>2. /\ pos[c] + n <= end[c]
        /\ blocks' = blocks \cup {b} /\ dirty' = dirty \cup Bytes(b)
        /\ end' = [end EXCEPT ![c] = @ - n]
        /\ UNCHANGED <<size, pos, child, made, mem, current, alignment, handle, ghosts>>
    BY DEF NallocFits, Fits, Give
  <1> HIDE DEF n
  <1>3. c \in Chunk
    BY DEF TypeOK
  <1> HIDE DEF c
  <1>4. end[c] - n \in Nat /\ end[c] - n >= pos[c] /\ end[c] - n <= size[c]
    BY <1>1, <1>2, <1>3 DEF TypeOK
  <1>5. b \in BlockType /\ Bytes(b) \subseteq Chunk \X Nat
    BY <1>1, <1>3, <1>4, BlockTyped
  <1> HIDE DEF b
  <1>6. blocks' \subseteq BlockType /\ dirty' \subseteq Chunk \X Nat
    BY <1>2, <1>5 DEF TypeOK, BlockType
  <1>7. /\ end' \in [Chunk -> Nat]
        /\ \A x \in Chunk : end'[x] <= size'[x] /\ (pos'[x] <= end'[x] \/ x \in Dynamic)
    BY <1>2, <1>3, <1>4 DEF TypeOK
  <1> QED BY <1>2, <1>6, <1>7 DEF TypeOK, ghosts, BlockType

LEMMA DallocGrowsTyped ==
  ASSUME TypeOK, NEW p \in Pool, NEW want \in Request, DallocGrows(p, want)
  PROVE  TypeOK'
  <1> DEFINE n == Align(want, alignment[p])
             b == Block(p, made + 1, 0, n, want, "d")
  <1>1. want \in Nat /\ n \in Nat
    BY MempoolAssumption, Rounded
  <1>2. /\ Grow(p, Last(p), n, 0)
        /\ pos' = [pos EXCEPT ![made'] = n]
        /\ blocks' = blocks \cup {b} /\ dirty' = dirty \cup Bytes(b)
        /\ UNCHANGED <<alignment, handle, ghosts>>
    BY DEF DallocGrows, Give
  <1> HIDE DEF n
  <1>3. made' = made + 1 /\ made + 1 \in Chunk
    BY <1>2, GrowMade
  <1>4. b \in BlockType /\ Bytes(b) \subseteq Chunk \X Nat
    BY <1>1, <1>3, BlockTyped
  <1> HIDE DEF b
  <1>5. blocks' \subseteq BlockType /\ dirty' \subseteq Chunk \X Nat
    BY <1>2, <1>4 DEF TypeOK, BlockType
  <1>6. ChunkTypes'
    <2>1. /\ pos' \in [Chunk -> Nat] /\ pos'[made + 1] = n
          /\ \A x \in Chunk \ {made + 1} : pos'[x] = pos[x]
      BY <1>1, <1>2, <1>3 DEF TypeOK
    <2>2. \A x \in Chunk \ {made + 1} : pos'[x] <= end[x] \/ x \in Dynamic
      BY <2>1 DEF TypeOK
    <2>3. pos'[made + 1] + 0 <= n /\ 0 \in 0 .. n
      BY <1>1, <2>1
    <2> QED BY <1>1, <1>2, <2>1, <2>2, <2>3, GrowTyped
  <1> QED BY <1>2, <1>5, <1>6 DEF TypeOK, ChunkTypes, ghosts, BlockType

LEMMA NallocGrowsTyped ==
  ASSUME TypeOK, NEW p \in Pool, NEW want \in Request, NallocGrows(p, want)
  PROVE  TypeOK'
  <1> DEFINE n == Align(want, alignment[p])
             s == ChunkSize(p, n)
             b == Block(p, made + 1, s - n, n, want, "n")
  <1>1. want \in Nat /\ n \in Nat
    BY MempoolAssumption, Rounded
  <1>2. /\ Grow(p, current[p], n, n)
        /\ pos' = [pos EXCEPT ![made'] = 0]
        /\ blocks' = blocks \cup {b} /\ dirty' = dirty \cup Bytes(b)
        /\ dropped' \subseteq dropped \cup {p}
        /\ UNCHANGED <<alignment, handle, stale, mixed, torn, outside>>
    BY DEF NallocGrows, Give, Dropping
  <1> HIDE DEF n
  <1>7. made' = made + 1 /\ made + 1 \in Chunk
    BY <1>2, GrowMade
  <1>3. ChunkTypes'
    <2>1. /\ pos' \in [Chunk -> Nat] /\ pos'[made + 1] = 0
          /\ \A x \in Chunk \ {made + 1} : pos'[x] = pos[x]
      BY <1>2, <1>7 DEF TypeOK
    <2>2. \A x \in Chunk \ {made + 1} : pos'[x] <= end[x] \/ x \in Dynamic
      BY <2>1 DEF TypeOK
    <2>3. pos'[made + 1] + n <= n /\ n \in 0 .. n
      BY <1>1, <2>1
    <2> QED BY <1>1, <1>2, <2>1, <2>2, <2>3, GrowTyped
  <1>6. s \in Nat /\ s - n \in Nat
    BY <1>1, ChunkSizeFits
  <1> HIDE DEF s
  <1>4. b \in BlockType /\ Bytes(b) \subseteq Chunk \X Nat
    BY <1>1, <1>6, <1>7, BlockTyped
  <1> HIDE DEF b
  <1>5. blocks' \subseteq BlockType /\ dirty' \subseteq Chunk \X Nat
    BY <1>2, <1>4 DEF TypeOK, BlockType
  <1> QED BY <1>2, <1>3, <1>5 DEF TypeOK, ChunkTypes, BlockType

\* A block a pool holds, and its size as the code rounds it today.
LEMMA OldSizeTyped ==
  ASSUME TypeOK, NEW b \in blocks
  PROVE  b \in BlockType /\ b.pool \in Pool /\ b.pool \in Chunk /\ OldSize(b) \in Nat
  <1>1. b \in BlockType
    BY DEF TypeOK, BlockType
  <1>2. b.pool \in Pool /\ b.size \in Nat
    BY <1>1 DEF BlockType
  <1> QED BY <1>1, <1>2, Rounded, PoolChunks DEF OldSize

LEMMA RallocInPlaceTyped ==
  ASSUME TypeOK, NEW b \in blocks, NEW want \in Request, RallocInPlace(b, want)
  PROVE  TypeOK'
  <1> DEFINE p == b.pool
             old == OldSize(b)
             n == Align(want, alignment[p])
             c == [b EXCEPT !.len = n, !.size = want]
             E == {<<p, i>> : i \in pos'[p] .. pos[p] - 1}
  <1>1. b \in BlockType /\ p \in Pool /\ p \in Chunk /\ old \in Nat
    BY OldSizeTyped
  <1>2. want \in Nat /\ n \in Nat
    BY <1>1, MempoolAssumption, Rounded
  <1>3. /\ pos[p] >= old
        /\ pos[p] + n - old <= end[p]
        /\ pos' = [pos EXCEPT ![p] = @ + n - old]
        /\ blocks' = (blocks \ {b}) \cup {c}
        /\ dirty' = (dirty \ E) \cup Bytes(c)
        /\ mixed' \subseteq mixed \cup {p}
        /\ UNCHANGED <<size, end, child, made, mem, current, alignment, handle,
                       stale, dropped, torn, outside>>
    BY DEF RallocInPlace, Realloc, IsLast
  <1> HIDE DEF n, old, E
  <1>4. c \in BlockType
    BY <1>1, <1>2 DEF BlockType
  <1>5. Bytes(c) \subseteq Chunk \X Nat
    <2> HIDE DEF c
    <2> QED BY <1>4 DEF Bytes, BlockType
  <1> HIDE DEF c, p
  <1>6. blocks' \subseteq BlockType /\ dirty' \subseteq Chunk \X Nat
    BY <1>3, <1>4, <1>5 DEF TypeOK, BlockType
  <1>7. pos[p] + n - old \in Nat
    BY <1>1, <1>2, <1>3 DEF TypeOK
  <1>8. /\ pos' \in [Chunk -> Nat]
        /\ \A x \in Chunk : end'[x] <= size'[x] /\ (pos'[x] <= end'[x] \/ x \in Dynamic)
    BY <1>1, <1>3, <1>7 DEF TypeOK
  <1> QED BY <1>1, <1>3, <1>6, <1>8 DEF TypeOK, BlockType

LEMMA RallocKeepsTyped ==
  ASSUME TypeOK, NEW b \in blocks, NEW want \in Request, RallocKeeps(b, want)
  PROVE  TypeOK'
  <1> DEFINE c == [b EXCEPT !.size = want]
  <1>1. b \in BlockType /\ b.pool \in Pool
    BY OldSizeTyped
  <1>2. want \in Nat
    BY MempoolAssumption
  <1>3. /\ blocks' = (blocks \ {b}) \cup {c}
        /\ mixed' \subseteq mixed \cup {b.pool}
        /\ UNCHANGED <<chunks, current, alignment, handle, dirty, stale, dropped, torn, outside>>
    BY DEF RallocKeeps, Realloc
  <1>4. c \in BlockType
    BY <1>1, <1>2 DEF BlockType
  <1> HIDE DEF c
  <1> QED BY <1>1, <1>3, <1>4 DEF TypeOK, chunks, BlockType

LEMMA RallocMovesTyped ==
  ASSUME TypeOK, NEW b \in blocks, NEW want \in Request, RallocMoves(b, want)
  PROVE  TypeOK'
  <1> DEFINE p == b.pool
             n == Align(want, alignment[p])
             c == Block(p, p, pos[p], n, want, "d")
  <1>1. b \in BlockType /\ p \in Pool /\ p \in Chunk
    BY OldSizeTyped
  <1>2. want \in Nat /\ n \in Nat
    BY <1>1, MempoolAssumption, Rounded
  <1>3. /\ pos[p] + n <= end[p]
        /\ pos' = [pos EXCEPT ![p] = @ + n]
        /\ blocks' = (blocks \ {b}) \cup {c}
        /\ dirty' = dirty \cup Bytes(c)
        /\ mixed' \subseteq mixed \cup {p}
        /\ UNCHANGED <<size, end, child, made, mem, current, alignment, handle,
                       stale, dropped, torn, outside>>
    BY DEF RallocMoves, Realloc, Fits
  <1> HIDE DEF n, p
  <1>4. pos[p] \in Nat
    BY <1>1 DEF TypeOK
  <1>5. c \in BlockType /\ Bytes(c) \subseteq Chunk \X Nat
    BY <1>1, <1>2, <1>4, BlockTyped
  <1> HIDE DEF c
  <1>6. blocks' \subseteq BlockType /\ dirty' \subseteq Chunk \X Nat
    BY <1>3, <1>5 DEF TypeOK, BlockType
  <1>7. /\ pos' \in [Chunk -> Nat]
        /\ \A x \in Chunk : end'[x] <= size'[x] /\ (pos'[x] <= end'[x] \/ x \in Dynamic)
    BY <1>1, <1>2, <1>3 DEF TypeOK
  <1> QED BY <1>1, <1>3, <1>6, <1>7 DEF TypeOK, BlockType

LEMMA RallocSpillsTyped ==
  ASSUME TypeOK, NEW b \in blocks, NEW want \in Request, RallocSpills(b, want)
  PROVE  TypeOK'
  <1> DEFINE p == b.pool
             old == OldSize(b)
             n == Align(want, alignment[p])
             c == Block(p, p, pos[p], n, want, "d")
             E == {<<p, i>> : i \in pos[p] .. pos[p] + old - 1}
  <1>1. p \in Pool /\ p \in Chunk /\ old \in Nat
    BY OldSizeTyped
  <1>2. want \in Nat /\ n \in Nat
    BY <1>1, MempoolAssumption, Rounded
  <1>3. /\ Grow(p, current[p], n, 0)
        /\ pos' = [pos EXCEPT ![made'] = 0, ![p] = @ + n]
        /\ blocks' = (blocks \ {b}) \cup {c}
        /\ dirty' = dirty \cup Bytes(c) \cup E
        /\ outside' \in {"yes", outside}
        /\ dropped' \subseteq dropped \cup {p}
        /\ mixed' \subseteq mixed \cup {p}
        /\ UNCHANGED <<alignment, handle, stale, torn>>
    BY DEF RallocSpills, Realloc, Dropping
  <1> HIDE DEF n, old, p
  <1>4. pos[p] \in Nat
    BY <1>1 DEF TypeOK
  <1>5. c \in BlockType /\ Bytes(c) \subseteq Chunk \X Nat
    BY <1>1, <1>2, <1>4, BlockTyped
  <1>6. E \subseteq Chunk \X Nat
    BY <1>1, <1>4
  <1> HIDE DEF c, E
  <1>7. blocks' \subseteq BlockType /\ dirty' \subseteq Chunk \X Nat
    BY <1>3, <1>5, <1>6 DEF TypeOK, BlockType
  <1>8. made' = made + 1 /\ made + 1 \in Chunk /\ p \in Dynamic
    BY <1>3, GrowMade
  <1>9. ChunkTypes'
    <2>1. /\ pos' \in [Chunk -> Nat]
          /\ \A x \in Chunk \ {made + 1, p} : pos'[x] = pos[x]
          /\ p # made + 1 => pos'[made + 1] = 0
      BY <1>1, <1>2, <1>3, <1>4, <1>8 DEF TypeOK
    <2>2. \A x \in Chunk \ {made + 1} : pos'[x] <= end[x] \/ x \in Dynamic
      BY <1>8, <2>1 DEF TypeOK
    <2>3. (pos'[made + 1] + 0 <= n \/ made + 1 \in Dynamic) /\ 0 \in 0 .. n
      BY <1>2, <1>8, <2>1
    <2> QED BY <1>1, <1>2, <1>3, <2>1, <2>2, <2>3, GrowTyped
  <1> QED BY <1>1, <1>3, <1>7, <1>9 DEF TypeOK, ChunkTypes, BlockType

LEMMA WriteTyped ==
  ASSUME TypeOK, NEW b \in blocks, Write(b)
  PROVE  TypeOK'
  <1>1. b \in BlockType
    BY OldSizeTyped
  <1>2. Bytes(b) \subseteq Chunk \X Nat
    BY <1>1 DEF Bytes, BlockType
  <1> QED BY <1>2 DEF Write, TypeOK, chunks, ghosts

LEMMA MergeTyped ==
  ASSUME TypeOK, NEW dest \in Pool, NEW src \in Pool, Merge(dest, src)
  PROVE  TypeOK'
  <1>1. dest \in Chunk /\ src \in Chunk
    BY PoolChunks
  <1>2. /\ child' = [child EXCEPT ![dest] = src, ![src] = child[dest]]
        /\ handle' \subseteq handle
        /\ blocks' = {IF b.pool = src THEN [b EXCEPT !.pool = dest] ELSE b : b \in blocks}
        /\ dropped' \subseteq dropped \cup {dest}
        /\ stale' \subseteq stale \cup {dest}
        /\ mixed' \subseteq mixed \cup {dest}
        /\ UNCHANGED <<size, pos, end, made, mem, current, alignment, dirty, torn, outside>>
    BY DEF Merge
  <1>3. child' \in [Chunk -> Chunk \cup {0}]
    BY <1>1, <1>2 DEF TypeOK
  <1>4. blocks' \subseteq BlockType
    <2>1. ASSUME NEW b \in blocks PROVE [b EXCEPT !.pool = dest] \in BlockType /\ b \in BlockType
      BY DEF TypeOK, BlockType
    <2> QED BY <1>2, <2>1
  <1> QED BY <1>2, <1>3, <1>4 DEF TypeOK, BlockType

\* Rewinding keeps positions in their chunks.
LEMMA RewindTyped ==
  ASSUME TypeOK, NEW S, Rewind(S), UNCHANGED <<size, end>>
  PROVE  /\ pos' \in [Chunk -> Nat]
         /\ \A c \in Chunk : end'[c] <= size'[c] /\ (pos'[c] <= end'[c] \/ c \in Dynamic)
  <1>1. \A c \in Chunk : pos'[c] = 0 \/ pos'[c] = pos[c]
    BY DEF Rewind
  <1>2. pos' \in [Chunk -> Nat]
    BY DEF Rewind, TypeOK
  <1> QED BY <1>1, <1>2 DEF TypeOK

LEMMA TypeStep == TypeOK /\ [Next]_vars => TypeOK'
  <1> SUFFICES ASSUME TypeOK, [Next]_vars PROVE TypeOK'
    OBVIOUS
  <1>1. ASSUME NEW p \in Pool, NEW n \in Request,
               DallocFits(p, n) \/ DallocGrows(p, n) \/ NallocFits(p, n) \/ NallocGrows(p, n)
        PROVE  TypeOK'
    BY <1>1, DallocFitsTyped, DallocGrowsTyped, NallocFitsTyped, NallocGrowsTyped
  <1>2. ASSUME NEW b \in blocks, NEW n \in Request,
               RallocInPlace(b, n) \/ RallocKeeps(b, n) \/ RallocMoves(b, n) \/ RallocSpills(b, n)
        PROVE  TypeOK'
    BY <1>2, RallocInPlaceTyped, RallocKeepsTyped, RallocMovesTyped, RallocSpillsTyped
  <1>3. ASSUME NEW p \in Pool, NEW a \in Alignment, SetAlignment(p, a) PROVE TypeOK'
    <2>1. a \in Nat \ {0}
      BY MempoolAssumption
    <2> QED BY <1>3, <2>1 DEF SetAlignment, TypeOK, chunks, ghosts
  <1>4. ASSUME NEW p \in Pool, NEW q \in Pool, Merge(p, q) PROVE TypeOK'
    BY <1>4, MergeTyped
  <1>5. ASSUME NEW p \in Pool, Reset(p) \/ Clear(p) PROVE TypeOK'
    <2>1. Rewind(Chain(p)) /\ GiveBack(p) /\ UNCHANGED <<size, end>>
      BY <1>5 DEF Reset, Clear
    <2>2. /\ pos' \in [Chunk -> Nat]
          /\ \A c \in Chunk : end'[c] <= size'[c] /\ (pos'[c] <= end'[c] \/ c \in Dynamic)
          /\ blocks' \subseteq blocks
      BY <2>1, RewindTyped DEF GiveBack
    <2>3. CASE Reset(p)
      BY <2>2, <2>3, PoolChunks DEF Reset, TypeOK
    <2>4. CASE Clear(p)
      BY <2>2, <2>4, PoolChunks DEF Clear, TypeOK
    <2> QED BY <1>5, <2>3, <2>4
  <1>6. ASSUME NEW p \in Pool, Free(p) PROVE TypeOK'
    BY <1>6 DEF Free, TypeOK, ghosts
  <1>7. ASSUME NEW p \in Pool, NEW n \in 0 .. 1, Shrink(p, n) PROVE TypeOK'
    <2>1. /\ mem' \subseteq mem
          /\ \E S : Rewind(S)
          /\ stale' \subseteq stale \cup {p} /\ mixed' \subseteq mixed \cup {p}
          /\ torn' \subseteq torn \cup {p} /\ outside' \in {"yes", outside}
          /\ UNCHANGED <<size, end, child, made, current, alignment, handle, blocks, dirty,
                         dropped>>
      BY <1>7 DEF Shrink
    <2>2. /\ pos' \in [Chunk -> Nat]
          /\ \A c \in Chunk : end'[c] <= size'[c] /\ (pos'[c] <= end'[c] \/ c \in Dynamic)
      BY <2>1, RewindTyped
    <2> QED BY <2>1, <2>2 DEF TypeOK
  <1>8. CASE UNCHANGED vars
    BY <1>8 DEF TypeOK, vars, chunks, ghosts
  <1>9. ASSUME NEW b \in blocks, Write(b) PROVE TypeOK'
    BY <1>9, WriteTyped
  <1> QED BY <1>1, <1>2, <1>3, <1>4, <1>5, <1>6, <1>7, <1>8, <1>9 DEF Next

\* The types hold, what was taken from the back of a chunk is in it, and the front of a
\* chunk passes its back only in the first chunk of a dynamic pool, whatever is
\* allocated, resized, merged, rewound, shrunk and given back.
THEOREM TypeCorrect == Spec => []TypeOK
  BY TypeInit, TypeStep, PTL DEF Spec
--------------------------------------------------------------------------------
(* The chunks of the pools: ChunkInv is inductive.                            *)

\* ChunksHeld for any state of the variables it is about.
Held(f, cur, m, h, w, d) ==
  /\ \A p \in h \ w :
       /\ ChainOf(f, p) \subseteq m
       /\ cur[p] \in ChainOf(f, p)
       /\ \A q \in h \ {p} : ChainOf(f, p) \cap ChainOf(f, q) = {}
  /\ d \cup w = {} => m = UNION {ChainOf(f, p) : p \in h}

\* The child pointers among the first n chunks: a chunk has one parent, the first
\* chunk of a pool has none, and chunks that are not made yet are not linked.
Links(f, n, h) ==
  /\ Sole(f)
  /\ \A p \in h : Root(f, p)
  /\ \A c \in Chunk : f[c] <= n /\ (c > n => f[c] = 0)

ChunkInv ==
  /\ Links(child, made, handle)
  /\ Pool \subseteq 1 .. made
  /\ Held(child, current, mem, handle, torn, dropped)

LEMMA HeldNow == ChunksHeld <=> Held(child, current, mem, handle, torn, dropped)
  BY DEF ChunksHeld, Held, Chain, ChainOf, Down, DownOf

LEMMA ChainNow == ASSUME NEW c PROVE Chain(c) = ChainOf(child, c)
  BY DEF Chain, ChainOf, Down, DownOf

\* Nothing but current moves, and it stays on its chain.
LEMMA ChunkStill ==
  ASSUME ChunkInv, UNCHANGED <<child, made, mem, handle, torn, dropped>>,
         \A p \in handle \ torn : current'[p] = current[p] \/ current'[p] \in ChainOf(child, p)
  PROVE  ChunkInv'
  BY DEF ChunkInv, Held

\* What ChunkInv says of the pools in use.
LEMMA ChunkFacts ==
  ASSUME TypeOK, ChunkInv
  PROVE  /\ child \in Link
         /\ \A p \in handle : p \in Chunk /\ p \in Pool /\ p \in ChainOf(child, p)
         /\ \A p \in handle \ torn : ChainOf(child, p) \subseteq mem
         /\ \A p \in handle \ torn : current[p] \in ChainOf(child, p)
         /\ \A p, q \in handle \ torn : p # q => ChainOf(child, p) \cap ChainOf(child, q) = {}
         /\ mem \subseteq 1 .. made /\ mem \subseteq Chunk /\ made \in Nat /\ made + 1 \notin mem
  <1>1. child \in Link /\ \A p \in handle : p \in Chunk /\ p \in Pool
    BY PoolChunks DEF TypeOK, Link
  <1>2. mem \subseteq 1 .. made /\ mem \subseteq Chunk /\ made \in Nat /\ made + 1 \notin mem
    BY PoolChunks DEF TypeOK, Chunk
  <1> QED BY <1>1, <1>2, ChainStart DEF ChunkInv, Held

\* What making a chunk does to the chains of the pools in use.
LEMMA GrowChains ==
  ASSUME TypeOK, ChunkInv, NEW p \in handle \ torn, NEW c \in ChainOf(child, p),
         NEW n, NEW back, Grow(p, c, n, back)
  PROVE  /\ made + 1 \in Chunk
         /\ made + 1 \in ChainOf(child', p)
         /\ ChainOf(child', p) \subseteq ChainOf(child, p) \cup {made + 1}
         /\ child[c] = 0 => ChainOf(child', p) = ChainOf(child, p) \cup {made + 1}
         /\ \A q \in handle \ {p} : /\ ChainOf(child', q) = ChainOf(child, q)
                                  /\ made + 1 \notin ChainOf(child, q)
  <1> DEFINE x == made + 1
  <1>1. /\ p \in Chunk /\ handle \subseteq Chunk /\ child \in Link
        /\ ChainOf(child, p) \subseteq 1 .. made
    BY ChunkFacts
  <1>2. c \in Chunk /\ c # x
    BY <1>1, ChunkFacts, ChainStart
  <1>3. x \in Chunk /\ child' = [child EXCEPT ![c] = x]
    BY GrowMade
  <1>4. child[x] = 0
    BY <1>3, ChunkFacts DEF ChunkInv, Links, Chunk
  <1>5. /\ x \in ChainOf(child', p) /\ ChainOf(child', p) \subseteq ChainOf(child, p) \cup {x}
        /\ child[c] = 0 => ChainOf(child', p) = ChainOf(child, p) \cup {x}
    BY <1>1, <1>2, <1>3, <1>4, ChainGrows
  <1>6. child' \in Link /\ \A y \in Chunk \ {c} : child'[y] = child[y]
    BY <1>1, <1>2, <1>3 DEF Link
  <1>7. ASSUME NEW q \in handle \ {p}
        PROVE  ChainOf(child', q) = ChainOf(child, q) /\ x \notin ChainOf(child, q)
    <2>1. q \in Chunk /\ c \notin ChainOf(child, q)
      BY <1>1 DEF ChunkInv, Held
    <2>2. \A y \in ChainOf(child, q) : child'[y] = child[y]
      BY <1>1, <1>6, <2>1, ChainStart
    <2>3. q # x /\ Root(child, x)
      BY <1>3, ChunkFacts, SMTT(30) DEF ChunkInv, Links, Root, Chunk, TypeOK
    <2>4. x \notin ChainOf(child, q)
      BY <1>1, <1>3, <2>1, <2>3, RootOutside
    <2> QED BY <1>1, <1>6, <2>1, <2>2, <2>4, ChainSame
  <1> QED BY <1>3, <1>5, <1>7

\* What a merge does to the chains of the pools that are left.
LEMMA MergeChains ==
  ASSUME TypeOK, ChunkInv, NEW dest \in Pool, NEW src \in Pool, Merge(dest, src)
  PROVE  /\ dest \in handle \ torn /\ src \in handle \ torn /\ dest # src
         /\ ChainOf(child', dest) = ChainOf(child, dest) \cup {src}
         /\ \A q \in handle \ {dest, src} : /\ ChainOf(child', q) = ChainOf(child, q)
                                            /\ src \notin ChainOf(child, q)
  <1>1. /\ dest \in Chunk /\ src \in Chunk /\ handle \subseteq Chunk /\ dest # src
        /\ dest \in handle \ torn /\ src \in handle \ torn
        /\ child \in Link /\ Sole(child) /\ Root(child, dest) /\ Root(child, src)
    BY PoolChunks DEF Merge, Usable, TypeOK, Link, ChunkInv, Links
  <1>2. child' = [child EXCEPT ![dest] = src, ![src] = child[dest]]
    BY DEF Merge
  <1>3. child' \in Link /\ \A x \in Chunk \ {dest, src} : child'[x] = child[x]
    BY <1>1, <1>2 DEF Link
  <1>4. ChainOf(child', dest) = ChainOf(child, dest) \cup {src}
    BY <1>1, <1>2, ChainMerges
  <1>5. ASSUME NEW q \in handle \ {dest, src}
        PROVE  ChainOf(child', q) = ChainOf(child, q) /\ src \notin ChainOf(child, q)
    <2>1. q \in Chunk /\ dest \notin ChainOf(child, q) /\ src \notin ChainOf(child, q)
      BY <1>1, RootOutside
    <2>2. \A y \in ChainOf(child, q) : child'[y] = child[y]
      BY <1>1, <1>3, <2>1, ChainStart
    <2> QED BY <1>1, <1>3, <2>1, <2>2, ChainSame
  <1> QED BY <1>1, <1>4, <1>5

\* A chunk is made below a chunk of the pool.  When that one had children, the pool
\* is marked.
LEMMA ChunkGrow ==
  ASSUME TypeOK, ChunkInv, NEW p \in handle \ torn, NEW c \in ChainOf(child, p),
         NEW n, NEW back, Grow(p, c, n, back),
         handle' = handle, torn' = torn, dropped \subseteq dropped',
         child[c] # 0 => p \in dropped'
  PROVE  ChunkInv'
  <1> DEFINE x == made + 1
  <1>1. /\ p \in Chunk /\ p \in Pool /\ handle \subseteq Chunk
        /\ child \in Link
      BY PoolChunks DEF TypeOK, Link
  <1>2. c \in Chunk
    BY <1>1, ChainStart
  <1>3. /\ made \in Nat /\ x \in Chunk /\ made' = x
        /\ mem' = mem \cup {x}
        /\ child' = [child EXCEPT ![c] = x]
        /\ current' = [current EXCEPT ![p] = x]
    BY GrowMade
  <1>4. child[x] = 0 /\ \A y \in Chunk : child[y] # x
    BY <1>3 DEF ChunkInv, Links, TypeOK, Chunk
  <1>5. c # x /\ c <= x
    <2>1. c \in 1 .. made
      BY DEF ChunkInv, Held, TypeOK
    <2> QED BY <1>3, <2>1
  <1>6. x \notin handle
    BY <1>3 DEF ChunkInv, TypeOK
  <1>7. child' \in Link /\ child'[c] = x /\ \A y \in Chunk \ {c} : child'[y] = child[y]
    BY <1>1, <1>2, <1>3 DEF Link
  <1>8. Links(child', made', handle')
    <2>1. Sole(child')
      BY <1>1, <1>4, <1>7 DEF Sole, ChunkInv, Links
    <2>2. \A q \in handle' : Root(child', q)
      BY <1>6, <1>7 DEF Root, ChunkInv, Links
    <2>3. \A y \in Chunk : child'[y] <= x /\ (y > x => child'[y] = 0)
      <3> TAKE y \in Chunk
      <3>1. y \in Nat /\ x \in Nat /\ made < x
        BY <1>3 DEF Chunk
      <3>2. CASE y = c
        BY <1>2, <1>5, <1>7, <3>1, <3>2
      <3>3. CASE y # c
        <4>1. child'[y] = child[y] /\ child[y] \in Nat
          BY <1>1, <1>7, <3>3 DEF Link, Chunk
        <4>2. child[y] <= made /\ (y > made => child[y] = 0)
          BY DEF ChunkInv, Links
        <4> QED BY <1>3, <3>1, <4>1, <4>2
      <3> QED BY <3>2, <3>3
    <2> QED BY <1>3, <2>1, <2>2, <2>3 DEF Links
  <1>9. Pool \subseteq 1 .. made'
    BY <1>3 DEF ChunkInv
  <1>10. /\ x \in ChainOf(child', p)
         /\ ChainOf(child', p) \subseteq ChainOf(child, p) \cup {x}
         /\ child[c] = 0 => ChainOf(child', p) = ChainOf(child, p) \cup {x}
    BY GrowChains
  <1>11. \A q \in handle \ {p} : ChainOf(child', q) = ChainOf(child, q)
    BY GrowChains
  <1>12. \A q \in handle \ {p} : x \notin ChainOf(child, q)
    BY GrowChains
  <1>13. Held(child', current', mem', handle', torn', dropped')
    <2>1. ASSUME NEW q \in handle' \ torn'
          PROVE  /\ ChainOf(child', q) \subseteq mem'
                 /\ current'[q] \in ChainOf(child', q)
                 /\ \A r \in handle' \ {q} : ChainOf(child', q) \cap ChainOf(child', r) = {}
      <3>1. q \in handle \ torn /\ q \in Pool
        BY DEF TypeOK
      <3>2. CASE q = p
        <4>1. ChainOf(child', p) \subseteq mem'
          BY <1>3, <1>10 DEF ChunkInv, Held
        <4>2. current'[p] = x
          BY <1>1, <1>3 DEF TypeOK
        <4>3. ASSUME NEW r \in handle \ {p} PROVE ChainOf(child', p) \cap ChainOf(child', r) = {}
          BY <1>10, <1>11, <1>12 DEF ChunkInv, Held
        <4> QED BY <1>10, <3>2, <4>1, <4>2, <4>3
      <3>3. CASE q # p
        <4>1. ChainOf(child', q) = ChainOf(child, q)
          BY <1>11, <3>1, <3>3
        <4>2. current'[q] = current[q]
          BY <1>1, <1>3, <3>1, <3>3 DEF TypeOK
        <4>3. ASSUME NEW r \in handle \ {q} PROVE ChainOf(child, q) \cap ChainOf(child', r) = {}
          <5>1. ChainOf(child, q) \cap ChainOf(child, r) = {}
            BY <3>1 DEF ChunkInv, Held
          <5>2. x \notin ChainOf(child, q)
            BY <1>12, <3>1, <3>3
          <5> QED BY <1>10, <1>11, <5>1, <5>2
        <4> QED BY <1>3, <3>1, <4>1, <4>2, <4>3 DEF ChunkInv, Held
      <3> QED BY <3>2, <3>3
    <2>2. ASSUME dropped' \cup torn' = {}
          PROVE  mem' = UNION {ChainOf(child', q) : q \in handle'}
      <3>1. dropped \cup torn = {} /\ child[c] = 0
        BY <2>2
      <3>2. mem = UNION {ChainOf(child, q) : q \in handle}
        BY <3>1 DEF ChunkInv, Held
      <3>3. ChainOf(child', p) = ChainOf(child, p) \cup {x}
        BY <1>10, <3>1
      <3>4. \A y : y \in UNION {ChainOf(child', q) : q \in handle}
                     <=> (y \in UNION {ChainOf(child, q) : q \in handle} \/ y = x)
        <4> HIDE DEF x
        <4> QED BY <1>11, <3>3
      <3>5. mem' = mem \cup {x} /\ handle' = handle
        BY <1>3
      <3> HIDE DEF x
      <3> QED BY <3>2, <3>4, <3>5
    <2> QED BY <2>1, <2>2 DEF Held
  <1> QED BY <1>8, <1>9, <1>13 DEF ChunkInv

LEMMA ChunkMerge ==
  ASSUME TypeOK, ChunkInv, NEW dest \in Pool, NEW src \in Pool, Merge(dest, src)
  PROVE  ChunkInv'
  <1>1. /\ dest \in Chunk /\ src \in Chunk /\ handle \subseteq Chunk /\ dest # src
        /\ dest \in handle \ torn /\ src \in handle \ torn
        /\ child \in Link /\ Sole(child) /\ Root(child, dest) /\ Root(child, src)
    BY PoolChunks DEF Merge, Usable, TypeOK, Link, ChunkInv, Links
  <1>2. /\ child' = [child EXCEPT ![dest] = src, ![src] = child[dest]]
        /\ handle' = handle \ {src}
        /\ UNCHANGED <<made, mem, current, torn>>
        /\ dropped' = IF child[src] # 0 \/ src \in dropped THEN dropped \cup {dest} ELSE dropped
    BY DEF Merge
  <1>3. /\ child' \in Link /\ child'[dest] = src /\ child'[src] = child[dest]
        /\ \A x \in Chunk \ {dest, src} : child'[x] = child[x]
    BY <1>1, <1>2 DEF Link
  <1>4. ChainOf(child', dest) = ChainOf(child, dest) \cup {src}
    BY MergeChains
  <1>5. Links(child', made', handle')
    <2>1. Sole(child')
      BY <1>1, <1>3 DEF Sole, Root
    <2>2. \A q \in handle' : Root(child', q)
      BY <1>1, <1>2, <1>3 DEF Root, ChunkInv, Links
    <2>3. \A y \in Chunk : child'[y] <= made /\ (y > made => child'[y] = 0)
      <3>1. dest <= made /\ src <= made /\ ~(dest > made) /\ ~(src > made)
        BY DEF ChunkInv, TypeOK
      <3> QED BY <1>1, <1>3, <3>1 DEF ChunkInv, Links
    <2> QED BY <1>2, <2>1, <2>2, <2>3 DEF Links
  <1>6. \A q \in handle' \ {dest} : ChainOf(child', q) = ChainOf(child, q)
    <2>1. \A q \in handle \ {dest, src} : ChainOf(child', q) = ChainOf(child, q)
      BY MergeChains
    <2>2. handle' \ {dest} = handle \ {dest, src}
      BY <1>2
    <2> QED BY <2>1, <2>2
  <1>7. \A q \in handle' \ {dest} : src \notin ChainOf(child, q)
    BY <1>2, MergeChains
  <1>8. src \in ChainOf(child, src)
    BY <1>1, ChainStart
  <1>9. Held(child', current', mem', handle', torn', dropped')
    <2>1. ASSUME NEW q \in handle' \ torn'
          PROVE  /\ ChainOf(child', q) \subseteq mem'
                 /\ current'[q] \in ChainOf(child', q)
                 /\ \A r \in handle' \ {q} : ChainOf(child', q) \cap ChainOf(child', r) = {}
      <3>1. q \in handle \ torn
        BY <1>2
      <3>2. CASE q = dest
        <4>1. ChainOf(child', dest) \subseteq mem'
          <5>1. ChainOf(child, dest) \subseteq mem /\ ChainOf(child, src) \subseteq mem
            BY <1>1 DEF ChunkInv, Held
          <5>2. mem' = mem
            BY <1>2
          <5> QED BY <1>4, <1>8, <5>1, <5>2
        <4>2. current'[dest] \in ChainOf(child', dest)
          <5>1. current[dest] \in ChainOf(child, dest)
            BY <1>1 DEF ChunkInv, Held
          <5>2. current' = current
            BY <1>2
          <5> QED BY <1>4, <5>1, <5>2
        <4>3. ASSUME NEW r \in handle' \ {dest} PROVE ChainOf(child', dest) \cap ChainOf(child', r) = {}
          <5>1. r \in handle \ {dest}
            BY <1>2
          <5>2. ChainOf(child, dest) \cap ChainOf(child, r) = {}
            BY <1>1, <5>1 DEF ChunkInv, Held
          <5>3. src \notin ChainOf(child, r)
            BY <1>7
          <5>4. ChainOf(child', r) = ChainOf(child, r)
            BY <1>6
          <5> QED BY <1>4, <5>2, <5>3, <5>4
        <4> QED BY <3>2, <4>1, <4>2, <4>3
      <3>3. CASE q # dest
        <4>1. ChainOf(child', q) = ChainOf(child, q)
          BY <1>6, <3>3
        <4>2. ASSUME NEW r \in handle' \ {q} PROVE ChainOf(child, q) \cap ChainOf(child', r) = {}
          <5>1. ChainOf(child, q) \cap ChainOf(child, r) = {}
            BY <1>2, <3>1 DEF ChunkInv, Held
          <5>2. src \notin ChainOf(child, q)
            BY <1>7, <3>3
          <5> QED BY <1>4, <1>6, <5>1, <5>2
        <4> QED BY <1>2, <3>1, <4>1, <4>2 DEF ChunkInv, Held
      <3> QED BY <3>2, <3>3
    <2>2. ASSUME dropped' \cup torn' = {}
          PROVE  mem' = UNION {ChainOf(child', q) : q \in handle'}
      <3>1. dropped \cup torn = {} /\ child[src] = 0
        BY <1>2, <2>2
      <3>2. mem = UNION {ChainOf(child, q) : q \in handle}
        BY <3>1 DEF ChunkInv, Held
      <3>3. ChainOf(child, src) = {src}
        <4>1. Closed(child, {src})
          BY <3>1 DEF Closed
        <4> QED BY <1>1, <1>8, <4>1, ChainLeast
      <3>4. handle = handle' \cup {src} /\ dest \in handle'
        BY <1>1, <1>2
      <3>5. \A q \in handle' \ {dest} : ChainOf(child', q) = ChainOf(child, q)
        BY <1>6
      <3>6. \A y : y \in UNION {ChainOf(child', q) : q \in handle'}
                     <=> y \in UNION {ChainOf(child, q) : q \in handle}
        BY <1>4, <3>3, <3>4, <3>5
      <3>7. mem' = mem
        BY <1>2
      <3> QED BY <3>2, <3>6, <3>7
    <2> QED BY <2>1, <2>2 DEF Held
  <1> QED BY <1>2, <1>5, <1>9 DEF ChunkInv

\* A pool that is shrunk loses chunks of its chain and is torn; nothing else moves.
LEMMA ChunkShrink ==
  ASSUME TypeOK, ChunkInv, NEW p \in handle \ torn, NEW S \in SUBSET ChainOf(child, p),
         mem' = mem \ S, torn' = torn \cup {p},
         UNCHANGED <<child, made, current, handle, dropped>>
  PROVE  ChunkInv'
  <1>1. \A q \in handle \ {p} : ChainOf(child, q) \cap S = {}
    BY DEF ChunkInv, Held
  <1>2. Held(child, current, mem', handle, torn', dropped)
    BY <1>1 DEF ChunkInv, Held
  <1> QED BY <1>2 DEF ChunkInv

\* The chunks a shrink may free are on the chain of the pool.
LEMMA ShrinkCases ==
  ASSUME NEW p \in Pool, NEW n \in 0 .. 1, Shrink(p, n), TypeOK
  PROVE  /\ p \in handle \ torn
         /\ UNCHANGED <<size, end, child, made, current, handle, blocks, dirty, dropped>>
         /\ \/ /\ \E S \in SUBSET ChainOf(child, p) :
                   mem' = mem \ S /\ Rewind(ChainOf(child, p) \ S)
               /\ torn' = torn \cup {p}
               /\ UNCHANGED <<stale, mixed>>
            \/ /\ Rewind(ChainOf(child, p))
               /\ stale' = stale \cup {p}
               /\ mixed' = mixed \cup {p}
               /\ UNCHANGED <<mem, torn>>
  <1>1. /\ p \in handle \ torn
        /\ UNCHANGED <<size, end, child, made, current, handle, blocks, dirty, dropped>>
    BY DEF Shrink, Usable
  <1>2. \/ /\ \E S \in SUBSET Chain(p) : mem' = mem \ S /\ Rewind(Chain(p) \ S)
           /\ torn' = torn \cup {p}
           /\ UNCHANGED <<stale, mixed>>
        \/ /\ Rewind(Chain(p))
           /\ stale' = stale \cup {p}
           /\ mixed' = mixed \cup {p}
           /\ UNCHANGED <<mem, torn>>
    BY DEF Shrink
  <1>3. Chain(p) = ChainOf(child, p)
    BY ChainNow
  <1> QED BY <1>1, <1>2, <1>3

\* A pool that is freed takes its chain with it.
LEMMA ChunkFree ==
  ASSUME TypeOK, ChunkInv, NEW p \in Pool, Free(p)
  PROVE  ChunkInv'
  <1>1. p \in handle \ torn
    BY DEF Free, Usable
  <1>2. /\ mem' = mem \ ChainOf(child, p)
        /\ handle' = handle \ {p}
        /\ UNCHANGED <<child, made, current, dropped, torn>>
    BY ChainNow DEF Free, ghosts
  <1>3. Links(child, made, handle')
    BY <1>2 DEF ChunkInv, Links
  <1>4. ASSUME NEW q \in handle' \ torn
        PROVE  /\ ChainOf(child, q) \subseteq mem'
               /\ current[q] \in ChainOf(child, q)
               /\ \A r \in handle' \ {q} : ChainOf(child, q) \cap ChainOf(child, r) = {}
    <2>1. q \in handle \ torn /\ q # p
      BY <1>2
    <2>2. ChainOf(child, q) \subseteq mem /\ ChainOf(child, q) \cap ChainOf(child, p) = {}
      BY <1>1, <2>1 DEF ChunkInv, Held
    <2> QED BY <1>2, <2>1, <2>2 DEF ChunkInv, Held
  <1>5. ASSUME dropped \cup torn = {}
        PROVE  mem' = UNION {ChainOf(child, q) : q \in handle'}
    <2>1. mem = UNION {ChainOf(child, q) : q \in handle}
      BY <1>5 DEF ChunkInv, Held
    <2>2. \A q \in handle \ {p} : ChainOf(child, p) \cap ChainOf(child, q) = {}
      BY <1>1 DEF ChunkInv, Held
    <2>3. \A y : y \in mem \ ChainOf(child, p) <=> y \in UNION {ChainOf(child, q) : q \in handle \ {p}}
      BY <1>1, <2>1, <2>2
    <2> QED BY <1>2, <2>3
  <1>6. Held(child, current, mem', handle', torn, dropped)
    BY <1>4, <1>5 DEF Held
  <1> QED BY <1>2, <1>3, <1>6 DEF ChunkInv

LEMMA ChunkInit == Init => ChunkInv
  <1> SUFFICES ASSUME Init PROVE ChunkInv
    OBVIOUS
  <1>1. child \in Link /\ \A c \in Chunk : child[c] = 0
    BY DEF Init, Link
  <1>2. Pool \subseteq Chunk /\ 0 \notin Chunk /\ made \in Nat /\ Pool \subseteq 1 .. made
    BY PoolChunks, MempoolAssumption, FS_CardinalityType DEF Init, Chunk
  <1>3. \A p \in Pool : ChainOf(child, p) = {p}
    <2> TAKE p \in Pool
    <2>1. p \in Chunk /\ Closed(child, {p})
      BY <1>1, <1>2 DEF Closed
    <2> QED BY <1>1, <2>1, ChainStart, ChainLeast
  <1>4. Links(child, made, handle)
    BY <1>1, <1>2 DEF Links, Sole, Root, Init
  <1>5. mem = Pool /\ handle = Pool /\ torn = {} /\ \A p \in Pool : current[p] = p
    BY DEF Init
  <1>6. Held(child, current, mem, handle, torn, dropped)
    <2>1. \A y : y \in Pool <=> y \in UNION {ChainOf(child, p) : p \in Pool}
      BY <1>3
    <2> QED BY <1>3, <1>5, <2>1 DEF Held
  <1> QED BY <1>2, <1>4, <1>6 DEF ChunkInv

\* The last chunk of a pool is on its chain, and has no child.
LEMMA LastOnChain ==
  ASSUME TypeOK, ChunkInv, NEW p \in handle \ torn
  PROVE  Last(p) \in ChainOf(child, p) /\ child[Last(p)] = 0
  <1>1. p \in Chunk /\ child \in Link /\ Sole(child) /\ Root(child, p)
    BY PoolChunks DEF TypeOK, Link, ChunkInv, Links
  <1> DEFINE c == current[p]
  <1>2. c \in ChainOf(child, p)
    BY DEF ChunkInv, Held
  <1>3. Last(p) = CHOOSE x \in ChainOf(child, c) : child[x] = 0
    BY DEF Last, Chain, ChainOf, Down, DownOf
  <1> HIDE DEF c
  <1>4. \E x \in ChainOf(child, c) : child[x] = 0
    BY <1>1, <1>2, ChainEnds
  <1>5. Last(p) \in ChainOf(child, c) /\ child[Last(p)] = 0
    BY <1>3, <1>4
  <1> QED BY <1>1, <1>2, <1>5, ChainBelow

\* The chunk a dalloc finds is on the chain of the pool, and has the room.
LEMMA FitOnChain ==
  ASSUME TypeOK, ChunkInv, NEW p \in handle \ torn, NEW n, NEW c, FirstFit(p, n, c)
  PROVE  c \in ChainOf(child, p) /\ pos[c] + n <= end[c]
  <1>1. p \in Chunk /\ child \in Link
    BY PoolChunks DEF TypeOK, Link
  <1> DEFINE x == current[p]
  <1>2. x \in ChainOf(child, p)
    BY DEF ChunkInv, Held
  <1>3. c \in ChainOf(child, x)
    BY DEF FirstFit, ChainOf, Down, DownOf
  <1> HIDE DEF x
  <1>4. pos[c] + n <= end[c]
    BY DEF FirstFit, Fits
  <1> QED BY <1>1, <1>2, <1>3, <1>4, ChainBelow

LEMMA ChunkStep == TypeOK /\ ChunkInv /\ [Next]_vars => ChunkInv'
  <1> SUFFICES ASSUME TypeOK, ChunkInv, [Next]_vars PROVE ChunkInv'
    OBVIOUS
  <1>1. ASSUME NEW p \in Pool, NEW want \in Request, DallocFits(p, want) PROVE ChunkInv'
    <2>1. p \in handle \ torn
      BY <1>1 DEF DallocFits, Usable
    <2>2. PICK c \in Chunk : /\ FirstFit(p, Align(want, alignment[p]), c)
                             /\ current' = [current EXCEPT ![p] = c]
      BY <1>1 DEF DallocFits
    <2>3. c \in ChainOf(child, p)
      BY <2>1, <2>2, FitOnChain
    <2>4. \A q \in handle \ torn : current'[q] = current[q] \/ current'[q] \in ChainOf(child, q)
      BY <2>2, <2>3 DEF TypeOK
    <2> QED BY <1>1, <2>4, ChunkStill DEF DallocFits, ghosts
  <1>2. ASSUME NEW p \in Pool, NEW want \in Request, DallocGrows(p, want) PROVE ChunkInv'
    <2>1. p \in handle \ torn
      BY <1>2 DEF DallocGrows, Usable
    <2>2. Last(p) \in ChainOf(child, p) /\ child[Last(p)] = 0
      BY <2>1, LastOnChain
    <2>3. \E n : Grow(p, Last(p), n, 0)
      BY <1>2 DEF DallocGrows
    <2>4. handle' = handle /\ torn' = torn /\ dropped \subseteq dropped'
      BY <1>2 DEF DallocGrows, ghosts
    <2> QED BY <2>1, <2>2, <2>3, <2>4, ChunkGrow
  <1>3. ASSUME NEW p \in Pool, NEW want \in Request, NallocFits(p, want) PROVE ChunkInv'
    BY <1>3, ChunkStill DEF NallocFits, ghosts
  <1>4. ASSUME NEW p \in Pool, NEW want \in Request, NallocGrows(p, want) PROVE ChunkInv'
    <2> DEFINE c == current[p]
    <2>1. p \in handle \ torn
      BY <1>4 DEF NallocGrows, Usable
    <2>2. c \in ChainOf(child, p)
      BY <2>1 DEF ChunkInv, Held
    <2>3. \E n : Grow(p, c, n, n)
      BY <1>4 DEF NallocGrows
    <2>4. /\ handle' = handle /\ torn' = torn /\ dropped \subseteq dropped'
          /\ child[c] # 0 => p \in dropped'
      BY <1>4 DEF NallocGrows, Dropping
    <2> HIDE DEF c
    <2> QED BY <2>1, <2>2, <2>3, <2>4, ChunkGrow
  <1>5. ASSUME NEW b \in blocks, NEW want \in Request, RallocInPlace(b, want) PROVE ChunkInv'
    BY <1>5, ChunkStill DEF RallocInPlace
  <1>6. ASSUME NEW b \in blocks, NEW want \in Request, RallocKeeps(b, want) PROVE ChunkInv'
    BY <1>6, ChunkStill DEF RallocKeeps, chunks
  <1>7. ASSUME NEW b \in blocks, NEW want \in Request, RallocMoves(b, want) PROVE ChunkInv'
    BY <1>7, ChunkStill DEF RallocMoves
  <1>8. ASSUME NEW b \in blocks, NEW want \in Request, RallocSpills(b, want) PROVE ChunkInv'
    <2> DEFINE p == b.pool
               c == current[p]
    <2>1. p \in handle \ torn
      BY <1>8 DEF RallocSpills, Realloc, Usable
    <2>2. c \in ChainOf(child, p)
      BY <2>1 DEF ChunkInv, Held
    <2>3. \E n : Grow(p, c, n, 0)
      BY <1>8 DEF RallocSpills
    <2>4. /\ handle' = handle /\ torn' = torn /\ dropped \subseteq dropped'
          /\ child[c] # 0 => p \in dropped'
      BY <1>8 DEF RallocSpills, Dropping
    <2> HIDE DEF c, p
    <2> QED BY <2>1, <2>2, <2>3, <2>4, ChunkGrow
  <1>9. ASSUME NEW p \in Pool, NEW a \in Alignment, SetAlignment(p, a) PROVE ChunkInv'
    BY <1>9, ChunkStill DEF SetAlignment, chunks, ghosts
  <1>10. ASSUME NEW p \in Pool, NEW q \in Pool, Merge(p, q) PROVE ChunkInv'
    BY <1>10, ChunkMerge
  <1>11. ASSUME NEW p \in Pool, Reset(p) \/ Clear(p) PROVE ChunkInv'
    <2>1. /\ p \in handle \ torn
          /\ current' = [current EXCEPT ![p] = p]
          /\ UNCHANGED <<child, made, mem, handle, torn, dropped>>
      BY <1>11 DEF Reset, Clear, Usable
    <2>2. p \in ChainOf(child, p)
      BY PoolChunks, ChainStart DEF TypeOK, Link
    <2>3. \A q \in handle \ torn : current'[q] = current[q] \/ current'[q] \in ChainOf(child, q)
      BY <2>1, <2>2 DEF TypeOK
    <2> QED BY <2>1, <2>3, ChunkStill
  <1>12. ASSUME NEW p \in Pool, Free(p) PROVE ChunkInv'
    BY <1>12, ChunkFree
  <1>13. ASSUME NEW p \in Pool, NEW n \in 0 .. 1, Shrink(p, n) PROVE ChunkInv'
    <2>1. /\ p \in handle \ torn
          /\ UNCHANGED <<child, made, current, handle, dropped>>
          /\ \/ \E S \in SUBSET ChainOf(child, p) : mem' = mem \ S /\ torn' = torn \cup {p}
             \/ UNCHANGED <<mem, torn>>
      BY <1>13, ShrinkCases
    <2>2. CASE UNCHANGED <<mem, torn>>
      BY <2>1, <2>2, ChunkStill
    <2> QED BY <2>1, <2>2, ChunkShrink
  <1>14. CASE UNCHANGED vars
    BY <1>14, ChunkStill DEF vars, chunks, ghosts
  <1>15. ASSUME NEW b \in blocks, Write(b) PROVE ChunkInv'
    BY <1>15, ChunkStill DEF Write, chunks, ghosts
  <1> QED BY <1>1, <1>2, <1>3, <1>4, <1>5, <1>6, <1>7, <1>8, <1>9, <1>10, <1>11, <1>12,
             <1>13, <1>14, <1>15 DEF Next

\* Whatever is allocated, merged, shrunk and freed, the chains of the pools in use are
\* apart and in allocated memory, the chunk a pool allocates from is on its chain,
\* and no chunk is lost unless a call the code accepts dropped it.
THEOREM ChunksHeldHolds == Spec => []ChunksHeld
  <1>1. Init => TypeOK /\ ChunkInv
    BY TypeInit, ChunkInit
  <1>2. TypeOK /\ ChunkInv /\ [Next]_vars => TypeOK' /\ ChunkInv'
    BY TypeStep, ChunkStep
  <1>3. ChunkInv => ChunksHeld
    BY HeldNow DEF ChunkInv
  <1> QED BY <1>1, <1>2, <1>3, PTL DEF Spec
--------------------------------------------------------------------------------
(* The blocks of the caller.  Their chunks first: a block of a pool in use is   *)
(* in allocated memory, unless the pool is torn; a block on a chain belongs to  *)
(* the pool of that chain (one whose chunk was dropped is on none), and a chunk *)
(* has one pool.                                                                *)

Owned(B, f, h, t, m, k) ==
  /\ \A b \in B : b.chunk \in 1 .. k /\ (b.pool \in t \/ (b.pool \in h /\ b.chunk \in m))
  /\ \A b \in B : \A q \in h \ t : b.chunk \in ChainOf(f, q) => b.pool = q
  /\ \A b, c \in B : b.chunk = c.chunk => b.pool = c.pool

\* Where a block is in its chunk, and that two blocks from the same end do not
\* overlap; a block from each end do not while the front is not past the back.
Placed(b, ps, en, sz) ==
  IF b.kind = "d" THEN b.off + b.len <= ps[b.chunk]
                  ELSE b.off >= en[b.chunk] /\ b.off + b.len <= sz[b.chunk]

Disjoint(b, c) ==
  b.chunk # c.chunk \/ b.off + b.len <= c.off \/ c.off + c.len <= b.off

Placing(B, ps, en, sz, mx) ==
  /\ \A b \in B : b.len > 0
  /\ \A b \in B : b.pool \notin mx => Placed(b, ps, en, sz)
  /\ \A b, c \in B : b # c /\ b.kind = c.kind /\ b.pool \notin mx => Disjoint(b, c)

BlocksInv ==
  /\ Owned(blocks, child, handle, torn, mem, made)
  /\ Placing(blocks, pos, end, size, mixed \cup torn)

\* Blocks of which one ends where the other begins, or before, share no byte.
LEMMA BytesApart ==
  ASSUME NEW b \in BlockType, NEW c \in BlockType, Disjoint(b, c)
  PROVE  Bytes(b) \cap Bytes(c) = {}
  <1> SUFFICES ASSUME NEW i \in b.off .. b.off + b.len - 1, NEW j \in c.off .. c.off + c.len - 1,
                      <<b.chunk, i>> = <<c.chunk, j>>
               PROVE  FALSE
    BY DEF Bytes
  <1>1. b.chunk = c.chunk /\ i = j
    OBVIOUS
  <1> QED BY <1>1 DEF Disjoint, BlockType

LEMMA BlocksInvApart == TypeOK /\ BlocksInv => BlocksApart
  <1> SUFFICES ASSUME TypeOK, BlocksInv, NEW b \in blocks, b.pool \notin mixed \cup torn
               PROVE  /\ b.pool \in handle
                      /\ b.chunk \in mem
                      /\ IF b.kind = "d" THEN b.off + b.len <= pos[b.chunk]
                                         ELSE b.off >= end[b.chunk] /\ b.off + b.len <= size[b.chunk]
                      /\ \A c \in blocks \ {b} :
                           /\ c.pool \notin torn
                           /\ b.kind = c.kind \/ b.chunk \notin Dynamic \/ pos[b.chunk] <= end[b.chunk]
                           => Bytes(b) \cap Bytes(c) = {}
    BY DEF BlocksApart
  <1>1. b.pool \in handle /\ b.chunk \in mem
    BY DEF BlocksInv, Owned
  <1>2. Placed(b, pos, end, size)
    BY DEF BlocksInv, Placing
  <1>3. ASSUME NEW c \in blocks \ {b},
               b.kind = c.kind \/ b.chunk \notin Dynamic \/ pos[b.chunk] <= end[b.chunk]
        PROVE  Bytes(b) \cap Bytes(c) = {}
    <2>1. b \in BlockType /\ c \in BlockType
      BY DEF TypeOK, BlockType
    <2>3. b.kind = c.kind \/ pos[b.chunk] <= end[b.chunk]
      BY <1>3, <2>1 DEF TypeOK, BlockType
    <2>2. Disjoint(b, c)
      <3>1. CASE b.chunk # c.chunk
        BY <3>1 DEF Disjoint
      <3>2. CASE b.kind = c.kind
        BY <3>2 DEF BlocksInv, Placing
      <3>3. CASE b.chunk = c.chunk /\ b.kind # c.kind
        <4>1. c.pool = b.pool
          BY <3>3 DEF BlocksInv, Owned
        <4>2. Placed(c, pos, end, size)
          BY <4>1 DEF BlocksInv, Placing
        <4>3. /\ b.off \in Nat /\ b.len \in Nat /\ c.off \in Nat /\ c.len \in Nat
              /\ pos[b.chunk] \in Nat /\ end[b.chunk] \in Nat
              /\ (b.kind = "d" /\ c.kind = "n") \/ (b.kind = "n" /\ c.kind = "d")
          BY <2>1, <3>3 DEF BlockType, TypeOK
        <4> QED BY <1>2, <2>3, <3>3, <4>2, <4>3 DEF Placed, Disjoint
      <3> QED BY <3>1, <3>2, <3>3
    <2> QED BY <2>1, <2>2, BytesApart
  <1> QED BY <1>1, <1>2, <1>3 DEF Placed

\* Some blocks are given back, or resized in their chunk; some pools are given up.
LEMMA OwnedSub ==
  ASSUME NEW B, NEW f, NEW h, NEW t, NEW m, NEW k, Owned(B, f, h, t, m, k),
         NEW B2, NEW g, NEW h2, NEW t2, NEW m2, h2 \ t2 \subseteq h \ t,
         \A q \in h2 \ t2 : ChainOf(g, q) = ChainOf(f, q),
         \A c \in B2 : /\ \E b \in B : c.pool = b.pool /\ c.chunk = b.chunk
                       /\ c.pool \in t2 \/ (c.pool \in h2 /\ c.chunk \in m2)
  PROVE  Owned(B2, g, h2, t2, m2, k)
  BY DEF Owned

\* A block is cut from a chunk on the chain of its pool.
LEMMA OwnedAdd ==
  ASSUME NEW B, NEW f, NEW h, NEW t, NEW m, NEW k, Owned(B, f, h, t, m, k),
         m \subseteq 1 .. k,
         \A p \in h \ t : ChainOf(f, p) \subseteq m,
         \A p, q \in h \ t : p # q => ChainOf(f, p) \cap ChainOf(f, q) = {},
         NEW n, n.pool \in h \ t, n.chunk \in ChainOf(f, n.pool)
  PROVE  Owned(B \cup {n}, f, h, t, m, k)
  BY DEF Owned

\* A chunk that holds no block is linked in.
LEMMA OwnedGrow ==
  ASSUME NEW B, NEW f, NEW h, NEW t, NEW m, NEW k \in Nat, Owned(B, f, h, t, m, k), NEW g,
         \A q \in h \ t : ChainOf(g, q) \subseteq ChainOf(f, q) \cup {k + 1}
  PROVE  Owned(B, g, h, t, m \cup {k + 1}, k + 1)
  <1>1. \A b \in B : b.chunk # k + 1 /\ b.chunk \in 1 .. k + 1
    BY DEF Owned
  <1> QED BY <1>1 DEF Owned

LEMMA PlaceSub ==
  ASSUME NEW B, NEW ps, NEW en, NEW sz, NEW mx, Placing(B, ps, en, sz, mx),
         NEW B2 \in SUBSET B, NEW ps2, NEW en2, NEW sz2, NEW mx2, mx \subseteq mx2,
         \A b \in B2 : b.pool \notin mx2 /\ Placed(b, ps, en, sz) => Placed(b, ps2, en2, sz2)
  PROVE  Placing(B2, ps2, en2, sz2, mx2)
  BY DEF Placing

\* A block is added; the blocks of its chunk are of its pool, and are where they
\* may be after the step.
LEMMA PlaceAdd ==
  ASSUME NEW B, NEW ps, NEW en, NEW sz, NEW mx, Placing(B, ps, en, sz, mx),
         NEW ps2, NEW en2, NEW sz2, NEW n, n.len > 0,
         n.pool \notin mx => Placed(n, ps2, en2, sz2),
         \A b \in B : b.chunk = n.chunk =>
           /\ b.pool = n.pool
           /\ b.pool \notin mx =>
                (b.kind = n.kind => Disjoint(b, n)) /\ Placed(b, ps2, en2, sz2),
         \A b \in B : b.chunk # n.chunk =>
           /\ ps2[b.chunk] = ps[b.chunk]
           /\ en2[b.chunk] = en[b.chunk]
           /\ sz2[b.chunk] = sz[b.chunk]
  PROVE  Placing(B \cup {n}, ps2, en2, sz2, mx)
  <1>1. \A b \in B \cup {n} : b.len > 0
    BY DEF Placing
  <1>2. ASSUME NEW b \in B, b.pool \notin mx PROVE Placed(b, ps2, en2, sz2)
    <2>1. Placed(b, ps, en, sz)
      BY <1>2 DEF Placing
    <2>2. CASE b.chunk = n.chunk
      BY <1>2, <2>2
    <2>3. CASE b.chunk # n.chunk
      BY <2>1, <2>3 DEF Placed
    <2> QED BY <2>2, <2>3
  <1>3. ASSUME NEW b \in B, b.kind = n.kind, b.pool \notin mx \/ n.pool \notin mx
        PROVE  Disjoint(b, n) /\ Disjoint(n, b)
    <2>1. CASE b.chunk = n.chunk
      <3>1. Disjoint(b, n)
        BY <1>3, <2>1
      <3> QED BY <2>1, <3>1 DEF Disjoint
    <2>2. CASE b.chunk # n.chunk
      BY <2>2 DEF Disjoint
    <2> QED BY <2>1, <2>2
  <1>4. \A b \in B \cup {n} : b.pool \notin mx => Placed(b, ps2, en2, sz2)
    BY <1>2
  <1>5. \A b, c \in B \cup {n} :
          b # c /\ b.kind = c.kind /\ b.pool \notin mx => Disjoint(b, c)
    BY <1>3 DEF Placing
  <1> QED BY <1>1, <1>4, <1>5 DEF Placing

\* What a pool's request of want bytes comes to.
LEMMA RoundedRequest ==
  ASSUME TypeOK, NEW p \in Pool, NEW want \in Request
  PROVE  want \in Nat /\ Align(want, alignment[p]) \in Nat /\ Align(want, alignment[p]) > 0
  <1>1. want \in Nat /\ want > 0
    BY MempoolAssumption
  <1>2. Align(want, alignment[p]) \in Nat /\ Align(want, alignment[p]) >= want
    BY <1>1, Rounded
  <1> QED BY <1>1, <1>2

\* A block is cut at the front of a chunk of pool p; the caller keeps the blocks B.
LEMMA CutFront ==
  ASSUME TypeOK, ChunkInv, NEW B \in SUBSET blocks,
         Owned(B, child, handle, torn, mem, made), NEW mx,
         Placing(B, pos, end, size, mx),
         NEW p \in handle \ torn, NEW c \in ChainOf(child, p), NEW n \in Nat, n > 0,
         NEW want, NEW ps, ps = [pos EXCEPT ![c] = @ + n]
  PROVE  LET b == Block(p, c, pos[c], n, want, "d")
         IN  /\ Owned(B \cup {b}, child, handle, torn, mem, made)
             /\ Placing(B \cup {b}, ps, end, size, mx)
  <1> DEFINE b == Block(p, c, pos[c], n, want, "d")
             U == handle \ torn
  <1>1. b.pool = p /\ b.chunk = c /\ b.off = pos[c] /\ b.len = n /\ b.kind = "d"
    BY DEF Block
  <1> HIDE DEF b
  <1>2. c \in Chunk
    BY ChunkFacts
  <1>3. pos[c] \in Nat /\ ps[c] = pos[c] + n /\ \A x \in Chunk \ {c} : ps[x] = pos[x]
    BY <1>2 DEF TypeOK
  <1>4. /\ \A q \in U : ChainOf(child, q) \subseteq mem
        /\ \A q, r \in U : q # r => ChainOf(child, q) \cap ChainOf(child, r) = {}
        /\ mem \subseteq 1 .. made
    BY ChunkFacts
  <1>5. Owned(B \cup {b}, child, handle, torn, mem, made)
    <2>1. b.pool \in U /\ b.chunk \in ChainOf(child, b.pool)
      BY <1>1
    <2> QED BY <1>4, <2>1, OwnedAdd
  <1>6. ASSUME NEW o \in B
        PROVE  o.off \in Nat /\ o.len \in Nat /\ o.chunk \in Chunk
    BY DEF TypeOK
  <1>7. ASSUME NEW o \in B, o.chunk = b.chunk
        PROVE  /\ o.pool = b.pool
               /\ o.pool \notin mx =>
                    (o.kind = b.kind => Disjoint(o, b)) /\ Placed(o, ps, end, size)
    <2>1. o.pool = b.pool
      BY <1>5, <1>7 DEF Owned
    <2>2. ASSUME o.pool \notin mx
          PROVE  (o.kind = b.kind => Disjoint(o, b)) /\ Placed(o, ps, end, size)
      <3>1. Placed(o, pos, end, size)
        BY <2>2 DEF Placing
      <3>2. CASE o.kind = "d"
        <4>1. o.off + o.len <= pos[c]
          BY <1>1, <1>7, <3>1, <3>2 DEF Placed
        <4>2. o.off + o.len <= ps[o.chunk]
          BY <1>1, <1>3, <1>6, <1>7, <4>1
        <4> QED BY <1>1, <3>2, <4>1, <4>2 DEF Placed, Disjoint
      <3>3. CASE o.kind # "d"
        BY <1>1, <3>1, <3>3 DEF Placed
      <3> QED BY <3>2, <3>3
    <2> QED BY <2>1, <2>2
  <1>8. Placed(b, ps, end, size)
    BY <1>1, <1>3 DEF Placed
  <1>9. Placing(B \cup {b}, ps, end, size, mx)
    <2>1. \A o \in B : o.chunk # b.chunk => ps[o.chunk] = pos[o.chunk]
      BY <1>1, <1>3, <1>6
    <2>2. b.len > 0
      BY <1>1
    <2> QED BY <1>7, <1>8, <2>1, <2>2, PlaceAdd
  <1> QED BY <1>5, <1>9 DEF b

\* A chunk is made: the blocks are where they were.
LEMMA GrownBlocks ==
  ASSUME TypeOK, ChunkInv, BlocksInv, NEW p \in handle \ torn, NEW c \in ChainOf(child, p),
         NEW n, NEW back, Grow(p, c, n, back)
  PROVE  /\ Owned(blocks, child', handle, torn, mem', made')
         /\ mem' \subseteq 1 .. made'
         /\ \A q \in handle \ torn : ChainOf(child', q) \subseteq mem'
         /\ \A q, r \in handle \ torn : q # r => ChainOf(child', q) \cap ChainOf(child', r) = {}
         /\ \A o \in blocks : o.chunk \in Chunk /\ o.chunk # made + 1
         /\ \A y \in Chunk \ {made + 1} : end'[y] = end[y] /\ size'[y] = size[y]
  <1> DEFINE x == made + 1
             U == handle \ torn
  <1>1. /\ x \in Chunk /\ x \in ChainOf(child', p)
        /\ ChainOf(child', p) \subseteq ChainOf(child, p) \cup {x}
        /\ \A q \in handle \ {p} : /\ ChainOf(child', q) = ChainOf(child, q)
                                    /\ x \notin ChainOf(child, q)
    BY GrowChains
  <1>2. /\ \A q \in U : ChainOf(child, q) \subseteq mem
        /\ \A q, r \in U : q # r => ChainOf(child, q) \cap ChainOf(child, r) = {}
        /\ mem \subseteq 1 .. made /\ made \in Nat
    BY ChunkFacts
  <1>3. /\ mem' = mem \cup {x} /\ made' = x
        /\ \A y \in Chunk \ {x} : end'[y] = end[y] /\ size'[y] = size[y]
    BY GrowMade DEF TypeOK
  <1>4. Owned(blocks, child', handle, torn, mem', made')
    <2>1. Owned(blocks, child, handle, torn, mem, made)
      BY DEF BlocksInv
    <2>2. \A q \in U : ChainOf(child', q) \subseteq ChainOf(child, q) \cup {x}
      BY <1>1
    <2> QED BY <1>2, <1>3, <2>1, <2>2, OwnedGrow
  <1>5. mem' \subseteq 1 .. made'
    BY <1>2, <1>3
  <1>6. \A o \in blocks : o.chunk \in Chunk /\ o.chunk # x
    BY <1>2 DEF BlocksInv, Owned, TypeOK
  <1> HIDE DEF x
  <1>7. \A q \in U : ChainOf(child', q) \subseteq mem'
    BY <1>1, <1>2, <1>3
  <1>8. \A q, r \in U : q # r => ChainOf(child', q) \cap ChainOf(child', r) = {}
    BY <1>1, <1>2
  <1> QED BY <1>3, <1>4, <1>5, <1>6, <1>7, <1>8 DEF x

\* A block is cut from a chunk that was made for it.
LEMMA CutNew ==
  ASSUME TypeOK, ChunkInv, BlocksInv, NEW p \in handle \ torn, NEW c \in ChainOf(child, p),
         NEW n, NEW back, Grow(p, c, n, back),
         \A y \in Chunk \ {made + 1} : pos'[y] = pos[y],
         NEW b, b.pool = p, b.chunk = made + 1, b.len > 0, Placed(b, pos', end', size')
  PROVE  /\ Owned(blocks \cup {b}, child', handle, torn, mem', made')
         /\ Placing(blocks \cup {b}, pos', end', size', mixed \cup torn)
  <1>1. made + 1 \in ChainOf(child', p)
    BY GrowChains
  <1>2. Owned(blocks \cup {b}, child', handle, torn, mem', made')
    <2>1. b.pool \in handle \ torn /\ b.chunk \in ChainOf(child', b.pool)
      BY <1>1
    <2> QED BY <2>1, GrownBlocks, OwnedAdd
  <1>3. ASSUME NEW o \in blocks
        PROVE  /\ o.chunk # b.chunk /\ pos'[o.chunk] = pos[o.chunk]
               /\ end'[o.chunk] = end[o.chunk] /\ size'[o.chunk] = size[o.chunk]
    BY GrownBlocks
  <1>4. Placing(blocks, pos, end, size, mixed \cup torn)
    BY DEF BlocksInv
  <1>5. Placing(blocks \cup {b}, pos', end', size', mixed \cup torn)
    BY <1>3, <1>4, PlaceAdd
  <1> QED BY <1>2, <1>5

LEMMA DallocFitsBlocks ==
  ASSUME TypeOK, ChunkInv, BlocksInv, NEW p \in Pool, NEW want \in Request, DallocFits(p, want)
  PROVE  BlocksInv'
  <1> DEFINE n == Align(want, alignment[p])
  <1>1. n \in Nat /\ n > 0
    BY RoundedRequest
  <1>2. p \in handle \ torn
    BY DEF DallocFits, Usable
  <1>3. PICK c \in Chunk : /\ FirstFit(p, n, c)
                           /\ blocks' = blocks \cup {Block(p, c, pos[c], n, want, "d")}
                           /\ pos' = [pos EXCEPT ![c] = @ + n]
    BY DEF DallocFits, Give
  <1>4. UNCHANGED <<size, end, child, mem, made, handle, torn, mixed>>
    BY DEF DallocFits, ghosts
  <1> HIDE DEF n
  <1>5. c \in ChainOf(child, p)
    BY <1>2, <1>3, FitOnChain
  <1>6. /\ Owned(blocks', child, handle, torn, mem, made)
        /\ Placing(blocks', pos', end, size, mixed \cup torn)
    BY <1>1, <1>2, <1>3, <1>5, CutFront DEF BlocksInv
  <1> QED BY <1>4, <1>6 DEF BlocksInv

LEMMA DallocGrowsBlocks ==
  ASSUME TypeOK, ChunkInv, BlocksInv, NEW p \in Pool, NEW want \in Request, DallocGrows(p, want)
  PROVE  BlocksInv'
  <1> DEFINE n == Align(want, alignment[p])
             b == Block(p, made + 1, 0, n, want, "d")
  <1>1. n \in Nat /\ n > 0
    BY RoundedRequest
  <1>2. p \in handle \ torn
    BY DEF DallocGrows, Usable
  <1>3. /\ Grow(p, Last(p), n, 0)
        /\ pos' = [pos EXCEPT ![made'] = n]
        /\ blocks' = blocks \cup {b}
        /\ UNCHANGED <<handle, torn, mixed>>
    BY DEF DallocGrows, Give, ghosts
  <1> HIDE DEF n
  <1>4. Last(p) \in ChainOf(child, p)
    BY <1>2, LastOnChain
  <1>5. /\ made' = made + 1 /\ pos'[made + 1] = n
        /\ \A y \in Chunk \ {made + 1} : pos'[y] = pos[y]
    BY <1>3, GrowMade DEF TypeOK
  <1>6. b.pool = p /\ b.chunk = made + 1 /\ b.len > 0 /\ b.kind = "d" /\ b.off + b.len = n
    BY <1>1 DEF Block
  <1> HIDE DEF b
  <1>7. Placed(b, pos', end', size')
    BY <1>1, <1>5, <1>6 DEF Placed
  <1>8. /\ Owned(blocks', child', handle, torn, mem', made')
        /\ Placing(blocks', pos', end', size', mixed \cup torn)
    BY <1>2, <1>3, <1>4, <1>5, <1>6, <1>7, CutNew
  <1> QED BY <1>3, <1>8 DEF BlocksInv

LEMMA NallocGrowsBlocks ==
  ASSUME TypeOK, ChunkInv, BlocksInv, NEW p \in Pool, NEW want \in Request, NallocGrows(p, want)
  PROVE  BlocksInv'
  <1> DEFINE n == Align(want, alignment[p])
             s == ChunkSize(p, n)
             c == current[p]
             b == Block(p, made + 1, s - n, n, want, "n")
  <1>1. n \in Nat /\ n > 0
    BY RoundedRequest
  <1>2. p \in handle \ torn
    BY DEF NallocGrows, Usable
  <1>3. /\ Grow(p, c, n, n)
        /\ pos' = [pos EXCEPT ![made'] = 0]
        /\ blocks' = blocks \cup {b}
        /\ UNCHANGED <<handle, torn, mixed>>
    BY DEF NallocGrows, Give
  <1>4. c \in ChainOf(child, p)
    BY <1>2, ChunkFacts
  <1> HIDE DEF c, n
  <1>5. made' = made + 1 /\ \A y \in Chunk \ {made + 1} : pos'[y] = pos[y]
    BY <1>3, GrowMade DEF TypeOK
  <1>6. s \in Nat /\ s >= n
    BY <1>1, ChunkSizeFits
  <1>7. end'[made + 1] = s - n /\ size'[made + 1] = s
    BY <1>3, GrowMade DEF TypeOK
  <1> HIDE DEF s
  <1>8. b.pool = p /\ b.chunk = made + 1 /\ b.len = n /\ b.kind = "n" /\ b.off = s - n
    BY <1>1 DEF Block
  <1> HIDE DEF b
  <1>9. Placed(b, pos', end', size')
    BY <1>1, <1>6, <1>7, <1>8 DEF Placed
  <1>10. b.len > 0
    BY <1>1, <1>8
  <1>11. /\ Owned(blocks', child', handle, torn, mem', made')
         /\ Placing(blocks', pos', end', size', mixed \cup torn)
    BY <1>2, <1>3, <1>4, <1>5, <1>8, <1>9, <1>10, CutNew
  <1> QED BY <1>3, <1>11 DEF BlocksInv

LEMMA NallocFitsBlocks ==
  ASSUME TypeOK, ChunkInv, BlocksInv, NEW p \in Pool, NEW want \in Request, NallocFits(p, want)
  PROVE  BlocksInv'
  <1> DEFINE n == Align(want, alignment[p])
             c == current[p]
             b == Block(p, c, end[c] - n, n, want, "n")
             U == handle \ torn
  <1>1. n \in Nat /\ n > 0
    BY RoundedRequest
  <1>2. p \in U
    BY DEF NallocFits, Usable
  <1>3. /\ pos[c] + n <= end[c]
        /\ blocks' = blocks \cup {b}
        /\ end' = [end EXCEPT ![c] = @ - n]
        /\ UNCHANGED <<size, pos, child, mem, made, handle, torn, mixed>>
    BY DEF NallocFits, Fits, Give, ghosts
  <1>4. c \in ChainOf(child, p) /\ c \in Chunk
    BY <1>2, ChunkFacts
  <1> HIDE DEF c, n
  <1>5. b.pool = p /\ b.chunk = c /\ b.off = end[c] - n /\ b.len = n /\ b.kind = "n"
    BY DEF Block
  <1> HIDE DEF b
  <1>6. /\ end[c] \in Nat /\ pos[c] \in Nat /\ size[c] \in Nat /\ end[c] <= size[c]
        /\ end'[c] = end[c] - n /\ \A x \in Chunk \ {c} : end'[x] = end[x]
    BY <1>3, <1>4 DEF TypeOK
  <1>7. Owned(blocks \cup {b}, child, handle, torn, mem, made)
    <2>1. b.pool \in U /\ b.chunk \in ChainOf(child, b.pool)
      BY <1>2, <1>4, <1>5
    <2>2. /\ \A q \in U : ChainOf(child, q) \subseteq mem
          /\ \A q, r \in U : q # r => ChainOf(child, q) \cap ChainOf(child, r) = {}
          /\ mem \subseteq 1 .. made
          /\ Owned(blocks, child, handle, torn, mem, made)
      BY ChunkFacts DEF BlocksInv
    <2> QED BY <2>1, <2>2, OwnedAdd
  <1>8. ASSUME NEW o \in blocks PROVE o.off \in Nat /\ o.len \in Nat /\ o.chunk \in Chunk
    BY DEF TypeOK
  <1>9. ASSUME NEW o \in blocks, o.chunk = b.chunk
        PROVE  /\ o.pool = b.pool
               /\ o.pool \notin mixed \cup torn =>
                    (o.kind = b.kind => Disjoint(o, b)) /\ Placed(o, pos, end', size)
    <2>1. o.pool = b.pool
      BY <1>7, <1>9 DEF Owned
    <2>2. ASSUME o.pool \notin mixed \cup torn
          PROVE  (o.kind = b.kind => Disjoint(o, b)) /\ Placed(o, pos, end', size)
      <3>1. Placed(o, pos, end, size)
        BY <2>2 DEF BlocksInv, Placing
      <3>2. CASE o.kind = "d"
        BY <1>5, <3>1, <3>2 DEF Placed
      <3>3. CASE o.kind # "d"
        <4>1. o.off >= end[c] /\ o.off + o.len <= size[o.chunk]
          BY <1>5, <1>9, <3>1, <3>3 DEF Placed
        <4>2. b.off + b.len <= o.off /\ o.off >= end'[o.chunk]
          BY <1>1, <1>5, <1>6, <1>8, <1>9, <4>1
        <4> QED BY <3>3, <4>1, <4>2 DEF Placed, Disjoint
      <3> QED BY <3>2, <3>3
    <2> QED BY <2>1, <2>2
  <1>10. Placed(b, pos, end', size)
    BY <1>1, <1>5, <1>6 DEF Placed
  <1>11. Placing(blocks \cup {b}, pos, end', size, mixed \cup torn)
    <2>1. Placing(blocks, pos, end, size, mixed \cup torn) /\ b.len > 0
      BY <1>1, <1>5 DEF BlocksInv
    <2> QED BY <1>5, <1>6, <1>8, <1>9, <1>10, <2>1, PlaceAdd
  <1> QED BY <1>3, <1>7, <1>11 DEF BlocksInv

\* The blocks the caller keeps when one is given up or resized, and a pool is
\* perhaps marked as mixed.
LEMMA OtherBlocks ==
  ASSUME BlocksInv, NEW B \in SUBSET blocks, NEW mx, mixed \cup torn \subseteq mx
  PROVE  Owned(B, child, handle, torn, mem, made) /\ Placing(B, pos, end, size, mx)
  <1>1. Owned(B, child, handle, torn, mem, made)
    BY DEF BlocksInv, Owned
  <1>2. Placing(blocks, pos, end, size, mixed \cup torn)
    BY DEF BlocksInv
  <1>3. Placing(B, pos, end, size, mx)
    BY <1>2, PlaceSub
  <1> QED BY <1>1, <1>3

LEMMA RallocInPlaceBlocks ==
  ASSUME TypeOK, ChunkInv, BlocksInv, NEW b \in blocks, NEW want \in Request,
         RallocInPlace(b, want)
  PROVE  BlocksInv'
  <1> DEFINE p == b.pool
             old == OldSize(b)
             n == Align(want, alignment[p])
             c == [b EXCEPT !.len = n, !.size = want]
             B == blocks \ {b}
             X == mixed' \cup torn
  <1>1. b \in BlockType /\ p \in Pool /\ p \in Chunk /\ old \in Nat
    BY OldSizeTyped
  <1>2. n \in Nat /\ n > 0
    BY <1>1, RoundedRequest
  <1>3. /\ b.kind = "d" /\ pos[p] >= old /\ b.chunk = p /\ b.off = pos[p] - old
        /\ pos' = [pos EXCEPT ![p] = @ + n - old]
        /\ blocks' = B \cup {c}
        /\ UNCHANGED <<size, end, child, mem, made, handle, torn>>
        /\ mixed \subseteq mixed'
        /\ p \notin mixed' => ~(old > b.len)
    BY DEF RallocInPlace, Realloc, IsLast
  <1>4. /\ c.pool = p /\ c.chunk = p /\ c.off = b.off /\ c.len = n /\ c.kind = "d"
    BY <1>1, <1>3 DEF BlockType
  <1> HIDE DEF c, n, old
  <1>5. b.off \in Nat /\ b.len \in Nat /\ pos[p] \in Nat /\ b.len > 0
    BY <1>1 DEF TypeOK, BlockType, BlocksInv, Placing
  <1> HIDE DEF p
  <1>6. /\ pos'[p] = b.off + n
        /\ \A x \in Chunk \ {p} : pos'[x] = pos[x]
    BY <1>1, <1>2, <1>3, <1>5 DEF TypeOK
  <1>7. Owned(B, child, handle, torn, mem, made) /\ Placing(B, pos, end, size, X)
    BY <1>3, OtherBlocks
  <1>8. Owned(B \cup {c}, child, handle, torn, mem, made)
    <2>1. Owned(blocks, child, handle, torn, mem, made)
      BY DEF BlocksInv
    <2>2. c.pool = b.pool /\ c.chunk = b.chunk
      BY <1>3, <1>4 DEF p
    <2> QED BY <2>1, <2>2 DEF Owned
  <1>9. ASSUME NEW o \in B PROVE o.off \in Nat /\ o.len \in Nat /\ o.chunk \in Chunk /\ o.len > 0
    BY DEF TypeOK, BlocksInv, Placing
  <1>10. ASSUME NEW o \in B, o.chunk = c.chunk
         PROVE  /\ o.pool = c.pool
                /\ o.pool \notin X =>
                     (o.kind = c.kind => Disjoint(o, c)) /\ Placed(o, pos', end, size)
    <2>1. o.pool = c.pool
      BY <1>8, <1>10 DEF Owned
    <2>2. ASSUME o.pool \notin X
          PROVE  (o.kind = c.kind => Disjoint(o, c)) /\ Placed(o, pos', end, size)
      <3>1. p \notin mixed' /\ p \notin mixed \cup torn /\ o.pool = p
        BY <1>3, <1>4, <2>1, <2>2
      <3>2. /\ Placed(o, pos, end, size) /\ Placed(b, pos, end, size)
            /\ o.kind = b.kind => Disjoint(o, b)
        BY <3>1 DEF BlocksInv, Placing, p
      <3>3. b.len = old
        BY <1>1, <1>3, <1>5, <3>1, <3>2 DEF Placed
      <3>4. CASE o.kind = "d"
        <4>1. o.off + o.len <= pos[p]
          BY <1>4, <1>10, <3>2, <3>4 DEF Placed
        <4>2. Disjoint(o, b)
          BY <1>3, <3>2, <3>4
        <4>3. o.off + o.len <= b.off
          BY <1>1, <1>3, <1>4, <1>5, <1>9, <1>10, <3>3, <4>1, <4>2 DEF Disjoint
        <4>4. o.off + o.len <= pos'[p]
          BY <1>2, <1>5, <1>6, <1>9, <4>3
        <4> QED BY <1>4, <1>10, <3>4, <4>3, <4>4 DEF Placed, Disjoint
      <3>5. CASE o.kind # "d"
        BY <1>4, <3>2, <3>5 DEF Placed
      <3> QED BY <3>4, <3>5
    <2> QED BY <2>1, <2>2
  <1>11. Placed(c, pos', end, size)
    BY <1>2, <1>4, <1>5, <1>6 DEF Placed
  <1>12. Placing(B \cup {c}, pos', end, size, X)
    <2>1. c.len > 0 /\ \A o \in B : o.chunk # c.chunk => pos'[o.chunk] = pos[o.chunk]
      BY <1>2, <1>4, <1>6, <1>9
    <2> QED BY <1>7, <1>10, <1>11, <2>1, PlaceAdd
  <1> QED BY <1>3, <1>8, <1>12 DEF BlocksInv

LEMMA RallocKeepsBlocks ==
  ASSUME TypeOK, BlocksInv, NEW b \in blocks, NEW want \in Request, RallocKeeps(b, want)
  PROVE  BlocksInv'
  <1> DEFINE c == [b EXCEPT !.size = want]
             B == blocks \ {b}
             X == mixed' \cup torn
  <1>1. /\ blocks' = B \cup {c}
        /\ UNCHANGED <<size, pos, end, child, mem, made, handle, torn>>
        /\ mixed \subseteq mixed'
    BY DEF RallocKeeps, Realloc, chunks
  <1>2. c.pool = b.pool /\ c.chunk = b.chunk /\ c.off = b.off /\ c.len = b.len /\ c.kind = b.kind
    BY DEF TypeOK
  <1> HIDE DEF c
  <1>3. Placing(B, pos, end, size, X)
    BY <1>1, OtherBlocks
  <1>4. Owned(B \cup {c}, child, handle, torn, mem, made)
    BY <1>2 DEF BlocksInv, Owned
  <1>5. ASSUME NEW o \in B, o.chunk = c.chunk
        PROVE  /\ o.pool = c.pool
               /\ o.pool \notin X =>
                    (o.kind = c.kind => Disjoint(o, c)) /\ Placed(o, pos, end, size)
    <2>1. o.pool = c.pool
      BY <1>4, <1>5 DEF Owned
    <2>2. o.pool \notin X =>
            (o.kind = b.kind => Disjoint(o, b)) /\ Placed(o, pos, end, size)
      BY <1>1 DEF BlocksInv, Placing
    <2> QED BY <1>2, <2>1, <2>2 DEF Disjoint
  <1>6. c.len > 0 /\ (c.pool \notin X => Placed(c, pos, end, size))
    <2>1. b.len > 0 /\ (b.pool \notin X => Placed(b, pos, end, size))
      BY <1>1 DEF BlocksInv, Placing
    <2> QED BY <1>2, <2>1 DEF Placed
  <1>7. Placing(B \cup {c}, pos, end, size, X)
    BY <1>3, <1>5, <1>6, PlaceAdd
  <1> QED BY <1>1, <1>4, <1>7 DEF BlocksInv

LEMMA RallocMovesBlocks ==
  ASSUME TypeOK, ChunkInv, BlocksInv, NEW b \in blocks, NEW want \in Request, RallocMoves(b, want)
  PROVE  BlocksInv'
  <1> DEFINE p == b.pool
             n == Align(want, alignment[p])
             B == blocks \ {b}
  <1>1. p \in handle \ torn /\ p \in Pool
    BY OldSizeTyped DEF RallocMoves, Realloc, Usable
  <1>2. n \in Nat /\ n > 0
    BY <1>1, RoundedRequest
  <1>3. /\ pos' = [pos EXCEPT ![p] = @ + n]
        /\ blocks' = B \cup {Block(p, p, pos[p], n, want, "d")}
        /\ UNCHANGED <<size, end, child, mem, made, handle, torn>>
        /\ mixed \subseteq mixed'
    BY DEF RallocMoves, Realloc, Fits
  <1> HIDE DEF n, p
  <1>4. p \in ChainOf(child, p)
    BY <1>1, ChunkFacts
  <1>5. /\ Owned(B, child, handle, torn, mem, made)
        /\ Placing(B, pos, end, size, mixed' \cup torn)
    BY <1>3, OtherBlocks
  <1>6. /\ Owned(blocks', child, handle, torn, mem, made)
        /\ Placing(blocks', pos', end, size, mixed' \cup torn)
    <2>1. B \in SUBSET blocks
      OBVIOUS
    <2> HIDE DEF B
    <2> QED BY <1>1, <1>2, <1>3, <1>4, <1>5, <2>1, CutFront
  <1> QED BY <1>3, <1>6 DEF BlocksInv

\* The block is put at the front of the first chunk, while another chunk is made.
LEMMA RallocSpillsBlocks ==
  ASSUME TypeOK, ChunkInv, BlocksInv, NEW b \in blocks, NEW want \in Request, RallocSpills(b, want)
  PROVE  BlocksInv'
  <1> DEFINE p == b.pool
             n == Align(want, alignment[p])
             e == current[p]
             c == Block(p, p, pos[p], n, want, "d")
             B == blocks \ {b}
             X == mixed' \cup torn
  <1>1. p \in handle \ torn /\ p \in Pool /\ p \in Chunk
    BY OldSizeTyped DEF RallocSpills, Realloc, Usable
  <1>2. n \in Nat /\ n > 0
    BY <1>1, RoundedRequest
  <1>3. /\ Grow(p, e, n, 0)
        /\ pos' = [pos EXCEPT ![made'] = 0, ![p] = @ + n]
        /\ blocks' = B \cup {c}
        /\ UNCHANGED <<handle, torn>>
        /\ mixed \subseteq mixed'
    BY DEF RallocSpills, Realloc
  <1>4. e \in ChainOf(child, p)
    BY <1>1, ChunkFacts
  <1> HIDE DEF n, e, p
  <1>5. c.pool = p /\ c.chunk = p /\ c.off = pos[p] /\ c.len = n /\ c.kind = "d"
    BY DEF Block
  <1> HIDE DEF c
  <1>6. p \in ChainOf(child', p) /\ p # made + 1
    <2>1. ChunkInv'
      BY ChunkStep DEF Next
    <2>2. child' \in Link
      BY TypeStep DEF Next, TypeOK, Link
    <2>3. p \in 1 .. made
      BY <1>1 DEF ChunkInv
    <2> QED BY <1>1, <2>2, <2>3, ChainStart DEF TypeOK
  <1>7. /\ pos[p] \in Nat /\ pos'[p] = pos[p] + n
        /\ \A y \in Chunk \ {p, made + 1} : pos'[y] = pos[y]
    BY <1>1, <1>3, <1>6, GrowMade DEF TypeOK
  <1>8. Owned(B \cup {c}, child', handle, torn, mem', made')
    <2>1. Owned(blocks, child', handle, torn, mem', made')
      BY <1>1, <1>3, <1>4, GrownBlocks
    <2>2. Owned(B, child', handle, torn, mem', made')
      BY <2>1 DEF Owned
    <2>3. /\ mem' \subseteq 1 .. made'
          /\ \A q \in handle \ torn : ChainOf(child', q) \subseteq mem'
          /\ \A q, r \in handle \ torn : q # r => ChainOf(child', q) \cap ChainOf(child', r) = {}
      BY <1>1, <1>3, <1>4, GrownBlocks
    <2>4. c.pool \in handle \ torn /\ c.chunk \in ChainOf(child', c.pool)
      BY <1>1, <1>5, <1>6
    <2> HIDE DEF B
    <2> QED BY <2>2, <2>3, <2>4, OwnedAdd
  <1>9. Placing(B, pos, end, size, X)
    BY <1>3, OtherBlocks
  <1>10. ASSUME NEW o \in B
         PROVE  /\ o.off \in Nat /\ o.len \in Nat /\ o.chunk \in Chunk \ {made + 1}
                /\ end'[o.chunk] = end[o.chunk] /\ size'[o.chunk] = size[o.chunk]
    BY <1>1, <1>3, <1>4, GrownBlocks DEF TypeOK
  <1>11. ASSUME NEW o \in B, o.chunk = c.chunk
         PROVE  /\ o.pool = c.pool
                /\ o.pool \notin X =>
                     (o.kind = c.kind => Disjoint(o, c)) /\ Placed(o, pos', end', size')
    <2>1. o.pool = c.pool
      BY <1>8, <1>11 DEF Owned
    <2>2. ASSUME o.pool \notin X
          PROVE  (o.kind = c.kind => Disjoint(o, c)) /\ Placed(o, pos', end', size')
      <3>1. Placed(o, pos, end, size)
        BY <1>9, <2>2 DEF Placing
      <3>2. CASE o.kind = "d"
        <4>1. o.off + o.len <= pos[p]
          BY <1>5, <1>11, <3>1, <3>2 DEF Placed
        <4>2. o.off + o.len <= pos'[p]
          BY <1>2, <1>7, <1>10, <4>1
        <4> QED BY <1>5, <1>11, <3>2, <4>1, <4>2 DEF Placed, Disjoint
      <3>3. CASE o.kind # "d"
        BY <1>5, <1>10, <3>1, <3>3 DEF Placed
      <3> QED BY <3>2, <3>3
    <2> QED BY <2>1, <2>2
  <1>12. Placed(c, pos', end', size')
    BY <1>2, <1>5, <1>7 DEF Placed
  <1>13. Placing(B \cup {c}, pos', end', size', X)
    <2>1. c.len > 0
      BY <1>2, <1>5
    <2>2. \A o \in B : o.chunk # c.chunk => /\ pos'[o.chunk] = pos[o.chunk]
                                            /\ end'[o.chunk] = end[o.chunk]
                                            /\ size'[o.chunk] = size[o.chunk]
      BY <1>5, <1>7, <1>10
    <2> QED BY <1>9, <1>11, <1>12, <2>1, <2>2, PlaceAdd
  <1> QED BY <1>3, <1>8, <1>13 DEF BlocksInv

LEMMA MergeBlocks ==
  ASSUME TypeOK, ChunkInv, BlocksInv, NEW dest \in Pool, NEW src \in Pool, Merge(dest, src)
  PROVE  BlocksInv'
  <1> DEFINE to(b) == IF b.pool = src THEN [b EXCEPT !.pool = dest] ELSE b
             U == handle \ torn
             U2 == U \ {src}
  <1>1. /\ handle' = handle \ {src}
        /\ blocks' = {to(b) : b \in blocks}
        /\ mixed' = IF src \in mixed THEN mixed \cup {dest} ELSE mixed
        /\ UNCHANGED <<size, pos, end, mem, made, torn>>
    BY DEF Merge
  <1>2. /\ dest \in U /\ src \in U /\ dest # src
        /\ ChainOf(child', dest) = ChainOf(child, dest) \cup {src}
        /\ \A q \in handle \ {dest, src} : /\ ChainOf(child', q) = ChainOf(child, q)
                                           /\ src \notin ChainOf(child, q)
    BY MergeChains
  <1>3. ASSUME NEW b \in blocks
        PROVE  /\ to(b).chunk = b.chunk /\ to(b).off = b.off /\ to(b).len = b.len
               /\ to(b).kind = b.kind
               /\ to(b).pool = IF b.pool = src THEN dest ELSE b.pool
    BY DEF TypeOK
  <1> HIDE DEF to
  <1>4. src \in ChainOf(child, src)
    BY <1>2, ChunkFacts
  <1>5. Owned(blocks, child, handle, torn, mem, made)
    BY DEF BlocksInv
  <1>6. \A b \in blocks :
          /\ to(b).chunk \in 1 .. made
          /\ to(b).pool \in torn \/ (to(b).pool \in handle' /\ to(b).chunk \in mem)
    BY <1>1, <1>2, <1>3, <1>5 DEF Owned
  <1>7. ASSUME NEW b \in blocks, NEW q \in U2, b.chunk \in ChainOf(child', q)
        PROVE  to(b).pool = q
    <2>1. CASE q = dest
      <3>1. b.pool = src \/ b.pool = dest
        BY <1>2, <1>4, <1>5, <1>7, <2>1 DEF Owned
      <3> QED BY <1>3, <2>1, <3>1
    <2>2. CASE q # dest
      <3>1. b.pool = q
        BY <1>2, <1>5, <1>7, <2>2 DEF Owned
      <3> QED BY <1>3, <3>1
    <2> QED BY <2>1, <2>2
  <1>8. \A b, c \in blocks : to(b).chunk = to(c).chunk => to(b).pool = to(c).pool
    BY <1>3, <1>5 DEF Owned
  <1>9. Owned(blocks', child', handle', torn, mem, made)
    <2>1. \A b \in blocks' : /\ b.chunk \in 1 .. made
                             /\ b.pool \in torn \/ (b.pool \in handle' /\ b.chunk \in mem)
      BY <1>1, <1>6
    <2>2. \A b \in blocks' : \A q \in U2 : b.chunk \in ChainOf(child', q) => b.pool = q
      BY <1>1, <1>3, <1>7
    <2>3. \A b, c \in blocks' : b.chunk = c.chunk => b.pool = c.pool
      BY <1>1, <1>8
    <2>4. U2 = handle' \ torn
      BY <1>1
    <2> QED BY <2>1, <2>2, <2>3, <2>4 DEF Owned
  <1>10. \A b \in blocks : to(b).pool \notin mixed' \cup torn => b.pool \notin mixed \cup torn
    BY <1>1, <1>2, <1>3
  <1>11. Placing(blocks', pos, end, size, mixed' \cup torn)
    <2>1. Placing(blocks, pos, end, size, mixed \cup torn)
      BY DEF BlocksInv
    <2>2. \A b \in blocks' : b.len > 0
      BY <1>1, <1>3, <2>1 DEF Placing
    <2>3. \A b \in blocks' : b.pool \notin mixed' \cup torn => Placed(b, pos, end, size)
      <3>1. ASSUME NEW b \in blocks, to(b).pool \notin mixed' \cup torn
            PROVE  Placed(to(b), pos, end, size)
        BY <1>3, <1>10, <2>1, <3>1 DEF Placing, Placed
      <3> QED BY <1>1, <3>1
    <2>4. \A b, c \in blocks' :
            b # c /\ b.kind = c.kind /\ b.pool \notin mixed' \cup torn => Disjoint(b, c)
      <3>1. ASSUME NEW b \in blocks, NEW c \in blocks, to(b) # to(c),
                   to(b).kind = to(c).kind, to(b).pool \notin mixed' \cup torn
            PROVE  Disjoint(to(b), to(c))
        <4>1. b # c /\ b.kind = c.kind /\ b.pool \notin mixed \cup torn
          BY <1>3, <1>10, <3>1
        <4>2. Disjoint(b, c)
          BY <2>1, <4>1 DEF Placing
        <4> QED BY <1>3, <4>2 DEF Disjoint
      <3> QED BY <1>1, <3>1
    <2> QED BY <2>2, <2>3, <2>4 DEF Placing
  <1> QED BY <1>1, <1>9, <1>11 DEF BlocksInv

\* A pool is rewound, and what is left of its blocks was taken from the back.
LEMMA RewindBlocks ==
  ASSUME TypeOK, ChunkInv, BlocksInv, NEW p \in handle \ torn, Rewind(Chain(p)), GiveBack(p),
         UNCHANGED <<size, end, child, mem, made, handle, torn, mixed>>
  PROVE  BlocksInv'
  <1>1. /\ pos' = [c \in Chunk |-> IF c \in ChainOf(child, p) THEN 0 ELSE pos[c]]
        /\ blocks' = {b \in blocks : b.pool # p \/ b.kind = "n"}
    BY ChainNow DEF Rewind, GiveBack
  <1>2. Owned(blocks', child, handle, torn, mem, made)
    BY <1>1, OtherBlocks
  <1>3. ASSUME NEW b \in blocks', Placed(b, pos, end, size) PROVE Placed(b, pos', end, size)
    <2>1. CASE b.kind = "d"
      <3>1. b \in blocks /\ b.pool # p /\ b.chunk \in Chunk
        BY <1>1, <2>1 DEF TypeOK
      <3>2. b.chunk \notin ChainOf(child, p)
        BY <3>1 DEF BlocksInv, Owned
      <3>3. pos'[b.chunk] = pos[b.chunk]
        BY <1>1, <3>1, <3>2
      <3> QED BY <1>3, <2>1, <3>3 DEF Placed
    <2>2. CASE b.kind # "d"
      BY <1>3, <2>2 DEF Placed
    <2> QED BY <2>1, <2>2
  <1>4. Placing(blocks', pos', end, size, mixed \cup torn)
    <2>1. Placing(blocks, pos, end, size, mixed \cup torn) /\ blocks' \in SUBSET blocks
      BY <1>1 DEF BlocksInv
    <2> QED BY <1>3, <2>1, PlaceSub
  <1> QED BY <1>2, <1>4 DEF BlocksInv

\* A pool is shrunk: its blocks are where they were, but nothing is said of them.
LEMMA ShrinkBlocks ==
  ASSUME TypeOK, ChunkInv, BlocksInv, NEW p \in handle \ torn, NEW S, Rewind(S),
         S \subseteq ChainOf(child, p), NEW F \in SUBSET ChainOf(child, p), mem' = mem \ F,
         mixed \cup torn \cup {p} \subseteq mixed' \cup torn', torn \subseteq torn',
         p \in torn' \/ F = {},
         UNCHANGED <<size, end, child, made, handle, blocks>>
  PROVE  BlocksInv'
  <1>1. Owned(blocks, child, handle, torn', mem', made)
    <2>1. Owned(blocks, child, handle, torn, mem, made)
      BY DEF BlocksInv
    <2>2. ASSUME NEW b \in blocks
          PROVE  b.pool \in torn' \/ (b.pool \in handle /\ b.chunk \in mem')
      BY <2>1 DEF Owned
    <2> QED BY <2>1, <2>2, OwnedSub
  <1>2. ASSUME NEW b \in blocks, b.pool \notin mixed' \cup torn', Placed(b, pos, end, size)
        PROVE  Placed(b, pos', end, size)
    <2>1. b.pool # p /\ b.chunk \in Chunk
      BY <1>2 DEF TypeOK
    <2>2. b.chunk \notin ChainOf(child, p)
      BY <2>1 DEF BlocksInv, Owned
    <2>3. pos'[b.chunk] = pos[b.chunk]
      BY <2>1, <2>2 DEF Rewind
    <2> QED BY <1>2, <2>3 DEF Placed
  <1>3. Placing(blocks, pos', end, size, mixed' \cup torn')
    <2>1. Placing(blocks, pos, end, size, mixed \cup torn)
      BY DEF BlocksInv
    <2>2. mixed \cup torn \subseteq mixed' \cup torn'
      OBVIOUS
    <2> QED BY <1>2, <2>1, <2>2, PlaceSub
  <1> QED BY <1>1, <1>3 DEF BlocksInv

\* A pool and its blocks are given up, with its chunks.
LEMMA GiveUpBlocks ==
  ASSUME TypeOK, ChunkInv, BlocksInv, NEW p \in handle \ torn,
         handle' = handle \ {p},
         blocks' = {b \in blocks : b.pool # p},
         mem \ ChainOf(child, p) \subseteq mem',
         UNCHANGED <<size, pos, end, child, made, torn, mixed>>
  PROVE  BlocksInv'
  <1>1. Owned(blocks, child, handle, torn, mem, made)
    BY DEF BlocksInv
  <1>2. Owned(blocks', child, handle', torn, mem', made)
    BY <1>1 DEF Owned
  <1>3. Placing(blocks', pos, end, size, mixed \cup torn)
    BY OtherBlocks
  <1> QED BY <1>2, <1>3 DEF BlocksInv

LEMMA BlocksInit == Init => BlocksInv
  BY DEF Init, BlocksInv, Owned, Placing

LEMMA BlocksStep == TypeOK /\ ChunkInv /\ BlocksInv /\ [Next]_vars => BlocksInv'
  <1> SUFFICES ASSUME TypeOK, ChunkInv, BlocksInv, [Next]_vars PROVE BlocksInv'
    OBVIOUS
  <1>1. ASSUME NEW p \in Pool, NEW n \in Request,
               DallocFits(p, n) \/ DallocGrows(p, n) \/ NallocFits(p, n) \/ NallocGrows(p, n)
        PROVE  BlocksInv'
    BY <1>1, DallocFitsBlocks, DallocGrowsBlocks, NallocFitsBlocks, NallocGrowsBlocks
  <1>2. ASSUME NEW b \in blocks, NEW n \in Request,
               RallocInPlace(b, n) \/ RallocKeeps(b, n) \/ RallocMoves(b, n) \/ RallocSpills(b, n)
        PROVE  BlocksInv'
    BY <1>2, RallocInPlaceBlocks, RallocKeepsBlocks, RallocMovesBlocks, RallocSpillsBlocks
  <1>3. ASSUME NEW p \in Pool, NEW a \in Alignment, SetAlignment(p, a) PROVE BlocksInv'
    BY <1>3 DEF SetAlignment, BlocksInv, chunks, ghosts
  <1>4. ASSUME NEW p \in Pool, NEW q \in Pool, Merge(p, q) PROVE BlocksInv'
    BY <1>4, MergeBlocks
  <1>5. ASSUME NEW p \in Pool, Reset(p) \/ Clear(p) PROVE BlocksInv'
    BY <1>5, RewindBlocks DEF Reset, Clear, Usable
  <1>6. ASSUME NEW p \in Pool, Free(p) PROVE BlocksInv'
    <2>1. /\ p \in handle \ torn
          /\ handle' = handle \ {p}
          /\ blocks' = {b \in blocks : b.pool # p}
          /\ mem \ ChainOf(child, p) \subseteq mem'
          /\ UNCHANGED <<size, pos, end, child, made, torn, mixed>>
      BY <1>6, ChainNow DEF Free, Usable, ghosts
    <2> QED BY <2>1, GiveUpBlocks
  <1>7. ASSUME NEW p \in Pool, NEW n \in 0 .. 1, Shrink(p, n) PROVE BlocksInv'
    <2>1. p \in handle \ torn /\ UNCHANGED <<size, end, child, made, handle, blocks>>
      BY <1>7, ShrinkCases
    <2>2. CASE /\ \E S \in SUBSET ChainOf(child, p) :
                    mem' = mem \ S /\ Rewind(ChainOf(child, p) \ S)
               /\ torn' = torn \cup {p}
               /\ UNCHANGED mixed
      <3>1. PICK S \in SUBSET ChainOf(child, p) : mem' = mem \ S /\ Rewind(ChainOf(child, p) \ S)
        BY <2>2
      <3> QED BY <2>1, <2>2, <3>1, ShrinkBlocks
    <2>3. CASE /\ Rewind(ChainOf(child, p))
               /\ mixed' = mixed \cup {p}
               /\ UNCHANGED <<mem, torn>>
      <3>1. mem' = mem \ {}
        BY <2>3
      <3> QED BY <2>1, <2>3, <3>1, ShrinkBlocks
    <2> QED BY <1>7, <2>2, <2>3, ShrinkCases
  <1>8. CASE UNCHANGED vars
    BY <1>8 DEF BlocksInv, vars, chunks, ghosts
  <1>9. ASSUME NEW b \in blocks, Write(b) PROVE BlocksInv'
    BY <1>9 DEF Write, BlocksInv, chunks, ghosts
  <1> QED BY <1>1, <1>2, <1>3, <1>4, <1>5, <1>6, <1>7, <1>8, <1>9 DEF Next

\* A block the caller has lies in an allocated chunk, in the part that is accounted
\* for, and shares no byte with another one of the chunk.  Three kinds of calls the
\* code accepts are excepted, for the pool they were made on: a reallocation that did
\* not fit, between a block from the front and one from the back; a reallocation
\* after the alignment was raised; a shrink that found too many chunks.
THEOREM BlocksApartHolds == Spec => []BlocksApart
  <1>1. Init => TypeOK /\ ChunkInv /\ BlocksInv
    BY TypeInit, ChunkInit, BlocksInit
  <1>2. TypeOK /\ ChunkInv /\ BlocksInv /\ [Next]_vars => TypeOK' /\ ChunkInv' /\ BlocksInv'
    BY TypeStep, ChunkStep, BlocksStep
  <1>3. TypeOK /\ BlocksInv => BlocksApart
    BY BlocksInvApart
  <1> QED BY <1>1, <1>2, <1>3, PTL DEF Spec
--------------------------------------------------------------------------------
(* Fresh memory.  A chunk that is not made yet has no dirty byte.               *)

\* Chunk c is zero between its front and its back.
Clean(c, ps, en, D) == \A i \in ps[c] .. en[c] - 1 : <<c, i>> \notin D

Fresh(f, U, ps, en, D) == \A p \in U : \A c \in ChainOf(f, p) : Clean(c, ps, en, D)

FreshInv ==
  /\ Fresh(child, handle \ (stale \cup mixed \cup torn), pos, end, dirty)
  /\ \A c \in Chunk, i \in Nat : <<c, i>> \in dirty => c <= made

\* Freeing the first chunk of a pool leaves the caller with memory that was freed.
TornOutside == torn # {} => outside = "yes"

LEMMA FreshInvZero == TornOutside /\ FreshInv => FreshZero
  BY DEF TornOutside, FreshInv, Fresh, Clean, FreshZero, Chain, ChainOf, Down, DownOf

\* The bytes of a block.
LEMMA InBlock ==
  ASSUME NEW p, NEW c, NEW off, NEW n, NEW want, NEW kind, NEW y, NEW i,
         <<y, i>> \in Bytes(Block(p, c, off, n, want, kind))
  PROVE  y = c /\ i \in off .. off + n - 1
  BY DEF Bytes, Block

\* A step that touches only chunks of pool p, or a chunk it makes, leaves the chunks
\* of every other pool clean.
LEMMA OthersClean ==
  ASSUME TypeOK, ChunkInv, FreshInv, NEW p \in handle \ torn,
         \A c \in Chunk \ (ChainOf(child, p) \cup {made + 1}) :
           /\ pos'[c] = pos[c] /\ end'[c] = end[c]
           /\ \A i : <<c, i>> \in dirty' => <<c, i>> \in dirty,
         NEW q \in handle \ (stale \cup mixed \cup torn), q # p
  PROVE  \A c \in ChainOf(child, q) : Clean(c, pos', end', dirty')
  <1> TAKE c \in ChainOf(child, q)
  <1>1. c \in Chunk \ (ChainOf(child, p) \cup {made + 1})
    BY ChunkFacts
  <1>2. Clean(c, pos, end, dirty)
    BY DEF FreshInv, Fresh
  <1> QED BY <1>1, <1>2 DEF Clean

\* A block is cut at the front of chunk c of pool p.
LEMMA FreshFront ==
  ASSUME TypeOK, ChunkInv, FreshInv, NEW p \in handle \ torn, NEW c \in ChainOf(child, p),
         NEW n \in Nat, NEW want, pos' = [pos EXCEPT ![c] = @ + n],
         dirty' = dirty \cup Bytes(Block(p, c, pos[c], n, want, "d")),
         stale \subseteq stale', mixed \subseteq mixed',
         UNCHANGED <<end, child, made, handle, torn>>
  PROVE  FreshInv'
  <1>1. c \in Chunk /\ c <= made /\ pos[c] \in Nat /\ end[c] \in Nat
    <2>1. c \in 1 .. made /\ c \in Chunk
      BY ChunkFacts
    <2> QED BY <2>1 DEF TypeOK
  <1>2. pos'[c] = pos[c] + n /\ \A y \in Chunk \ {c} : pos'[y] = pos[y]
    BY <1>1 DEF TypeOK
  <1>3. \A y, i : <<y, i>> \in dirty' => \/ <<y, i>> \in dirty
                                         \/ (y = c /\ i \in pos[c] .. pos[c] + n - 1)
    BY InBlock
  <1>4. ASSUME NEW q \in handle \ (stale' \cup mixed' \cup torn), NEW y \in ChainOf(child, q)
        PROVE  Clean(y, pos', end', dirty')
    <2>1. q \in handle \ (stale \cup mixed \cup torn)
      BY <1>4
    <2>2. CASE q # p
      BY <1>1, <1>2, <1>3, <2>1, <2>2, OthersClean
    <2>3. CASE q = p
      <3>1. Clean(y, pos, end, dirty) /\ y \in Chunk
        BY <2>1, ChunkFacts DEF FreshInv, Fresh
      <3>2. ASSUME NEW i \in pos'[y] .. end[y] - 1 PROVE <<y, i>> \notin dirty'
        <4>1. CASE y = c
          BY <1>1, <1>2, <1>3, <3>1, <4>1 DEF Clean
        <4>2. CASE y # c
          BY <1>2, <1>3, <3>1, <4>2 DEF Clean
        <4> QED BY <4>1, <4>2
      <3> QED BY <3>2 DEF Clean
    <2> QED BY <2>2, <2>3
  <1>5. \A y \in Chunk, i \in Nat : <<y, i>> \in dirty' => y <= made
    BY <1>1, <1>3 DEF FreshInv
  <1> QED BY <1>4, <1>5 DEF FreshInv, Fresh

\* A chunk is made, in which the caller is given no byte between the front and the
\* back; in a chunk of the pool that is touched too, the front is at the back or past it.
LEMMA FreshNew ==
  ASSUME TypeOK, ChunkInv, FreshInv, NEW p \in handle \ torn, NEW c \in ChainOf(child, p),
         NEW n, NEW back, Grow(p, c, n, back), pos' \in [Chunk -> Nat], NEW X,
         \A y, i : <<y, i>> \in X => y \in 1 .. made + 1,
         \A i \in pos'[made + 1] .. end'[made + 1] - 1 : <<made + 1, i>> \notin X,
         \A y \in Chunk \ {made + 1} :
           \/ pos'[y] = pos[y] /\ \A i : <<y, i>> \notin X
           \/ y \in ChainOf(child, p) /\ pos'[y] >= end[y],
         dirty' = dirty \cup X,
         UNCHANGED <<handle, torn>>, stale \subseteq stale', mixed \subseteq mixed'
  PROVE  FreshInv'
  <1> DEFINE x == made + 1
  <1>1. /\ x \in Chunk
        /\ ChainOf(child', p) \subseteq ChainOf(child, p) \cup {x}
        /\ \A q \in handle \ {p} : ChainOf(child', q) = ChainOf(child, q)
    BY GrowChains
  <1>2. made' = made + 1 /\ made \in Nat
    BY GrowMade
  <1>3. \A y \in Chunk \ {x} : end'[y] = end[y] /\ end[y] \in Nat /\ pos'[y] \in Nat
    BY GrowMade DEF TypeOK
  <1>4. ASSUME NEW y \in Chunk \ {x}, Clean(y, pos, end, dirty)
        PROVE  Clean(y, pos', end', dirty')
    <2>1. CASE pos'[y] = pos[y] /\ \A i : <<y, i>> \notin X
      BY <1>3, <1>4, <2>1 DEF Clean
    <2>2. CASE y \in ChainOf(child, p) /\ pos'[y] >= end[y]
      <3>1. ASSUME NEW i \in pos'[y] .. end'[y] - 1 PROVE FALSE
        BY <1>3, <2>2, <3>1
      <3> QED BY <3>1 DEF Clean
    <2> QED BY <2>1, <2>2
  <1>5. Clean(x, pos', end', dirty')
    <2> SUFFICES ASSUME NEW i \in pos'[x] .. end'[x] - 1, <<x, i>> \in dirty PROVE FALSE
      BY DEF Clean
    <2>1. i \in Nat
      BY <1>1
    <2> QED BY <1>1, <1>2, <2>1 DEF FreshInv
  <1>6. ASSUME NEW q \in handle' \ (stale' \cup mixed' \cup torn'), NEW y \in ChainOf(child', q)
        PROVE  Clean(y, pos', end', dirty')
    <2>1. q \in handle \ (stale \cup mixed \cup torn)
      BY <1>6
    <2>2. CASE y # x
      <3>1. y \in ChainOf(child, q)
        BY <1>1, <1>6, <2>1, <2>2
      <3>2. Clean(y, pos, end, dirty) /\ y \in Chunk
        BY <2>1, <3>1, ChunkFacts DEF FreshInv, Fresh
      <3> QED BY <1>4, <2>2, <3>2
    <2> QED BY <1>5, <2>2
  <1>7. ASSUME NEW y \in Chunk, NEW i \in Nat, <<y, i>> \in dirty' PROVE y <= made'
    <2>1. CASE <<y, i>> \in X
      BY <1>2, <2>1
    <2>2. CASE <<y, i>> \in dirty
      <3>1. y <= made /\ y \in Nat
        BY <2>2 DEF FreshInv, Chunk
      <3> QED BY <1>2, <3>1
    <2> QED BY <1>7, <2>1, <2>2
  <1> QED BY <1>6, <1>7 DEF FreshInv, Fresh

\* A pool is rewound, or given up, or nothing of the kind: the other pools keep what
\* they have, and what is dirty was dirty before.
LEMMA FreshLess ==
  ASSUME TypeOK, ChunkInv, FreshInv, NEW p \in handle \ torn,
         \A c \in Chunk \ ChainOf(child, p) : pos'[c] = pos[c], dirty' \subseteq dirty,
         handle' \subseteq handle, torn \subseteq torn',
         stale \ {p} \subseteq stale', mixed \subseteq mixed',
         p \in handle' \ (stale' \cup mixed' \cup torn') =>
           \A c \in ChainOf(child, p) : Clean(c, pos', end, dirty'),
         UNCHANGED <<end, child, made>>
  PROVE  FreshInv'
  <1>1. ASSUME NEW q \in handle' \ (stale' \cup mixed' \cup torn'), NEW y \in ChainOf(child, q)
        PROVE  Clean(y, pos', end', dirty')
    <2>1. CASE q = p
      BY <1>1, <2>1
    <2>2. CASE q # p
      <3>1. q \in handle \ (stale \cup mixed \cup torn)
        BY <1>1, <2>2
      <3> QED BY <2>2, <3>1, OthersClean
    <2> QED BY <2>1, <2>2
  <1> QED BY <1>1 DEF FreshInv, Fresh

LEMMA NallocFitsFresh ==
  ASSUME TypeOK, ChunkInv, FreshInv, NEW p \in Pool, NEW want \in Request, NallocFits(p, want)
  PROVE  FreshInv'
  <1> DEFINE n == Align(want, alignment[p])
             c == current[p]
  <1>1. n \in Nat
    BY RoundedRequest
  <1>2. p \in handle \ torn
    BY DEF NallocFits, Usable
  <1>3. /\ end' = [end EXCEPT ![c] = @ - n]
        /\ dirty' = dirty \cup Bytes(Block(p, c, end[c] - n, n, want, "n"))
        /\ UNCHANGED <<pos, child, made, handle, stale, mixed, torn>>
    BY DEF NallocFits, Give, ghosts
  <1>4. c \in ChainOf(child, p) /\ c \in Chunk /\ c <= made
    <2>1. c \in ChainOf(child, p) /\ c \in 1 .. made /\ c \in Chunk
      BY <1>2, ChunkFacts
    <2> QED BY <2>1
  <1> HIDE DEF n, c
  <1>5. /\ pos[c] \in Nat /\ end[c] \in Nat
        /\ end'[c] = end[c] - n /\ \A y \in Chunk \ {c} : end'[y] = end[y]
    BY <1>3, <1>4 DEF TypeOK
  <1>6. \A y, i : <<y, i>> \in dirty' => \/ <<y, i>> \in dirty
                                         \/ (y = c /\ i \in end[c] - n .. (end[c] - n) + n - 1)
    BY <1>3, InBlock
  <1>7. ASSUME NEW q \in handle \ (stale \cup mixed \cup torn), NEW y \in ChainOf(child, q)
        PROVE  Clean(y, pos', end', dirty')
    <2>1. CASE q # p
      BY <1>2, <1>3, <1>4, <1>5, <1>6, <2>1, OthersClean
    <2>2. CASE q = p
      <3>1. Clean(y, pos, end, dirty) /\ y \in Chunk
        BY <1>7, ChunkFacts DEF FreshInv, Fresh
      <3>2. ASSUME NEW i \in pos[y] .. end'[y] - 1 PROVE <<y, i>> \notin dirty'
        <4>1. CASE y = c
          BY <1>1, <1>5, <1>6, <3>1, <4>1 DEF Clean
        <4>2. CASE y # c
          BY <1>5, <1>6, <3>1, <4>2 DEF Clean
        <4> QED BY <4>1, <4>2
      <3> QED BY <1>3, <3>2 DEF Clean
    <2> QED BY <2>1, <2>2
  <1>8. \A y \in Chunk, i \in Nat : <<y, i>> \in dirty' => y <= made
    BY <1>4, <1>6 DEF FreshInv
  <1> QED BY <1>3, <1>7, <1>8 DEF FreshInv, Fresh

\* The block ends where the front of the chunk is, before and after, and the bytes it
\* gives back are filled with zero.
LEMMA RallocInPlaceFresh ==
  ASSUME TypeOK, ChunkInv, FreshInv, NEW b \in blocks, NEW want \in Request,
         RallocInPlace(b, want)
  PROVE  FreshInv'
  <1> DEFINE p == b.pool
             old == OldSize(b)
             n == Align(want, alignment[p])
             c == [b EXCEPT !.len = n, !.size = want]
             Z == {<<p, i>> : i \in pos'[p] .. pos[p] - 1}
  <1>1. b \in BlockType /\ p \in Pool /\ p \in Chunk /\ old \in Nat
    BY OldSizeTyped
  <1>2. n \in Nat
    BY <1>1, RoundedRequest
  <1>3. /\ p \in handle \ torn
        /\ pos[p] >= old /\ b.chunk = p /\ b.off = pos[p] - old
        /\ pos' = [pos EXCEPT ![p] = @ + n - old]
        /\ dirty' = (dirty \ Z) \cup Bytes(c)
        /\ mixed \subseteq mixed'
        /\ UNCHANGED <<end, child, made, handle, stale, torn>>
    BY DEF RallocInPlace, Realloc, IsLast, Usable
  <1>4. c.chunk = p /\ c.off = b.off /\ c.len = n
    BY <1>1, <1>3 DEF BlockType
  <1>5. ASSUME NEW y, NEW i, <<y, i>> \in Bytes(c) PROVE y = p /\ i \in b.off .. b.off + n - 1
    <2> HIDE DEF c
    <2> QED BY <1>4, <1>5 DEF Bytes
  <1> HIDE DEF c, n, old
  <1>6. p \in ChainOf(child, p) /\ p <= made
    <2>1. p \in ChainOf(child, p) /\ p \in 1 .. made
      BY <1>3, ChunkFacts
    <2> QED BY <2>1
  <1>7. b.off \in Nat /\ pos[p] \in Nat /\ end[p] \in Nat
    BY <1>1 DEF TypeOK, BlockType
  <1>8. \A i \in pos'[p] .. pos[p] - 1 : <<p, i>> \in Z
    OBVIOUS
  <1> HIDE DEF p, Z
  <1>9. pos'[p] = b.off + n /\ \A y \in Chunk \ {p} : pos'[y] = pos[y]
    BY <1>1, <1>2, <1>3, <1>7 DEF TypeOK
  <1>10. \A y, i : <<y, i>> \in dirty' => \/ (<<y, i>> \in dirty /\ <<y, i>> \notin Z)
                                          \/ (y = p /\ i \in b.off .. b.off + n - 1)
    BY <1>3, <1>5
  <1>11. ASSUME NEW q \in handle \ (stale \cup mixed' \cup torn), NEW y \in ChainOf(child, q)
         PROVE  Clean(y, pos', end', dirty')
    <2>1. q \in handle \ (stale \cup mixed \cup torn)
      BY <1>3, <1>11
    <2>2. CASE q # p
      <3>1. \A z \in Chunk \ (ChainOf(child, p) \cup {made + 1}) :
              /\ pos'[z] = pos[z] /\ end'[z] = end[z]
              /\ \A i : <<z, i>> \in dirty' => <<z, i>> \in dirty
        BY <1>3, <1>6, <1>9, <1>10
      <3>2. p \in handle \ torn
        BY <1>3
      <3> QED BY <2>1, <2>2, <3>1, <3>2, OthersClean
    <2>3. CASE q = p
      <3>1. Clean(y, pos, end, dirty) /\ y \in Chunk
        BY <2>1, ChunkFacts DEF FreshInv, Fresh
      <3>2. ASSUME NEW i \in pos'[y] .. end[y] - 1 PROVE <<y, i>> \notin dirty'
        <4>1. CASE y = p
          <5>1. ~(i \in b.off .. b.off + n - 1) /\ i \in Int
            BY <1>2, <1>7, <1>9, <4>1
          <5>2. CASE i < pos[p]
            BY <1>2, <1>7, <1>8, <1>9, <1>10, <4>1, <5>1, <5>2
          <5>3. CASE i >= pos[p]
            BY <1>2, <1>7, <1>9, <1>10, <3>1, <4>1, <5>1, <5>3 DEF Clean
          <5> QED BY <1>7, <5>1, <5>2, <5>3
        <4>2. CASE y # p
          BY <1>9, <1>10, <3>1, <4>2 DEF Clean
        <4> QED BY <4>1, <4>2
      <3> QED BY <1>3, <3>2 DEF Clean
    <2> QED BY <2>2, <2>3
  <1>12. \A y \in Chunk, i \in Nat : <<y, i>> \in dirty' => y <= made
    BY <1>6, <1>10 DEF FreshInv
  <1> QED BY <1>3, <1>11, <1>12 DEF FreshInv, Fresh

LEMMA MergeFresh ==
  ASSUME TypeOK, ChunkInv, FreshInv, NEW dest \in Pool, NEW src \in Pool, Merge(dest, src)
  PROVE  FreshInv'
  <1>1. /\ handle' = handle \ {src}
        /\ stale' = IF src \in stale THEN stale \cup {dest} ELSE stale
        /\ mixed' = IF src \in mixed THEN mixed \cup {dest} ELSE mixed
        /\ UNCHANGED <<pos, end, made, dirty, torn>>
    BY DEF Merge
  <1>2. /\ dest \in handle \ torn /\ src \in handle \ torn /\ dest # src
        /\ ChainOf(child', dest) = ChainOf(child, dest) \cup {src}
        /\ \A q \in handle \ {dest, src} : ChainOf(child', q) = ChainOf(child, q)
    BY MergeChains
  <1>3. src \in ChainOf(child, src)
    BY <1>2, ChunkFacts
  <1>4. ASSUME NEW q \in handle' \ (stale' \cup mixed' \cup torn'), NEW y \in ChainOf(child', q)
        PROVE  Clean(y, pos, end, dirty)
    <2>1. q \in handle \ (stale \cup mixed \cup torn) /\ q # src
      BY <1>1, <1>4
    <2>2. CASE q # dest
      BY <1>2, <1>4, <2>1, <2>2 DEF FreshInv, Fresh
    <2>3. CASE q = dest
      <3>1. src \in handle \ (stale \cup mixed \cup torn)
        BY <1>1, <1>2, <1>4, <2>3
      <3>2. y = src \/ y \in ChainOf(child, dest)
        BY <1>2, <1>4, <2>3
      <3> QED BY <1>3, <2>1, <2>3, <3>1, <3>2 DEF FreshInv, Fresh
    <2> QED BY <2>2, <2>3
  <1> QED BY <1>1, <1>4 DEF FreshInv, Fresh

\* The caller writes to a block it has, which is not in the memory handed out next.
LEMMA WriteFresh ==
  ASSUME TypeOK, ChunkInv, BlocksInv, FreshInv, NEW b \in blocks, Write(b)
  PROVE  FreshInv'
  <1>1. /\ dirty' = dirty \cup Bytes(b)
        /\ UNCHANGED <<pos, end, child, made, handle, stale, mixed, torn>>
    BY DEF Write, chunks, ghosts
  <1>2. b \in BlockType /\ b.chunk \in 1 .. made
    BY OldSizeTyped DEF BlocksInv, Owned
  <1>3. ASSUME NEW y, NEW i, <<y, i>> \in Bytes(b)
        PROVE  y = b.chunk /\ i \in b.off .. b.off + b.len - 1
    BY <1>3 DEF Bytes
  <1>4. ASSUME NEW q \in handle \ (stale \cup mixed \cup torn), NEW y \in ChainOf(child, q)
        PROVE  Clean(y, pos, end, dirty')
    <2>1. Clean(y, pos, end, dirty) /\ y \in Chunk
      BY <1>4, ChunkFacts DEF FreshInv, Fresh
    <2>2. ASSUME NEW i \in pos[y] .. end[y] - 1, <<y, i>> \in Bytes(b) PROVE FALSE
      <3>1. y = b.chunk /\ i \in b.off .. b.off + b.len - 1
        BY <1>3, <2>2
      <3>2. b.pool = q
        BY <1>4, <3>1 DEF BlocksInv, Owned
      <3>3. Placed(b, pos, end, size)
        BY <1>4, <3>2 DEF BlocksInv, Placing
      <3>4. b.off \in Nat /\ b.len \in Nat /\ pos[y] \in Nat /\ end[y] \in Nat
        BY <1>2, <2>1 DEF BlockType, TypeOK
      <3> QED BY <2>2, <3>1, <3>3, <3>4 DEF Placed
    <2> QED BY <1>1, <2>1, <2>2 DEF Clean
  <1>5. \A y \in Chunk, i \in Nat : <<y, i>> \in dirty' => y <= made
    BY <1>1, <1>2, <1>3 DEF FreshInv
  <1> QED BY <1>1, <1>4, <1>5 DEF FreshInv, Fresh

\* The memory given out at the front of the first chunk is past its back, or reaches it.
LEMMA RallocSpillsFresh ==
  ASSUME TypeOK, ChunkInv, FreshInv, NEW b \in blocks, NEW want \in Request, RallocSpills(b, want)
  PROVE  FreshInv'
  <1> DEFINE p == b.pool
             n == Align(want, alignment[p])
             old == OldSize(b)
             X == Bytes(Block(p, p, pos[p], n, want, "d")) \cup {<<p, i>> : i \in pos[p] .. pos[p] + old - 1}
  <1>1. p \in handle \ torn /\ p \in Pool /\ p \in Chunk /\ old \in Nat
    BY OldSizeTyped DEF RallocSpills, Realloc, Usable
  <1>2. n \in Nat
    BY <1>1, RoundedRequest
  <1>3. /\ Grow(p, current[p], n, 0)
        /\ pos' = [pos EXCEPT ![made'] = 0, ![p] = @ + n]
        /\ dirty' = dirty \cup X
        /\ IF IsLast(b) THEN pos[p] + n - old > end[p] ELSE n > old /\ ~Fits(p, n)
        /\ UNCHANGED <<handle, torn, stale>>
        /\ mixed \subseteq mixed'
    BY DEF RallocSpills, Realloc
  <1>4. current[p] \in ChainOf(child, p) /\ p \in ChainOf(child, p) /\ p \in 1 .. made
    BY <1>1, ChunkFacts
  <1>5. \A y, i : <<y, i>> \in X => y = p
    BY InBlock
  <1> HIDE DEF X, n, old, p
  <1>6. /\ made \in Nat /\ made' = made + 1 /\ made + 1 \in Chunk /\ p # made + 1
        /\ pos[p] \in Nat /\ end[p] \in Nat
    BY <1>1, <1>3, <1>4, GrowMade DEF TypeOK
  <1>7. /\ pos' \in [Chunk -> Nat] /\ pos'[p] = pos[p] + n
        /\ \A y \in Chunk \ {p, made + 1} : pos'[y] = pos[y]
    BY <1>1, <1>2, <1>3, <1>6 DEF TypeOK
  <1>8. pos'[p] >= end[p]
    BY <1>1, <1>2, <1>3, <1>6, <1>7 DEF Fits
  <1>9. \A y, i : <<y, i>> \in X => y \in 1 .. made + 1
    BY <1>4, <1>5, <1>6
  <1>10. \A i \in pos'[made + 1] .. end'[made + 1] - 1 : <<made + 1, i>> \notin X
    BY <1>5, <1>6
  <1>11. \A y \in Chunk \ {made + 1} :
           \/ pos'[y] = pos[y] /\ \A i : <<y, i>> \notin X
           \/ y \in ChainOf(child, p) /\ pos'[y] >= end[y]
    BY <1>4, <1>5, <1>7, <1>8
  <1>12. stale \subseteq stale'
    BY <1>3
  <1> QED BY <1>1, <1>3, <1>4, <1>7, <1>9, <1>10, <1>11, <1>12, FreshNew

LEMMA FreshInit == Init => FreshInv /\ TornOutside
  BY DEF Init, FreshInv, Fresh, Clean, TornOutside

LEMMA TornStep == TornOutside /\ [Next]_vars => TornOutside'
  <1> SUFFICES ASSUME TornOutside, [Next]_vars PROVE TornOutside'
    OBVIOUS
  <1>1. ASSUME NEW p \in Pool, NEW n \in Request,
               DallocFits(p, n) \/ DallocGrows(p, n) \/ NallocFits(p, n) \/ NallocGrows(p, n)
        PROVE  TornOutside'
    BY <1>1 DEF DallocFits, DallocGrows, NallocFits, NallocGrows, ghosts, TornOutside
  <1>2. ASSUME NEW b \in blocks, NEW n \in Request,
               RallocInPlace(b, n) \/ RallocKeeps(b, n) \/ RallocMoves(b, n)
        PROVE  TornOutside'
    BY <1>2 DEF RallocInPlace, RallocKeeps, RallocMoves, TornOutside
  <1>3. ASSUME NEW b \in blocks, NEW n \in Request, RallocSpills(b, n) PROVE TornOutside'
    <2>1. torn' = torn /\ (outside' = "yes" \/ outside' = outside)
      BY <1>3 DEF RallocSpills
    <2> QED BY <2>1 DEF TornOutside
  <1>4. ASSUME NEW p \in Pool, NEW n \in 0 .. 1, Shrink(p, n) PROVE TornOutside'
    <2>1. outside' = "yes" \/ UNCHANGED <<torn, outside>>
      BY <1>4 DEF Shrink
    <2> QED BY <2>1 DEF TornOutside
  <1>5. ASSUME NEW p \in Pool, NEW q \in Pool, Merge(p, q) PROVE TornOutside'
    BY <1>5 DEF Merge, TornOutside
  <1>6. ASSUME NEW p \in Pool, Reset(p) \/ Clear(p) \/ Free(p) PROVE TornOutside'
    BY <1>6 DEF Reset, Clear, Free, ghosts, TornOutside
  <1>7. ASSUME NEW p \in Pool, NEW a \in Alignment, SetAlignment(p, a) PROVE TornOutside'
    BY <1>7 DEF SetAlignment, ghosts, TornOutside
  <1>8. ASSUME NEW b \in blocks, Write(b) PROVE TornOutside'
    BY <1>8 DEF Write, ghosts, TornOutside
  <1>9. CASE UNCHANGED vars
    BY <1>9 DEF vars, ghosts, TornOutside
  <1> QED BY <1>1, <1>2, <1>3, <1>4, <1>5, <1>6, <1>7, <1>8, <1>9 DEF Next

LEMMA FreshStep == TypeOK /\ ChunkInv /\ BlocksInv /\ FreshInv /\ [Next]_vars => FreshInv'
  <1> SUFFICES ASSUME TypeOK, ChunkInv, BlocksInv, FreshInv, [Next]_vars PROVE FreshInv'
    OBVIOUS
  <1>1. ASSUME NEW p \in Pool, NEW want \in Request, DallocFits(p, want) PROVE FreshInv'
    <2> DEFINE n == Align(want, alignment[p])
    <2>1. p \in handle \ torn /\ n \in Nat
      BY <1>1, RoundedRequest DEF DallocFits, Usable
    <2>2. PICK c \in Chunk : /\ FirstFit(p, n, c)
                             /\ dirty' = dirty \cup Bytes(Block(p, c, pos[c], n, want, "d"))
                             /\ pos' = [pos EXCEPT ![c] = @ + n]
      BY <1>1 DEF DallocFits, Give
    <2>3. UNCHANGED <<end, child, made, handle, torn, stale, mixed>>
      BY <1>1 DEF DallocFits, ghosts
    <2> HIDE DEF n
    <2>4. c \in ChainOf(child, p)
      BY <2>1, <2>2, FitOnChain
    <2> QED BY <2>1, <2>2, <2>3, <2>4, FreshFront
  <1>2. ASSUME NEW p \in Pool, NEW want \in Request, DallocGrows(p, want) PROVE FreshInv'
    <2> DEFINE n == Align(want, alignment[p])
               X == Bytes(Block(p, made + 1, 0, n, want, "d"))
    <2>1. p \in handle \ torn /\ n \in Nat
      BY <1>2, RoundedRequest DEF DallocGrows, Usable
    <2>2. /\ Grow(p, Last(p), n, 0) /\ dirty' = dirty \cup X
          /\ pos' = [pos EXCEPT ![made'] = n]
          /\ UNCHANGED <<handle, torn, stale, mixed>>
      BY <1>2 DEF DallocGrows, Give, ghosts
    <2>3. \A y, i : <<y, i>> \in X => y = made + 1 /\ i \in 0 .. 0 + n - 1
      BY InBlock
    <2> HIDE DEF n, X
    <2>4. Last(p) \in ChainOf(child, p)
      BY <2>1, LastOnChain
    <2>5. made \in Nat /\ made' = made + 1 /\ made + 1 \in Chunk
      BY <2>2, GrowMade
    <2>6. /\ pos' \in [Chunk -> Nat] /\ pos'[made + 1] = n
          /\ \A y \in Chunk \ {made + 1} : pos'[y] = pos[y]
      BY <2>1, <2>2, <2>5 DEF TypeOK
    <2>7. \A y, i : <<y, i>> \in X => y \in 1 .. made + 1
      BY <2>3, <2>5
    <2>8. \A i \in pos'[made + 1] .. end'[made + 1] - 1 : <<made + 1, i>> \notin X
      BY <2>1, <2>3, <2>6
    <2>9. \A y \in Chunk \ {made + 1} : pos'[y] = pos[y] /\ \A i : <<y, i>> \notin X
      BY <2>3, <2>6
    <2> QED BY <2>1, <2>2, <2>4, <2>6, <2>7, <2>8, <2>9, FreshNew
  <1>3. ASSUME NEW p \in Pool, NEW want \in Request, NallocFits(p, want) PROVE FreshInv'
    BY <1>3, NallocFitsFresh
  <1>4. ASSUME NEW p \in Pool, NEW want \in Request, NallocGrows(p, want) PROVE FreshInv'
    <2> DEFINE n == Align(want, alignment[p])
               s == ChunkSize(p, n)
               c == current[p]
               X == Bytes(Block(p, made + 1, s - n, n, want, "n"))
    <2>1. p \in handle \ torn /\ n \in Nat
      BY <1>4, RoundedRequest DEF NallocGrows, Usable
    <2>2. /\ Grow(p, c, n, n) /\ dirty' = dirty \cup X
          /\ pos' = [pos EXCEPT ![made'] = 0]
          /\ UNCHANGED <<handle, torn, stale, mixed>>
      BY <1>4 DEF NallocGrows, Give
    <2>3. \A y, i : <<y, i>> \in X => y = made + 1 /\ i \in s - n .. (s - n) + n - 1
      BY InBlock
    <2>4. c \in ChainOf(child, p)
      BY <2>1, ChunkFacts
    <2> HIDE DEF n, c, X
    <2>5. s \in Nat
      BY <2>1, ChunkSizeFits
    <2>6. /\ made \in Nat /\ made' = made + 1 /\ made + 1 \in Chunk
          /\ end' = [end EXCEPT ![made + 1] = s - n]
      BY <2>2, GrowMade
    <2> HIDE DEF s
    <2>7. /\ pos' \in [Chunk -> Nat] /\ end'[made + 1] = s - n
          /\ \A y \in Chunk \ {made + 1} : pos'[y] = pos[y]
      BY <2>2, <2>6 DEF TypeOK
    <2>8. \A y, i : <<y, i>> \in X => y \in 1 .. made + 1
      BY <2>3, <2>6
    <2>9. \A i \in pos'[made + 1] .. end'[made + 1] - 1 : <<made + 1, i>> \notin X
      BY <2>1, <2>3, <2>5, <2>6, <2>7
    <2>10. \A y \in Chunk \ {made + 1} : pos'[y] = pos[y] /\ \A i : <<y, i>> \notin X
      BY <2>3, <2>7
    <2> QED BY <2>1, <2>2, <2>4, <2>7, <2>8, <2>9, <2>10, FreshNew
  <1>5. ASSUME NEW b \in blocks, NEW want \in Request, RallocInPlace(b, want) PROVE FreshInv'
    BY <1>5, RallocInPlaceFresh
  <1>6. ASSUME NEW b \in blocks, NEW want \in Request, RallocKeeps(b, want) PROVE FreshInv'
    <2>1. /\ mixed \subseteq mixed'
          /\ UNCHANGED <<pos, end, child, made, handle, dirty, stale, torn>>
      BY <1>6 DEF RallocKeeps, Realloc, chunks
    <2> QED BY <2>1 DEF FreshInv, Fresh
  <1>7. ASSUME NEW b \in blocks, NEW want \in Request, RallocMoves(b, want) PROVE FreshInv'
    <2> DEFINE p == b.pool
               n == Align(want, alignment[p])
    <2>1. p \in handle \ torn /\ p \in Pool
      BY <1>7, OldSizeTyped DEF RallocMoves, Realloc, Usable
    <2>2. n \in Nat /\ p \in ChainOf(child, p)
      BY <2>1, RoundedRequest, ChunkFacts
    <2>3. /\ pos' = [pos EXCEPT ![p] = @ + n]
          /\ dirty' = dirty \cup Bytes(Block(p, p, pos[p], n, want, "d"))
          /\ stale \subseteq stale' /\ mixed \subseteq mixed'
          /\ UNCHANGED <<end, child, made, handle, torn>>
      BY <1>7 DEF RallocMoves, Realloc
    <2> HIDE DEF n, p
    <2> QED BY <2>1, <2>2, <2>3, FreshFront
  <1>8. ASSUME NEW b \in blocks, NEW want \in Request, RallocSpills(b, want) PROVE FreshInv'
    BY <1>8, RallocSpillsFresh
  <1>9. ASSUME NEW p \in Pool, NEW a \in Alignment, SetAlignment(p, a) PROVE FreshInv'
    BY <1>9 DEF SetAlignment, chunks, ghosts, FreshInv
  <1>10. ASSUME NEW p \in Pool, NEW q \in Pool, Merge(p, q) PROVE FreshInv'
    BY <1>10, MergeFresh
  <1>11. ASSUME NEW p \in Pool, Reset(p) PROVE FreshInv'
    <2>1. \A c \in Chunk \ ChainOf(child, p) : pos'[c] = pos[c]
      BY <1>11, ChainNow DEF Reset, Rewind
    <2> QED BY <1>11, <2>1, FreshLess DEF Reset, Usable
  <1>12. ASSUME NEW p \in Pool, Clear(p) PROVE FreshInv'
    <2>1. \A c \in Chunk \ ChainOf(child, p) : pos'[c] = pos[c]
      BY <1>12, ChainNow DEF Clear, Rewind
    <2>2. \A c \in ChainOf(child, p) : Clean(c, pos', end, dirty')
      BY <1>12, ChainNow DEF Clear, Clean
    <2> QED BY <1>12, <2>1, <2>2, FreshLess DEF Clear, Usable
  <1>13. ASSUME NEW p \in Pool, Free(p) PROVE FreshInv'
    BY <1>13, FreshLess DEF Free, Usable, ghosts
  <1>14. ASSUME NEW p \in Pool, NEW n \in 0 .. 1, Shrink(p, n) PROVE FreshInv'
    <2>1. /\ p \in handle \ torn
          /\ UNCHANGED <<end, child, made, handle, dirty>>
      BY <1>14, ShrinkCases
    <2>2. /\ \A c \in Chunk \ ChainOf(child, p) : pos'[c] = pos[c]
          /\ stale \subseteq stale' /\ mixed \subseteq mixed' /\ torn \subseteq torn'
          /\ p \in stale' \cup torn'
      BY <1>14, ShrinkCases DEF Rewind
    <2> QED BY <2>1, <2>2, FreshLess
  <1>15. CASE UNCHANGED vars
    BY <1>15 DEF vars, chunks, ghosts, FreshInv
  <1>16. ASSUME NEW b \in blocks, Write(b) PROVE FreshInv'
    BY <1>16, WriteFresh
  <1> QED BY <1>1, <1>2, <1>3, <1>4, <1>5, <1>6, <1>7, <1>8, <1>9, <1>10, <1>11, <1>12,
             <1>13, <1>14, <1>15, <1>16 DEF Next

\* The memory a pool hands out next is zero, in every chunk of its chain, whatever was
\* reallocated, merged and written in between.  Excepted are the pools that were rewound
\* since they were zero filled, those that were shrunk, those in which a block was
\* reallocated after the alignment had been raised, and everything once the caller had
\* memory outside its chunks (a reallocation past the end, a pool torn by a shrink).
THEOREM FreshZeroHolds == Spec => []FreshZero
  <1> DEFINE IInv == TypeOK /\ ChunkInv /\ BlocksInv /\ FreshInv /\ TornOutside
  <1>1. Init => IInv
    BY TypeInit, ChunkInit, BlocksInit, FreshInit
  <1>2. IInv /\ [Next]_vars => IInv'
    BY TypeStep, ChunkStep, BlocksStep, FreshStep, TornStep
  <1>3. IInv => FreshZero
    BY FreshInvZero
  <1> QED BY <1>1, <1>2, <1>3, PTL DEF Spec
================================================================================
