------------------------------- MODULE ListProofs -------------------------------
(***************************************************************************)
(* Proofs about the lists, for any number of lists and nodes and any data. *)
(***************************************************************************)
EXTENDS List, FiniteSetTheorems, SequenceTheorems, WellFoundedInduction, TLAPS

\* A set of naturals has a least element.
LEMMA Least ==
  ASSUME NEW S \in SUBSET Nat, S # {}
  PROVE  \E n \in S : \A m \in S : n <= m
  <1> DEFINE R == OpToRel(<, Nat)
  <1>1. R = {ss \in Nat \X Nat : ss[1] < ss[2]}
    BY Zenon DEF OpToRel
  <1>2. IsWellFoundedOn(R, Nat)
    BY NatLessThanWellFounded
  <1> HIDE DEF R
  <1>3. PICK n \in S : \A m \in S : ~(<<m, n>> \in R)
    BY <1>2, WFMin
  <1>4. n \in Nat /\ \A m \in S : m \in Nat
    OBVIOUS
  <1>5. ASSUME NEW m \in S PROVE n <= m
    <2>1. ~(<<m, n>> \in {ss \in Nat \X Nat : ss[1] < ss[2]})
      BY <1>1, <1>3, Zenon
    <2> QED BY <1>4, <2>1
  <1> QED BY <1>5

\* A set that holds every natural up to m below which it holds all of them holds
\* every natural up to m.
LEMMA Induction ==
  ASSUME NEW S, NEW m \in Nat, \A n \in 0 .. m : (\A k \in 0 .. n - 1 : k \in S) => n \in S
  PROVE  \A n \in 0 .. m : n \in S
  <1> SUFFICES ASSUME (0 .. m) \ S # {} PROVE FALSE
    OBVIOUS
  <1>1. PICK n \in (0 .. m) \ S : \A k \in (0 .. m) \ S : n <= k
    <2>1. (0 .. m) \ S \in SUBSET Nat
      OBVIOUS
    <2> QED BY <2>1, Least
  <1>2. \A k \in 0 .. n - 1 : k \in S
    BY <1>1
  <1> QED BY <1>1, <1>2
--------------------------------------------------------------------------------
(* The walk.                                                                  *)

\* w is the way of list l: it begins at the first node and follows next until that
\* is null.
Path(l, w) ==
  /\ w = <<>> => head[l] = Null
  /\ w # <<>> => head[l] = w[1]
  /\ \A i \in 1 .. Len(w) : next[w[i]] = IF i = Len(w) THEN Null ELSE w[i + 1]

LEMMA MaxNodesNat == MaxNodes \in Nat
  BY ListAssumption, FS_CardinalityType DEF MaxNodes

\* Walk goes that way.
LEMMA WalkIsPath ==
  ASSUME NEW l \in Lists, NEW w \in Seq(Node), Path(l, w), Len(w) <= MaxNodes
  PROVE  Walk(l) = w
  <1> DEFINE cut(k) == IF k + 1 <= Len(w) THEN k + 1 ELSE Len(w)
             Step(way) == IF way = <<>> THEN way
                          ELSE IF next[Last(way)] = Null THEN way
                          ELSE Append(way, next[Last(way)])
             Body(g) == [k \in 0 .. MaxNodes |->
                           IF k = 0 THEN IF head[l] = Null THEN <<>> ELSE <<head[l]>>
                           ELSE Step(g[k - 1])]
             f == [k \in 0 .. MaxNodes |-> SubSeq(w, 1, cut(k))]
  <1>0. MaxNodes \in Nat /\ Len(w) \in Nat
    BY MaxNodesNat
  <1>1. SubSeq(w, 1, cut(0)) = IF head[l] = Null THEN <<>> ELSE <<head[l]>>
    <2>1. CASE w = <<>>
      BY <2>1 DEF Path
    <2>2. CASE w # <<>>
      <3>1. Len(w) >= 1 /\ cut(0) = 1 /\ w[1] \in Node
        BY <2>2
      <3>2. SubSeq(w, 1, 1) = <<w[1]>>
        <4>1. SubSeq(w, 1, 1) \in Seq(Node) /\ Len(SubSeq(w, 1, 1)) = 1 /\ SubSeq(w, 1, 1)[1] = w[1]
          BY <3>1
        <4>2. <<w[1]>> \in Seq(Node) /\ Len(<<w[1]>>) = 1 /\ <<w[1]>>[1] = w[1]
          BY <3>1
        <4>3. \A i \in 1 .. Len(SubSeq(w, 1, 1)) : SubSeq(w, 1, 1)[i] = <<w[1]>>[i]
          BY <4>1, <4>2
        <4> QED BY <4>1, <4>2, <4>3, SeqEqual
      <3> QED BY <2>2, <3>1, <3>2, ListAssumption DEF Path
    <2> QED BY <2>1, <2>2
  <1>2. ASSUME NEW k \in 1 .. MaxNodes
        PROVE  Step(SubSeq(w, 1, cut(k - 1))) = SubSeq(w, 1, cut(k))
    <2>1. CASE w = <<>>
      BY <2>1
    <2>2. CASE w # <<>>
      <3> DEFINE c == cut(k - 1)
                 way == SubSeq(w, 1, c)
      <3>1. c \in 1 .. Len(w) /\ Len(w) >= 1
        BY <1>0, <2>2
      <3>2. way \in Seq(Node) /\ Len(way) = c /\ way[c] = w[c] /\ w[c] \in Node
        BY <3>1
      <3>3. way # <<>> /\ Last(way) = w[c]
        BY <3>1, <3>2 DEF Last
      <3>4. CASE c = Len(w)
        <4>1. next[w[c]] = Null /\ cut(k) = c
          BY <1>0, <3>1, <3>4 DEF Path
        <4> QED BY <3>3, <4>1
      <3>5. CASE c < Len(w)
        <4>1. next[w[c]] = w[c + 1] /\ w[c + 1] # Null /\ cut(k) = c + 1 /\ w[c + 1] \in Node
          BY <1>0, <3>1, <3>5, ListAssumption DEF Path
        <4>2. SubSeq(w, 1, c + 1) = Append(way, w[c + 1])
          <5>1. c + 1 \in 1 .. Len(w)
            BY <3>1, <3>5
          <5> QED BY <3>1, <5>1
        <4> QED BY <3>3, <4>1, <4>2
      <3> QED BY <3>1, <3>4, <3>5
    <2> QED BY <2>1, <2>2
  <1> HIDE DEF Step, cut
  <1>3. f = Body(f)
    <2>1. ASSUME NEW k \in 0 .. MaxNodes
          PROVE  SubSeq(w, 1, cut(k))
                   = IF k = 0 THEN IF head[l] = Null THEN <<>> ELSE <<head[l]>>
                     ELSE Step(f[k - 1])
      <3>1. CASE k = 0
        BY <1>1, <3>1
      <3>2. CASE k # 0
        <4>1. k \in 1 .. MaxNodes /\ k - 1 \in 0 .. MaxNodes
          BY <1>0, <3>2
        <4>2. f[k - 1] = SubSeq(w, 1, cut(k - 1))
          BY <4>1, Zenon
        <4> QED BY <1>2, <3>2, <4>1, <4>2
      <3> QED BY <3>1, <3>2
    <2> QED BY <2>1, Zenon
  <1> DEFINE g == CHOOSE g : g = Body(g)
  <1>4. \A k \in 0 .. MaxNodes :
          g[k] = IF k = 0 THEN IF head[l] = Null THEN <<>> ELSE <<head[l]>> ELSE Step(g[k - 1])
    <2>1. g = Body(g)
      BY <1>3
    <2>2. \A k \in 0 .. MaxNodes :
            Body(g)[k] = IF k = 0 THEN IF head[l] = Null THEN <<>> ELSE <<head[l]>>
                         ELSE Step(g[k - 1])
      BY Zenon
    <2> HIDE DEF Body, g
    <2> QED BY <2>1, <2>2
  <1>5. Walk(l) = g[MaxNodes]
    BY DEF Walk, Step
  <1> HIDE DEF g, f
  <1> DEFINE S == {k \in 0 .. MaxNodes : g[k] = SubSeq(w, 1, cut(k))}
  <1>6. \A n \in 0 .. MaxNodes : n \in S
    <2>1. ASSUME NEW n \in 0 .. MaxNodes, \A k \in 0 .. n - 1 : k \in S
          PROVE  n \in S
      <3>1. CASE n = 0
        <4>1. g[0] = IF head[l] = Null THEN <<>> ELSE <<head[l]>>
          BY <1>0, <1>4
        <4> QED BY <1>1, <3>1, <4>1
      <3>2. CASE n # 0
        <4>1. n \in 1 .. MaxNodes /\ n - 1 \in 0 .. n - 1
          BY <3>2
        <4>2. g[n] = Step(g[n - 1])
          BY <1>4, <4>1
        <4> QED BY <1>2, <2>1, <4>1, <4>2
      <3> QED BY <3>1, <3>2
    <2> HIDE DEF S
    <2> QED BY <1>0, <2>1, Induction
  <1>7. g[MaxNodes] = SubSeq(w, 1, cut(MaxNodes))
    BY <1>0, <1>6
  <1>8. cut(MaxNodes) = Len(w)
    BY <1>0 DEF cut
  <1> QED BY <1>5, <1>7, <1>8
--------------------------------------------------------------------------------
(* The sort.                                                                  *)

\* __ina_merge takes the i-th node of a, not the j-th of b.
Takes(a, b, i, j) == i <= Len(a) /\ (j > Len(b) \/ data[a[i]] < data[b[j]])

\* u counts how many of the first k nodes that __ina_merge takes are of a.
Counts(a, b, u) ==
  /\ u \in [0 .. Len(a) + Len(b) -> Nat]
  /\ u[0] = 0
  /\ \A k \in 1 .. Len(a) + Len(b) :
       u[k] = IF Takes(a, b, u[k - 1] + 1, k - u[k - 1]) THEN u[k - 1] + 1 ELSE u[k - 1]

\* The recursive function in Merge exists: it is that count.
LEMMA MergeCounts ==
  ASSUME NEW a \in Seq(Node), NEW b \in Seq(Node)
  PROVE  \E u : /\ Counts(a, b, u)
                /\ Merge(a, b) = [k \in 1 .. Len(a) + Len(b) |->
                                    IF u[k] > u[k - 1] THEN a[u[k]] ELSE b[k - u[k]]]
  <1> DEFINE n == Len(a) + Len(b)
             Pick(x, k) == IF Takes(a, b, x + 1, k - x) THEN x + 1 ELSE (x + 1) - 1
             Body(u) == [k \in 0 .. n |-> IF k = 0 THEN 0 ELSE Pick(u[k - 1], k)]
             upto(u, m) == /\ u \in [0 .. n -> Nat]
                           /\ u[0] = 0
                           /\ \A k \in 1 .. m : u[k] = Pick(u[k - 1], k)
             S == {m \in 0 .. n : \E u : upto(u, m)}
  <1>0. n \in Nat
    OBVIOUS
  <1>1. \A x \in Nat : \A k : Pick(x, k) = (IF Takes(a, b, x + 1, k - x) THEN x + 1 ELSE x) /\ Pick(x, k) \in Nat
    OBVIOUS
  <1> HIDE DEF Pick, n
  <1>2. ASSUME NEW m \in 0 .. n, \A k \in 0 .. m - 1 : k \in S
        PROVE  m \in S
    <2>1. CASE m = 0
      <3>1. upto([k \in 0 .. n |-> 0], 0)
        BY <1>0
      <3> HIDE DEF upto
      <3> QED BY <2>1, <3>1
    <2>2. CASE m # 0
      <3>0. m - 1 \in 0 .. n /\ m - 1 \in 0 .. m - 1 /\ m \in 1 .. n
        BY <1>0, <2>2
      <3>1. PICK u : upto(u, m - 1)
        BY <1>2, <3>0
      <3> DEFINE e == [u EXCEPT ![m] = Pick(u[m - 1], m)]
      <3>2. Pick(u[m - 1], m) \in Nat
        BY <1>1, <3>0, <3>1
      <3>3. e \in [0 .. n -> Nat] /\ e[0] = 0
        BY <1>0, <2>2, <3>1, <3>2
      <3>4. ASSUME NEW k \in 1 .. m PROVE e[k] = Pick(e[k - 1], k)
        <4>0. k \in 0 .. n /\ k - 1 \in 0 .. n /\ k - 1 # m
          BY <1>0
        <4>1. e[k - 1] = u[k - 1]
          BY <3>1, <4>0
        <4>2. CASE k = m
          BY <3>1, <4>0, <4>1, <4>2
        <4>3. CASE k # m
          <5>1. k \in 1 .. m - 1 /\ e[k] = u[k]
            BY <3>1, <4>0, <4>3
          <5> QED BY <3>1, <4>1, <5>1
        <4> QED BY <4>2, <4>3
      <3>5. upto(e, m)
        BY <3>3, <3>4
      <3> HIDE DEF upto
      <3> QED BY <3>5
    <2> QED BY <2>1, <2>2
  <1>3. n \in S
    <2> HIDE DEF S
    <2>1. \A m \in 0 .. n : m \in S
      BY <1>0, <1>2, Induction
    <2> QED BY <1>0, <2>1
  <1>4. PICK f : upto(f, n)
    BY <1>3
  <1>5. f = Body(f)
    <2>1. ASSUME NEW k \in 0 .. n PROVE f[k] = IF k = 0 THEN 0 ELSE Pick(f[k - 1], k)
      <3>1. k # 0 => k \in 1 .. n
        BY <1>0
      <3> QED BY <1>4, <3>1
    <2>2. f = [k \in 0 .. n |-> f[k]]
      BY <1>4
    <2> QED BY <2>1, <2>2, Zenon
  <1> DEFINE g == CHOOSE g : g = Body(g)
  <1>6. g = Body(g)
    BY <1>5
  <1>7. Merge(a, b) = [k \in 1 .. n |-> IF g[k] > g[k - 1] THEN a[g[k]] ELSE b[k - g[k]]]
    BY DEF Merge, Pick, Takes, n
  <1>8. /\ DOMAIN g = 0 .. n
        /\ g = [k \in DOMAIN g |-> g[k]]
        /\ \A k \in 0 .. n : g[k] = IF k = 0 THEN 0 ELSE Pick(g[k - 1], k)
    <2>1. \A u : /\ DOMAIN Body(u) = 0 .. n
                 /\ \A k \in 0 .. n : Body(u)[k] = IF k = 0 THEN 0 ELSE Pick(u[k - 1], k)
      BY Zenon
    <2>2. \A u : Body(u) = [k \in DOMAIN Body(u) |-> Body(u)[k]]
      OBVIOUS
    <2> HIDE DEF Body, g
    <2> QED BY <1>6, <2>1, <2>2
  <1> HIDE DEF g
  <1> DEFINE T == {k \in 0 .. n : g[k] \in Nat}
  <1>9. \A k \in 0 .. n : k \in T
    <2>1. ASSUME NEW m \in 0 .. n, \A k \in 0 .. m - 1 : k \in T
          PROVE  m \in T
      <3>1. m # 0 => m - 1 \in 0 .. m - 1
        OBVIOUS
      <3> QED BY <1>1, <1>8, <2>1, <3>1
    <2> HIDE DEF T
    <2> QED BY <1>0, <2>1, Induction
  <1>10. g \in [0 .. n -> Nat] /\ g[0] = 0
    BY <1>0, <1>8, <1>9, SMTT(30)
  <1>11. ASSUME NEW k \in 1 .. n
         PROVE  g[k] = IF Takes(a, b, g[k - 1] + 1, k - g[k - 1]) THEN g[k - 1] + 1 ELSE g[k - 1]
    <2>1. k \in 0 .. n /\ k # 0 /\ k - 1 \in 0 .. n
      BY <1>0
    <2> QED BY <1>1, <1>8, <1>9, <2>1
  <1>12. Counts(a, b, g)
    BY <1>10, <1>11 DEF Counts, n
  <1> QED BY <1>7, <1>12 DEF n

LEMMA FunctionIsSeq ==
  ASSUME NEW S, NEW n \in Nat, NEW f \in [1 .. n -> S]
  PROVE  f \in Seq(S) /\ Len(f) = n
  OBVIOUS

\* What is left of a and of b never runs out.
LEMMA CountsRange ==
  ASSUME NEW a \in Seq(Node), NEW b \in Seq(Node), NEW u, Counts(a, b, u)
  PROVE  \A k \in 0 .. Len(a) + Len(b) :
           /\ u[k] \in 0 .. Len(a)
           /\ k - u[k] \in 0 .. Len(b)
  <1> DEFINE n == Len(a) + Len(b)
             S == {k \in 0 .. n : u[k] \in 0 .. Len(a) /\ k - u[k] \in 0 .. Len(b)}
  <1>0. n \in Nat /\ Len(a) \in Nat /\ Len(b) \in Nat
    OBVIOUS
  <1>1. ASSUME NEW m \in 0 .. n, \A k \in 0 .. m - 1 : k \in S
        PROVE  m \in S
    <2>1. CASE m = 0
      BY <1>0, <2>1 DEF Counts
    <2>2. CASE m # 0
      <3>1. m \in 1 .. n /\ m - 1 \in 0 .. m - 1 /\ m - 1 \in S
        BY <1>0, <1>1, <2>2
      <3>2. u[m] = IF Takes(a, b, u[m - 1] + 1, m - u[m - 1]) THEN u[m - 1] + 1 ELSE u[m - 1]
        BY <3>1 DEF Counts
      <3>3. u[m - 1] \in 0 .. Len(a) /\ (m - 1) - u[m - 1] \in 0 .. Len(b)
        BY <3>1
      <3>4. CASE Takes(a, b, u[m - 1] + 1, m - u[m - 1])
        <4>1. u[m] = u[m - 1] + 1 /\ u[m - 1] + 1 <= Len(a)
          BY <3>2, <3>4 DEF Takes
        <4> QED BY <1>0, <3>3, <4>1
      <3>5. CASE ~Takes(a, b, u[m - 1] + 1, m - u[m - 1])
        <4>1. u[m] = u[m - 1] /\ (u[m - 1] + 1 <= Len(a) => ~(m - u[m - 1] > Len(b)))
          BY <3>2, <3>5 DEF Takes
        <4>2. u[m] \in 0 .. Len(a) /\ m - u[m] \in 0 .. Len(b)
          BY <1>0, <3>3, <4>1
        <4> QED BY <4>2
      <3> QED BY <3>4, <3>5
    <2> QED BY <2>1, <2>2
  <1> HIDE DEF S
  <1>2. \A k \in 0 .. n : k \in S
    BY <1>0, <1>1, Induction
  <1> QED BY <1>2 DEF S

\* Neither of them grows.
LEMMA CountsGrow ==
  ASSUME NEW a \in Seq(Node), NEW b \in Seq(Node), NEW u, Counts(a, b, u),
         NEW j \in 0 .. Len(a) + Len(b), NEW k \in j .. Len(a) + Len(b)
  PROVE  u[j] <= u[k] /\ j - u[j] <= k - u[k]
  <1> DEFINE n == Len(a) + Len(b)
             S == {m \in 0 .. n : j <= m => u[j] <= u[m] /\ j - u[j] <= m - u[m]}
  <1>0. n \in Nat /\ u \in [0 .. n -> Nat] /\ j \in 0 .. n
    BY DEF Counts
  <1>1. ASSUME NEW m \in 0 .. n, \A i \in 0 .. m - 1 : i \in S
        PROVE  m \in S
    <2>1. CASE m <= j
      BY <1>0, <2>1
    <2>2. CASE m > j
      <3>1. m \in 1 .. n /\ m - 1 \in 0 .. m - 1 /\ m - 1 \in S /\ j <= m - 1
        BY <1>0, <1>1, <2>2
      <3>2. u[m] = IF Takes(a, b, u[m - 1] + 1, m - u[m - 1]) THEN u[m - 1] + 1 ELSE u[m - 1]
        BY <3>1 DEF Counts
      <3>3. u[m - 1] \in Nat /\ u[j] \in Nat /\ u[j] <= u[m - 1] /\ j - u[j] <= (m - 1) - u[m - 1]
        BY <1>0, <3>1
      <3>4. u[j] <= u[m] /\ j - u[j] <= m - u[m]
        BY <1>0, <3>2, <3>3
      <3> QED BY <3>4
    <2> QED BY <1>0, <2>1, <2>2
  <1> HIDE DEF S
  <1>2. \A m \in 0 .. n : m \in S
    BY <1>0, <1>1, Induction
  <1>3. k \in S
    BY <1>0, <1>2
  <1> QED BY <1>3 DEF S

\* The order that sort puts nodes into, which had the places pos: the data ascend,
\* and of two nodes with the same data the one that was behind comes first.
Precedes(pos, x, y) == data[x] < data[y] \/ (data[x] = data[y] /\ pos[x] > pos[y])
Ranked(pos, s) == \A i, j \in 1 .. Len(s) : i < j => Precedes(pos, s[i], s[j])
Before(pos, a, b) == \A i \in 1 .. Len(a), j \in 1 .. Len(b) : pos[a[i]] < pos[b[j]]
Numbered(s) == \A i \in 1 .. Len(s) : data[s[i]] \in Nat

\* The k-th node of a merge, with the choice that __ina_merge made there.
LEMMA MergeAt ==
  ASSUME NEW a \in Seq(Node), NEW b \in Seq(Node), NEW u, Counts(a, b, u),
         NEW k \in 1 .. Len(a) + Len(b)
  PROVE  LET x == IF u[k] > u[k - 1] THEN a[u[k]] ELSE b[k - u[k]]
         IN  /\ x \in Node
             /\ u[k] > u[k - 1] =>
                  /\ u[k] = u[k - 1] + 1 /\ u[k] \in 1 .. Len(a) /\ x = a[u[k]]
                  /\ Takes(a, b, u[k], k - u[k] + 1)
             /\ ~(u[k] > u[k - 1]) =>
                  /\ u[k] = u[k - 1] /\ k - u[k] \in 1 .. Len(b) /\ x = b[k - u[k]]
                  /\ ~Takes(a, b, u[k] + 1, k - u[k])
  <1>0. k - 1 \in 0 .. Len(a) + Len(b) /\ k \in 0 .. Len(a) + Len(b)
    OBVIOUS
  <1>1. u[k] = IF Takes(a, b, u[k - 1] + 1, k - u[k - 1]) THEN u[k - 1] + 1 ELSE u[k - 1]
    BY DEF Counts
  <1>2. /\ u[k] \in 0 .. Len(a) /\ k - u[k] \in 0 .. Len(b)
        /\ u[k - 1] \in 0 .. Len(a) /\ (k - 1) - u[k - 1] \in 0 .. Len(b)
    BY <1>0, CountsRange
  <1>3. CASE u[k] > u[k - 1]
    <2>1. u[k] = u[k - 1] + 1 /\ u[k] \in 1 .. Len(a)
      BY <1>1, <1>2, <1>3
    <2>2. Takes(a, b, u[k - 1] + 1, k - u[k - 1])
      BY <1>1, <1>2, <1>3
    <2>3. u[k - 1] + 1 = u[k] /\ k - u[k - 1] = k - u[k] + 1
      BY <1>2, <2>1, SMTT(30)
    <2> QED BY <1>3, <2>1, <2>2, <2>3
  <1>4. CASE ~(u[k] > u[k - 1])
    <2>1. u[k] = u[k - 1] /\ ~Takes(a, b, u[k - 1] + 1, k - u[k - 1])
      BY <1>1, <1>2, <1>4
    <2>2. k - u[k] \in 1 .. Len(b)
      BY <1>2, <2>1
    <2> QED BY <1>4, <2>1, <2>2
  <1> QED BY <1>3, <1>4

\* What the choices before the k-th one have left for it.
LEMMA MergeLeft ==
  ASSUME NEW a \in Seq(Node), NEW b \in Seq(Node), NEW u, Counts(a, b, u),
         NEW j \in 1 .. Len(a) + Len(b), NEW k \in 1 .. Len(a) + Len(b), j < k
  PROVE  /\ u[k] > u[k - 1] => u[j] + 1 <= u[k] /\ u[j] + 1 \in 1 .. Len(a)
         /\ ~(u[k] > u[k - 1]) => j - u[j] + 1 <= k - u[k] /\ j - u[j] + 1 \in 1 .. Len(b)
  <1>1. /\ j \in 0 .. Len(a) + Len(b) /\ k \in 0 .. Len(a) + Len(b)
        /\ k - 1 \in 0 .. Len(a) + Len(b) /\ k - 1 \in j .. Len(a) + Len(b)
    OBVIOUS
  <1>2. u[j] <= u[k - 1] /\ j - u[j] <= (k - 1) - u[k - 1]
    BY <1>1, CountsGrow
  <1>3. /\ u[j] \in 0 .. Len(a) /\ j - u[j] \in 0 .. Len(b)
        /\ u[k - 1] \in 0 .. Len(a) /\ (k - 1) - u[k - 1] \in 0 .. Len(b)
    BY <1>1, CountsRange
  <1>4. Len(a) \in Nat /\ Len(b) \in Nat
    OBVIOUS
  <1>5. CASE u[k] > u[k - 1]
    <2>1. u[k] = u[k - 1] + 1 /\ u[k] \in 1 .. Len(a)
      BY <1>5, MergeAt
    <2>2. u[j] + 1 <= u[k]
      BY <1>2, <1>3, <2>1, SMTT(30)
    <2>3. u[j] + 1 \in 1 .. Len(a)
      <3>1. u[j] \in Nat
        BY <1>3
      <3>2. u[k] \in Nat /\ u[k] <= Len(a)
        BY <2>1
      <3> QED BY <1>4, <2>2, <3>1, <3>2
    <2> QED BY <1>5, <2>2, <2>3
  <1>6. CASE ~(u[k] > u[k - 1])
    <2>1. u[k] = u[k - 1] /\ k - u[k] \in 1 .. Len(b)
      BY <1>6, MergeAt
    <2>2. j - u[j] + 1 <= k - u[k]
      BY <1>2, <1>3, <2>1, SMTT(30)
    <2>3. j - u[j] + 1 \in 1 .. Len(b)
      <3>1. j - u[j] \in Nat
        BY <1>3
      <3>2. k - u[k] \in Nat /\ k - u[k] <= Len(b)
        BY <2>1
      <3> DEFINE y == j - u[j]
                 z == k - u[k]
      <3>3. y \in Nat /\ z \in Nat /\ z <= Len(b) /\ y + 1 <= z
        BY <2>2, <3>1, <3>2
      <3> HIDE DEF y, z
      <3>4. y + 1 \in 1 .. Len(b)
        BY <1>4, <3>3
      <3> QED BY <3>4 DEF y
    <2> QED BY <1>6, <2>2, <2>3
  <1> QED BY <1>5, <1>6

LEMMA PrecedesTransitive ==
  ASSUME NEW pos, NEW x, NEW y, NEW z,
         pos[x] \in Int, pos[y] \in Int, pos[z] \in Int,
         data[x] \in Nat, data[y] \in Nat, data[z] \in Nat,
         Precedes(pos, x, y), y = z \/ Precedes(pos, y, z)
  PROVE  Precedes(pos, x, z)
  BY DEF Precedes

\* Two ranked sequences, the one with the nodes that come before those of the
\* other, are merged into one that is ranked.
LEMMA MergeRanks ==
  ASSUME NEW a \in Seq(Node), NEW b \in Seq(Node), NEW pos \in [Node -> Int],
         Numbered(a), Numbered(b), Before(pos, a, b), Ranked(pos, a), Ranked(pos, b)
  PROVE  /\ Merge(a, b) \in Seq(Node)
         /\ Len(Merge(a, b)) = Len(a) + Len(b)
         /\ Ranked(pos, Merge(a, b))
         /\ \A k \in 1 .. Len(a) + Len(b) : \/ \E i \in 1 .. Len(a) : Merge(a, b)[k] = a[i]
                                            \/ \E j \in 1 .. Len(b) : Merge(a, b)[k] = b[j]
  <1> DEFINE n == Len(a) + Len(b)
             m == Merge(a, b)
             of(v, k) == IF v[k] > v[k - 1] THEN a[v[k]] ELSE b[k - v[k]]
  <1>0. n \in Nat /\ Len(a) \in Nat /\ Len(b) \in Nat
    OBVIOUS
  <1>1. PICK u : Counts(a, b, u) /\ m = [k \in 1 .. n |-> of(u, k)]
    BY MergeCounts
  <1>2. ASSUME NEW k \in 1 .. n
        PROVE  /\ m[k] \in Node /\ m[k] = of(u, k)
               /\ u[k] > u[k - 1] =>
                    /\ u[k] = u[k - 1] + 1 /\ u[k] \in 1 .. Len(a) /\ m[k] = a[u[k]]
                    /\ Takes(a, b, u[k], k - u[k] + 1)
               /\ ~(u[k] > u[k - 1]) =>
                    /\ u[k] = u[k - 1] /\ k - u[k] \in 1 .. Len(b) /\ m[k] = b[k - u[k]]
                    /\ ~Takes(a, b, u[k] + 1, k - u[k])
    <2>1. m[k] = of(u, k)
      BY <1>1
    <2> HIDE DEF m
    <2> QED BY <1>1, <2>1, MergeAt
  <1>3. m \in Seq(Node) /\ Len(m) = n
    <2>1. m \in [1 .. n -> Node]
      BY <1>1, <1>2
    <2> QED BY <1>0, <2>1, FunctionIsSeq
  <1>4. \A k \in 1 .. n : \/ \E i \in 1 .. Len(a) : m[k] = a[i]
                          \/ \E j \in 1 .. Len(b) : m[k] = b[j]
    BY <1>2
  <1> HIDE DEF m
  <1>5. ASSUME NEW j \in 1 .. n, NEW k \in 1 .. n, j < k
        PROVE  Precedes(pos, m[j], m[k])
    <2>1. /\ u[k] > u[k - 1] => u[j] + 1 <= u[k] /\ u[j] + 1 \in 1 .. Len(a)
          /\ ~(u[k] > u[k - 1]) => j - u[j] + 1 <= k - u[k] /\ j - u[j] + 1 \in 1 .. Len(b)
      BY <1>1, <1>5, MergeLeft
    <2>7. /\ u[j] > u[j - 1] =>
               u[j] \in 1 .. Len(a) /\ m[j] = a[u[j]] /\ Takes(a, b, u[j], j - u[j] + 1)
          /\ ~(u[j] > u[j - 1]) =>
               j - u[j] \in 1 .. Len(b) /\ m[j] = b[j - u[j]] /\ ~Takes(a, b, u[j] + 1, j - u[j])
      BY <1>2
    <2>8. /\ u[k] > u[k - 1] => u[k] = u[k - 1] + 1 /\ u[k] \in 1 .. Len(a) /\ m[k] = a[u[k]]
          /\ ~(u[k] > u[k - 1]) => u[k] = u[k - 1] /\ k - u[k] \in 1 .. Len(b) /\ m[k] = b[k - u[k]]
      BY <1>2
    <2>3. CASE u[j] > u[j - 1] /\ u[k] > u[k - 1]
      <3>1. u[j] \in 1 .. Len(a) /\ u[k] \in 1 .. Len(a) /\ u[j] + 1 <= u[k]
        BY <2>1, <2>3, <2>7, <2>8, Zenon
      <3>2. u[j] < u[k]
        BY <1>0, <3>1
      <3> QED BY <2>3, <2>7, <2>8, <3>1, <3>2 DEF Ranked
    <2>4. CASE ~(u[j] > u[j - 1]) /\ ~(u[k] > u[k - 1])
      <3>1. j - u[j] < k - u[k] /\ j - u[j] \in 1 .. Len(b) /\ k - u[k] \in 1 .. Len(b)
        BY <2>1, <2>4, <2>7, <2>8, SMTT(30)
      <3> QED BY <2>4, <2>7, <2>8, <3>1 DEF Ranked
    <2>5. CASE u[j] > u[j - 1] /\ ~(u[k] > u[k - 1])
      <3> DEFINE p == j - u[j] + 1
                 q == k - u[k]
      <3>1. p <= q /\ q \in 1 .. Len(b) /\ p \in 1 .. Len(b)
        BY <2>1, <2>5, <2>8
      <3>2. /\ u[j] \in 1 .. Len(a) /\ m[j] = a[u[j]] /\ m[k] = b[q]
            /\ Takes(a, b, u[j], p)
        BY <2>5, <2>7, <2>8
      <3> HIDE DEF p, q
      <3>3. data[a[u[j]]] < data[b[p]]
        BY <1>0, <3>1, <3>2 DEF Takes
      <3>4. p = q \/ Precedes(pos, b[p], b[q])
        BY <3>1 DEF Ranked
      <3>5. data[b[p]] \in Nat /\ data[b[q]] \in Nat /\ data[a[u[j]]] \in Nat
        BY <3>1, <3>2 DEF Numbered
      <3> QED BY <3>2, <3>3, <3>4, <3>5, SMTT(30) DEF Precedes
    <2>6. CASE ~(u[j] > u[j - 1]) /\ u[k] > u[k - 1]
      <3> DEFINE p == u[j] + 1
                 q == u[k]
                 r == j - u[j]
      <3>1. p <= q /\ q \in 1 .. Len(a) /\ p \in 1 .. Len(a)
        BY <2>1, <2>6, <2>8
      <3>2. r \in 1 .. Len(b) /\ m[j] = b[r] /\ m[k] = a[q] /\ ~Takes(a, b, p, r)
        BY <2>6, <2>7, <2>8
      <3> HIDE DEF p, q, r
      <3>3. /\ data[a[p]] \in Nat /\ data[a[q]] \in Nat /\ data[b[r]] \in Nat
            /\ a[p] \in Node /\ a[q] \in Node /\ b[r] \in Node
        <4>1. data[a[p]] \in Nat /\ data[a[q]] \in Nat /\ data[b[r]] \in Nat
          BY <3>1, <3>2, Zenon DEF Numbered
        <4> QED BY <3>1, <3>2, <4>1, ElementOfSeq
      <3>4. ~(data[a[p]] < data[b[r]])
        BY <1>0, <3>1, <3>2 DEF Takes
      <3>5. Precedes(pos, b[r], a[p])
        <4>1. pos[a[p]] < pos[b[r]]
          BY <3>1, <3>2, Zenon DEF Before
        <4>2. pos[a[p]] \in Int /\ pos[b[r]] \in Int
          BY <3>3
        <4> QED BY <3>3, <3>4, <4>1, <4>2, SMTT(30) DEF Precedes
      <3>6. a[p] = a[q] \/ Precedes(pos, a[p], a[q])
        BY <3>1 DEF Ranked
      <3>7. pos[a[p]] \in Int /\ pos[a[q]] \in Int /\ pos[b[r]] \in Int
        BY <3>3
      <3> QED BY <3>2, <3>3, <3>5, <3>6, <3>7, PrecedesTransitive
    <2> QED BY <2>3, <2>4, <2>5, <2>6
  <1> QED BY <1>3, <1>4, <1>5 DEF Ranked, m

\* The halves of __ina_split.
LEMMA Halves ==
  ASSUME NEW n \in Nat, n > 1
  PROVE  LET half == (n + 1) \div 2
         IN  half \in 1 .. n - 1 /\ n - half \in 1 .. n - 1
  OBVIOUS

\* The sorted runs of s: f[n][i] is that of the n nodes after place i.
Runs(s, f) ==
  \A n \in 0 .. Len(s) : \A i \in 0 .. Len(s) - n :
    f[n][i] = IF n <= 1 THEN SubSeq(s, i + 1, i + n)
              ELSE Merge(f[(n + 1) \div 2][i], f[n - ((n + 1) \div 2)][i + ((n + 1) \div 2)])

\* The recursive function in MergeSort exists: it gives those runs.
LEMMA SortRuns ==
  ASSUME NEW s \in Seq(Node)
  PROVE  \E f : Runs(s, f) /\ MergeSort(s) = f[Len(s)][0]
  <1> DEFINE N == Len(s)
             half(n) == (n + 1) \div 2
             Row(f, n) == [i \in 0 .. N - n |->
                             IF n <= 1 THEN SubSeq(s, i + 1, i + n)
                             ELSE Merge(f[half(n)][i], f[n - half(n)][i + half(n)])]
             Body(f) == [n \in 0 .. N |-> Row(f, n)]
             upto(f, m) == /\ f = [n \in 0 .. N |-> f[n]]
                           /\ \A n \in 0 .. m : f[n] = Row(f, n)
             S == {m \in 0 .. N : \E f : upto(f, m)}
  <1>0. N \in Nat
    OBVIOUS
  <1>1. \A n \in 0 .. N : n > 1 => half(n) \in 1 .. n - 1 /\ n - half(n) \in 1 .. n - 1
    BY Halves
  <1> HIDE DEF half, N
  <1>2. ASSUME NEW f, NEW g, NEW n \in 0 .. N, \A k \in 0 .. n - 1 : f[k] = g[k]
        PROVE  Row(f, n) = Row(g, n)
    <2>1. CASE n <= 1
      BY <2>1
    <2>2. CASE n > 1
      <3>1. half(n) \in 0 .. n - 1 /\ n - half(n) \in 0 .. n - 1
        BY <1>0, <1>1, <2>2
      <3>2. f[half(n)] = g[half(n)] /\ f[n - half(n)] = g[n - half(n)]
        BY <1>2, <3>1
      <3> QED BY <3>2
    <2> QED BY <1>0, <2>1, <2>2
  <1> HIDE DEF Row
  <1>3. ASSUME NEW m \in 0 .. N, \A k \in 0 .. m - 1 : k \in S
        PROVE  m \in S
    <2>1. \E f : f = [n \in 0 .. N |-> f[n]] /\ \A n \in 0 .. m - 1 : f[n] = Row(f, n)
      <3>1. CASE m = 0
        <4> DEFINE z == [n \in 0 .. N |-> <<>>]
        <4>1. z = [n \in 0 .. N |-> z[n]]
          OBVIOUS
        <4> HIDE DEF z
        <4>2. \A n \in 0 .. m - 1 : z[n] = Row(z, n)
          BY <3>1
        <4> QED BY <4>1, <4>2
      <3>2. CASE m # 0
        <4>1. m - 1 \in 0 .. m - 1
          BY <3>2
        <4> QED BY <1>3, <4>1
      <3> QED BY <3>1, <3>2
    <2>2. PICK f : f = [n \in 0 .. N |-> f[n]] /\ \A n \in 0 .. m - 1 : f[n] = Row(f, n)
      BY <2>1
    <2> DEFINE e == [n \in 0 .. N |-> IF n = m THEN Row(f, m) ELSE f[n]]
    <2>3. \A n \in 0 .. N : e[n] = IF n = m THEN Row(f, m) ELSE f[n]
      BY Zenon
    <2>4. e = [n \in 0 .. N |-> e[n]]
      BY <2>3
    <2> HIDE DEF e
    <2>5. ASSUME NEW n \in 0 .. m PROVE e[n] = Row(e, n)
      <3>1. n \in 0 .. N /\ \A k \in 0 .. n - 1 : k \in 0 .. N /\ k # m
        BY <1>0
      <3>2. \A k \in 0 .. n - 1 : e[k] = f[k]
        BY <2>3, <3>1
      <3>3. Row(e, n) = Row(f, n)
        BY <1>2, <3>1, <3>2
      <3>4. CASE n = m
        BY <2>3, <3>1, <3>3, <3>4
      <3>5. CASE n # m
        <4>1. n \in 0 .. m - 1
          BY <3>5
        <4> QED BY <2>2, <2>3, <3>1, <3>3, <3>5, <4>1
      <3> QED BY <3>4, <3>5
    <2>6. upto(e, m)
      BY <2>4, <2>5
    <2> HIDE DEF upto
    <2> QED BY <2>6
  <1>4. N \in S
    <2> HIDE DEF S
    <2>1. \A m \in 0 .. N : m \in S
      BY <1>0, <1>3, Induction
    <2> QED BY <1>0, <2>1
  <1>5. PICK f : upto(f, N)
    BY <1>4
  <1>6. f = Body(f)
    BY <1>5, Zenon
  <1> DEFINE g == CHOOSE g : g = Body(g)
  <1>7. g = Body(g)
    BY <1>6
  <1>8. MergeSort(s) = g[N][0]
    BY DEF MergeSort, Row, N, half
  <1>9. \A n \in 0 .. N : g[n] = Row(g, n)
    <2>1. \A n \in 0 .. N : Body(g)[n] = Row(g, n)
      BY Zenon
    <2> HIDE DEF Body, g
    <2> QED BY <1>7, <2>1
  <1> HIDE DEF g
  <1>10. \A n \in 0 .. N : \A i \in 0 .. N - n :
           Row(g, n)[i] = IF n <= 1 THEN SubSeq(s, i + 1, i + n)
                          ELSE Merge(g[half(n)][i], g[n - half(n)][i + half(n)])
    BY Zenon DEF Row
  <1>11. Runs(s, g)
    BY <1>9, <1>10 DEF Runs, N, half
  <1> QED BY <1>8, <1>11 DEF N

\* t is the n nodes of s after place i, sorted.
SortedRun(s, pos, t, i, n) ==
  /\ t \in Seq(Node)
  /\ Len(t) = n
  /\ Ranked(pos, t)
  /\ \A k \in 1 .. n : \E j \in i + 1 .. i + n : t[k] = s[j]

LEMMA ShortRun ==
  ASSUME NEW s \in Seq(Node), NEW pos, NEW n \in 0 .. 1, NEW i \in 0 .. Len(s) - n
  PROVE  SortedRun(s, pos, SubSeq(s, i + 1, i + n), i, n)
  <1> DEFINE t == SubSeq(s, i + 1, i + n)
  <1>1. \A j \in i + 1 .. i + n : s[j] \in Node
    OBVIOUS
  <1>2. t \in Seq(Node) /\ Len(t) = n /\ \A k \in 1 .. n : t[k] = s[i + k]
    <2>1. i + 1 \in Int /\ i + n \in Int /\ (i + n) - (i + 1) + 1 = n
      OBVIOUS
    <2>2. /\ t \in Seq(Node)
          /\ Len(t) = IF i + 1 <= i + n THEN (i + n) - (i + 1) + 1 ELSE 0
          /\ \A k \in 1 .. (i + n) - (i + 1) + 1 : t[k] = s[(i + 1) + k - 1]
      BY <1>1, <2>1, SubSeqProperties
    <2>3. \A k \in 1 .. n : (i + 1) + k - 1 = i + k
      OBVIOUS
    <2> HIDE DEF t
    <2> QED BY <2>1, <2>2, <2>3
  <1> HIDE DEF t
  <1>3. Ranked(pos, t)
    BY <1>2 DEF Ranked
  <1>4. \A k \in 1 .. n : \E j \in i + 1 .. i + n : t[k] = s[j]
    BY <1>2
  <1> QED BY <1>2, <1>3, <1>4 DEF SortedRun, t

LEMMA MergedRun ==
  ASSUME NEW s \in Seq(Node), Numbered(s),
         NEW pos \in [Node -> Int], \A i \in 1 .. Len(s) : pos[s[i]] = i,
         NEW x \in Nat, NEW y \in Nat, NEW i \in 0 .. Len(s) - (x + y),
         NEW a, NEW b, SortedRun(s, pos, a, i, x), SortedRun(s, pos, b, i + x, y)
  PROVE  SortedRun(s, pos, Merge(a, b), i, x + y)
  <1>0. /\ a \in Seq(Node) /\ b \in Seq(Node) /\ Len(a) = x /\ Len(b) = y
        /\ Ranked(pos, a) /\ Ranked(pos, b)
    BY DEF SortedRun
  <1>1. \A k \in 1 .. x : \E j \in i + 1 .. i + x : a[k] = s[j]
    BY DEF SortedRun
  <1>2. \A k \in 1 .. y : \E j \in (i + x) + 1 .. (i + x) + y : b[k] = s[j]
    BY DEF SortedRun
  <1>3. \A j \in i + 1 .. i + x : j \in 1 .. Len(s) /\ j \in i + 1 .. i + (x + y)
    OBVIOUS
  <1>4. \A j \in (i + x) + 1 .. (i + x) + y : j \in 1 .. Len(s) /\ j \in i + 1 .. i + (x + y)
    OBVIOUS
  <1>5. Numbered(a)
    <2>1. Len(a) = x
      BY <1>0
    <2> QED BY <1>1, <1>3, <2>1, Zenon DEF Numbered
  <1>6. Numbered(b)
    <2>1. Len(b) = y
      BY <1>0
    <2> QED BY <1>2, <1>4, <2>1, Zenon DEF Numbered
  <1>7. Before(pos, a, b)
    <2>1. ASSUME NEW p \in 1 .. x, NEW q \in 1 .. y PROVE pos[a[p]] < pos[b[q]]
      <3>1. PICK j \in i + 1 .. i + x : a[p] = s[j]
        BY <1>1
      <3>2. PICK k \in (i + x) + 1 .. (i + x) + y : b[q] = s[k]
        BY <1>2
      <3>3. pos[a[p]] = j /\ pos[b[q]] = k
        BY <1>3, <1>4, <3>1, <3>2
      <3> QED BY <3>3
    <2> QED BY <1>0, <2>1 DEF Before
  <1>8. /\ Merge(a, b) \in Seq(Node)
        /\ Len(Merge(a, b)) = x + y
        /\ Ranked(pos, Merge(a, b))
        /\ \A k \in 1 .. x + y : \/ \E p \in 1 .. x : Merge(a, b)[k] = a[p]
                                 \/ \E q \in 1 .. y : Merge(a, b)[k] = b[q]
    <2>1. /\ Merge(a, b) \in Seq(Node)
          /\ Len(Merge(a, b)) = Len(a) + Len(b)
          /\ Ranked(pos, Merge(a, b))
          /\ \A k \in 1 .. Len(a) + Len(b) : \/ \E p \in 1 .. Len(a) : Merge(a, b)[k] = a[p]
                                             \/ \E q \in 1 .. Len(b) : Merge(a, b)[k] = b[q]
      BY <1>0, <1>5, <1>6, <1>7, MergeRanks
    <2>2. Len(a) = x /\ Len(b) = y
      BY <1>0
    <2> QED BY <2>1, <2>2, Zenon
  <1>9. ASSUME NEW k \in 1 .. x + y
        PROVE  \E j \in i + 1 .. i + (x + y) : Merge(a, b)[k] = s[j]
    <2>1. CASE \E p \in 1 .. x : Merge(a, b)[k] = a[p]
      BY <1>1, <1>3, <2>1
    <2>2. CASE \E q \in 1 .. y : Merge(a, b)[k] = b[q]
      BY <1>2, <1>4, <2>2
    <2> QED BY <1>8, <2>1, <2>2
  <1> QED BY <1>8, <1>9 DEF SortedRun

LEMMA RunsSorted ==
  ASSUME NEW s \in Seq(Node), Numbered(s),
         NEW pos \in [Node -> Int], \A i \in 1 .. Len(s) : pos[s[i]] = i,
         NEW f, Runs(s, f)
  PROVE  SortedRun(s, pos, f[Len(s)][0], 0, Len(s))
  <1> DEFINE N == Len(s)
             S == {n \in 0 .. N : \A i \in 0 .. N - n : SortedRun(s, pos, f[n][i], i, n)}
  <1>0. N \in Nat
    OBVIOUS
  <1>1. ASSUME NEW m \in 0 .. N, \A k \in 0 .. m - 1 : k \in S
        PROVE  m \in S
    <2> SUFFICES ASSUME NEW i \in 0 .. N - m PROVE SortedRun(s, pos, f[m][i], i, m)
      OBVIOUS
    <2>1. CASE m <= 1
      <3>1. f[m][i] = SubSeq(s, i + 1, i + m)
        BY <2>1, Zenon DEF Runs
      <3>2. m \in 0 .. 1
        BY <2>1
      <3> QED BY <3>1, <3>2, ShortRun
    <2>2. CASE m > 1
      <3> DEFINE x == (m + 1) \div 2
                 y == m - x
      <3>1. x \in 1 .. m - 1 /\ y \in 1 .. m - 1
        BY <2>2, Halves
      <3>2. f[m][i] = Merge(f[x][i], f[y][i + x])
        BY <2>2 DEF Runs
      <3>3. x + y = m
        BY <3>1
      <3> HIDE DEF x, y
      <3>4. x \in 0 .. m - 1 /\ y \in 0 .. m - 1 /\ i \in 0 .. N - x /\ i + x \in 0 .. N - y
        BY <1>0, <3>1, <3>3
      <3>5. SortedRun(s, pos, f[x][i], i, x) /\ SortedRun(s, pos, f[y][i + x], i + x, y)
        BY <1>1, <3>4
      <3>6. x \in Nat /\ y \in Nat /\ i \in 0 .. Len(s) - (x + y)
        BY <3>1, <3>3
      <3>7. SortedRun(s, pos, Merge(f[x][i], f[y][i + x]), i, x + y)
        BY <3>5, <3>6, MergedRun
      <3> QED BY <3>2, <3>3, <3>7
    <2> QED BY <1>0, <2>1, <2>2
  <1> HIDE DEF S
  <1>2. N \in S
    <2>1. \A m \in 0 .. N : m \in S
      BY <1>0, <1>1, Induction
    <2> QED BY <1>0, <2>1
  <1>3. 0 \in 0 .. N - N
    BY <1>0
  <1> QED BY <1>2, <1>3 DEF S

\* ina_list_sort rearranges the nodes so that their data ascend, and nodes with the
\* same data so that the one that was behind comes first: __ina_merge takes the node
\* of the second half when the data are equal, so the sort is not stable, it turns
\* equal nodes round.
THEOREM SortTurnsEqualsRound ==
  ASSUME NEW s \in Seq(Node), Numbered(s), IsInjective(s)
  PROVE  \E p \in Injection(1 .. Len(s), 1 .. Len(s)) :
           /\ MergeSort(s) = [i \in 1 .. Len(s) |-> s[p[i]]]
           /\ \A i, j \in 1 .. Len(s) : i < j =>
                \/ data[s[p[i]]] < data[s[p[j]]]
                \/ data[s[p[i]]] = data[s[p[j]]] /\ p[i] > p[j]
  <1> DEFINE N == Len(s)
             m == MergeSort(s)
             at(x) == CHOOSE i \in 1 .. N : s[i] = x
             pos == [x \in Node |-> IF \E i \in 1 .. N : s[i] = x THEN at(x) ELSE 0]
             p == [k \in 1 .. N |-> pos[m[k]]]
  <1>0. N \in Nat /\ \A i \in 1 .. N : s[i] \in Node
    OBVIOUS
  <1>1. \A x : (\E i \in 1 .. N : s[i] = x) => at(x) \in 1 .. N /\ s[at(x)] = x
    OBVIOUS
  <1>2. \A i, j \in 1 .. N : s[i] = s[j] => i = j
    BY DEF IsInjective
  <1>3. \A i \in 1 .. N : at(s[i]) = i
    BY <1>1, <1>2
  <1> HIDE DEF at
  <1>4. pos \in [Node -> Int]
    BY <1>0, <1>1
  <1>5. \A i \in 1 .. N : pos[s[i]] = i
    BY <1>0, <1>3
  <1> HIDE DEF pos
  <1>6. SortedRun(s, pos, m, 0, N)
    BY <1>4, <1>5, RunsSorted, SortRuns
  <1> HIDE DEF m
  <1>7. /\ m \in Seq(Node) /\ Len(m) = N /\ Ranked(pos, m)
        /\ \A k \in 1 .. N : \E j \in 1 .. N : m[k] = s[j]
    BY <1>0, <1>6 DEF SortedRun
  <1>8. \A k \in 1 .. N : p[k] \in 1 .. N /\ m[k] = s[p[k]] /\ p[k] = pos[m[k]]
    BY <1>5, <1>7
  <1>9. p \in [1 .. N -> 1 .. N]
    BY <1>8
  <1> HIDE DEF p
  <1>10. \A i, j \in 1 .. N : i < j =>
                \/ data[s[p[i]]] < data[s[p[j]]]
                \/ data[s[p[i]]] = data[s[p[j]]] /\ p[i] > p[j]
    <2> SUFFICES ASSUME NEW i \in 1 .. N, NEW j \in 1 .. N, i < j
                 PROVE  \/ data[s[p[i]]] < data[s[p[j]]]
                        \/ data[s[p[i]]] = data[s[p[j]]] /\ p[i] > p[j]
      OBVIOUS
    <2>1. Precedes(pos, m[i], m[j])
      BY <1>7 DEF Ranked
    <2>2. m[i] = s[p[i]] /\ p[i] = pos[m[i]] /\ m[j] = s[p[j]] /\ p[j] = pos[m[j]]
      BY <1>8
    <2> QED BY <2>1, <2>2, Zenon DEF Precedes
  <1>11. \A i, j \in 1 .. N : i < j => p[i] # p[j]
    <2> SUFFICES ASSUME NEW i \in 1 .. N, NEW j \in 1 .. N, i < j, p[i] = p[j] PROVE FALSE
      OBVIOUS
    <2>1. p[i] \in 1 .. N /\ p[j] \in 1 .. N /\ data[s[p[i]]] \in Nat
      BY <1>8 DEF Numbered
    <2> QED BY <1>10, <2>1
  <1>12. \A i, j \in 1 .. N : p[i] = p[j] => i = j
    <2> SUFFICES ASSUME NEW i \in 1 .. N, NEW j \in 1 .. N, p[i] = p[j], i # j PROVE FALSE
      OBVIOUS
    <2>1. i < j \/ j < i
      OBVIOUS
    <2> QED BY <1>11, <2>1
  <1>13. p \in Injection(1 .. N, 1 .. N)
    BY <1>9, <1>12 DEF Injection, IsInjective
  <1>14. m = [i \in 1 .. N |-> s[p[i]]]
    BY <1>7, <1>8
  <1> QED BY <1>10, <1>13, <1>14 DEF m

\* p puts the numbers of s in ascending order.
AscendBy(s, p) == \A i, j \in 1 .. Len(s) : i < j => s[p[i]] <= s[p[j]]

\* Two ways to put the same numbers in ascending order: at no place the one has a
\* smaller number than the other.  Else the places up to there of the one and those
\* from there on of the other would be more than there are numbers.
LEMMA NoSmaller ==
  ASSUME NEW s \in Seq(Nat),
         NEW p \in Injection(1 .. Len(s), 1 .. Len(s)), NEW q \in Injection(1 .. Len(s), 1 .. Len(s)),
         AscendBy(s, p), AscendBy(s, q),
         NEW c \in 1 .. Len(s)
  PROVE  ~(s[p[c]] < s[q[c]])
  <1> SUFFICES ASSUME s[p[c]] < s[q[c]] PROVE FALSE
    OBVIOUS
  <1> DEFINE N == Len(s)
             g == [k \in 1 .. N + 1 |-> IF k <= c THEN p[k] ELSE q[k - 1]]
  <1>0. N \in Nat /\ c \in 1 .. N
    OBVIOUS
  <1>1. /\ p \in [1 .. N -> 1 .. N] /\ q \in [1 .. N -> 1 .. N]
        /\ \A i, j \in 1 .. N : p[i] = p[j] => i = j
        /\ \A i, j \in 1 .. N : q[i] = q[j] => i = j
    BY DEF Injection, IsInjective
  <1>2. ASSUME NEW i \in 1 .. N PROVE s[p[i]] \in Nat /\ s[q[i]] \in Nat
    <2>1. p[i] \in 1 .. N /\ q[i] \in 1 .. N
      BY <1>1
    <2> QED BY <2>1, ElementOfSeq
  <1>3. ASSUME NEW i \in 1 .. N, i <= c PROVE s[p[i]] <= s[p[c]]
    <2>1. s[p[i]] \in Nat /\ s[p[c]] \in Nat
      BY <1>0, <1>2
    <2>2. CASE i = c
      BY <2>1, <2>2
    <2>3. CASE i < c
      BY <1>0, <2>3 DEF AscendBy
    <2> QED BY <1>0, <1>3, <2>2, <2>3
  <1>4. ASSUME NEW i \in 1 .. N, c <= i PROVE s[q[c]] <= s[q[i]]
    <2>1. s[q[i]] \in Nat /\ s[q[c]] \in Nat
      BY <1>0, <1>2
    <2>2. CASE i = c
      BY <2>1, <2>2
    <2>3. CASE c < i
      BY <1>0, <2>3 DEF AscendBy
    <2> QED BY <1>0, <1>4, <2>2, <2>3
  <1>5. ASSUME NEW i \in 1 .. N, NEW j \in 1 .. N, i <= c, c <= j PROVE p[i] # q[j]
    <2>1. s[p[i]] <= s[p[c]] /\ s[q[c]] <= s[q[j]]
      BY <1>3, <1>4, <1>5
    <2>2. s[p[i]] \in Nat /\ s[p[c]] \in Nat /\ s[q[c]] \in Nat /\ s[q[j]] \in Nat
      BY <1>0, <1>2
    <2>3. \A a, b, d, e \in Nat : a <= b /\ b < d /\ d <= e => a # e
      OBVIOUS
    <2>4. s[p[i]] # s[q[j]]
      BY <2>1, <2>2, <2>3, Zenon
    <2> QED BY <2>4
  <1>6. \A k \in 1 .. N + 1 : (k <= c => k \in 1 .. N) /\ (~(k <= c) => k - 1 \in 1 .. N /\ c <= k - 1)
    BY <1>0
  <1>7. g \in [1 .. N + 1 -> 1 .. N]
    BY <1>1, <1>6
  <1>8. \A k \in 1 .. N + 1 : g[k] = IF k <= c THEN p[k] ELSE q[k - 1]
    BY Zenon
  <1> HIDE DEF g
  <1>9. IsFiniteSet(1 .. N) /\ Cardinality(1 .. N) = N /\ IsFiniteSet(1 .. N + 1) /\ Cardinality(1 .. N + 1) = N + 1
    <2>1. 1 \in Int /\ N \in Int /\ N + 1 \in Int
      BY <1>0
    <2>2. /\ IsFiniteSet(1 .. N) /\ Cardinality(1 .. N) = IF 1 > N THEN 0 ELSE N - 1 + 1
          /\ IsFiniteSet(1 .. N + 1) /\ Cardinality(1 .. N + 1) = IF 1 > N + 1 THEN 0 ELSE (N + 1) - 1 + 1
      BY <2>1, FS_Interval
    <2> QED BY <1>0, <2>2
  <1>10. PICK x \in 1 .. N + 1, y \in 1 .. N + 1 : x # y /\ g[x] = g[y]
    <2>1. Cardinality(1 .. N) < Cardinality(1 .. N + 1)
      BY <1>0, <1>9
    <2> QED BY <1>7, <1>9, <2>1, FS_PigeonHole
  <1>11. CASE x <= c /\ y <= c
    BY <1>1, <1>6, <1>8, <1>10, <1>11
  <1>12. CASE ~(x <= c) /\ ~(y <= c)
    <2>1. x - 1 = y - 1
      BY <1>1, <1>6, <1>8, <1>10, <1>12
    <2> QED BY <1>10, <2>1
  <1>13. CASE x <= c /\ ~(y <= c)
    BY <1>5, <1>6, <1>8, <1>10, <1>13
  <1>14. CASE ~(x <= c) /\ y <= c
    BY <1>5, <1>6, <1>8, <1>10, <1>14
  <1> QED BY <1>11, <1>12, <1>13, <1>14

\* Numbers can be put in ascending order in one way only.
LEMMA InOrderIs ==
  ASSUME NEW s \in Seq(Nat), NEW p \in Injection(1 .. Len(s), 1 .. Len(s)),
         AscendBy(s, p)
  PROVE  InOrder(s) = [i \in 1 .. Len(s) |-> s[p[i]]]
  <1> DEFINE N == Len(s)
             by(r) == [i \in 1 .. N |-> s[r[i]]]
             Ascends(t) == \A i, j \in 1 .. N : i < j => t[i] <= t[j]
             o == InOrder(s)
  <1>1. by(p) \in Rearranged(s) /\ Ascends(by(p))
    BY DEF Rearranged, AscendBy
  <1>2. o \in Rearranged(s) /\ Ascends(o)
    BY <1>1 DEF InOrder
  <1> HIDE DEF o
  <1>3. PICK q \in Injection(1 .. N, 1 .. N) : o = by(q)
    BY <1>2 DEF Rearranged
  <1>4. \A i \in 1 .. N : o[i] = s[q[i]]
    BY <1>3
  <1>5. AscendBy(s, q)
    BY <1>2, <1>4, Zenon DEF AscendBy
  <1>6. ASSUME NEW i \in 1 .. N PROVE s[q[i]] = s[p[i]]
    <2>1. ~(s[p[i]] < s[q[i]]) /\ ~(s[q[i]] < s[p[i]])
      BY <1>5, NoSmaller
    <2>2. p[i] \in 1 .. N /\ q[i] \in 1 .. N
      BY DEF Injection
    <2> QED BY <2>1, <2>2
  <1>7. by(q) = by(p)
    BY <1>6
  <1> QED BY <1>3, <1>7 DEF o
--------------------------------------------------------------------------------
(* The inductive invariant.                                                   *)

TypeInv ==
  /\ head \in [Lists -> Node \cup {Null}]
  /\ count \in [Lists -> Nat]
  /\ first_free \in [Lists -> Seq(Node)]
  /\ mp \in SUBSET Lists
  /\ next \in [Node -> Node \cup {Null}]
  /\ prev \in [Node -> Node \cup {Null}]
  /\ data \in [Node -> Data \cup {Null}]
  /\ home \in [Node -> Lists \cup {Null}]
  /\ seq \in [Lists -> Seq(Data)]
  /\ skewed \in SUBSET Lists
  /\ rebuilt \in SUBSET Lists

\* What was put before the first node of the list, where nobody meets it.
Hidden(l) == IF l \in skewed THEN 1 ELSE 0

\* The nodes of w hold what was put into the list.
Holds(l, w) ==
  /\ count[l] = Len(seq[l])
  /\ count[l] <= MaxNodes
  /\ Len(seq[l]) = Len(w) + Hidden(l)
  /\ \A i \in 1 .. Len(w) : data[w[i]] = seq[l][i + Hidden(l)]

\* prev leads back along w, and round from its first node to its last one.
Back(l, w) ==
  /\ \A i \in 2 .. Len(w) : prev[w[i]] = w[i - 1]
  /\ w # <<>> => /\ prev[w[1]] \in {w[Len(w)], Null}
                 /\ prev[w[1]] = Null => l \in rebuilt

ListOK(l, w) ==
  /\ Path(l, w)
  /\ Holds(l, w)
  /\ l \notin skewed => Back(l, w)

\* A node of a pool is recycled once.
StacksApart ==
  \A l, m \in Lists : \A i \in 1 .. Len(first_free[l]), j \in 1 .. Len(first_free[m]) :
    first_free[l][i] = first_free[m][j] /\ home[first_free[l][i]] # Null => l = m /\ i = j

\* Nodes are in one place.
Apart(W) ==
  /\ \A l \in Lists : \A x \in ToSet(W[l]) : home[x] # Null
  /\ \A l \in Lists : IsInjective(W[l])
  /\ \A l, m \in Lists : l # m => ToSet(W[l]) \cap ToSet(W[m]) = {}
  /\ \A l, m \in Lists : ToSet(W[l]) \cap ToSet(first_free[m]) = {}
  /\ StacksApart

\* The lists run along W.
Shape(W) ==
  /\ W \in [Lists -> Seq(Node)]
  /\ \A l \in Lists : ListOK(l, W[l])
  /\ Apart(W)

ListInv == TypeInv /\ (fault = "none" => \E W : Shape(W))

LEMMA ToSetIs ==
  ASSUME NEW S, NEW s \in Seq(S)
  PROVE  /\ \A i \in 1 .. Len(s) : s[i] \in ToSet(s) /\ s[i] \in S
         /\ \A x \in ToSet(s) : \E i \in 1 .. Len(s) : x = s[i]
         /\ ToSet(s) \subseteq S
         /\ \A x : Contains(s, x) <=> x \in ToSet(s)
  BY DEF ToSet, Contains

\* The walks are the ways.
LEMMA WalksAre ==
  ASSUME NEW W, Shape(W), NEW l \in Lists
  PROVE  Walk(l) = W[l]
  <1>1. W[l] \in Seq(Node) /\ Path(l, W[l]) /\ Holds(l, W[l])
    BY DEF Shape, ListOK
  <1>2. Len(W[l]) <= MaxNodes
    <2>1. Len(W[l]) \in Nat /\ MaxNodes \in Nat /\ Hidden(l) \in Nat
      BY <1>1, MaxNodesNat DEF Hidden
    <2> QED BY <1>1, <2>1 DEF Holds
  <1> QED BY <1>1, <1>2, WalkIsPath

\* What a list keeps when a step changes none of its nodes.
LEMMA Untouched ==
  ASSUME NEW m \in Lists, NEW w \in Seq(Node), ListOK(m, w),
         head'[m] = head[m], count'[m] = count[m], seq'[m] = seq[m],
         m \in skewed' <=> m \in skewed, m \in rebuilt => m \in rebuilt',
         \A x \in ToSet(w) : next'[x] = next[x] /\ prev'[x] = prev[x] /\ data'[x] = data[x]
  PROVE  ListOK(m, w)'
  <1>1. \A i \in 1 .. Len(w) : w[i] \in ToSet(w)
    BY ToSetIs
  <1>2. Path(m, w)'
    BY <1>1 DEF ListOK, Path
  <1>3. Hidden(m)' = Hidden(m)
    BY DEF Hidden
  <1>4. Holds(m, w)'
    BY <1>1, <1>3 DEF ListOK, Holds
  <1>5. ASSUME m \notin skewed' PROVE Back(m, w)'
    <2>1. Back(m, w)
      BY <1>5 DEF ListOK
    <2>2. \A i \in 2 .. Len(w) : i \in 1 .. Len(w)
      OBVIOUS
    <2>3. w # <<>> => 1 \in 1 .. Len(w)
      OBVIOUS
    <2> QED BY <1>1, <2>1, <2>2, <2>3 DEF Back
  <1> QED BY <1>2, <1>4, <1>5 DEF ListOK
--------------------------------------------------------------------------------
(* A new node.                                                                *)

\* A step gives out node n, which is nowhere else, and leaves the rest of the stacks
\* and of the pools alone.
Given(W, n) ==
  /\ home'[n] # Null
  /\ \A m \in Lists : n \notin ToSet(W[m]) /\ n \notin ToSet(first_free'[m])
  /\ \A x \in Node : x # n => home'[x] = home[x]
  /\ \A m \in Lists : \A j \in 1 .. Len(first_free'[m]) :
       j \in 1 .. Len(first_free[m]) /\ first_free'[m][j] = first_free[m][j]

LEMMA NodeNewType ==
  ASSUME TypeInv, NEW l \in Lists, NEW n \in Node, NodeNew(l, n)
  PROVE  /\ first_free' \in [Lists -> Seq(Node)]
         /\ home' \in [Node -> Lists \cup {Null}]
         /\ \A m \in Lists : \A j \in 1 .. Len(first_free'[m]) :
              j \in 1 .. Len(first_free[m]) /\ first_free'[m][j] = first_free[m][j]
  <1>0. first_free[l] \in Seq(Node)
    BY DEF TypeInv
  <1>1. CASE first_free[l] # <<>> /\ first_free' = [first_free EXCEPT ![l] = Front(@)]
             /\ UNCHANGED home
    <2> DEFINE f == Front(first_free[l])
    <2>1. f \in Seq(Node) /\ Len(f) = Len(first_free[l]) - 1
          /\ \A j \in 1 .. Len(f) : f[j] = first_free[l][j]
      BY <1>0, <1>1 DEF Front
    <2> HIDE DEF f
    <2>2. \A m \in Lists : first_free'[m] = IF m = l THEN f ELSE first_free[m]
      BY <1>1 DEF TypeInv, f
    <2>3. first_free' \in [Lists -> Seq(Node)]
      BY <1>1, <2>1 DEF TypeInv, f
    <2>5. Len(first_free[l]) \in Nat
      BY <1>0
    <2>6. \A j \in 1 .. Len(f) : j \in 1 .. Len(first_free[l])
      BY <2>1, <2>5
    <2> QED BY <1>1, <2>1, <2>2, <2>3, <2>6 DEF TypeInv
  <1>2. CASE home' = [home EXCEPT ![n] = l] /\ UNCHANGED <<first_free, fault>>
    BY <1>2 DEF TypeInv
  <1> QED BY <1>1, <1>2 DEF NodeNew

LEMMA NewNode ==
  ASSUME TypeInv, NEW W, Shape(W), NEW l \in Lists, NEW n \in Node, NodeNew(l, n),
         fault' = "none"
  PROVE  Given(W, n)
  <1>1. \A m \in Lists : first_free[m] \in Seq(Node) /\ W[m] \in Seq(Node)
    BY DEF TypeInv, Shape
  <1>2. \A m \in Lists : first_free'[m] \in Seq(Node)
    BY NodeNewType
  <1>3. /\ \A m \in Lists : \A j \in 1 .. Len(first_free'[m]) :
             j \in 1 .. Len(first_free[m]) /\ first_free'[m][j] = first_free[m][j]
    BY NodeNewType
  <1>4. CASE /\ first_free[l] # <<>>
             /\ n = Last(first_free[l])
             /\ first_free' = [first_free EXCEPT ![l] = Front(@)]
             /\ fault' = IF home[n] = Null THEN "freed" ELSE fault
             /\ UNCHANGED home
    <2>1. home[n] # Null
      BY <1>4
    <2> DEFINE k == Len(first_free[l])
    <2>2. k \in 1 .. k /\ first_free[l][k] = n
      BY <1>1, <1>4 DEF Last
    <2>3. Len(first_free'[l]) = k - 1
      <3>1. first_free'[l] = Front(first_free[l])
        BY <1>4 DEF TypeInv
      <3>2. first_free[l] \in Seq(Node) /\ k \in Nat \ {0}
        BY <1>1, <1>4
      <3>3. Len(SubSeq(first_free[l], 1, k - 1)) = k - 1
        BY <3>2
      <3> QED BY <3>1, <3>3 DEF Front
    <2> HIDE DEF k
    <2>4. n \in ToSet(first_free[l])
      BY <1>1, <2>2, ToSetIs DEF k
    <2>5. \A m \in Lists : n \notin ToSet(W[m])
      BY <2>4 DEF Shape, Apart
    <2>6. ASSUME NEW m \in Lists, n \in ToSet(first_free'[m]) PROVE FALSE
      <3>1. PICK j \in 1 .. Len(first_free'[m]) : n = first_free'[m][j]
        BY <1>2, <2>6, ToSetIs
      <3>2. j \in 1 .. Len(first_free[m]) /\ first_free[m][j] = n
        BY <1>3, <3>1
      <3>3. k \in 1 .. Len(first_free[l])
        BY <2>2 DEF k
      <3>4. m = l /\ j = k
        <4>1. StacksApart
          BY DEF Shape, Apart
        <4>2. first_free[m][j] = first_free[l][k] /\ home[first_free[m][j]] # Null
          BY <2>1, <2>2, <3>2
        <4> QED BY <3>2, <3>3, <4>1, <4>2 DEF StacksApart
      <3> QED BY <2>2, <2>3, <3>1, <3>4
    <2> QED BY <1>3, <1>4, <2>1, <2>5, <2>6 DEF Given
  <1>5. CASE n \in Fresh /\ home' = [home EXCEPT ![n] = l] /\ UNCHANGED <<first_free, fault>>
    <2>1. home[n] = Null /\ \A m \in Lists : ~Contains(first_free[m], n)
      BY <1>5 DEF Fresh
    <2>2. home'[n] = l /\ l # Null
      BY <1>5, ListAssumption DEF TypeInv
    <2>3. \A m \in Lists : n \notin ToSet(W[m])
      BY <2>1 DEF Shape, Apart
    <2>4. \A m \in Lists : n \notin ToSet(first_free[m])
      BY <1>1, <2>1, ToSetIs
    <2>5. \A x \in Node : x # n => home'[x] = home[x]
      BY <1>5 DEF TypeInv
    <2> QED BY <1>3, <1>5, <2>2, <2>3, <2>4, <2>5 DEF Given
  <1> QED BY <1>4, <1>5 DEF NodeNew

\* A node that is given out may go to a list.
LEMMA ApartGiven ==
  ASSUME TypeInv, NEW W, Shape(W), NEW l \in Lists, NEW n \in Node, Given(W, n),
         first_free' \in [Lists -> Seq(Node)],
         NEW V \in [Lists -> Seq(Node)],
         \A m \in Lists : ToSet(V[m]) \subseteq ToSet(W[m]) \cup (IF m = l THEN {n} ELSE {}),
         \A m \in Lists : IsInjective(V[m])
  PROVE  Apart(V)'
  <1>1. \A m \in Lists : ToSet(W[m]) \subseteq Node
    BY ToSetIs DEF Shape
  <1>2. ASSUME NEW m \in Lists PROVE ToSet(first_free'[m]) \subseteq ToSet(first_free[m])
    <2>1. first_free'[m] \in Seq(Node) /\ first_free[m] \in Seq(Node)
      BY DEF TypeInv
    <2>2. \A x \in ToSet(first_free'[m]) : \E j \in 1 .. Len(first_free'[m]) : x = first_free'[m][j]
      BY <2>1, ToSetIs
    <2>3. \A j \in 1 .. Len(first_free[m]) : first_free[m][j] \in ToSet(first_free[m])
      BY <2>1, ToSetIs
    <2>4. \A j \in 1 .. Len(first_free'[m]) :
            j \in 1 .. Len(first_free[m]) /\ first_free'[m][j] = first_free[m][j]
      BY DEF Given
    <2>5. ASSUME NEW x \in ToSet(first_free'[m]) PROVE x \in ToSet(first_free[m])
      <3>1. PICK j \in 1 .. Len(first_free'[m]) : x = first_free'[m][j]
        BY <2>2
      <3>2. j \in 1 .. Len(first_free[m]) /\ x = first_free[m][j]
        BY <2>4, <3>1
      <3> QED BY <2>3, <3>2
    <2> QED BY <2>5
  <1>3. ASSUME NEW m \in Lists, NEW x \in ToSet(V[m]) PROVE home'[x] # Null
    <2>1. CASE x = n
      BY <2>1 DEF Given
    <2>2. CASE x # n
      <3>1. x \in ToSet(W[m]) /\ x \in Node
        BY <1>1, <2>2
      <3> QED BY <2>2, <3>1 DEF Given, Shape, Apart
    <2> QED BY <2>1, <2>2
  <1>4. ASSUME NEW k \in Lists, NEW m \in Lists, k # m PROVE ToSet(V[k]) \cap ToSet(V[m]) = {}
    <2>1. ToSet(W[k]) \cap ToSet(W[m]) = {}
      BY <1>4 DEF Shape, Apart
    <2>2. n \notin ToSet(W[k]) /\ n \notin ToSet(W[m])
      BY DEF Given
    <2> QED BY <1>4, <2>1, <2>2
  <1>5. ASSUME NEW k \in Lists, NEW m \in Lists PROVE ToSet(V[k]) \cap ToSet(first_free'[m]) = {}
    <2>1. ToSet(W[k]) \cap ToSet(first_free[m]) = {}
      BY DEF Shape, Apart
    <2>2. n \notin ToSet(first_free'[m])
      BY DEF Given
    <2> QED BY <1>2, <2>1, <2>2
  <1>6. ASSUME NEW k \in Lists, NEW m \in Lists,
               NEW i \in 1 .. Len(first_free'[k]), NEW j \in 1 .. Len(first_free'[m]),
               first_free'[k][i] = first_free'[m][j], home'[first_free'[k][i]] # Null
        PROVE  k = m /\ i = j
    <2> DEFINE x == first_free'[k][i]
    <2>1. /\ i \in 1 .. Len(first_free[k]) /\ x = first_free[k][i]
          /\ j \in 1 .. Len(first_free[m]) /\ x = first_free[m][j]
      BY <1>6 DEF Given
    <2>2. x \in ToSet(first_free'[k]) /\ x \in Node
      <3>1. first_free'[k] \in Seq(Node)
        OBVIOUS
      <3> QED BY <3>1, ToSetIs
    <2>3. x # n
      BY <2>2 DEF Given
    <2>4. home[x] # Null
      BY <1>6, <2>2, <2>3 DEF Given
    <2> HIDE DEF x
    <2>5. first_free[k][i] = first_free[m][j] /\ home[first_free[k][i]] # Null
      BY <2>1, <2>4
    <2> QED BY <2>1, <2>5 DEF Shape, Apart, StacksApart
  <1>7. StacksApart'
    BY <1>6 DEF StacksApart
  <1> QED BY <1>3, <1>4, <1>5, <1>7 DEF Apart
--------------------------------------------------------------------------------
(* The insertions.                                                            *)

\* What an action has to show.
Kept == TypeInv' /\ (fault' = "none" => \E V : Shape(V)')

\* The first node, where a list has one.
LEMMA FirstNode ==
  ASSUME NEW W, Shape(W), NEW l \in Lists
  PROVE  /\ W[l] \in Seq(Node) /\ Len(W[l]) \in Nat
         /\ head[l] = Null <=> W[l] = <<>>
         /\ W[l] # <<>> => Len(W[l]) >= 1 /\ head[l] = W[l][1]
         /\ \A i \in 1 .. Len(W[l]) : W[l][i] \in Node /\ W[l][i] \in ToSet(W[l]) /\ W[l][i] # Null
         /\ \A i, j \in 1 .. Len(W[l]) : W[l][i] = W[l][j] => i = j
  <1>1. W[l] \in Seq(Node) /\ Path(l, W[l]) /\ IsInjective(W[l])
    BY DEF Shape, ListOK, Apart
  <1>2. \A i \in 1 .. Len(W[l]) : W[l][i] \in Node /\ W[l][i] \in ToSet(W[l]) /\ W[l][i] # Null
    BY <1>1, ToSetIs, ListAssumption
  <1>3. W[l] # <<>> => Len(W[l]) >= 1 /\ 1 \in 1 .. Len(W[l])
    BY <1>1
  <1>4. \A i, j \in 1 .. Len(W[l]) : W[l][i] = W[l][j] => i = j
    BY <1>1 DEF IsInjective
  <1> QED BY <1>1, <1>2, <1>3, <1>4 DEF Path

LEMMA InsertFirstStep ==
  ASSUME TypeInv, NEW W, Shape(W), NEW l \in Lists \ skewed, NEW v \in Data, InsertFirst(l, v)
  PROVE  Kept
  <1>1. PICK n \in Node :
          /\ head[l] = Null
          /\ count[l] < MaxNodes
          /\ NodeNew(l, n)
          /\ data' = [data EXCEPT ![n] = v]
          /\ prev' = [prev EXCEPT ![n] = n]
          /\ next' = [next EXCEPT ![n] = Null]
          /\ head' = [head EXCEPT ![l] = n]
          /\ count' = [count EXCEPT ![l] = @ + 1]
          /\ seq' = [seq EXCEPT ![l] = <<v>>]
          /\ rebuilt' = rebuilt \ {l}
          /\ UNCHANGED <<max_recyclable, mp, skewed>>
    BY DEF InsertFirst
  <1>2. first_free' \in [Lists -> Seq(Node)] /\ home' \in [Node -> Lists \cup {Null}]
    BY <1>1, NodeNewType
  <1>3. TypeInv'
    <2>1. seq' \in [Lists -> Seq(Data)]
      BY <1>1 DEF TypeInv
    <2>2. count' \in [Lists -> Nat] /\ head' \in [Lists -> Node \cup {Null}]
      BY <1>1 DEF TypeInv
    <2>3. /\ next' \in [Node -> Node \cup {Null}] /\ prev' \in [Node -> Node \cup {Null}]
          /\ data' \in [Node -> Data \cup {Null}]
      BY <1>1 DEF TypeInv
    <2>4. mp' \in SUBSET Lists /\ skewed' \in SUBSET Lists /\ rebuilt' \in SUBSET Lists
      BY <1>1 DEF TypeInv
    <2> QED BY <1>2, <2>1, <2>2, <2>3, <2>4 DEF TypeInv
  <1>4. ASSUME fault' = "none" PROVE \E V : Shape(V)'
    <2> DEFINE V == [W EXCEPT ![l] = <<n>>]
    <2>0. W \in [Lists -> Seq(Node)]
      BY DEF Shape
    <2>1. Given(W, n)
      BY <1>1, <1>4, NewNode
    <2>2. W[l] = <<>> /\ n # Null
      BY <1>1, FirstNode, ListAssumption
    <2>3. <<n>> \in Seq(Node) /\ Len(<<n>>) = 1 /\ <<n>>[1] = n /\ <<n>> # <<>>
      OBVIOUS
    <2>4. ToSet(<<n>>) = {n} /\ IsInjective(<<n>>)
      BY <2>3 DEF ToSet, IsInjective
    <2>5. V \in [Lists -> Seq(Node)] /\ V[l] = <<n>> /\ \A m \in Lists : m # l => V[m] = W[m]
      BY <2>0, <2>3
    <2> HIDE DEF V
    <2>6. Apart(V)'
      <3>1. \A m \in Lists : ToSet(V[m]) \subseteq ToSet(W[m]) \cup (IF m = l THEN {n} ELSE {})
        BY <2>4, <2>5
      <3>2. \A m \in Lists : IsInjective(V[m])
        BY <2>4, <2>5 DEF Shape, Apart
      <3> QED BY <1>2, <2>1, <2>5, <3>1, <3>2, ApartGiven
    <2>7. ListOK(l, <<n>>)'
      <3>1. Path(l, <<n>>)'
        BY <1>1, <2>3 DEF Path, TypeInv
      <3>2. count[l] = 0
        BY <2>2 DEF Shape, ListOK, Holds, Hidden
      <3>3. Hidden(l)' = 0
        BY <1>1 DEF Hidden
      <3>4. count'[l] = 1 /\ seq'[l] = <<v>> /\ data'[n] = v
        BY <1>1, <3>2 DEF TypeInv
      <3>5. count'[l] <= MaxNodes
        BY <1>1, <3>2, <3>4, MaxNodesNat
      <3>6. Len(<<v>>) = 1 /\ <<v>>[1] = v
        OBVIOUS
      <3>7. Holds(l, <<n>>)'
        BY <2>3, <3>3, <3>4, <3>5, <3>6 DEF Holds
      <3>8. prev'[n] = n
        BY <1>1 DEF TypeInv
      <3>9. Back(l, <<n>>)'
        BY <2>2, <2>3, <3>8 DEF Back
      <3> QED BY <3>1, <3>7, <3>9 DEF ListOK
    <2>8. ASSUME NEW m \in Lists, m # l PROVE ListOK(m, W[m])'
      <3>1. W[m] \in Seq(Node) /\ ListOK(m, W[m])
        BY DEF Shape
      <3>2. \A x \in ToSet(W[m]) : x # n /\ x \in Node
        BY <2>1, <3>1, ToSetIs DEF Given
      <3>3. \A x \in ToSet(W[m]) : next'[x] = next[x] /\ prev'[x] = prev[x] /\ data'[x] = data[x]
        BY <1>1, <3>2 DEF TypeInv
      <3>4. /\ head'[m] = head[m] /\ count'[m] = count[m] /\ seq'[m] = seq[m]
            /\ m \in skewed' <=> m \in skewed
            /\ m \in rebuilt => m \in rebuilt'
        BY <1>1, <2>8 DEF TypeInv
      <3> QED BY <3>1, <3>3, <3>4, Untouched
    <2>9. Shape(V)'
      <3>1. \A m \in Lists : ListOK(m, V[m])'
        BY <2>5, <2>7, <2>8
      <3> QED BY <2>5, <2>6, <3>1 DEF Shape
    <2> QED BY <2>9
  <1> QED BY <1>3, <1>4 DEF Kept

\* One node more at the end of a sequence.
LEMMA Appended ==
  ASSUME NEW S, NEW w \in Seq(S), NEW n \in S
  PROVE  LET a == Append(w, n)
         IN  /\ a \in Seq(S) /\ Len(a) = Len(w) + 1 /\ a # <<>>
             /\ \A i \in 1 .. Len(w) : a[i] = w[i]
             /\ a[Len(w) + 1] = n
             /\ ToSet(a) = ToSet(w) \cup {n}
             /\ IsInjective(w) /\ n \notin ToSet(w) => IsInjective(a)
  <1> DEFINE a == Append(w, n)
  <1>1. /\ a \in Seq(S) /\ Len(a) = Len(w) + 1 /\ Len(w) \in Nat /\ a # <<>>
        /\ \A i \in 1 .. Len(w) : a[i] = w[i]
        /\ a[Len(w) + 1] = n
    OBVIOUS
  <1> HIDE DEF a
  <1>2. \A i \in 1 .. Len(a) : i \in 1 .. Len(w) \/ i = Len(w) + 1
    BY <1>1
  <1>3. \A i \in 1 .. Len(w) : i \in 1 .. Len(a)
    BY <1>1
  <1>4. Len(w) + 1 \in 1 .. Len(a)
    BY <1>1
  <1>5. ToSet(a) = ToSet(w) \cup {n}
    <2>1. ASSUME NEW x \in ToSet(a) PROVE x \in ToSet(w) \cup {n}
      <3>1. PICK i \in 1 .. Len(a) : x = a[i]
        BY <1>1, ToSetIs
      <3> QED BY <1>1, <1>2, <3>1, ToSetIs
    <2>2. ASSUME NEW x \in ToSet(w) PROVE x \in ToSet(a)
      <3>1. PICK i \in 1 .. Len(w) : x = w[i]
        BY ToSetIs
      <3> QED BY <1>1, <1>3, <3>1, ToSetIs
    <2>3. n \in ToSet(a)
      BY <1>1, <1>4, ToSetIs
    <2> QED BY <2>1, <2>2, <2>3
  <1>6. ASSUME IsInjective(w), n \notin ToSet(w) PROVE IsInjective(a)
    <2>1. \A i \in 1 .. Len(w) : w[i] # n
      BY <1>6, ToSetIs
    <2>2. \A i, j \in 1 .. Len(w) : w[i] = w[j] => i = j
      BY <1>6 DEF IsInjective
    <2>3. \A i, j \in 1 .. Len(a) : a[i] = a[j] => i = j
      BY <1>1, <1>2, <2>1, <2>2
    <2>4. DOMAIN a = 1 .. Len(a)
      BY <1>1
    <2> QED BY <2>3, <2>4 DEF IsInjective
  <1> QED BY <1>1, <1>5, <1>6 DEF a

LEMMA InsertTailStep ==
  ASSUME TypeInv, NEW W, Shape(W), NEW l \in Lists \ skewed, NEW v \in Data, InsertTail(l, v)
  PROVE  Kept
  <1>1. PICK n \in Node :
          /\ head[l] # Null
          /\ prev[head[l]] # Null
          /\ count[l] < MaxNodes
          /\ NodeNew(l, n)
          /\ data' = [data EXCEPT ![n] = v]
          /\ prev' = [prev EXCEPT ![n] = prev[head[l]], ![head[l]] = n]
          /\ next' = [next EXCEPT ![n] = Null, ![prev[head[l]]] = n]
          /\ count' = [count EXCEPT ![l] = @ + 1]
          /\ seq' = [seq EXCEPT ![l] = Append(@, v)]
          /\ UNCHANGED <<head, max_recyclable, mp, skewed, rebuilt>>
    BY DEF InsertTail
  <1>2. first_free' \in [Lists -> Seq(Node)] /\ home' \in [Node -> Lists \cup {Null}]
    BY <1>1, NodeNewType
  <1>3. TypeInv'
    <2>0. head[l] \in Node /\ prev[head[l]] \in Node
      BY <1>1 DEF TypeInv
    <2>1. seq' \in [Lists -> Seq(Data)]
      BY <1>1 DEF TypeInv
    <2>2. count' \in [Lists -> Nat]
      BY <1>1 DEF TypeInv
    <2>3. next' \in [Node -> Node \cup {Null}]
      BY <1>1, <2>0 DEF TypeInv
    <2>4. prev' \in [Node -> Node \cup {Null}]
      BY <1>1, <2>0 DEF TypeInv
    <2>5. data' \in [Node -> Data \cup {Null}]
      BY <1>1 DEF TypeInv
    <2> QED BY <1>1, <1>2, <2>1, <2>2, <2>3, <2>4, <2>5 DEF TypeInv
  <1>4. ASSUME fault' = "none" PROVE \E V : Shape(V)'
    <2> DEFINE w == W[l]
               k == Len(w)
               a == Append(w, n)
               V == [W EXCEPT ![l] = a]
    <2>0. W \in [Lists -> Seq(Node)] /\ w \in Seq(Node) /\ ListOK(l, w) /\ Back(l, w) /\ IsInjective(w)
      BY DEF Shape, ListOK, Apart
    <2>1. Given(W, n)
      BY <1>1, <1>4, NewNode
    <2>2. /\ w # <<>> /\ k \in Nat /\ k >= 1 /\ head[l] = w[1]
          /\ \A i \in 1 .. k : w[i] \in Node /\ w[i] \in ToSet(w) /\ w[i] # n
          /\ \A i, j \in 1 .. k : w[i] = w[j] => i = j
      BY <1>1, <2>1, FirstNode DEF Given
    <2>3. prev[head[l]] = w[k]
      BY <1>1, <2>0, <2>2 DEF Back
    <2>4. /\ a \in Seq(Node) /\ Len(a) = k + 1 /\ a # <<>>
          /\ \A i \in 1 .. k : a[i] = w[i]
          /\ a[k + 1] = n
          /\ ToSet(a) = ToSet(w) \cup {n}
          /\ IsInjective(a)
      BY <2>0, <2>1, Appended DEF Given
    <2>5. V \in [Lists -> Seq(Node)] /\ V[l] = a /\ \A m \in Lists : m # l => V[m] = W[m]
      BY <2>0, <2>4
    <2> HIDE DEF V, a, w, k
    <2>6. Apart(V)'
      <3>1. \A m \in Lists : ToSet(V[m]) \subseteq ToSet(W[m]) \cup (IF m = l THEN {n} ELSE {})
        BY <2>4, <2>5 DEF w
      <3>2. \A m \in Lists : IsInjective(V[m])
        BY <2>4, <2>5 DEF Shape, Apart
      <3> QED BY <1>2, <2>1, <2>5, <3>1, <3>2, ApartGiven
    <2>7. ListOK(l, a)'
      <3>0. 1 \in 1 .. k /\ k \in 1 .. k
        BY <2>2
      <3>1. /\ next'[n] = Null /\ next'[w[k]] = n
            /\ \A x \in Node : x # n /\ x # w[k] => next'[x] = next[x]
        BY <1>1, <2>2, <2>3, <3>0 DEF TypeInv
      <3>2. /\ prev'[n] = w[k] /\ prev'[w[1]] = n
            /\ \A x \in Node : x # n /\ x # w[1] => prev'[x] = prev[x]
        BY <1>1, <2>2, <2>3, <3>0 DEF TypeInv
      <3>3. \A i \in 1 .. k : next[w[i]] = IF i = k THEN Null ELSE w[i + 1]
        BY <2>0 DEF ListOK, Path, k
      <3>4. ASSUME NEW i \in 1 .. k + 1 PROVE next'[a[i]] = IF i = k + 1 THEN Null ELSE a[i + 1]
        <4>1. CASE i = k + 1
          BY <2>4, <3>1, <4>1
        <4>2. CASE i = k
          BY <2>2, <2>4, <3>0, <3>1, <4>2
        <4>3. CASE i # k /\ i # k + 1
          <5>1. i \in 1 .. k /\ i + 1 \in 1 .. k
            BY <2>2, <4>3
          <5>2. w[i] # w[k] /\ w[i] # n /\ w[i] \in Node
            BY <2>2, <3>0, <4>3, <5>1
          <5>3. next'[w[i]] = w[i + 1]
            BY <3>1, <3>3, <4>3, <5>1, <5>2
          <5> QED BY <2>4, <4>3, <5>1, <5>3
        <4> QED BY <4>1, <4>2, <4>3
      <3>5. head'[l] = a[1]
        BY <1>1, <2>2, <2>4, <3>0
      <3>6. Path(l, a)'
        BY <2>4, <3>4, <3>5 DEF Path
      <3>7. Hidden(l) = 0 /\ Hidden(l)' = 0
        BY <1>1 DEF Hidden
      <3>8. /\ seq[l] \in Seq(Data) /\ Len(seq[l]) = k /\ count[l] = k
            /\ \A i \in 1 .. k : data[w[i]] = seq[l][i]
        <4>1. /\ count[l] = Len(seq[l]) /\ Len(seq[l]) = k + 0
              /\ \A i \in 1 .. k : data[w[i]] = seq[l][i + 0]
          BY <2>0, <3>7 DEF ListOK, Holds, k
        <4>2. \A i \in 1 .. k : i + 0 = i
          OBVIOUS
        <4> QED BY <2>2, <4>1, <4>2 DEF TypeInv
      <3>9. /\ count'[l] = k + 1 /\ Len(seq'[l]) = k + 1
            /\ \A i \in 1 .. k : seq'[l][i] = seq[l][i]
            /\ seq'[l][k + 1] = v
        <4>1. seq'[l] = Append(seq[l], v) /\ count'[l] = count[l] + 1
          BY <1>1 DEF TypeInv
        <4> QED BY <3>8, <4>1
      <3>10. data'[n] = v /\ \A i \in 1 .. k : data'[w[i]] = data[w[i]]
        BY <1>1, <2>2 DEF TypeInv
      <3>11. ASSUME NEW i \in 1 .. k + 1 PROVE data'[a[i]] = seq'[l][i + 0]
        <4>1. i + 0 = i /\ (i # k + 1 => i \in 1 .. k)
          BY <2>2
        <4> QED BY <2>4, <3>8, <3>9, <3>10, <4>1
      <3>12. count'[l] <= MaxNodes
        BY <1>1, <2>2, <3>8, <3>9, MaxNodesNat
      <3>13. Holds(l, a)'
        BY <2>2, <2>4, <3>7, <3>9, <3>11, <3>12 DEF Holds
      <3>14. ASSUME NEW i \in 2 .. k + 1 PROVE prev'[a[i]] = a[i - 1]
        <4>1. CASE i = k + 1
          BY <2>2, <2>4, <3>0, <3>2, <4>1
        <4>2. CASE i # k + 1
          <5>1. i \in 1 .. k /\ i \in 2 .. k /\ i - 1 \in 1 .. k /\ i # 1
            BY <2>2, <4>2
          <5>2. w[i] # w[1] /\ w[i] # n /\ w[i] \in Node
            BY <2>2, <3>0, <5>1
          <5>3. prev[w[i]] = w[i - 1]
            BY <2>0, <5>1 DEF Back, k
          <5> QED BY <2>4, <3>2, <5>1, <5>2, <5>3
        <4> QED BY <4>1, <4>2
      <3>15. prev'[a[1]] = a[k + 1] /\ n # Null
        BY <2>4, <3>0, <3>2, ListAssumption
      <3>16. Back(l, a)'
        BY <2>4, <3>14, <3>15 DEF Back
      <3> QED BY <3>6, <3>13, <3>16 DEF ListOK
    <2>8. ASSUME NEW m \in Lists, m # l PROVE ListOK(m, W[m])'
      <3>1. W[m] \in Seq(Node) /\ ListOK(m, W[m])
        BY DEF Shape
      <3>2. ToSet(W[m]) \cap ToSet(w) = {}
        BY <2>8 DEF Shape, Apart, w
      <3>3. 1 \in 1 .. k /\ k \in 1 .. k
        BY <2>2
      <3>4. \A x \in ToSet(W[m]) : x # n /\ x \in Node /\ x # w[k] /\ x # w[1]
        BY <2>1, <2>2, <3>1, <3>2, <3>3, ToSetIs DEF Given
      <3>5. \A x \in ToSet(W[m]) : next'[x] = next[x] /\ prev'[x] = prev[x] /\ data'[x] = data[x]
        BY <1>1, <2>2, <2>3, <3>4 DEF TypeInv
      <3>6. /\ head'[m] = head[m] /\ count'[m] = count[m] /\ seq'[m] = seq[m]
            /\ m \in skewed' <=> m \in skewed
            /\ m \in rebuilt => m \in rebuilt'
        BY <1>1, <2>8 DEF TypeInv
      <3> QED BY <3>1, <3>5, <3>6, Untouched
    <2>9. Shape(V)'
      <3>1. \A m \in Lists : ListOK(m, V[m])'
        BY <2>5, <2>7, <2>8
      <3> QED BY <2>5, <2>6, <3>1 DEF Shape
    <2> QED BY <2>9
  <1> QED BY <1>3, <1>4 DEF Kept

LEMMA InsertHeadStep ==
  ASSUME TypeInv, NEW W, Shape(W), NEW l \in Lists \ skewed, NEW v \in Data, InsertHead(l, v)
  PROVE  Kept
  <1>1. PICK n \in Node :
          /\ head[l] # Null
          /\ count[l] < MaxNodes
          /\ NodeNew(l, n)
          /\ data' = [data EXCEPT ![n] = v]
          /\ prev' = [prev EXCEPT ![n] = prev[head[l]], ![head[l]] = n]
          /\ next' = [next EXCEPT ![n] = head[l]]
          /\ count' = [count EXCEPT ![l] = @ + 1]
          /\ seq' = [seq EXCEPT ![l] = <<v>> \o @]
          /\ skewed' = skewed \cup {l}
          /\ UNCHANGED <<head, max_recyclable, mp, rebuilt>>
    BY DEF InsertHead
  <1>2. first_free' \in [Lists -> Seq(Node)] /\ home' \in [Node -> Lists \cup {Null}]
    BY <1>1, NodeNewType
  <1>3. TypeInv'
    <2>0. head[l] \in Node /\ prev[head[l]] \in Node \cup {Null}
      BY <1>1 DEF TypeInv
    <2>1. seq' \in [Lists -> Seq(Data)]
      BY <1>1 DEF TypeInv
    <2>2. count' \in [Lists -> Nat]
      BY <1>1 DEF TypeInv
    <2>3. next' \in [Node -> Node \cup {Null}]
      BY <1>1, <2>0 DEF TypeInv
    <2>4. prev' \in [Node -> Node \cup {Null}]
      BY <1>1, <2>0 DEF TypeInv
    <2>5. data' \in [Node -> Data \cup {Null}]
      BY <1>1 DEF TypeInv
    <2> QED BY <1>1, <1>2, <2>1, <2>2, <2>3, <2>4, <2>5 DEF TypeInv
  <1>4. ASSUME fault' = "none" PROVE \E V : Shape(V)'
    <2> DEFINE w == W[l]
               k == Len(w)
    <2>0. W \in [Lists -> Seq(Node)] /\ w \in Seq(Node) /\ ListOK(l, w)
      BY DEF Shape
    <2>1. Given(W, n)
      BY <1>1, <1>4, NewNode
    <2>2. /\ w # <<>> /\ k \in Nat /\ k >= 1 /\ head[l] = w[1]
          /\ \A i \in 1 .. k : w[i] \in Node /\ w[i] \in ToSet(w) /\ w[i] # n
      BY <1>1, <2>1, FirstNode DEF Given
    <2> HIDE DEF w, k
    <2>3. Apart(W)'
      <3>1. \A m \in Lists : IsInjective(W[m])
        BY DEF Shape, Apart
      <3>2. \A m \in Lists : ToSet(W[m]) \subseteq ToSet(W[m]) \cup (IF m = l THEN {n} ELSE {})
        OBVIOUS
      <3> QED BY <1>2, <2>0, <2>1, <3>1, <3>2, ApartGiven
    <2>4. ListOK(l, w)'
      <3>1. \A i \in 1 .. k : next'[w[i]] = next[w[i]] /\ data'[w[i]] = data[w[i]]
        BY <1>1, <2>2 DEF TypeInv
      <3>2. Path(l, w)'
        BY <1>1, <2>0, <3>1 DEF ListOK, Path, k
      <3>3. Hidden(l) = 0 /\ Hidden(l)' = 1
        BY <1>1 DEF Hidden
      <3>4. /\ seq[l] \in Seq(Data) /\ Len(seq[l]) = k /\ count[l] = k
            /\ \A i \in 1 .. k : data[w[i]] = seq[l][i]
        <4>1. /\ count[l] = Len(seq[l]) /\ Len(seq[l]) = k + 0
              /\ \A i \in 1 .. k : data[w[i]] = seq[l][i + 0]
          BY <2>0, <3>3 DEF ListOK, Holds, k
        <4>2. \A i \in 1 .. k : i + 0 = i
          OBVIOUS
        <4> QED BY <2>2, <4>1, <4>2 DEF TypeInv
      <3>5. /\ count'[l] = k + 1 /\ Len(seq'[l]) = k + 1
            /\ \A i \in 1 .. k : seq'[l][i + 1] = seq[l][i]
        <4>1. seq'[l] = <<v>> \o seq[l] /\ count'[l] = count[l] + 1
          BY <1>1 DEF TypeInv
        <4>2. <<v>> \in Seq(Data) /\ Len(<<v>>) = 1
          OBVIOUS
        <4> QED BY <2>2, <3>4, <4>1, <4>2, ConcatProperties
      <3>6. count'[l] <= MaxNodes
        BY <1>1, <2>2, <3>4, <3>5, MaxNodesNat
      <3>7. Holds(l, w)'
        BY <3>1, <3>3, <3>4, <3>5, <3>6 DEF Holds, k
      <3> QED BY <1>1, <3>2, <3>7 DEF ListOK
    <2>5. ASSUME NEW m \in Lists, m # l PROVE ListOK(m, W[m])'
      <3>1. W[m] \in Seq(Node) /\ ListOK(m, W[m])
        BY DEF Shape
      <3>2. ToSet(W[m]) \cap ToSet(w) = {}
        BY <2>5 DEF Shape, Apart, w
      <3>3. 1 \in 1 .. k
        BY <2>2
      <3>4. \A x \in ToSet(W[m]) : x # n /\ x \in Node /\ x # w[1]
        BY <2>1, <2>2, <3>1, <3>2, <3>3, ToSetIs DEF Given
      <3>5. \A x \in ToSet(W[m]) : next'[x] = next[x] /\ prev'[x] = prev[x] /\ data'[x] = data[x]
        BY <1>1, <2>2, <3>4 DEF TypeInv
      <3>6. /\ head'[m] = head[m] /\ count'[m] = count[m] /\ seq'[m] = seq[m]
            /\ m \in skewed' <=> m \in skewed
            /\ m \in rebuilt => m \in rebuilt'
        BY <1>1, <2>5 DEF TypeInv
      <3> QED BY <3>1, <3>5, <3>6, Untouched
    <2>6. Shape(W)'
      <3>1. \A m \in Lists : ListOK(m, W[m])'
        BY <2>4, <2>5 DEF w
      <3> QED BY <2>0, <2>3, <3>1 DEF Shape
    <2> QED BY <2>6
  <1> QED BY <1>3, <1>4 DEF Kept
--------------------------------------------------------------------------------
(* A list nothing was put before.                                             *)

Carries(l, w) == \A i \in 1 .. Len(w) : data[w[i]] = seq[l][i]

LEMMA Plain ==
  ASSUME TypeInv, NEW l \in Lists, l \notin skewed, NEW w \in Seq(Node), ListOK(l, w)
  PROVE  /\ seq[l] \in Seq(Data) /\ Len(seq[l]) = Len(w)
         /\ count[l] = Len(w) /\ Len(w) <= MaxNodes
         /\ Path(l, w) /\ Back(l, w) /\ Carries(l, w)
  <1>1. Hidden(l) = 0 /\ Len(w) \in Nat /\ seq[l] \in Seq(Data)
    BY DEF Hidden, TypeInv
  <1>2. /\ count[l] = Len(seq[l]) /\ Len(seq[l]) = Len(w) + 0 /\ count[l] <= MaxNodes
        /\ \A i \in 1 .. Len(w) : data[w[i]] = seq[l][i + 0]
    BY <1>1 DEF ListOK, Holds
  <1>3. \A i \in 1 .. Len(w) : i + 0 = i
    OBVIOUS
  <1>4. Len(seq[l]) = Len(w)
    BY <1>1, <1>2
  <1> QED BY <1>1, <1>2, <1>3, <1>4 DEF ListOK, Carries

LEMMA PlainNext ==
  ASSUME NEW l \in Lists, l \notin skewed', NEW w \in Seq(Node),
         count'[l] = Len(w), Len(seq'[l]) = Len(w), Len(w) <= MaxNodes,
         Path(l, w)', Back(l, w)', Carries(l, w)'
  PROVE  ListOK(l, w)'
  <1>1. Hidden(l)' = 0 /\ Len(w) \in Nat
    BY DEF Hidden
  <1>2. \A i \in 1 .. Len(w) : i + 0 = i
    OBVIOUS
  <1>3. Len(seq'[l]) = Len(w) + 0
    BY <1>1
  <1>4. \A i \in 1 .. Len(w) : data'[w[i]] = seq'[l][i + 0]
    BY <1>2 DEF Carries
  <1>5. Holds(l, w)'
    BY <1>1, <1>3, <1>4 DEF Holds
  <1> QED BY <1>5 DEF ListOK

\* A sequence without its i-th element.
LEMMA Removed ==
  ASSUME NEW S, NEW w \in Seq(S), NEW i \in 1 .. Len(w)
  PROVE  LET r == RemoveAt(w, i)
         IN  /\ r \in Seq(S) /\ Len(r) = Len(w) - 1
             /\ \A j \in 1 .. Len(w) - 1 : r[j] = IF j < i THEN w[j] ELSE w[j + 1]
  <1> DEFINE a == SubSeq(w, 1, i - 1)
             b == SubSeq(w, i + 1, Len(w))
  <1>0. Len(w) \in Nat /\ i \in Int /\ 1 <= i /\ i <= Len(w) /\ \A j \in 1 .. Len(w) : w[j] \in S
    OBVIOUS
  <1>1. /\ a \in Seq(S) /\ Len(a) = i - 1
        /\ \A j \in 1 .. i - 1 : a[j] = w[j]
    <2>1. \A j \in 1 .. i - 1 : j \in 1 .. Len(w)
      BY <1>0
    <2> QED BY <1>0, <2>1, SubSeqProperties
  <1>2. /\ b \in Seq(S) /\ Len(b) = Len(w) - i
        /\ \A j \in 1 .. Len(w) - i : b[j] = w[i + j]
    <2>1. \A j \in i + 1 .. Len(w) : w[j] \in S
      BY <1>0
    <2>2. /\ b \in Seq(S) /\ Len(b) = IF i + 1 <= Len(w) THEN Len(w) - (i + 1) + 1 ELSE 0
          /\ \A j \in 1 .. Len(w) - (i + 1) + 1 : b[j] = w[(i + 1) + j - 1]
      BY <1>0, <2>1, SubSeqProperties
    <2>3. Len(b) = Len(w) - i /\ Len(w) - (i + 1) + 1 = Len(w) - i
      BY <1>0, <2>2
    <2>4. ASSUME NEW j \in 1 .. Len(w) - i PROVE b[j] = w[i + j]
      <3>1. (i + 1) + j - 1 = i + j
        BY <1>0
      <3> QED BY <2>2, <2>3, <3>1
    <2> QED BY <2>2, <2>3, <2>4
  <1> HIDE DEF a, b
  <1>3. /\ a \o b \in Seq(S) /\ Len(a \o b) = (i - 1) + (Len(w) - i)
        /\ \A j \in 1 .. (i - 1) + (Len(w) - i) : (a \o b)[j] = IF j <= i - 1 THEN a[j] ELSE b[j - (i - 1)]
    <2>1. /\ a \o b \in Seq(S) /\ Len(a \o b) = Len(a) + Len(b)
          /\ \A j \in 1 .. Len(a) + Len(b) : (a \o b)[j] = IF j <= Len(a) THEN a[j] ELSE b[j - Len(a)]
      BY <1>1, <1>2, ConcatProperties
    <2> QED BY <1>1, <1>2, <2>1
  <1>4. (i - 1) + (Len(w) - i) = Len(w) - 1
    BY <1>0
  <1>5. ASSUME NEW j \in 1 .. Len(w) - 1 PROVE (a \o b)[j] = IF j < i THEN w[j] ELSE w[j + 1]
    <2>1. (a \o b)[j] = IF j <= i - 1 THEN a[j] ELSE b[j - (i - 1)]
      BY <1>3, <1>4
    <2>2. CASE j < i
      BY <1>0, <1>1, <2>1, <2>2
    <2>3. CASE ~(j < i)
      <3>1. j - (i - 1) \in 1 .. Len(w) - i /\ i + (j - (i - 1)) = j + 1 /\ ~(j <= i - 1)
        BY <1>0, <2>3
      <3>2. b[j - (i - 1)] = w[i + (j - (i - 1))]
        BY <1>2, <3>1
      <3> QED BY <2>1, <2>3, <3>1, <3>2
    <2> QED BY <2>2, <2>3
  <1> QED BY <1>3, <1>4, <1>5 DEF RemoveAt, a, b

\* One element fewer leaves the others apart.
LEMMA RemovedApart ==
  ASSUME NEW S, NEW w \in Seq(S), NEW i \in 1 .. Len(w), IsInjective(w)
  PROVE  /\ IsInjective(RemoveAt(w, i))
         /\ ToSet(RemoveAt(w, i)) \subseteq ToSet(w) \ {w[i]}
  <1> DEFINE r == RemoveAt(w, i)
             at(j) == IF j < i THEN j ELSE j + 1
  <1>1. /\ r \in Seq(S) /\ Len(r) = Len(w) - 1 /\ Len(w) \in Nat
        /\ \A j \in 1 .. Len(w) - 1 : r[j] = IF j < i THEN w[j] ELSE w[j + 1]
    BY Removed
  <1> HIDE DEF r
  <1>2. \A j \in 1 .. Len(r) : r[j] = w[at(j)] /\ at(j) \in 1 .. Len(w) /\ at(j) # i
    BY <1>1
  <1>3. \A j, h \in 1 .. Len(r) : at(j) = at(h) => j = h
    BY <1>1
  <1> HIDE DEF at
  <1>4. \A j, h \in 1 .. Len(w) : w[j] = w[h] => j = h
    BY DEF IsInjective
  <1>5. \A j, h \in 1 .. Len(r) : r[j] = r[h] => j = h
    BY <1>2, <1>3, <1>4
  <1>6. IsInjective(r)
    <2>1. DOMAIN r = 1 .. Len(r)
      BY <1>1
    <2> QED BY <1>5, <2>1 DEF IsInjective
  <1>7. ASSUME NEW x \in ToSet(r) PROVE x \in ToSet(w) \ {w[i]}
    <2>1. PICK j \in 1 .. Len(r) : x = r[j]
      BY <1>1, ToSetIs
    <2>2. x = w[at(j)] /\ at(j) \in 1 .. Len(w) /\ at(j) # i
      BY <1>2, <2>1
    <2>3. w[at(j)] \in ToSet(w)
      BY <2>2, ToSetIs
    <2> QED BY <1>4, <2>2, <2>3
  <1> QED BY <1>6, <1>7 DEF r
--------------------------------------------------------------------------------
(* ina_list_remove and ina_list_node_free.                                    *)

\* The node that is removed goes to the stack of recycled nodes, or is lost to its pool.
LEMMA ApartRemoved ==
  ASSUME TypeInv, NEW W, Shape(W), NEW l \in Lists, NEW n \in ToSet(W[l]),
         Recycled(l, n), home' = home,
         NEW r \in Seq(Node), ToSet(r) \subseteq ToSet(W[l]) \ {n}, IsInjective(r)
  PROVE  /\ first_free' \in [Lists -> Seq(Node)]
         /\ Apart([W EXCEPT ![l] = r])'
  <1> DEFINE V == [W EXCEPT ![l] = r]
  <1>1. n \in Node /\ W \in [Lists -> Seq(Node)] /\ first_free \in [Lists -> Seq(Node)]
    BY ToSetIs DEF Shape, TypeInv
  <1>2. \A m \in Lists : ToSet(V[m]) \subseteq ToSet(W[m]) /\ n \notin ToSet(V[m])
    <2>1. \A m \in Lists : m # l => n \notin ToSet(W[m])
      BY DEF Shape, Apart
    <2> QED BY <1>1, <2>1
  <1>3. \A m \in Lists : IsInjective(V[m])
    BY <1>1 DEF Shape, Apart
  <1> HIDE DEF V
  <1>4. home[n] # Null /\ \A m \in Lists : n \notin ToSet(first_free[m])
    BY DEF Shape, Apart
  <1>5. CASE first_free' = first_free
    <2>1. StacksApart'
      BY <1>5 DEF Shape, Apart, StacksApart
    <2> QED BY <1>1, <1>2, <1>3, <1>5, <2>1 DEF Shape, Apart, V
  <1>6. CASE first_free' = [first_free EXCEPT ![l] = Append(@, n)]
    <2> DEFINE f == first_free[l]
               a == Append(f, n)
    <2>1. /\ f \in Seq(Node) /\ a \in Seq(Node) /\ Len(f) \in Nat /\ Len(a) = Len(f) + 1
          /\ \A i \in 1 .. Len(f) : a[i] = f[i]
          /\ a[Len(f) + 1] = n
          /\ ToSet(a) = ToSet(f) \cup {n}
      BY <1>1, Appended
    <2>2. first_free' \in [Lists -> Seq(Node)] /\ first_free'[l] = a
          /\ \A m \in Lists : m # l => first_free'[m] = first_free[m]
      BY <1>1, <1>6, <2>1
    <2> HIDE DEF a, f
    <2>3. ASSUME NEW k \in Lists, NEW m \in Lists PROVE ToSet(V[k]) \cap ToSet(first_free'[m]) = {}
      <3>1. ToSet(W[k]) \cap ToSet(first_free[m]) = {}
        BY DEF Shape, Apart
      <3>2. ToSet(first_free'[m]) \subseteq ToSet(first_free[m]) \cup {n}
        BY <2>1, <2>2 DEF f
      <3> QED BY <1>2, <3>1, <3>2
    <2>4. ASSUME NEW m \in Lists, NEW i \in 1 .. Len(first_free'[m])
          PROVE  \/ i \in 1 .. Len(first_free[m]) /\ first_free'[m][i] = first_free[m][i]
                    /\ first_free'[m][i] # n
                 \/ m = l /\ i = Len(f) + 1 /\ first_free'[m][i] = n
      <3>1. CASE i \in 1 .. Len(first_free[m])
        <4>1. first_free'[m][i] = first_free[m][i]
          BY <2>1, <2>2, <3>1 DEF f
        <4>2. first_free[m][i] \in ToSet(first_free[m])
          BY <1>1, <3>1, ToSetIs
        <4> QED BY <1>4, <3>1, <4>1, <4>2
      <3>2. CASE i \notin 1 .. Len(first_free[m])
        <4>1. m = l
          BY <2>2, <3>2
        <4>2. i \in 1 .. Len(f) + 1 /\ i \notin 1 .. Len(f)
          BY <2>1, <2>2, <3>2, <4>1 DEF f
        <4>3. i = Len(f) + 1
          BY <2>1, <4>2
        <4> QED BY <2>1, <2>2, <4>1, <4>3
      <3> QED BY <3>1, <3>2
    <2>5. ASSUME NEW k \in Lists, NEW m \in Lists,
                 NEW i \in 1 .. Len(first_free'[k]), NEW j \in 1 .. Len(first_free'[m]),
                 first_free'[k][i] = first_free'[m][j], home'[first_free'[k][i]] # Null
          PROVE  k = m /\ i = j
      <3>1. CASE first_free'[k][i] = n
        BY <2>4, <2>5, <3>1
      <3>2. CASE first_free'[k][i] # n
        <4>1. /\ i \in 1 .. Len(first_free[k]) /\ first_free'[k][i] = first_free[k][i]
              /\ j \in 1 .. Len(first_free[m]) /\ first_free'[m][j] = first_free[m][j]
          BY <2>4, <2>5, <3>2
        <4>2. first_free[k][i] = first_free[m][j] /\ home[first_free[k][i]] # Null
          BY <2>5, <4>1
        <4> QED BY <4>1, <4>2 DEF Shape, Apart, StacksApart
      <3> QED BY <3>1, <3>2
    <2>6. \A m \in Lists : \A x \in ToSet(V[m]) : home'[x] # Null
      BY <1>2 DEF Shape, Apart
    <2>7. ASSUME NEW k \in Lists, NEW m \in Lists, k # m PROVE ToSet(V[k]) \cap ToSet(V[m]) = {}
      <3>1. ToSet(W[k]) \cap ToSet(W[m]) = {}
        BY <2>7 DEF Shape, Apart
      <3> QED BY <1>2, <3>1
    <2>8. StacksApart'
      BY <2>5 DEF StacksApart
    <2>9. Apart(V)'
      BY <1>3, <2>3, <2>6, <2>7, <2>8 DEF Apart
    <2> QED BY <2>2, <2>9 DEF V
  <1> QED BY <1>5, <1>6 DEF Recycled

LEMMA RemoveNodeStep ==
  ASSUME TypeInv, NEW W, Shape(W), NEW l \in Lists \ skewed, NEW i, RemoveNode(l, i)
  PROVE  Kept
  <1> DEFINE w == W[l]
             k == Len(w)
             n == w[i]
             r == RemoveAt(w, i)
             V == [W EXCEPT ![l] = r]
             before == IF next[n] # Null THEN [prev EXCEPT ![next[n]] = prev[n]]
                                         ELSE [prev EXCEPT ![head[l]] = prev[n]]
  <1>1. /\ i \in DOMAIN w
        /\ prev' = [before EXCEPT ![n] = Null]
        /\ IF head[l] = n
           THEN /\ head' = [head EXCEPT ![l] = next[n]]
                /\ next' = [next EXCEPT ![n] = Null]
           ELSE /\ next' = [next EXCEPT ![prev[n]] = next[n], ![n] = Null]
                /\ UNCHANGED head
        /\ count' = [count EXCEPT ![l] = @ - 1]
        /\ Recycled(l, n)
        /\ seq' = [seq EXCEPT ![l] = RemoveAt(@, i)]
        /\ rebuilt' = IF next[n] = Null THEN rebuilt \ {l} ELSE rebuilt
        /\ data' = [data EXCEPT ![n] = Null]
        /\ UNCHANGED <<max_recyclable, mp, home, skewed>>
    BY WalksAre DEF RemoveNode
  <1>2. W \in [Lists -> Seq(Node)] /\ w \in Seq(Node) /\ ListOK(l, w) /\ IsInjective(w)
    BY DEF Shape, Apart
  <1>3. i \in 1 .. k /\ k \in Nat /\ 1 \in 1 .. k /\ k \in 1 .. k /\ w # <<>>
    BY <1>1, <1>2
  <1>4. /\ head[l] = w[1]
        /\ \A j \in 1 .. k : w[j] \in Node /\ w[j] \in ToSet(w) /\ w[j] # Null
        /\ \A j, h \in 1 .. k : w[j] = w[h] => j = h
    BY <1>3, FirstNode
  <1>5. /\ seq[l] \in Seq(Data) /\ Len(seq[l]) = k /\ count[l] = k /\ k <= MaxNodes
        /\ Path(l, w) /\ Back(l, w) /\ Carries(l, w)
    BY <1>2, Plain
  <1>6. /\ r \in Seq(Node) /\ Len(r) = k - 1
        /\ \A j \in 1 .. k - 1 : r[j] = IF j < i THEN w[j] ELSE w[j + 1]
    BY <1>2, <1>3, Removed
  <1>7. IsInjective(r) /\ ToSet(r) \subseteq ToSet(w) \ {n}
    BY <1>2, <1>3, RemovedApart
  <1>8. V \in [Lists -> Seq(Node)] /\ V[l] = r /\ \A m \in Lists : m # l => V[m] = W[m]
    BY <1>2, <1>6
  <1>9. first_free' \in [Lists -> Seq(Node)] /\ Apart(V)'
    BY <1>1, <1>3, <1>4, <1>6, <1>7, ApartRemoved
  <1>10. \A j \in 1 .. k : next[w[j]] = IF j = k THEN Null ELSE w[j + 1]
    BY <1>5 DEF Path
  <1>11. \A j \in 2 .. k : prev[w[j]] = w[j - 1]
    BY <1>5 DEF Back
  <1>12. n \in Node /\ n \in ToSet(w) /\ next \in [Node -> Node \cup {Null}] /\ prev \in [Node -> Node \cup {Null}]
    BY <1>3, <1>4 DEF TypeInv
  <1> HIDE DEF w, k, r, V
  \* What the step does to next, prev and head.
  <1>13. i = 1 => /\ head'[l] = next[n]
                  /\ \A x \in Node : x # n => next'[x] = next[x]
    BY <1>1, <1>4, <1>12 DEF TypeInv
  <1>14. i # 1 => i - 1 \in 1 .. k /\ i \in 2 .. k
    BY <1>3
  <1>15. i # 1 => /\ head'[l] = w[1]
                  /\ next'[w[i - 1]] = next[n]
                  /\ \A x \in Node : x # n /\ x # w[i - 1] => next'[x] = next[x]
    <2> SUFFICES ASSUME i # 1 PROVE /\ head'[l] = w[1]
                                    /\ next'[w[i - 1]] = next[n]
                                    /\ \A x \in Node : x # n /\ x # w[i - 1] => next'[x] = next[x]
      OBVIOUS
    <2>1. head[l] # n
      BY <1>3, <1>4
    <2>2. prev[n] = w[i - 1] /\ w[i - 1] \in Node /\ w[i - 1] # n
      BY <1>3, <1>4, <1>11, <1>14
    <2> HIDE DEF n
    <2> QED BY <1>1, <1>4, <1>12, <2>1, <2>2
  <1>16. i # k => /\ i + 1 \in 1 .. k /\ next[n] = w[i + 1] /\ next[n] # Null /\ w[i + 1] # n
    BY <1>3, <1>4, <1>10
  <1>17. i = k => next[n] = Null
    BY <1>3, <1>10
  <1>18. i # k => /\ prev'[w[i + 1]] = prev[n]
                  /\ \A x \in Node : x # n /\ x # w[i + 1] => prev'[x] = prev[x]
    <2> HIDE DEF n
    <2> QED BY <1>1, <1>4, <1>12, <1>16
  <1>19. i = k => /\ w[1] # n => prev'[w[1]] = prev[n]
                  /\ \A x \in Node : x # n /\ x # w[1] => prev'[x] = prev[x]
    <2> HIDE DEF n
    <2> QED BY <1>1, <1>3, <1>4, <1>12, <1>17
  <1>20. /\ next' \in [Node -> Node \cup {Null}] /\ prev' \in [Node -> Node \cup {Null}]
         /\ head' \in [Lists -> Node \cup {Null}]
    <2>1. prev[n] \in Node \cup {Null} /\ next[n] \in Node \cup {Null}
      BY <1>12
    <2> HIDE DEF n
    <2> QED BY <1>1, <1>4, <1>12, <2>1 DEF TypeInv
  <1>21. /\ RemoveAt(seq[l], i) \in Seq(Data) /\ Len(RemoveAt(seq[l], i)) = k - 1
         /\ \A j \in 1 .. k - 1 : RemoveAt(seq[l], i)[j] = IF j < i THEN seq[l][j] ELSE seq[l][j + 1]
    <2>1. i \in 1 .. Len(seq[l])
      BY <1>3, <1>5
    <2> DEFINE q == seq[l]
    <2> HIDE DEF q
    <2>2. q \in Seq(Data) /\ i \in 1 .. Len(q) /\ Len(q) = k
      BY <1>5, <2>1 DEF q
    <2>3. /\ RemoveAt(q, i) \in Seq(Data) /\ Len(RemoveAt(q, i)) = Len(q) - 1
          /\ \A j \in 1 .. Len(q) - 1 : RemoveAt(q, i)[j] = IF j < i THEN q[j] ELSE q[j + 1]
      BY <2>2, Removed
    <2> QED BY <2>2, <2>3 DEF q
  <1>22. TypeInv'
    <2>1. seq' \in [Lists -> Seq(Data)]
      BY <1>1, <1>21 DEF TypeInv
    <2>2. count' \in [Lists -> Nat]
      BY <1>1, <1>3, <1>5 DEF TypeInv
    <2>3. data' \in [Node -> Data \cup {Null}]
      BY <1>1 DEF TypeInv
    <2>4. rebuilt' \in SUBSET Lists
      BY <1>1 DEF TypeInv
    <2> QED BY <1>1, <1>9, <1>20, <2>1, <2>2, <2>3, <2>4 DEF TypeInv
  <1>23. Path(l, r)'
    <2>1. ASSUME NEW j \in 1 .. k - 1 PROVE next'[r[j]] = IF j = k - 1 THEN Null ELSE r[j + 1]
      <3>1. CASE j < i /\ j # i - 1
        <4>1. j \in 1 .. k /\ j + 1 \in 1 .. k - 1 /\ j + 1 < i /\ i # 1 /\ j # k /\ j # k - 1 /\ j # i
          BY <1>3, <3>1
        <4>2. r[j] = w[j] /\ r[j + 1] = w[j + 1]
          BY <1>6, <3>1, <4>1
        <4>3. w[j] \in Node /\ w[j] # n /\ w[j] # w[i - 1]
          BY <1>3, <1>4, <1>14, <3>1, <4>1
        <4> QED BY <1>10, <1>15, <4>1, <4>2, <4>3
      <3>2. CASE j = i - 1
        <4>1. i # 1 /\ j < i
          BY <1>3, <3>2
        <4>2. r[j] = w[i - 1]
          BY <1>6, <3>2, <4>1
        <4>3. CASE i = k
          BY <1>15, <1>17, <3>2, <4>1, <4>2, <4>3
        <4>4. CASE i # k
          <5>1. i \in 1 .. k - 1 /\ j # k - 1 /\ j + 1 = i /\ ~(i < i)
            BY <1>3, <3>2, <4>4
          <5>2. r[j + 1] = w[i + 1]
            BY <1>6, <5>1
          <5> QED BY <1>15, <1>16, <4>1, <4>2, <4>4, <5>1, <5>2
        <4> QED BY <4>3, <4>4
      <3>3. CASE ~(j < i)
        <4>1. j + 1 \in 1 .. k /\ j + 1 # i /\ j + 1 # i - 1 /\ (j = k - 1 <=> j + 1 = k) /\ (j + 1) + 1 = j + 2
          BY <1>3, <3>3
        <4>2. r[j] = w[j + 1]
          BY <1>6, <3>3
        <4>3. w[j + 1] \in Node /\ w[j + 1] # n /\ (i # 1 => w[j + 1] # w[i - 1])
          BY <1>3, <1>4, <1>14, <4>1
        <4>4. next'[w[j + 1]] = next[w[j + 1]]
          BY <1>13, <1>15, <4>3
        <4>5. next[w[j + 1]] = IF j + 1 = k THEN Null ELSE w[j + 2]
          BY <1>10, <4>1
        <4>6. j # k - 1 => r[j + 1] = w[j + 2]
          <5>1. j # k - 1 => j + 1 \in 1 .. k - 1 /\ ~(j + 1 < i)
            BY <1>3, <3>3
          <5> QED BY <1>6, <4>1, <5>1
        <4> QED BY <4>1, <4>2, <4>4, <4>5, <4>6
      <3> QED BY <3>1, <3>2, <3>3
    <2>2. r = <<>> => head'[l] = Null
      <3>1. r = <<>> => k = 1 /\ i = 1
        BY <1>3, <1>6
      <3> QED BY <1>13, <1>17, <3>1
    <2>3. r # <<>> => head'[l] = r[1]
      <3>1. r # <<>> => 1 \in 1 .. k - 1
        BY <1>3, <1>6
      <3>2. i = 1 => ~(1 < i)
        OBVIOUS
      <3>3. i # 1 => 1 < i
        BY <1>3
      <3>4. r # <<>> /\ i = 1 => r[1] = w[i + 1] /\ i # k
        BY <1>3, <1>6, <3>1, <3>2
      <3>5. r # <<>> /\ i # 1 => r[1] = w[1]
        BY <1>6, <3>1, <3>3
      <3> QED BY <1>13, <1>15, <1>16, <3>4, <3>5
    <2> QED BY <1>6, <2>1, <2>2, <2>3 DEF Path
  <1>24. Back(l, r)'
    <2>1. ASSUME NEW j \in 2 .. k - 1 PROVE prev'[r[j]] = r[j - 1]
      <3>0. j \in 1 .. k - 1 /\ j - 1 \in 1 .. k - 1
        BY <1>3
      <3>1. CASE j < i
        <4>1. j \in 2 .. k /\ j \in 1 .. k /\ j - 1 < i /\ j # i /\ j # 1 /\ (i # k => j # i + 1)
          BY <1>3, <3>1
        <4>2. r[j] = w[j] /\ r[j - 1] = w[j - 1]
          BY <1>6, <3>0, <3>1, <4>1
        <4>3. w[j] \in Node /\ w[j] # n /\ w[j] # w[1] /\ (i # k => w[j] # w[i + 1])
          BY <1>3, <1>4, <1>16, <4>1
        <4> QED BY <1>11, <1>18, <1>19, <4>1, <4>2, <4>3
      <3>2. CASE j = i
        <4>1. i # k /\ i # 1 /\ i - 1 < i /\ ~(i < i)
          BY <1>3, <3>2
        <4>2. r[i] = w[i + 1] /\ r[i - 1] = w[i - 1]
          BY <1>6, <3>0, <3>2, <4>1
        <4> QED BY <1>11, <1>14, <1>18, <3>2, <4>1, <4>2
      <3>3. CASE j > i
        <4>1. /\ j + 1 \in 2 .. k /\ j + 1 \in 1 .. k /\ j + 1 # i /\ i # k /\ j + 1 # i + 1
              /\ ~(j < i) /\ ~(j - 1 < i) /\ (j - 1) + 1 = j /\ (j + 1) - 1 = j
          BY <1>3, <3>3
        <4>2. r[j] = w[j + 1] /\ r[j - 1] = w[j]
          BY <1>6, <3>0, <4>1
        <4>3. w[j + 1] \in Node /\ w[j + 1] # n /\ w[j + 1] # w[i + 1]
          BY <1>3, <1>4, <1>16, <4>1
        <4>4. prev[w[j + 1]] = w[j]
          BY <1>11, <4>1
        <4> QED BY <1>18, <4>1, <4>2, <4>3, <4>4
      <3> QED BY <1>3, <3>1, <3>2, <3>3
    <2>2. ASSUME r # <<>>
          PROVE  prev'[r[1]] \in {r[k - 1], Null} /\ (prev'[r[1]] = Null => l \in rebuilt')
      <3>0. 1 \in 1 .. k - 1 /\ k - 1 \in 1 .. k - 1 /\ (k - 1) + 1 = k /\ k # 1
        BY <1>3, <1>6, <2>2
      <3>1. prev[w[1]] \in {w[k], Null} /\ (prev[w[1]] = Null => l \in rebuilt)
        BY <1>3, <1>5 DEF Back, k
      <3>2. CASE i = k
        <4>1. 1 < i /\ k - 1 < i /\ i # 1
          BY <1>3, <3>0, <3>2
        <4>2. r[1] = w[1] /\ r[k - 1] = w[k - 1]
          BY <1>6, <3>0, <4>1
        <4>3. w[1] # n /\ prev[n] = w[k - 1] /\ w[k - 1] # Null
          BY <1>3, <1>4, <1>11, <1>14, <3>2, <4>1
        <4> QED BY <1>19, <3>2, <4>2, <4>3
      <3>3. CASE i # k
        <4>1. ~(k - 1 < i)
          BY <1>3, <3>3
        <4>2. r[k - 1] = w[k]
          BY <1>6, <3>0, <4>1
        <4>3. rebuilt' = rebuilt
          BY <1>1, <1>16, <3>3
        <4>4. prev'[r[1]] = prev[w[1]]
          <5>1. CASE i = 1
            <6>1. r[1] = w[i + 1]
              BY <1>6, <3>0, <5>1
            <6> QED BY <1>18, <3>3, <5>1, <6>1
          <5>2. CASE i # 1
            <6>1. 1 < i /\ 1 # i + 1
              BY <1>3, <5>2
            <6>2. r[1] = w[1]
              BY <1>6, <3>0, <6>1
            <6>3. w[1] \in Node /\ w[1] # n /\ w[1] # w[i + 1]
              BY <1>3, <1>4, <1>16, <3>3, <5>2, <6>1
            <6> QED BY <1>18, <3>3, <6>2, <6>3
          <5> QED BY <5>1, <5>2
        <4> QED BY <3>1, <4>2, <4>3, <4>4
      <3> QED BY <3>2, <3>3
    <2> QED BY <1>6, <2>1, <2>2 DEF Back
  <1>25. Carries(l, r)' /\ count'[l] = Len(r) /\ Len(seq'[l]) = Len(r) /\ Len(r) <= MaxNodes
    <2>1. seq'[l] = RemoveAt(seq[l], i) /\ count'[l] = k - 1
      BY <1>1, <1>5 DEF TypeInv
    <2>2. ASSUME NEW j \in 1 .. k - 1 PROVE data'[r[j]] = seq'[l][j]
      <3> DEFINE h == IF j < i THEN j ELSE j + 1
      <3>1. h \in 1 .. k /\ h # i
        BY <1>3
      <3>2. r[j] = w[h] /\ seq'[l][j] = seq[l][h]
        BY <1>6, <1>21, <2>1
      <3> HIDE DEF h
      <3>3. w[h] \in Node /\ w[h] # n /\ data[w[h]] = seq[l][h]
        BY <1>3, <1>4, <1>5, <3>1 DEF Carries, k
      <3> QED BY <1>1, <3>2, <3>3 DEF TypeInv
    <2>3. k - 1 <= MaxNodes
      BY <1>3, <1>5, MaxNodesNat
    <2> QED BY <1>6, <1>21, <2>1, <2>2, <2>3 DEF Carries
  <1>26. ListOK(l, r)'
    BY <1>1, <1>6, <1>23, <1>24, <1>25, PlainNext
  <1>27. ASSUME NEW m \in Lists, m # l PROVE ListOK(m, W[m])'
    <2>1. W[m] \in Seq(Node) /\ ListOK(m, W[m])
      BY DEF Shape
    <2>2. ToSet(W[m]) \cap ToSet(w) = {}
      BY <1>27 DEF Shape, Apart, w
    <2>3. ASSUME NEW x \in ToSet(W[m]) PROVE next'[x] = next[x] /\ prev'[x] = prev[x] /\ data'[x] = data[x]
      <3>1. x \in Node /\ x \notin ToSet(w)
        BY <2>1, <2>2, ToSetIs
      <3>2. x # n /\ x # w[1] /\ (i # 1 => x # w[i - 1]) /\ (i # k => x # w[i + 1])
        BY <1>3, <1>4, <1>14, <1>16, <3>1
      <3>3. data'[x] = data[x]
        BY <1>1, <3>1, <3>2 DEF TypeInv
      <3> QED BY <1>13, <1>15, <1>18, <1>19, <3>1, <3>2, <3>3
    <2>4. /\ head'[m] = head[m] /\ count'[m] = count[m] /\ seq'[m] = seq[m]
          /\ m \in skewed' <=> m \in skewed
          /\ m \in rebuilt => m \in rebuilt'
      BY <1>1, <1>27 DEF TypeInv
    <2> QED BY <2>1, <2>3, <2>4, Untouched
  <1>28. Shape(V)'
    <2>1. \A m \in Lists : ListOK(m, V[m])'
      BY <1>8, <1>26, <1>27
    <2> QED BY <1>8, <1>9, <2>1 DEF Shape
  <1> QED BY <1>22, <1>28 DEF Kept
--------------------------------------------------------------------------------
(* ina_list_concat.                                                           *)

\* One sequence after another.
LEMMA Joined ==
  ASSUME NEW S, NEW w \in Seq(S), NEW u \in Seq(S)
  PROVE  LET c == w \o u
         IN  /\ c \in Seq(S) /\ Len(c) = Len(w) + Len(u)
             /\ \A i \in 1 .. Len(w) : i \in 1 .. Len(c) /\ c[i] = w[i]
             /\ \A i \in 1 .. Len(u) : Len(w) + i \in 1 .. Len(c) /\ c[Len(w) + i] = u[i]
             /\ \A i \in 1 .. Len(c) : i \in 1 .. Len(w) \/ \E j \in 1 .. Len(u) : i = Len(w) + j
  <1> DEFINE c == w \o u
             k == Len(w)
             h == Len(u)
  <1>1. /\ c \in Seq(S) /\ Len(c) = k + h /\ k \in Nat /\ h \in Nat
        /\ \A i \in 1 .. k + h : c[i] = IF i <= k THEN w[i] ELSE u[i - k]
    BY ConcatProperties
  <1> HIDE DEF c, k, h
  <1>2. \A i \in 1 .. k : i \in 1 .. Len(c) /\ c[i] = w[i]
    BY <1>1
  <1>3. ASSUME NEW i \in 1 .. h PROVE k + i \in 1 .. Len(c) /\ c[k + i] = u[i]
    <2>1. k + i \in 1 .. k + h /\ ~(k + i <= k) /\ (k + i) - k = i
      BY <1>1
    <2> QED BY <1>1, <2>1
  <1>4. ASSUME NEW i \in 1 .. Len(c), i \notin 1 .. k PROVE \E j \in 1 .. h : i = k + j
    <2>1. i - k \in 1 .. h /\ i = k + (i - k)
      BY <1>1, <1>4
    <2> QED BY <2>1
  <1> QED BY <1>1, <1>2, <1>3, <1>4 DEF c, k, h

\* c is u after w.
OneAfter(w, u, c) ==
  /\ Len(c) = Len(w) + Len(u)
  /\ \A i \in 1 .. Len(w) : c[i] = w[i]
  /\ \A i \in 1 .. Len(u) : c[Len(w) + i] = u[i]

LEMMA JoinedAfter ==
  ASSUME NEW S, NEW w \in Seq(S), NEW u \in Seq(S)
  PROVE  w \o u \in Seq(S) /\ OneAfter(w, u, w \o u)
  <1> DEFINE c == w \o u
  <1>1. /\ c \in Seq(S) /\ Len(c) = Len(w) + Len(u)
        /\ \A i \in 1 .. Len(w) : i \in 1 .. Len(c) /\ c[i] = w[i]
        /\ \A i \in 1 .. Len(u) : Len(w) + i \in 1 .. Len(c) /\ c[Len(w) + i] = u[i]
        /\ \A i \in 1 .. Len(c) : i \in 1 .. Len(w) \/ \E j \in 1 .. Len(u) : i = Len(w) + j
    BY Joined
  <1> HIDE DEF c
  <1>2. OneAfter(w, u, c)
    BY <1>1 DEF OneAfter
  <1> QED BY <1>1, <1>2 DEF c

LEMMA JoinedApart ==
  ASSUME NEW S, NEW w \in Seq(S), NEW u \in Seq(S), IsInjective(w), IsInjective(u),
         ToSet(w) \cap ToSet(u) = {}
  PROVE  IsInjective(w \o u) /\ ToSet(w \o u) = ToSet(w) \cup ToSet(u)
  <1> DEFINE c == w \o u
             k == Len(w)
             h == Len(u)
  <1>1. /\ c \in Seq(S) /\ Len(c) = k + h /\ k \in Nat /\ h \in Nat
        /\ \A i \in 1 .. k : i \in 1 .. Len(c) /\ c[i] = w[i]
        /\ \A i \in 1 .. h : k + i \in 1 .. Len(c) /\ c[k + i] = u[i]
        /\ \A i \in 1 .. Len(c) : i \in 1 .. k \/ \E j \in 1 .. h : i = k + j
    BY Joined
  <1>2. /\ \A i \in 1 .. k : w[i] \in ToSet(w)
        /\ \A i \in 1 .. h : u[i] \in ToSet(u)
    BY ToSetIs
  <1>3. /\ \A i, j \in 1 .. k : w[i] = w[j] => i = j
        /\ \A i, j \in 1 .. h : u[i] = u[j] => i = j
    BY DEF IsInjective
  <1> HIDE DEF c, k, h
  <1>4. \A i, j \in 1 .. Len(c) : c[i] = c[j] => i = j
    <2> SUFFICES ASSUME NEW i \in 1 .. Len(c), NEW j \in 1 .. Len(c), c[i] = c[j] PROVE i = j
      OBVIOUS
    <2>1. CASE i \in 1 .. k /\ j \in 1 .. k
      BY <1>1, <1>3, <2>1
    <2>2. CASE i \in 1 .. k /\ j \notin 1 .. k
      <3>1. PICK b \in 1 .. h : j = k + b
        BY <1>1, <2>2
      <3>2. c[i] \in ToSet(w) /\ c[j] \in ToSet(u)
        BY <1>1, <1>2, <2>2, <3>1
      <3> QED BY <3>2
    <2>3. CASE i \notin 1 .. k /\ j \in 1 .. k
      <3>1. PICK b \in 1 .. h : i = k + b
        BY <1>1, <2>3
      <3>2. c[j] \in ToSet(w) /\ c[i] \in ToSet(u)
        BY <1>1, <1>2, <2>3, <3>1
      <3> QED BY <3>2
    <2>4. CASE i \notin 1 .. k /\ j \notin 1 .. k
      <3>1. PICK a \in 1 .. h : i = k + a
        BY <1>1, <2>4
      <3>2. PICK b \in 1 .. h : j = k + b
        BY <1>1, <2>4
      <3>3. u[a] = u[b]
        BY <1>1, <3>1, <3>2
      <3> QED BY <1>3, <3>1, <3>2, <3>3
    <2> QED BY <2>1, <2>2, <2>3, <2>4
  <1>5. IsInjective(c)
    <2>1. DOMAIN c = 1 .. Len(c)
      BY <1>1
    <2> QED BY <1>4, <2>1 DEF IsInjective
  <1>6. \A i \in 1 .. Len(c) : c[i] \in ToSet(w) \cup ToSet(u)
    BY <1>1, <1>2
  <1>7. ToSet(c) \subseteq ToSet(w) \cup ToSet(u)
    BY <1>1, <1>6, ToSetIs
  <1>8. ASSUME NEW x \in ToSet(w) PROVE x \in ToSet(c)
    <2>1. PICK i \in 1 .. k : x = w[i]
      BY ToSetIs DEF k
    <2>2. i \in 1 .. Len(c) /\ c[i] = x
      BY <1>1, <2>1
    <2> QED BY <1>1, <2>2, ToSetIs
  <1>9. ASSUME NEW x \in ToSet(u) PROVE x \in ToSet(c)
    <2>1. PICK i \in 1 .. h : x = u[i]
      BY ToSetIs DEF h
    <2>2. k + i \in 1 .. Len(c) /\ c[k + i] = x
      BY <1>1, <2>1
    <2> QED BY <1>1, <2>2, ToSetIs
  <1> QED BY <1>5, <1>7, <1>8, <1>9 DEF c

\* A list without nodes.
LEMMA NoNodes ==
  ASSUME NEW l \in Lists, l \notin skewed', head'[l] = Null, count'[l] = 0, seq'[l] = <<>>
  PROVE  ListOK(l, <<>>)'
  <1>1. <<>> \in Seq(Node) /\ Len(<<>>) = 0
    OBVIOUS
  <1>2. \A i : i \notin 1 .. 0 /\ i \notin 2 .. 0
    OBVIOUS
  <1>3. 0 <= MaxNodes
    BY MaxNodesNat
  <1>4. Path(l, <<>>)'
    BY <1>1, <1>2 DEF Path
  <1>5. Back(l, <<>>)'
    BY <1>1, <1>2 DEF Back
  <1>6. Carries(l, <<>>)'
    BY <1>1, <1>2 DEF Carries
  <1> QED BY <1>1, <1>3, <1>4, <1>5, <1>6, PlainNext

LEMMA ToSetEmpty == ToSet(<<>>) = {} /\ IsInjective(<<>>) /\ \A S : <<>> \in Seq(S)
  BY DEF ToSet, IsInjective

LEMMA ConcatStep ==
  ASSUME TypeInv, NEW W, Shape(W), NEW d \in Lists \ skewed, NEW s \in Lists \ skewed, Concat(d, s)
  PROVE  Kept
  <1> DEFINE w == W[d]
             u == W[s]
             k == Len(w)
             h == Len(u)
             c == w \o u
             V == [W EXCEPT ![d] = c, ![s] = <<>>]
  <1>1. /\ d # s
        /\ head[s] # Null
        /\ count[d] + count[s] <= MaxNodes
        /\ \/ /\ head[d] = Null
              /\ head' = [head EXCEPT ![d] = head[s], ![s] = Null]
              /\ UNCHANGED <<next, prev>>
           \/ /\ head[d] # Null
              /\ prev[head[d]] # Null
              /\ head' = [head EXCEPT ![s] = Null]
              /\ prev' = [prev EXCEPT ![head[d]] = prev[head[s]], ![head[s]] = prev[head[d]]]
              /\ next' = [next EXCEPT ![prev[head[d]]] = head[s]]
        /\ count' = [count EXCEPT ![d] = (IF head[d] = Null THEN 0 ELSE @) + count[s], ![s] = 0]
        /\ mp' = IF s \in mp THEN (mp \ {s}) \cup {d} ELSE mp
        /\ home' = [n \in Node |-> IF home[n] = s THEN d ELSE home[n]]
        /\ seq' = [seq EXCEPT ![d] = @ \o seq[s], ![s] = <<>>]
        /\ rebuilt' = (rebuilt \ {s, d}) \cup (IF s \in rebuilt THEN {d} ELSE {})
        /\ UNCHANGED <<recycling, data, skewed, fault>>
    BY DEF Concat
  <1>2. /\ W \in [Lists -> Seq(Node)] /\ w \in Seq(Node) /\ u \in Seq(Node)
        /\ ListOK(d, w) /\ ListOK(s, u) /\ IsInjective(w) /\ IsInjective(u)
        /\ ToSet(w) \cap ToSet(u) = {}
    BY <1>1 DEF Shape, Apart
  <1>3. /\ u # <<>> /\ h \in Nat /\ h >= 1 /\ head[s] = u[1] /\ 1 \in 1 .. h /\ h \in 1 .. h
        /\ k \in Nat
    BY <1>1, FirstNode
  <1>4. /\ \A i \in 1 .. h : u[i] \in Node /\ u[i] \in ToSet(u) /\ u[i] # Null
        /\ \A i, j \in 1 .. h : u[i] = u[j] => i = j
        /\ \A i \in 1 .. k : w[i] \in Node /\ w[i] \in ToSet(w) /\ w[i] # Null
        /\ \A i, j \in 1 .. k : w[i] = w[j] => i = j
    BY FirstNode
  <1>5. /\ seq[d] \in Seq(Data) /\ Len(seq[d]) = k /\ count[d] = k
        /\ Path(d, w) /\ Back(d, w) /\ Carries(d, w)
    BY <1>2, Plain
  <1>6. /\ seq[s] \in Seq(Data) /\ Len(seq[s]) = h /\ count[s] = h /\ h <= MaxNodes
        /\ Path(s, u) /\ Back(s, u) /\ Carries(s, u)
    BY <1>2, Plain
  <1>7. /\ c \in Seq(Node) /\ Len(c) = k + h
        /\ \A i \in 1 .. k : i \in 1 .. Len(c) /\ c[i] = w[i]
        /\ \A i \in 1 .. h : k + i \in 1 .. Len(c) /\ c[k + i] = u[i]
        /\ \A i \in 1 .. Len(c) : i \in 1 .. k \/ \E j \in 1 .. h : i = k + j
    BY <1>2, Joined
  <1>8. IsInjective(c) /\ ToSet(c) = ToSet(w) \cup ToSet(u)
    BY <1>2, JoinedApart
  <1>9. V \in [Lists -> Seq(Node)] /\ V[d] = c /\ V[s] = <<>> /\ \A m \in Lists : m # d /\ m # s => V[m] = W[m]
    BY <1>1, <1>2, <1>7, ToSetEmpty
  <1>10. \A i \in 1 .. h : next[u[i]] = IF i = h THEN Null ELSE u[i + 1]
    BY <1>6 DEF Path
  <1>11. \A i \in 2 .. h : prev[u[i]] = u[i - 1]
    BY <1>6 DEF Back
  <1>12. prev[u[1]] \in {u[h], Null} /\ (prev[u[1]] = Null => s \in rebuilt)
    BY <1>3, <1>6 DEF Back
  <1> HIDE DEF w, u, k, h, c, V
  <1>13. s \in rebuilt => d \in rebuilt'
    BY <1>1
  <1>14. /\ head[d] = Null <=> w = <<>>
         /\ w # <<>> => k >= 1 /\ head[d] = w[1] /\ 1 \in 1 .. k /\ k \in 1 .. k
         /\ w = <<>> => k = 0
    BY <1>2, <1>3, FirstNode DEF w, k
  <1>15. w # <<>> => prev[head[d]] = w[k] \/ prev[head[d]] = Null
    BY <1>5, <1>14 DEF Back, k
  \* What the step does to the nodes.
  <1>16. ASSUME w # <<>>
         PROVE  /\ next'[w[k]] = u[1] /\ \A x \in Node : x # w[k] => next'[x] = next[x]
                /\ prev'[w[1]] = prev[u[1]] /\ prev'[u[1]] = w[k]
                /\ \A x \in Node : x # w[1] /\ x # u[1] => prev'[x] = prev[x]
    <2>1. prev[head[d]] = w[k] /\ head[d] = w[1] /\ head[s] = u[1]
      BY <1>1, <1>3, <1>14, <1>15, <1>16
    <2>2. w[k] \in Node /\ w[1] \in Node /\ u[1] \in Node
      BY <1>3, <1>4, <1>14, <1>16
    <2>3. w[1] # u[1]
      BY <1>2, <1>3, <1>4, <1>14, <1>16
    <2>4. next' = [next EXCEPT ![w[k]] = u[1]] /\ prev' = [prev EXCEPT ![w[1]] = prev[u[1]], ![u[1]] = w[k]]
      BY <1>1, <1>14, <1>16, <2>1
    <2> QED BY <2>2, <2>3, <2>4 DEF TypeInv
  <1>17. w = <<>> => next' = next /\ prev' = prev /\ head'[d] = head[s]
    BY <1>1, <1>14 DEF TypeInv
  <1>18. /\ seq[d] \o seq[s] \in Seq(Data) /\ Len(seq[d] \o seq[s]) = k + h
         /\ \A i \in 1 .. k : (seq[d] \o seq[s])[i] = seq[d][i]
         /\ \A i \in 1 .. h : (seq[d] \o seq[s])[k + i] = seq[s][i]
    <2> DEFINE q == seq[d] \o seq[s]
    <2>1. q \in Seq(Data) /\ OneAfter(seq[d], seq[s], q)
      BY <1>5, <1>6, JoinedAfter, Zenon
    <2> HIDE DEF q
    <2>2. q \in Seq(Data) /\ Len(q) = k + h
          /\ (\A i \in 1 .. k : q[i] = seq[d][i])
          /\ \A i \in 1 .. h : q[k + i] = seq[s][i]
      BY <1>5, <1>6, <2>1 DEF OneAfter
    <2> QED BY <2>2 DEF q
  <1>19. seq'[d] = seq[d] \o seq[s] /\ seq'[s] = <<>> /\ count'[s] = 0 /\ count'[d] = k + h /\ head'[s] = Null
    <2>1. seq'[d] = seq[d] \o seq[s] /\ seq'[s] = <<>> /\ count'[s] = 0 /\ head'[s] = Null
      BY <1>1 DEF TypeInv
    <2>2. count'[d] = (IF head[d] = Null THEN 0 ELSE count[d]) + count[s]
      BY <1>1 DEF TypeInv
    <2> QED BY <1>3, <1>5, <1>6, <1>14, <2>1, <2>2
  <1>20. TypeInv'
    <2>1. seq' \in [Lists -> Seq(Data)]
      BY <1>1, <1>18, ToSetEmpty DEF TypeInv
    <2>2. count' \in [Lists -> Nat]
      BY <1>1 DEF TypeInv
    <2>3. head' \in [Lists -> Node \cup {Null}]
      BY <1>1 DEF TypeInv
    <2>4. CASE w = <<>>
      <3>1. home' \in [Node -> Lists \cup {Null}]
        BY <1>1 DEF TypeInv
      <3> QED BY <1>1, <1>17, <2>1, <2>2, <2>3, <2>4, <3>1 DEF TypeInv, recycling
    <2>5. CASE w # <<>>
      <3>1. prev[head[d]] \in Node /\ head[d] \in Node /\ head[s] \in Node
        BY <1>1, <1>14, <2>5 DEF TypeInv
      <3>2. next' \in [Node -> Node \cup {Null}]
        BY <1>1, <1>14, <2>5, <3>1 DEF TypeInv
      <3>3. prev' \in [Node -> Node \cup {Null}]
        BY <1>1, <1>14, <2>5, <3>1, ZenonT(60) DEF TypeInv
      <3>4. home' \in [Node -> Lists \cup {Null}]
        BY <1>1 DEF TypeInv
      <3> QED BY <1>1, <2>1, <2>2, <2>3, <3>2, <3>3, <3>4 DEF TypeInv, recycling
    <2> QED BY <2>4, <2>5
  <1>21. ASSUME NEW i \in 1 .. k + h PROVE next'[c[i]] = IF i = k + h THEN Null ELSE c[i + 1]
    <2>1. CASE i \in 1 .. k
      <3>1. w # <<>> /\ i # k + h /\ c[i] = w[i]
        BY <1>3, <1>7, <1>14, <2>1
      <3>2. CASE i = k
        <4>1. c[i + 1] = u[1]
          BY <1>3, <1>7, <3>2
        <4> QED BY <1>16, <3>1, <3>2, <4>1
      <3>3. CASE i # k
        <4>1. i + 1 \in 1 .. k
          BY <1>3, <2>1, <3>3
        <4>2. w[i] # w[k] /\ w[i] \in Node /\ next[w[i]] = w[i + 1] /\ c[i + 1] = w[i + 1]
          BY <1>4, <1>5, <1>7, <1>14, <2>1, <3>1, <3>3, <4>1 DEF Path, k
        <4> QED BY <1>16, <3>1, <4>2
      <3> QED BY <3>2, <3>3
    <2>2. CASE i \notin 1 .. k
      <3>1. PICK j \in 1 .. h : i = k + j
        BY <1>7, <2>2
      <3>2. c[i] = u[j] /\ u[j] \in Node /\ u[j] \in ToSet(u)
        BY <1>4, <1>7, <3>1
      <3>3. next'[u[j]] = next[u[j]]
        <4>1. w # <<>> => u[j] # w[k]
          BY <1>2, <1>4, <1>14, <3>2
        <4> QED BY <1>16, <1>17, <3>2, <4>1
      <3>4. next[u[j]] = IF j = h THEN Null ELSE u[j + 1]
        BY <1>10
      <3>5. /\ i = k + h <=> j = h
            /\ j # h => j + 1 \in 1 .. h /\ k + (j + 1) = i + 1
        BY <1>3, <3>1
      <3>6. j # h => c[i + 1] = u[j + 1]
        BY <1>7, <3>5
      <3> QED BY <3>2, <3>3, <3>4, <3>5, <3>6
    <2> QED BY <2>1, <2>2
  <1>22. k + h \in Nat /\ k + h >= 1 /\ c # <<>>
    BY <1>3, <1>7
  <1>23. c[1] = (IF w = <<>> THEN u[1] ELSE w[1]) /\ c[k + h] = u[h] /\ (w # <<>> => c[k] = w[k])
    <2>1. w = <<>> => k + 1 = 1
      BY <1>14
    <2> QED BY <1>3, <1>7, <1>14, <2>1
  <1>24. Path(d, c)'
    <2>1. w # <<>> => head'[d] = head[d]
      BY <1>1, <1>14 DEF TypeInv
    <2>2. head'[d] = c[1]
      BY <1>3, <1>14, <1>17, <1>23, <2>1
    <2> QED BY <1>7, <1>21, <1>22, <2>2 DEF Path
  <1>25. ASSUME NEW i \in 2 .. k + h PROVE prev'[c[i]] = c[i - 1]
    <2>1. CASE i \in 1 .. k
      <3>1. w # <<>> /\ i - 1 \in 1 .. k /\ i \in 2 .. k /\ i # 1
        BY <1>3, <1>14, <2>1
      <3>2. c[i] = w[i] /\ c[i - 1] = w[i - 1] /\ w[i] \in Node /\ w[i] # w[1] /\ w[i] # u[1]
        BY <1>2, <1>3, <1>4, <1>7, <1>14, <2>1, <3>1
      <3>3. prev[w[i]] = w[i - 1]
        BY <1>5, <3>1 DEF Back, k
      <3> QED BY <1>16, <3>1, <3>2, <3>3
    <2>2. CASE i \notin 1 .. k
      <3>0. i \in 1 .. k + h
        BY <1>3
      <3>1. PICK j \in 1 .. h : i = k + j
        BY <1>7, <2>2, <3>0
      <3>2. c[i] = u[j] /\ u[j] \in Node /\ u[j] \in ToSet(u)
        BY <1>4, <1>7, <3>1
      <3>3. CASE j = 1
        <4>1. w # <<>> /\ i - 1 = k
          BY <1>3, <1>14, <3>1, <3>3
        <4> QED BY <1>16, <1>23, <3>2, <3>3, <4>1
      <3>4. CASE j # 1
        <4>1. j \in 2 .. h /\ j - 1 \in 1 .. h /\ k + (j - 1) = i - 1
          BY <1>3, <3>1, <3>4
        <4>2. c[i - 1] = u[j - 1] /\ prev[u[j]] = u[j - 1]
          BY <1>7, <1>11, <4>1
        <4>3. u[j] # u[1] /\ (w # <<>> => u[j] # w[1])
          BY <1>2, <1>3, <1>4, <1>14, <3>2, <3>4
        <4> QED BY <1>16, <1>17, <3>2, <4>2, <4>3
      <3> QED BY <3>3, <3>4
    <2> QED BY <2>1, <2>2
  <1>26. Back(d, c)'
    <2>1. prev'[c[1]] = prev[u[1]]
      BY <1>16, <1>17, <1>23
    <2>2. prev'[c[1]] \in {c[k + h], Null} /\ (prev'[c[1]] = Null => d \in rebuilt')
      BY <1>12, <1>13, <1>23, <2>1
    <2> QED BY <1>7, <1>25, <2>2 DEF Back
  <1>27. Carries(d, c)'
    <2>1. ASSUME NEW i \in 1 .. k + h PROVE data'[c[i]] = seq'[d][i]
      <3>1. CASE i \in 1 .. k
        <4>1. data[w[i]] = seq[d][i]
          BY <1>5, <3>1 DEF Carries, k
        <4> QED BY <1>1, <1>7, <1>18, <1>19, <3>1, <4>1, ZenonT(60)
      <3>2. CASE i \notin 1 .. k
        <4>1. PICK j \in 1 .. h : i = k + j
          BY <1>7, <3>2
        <4>2. data[u[j]] = seq[s][j]
          BY <1>6 DEF Carries, h
        <4> QED BY <1>1, <1>7, <1>18, <1>19, <4>1, <4>2, ZenonT(60)
      <3> QED BY <3>1, <3>2
    <2> QED BY <1>7, <2>1 DEF Carries
  <1>28. ListOK(d, c)'
    <2>1. Len(seq'[d]) = Len(c) /\ count'[d] = Len(c) /\ Len(c) <= MaxNodes
      BY <1>1, <1>5, <1>6, <1>7, <1>18, <1>19, ZenonT(60)
    <2> QED BY <1>1, <1>7, <1>24, <1>26, <1>27, <2>1, PlainNext
  <1>29. ListOK(s, <<>>)'
    BY <1>1, <1>19, NoNodes
  <1>30. ASSUME NEW m \in Lists, m # d, m # s PROVE ListOK(m, W[m])'
    <2>1. W[m] \in Seq(Node) /\ ListOK(m, W[m])
      BY DEF Shape
    <2>2. ToSet(W[m]) \cap ToSet(w) = {} /\ ToSet(W[m]) \cap ToSet(u) = {}
      BY <1>30 DEF Shape, Apart, w, u
    <2>3. ASSUME NEW x \in ToSet(W[m]) PROVE next'[x] = next[x] /\ prev'[x] = prev[x] /\ data'[x] = data[x]
      <3>1. x \in Node /\ x \notin ToSet(w) /\ x \notin ToSet(u)
        BY <2>1, <2>2, ToSetIs
      <3>2. x # u[1] /\ (w # <<>> => x # w[1] /\ x # w[k])
        BY <1>3, <1>4, <1>14, <3>1
      <3> QED BY <1>1, <1>16, <1>17, <3>1, <3>2
    <2>4. /\ head'[m] = head[m] /\ count'[m] = count[m] /\ seq'[m] = seq[m]
          /\ m \in skewed' <=> m \in skewed
          /\ m \in rebuilt => m \in rebuilt'
      BY <1>1, <1>30 DEF TypeInv
    <2> QED BY <2>1, <2>3, <2>4, Untouched
  <1>31. Apart(V)'
    <2>1. \A x \in Node : home'[x] = Null <=> home[x] = Null
      BY <1>1, ListAssumption DEF TypeInv
    <2>2. first_free' = first_free
      BY <1>1 DEF recycling
    <2>3. ASSUME NEW m \in Lists
          PROVE  ToSet(V[m]) = IF m = d THEN ToSet(W[d]) \cup ToSet(W[s])
                               ELSE IF m = s THEN {} ELSE ToSet(W[m])
      BY <1>8, <1>9, ToSetEmpty DEF w, u
    <2>4. \A m \in Lists : ToSet(W[m]) \subseteq Node /\ ToSet(first_free[m]) \subseteq Node
                           /\ first_free[m] \in Seq(Node)
      BY ToSetIs DEF TypeInv, Shape
    <2>5. \A m \in Lists : \A x \in ToSet(V[m]) : home'[x] # Null
      BY <2>1, <2>3, <2>4 DEF Shape, Apart
    <2>6. \A m \in Lists : IsInjective(V[m])
      BY <1>8, <1>9, ToSetEmpty DEF Shape, Apart
    <2>7. ASSUME NEW l \in Lists, NEW m \in Lists, l # m PROVE ToSet(V[l]) \cap ToSet(V[m]) = {}
      <3>1. /\ ToSet(W[l]) \cap ToSet(W[m]) = {}
            /\ l # d => ToSet(W[l]) \cap ToSet(W[d]) = {}
            /\ l # s => ToSet(W[l]) \cap ToSet(W[s]) = {}
            /\ m # d => ToSet(W[m]) \cap ToSet(W[d]) = {}
            /\ m # s => ToSet(W[m]) \cap ToSet(W[s]) = {}
        BY <2>7 DEF Shape, Apart
      <3>2. /\ ToSet(V[l]) = IF l = d THEN ToSet(W[d]) \cup ToSet(W[s])
                             ELSE IF l = s THEN {} ELSE ToSet(W[l])
            /\ ToSet(V[m]) = IF m = d THEN ToSet(W[d]) \cup ToSet(W[s])
                             ELSE IF m = s THEN {} ELSE ToSet(W[m])
        BY <2>3
      <3> QED BY <2>7, <3>1, <3>2
    <2>8. ASSUME NEW l \in Lists, NEW m \in Lists PROVE ToSet(V[l]) \cap ToSet(first_free'[m]) = {}
      <3>1. ToSet(W[l]) \cap ToSet(first_free[m]) = {} /\ ToSet(W[d]) \cap ToSet(first_free[m]) = {}
            /\ ToSet(W[s]) \cap ToSet(first_free[m]) = {}
        BY DEF Shape, Apart
      <3> QED BY <2>2, <2>3, <3>1
    <2>9. ASSUME NEW l \in Lists, NEW m \in Lists,
                 NEW i \in 1 .. Len(first_free'[l]), NEW j \in 1 .. Len(first_free'[m]),
                 first_free'[l][i] = first_free'[m][j], home'[first_free'[l][i]] # Null
          PROVE  l = m /\ i = j
      <3>1. i \in 1 .. Len(first_free[l]) /\ j \in 1 .. Len(first_free[m]) /\ first_free[l][i] = first_free[m][j]
        BY <2>2, <2>9
      <3>2. first_free[l][i] \in Node
        BY <2>4, <3>1
      <3>3. home[first_free[l][i]] # Null
        BY <2>1, <2>2, <2>9, <3>2
      <3>4. StacksApart
        BY DEF Shape, Apart
      <3> QED BY <3>1, <3>3, <3>4 DEF StacksApart
    <2>10. StacksApart'
      BY <2>9 DEF StacksApart
    <2> QED BY <2>5, <2>6, <2>7, <2>8, <2>10 DEF Apart
  <1>32. Shape(V)'
    <2>1. \A m \in Lists : ListOK(m, V[m])'
      BY <1>9, <1>28, <1>29, <1>30
    <2> QED BY <1>9, <1>31, <2>1 DEF Shape
  <1> QED BY <1>20, <1>32 DEF Kept
--------------------------------------------------------------------------------
(* ina_list_sort and ina_list_resize link the nodes of a sequence.            *)

LEMMA NextsAre ==
  ASSUME NEW s \in Seq(Node), IsInjective(s), NEW old \in [Node -> Node \cup {Null}]
  PROVE  /\ Nexts(s, old) \in [Node -> Node \cup {Null}]
         /\ \A i \in 1 .. Len(s) : Nexts(s, old)[s[i]] = IF i = Len(s) THEN Null ELSE s[i + 1]
         /\ \A x \in Node : x \notin ToSet(s) => Nexts(s, old)[x] = old[x]
  <1> DEFINE k == Len(s)
             at(n) == CHOOSE i \in 2 .. k : s[i - 1] = n
  <1>0. k \in Nat /\ s # <<>> => k >= 1
    OBVIOUS
  <1>1. /\ \A i \in 1 .. k : s[i] \in Node /\ Contains(s, s[i])
        /\ \A x \in Node : Contains(s, x) => \E i \in 1 .. k : x = s[i]
        /\ \A x \in Node : Contains(s, x) <=> x \in ToSet(s)
    BY DEF Contains, ToSet
  <1>2. \A i, j \in 1 .. k : s[i] = s[j] => i = j
    BY DEF IsInjective
  <1>3. s # <<>> => Last(s) = s[k]
    BY DEF Last
  <1>4. ASSUME NEW i \in 1 .. k, i # k PROVE at(s[i]) = i + 1
    <2>1. i + 1 \in 2 .. k /\ (i + 1) - 1 = i
      BY <1>0, <1>4
    <2>2. at(s[i]) \in 2 .. k /\ s[at(s[i]) - 1] = s[i]
      BY <2>1
    <2>3. ASSUME NEW j \in 2 .. k, s[j - 1] = s[i] PROVE j = i + 1
      <3>1. j - 1 \in 1 .. k
        BY <1>0
      <3>2. j - 1 = i
        BY <1>2, <2>3, <3>1
      <3> QED BY <3>2
    <2> QED BY <2>2, <2>3
  <1>5. \A n \in Node : Nexts(s, old)[n] = IF Contains(s, n) /\ n # Last(s) THEN s[at(n)]
                                           ELSE IF Contains(s, n) THEN Null ELSE old[n]
    BY DEF Nexts
  <1>6. DOMAIN Nexts(s, old) = Node /\ Nexts(s, old) = [n \in Node |-> Nexts(s, old)[n]]
    BY DEF Nexts
  <1> HIDE DEF at, k
  <1>7. ASSUME NEW i \in 1 .. k PROVE Nexts(s, old)[s[i]] = IF i = k THEN Null ELSE s[i + 1]
    <2>1. s # <<>> /\ s[i] \in Node /\ Contains(s, s[i]) /\ k \in 1 .. k
      BY <1>0, <1>1 DEF k
    <2>2. i = k <=> s[i] = Last(s)
      BY <1>2, <1>3, <2>1
    <2> QED BY <1>4, <1>5, <2>1, <2>2
  <1>8. ASSUME NEW x \in Node, x \notin ToSet(s) PROVE Nexts(s, old)[x] = old[x]
    BY <1>1, <1>5, <1>8
  <1>9. ASSUME NEW x \in Node PROVE Nexts(s, old)[x] \in Node \cup {Null}
    <2>1. CASE x \notin ToSet(s)
      BY <1>8, <2>1
    <2>2. CASE x \in ToSet(s)
      <3>1. PICK i \in 1 .. k : x = s[i]
        BY <1>1, <2>2
      <3>2. i # k => i + 1 \in 1 .. k
        BY <1>0, <3>1 DEF k
      <3> QED BY <1>1, <1>7, <3>1, <3>2
    <2> QED BY <2>1, <2>2
  <1>10. Nexts(s, old) \in [Node -> Node \cup {Null}]
    BY <1>6, <1>9
  <1> QED BY <1>7, <1>8, <1>10 DEF k

LEMMA PrevsAre ==
  ASSUME NEW s \in Seq(Node), IsInjective(s), NEW old \in [Node -> Node \cup {Null}]
  PROVE  /\ Prevs(s, old) \in [Node -> Node \cup {Null}]
         /\ \A i \in 1 .. Len(s) : Prevs(s, old)[s[i]] = IF i = 1 THEN Null ELSE s[i - 1]
         /\ \A x \in Node : x \notin ToSet(s) => Prevs(s, old)[x] = old[x]
  <1> DEFINE k == Len(s)
             at(n) == CHOOSE i \in 1 .. k - 1 : s[i + 1] = n
  <1>0. k \in Nat /\ s # <<>> => k >= 1
    OBVIOUS
  <1>1. /\ \A i \in 1 .. k : s[i] \in Node /\ Contains(s, s[i])
        /\ \A x \in Node : Contains(s, x) => \E i \in 1 .. k : x = s[i]
        /\ \A x \in Node : Contains(s, x) <=> x \in ToSet(s)
    BY DEF Contains, ToSet
  <1>2. \A i, j \in 1 .. k : s[i] = s[j] => i = j
    BY DEF IsInjective
  <1>3. s # <<>> => Head(s) = s[1]
    OBVIOUS
  <1>4. ASSUME NEW i \in 1 .. k, i # 1 PROVE at(s[i]) = i - 1
    <2>1. i - 1 \in 1 .. k - 1 /\ (i - 1) + 1 = i
      BY <1>0, <1>4
    <2>2. at(s[i]) \in 1 .. k - 1 /\ s[at(s[i]) + 1] = s[i]
      BY <2>1
    <2>3. ASSUME NEW j \in 1 .. k - 1, s[j + 1] = s[i] PROVE j = i - 1
      <3>1. j + 1 \in 1 .. k
        BY <1>0
      <3>2. j + 1 = i
        BY <1>2, <2>3, <3>1
      <3> QED BY <3>2
    <2> QED BY <2>2, <2>3
  <1>5. \A n \in Node : Prevs(s, old)[n] = IF Contains(s, n) /\ n # Head(s) THEN s[at(n)]
                                           ELSE IF Contains(s, n) THEN Null ELSE old[n]
    BY DEF Prevs
  <1>6. DOMAIN Prevs(s, old) = Node /\ Prevs(s, old) = [n \in Node |-> Prevs(s, old)[n]]
    BY DEF Prevs
  <1> HIDE DEF at, k
  <1>7. ASSUME NEW i \in 1 .. k PROVE Prevs(s, old)[s[i]] = IF i = 1 THEN Null ELSE s[i - 1]
    <2>1. s # <<>> /\ s[i] \in Node /\ Contains(s, s[i]) /\ 1 \in 1 .. k
      BY <1>0, <1>1 DEF k
    <2>2. i = 1 <=> s[i] = Head(s)
      BY <1>2, <1>3, <2>1
    <2> QED BY <1>4, <1>5, <2>1, <2>2
  <1>8. ASSUME NEW x \in Node, x \notin ToSet(s) PROVE Prevs(s, old)[x] = old[x]
    BY <1>1, <1>5, <1>8
  <1>9. ASSUME NEW x \in Node PROVE Prevs(s, old)[x] \in Node \cup {Null}
    <2>1. CASE x \notin ToSet(s)
      BY <1>8, <2>1
    <2>2. CASE x \in ToSet(s)
      <3>1. PICK i \in 1 .. k : x = s[i]
        BY <1>1, <2>2
      <3>2. i # 1 => i - 1 \in 1 .. k
        BY <1>0, <3>1 DEF k
      <3> QED BY <1>1, <1>7, <3>1, <3>2
    <2> QED BY <2>1, <2>2
  <1>10. Prevs(s, old) \in [Node -> Node \cup {Null}]
    BY <1>6, <1>9
  <1> QED BY <1>7, <1>8, <1>10 DEF k

\* A list whose nodes were linked anew.
LEMMA Linked ==
  ASSUME NEW l \in Lists, NEW s \in Seq(Node), IsInjective(s),
         NEW oldn \in [Node -> Node \cup {Null}], NEW oldp \in [Node -> Node \cup {Null}],
         next' = Nexts(s, oldn), prev' = Prevs(s, oldp),
         head'[l] = IF s = <<>> THEN Null ELSE s[1], s # <<>> => l \in rebuilt'
  PROVE  Path(l, s)' /\ Back(l, s)'
  <1>1. \A i \in 1 .. Len(s) : next'[s[i]] = IF i = Len(s) THEN Null ELSE s[i + 1]
    BY NextsAre
  <1>2. \A i \in 1 .. Len(s) : prev'[s[i]] = IF i = 1 THEN Null ELSE s[i - 1]
    BY PrevsAre
  <1>3. Path(l, s)'
    BY <1>1 DEF Path
  <1>4. \A i \in 2 .. Len(s) : i \in 1 .. Len(s) /\ i # 1
    OBVIOUS
  <1>5. s # <<>> => 1 \in 1 .. Len(s)
    OBVIOUS
  <1>6. Back(l, s)'
    BY <1>2, <1>4, <1>5 DEF Back
  <1> QED BY <1>3, <1>6

\* Stacks from which nodes were dropped.
Pruned ==
  \A m \in Lists : /\ first_free'[m] = first_free[m] \/ first_free'[m] = <<>>
                   /\ \A i \in 1 .. Len(first_free[m]) :
                        home'[first_free[m][i]] # Null => home[first_free[m][i]] # Null

LEMMA StacksPruned ==
  ASSUME StacksApart, Pruned
  PROVE  StacksApart'
  <1>1. Len(<<>>) = 0 /\ \A i : i \notin 1 .. 0
    OBVIOUS
  <1>2. ASSUME NEW k \in Lists, NEW m \in Lists,
               NEW i \in 1 .. Len(first_free'[k]), NEW j \in 1 .. Len(first_free'[m]),
               first_free'[k][i] = first_free'[m][j], home'[first_free'[k][i]] # Null
        PROVE  k = m /\ i = j
    <2>1. first_free'[k] = first_free[k] /\ first_free'[m] = first_free[m]
      BY <1>1 DEF Pruned
    <2>2. /\ i \in 1 .. Len(first_free[k]) /\ j \in 1 .. Len(first_free[m])
          /\ first_free[k][i] = first_free[m][j] /\ home'[first_free[k][i]] # Null
      BY <1>2, <2>1
    <2>3. home[first_free[k][i]] # Null
      BY <2>2 DEF Pruned
    <2> QED BY <2>2, <2>3 DEF StacksApart
  <1> QED BY <1>2 DEF StacksApart

LEMMA SortStep ==
  ASSUME TypeInv, NEW W, Shape(W), NEW l \in Lists \ skewed, Sort(l)
  PROVE  Kept
  <1> DEFINE w == W[l]
             k == Len(w)
             q == seq[l]
  <1>1. W \in [Lists -> Seq(Node)] /\ w \in Seq(Node) /\ k \in Nat /\ ListOK(l, w) /\ IsInjective(w)
    BY DEF Shape, Apart
  <1>2. \A i \in 1 .. k : w[i] \in Node /\ w[i] \in ToSet(w)
    BY FirstNode
  <1>3. \A i, j \in 1 .. k : w[i] = w[j] => i = j
    BY FirstNode
  <1>4. /\ q \in Seq(Data) /\ Len(q) = k /\ count[l] = k /\ k <= MaxNodes
        /\ Carries(l, w)
    BY <1>1, Plain
  <1>5. \A i \in 1 .. k : data[w[i]] = q[i] /\ q[i] \in Data /\ q[i] \in Nat
    <2>1. \A i \in 1 .. k : data[w[i]] = q[i]
      BY <1>4 DEF Carries
    <2>2. \A i \in 1 .. k : q[i] \in Data
      <3> HIDE DEF q, k
      <3> QED BY <1>4
    <2> QED BY <2>1, <2>2, ListAssumption
  <1>6. Numbered(w)
    BY <1>5 DEF Numbered
  <1>7. PICK p \in Injection(1 .. k, 1 .. k) :
           /\ MergeSort(w) = [i \in 1 .. k |-> w[p[i]]]
           /\ \A i, j \in 1 .. k : i < j =>
                \/ data[w[p[i]]] < data[w[p[j]]]
                \/ data[w[p[i]]] = data[w[p[j]]] /\ p[i] > p[j]
    BY <1>1, <1>6, SortTurnsEqualsRound
  <1> DEFINE s == [i \in 1 .. k |-> w[p[i]]]
             V == [W EXCEPT ![l] = s]
  <1>8. /\ Len(s) > 1
        /\ head' = [head EXCEPT ![l] = Head(s)]
        /\ next' = Nexts(s, next)
        /\ prev' = Prevs(s, prev)
        /\ seq' = [seq EXCEPT ![l] = InOrder(@)]
        /\ rebuilt' = rebuilt \cup {l}
        /\ UNCHANGED <<count, recycling, mp, data, home, skewed, fault>>
    <2>1. MergeSort(Walk(l)) = s
      BY <1>7, WalksAre
    <2> QED BY <2>1, Zenon DEF Sort
  <1>9. /\ s = [i \in 1 .. k |-> w[p[i]]]
        /\ \A i, j \in 1 .. k : i < j =>
             \/ data[w[p[i]]] < data[w[p[j]]]
             \/ data[w[p[i]]] = data[w[p[j]]] /\ p[i] > p[j]
    BY <1>7
  <1>10. (\A i \in 1 .. k : p[i] \in 1 .. k) /\ \A i, j \in 1 .. k : p[i] = p[j] => i = j
    BY DEF Injection, IsInjective
  <1> HIDE DEF w, k, q, s, V
  <1>11. /\ s \in Seq(Node) /\ Len(s) = k
         /\ \A i \in 1 .. k : s[i] = w[p[i]]
    <2>1. \A i \in 1 .. k : w[p[i]] \in Node
      BY <1>2, <1>10
    <2>2. s \in [1 .. k -> Node]
      BY <1>9, <2>1
    <2> QED BY <1>1, <1>9, <2>2, FunctionIsSeq
  <1>12. IsInjective(s) /\ ToSet(s) \subseteq ToSet(w)
    <2>1. \A i, j \in 1 .. k : s[i] = s[j] => i = j
      BY <1>3, <1>10, <1>11
    <2>2. DOMAIN s = 1 .. k
      BY <1>11
    <2>3. \A i \in 1 .. k : s[i] \in ToSet(w)
      BY <1>2, <1>10, <1>11
    <2>4. \A x \in ToSet(s) : \E i \in 1 .. k : x = s[i]
      BY <1>11, ToSetIs
    <2> QED BY <2>1, <2>2, <2>3, <2>4 DEF IsInjective
  <1>13. V \in [Lists -> Seq(Node)] /\ V[l] = s /\ \A m \in Lists : m # l => V[m] = W[m]
    BY <1>1, <1>11 DEF V
  \* What the list carries, in ascending order.
  <1>14. AscendBy(q, p)
    <2>1. ASSUME NEW i \in 1 .. k, NEW j \in 1 .. k, i < j PROVE q[p[i]] <= q[p[j]]
      <3>1. p[i] \in 1 .. k /\ p[j] \in 1 .. k
        BY <1>10
      <3>2. data[w[p[i]]] < data[w[p[j]]] \/ data[w[p[i]]] = data[w[p[j]]]
        BY <1>9, <2>1
      <3>3. data[w[p[i]]] = q[p[i]] /\ data[w[p[j]]] = q[p[j]] /\ q[p[i]] \in Nat /\ q[p[j]] \in Nat
        BY <1>5, <3>1
      <3> QED BY <3>2, <3>3
    <2> QED BY <1>4, <2>1 DEF AscendBy
  <1>15. q \in Seq(Nat)
    <2>1. q \in [1 .. k -> Nat]
      BY <1>4, <1>5
    <2> QED BY <1>1, <2>1, FunctionIsSeq
  <1>16. InOrder(q) = [i \in 1 .. k |-> q[p[i]]]
    BY <1>4, <1>14, <1>15, InOrderIs
  <1>17. /\ InOrder(q) \in Seq(Data) /\ Len(InOrder(q)) = k
         /\ \A i \in 1 .. k : InOrder(q)[i] = q[p[i]]
    <2>1. InOrder(q) \in [1 .. k -> Data]
      BY <1>5, <1>10, <1>16
    <2> QED BY <1>1, <1>16, <2>1, FunctionIsSeq
  <1>18. seq'[l] = InOrder(q) /\ seq' \in [Lists -> Seq(Data)]
    BY <1>8, <1>17 DEF TypeInv, q
  <1>19. Carries(l, s)'
    <2>1. ASSUME NEW i \in 1 .. k PROVE data'[s[i]] = seq'[l][i]
      <3>1. p[i] \in 1 .. k /\ s[i] = w[p[i]]
        BY <1>10, <1>11
      <3>2. data[w[p[i]]] = q[p[i]]
        BY <1>5, <3>1
      <3>3. seq'[l][i] = q[p[i]]
        BY <1>17, <1>18
      <3> QED BY <1>8, <3>1, <3>2, <3>3
    <2> QED BY <1>11, <2>1 DEF Carries
  <1>20. s # <<>> /\ Head(s) = s[1] /\ s[1] \in Node
    BY <1>8, <1>11
  <1>21. next \in [Node -> Node \cup {Null}] /\ prev \in [Node -> Node \cup {Null}] /\ head'[l] = s[1]
    BY <1>8, <1>20 DEF TypeInv
  <1>22. Path(l, s)' /\ Back(l, s)'
    BY <1>8, <1>11, <1>12, <1>20, <1>21, Linked
  <1>23. ListOK(l, s)'
    BY <1>8, <1>4, <1>11, <1>17, <1>18, <1>19, <1>22, PlainNext
  <1>24. /\ next' \in [Node -> Node \cup {Null}]
         /\ \A x \in Node : x \notin ToSet(s) => next'[x] = next[x]
    BY <1>8, <1>11, <1>12, <1>21, NextsAre
  <1>25. /\ prev' \in [Node -> Node \cup {Null}]
         /\ \A x \in Node : x \notin ToSet(s) => prev'[x] = prev[x]
    BY <1>8, <1>11, <1>12, <1>21, PrevsAre
  <1>26. TypeInv'
    <2>1. head' \in [Lists -> Node \cup {Null}]
      BY <1>8, <1>20 DEF TypeInv
    <2> QED BY <1>8, <1>18, <1>24, <1>25, <2>1 DEF TypeInv, recycling
  <1>27. ASSUME NEW m \in Lists, m # l PROVE ListOK(m, W[m])'
    <2>1. W[m] \in Seq(Node) /\ ListOK(m, W[m])
      BY DEF Shape
    <2>2. ToSet(W[m]) \cap ToSet(w) = {}
      BY <1>27 DEF Shape, Apart, w
    <2>3. ASSUME NEW x \in ToSet(W[m]) PROVE next'[x] = next[x] /\ prev'[x] = prev[x] /\ data'[x] = data[x]
      <3>1. x \in Node /\ x \notin ToSet(s)
        BY <1>12, <2>1, <2>2, ToSetIs
      <3> QED BY <1>8, <1>24, <1>25, <3>1
    <2>4. /\ head'[m] = head[m] /\ count'[m] = count[m] /\ seq'[m] = seq[m]
          /\ m \in skewed' <=> m \in skewed
          /\ m \in rebuilt => m \in rebuilt'
      BY <1>8, <1>27 DEF TypeInv
    <2> QED BY <2>1, <2>3, <2>4, Untouched
  <1>28. Apart(V)'
    <2>1. first_free' = first_free /\ home' = home
      BY <1>8 DEF recycling
    <2>2. \A m \in Lists : ToSet(V[m]) \subseteq ToSet(W[m]) /\ IsInjective(V[m])
      BY <1>12, <1>13 DEF Shape, Apart, w
    <2>3. StacksApart'
      <3>1. StacksApart /\ Pruned
        BY <2>1 DEF Shape, Apart, Pruned
      <3> QED BY <3>1, StacksPruned
    <2>4. ASSUME NEW k1 \in Lists, NEW m \in Lists, k1 # m PROVE ToSet(V[k1]) \cap ToSet(V[m]) = {}
      <3>1. ToSet(W[k1]) \cap ToSet(W[m]) = {}
        BY <2>4 DEF Shape, Apart
      <3> QED BY <2>2, <3>1
    <2>5. \A k1, m \in Lists : ToSet(V[k1]) \cap ToSet(first_free'[m]) = {}
      BY <2>1, <2>2 DEF Shape, Apart
    <2>6. \A m \in Lists : \A x \in ToSet(V[m]) : home'[x] # Null
      BY <2>1, <2>2 DEF Shape, Apart
    <2> QED BY <2>2, <2>3, <2>4, <2>5, <2>6 DEF Apart
  <1>29. Shape(V)'
    <2>1. \A m \in Lists : ListOK(m, V[m])'
      BY <1>13, <1>23, <1>27
    <2> QED BY <1>13, <1>28, <2>1 DEF Shape
  <1> QED BY <1>26, <1>29 DEF Kept
--------------------------------------------------------------------------------
(* The pool of a list is freed.                                               *)

\* What is in no node of the pool of list l is left alone.
Clean(l, f) == [n \in Node |-> IF n \in Gone(l) THEN Null ELSE f[n]]

\* The walk of another list, where freeing the pool does no harm.
LEMMA NotGone ==
  ASSUME NEW W, Shape(W), NEW l \in Lists, ~InUse(l), NEW m \in Lists, m # l, NEW x \in ToSet(W[m])
  PROVE  x \in Node /\ x \notin Gone(l) /\ home[x] # Null
  <1>1. Walk(m) = W[m] /\ W[m] \in Seq(Node)
    BY WalksAre DEF Shape
  <1>2. ToSet(W[m]) \cap Gone(l) = {}
    BY <1>1 DEF InUse
  <1>3. x \in Node
    BY <1>1, ToSetIs
  <1> QED BY <1>2, <1>3 DEF Shape, Apart

LEMMA FreeStep ==
  ASSUME TypeInv, NEW W, Shape(W), NEW l \in Lists, Free(l), fault = "none"
  PROVE  Kept
  <1> DEFINE V == [W EXCEPT ![l] = <<>>]
  <1>1. /\ head' = [head EXCEPT ![l] = Null]
        /\ count' = [count EXCEPT ![l] = 0]
        /\ first_free' = [first_free EXCEPT ![l] = <<>>]
        /\ mp' = mp \cup {l}
        /\ next' = Clean(l, next)
        /\ prev' = Clean(l, prev)
        /\ data' = Clean(l, data)
        /\ home' = Clean(l, home)
        /\ seq' = [seq EXCEPT ![l] = <<>>]
        /\ skewed' = skewed \ {l}
        /\ rebuilt' = rebuilt \ {l}
        /\ fault' = IF InUse(l) THEN "freed" ELSE fault
    BY DEF Free, Clean
  <1>2. TypeInv'
    <2>1. /\ next' \in [Node -> Node \cup {Null}]
          /\ prev' \in [Node -> Node \cup {Null}]
      BY <1>1 DEF TypeInv, Clean
    <2>2. /\ data' \in [Node -> Data \cup {Null}]
          /\ home' \in [Node -> Lists \cup {Null}]
      BY <1>1 DEF TypeInv, Clean
    <2>3. /\ first_free' \in [Lists -> Seq(Node)] /\ seq' \in [Lists -> Seq(Data)]
      BY <1>1, ToSetEmpty DEF TypeInv
    <2>4. head' \in [Lists -> Node \cup {Null}] /\ count' \in [Lists -> Nat]
      BY <1>1 DEF TypeInv
    <2> QED BY <1>1, <2>1, <2>2, <2>3, <2>4 DEF TypeInv
  <1>3. ASSUME fault' = "none" PROVE Shape(V)'
    <2>1. ~InUse(l)
      BY <1>1, <1>3
    <2>2. W \in [Lists -> Seq(Node)]
      BY DEF Shape
    <2>3. V \in [Lists -> Seq(Node)] /\ V[l] = <<>> /\ \A m \in Lists : m # l => V[m] = W[m]
      BY <2>2, ToSetEmpty
    <2> HIDE DEF V
    <2>4. ListOK(l, <<>>)'
      <3>1. l \notin skewed' /\ head'[l] = Null /\ count'[l] = 0 /\ seq'[l] = <<>>
        BY <1>1 DEF TypeInv
      <3> QED BY <3>1, NoNodes
    <2>5. ASSUME NEW m \in Lists, m # l PROVE ListOK(m, W[m])'
      <3>1. W[m] \in Seq(Node) /\ ListOK(m, W[m])
        BY DEF Shape
      <3>2. ASSUME NEW x \in ToSet(W[m]) PROVE next'[x] = next[x] /\ prev'[x] = prev[x] /\ data'[x] = data[x]
        <4>1. x \in Node /\ x \notin Gone(l)
          BY <2>1, <2>5, NotGone
        <4> QED BY <1>1, <4>1 DEF Clean
      <3>3. /\ head'[m] = head[m] /\ count'[m] = count[m] /\ seq'[m] = seq[m]
            /\ m \in skewed' <=> m \in skewed
            /\ m \in rebuilt => m \in rebuilt'
        BY <1>1, <2>5 DEF TypeInv
      <3> QED BY <3>1, <3>2, <3>3, Untouched
    <2>6. Apart(V)'
      <3>1. \A m \in Lists : first_free[m] \in Seq(Node) /\ (first_free'[m] = IF m = l THEN <<>> ELSE first_free[m])
        BY <1>1 DEF TypeInv
      <3>2. \A x \in Node : home'[x] # Null => home[x] # Null
        BY <1>1 DEF Clean
      <3>3. Pruned
        <4>1. \A m \in Lists : \A i \in 1 .. Len(first_free[m]) : first_free[m][i] \in Node
          BY <3>1
        <4> QED BY <3>1, <3>2, <4>1 DEF Pruned
      <3>4. StacksApart'
        BY <3>3, StacksPruned DEF Shape, Apart
      <3>5. ASSUME NEW m \in Lists, NEW x \in ToSet(V[m]) PROVE home'[x] # Null
        <4>1. m # l /\ x \in ToSet(W[m])
          BY <2>3, ToSetEmpty
        <4>2. x \in Node /\ x \notin Gone(l) /\ home[x] # Null
          BY <2>1, <4>1, NotGone
        <4> QED BY <1>1, <4>2 DEF Clean
      <3>6. \A m \in Lists : IsInjective(V[m])
        BY <2>3, ToSetEmpty DEF Shape, Apart
      <3>7. \A m \in Lists : ToSet(V[m]) \subseteq ToSet(W[m]) /\ ToSet(first_free'[m]) \subseteq ToSet(first_free[m])
        BY <2>3, <3>1, ToSetEmpty
      <3>8. ASSUME NEW k \in Lists, NEW m \in Lists, k # m PROVE ToSet(V[k]) \cap ToSet(V[m]) = {}
        <4>1. ToSet(W[k]) \cap ToSet(W[m]) = {}
          BY <3>8 DEF Shape, Apart
        <4> QED BY <3>7, <4>1
      <3>9. ASSUME NEW k \in Lists, NEW m \in Lists PROVE ToSet(V[k]) \cap ToSet(first_free'[m]) = {}
        <4>1. ToSet(W[k]) \cap ToSet(first_free[m]) = {}
          BY DEF Shape, Apart
        <4> QED BY <3>7, <4>1
      <3> QED BY <3>4, <3>5, <3>6, <3>8, <3>9 DEF Apart
    <2>7. \A m \in Lists : ListOK(m, V[m])'
      BY <2>3, <2>4, <2>5
    <2> QED BY <2>3, <2>6, <2>7 DEF Shape
  <1> QED BY <1>2, <1>3 DEF Kept

\* ina_list_resize of a list that gave its pool away.
LEMMA ResizeKeeps ==
  ASSUME TypeInv, NEW W, Shape(W), NEW l \in Lists,
         first_free' = [first_free EXCEPT ![l] = <<>>], mp' = mp \cup {l},
         UNCHANGED <<head, nodes, rebuilt, fault, count, seq, skewed>>
  PROVE  Kept
  <1>1. UNCHANGED <<head, next, prev, data, home, rebuilt, fault, count, seq, skewed>>
    BY DEF nodes
  <1>2. TypeInv'
    <2>1. first_free' \in [Lists -> Seq(Node)]
      BY ToSetEmpty DEF TypeInv
    <2> QED BY <1>1, <2>1 DEF TypeInv
  <1>3. ASSUME NEW m \in Lists PROVE ListOK(m, W[m])'
    <2>1. W[m] \in Seq(Node) /\ ListOK(m, W[m])
      BY DEF Shape
    <2> QED BY <1>1, <2>1, Untouched
  <1>4. \A m \in Lists : first_free'[m] = IF m = l THEN <<>> ELSE first_free[m]
    BY DEF TypeInv
  <1>5. StacksApart'
    <2>1. Pruned
      BY <1>1, <1>4 DEF Pruned
    <2> QED BY <2>1, StacksPruned DEF Shape, Apart
  <1>6. \A m \in Lists : ToSet(first_free'[m]) \subseteq ToSet(first_free[m])
    BY <1>4, ToSetEmpty
  <1>7. ASSUME NEW k \in Lists, NEW m \in Lists PROVE ToSet(W[k]) \cap ToSet(first_free'[m]) = {}
    <2>1. ToSet(W[k]) \cap ToSet(first_free[m]) = {}
      BY DEF Shape, Apart
    <2> QED BY <1>6, <2>1
  <1>8. Apart(W)'
    BY <1>1, <1>5, <1>7 DEF Shape, Apart
  <1>9. Shape(W)'
    BY <1>3, <1>8 DEF Shape
  <1> QED BY <1>2, <1>9 DEF Kept

\* ina_list_resize of a list that has a pool: the nodes are copied to a new one.
LEMMA ResizeMoves ==
  ASSUME TypeInv, NEW W, Shape(W), NEW l \in Lists \ skewed, fault = "none",
         NEW new \in [1 .. Len(Walk(l)) -> Fresh], IsInjective(new),
         head' = [head EXCEPT ![l] = IF Walk(l) = <<>> THEN Null ELSE Head(new)],
         next' = Nexts(new, Clean(l, next)), prev' = Prevs(new, Clean(l, prev)),
         data' = [n \in Node |-> IF Contains(new, n)
                                 THEN data[Walk(l)[CHOOSE i \in DOMAIN new : new[i] = n]]
                                 ELSE Clean(l, data)[n]],
         home' = [n \in Node |-> IF Contains(new, n) THEN l ELSE Clean(l, home)[n]],
         rebuilt' = IF Walk(l) = <<>> THEN rebuilt ELSE rebuilt \cup {l},
         fault' = IF InUse(l) THEN "freed" ELSE fault,
         first_free' = [first_free EXCEPT ![l] = <<>>],
         UNCHANGED <<mp, count, seq, skewed>>
  PROVE  Kept
  <1> DEFINE w == W[l]
             k == Len(w)
             V == [W EXCEPT ![l] = new]
  <1>0. Walk(l) = w
    BY WalksAre
  <1>1. W \in [Lists -> Seq(Node)] /\ w \in Seq(Node) /\ k \in Nat /\ ListOK(l, w)
    BY DEF Shape
  <1>2. /\ seq[l] \in Seq(Data) /\ Len(seq[l]) = k /\ count[l] = k /\ k <= MaxNodes
        /\ Carries(l, w)
    BY <1>1, Plain
  <1>3. new \in Seq(Node) /\ Len(new) = k /\ DOMAIN new = 1 .. k
    <2>1. new \in [1 .. k -> Node]
      BY <1>0 DEF Fresh
    <2> QED BY <1>1, <2>1, FunctionIsSeq
  <1>4. /\ \A i, j \in 1 .. k : new[i] = new[j] => i = j
        /\ \A i \in 1 .. k : new[i] \in Fresh /\ new[i] \in Node /\ new[i] \in ToSet(new)
        /\ \A x \in ToSet(new) : \E i \in 1 .. k : x = new[i]
        /\ \A x : Contains(new, x) <=> x \in ToSet(new)
    <2>1. \A i, j \in 1 .. k : new[i] = new[j] => i = j
      BY <1>3 DEF IsInjective
    <2>2. \A i \in 1 .. k : new[i] \in Fresh
      BY <1>0
    <2>3. /\ \A i \in 1 .. k : new[i] \in Node /\ new[i] \in ToSet(new)
          /\ \A x \in ToSet(new) : \E i \in 1 .. k : x = new[i]
          /\ \A x : Contains(new, x) <=> x \in ToSet(new)
      BY <1>3, ToSetIs
    <2> QED BY <2>1, <2>2, <2>3
  <1>5. \A x \in ToSet(new) : x \in Node /\ home[x] = Null /\ \A m \in Lists : x \notin ToSet(first_free[m])
    <2>1. \A m \in Lists : first_free[m] \in Seq(Node)
      BY DEF TypeInv
    <2>2. \A x \in ToSet(new) : x \in Fresh
      BY <1>4
    <2> QED BY <2>1, <2>2, ToSetIs DEF Fresh
  <1>6. \A i \in 1 .. k : w[i] \in Node
    BY <1>1
  <1>7. V \in [Lists -> Seq(Node)] /\ V[l] = new /\ \A m \in Lists : m # l => V[m] = W[m]
    BY <1>1, <1>3
  <1>8. Clean(l, next) \in [Node -> Node \cup {Null}] /\ Clean(l, prev) \in [Node -> Node \cup {Null}]
    BY DEF Clean, TypeInv
  <1>9. /\ next' \in [Node -> Node \cup {Null}]
        /\ \A x \in Node : x \notin ToSet(new) => next'[x] = Clean(l, next)[x]
    BY <1>3, <1>8, NextsAre
  <1>10. /\ prev' \in [Node -> Node \cup {Null}]
         /\ \A x \in Node : x \notin ToSet(new) => prev'[x] = Clean(l, prev)[x]
    BY <1>3, <1>8, PrevsAre
  <1>11. w = <<>> <=> new = <<>>
    BY <1>1, <1>3
  <1>12. head'[l] = IF new = <<>> THEN Null ELSE new[1]
    <2>1. head'[l] = IF w = <<>> THEN Null ELSE Head(new)
      BY <1>0 DEF TypeInv
    <2>2. new # <<>> => Head(new) = new[1]
      BY <1>3
    <2> QED BY <1>11, <2>1, <2>2
  <1> HIDE DEF V
  <1>13. Path(l, new)' /\ Back(l, new)'
    <2>1. new # <<>> => l \in rebuilt'
      BY <1>0, <1>11
    <2> QED BY <1>3, <1>8, <1>12, <2>1, Linked
  <1>14. ASSUME NEW i \in 1 .. k PROVE data'[new[i]] = data[w[i]]
    <2>1. (CHOOSE j \in DOMAIN new : new[j] = new[i]) = i
      BY <1>3, <1>4
    <2>2. Contains(new, new[i]) /\ new[i] \in Node
      BY <1>4
    <2>3. data'[new[i]] = data[Walk(l)[CHOOSE j \in DOMAIN new : new[j] = new[i]]]
      BY <2>2
    <2> QED BY <1>0, <2>1, <2>3
  <1> HIDE DEF w, k
  <1>15. \A x \in Node : x \notin ToSet(new) => data'[x] = Clean(l, data)[x] /\ home'[x] = Clean(l, home)[x]
    BY <1>4
  <1>16. \A x \in ToSet(new) : home'[x] = l
    BY <1>4, <1>5
  <1>17. TypeInv'
    <2>1. ASSUME NEW x \in Node PROVE data'[x] \in Data \cup {Null}
      <3>1. CASE x \in ToSet(new)
        <4>1. PICK i \in 1 .. k : x = new[i]
          BY <1>4, <3>1
        <4> QED BY <1>6, <1>14, <4>1 DEF TypeInv
      <3>2. CASE x \notin ToSet(new)
        BY <1>15, <3>2, ZenonT(60) DEF Clean, TypeInv
      <3> QED BY <3>1, <3>2
    <2>2. data' \in [Node -> Data \cup {Null}]
      <3>1. DOMAIN data' = Node /\ data' = [n \in Node |-> data'[n]]
        OBVIOUS
      <3> QED BY <2>1, <3>1
    <2>3. home' \in [Node -> Lists \cup {Null}]
      BY DEF Clean, TypeInv
    <2>4. head' \in [Lists -> Node \cup {Null}]
      <3>1. new # <<>> => new[1] \in Node
        BY <1>3
      <3>2. head'[l] \in Node \cup {Null}
        BY <1>12, <3>1
      <3>3. \A m \in Lists : m # l => head'[m] = head[m]
        BY DEF TypeInv
      <3>4. head' = [m \in Lists |-> head'[m]]
        BY DEF TypeInv
      <3> QED BY <3>2, <3>3, <3>4 DEF TypeInv
    <2>5. first_free' \in [Lists -> Seq(Node)]
      BY ToSetEmpty DEF TypeInv
    <2>6. rebuilt' \in SUBSET Lists
      BY DEF TypeInv
    <2> QED BY <1>9, <1>10, <2>2, <2>3, <2>4, <2>5, <2>6 DEF TypeInv
  <1>18. ListOK(l, new)'
    <2>1. Carries(l, new)'
      <3>1. ASSUME NEW i \in 1 .. k PROVE data'[new[i]] = seq'[l][i]
        <4>1. data[w[i]] = seq[l][i]
          BY <1>2 DEF Carries, k
        <4> QED BY <1>14, <4>1
      <3> QED BY <1>3, <3>1 DEF Carries
    <2>2. count'[l] = Len(new) /\ Len(seq'[l]) = Len(new) /\ Len(new) <= MaxNodes /\ l \notin skewed'
      BY <1>2, <1>3
    <2> QED BY <1>3, <1>13, <2>1, <2>2, PlainNext
  <1>19. ASSUME fault' = "none" PROVE Shape(V)'
    <2>1. ~InUse(l)
      BY <1>19
    <2>2. ASSUME NEW m \in Lists, m # l, NEW x \in ToSet(W[m])
          PROVE  x \in Node /\ x \notin Gone(l) /\ home[x] # Null /\ x \notin ToSet(new)
      BY <1>5, <2>1, <2>2, NotGone
    <2>3. ASSUME NEW m \in Lists, m # l PROVE ListOK(m, W[m])'
      <3>1. W[m] \in Seq(Node) /\ ListOK(m, W[m])
        BY DEF Shape
      <3>2. ASSUME NEW x \in ToSet(W[m]) PROVE next'[x] = next[x] /\ prev'[x] = prev[x] /\ data'[x] = data[x]
        <4>1. x \in Node /\ x \notin Gone(l) /\ x \notin ToSet(new)
          BY <2>2, <2>3
        <4>2. next'[x] = Clean(l, next)[x] /\ prev'[x] = Clean(l, prev)[x] /\ data'[x] = Clean(l, data)[x]
          BY <1>9, <1>10, <1>15, <4>1
        <4> QED BY <4>1, <4>2 DEF Clean
      <3>3. /\ head'[m] = head[m] /\ count'[m] = count[m] /\ seq'[m] = seq[m]
            /\ m \in skewed' <=> m \in skewed
            /\ m \in rebuilt => m \in rebuilt'
        BY <2>3 DEF TypeInv
      <3> QED BY <3>1, <3>2, <3>3, Untouched
    <2>4. Apart(V)'
      <3>1. \A m \in Lists : first_free[m] \in Seq(Node) /\ (first_free'[m] = IF m = l THEN <<>> ELSE first_free[m])
        BY DEF TypeInv
      <3>2. Pruned
        <4>1. ASSUME NEW m \in Lists, NEW i \in 1 .. Len(first_free[m]), home'[first_free[m][i]] # Null
              PROVE  home[first_free[m][i]] # Null
          <5>1. first_free[m][i] \in Node /\ first_free[m][i] \in ToSet(first_free[m])
            BY <3>1, ToSetIs
          <5>2. first_free[m][i] \notin ToSet(new)
            BY <1>5, <5>1
          <5>3. home'[first_free[m][i]] = Clean(l, home)[first_free[m][i]]
            BY <1>15, <5>1, <5>2
          <5> QED BY <4>1, <5>1, <5>3 DEF Clean
        <4> QED BY <3>1, <4>1 DEF Pruned
      <3>3. StacksApart'
        BY <3>2, StacksPruned DEF Shape, Apart
      <3>4. ASSUME NEW m \in Lists, NEW x \in ToSet(V[m]) PROVE home'[x] # Null
        <4>1. CASE m = l
          BY <1>7, <1>16, <4>1, ListAssumption
        <4>2. CASE m # l
          <5>1. x \in Node /\ x \notin Gone(l) /\ home[x] # Null /\ x \notin ToSet(new)
            BY <1>7, <2>2, <4>2
          <5> QED BY <1>15, <5>1 DEF Clean
        <4> QED BY <4>1, <4>2
      <3>5. \A m \in Lists : IsInjective(V[m])
        BY <1>7 DEF Shape, Apart
      <3>6. ASSUME NEW a \in Lists, NEW m \in Lists, a # m PROVE ToSet(V[a]) \cap ToSet(V[m]) = {}
        <4>1. CASE a # l /\ m # l
          BY <1>7, <3>6, <4>1 DEF Shape, Apart
        <4>2. CASE a = l
          <5>1. V[a] = new /\ V[m] = W[m] /\ m # l
            BY <1>7, <3>6, <4>2
          <5> QED BY <2>2, <5>1
        <4>3. CASE m = l
          <5>1. V[m] = new /\ V[a] = W[a] /\ a # l
            BY <1>7, <3>6, <4>3
          <5> QED BY <2>2, <5>1
        <4> QED BY <4>1, <4>2, <4>3
      <3>7. \A m \in Lists : ToSet(first_free'[m]) \subseteq ToSet(first_free[m])
        BY <3>1, ToSetEmpty
      <3>8. ASSUME NEW a \in Lists, NEW m \in Lists PROVE ToSet(V[a]) \cap ToSet(first_free'[m]) = {}
        <4>1. CASE a = l
          BY <1>5, <1>7, <3>7, <4>1
        <4>2. CASE a # l
          <5>1. ToSet(W[a]) \cap ToSet(first_free[m]) = {}
            BY DEF Shape, Apart
          <5> QED BY <1>7, <3>7, <4>2, <5>1
        <4> QED BY <4>1, <4>2
      <3> QED BY <3>3, <3>4, <3>5, <3>6, <3>8 DEF Apart
    <2>5. \A m \in Lists : ListOK(m, V[m])'
      BY <1>7, <1>18, <2>3
    <2> QED BY <1>7, <2>4, <2>5 DEF Shape
  <1> QED BY <1>17, <1>19 DEF Kept

LEMMA ResizeStep ==
  ASSUME TypeInv, NEW W, Shape(W), NEW l \in Lists \ skewed, NEW max, fault = "none", Resize(l, max)
  PROVE  Kept
  <1>1. CASE l \notin mp
    BY <1>1, ResizeKeeps DEF Resize
  <1>2. CASE l \in mp
    <2>1. PICK new \in [1 .. Len(Walk(l)) -> Fresh] :
            /\ IsInjective(new)
            /\ head' = [head EXCEPT ![l] = IF Walk(l) = <<>> THEN Null ELSE Head(new)]
            /\ next' = Nexts(new, Clean(l, next))
            /\ prev' = Prevs(new, Clean(l, prev))
            /\ data' = [n \in Node |->
                          IF Contains(new, n) THEN data[Walk(l)[CHOOSE i \in DOMAIN new : new[i] = n]]
                                              ELSE Clean(l, data)[n]]
            /\ home' = [n \in Node |-> IF Contains(new, n) THEN l ELSE Clean(l, home)[n]]
            /\ rebuilt' = IF Walk(l) = <<>> THEN rebuilt ELSE rebuilt \cup {l}
            /\ fault' = IF InUse(l) THEN "freed" ELSE fault
      BY <1>2, Zenon DEF Resize, Clean
    <2>2. UNCHANGED <<mp, count, seq, skewed>> /\ first_free' = [first_free EXCEPT ![l] = <<>>]
      BY <1>2 DEF Resize
    <2> QED BY <2>1, <2>2, ResizeMoves
  <1> QED BY <1>1, <1>2
--------------------------------------------------------------------------------
(* The invariant holds.                                                       *)

LEMMA InitListInv == Init => ListInv
  <1> SUFFICES ASSUME Init PROVE ListInv
    OBVIOUS
  <1>0. \A S : <<>> \in Seq(S)
    BY ToSetEmpty
  <1>1. TypeInv
    BY <1>0 DEF Init, TypeInv
  <1> DEFINE W == [l \in Lists |-> <<>>]
  <1>2. Len(<<>>) = 0 /\ \A i : i \notin 1 .. 0 /\ i \notin 2 .. 0
    OBVIOUS
  <1>3. ASSUME NEW l \in Lists PROVE ListOK(l, <<>>)
    <2>1. Hidden(l) = 0 /\ count[l] = 0 /\ seq[l] = <<>> /\ head[l] = Null
      BY DEF Init, Hidden
    <2>2. 0 <= MaxNodes /\ 0 = 0 + 0
      BY MaxNodesNat
    <2>3. Path(l, <<>>)
      BY <1>2, <2>1 DEF Path
    <2>4. Holds(l, <<>>)
      BY <1>2, <2>1, <2>2 DEF Holds
    <2>5. Back(l, <<>>)
      BY <1>2 DEF Back
    <2> QED BY <2>3, <2>4, <2>5 DEF ListOK
  <1>4. StacksApart
    <2>1. \A l \in Lists : first_free[l] = <<>>
      BY DEF Init
    <2> QED BY <1>2, <2>1 DEF StacksApart
  <1>5. W \in [Lists -> Seq(Node)] /\ \A l \in Lists : W[l] = <<>>
    BY <1>0
  <1> HIDE DEF W
  <1>6. Apart(W)
    BY <1>4, <1>5, ToSetEmpty DEF Apart
  <1>7. Shape(W)
    BY <1>3, <1>5, <1>6 DEF Shape
  <1> QED BY <1>1, <1>7 DEF ListInv

LEMMA NextListInv == ListInv /\ [Next]_vars => ListInv'
  <1> SUFFICES ASSUME ListInv, [Next]_vars PROVE ListInv'
    OBVIOUS
  <1>1. CASE Next
    <2>1. fault = "none" /\ TypeInv
      BY <1>1 DEF Next, ListInv
    <2>2. PICK W : Shape(W)
      BY <2>1 DEF ListInv
    <2>3. ASSUME NEW l \in Lists \ skewed, NEW v \in Data,
                 InsertFirst(l, v) \/ InsertTail(l, v) \/ InsertHead(l, v)
          PROVE  Kept
      BY <2>1, <2>2, <2>3, InsertFirstStep, InsertTailStep, InsertHeadStep
    <2>4. ASSUME NEW l \in Lists \ skewed, NEW i, RemoveNode(l, i) PROVE Kept
      BY <2>1, <2>2, <2>4, RemoveNodeStep
    <2>5. ASSUME NEW l \in Lists \ skewed, NEW s \in Lists \ skewed, Concat(l, s) PROVE Kept
      BY <2>1, <2>2, <2>5, ConcatStep
    <2>6. ASSUME NEW l \in Lists \ skewed, NEW max, Resize(l, max) PROVE Kept
      BY <2>1, <2>2, <2>6, ResizeStep
    <2>7. ASSUME NEW l \in Lists \ skewed, Sort(l) PROVE Kept
      BY <2>1, <2>2, <2>7, SortStep
    <2>8. ASSUME NEW l \in Lists, Free(l) PROVE Kept
      BY <2>1, <2>2, <2>8, FreeStep
    <2>9. ASSUME NEW l, NEW s, InsertEnds(l) \/ ConcatEnds(l, s) PROVE Kept
      <3>1. fault' = "null" /\ UNCHANGED <<head, count, recycling, mp, nodes, seq, skewed, rebuilt>>
        BY <2>9 DEF InsertEnds, ConcatEnds
      <3> QED BY <2>1, <3>1 DEF Kept, TypeInv, recycling, nodes
    <2>10. Kept
      BY <1>1, <2>3, <2>4, <2>5, <2>6, <2>7, <2>8, <2>9, Zenon DEF Next
    <2> QED BY <2>10 DEF Kept, ListInv
  <1>2. CASE UNCHANGED vars
    <2>1. UNCHANGED <<head, count, first_free, max_recyclable, mp, next, prev, data, home,
                      seq, skewed, rebuilt, fault>>
      BY <1>2 DEF vars, nodes, recycling
    <2>2. TypeInv'
      BY <2>1 DEF ListInv, TypeInv
    <2>3. ASSUME NEW W, Shape(W) PROVE Shape(W)'
      BY <2>1, <2>3 DEF Shape, ListOK, Path, Holds, Hidden, Back, Apart, StacksApart
    <2> QED BY <2>1, <2>2, <2>3 DEF ListInv
  <1> QED BY <1>1, <1>2

LEMMA ListInvHolds == Spec => []ListInv
  BY InitListInv, NextListInv, PTL DEF Spec

\* For any number of lists, nodes and data, who goes through a list meets what the calls
\* put into it, in order, and its count is how much that is, in every state in which no
\* fault has happened, for the lists into which ina_list_insert_head put no node before
\* the first one.
THEOREM WalkAgreesHolds == Spec => []WalkAgrees
  <1>1. ListInv => WalkAgrees
    <2> SUFFICES ASSUME ListInv, fault = "none", NEW l \in Lists \ skewed
                 PROVE  Values(Walk(l)) = seq[l] /\ count[l] = Len(seq[l])
      BY DEF WalkAgrees
    <2>1. PICK W : Shape(W)
      BY DEF ListInv
    <2> DEFINE w == W[l]
               q == seq[l]
               k == Len(w)
    <2>2. Walk(l) = w /\ w \in Seq(Node) /\ k \in Nat /\ Holds(l, w)
      BY <2>1, WalksAre DEF Shape, ListOK
    <2>3. q \in Seq(Data) /\ Len(q) \in Nat
      BY DEF ListInv, TypeInv
    <2>4. /\ count[l] = Len(q) /\ Len(q) = k + Hidden(l)
          /\ \A i \in 1 .. k : data[w[i]] = q[i + Hidden(l)]
      BY <2>2 DEF Holds
    <2> HIDE DEF w, k, q
    <2>5. Values(Walk(l)) = [i \in 1 .. k |-> data[w[i]]]
      BY <2>2 DEF Values, k
    <2>6. Hidden(l) = 0 /\ Len(q) = k
      BY <2>2, <2>4 DEF Hidden
    <2>7. ASSUME NEW i \in 1 .. k PROVE data[w[i]] = q[i]
      <3>1. i + 0 = i
        OBVIOUS
      <3> QED BY <2>4, <2>6, <3>1
    <2>8. q = [i \in 1 .. k |-> q[i]]
      BY <2>3, <2>6
    <2>9. Values(Walk(l)) = q
      BY <2>5, <2>7, <2>8
    <2> QED BY <2>4, <2>9 DEF q
  <1> QED BY <1>1, ListInvHolds, PTL

\* In every state in which no fault has happened prev leads back along each list that
\* ina_list_insert_head left alone, and from its first node to its last one unless a sort
\* or a resize left it null: ina_list_remove finds the node it looks for, and
\* ina_list_insert_tail and ina_list_concat do on a list that was not rebuilt.
THEOREM BackLinksHolds == Spec => []BackLinks
  <1>1. ListInv => BackLinks
    <2> SUFFICES ASSUME ListInv, fault = "none", NEW l \in Lists \ skewed
                 PROVE  LET w == Walk(l)
                        IN  /\ \A i \in 2 .. Len(w) : prev[w[i]] = w[i - 1]
                            /\ w # <<>> => /\ prev[w[1]] \in {Last(w), Null}
                                           /\ prev[w[1]] = Null => l \in rebuilt
      BY DEF BackLinks
    <2>1. PICK W : Shape(W)
      BY DEF ListInv
    <2>2. Walk(l) = W[l] /\ Back(l, W[l])
      BY <2>1, WalksAre DEF Shape, ListOK
    <2> QED BY <2>2 DEF Back, Last
  <1> QED BY <1>1, ListInvHolds, PTL

\* In every state in which no fault has happened no node is in a list twice, in two lists,
\* or in a list and on a stack of recycled nodes, and every node of a list is in a pool
\* that was not freed: ina_list_node_new never gives out a node that is in use, as long as
\* the entry past the end of the array of recycled nodes is kept as it was stored.
THEOREM NodesApartHolds == Spec => []NodesApart
  <1>1. ListInv => NodesApart
    <2> SUFFICES ASSUME ListInv, fault = "none" PROVE NodesApart
      BY DEF NodesApart
    <2>1. PICK W : Shape(W)
      BY DEF ListInv
    <2> DEFINE walk == [l \in Lists |-> Walk(l)]
    <2>2. \A l \in Lists : walk[l] = W[l] /\ W[l] \in Seq(Node) /\ DOMAIN walk[l] = 1 .. Len(W[l])
      BY <2>1, WalksAre DEF Shape
    <2>3. \A l \in Lists : \A i \in 1 .. Len(W[l]) : W[l][i] \in ToSet(W[l])
      BY <2>2, ToSetIs
    <2>4. \A l \in Lists : first_free[l] \in Seq(Node) /\ DOMAIN first_free[l] = 1 .. Len(first_free[l])
      BY DEF ListInv, TypeInv
    <2>5. \A l \in Lists : \A i \in 1 .. Len(first_free[l]) : first_free[l][i] \in ToSet(first_free[l])
      BY <2>4, ToSetIs
    <2> HIDE DEF walk
    <2>6. Apart(W) /\ StacksApart
      BY <2>1 DEF Shape, Apart
    <2>7. ASSUME NEW l \in Lists, NEW m \in Lists
          PROVE  /\ \A i \in DOMAIN walk[l] : home[walk[l][i]] # Null
                 /\ \A i \in DOMAIN walk[l], j \in DOMAIN walk[m] :
                      walk[l][i] = walk[m][j] => l = m /\ i = j
                 /\ \A i \in DOMAIN walk[l], j \in DOMAIN first_free[m] :
                      walk[l][i] # first_free[m][j]
                 /\ \A i \in DOMAIN first_free[l], j \in DOMAIN first_free[m] :
                      first_free[l][i] = first_free[m][j] /\ home[first_free[l][i]] # Null
                        => l = m /\ i = j
      <3>1. \A i \in DOMAIN walk[l] : home[walk[l][i]] # Null
        BY <2>2, <2>3, <2>6 DEF Apart
      <3>2. ASSUME NEW i \in DOMAIN walk[l], NEW j \in DOMAIN walk[m], walk[l][i] = walk[m][j]
            PROVE  l = m /\ i = j
        <4>1. i \in 1 .. Len(W[l]) /\ j \in 1 .. Len(W[m]) /\ W[l][i] = W[m][j]
          BY <2>2, <3>2
        <4>2. l = m
          BY <2>3, <2>6, <4>1 DEF Apart
        <4>3. \A a, b \in 1 .. Len(W[l]) : W[l][a] = W[l][b] => a = b
          BY <2>1, FirstNode
        <4> QED BY <4>1, <4>2, <4>3
      <3>3. ASSUME NEW i \in DOMAIN walk[l], NEW j \in DOMAIN first_free[m]
            PROVE  walk[l][i] # first_free[m][j]
        <4>1. W[l][i] \in ToSet(W[l]) /\ first_free[m][j] \in ToSet(first_free[m]) /\ walk[l] = W[l]
          BY <2>2, <2>3, <2>4, <2>5
        <4>2. ToSet(W[l]) \cap ToSet(first_free[m]) = {}
          BY <2>6 DEF Apart
        <4> QED BY <4>1, <4>2
      <3>4. \A i \in DOMAIN first_free[l], j \in DOMAIN first_free[m] :
              first_free[l][i] = first_free[m][j] /\ home[first_free[l][i]] # Null => l = m /\ i = j
        BY <2>4, <2>6 DEF StacksApart
      <3> QED BY <3>1, <3>2, <3>3, <3>4
    <2> QED BY <2>7, Zenon DEF NodesApart, walk
  <1> QED BY <1>1, ListInvHolds, PTL
================================================================================
