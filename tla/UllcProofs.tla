------------------------------- MODULE UllcProofs -------------------------------
(* Proofs about Ullc: what holds for every number of processes, slots and        *)
(* cursors of an initialised ring.                                               *)
EXTENDS Ullc, FiniteSetTheorems, TLAPS

\* Names for the steps of Next, so that a proof lists them once.
LEMMA NextCases ==
  ASSUME Next
  PROVE  \/ \E x \in Proc : Open(x) \/ Compare(x) \/ InitMagic(x) \/ InitFields(x)
         \/ \E x \in Proc : OverrunEnable(x) \/ OverrunDisable(x)
         \/ \E p \in Producer :
              \/ ProducerJoin(p) \/ ProducerClaim(p) \/ ClaimTest(p) \/ ClaimScan(p)
              \/ ProducerWrite(p) \/ CommitNext(p) \/ CommitCursor(p)
              \/ ProducerFree(p) \/ ProducerFreeLast(p)
         \/ \E c \in Consumer :
              \/ ConsumerJoin(c) \/ ConsumerSetCursor(c) \/ ConsumerFixCursor(c)
              \/ ConsumerGet(c) \/ ConsumerGetIdx(c) \/ ConsumerGetInc(c)
              \/ \E pos \in SeekPos : ConsumerSetPos(c, pos)
              \/ ConsumerSetPosLoad(c) \/ ConsumerSetPosSwap(c) \/ ConsumerFree(c) \/ ConsumerFreeCursor(c)
  BY DEF Next, Opening, OverrunSwitch, ProducerStream, ProducerLeave, ConsumerEnter,
         ConsumerStream, ConsumerSeek, ConsumerLeave

\* A jump to a label of the process's own kind keeps the program counters typed.
LEMMA GotoProducer ==
  ASSUME NEW p \in Producer, NEW l \in ProducerLabel, Goto(p, l), ControlOK
  PROVE  ControlOK'
  BY UllcConstants DEF ControlOK, Goto, Proc

LEMMA GotoConsumer ==
  ASSUME NEW c \in Consumer, NEW l \in ConsumerLabel, Goto(c, l), ControlOK
  PROVE  ControlOK'
  BY UllcConstants DEF ControlOK, Goto, Proc

\* The indices the code computes lie inside the tables they index.
LEMMA IndexOK ==
  ASSUME TypeOK
  PROVE  /\ \A c \in Consumer : c \in Proc /\ id[c] \in CSlot
         /\ \A p \in Producer : /\ p \in Proc
                                /\ LikeToWrite(p) \in Pos
                                /\ POffset(id[p]) \in PSlot
  <1>1. ASSUME NEW c \in Consumer PROVE c \in Proc /\ id[c] \in CSlot
    BY UllcConstants DEF TypeOK, Proc, CSlot
  <1>2. ASSUME NEW p \in Producer PROVE p \in Proc /\ LikeToWrite(p) \in Pos
    BY UllcConstants DEF TypeOK, Proc, Pos, LikeToWrite
  <1>3. ASSUME NEW p \in Producer PROVE POffset(id[p]) \in PSlot
    <2> DEFINE m == id[p]
               n == NumProducers - 1
    <2>1. m \in Nat /\ n \in Nat /\ m <= n
      BY UllcConstants DEF TypeOK, Proc
    <2>2. m * (m + 1) <= n * (n + 1) /\ m * (m + 1) \in Nat /\ n * (n + 1) \in Nat
      BY <2>1
    <2> QED
      BY <2>2 DEF POffset, PSlot
  <1> QED
    BY <1>1, <1>2, <1>3

\* Type correctness is inductive by itself.  Each action first moves the program
\* counter, then writes the words it writes.
LEMMA TypeStepOpen ==
  ASSUME TypeOK, NEW x \in Proc,
         Open(x) \/ Compare(x) \/ InitMagic(x) \/ InitFields(x) \/ OverrunEnable(x) \/ OverrunDisable(x)
  PROVE  TypeOK'
  <1>1. OpeningLabel \cup {"join"} \subseteq ProducerLabel \cap ConsumerLabel
    BY DEF ProducerLabel, ConsumerLabel
  <1>2. ControlOK'
    <2>1. \/ UNCHANGED pc
          \/ \E l \in OpeningLabel \cup {"join"} : Goto(x, l)
      BY DEF OpeningLabel, InitLabel, Open, Compare, InitMagic, InitFields, InitOverrun,
             InitCursor, InitNextPtr, InitAlive, InitParams, InitSemkey, OverrunEnable, OverrunDisable
    <2>2. CASE UNCHANGED pc
      BY <2>2 DEF TypeOK, ControlOK
    <2>3. CASE x \in Producer
      BY <1>1, <2>1, <2>2, <2>3, GotoProducer DEF TypeOK
    <2>4. CASE x \in Consumer
      BY <1>1, <2>1, <2>2, <2>4, GotoConsumer DEF TypeOK
    <2> QED
      BY <2>3, <2>4 DEF Proc
  <1>3. CASE Open(x)
    BY <1>2, <1>3, UllcConstants
    DEF TypeOK, Open, Proc, ring, table, plocal, clocal
  <1>7. CASE Compare(x)
    BY <1>2, <1>7 DEF TypeOK, Compare, ring, table, plocal, clocal
  <1>4. CASE InitMagic(x)
    BY <1>2, <1>4 DEF TypeOK, InitMagic, table, plocal, clocal
  <1>5. CASE InitFields(x)
    BY <1>2, <1>5
    DEF TypeOK, InitFields, InitOverrun, InitCursor, InitNextPtr, InitAlive, InitParams, InitSemkey,
        OVERRUN, table, plocal, clocal
  <1>6. CASE OverrunEnable(x) \/ OverrunDisable(x)
    BY <1>2, <1>6 DEF TypeOK, OverrunEnable, OverrunDisable, table, plocal, clocal
  <1> QED
    BY <1>3, <1>4, <1>5, <1>6, <1>7

LEMMA TypeStepProducer ==
  ASSUME TypeOK, NEW p \in Producer,
         \/ ProducerJoin(p) \/ ProducerClaim(p) \/ ClaimTest(p) \/ ClaimScan(p)
         \/ ProducerWrite(p) \/ CommitNext(p) \/ CommitCursor(p)
         \/ ProducerFree(p) \/ ProducerFreeLast(p)
  PROVE  TypeOK'
  <1> USE UllcConstants, IndexOK DEF ring, table, plocal, clocal
  <1>1. ControlOK'
    <2>1. \/ UNCHANGED pc
          \/ \E l \in ProducerLabel : Goto(p, l)
      BY DEF ProducerLabel, OpeningLabel, ProducerJoin, ProducerClaim, ClaimTest, ClaimScan, ProducerWrite,
             CommitNext, CommitCursor, ProducerFree, ProducerFreeLast
    <2>2. CASE UNCHANGED pc
      BY <2>2 DEF TypeOK, ControlOK
    <2> QED
      BY <2>1, <2>2, GotoProducer DEF TypeOK
  <1>2. CASE ProducerJoin(p)
    BY <1>1, <1>2 DEF TypeOK, ProducerJoin, Proc
  <1>3. CASE ProducerClaim(p)
    BY <1>1, <1>3 DEF TypeOK, ProducerClaim, OVERRUN, INT64_MAX
  <1>4. CASE ClaimTest(p)
    BY <1>1, <1>4 DEF TypeOK, ClaimTest, OVERRUN
  <1>5. CASE ClaimScan(p)
    <2>0. scan[p] \in 0 .. NumConsumers
      BY DEF TypeOK
    <2>1. CASE scan[p] < NumConsumers
      <3>1. scan[p] \in CSlot
        BY <2>0, <2>1 DEF CSlot
      <3>2. CRem(c_cursor[scan[p]], Slots) \in Int
        BY <3>1 DEF TypeOK, CRem
      <3>3. INA_MAX(slow_consumer[p], CRem(c_cursor[scan[p]], Slots)) \in Int
        BY <3>2 DEF TypeOK, INA_MAX
      <3> QED
        BY <1>1, <1>5, <2>0, <2>1, <3>3 DEF TypeOK, ClaimScan
    <2>2. CASE scan[p] = NumConsumers
      BY <1>1, <1>5, <2>2 DEF TypeOK, ClaimScan
    <2> QED
      BY <2>0, <2>1, <2>2
  <1>6. CASE ProducerWrite(p)
    BY <1>1, <1>6 DEF TypeOK, ProducerWrite
  <1>7. CASE CommitNext(p) \/ CommitCursor(p)
    BY <1>1, <1>7 DEF TypeOK, CommitNext, CommitCursor
  <1>8. CASE ProducerFree(p)
    BY <1>1, <1>8 DEF TypeOK, ProducerFree
  <1>9. CASE ProducerFreeLast(p)
    BY <1>1, <1>9 DEF TypeOK, ProducerFreeLast
  <1> QED
    BY <1>2, <1>3, <1>4, <1>5, <1>6, <1>7, <1>8, <1>9

LEMMA TypeStepConsumer ==
  ASSUME TypeOK, NEW c \in Consumer,
         \/ ConsumerJoin(c) \/ ConsumerSetCursor(c) \/ ConsumerFixCursor(c)
         \/ ConsumerGet(c) \/ ConsumerGetIdx(c) \/ ConsumerGetInc(c)
         \/ \E pos \in SeekPos : ConsumerSetPos(c, pos)
         \/ ConsumerSetPosLoad(c) \/ ConsumerSetPosSwap(c) \/ ConsumerFree(c) \/ ConsumerFreeCursor(c)
  PROVE  TypeOK'
  <1> USE UllcConstants, IndexOK DEF ring, table, plocal, clocal
  <1>1. ControlOK'
    <2>1. \/ UNCHANGED pc
          \/ \E l \in ConsumerLabel : Goto(c, l)
      BY DEF ConsumerLabel, OpeningLabel, ConsumerJoin, ConsumerSetCursor, ConsumerFixCursor, ConsumerGet,
             ConsumerGetIdx, ConsumerGetInc, ConsumerSetPos, ConsumerSetPosLoad, ConsumerSetPosSwap,
             ConsumerFree, ConsumerFreeCursor
    <2>2. CASE UNCHANGED pc
      BY <2>2 DEF TypeOK, ControlOK
    <2> QED
      BY <2>1, <2>2, GotoConsumer DEF TypeOK
  <1>2. CASE ConsumerJoin(c)
    <2>1. c \in Proc /\ id[c] \in CSlot
      BY DEF Proc
    <2>2. CASE c_alive' = [c_alive EXCEPT ![id[c]] = 1] /\ UNCHANGED id
      BY <1>1, <1>2, <2>1, <2>2 DEF TypeOK, ConsumerJoin
    <2>3. CASE id[c] + 1 < NumConsumers /\ id' = [id EXCEPT ![c] = @ + 1] /\ UNCHANGED c_alive
      BY <1>1, <1>2, <2>1, <2>3 DEF TypeOK, ConsumerJoin
    <2>4. CASE UNCHANGED <<c_alive, id>>
      BY <1>1, <1>2, <2>4 DEF TypeOK, ConsumerJoin
    <2> QED
      BY <1>2, <2>2, <2>3, <2>4 DEF ConsumerJoin
  <1>3. CASE ConsumerSetCursor(c)
    BY <1>1, <1>3 DEF TypeOK, ConsumerSetCursor
  <1>4. CASE ConsumerFixCursor(c)
    BY <1>1, <1>4 DEF TypeOK, ConsumerFixCursor
  <1>5. CASE ConsumerGet(c)
    BY <1>1, <1>5 DEF TypeOK, ConsumerGet
  <1>6. CASE ConsumerGetIdx(c)
    BY <1>1, <1>6 DEF TypeOK, ConsumerGetIdx
  <1>7. CASE ConsumerGetInc(c)
    BY <1>1, <1>7 DEF TypeOK, ConsumerGetInc
  <1>8. ASSUME NEW pos \in SeekPos, ConsumerSetPos(c, pos)
        PROVE TypeOK'
    BY <1>1, <1>8 DEF TypeOK, ConsumerSetPos
  <1>9. CASE ConsumerSetPosSwap(c)
    BY <1>1, <1>9 DEF TypeOK, ConsumerSetPosSwap
  <1>12. CASE ConsumerSetPosLoad(c)
    BY <1>1, <1>12 DEF TypeOK, ConsumerSetPosLoad
  <1>10. CASE ConsumerFree(c)
    BY <1>1, <1>10 DEF TypeOK, ConsumerFree
  <1>11. CASE ConsumerFreeCursor(c)
    BY <1>1, <1>11 DEF TypeOK, ConsumerFreeCursor
  <1> QED
    BY <1>2, <1>3, <1>4, <1>5, <1>6, <1>7, <1>8, <1>9, <1>10, <1>11, <1>12

LEMMA TypeStep == TypeOK /\ [Next]_vars => TypeOK'
  <1>1. ASSUME TypeOK, UNCHANGED vars PROVE TypeOK'
    BY <1>1 DEF TypeOK, ControlOK, vars, ring, table, plocal, clocal
  <1> QED
    BY <1>1, NextCases, TypeStepOpen, TypeStepProducer, TypeStepConsumer

LEMMA TypeInit == Init => TypeOK
  BY UllcConstants DEF Init, NoOneAttached, TypeOK, ControlOK, ProducerLabel, ConsumerLabel, OpeningLabel,
     SEMKEY, CSlot, Pos, Proc, OVERRUN, INT64_MAX, MAGIC_HDR, VERSION

\* Every reachable state of an initialised ring is well typed: the ids stay inside
\* the tables the ring was created with.
THEOREM TypeCorrect == Spec => []TypeOK
  BY TypeInit, TypeStep, PTL DEF Spec

---------------------------------------------------------------------------------
\* Once initialised, the ring is never initialised again.
LEMMA RingUpStep ==
  ASSUME TypeOK, RingUp, [Next]_vars
  PROVE  RingUp'
  <1> USE DEF RingUp, Goto, InitLabel
  <1>1. CASE UNCHANGED vars
    BY <1>1 DEF vars, ring
  <1>2. ASSUME NEW x \in Proc,
               \/ Open(x) \/ Compare(x) \/ InitMagic(x) \/ InitFields(x)
               \/ OverrunEnable(x) \/ OverrunDisable(x)
        PROVE  RingUp'
    BY <1>2 DEF Open, Compare, InitMagic, InitFields, InitOverrun, InitCursor,
      InitNextPtr, InitAlive, InitParams, InitSemkey, OverrunEnable, OverrunDisable, ring, TypeOK, ControlOK
  <1>3. ASSUME NEW p \in Producer,
               \/ ProducerJoin(p) \/ ProducerClaim(p) \/ ClaimTest(p) \/ ClaimScan(p)
               \/ ProducerWrite(p) \/ CommitNext(p) \/ CommitCursor(p) \/ ProducerFree(p)
        PROVE  RingUp'
    BY <1>3 DEF ProducerJoin, ProducerClaim, ClaimTest, ClaimScan, ProducerWrite,
                CommitNext, CommitCursor, ProducerFree, ring, TypeOK, ControlOK
  <1>4. ASSUME NEW p \in Producer, ProducerFreeLast(p) PROVE RingUp'
    BY <1>4 DEF ProducerFreeLast, TypeOK, ControlOK
  <1>5. ASSUME NEW c \in Consumer,
               \/ ConsumerJoin(c) \/ ConsumerSetCursor(c) \/ ConsumerFixCursor(c)
               \/ ConsumerGet(c) \/ ConsumerGetIdx(c) \/ ConsumerGetInc(c)
               \/ \E pos \in SeekPos : ConsumerSetPos(c, pos)
               \/ ConsumerSetPosLoad(c) \/ ConsumerSetPosSwap(c) \/ ConsumerFree(c) \/ ConsumerFreeCursor(c)
        PROVE  RingUp'
    BY <1>5 DEF ConsumerJoin, ConsumerSetCursor, ConsumerFixCursor, ConsumerGet,
                ConsumerGetIdx, ConsumerGetInc, ConsumerSetPos, ConsumerSetPosLoad, ConsumerSetPosSwap,
                ConsumerFree, ConsumerFreeCursor, ring, TypeOK, ControlOK
  <1> QED
    BY <1>1, <1>2, <1>3, <1>4, <1>5, NextCases

\* The consumer table: a cursor has one owner at a time.
LEMMA ExclusiveStep ==
  ASSUME TypeOK, CursorExclusive, [Next]_vars
  PROVE  CursorExclusive'
  <1> USE UllcConstants, IndexOK DEF CursorExclusive, Owner, OpeningLabel, InitLabel, Goto
  <1>1. CASE UNCHANGED vars
    BY <1>1 DEF vars, table
  <1>2. ASSUME NEW x \in Proc,
               \/ Open(x) \/ Compare(x) \/ InitMagic(x) \/ InitFields(x)
               \/ OverrunEnable(x) \/ OverrunDisable(x)
        PROVE  CursorExclusive'
    <2>0. pc \in [Proc -> ProducerLabel \cup ConsumerLabel] /\ id \in [Proc -> Nat]
      BY DEF TypeOK, ControlOK
    <2>1. UNCHANGED c_alive /\ \A c \in Owner' : c \in Owner /\ id'[c] = id[c]
      <3>1. CASE Open(x)
        BY <2>0, <3>1 DEF Open, table, Proc
      <3>2. CASE InitMagic(x) \/ InitFields(x)
        BY <2>0, <3>2 DEF InitMagic, InitFields, InitOverrun, InitCursor, InitNextPtr, InitAlive,
                          InitParams, InitSemkey, table, Proc
      <3>4. CASE Compare(x)
        BY <2>0, <3>4 DEF Compare, table, Proc
      <3>3. CASE OverrunEnable(x) \/ OverrunDisable(x)
        BY <3>3 DEF OverrunEnable, OverrunDisable, table
      <3> QED BY <1>2, <3>1, <3>2, <3>3, <3>4
    <2> QED
      BY <2>1
  <1>3. ASSUME NEW p \in Producer,
               \/ ProducerJoin(p) \/ ProducerClaim(p) \/ ClaimTest(p) \/ ClaimScan(p)
               \/ ProducerWrite(p) \/ CommitNext(p) \/ CommitCursor(p)
               \/ ProducerFree(p) \/ ProducerFreeLast(p)
        PROVE  CursorExclusive'
    <2>1. /\ UNCHANGED c_alive
          /\ \A c \in Consumer : pc'[c] = pc[c] /\ id'[c] = id[c]
      BY <1>3 DEF ProducerJoin, ProducerClaim, ClaimTest, ClaimScan, ProducerWrite,
                  CommitNext, CommitCursor, ProducerFree, ProducerFreeLast, table, Proc,
                  TypeOK, ControlOK
    <2> QED
      BY <2>1
  <1>4. ASSUME NEW c \in Consumer, ConsumerJoin(c) PROVE CursorExclusive'
    <2>0. /\ pc \in [Proc -> ProducerLabel \cup ConsumerLabel] /\ id \in [Proc -> Nat]
          /\ c_alive \in [CSlot -> {0, 1}] /\ \A d \in Consumer : d \in Proc /\ id[d] \in CSlot
      BY DEF TypeOK, ControlOK
    <2>1. pc[c] = "join" /\ c \notin Owner
      BY <1>4 DEF ConsumerJoin
    <2>2. CASE /\ c_alive[id[c]] = 0 /\ UNCHANGED id
               /\ c_alive' = [c_alive EXCEPT ![id[c]] = 1]
               /\ Goto(c, "set_cursor")
      <3>1. \A d \in Owner' : d = c \/ d \in Owner
        BY <2>0, <2>2
      <3>2. \A d \in Owner : d \in Consumer /\ id[d] # id[c]
        BY <2>2
      <3> QED BY <2>0, <2>2, <3>1, <3>2
    <2>3. CASE UNCHANGED c_alive /\ pc' = pc /\ id' = [id EXCEPT ![c] = @ + 1]
      <3>1. Owner' = Owner /\ \A d \in Owner : id'[d] = id[d]
        BY <2>0, <2>1, <2>3
      <3> QED BY <2>3, <3>1
    <2>4. CASE UNCHANGED <<c_alive, id>> /\ Goto(c, "down")
      <3>1. \A d \in Owner' : d \in Owner
        BY <2>0, <2>4
      <3> QED BY <2>4, <3>1
    <2> QED BY <1>4, <2>2, <2>3, <2>4 DEF ConsumerJoin
  <1>5. ASSUME NEW c \in Consumer,
               \/ ConsumerSetCursor(c) \/ ConsumerFixCursor(c)
               \/ ConsumerGet(c) \/ ConsumerGetIdx(c) \/ ConsumerGetInc(c)
               \/ \E pos \in SeekPos : ConsumerSetPos(c, pos)
               \/ ConsumerSetPosLoad(c) \/ ConsumerSetPosSwap(c) \/ ConsumerFreeCursor(c)
        PROVE  CursorExclusive'
    <2>0. pc \in [Proc -> ProducerLabel \cup ConsumerLabel]
      BY DEF TypeOK, ControlOK
    <2>1. UNCHANGED <<c_alive, id>>
      BY <1>5 DEF ConsumerSetCursor, ConsumerFixCursor, ConsumerGet,
                  ConsumerGetIdx, ConsumerGetInc, ConsumerSetPos, ConsumerSetPosLoad, ConsumerSetPosSwap,
                  ConsumerFreeCursor, table
    <2>2. \A d \in Owner' : d \in Owner
      BY <1>5, <2>0 DEF ConsumerSetCursor, ConsumerFixCursor, ConsumerGet,
                  ConsumerGetIdx, ConsumerGetInc, ConsumerSetPos, ConsumerSetPosLoad, ConsumerSetPosSwap,
                  ConsumerFreeCursor
    <2> QED
      BY <2>1, <2>2
  <1>6. ASSUME NEW c \in Consumer, ConsumerFree(c) PROVE CursorExclusive'
    BY <1>6 DEF ConsumerFree, TypeOK, ControlOK
  <1> QED
    BY <1>1, <1>2, <1>3, <1>4, <1>5, <1>6, NextCases

---------------------------------------------------------------------------------
\* The two increments of commit.
Committing == {p \in Producer : pc[p] = "commit_cursor"}

LEMMA CommittingFinite == IsFiniteSet(Committing) /\ Cardinality(Committing) \in Nat
  <1>1. Committing \subseteq Producer
    BY DEF Committing
  <1> QED
    BY <1>1, UllcConstants, FS_Subset, FS_CardinalityType

LEMMA CommitWindowStep ==
  ASSUME TypeOK, RingUp, CommitWindow, [Next]_vars
  PROVE  CommitWindow'
  <1>0. CommitWindow <=> next_ptr = cursor + 1 + Cardinality(Committing)
    BY DEF CommitWindow, Committing
  <1>00. CommitWindow' <=> next_ptr' = cursor' + 1 + Cardinality(Committing')
    BY DEF CommitWindow, Committing
  <1>1. CASE UNCHANGED <<cursor, next_ptr>> /\ Committing' = Committing
    BY <1>0, <1>00, <1>1
  <1>2. CASE UNCHANGED vars
    BY <1>2, <1>1 DEF vars, ring, Committing
  <1>3. ASSUME NEW x \in Proc,
               \/ Open(x) \/ Compare(x) \/ InitMagic(x) \/ InitFields(x)
               \/ OverrunEnable(x) \/ OverrunDisable(x)
        PROVE  CommitWindow'
    <2>1. UNCHANGED <<cursor, next_ptr>> /\ Committing' = Committing
      BY <1>3 DEF RingUp, InitLabel, Open, Compare, InitMagic, InitFields, InitOverrun, InitCursor,
      InitNextPtr, InitAlive, InitParams, InitSemkey, OverrunEnable, OverrunDisable, ring,
                  Goto, TypeOK, ControlOK, Proc, Committing
    <2> QED
      BY <1>1, <2>1
  <1>4. ASSUME NEW p \in Producer,
               \/ ProducerJoin(p) \/ ProducerClaim(p) \/ ClaimTest(p) \/ ClaimScan(p)
               \/ ProducerWrite(p) \/ ProducerFree(p) \/ ProducerFreeLast(p)
        PROVE  CommitWindow'
    <2>1. UNCHANGED <<cursor, next_ptr>> /\ Committing' = Committing
      BY <1>4 DEF ProducerJoin, ProducerClaim, ClaimTest, ClaimScan, ProducerWrite,
                  ProducerFree, ProducerFreeLast, ring, Goto, TypeOK, ControlOK, Proc, Committing
    <2> QED
      BY <1>1, <2>1
  <1>5. ASSUME NEW p \in Producer, CommitNext(p) PROVE CommitWindow'
    <2>1. p \notin Committing /\ Committing' = Committing \cup {p}
      BY <1>5 DEF CommitNext, Goto, TypeOK, ControlOK, Proc, Committing
    <2>2. Cardinality(Committing') = Cardinality(Committing) + 1
      BY <2>1, CommittingFinite, FS_AddElement
    <2> QED
      BY <1>0, <1>00, <1>5, <2>2, CommittingFinite DEF CommitNext, TypeOK
  <1>6. ASSUME NEW p \in Producer, CommitCursor(p) PROVE CommitWindow'
    <2>1. p \in Committing /\ Committing' = Committing \ {p}
      BY <1>6 DEF CommitCursor, Goto, TypeOK, ControlOK, Proc, Committing
    <2>2. Cardinality(Committing') = Cardinality(Committing) - 1
      BY <2>1, CommittingFinite, FS_RemoveElement
    <2> QED
      BY <1>0, <1>00, <1>6, <2>2, CommittingFinite DEF CommitCursor, TypeOK
  <1>7. ASSUME NEW c \in Consumer,
               \/ ConsumerJoin(c) \/ ConsumerSetCursor(c) \/ ConsumerFixCursor(c)
               \/ ConsumerGet(c) \/ ConsumerGetIdx(c) \/ ConsumerGetInc(c)
               \/ \E pos \in SeekPos : ConsumerSetPos(c, pos)
               \/ ConsumerSetPosLoad(c) \/ ConsumerSetPosSwap(c) \/ ConsumerFree(c) \/ ConsumerFreeCursor(c)
        PROVE  CommitWindow'
    <2>1. UNCHANGED <<cursor, next_ptr>>
      BY <1>7 DEF ConsumerJoin, ConsumerSetCursor, ConsumerFixCursor, ConsumerGet,
                  ConsumerGetIdx, ConsumerGetInc, ConsumerSetPos, ConsumerSetPosLoad, ConsumerSetPosSwap,
                  ConsumerFree, ConsumerFreeCursor, ring
    <2>2. \A p \in Producer : pc'[p] = pc[p]
      BY <1>7, UllcConstants
      DEF ConsumerJoin, ConsumerSetCursor, ConsumerFixCursor, ConsumerGet,
          ConsumerGetIdx, ConsumerGetInc, ConsumerSetPos, ConsumerSetPosLoad, ConsumerSetPosSwap,
          ConsumerFree, ConsumerFreeCursor, Goto, TypeOK, ControlOK, Proc
    <2> QED
      BY <1>1, <2>1, <2>2 DEF Committing
  <1> QED
    BY <1>2, <1>3, <1>4, <1>5, <1>6, <1>7, NextCases

\* The committed position never reaches next_ptr.
LEMMA CursorBelowNext ==
  ASSUME TypeOK, CommitWindow
  PROVE  cursor < next_ptr
  BY CommittingFinite DEF CommitWindow, Committing, TypeOK

\* A step of a producer leaves the consumers where they are.
LEMMA ProducerFrame ==
  ASSUME TypeOK, NEW p \in Producer,
         \/ ProducerJoin(p) \/ ProducerClaim(p) \/ ClaimTest(p) \/ ClaimScan(p)
         \/ ProducerWrite(p) \/ CommitNext(p) \/ CommitCursor(p)
         \/ ProducerFree(p) \/ ProducerFreeLast(p)
  PROVE  /\ UNCHANGED <<c_alive, c_cursor, held, target>>
         /\ \A c \in Consumer : pc'[c] = pc[c] /\ id'[c] = id[c]
         /\ cursor <= cursor' /\ next_ptr <= next_ptr'
  BY UllcConstants
  DEF ProducerJoin, ProducerClaim, ClaimTest, ClaimScan, ProducerWrite,
      CommitNext, CommitCursor, ProducerFree, ProducerFreeLast, ring, table, clocal, Goto,
      TypeOK, ControlOK, Proc

\* A step of a consumer leaves the ring, the slots and the producers as they are.
LEMMA ConsumerFrame ==
  ASSUME TypeOK, NEW c \in Consumer,
         \/ ConsumerJoin(c) \/ ConsumerSetCursor(c) \/ ConsumerFixCursor(c)
         \/ ConsumerGet(c) \/ ConsumerGetIdx(c) \/ ConsumerGetInc(c)
         \/ \E pos \in SeekPos : ConsumerSetPos(c, pos)
         \/ ConsumerSetPosLoad(c) \/ ConsumerSetPosSwap(c) \/ ConsumerFree(c) \/ ConsumerFreeCursor(c)
  PROVE  /\ UNCHANGED <<ring, item, claimed>>
         /\ \A p \in Producer : pc'[p] = pc[p]
         /\ \A d \in Consumer \ {c} :
              pc'[d] = pc[d] /\ id'[d] = id[d] /\ held'[d] = held[d] /\ target'[d] = target[d]
  BY UllcConstants
  DEF ConsumerJoin, ConsumerSetCursor, ConsumerFixCursor, ConsumerGet,
      ConsumerGetIdx, ConsumerGetInc, ConsumerSetPos, ConsumerSetPosLoad, ConsumerSetPosSwap,
      ConsumerFree, ConsumerFreeCursor, plocal, clocal, Goto, TypeOK, ControlOK, Proc

\* An opener of an initialised ring and a switch of the overrun mode touch no
\* position.
LEMMA OpenFrame ==
  ASSUME TypeOK, RingUp, NEW x \in Proc,
         Open(x) \/ Compare(x) \/ InitMagic(x) \/ InitFields(x) \/ OverrunEnable(x) \/ OverrunDisable(x)
  PROVE  /\ UNCHANGED <<cursor, next_ptr, c_alive, c_cursor, item, held, target, claimed>>
         /\ \A y \in Proc : \/ pc'[y] = pc[y] /\ id'[y] = id[y]
                            \/ pc[y] \in {"down", "compare"} /\ pc'[y] \in {"down", "compare", "join"}
  BY DEF RingUp, InitLabel, Open, Compare, InitMagic, InitFields, InitOverrun, InitCursor,
      InitNextPtr, InitAlive, InitParams, InitSemkey, OverrunEnable, OverrunDisable, ring, table,
         plocal, clocal, Goto, TypeOK, ControlOK

---------------------------------------------------------------------------------
\* Where the consumers are.  A consumer is alone on its cursor, but the previous
\* owner may still clear the word behind its back, so what the test of
\* consumer_get established is only an upper bound of what is read next.
Positions == NeverAhead /\ CursorsSettle /\ ConsumerChecked

\* The step at hand is no seek to a position below -1.
ForwardSeek == \A c \in Consumer : \A pos \in SeekPos : ConsumerSetPos(c, pos) => pos >= -1

LEMMA PositionsConsumer ==
  ASSUME TypeOK, cursor >= -1, CommitWindow, CursorExclusive, Positions, ForwardSeek,
         NEW c \in Consumer,
         \/ ConsumerJoin(c) \/ ConsumerSetCursor(c) \/ ConsumerFixCursor(c)
         \/ ConsumerGet(c) \/ ConsumerGetIdx(c) \/ ConsumerGetInc(c)
         \/ \E pos \in SeekPos : ConsumerSetPos(c, pos)
         \/ ConsumerSetPosLoad(c) \/ ConsumerSetPosSwap(c) \/ ConsumerFree(c) \/ ConsumerFreeCursor(c)
  PROVE  Positions'
  <1>1. cursor < next_ptr
    BY CursorBelowNext
  <1>2. /\ UNCHANGED <<cursor, next_ptr>>
        /\ \A d \in Consumer \ {c} :
             pc'[d] = pc[d] /\ id'[d] = id[d] /\ held'[d] = held[d] /\ target'[d] = target[d]
    BY ConsumerFrame DEF ring
  <1>3. \A d \in Consumer : id[d] \in CSlot /\ d \in Proc
    BY IndexOK
  <1> USE DEF Positions, NeverAhead, CursorsSettle, ConsumerChecked
  <1>4. ASSUME pc[c] \notin OpeningLabel \cup {"join", "free", "fix_cursor"}
        PROVE  c_cursor[id[c]] >= 0
    <2>1. c \in Owner
      BY <1>4 DEF Owner
    <2>2. \A d \in Consumer : pc[d] = "fix_cursor" => d \in Owner /\ d # c
      BY <1>4 DEF Owner, OpeningLabel, InitLabel
    <2> QED
      BY <1>3, <2>1, <2>2 DEF CursorExclusive
  <1>5. \A d \in Consumer \ {c} :
          pc[d] \in {"get_idx", "get_inc", "fix_cursor"} /\ pc[c] \notin OpeningLabel \cup {"join", "free"}
            => id[d] # id[c]
    BY DEF CursorExclusive, Owner, OpeningLabel, InitLabel
  <1> USE <1>1, <1>2, <1>3 DEF Goto, table, clocal, TypeOK, ControlOK, OpeningLabel, InitLabel
  <1>6. CASE ConsumerJoin(c)
    BY <1>6 DEF ConsumerJoin
  <1>7. CASE ConsumerSetCursor(c)
    BY <1>5, <1>7, <1>4 DEF ConsumerSetCursor
  <1>8. CASE ConsumerFixCursor(c)
    BY <1>5, <1>8 DEF ConsumerFixCursor
  <1>9. CASE ConsumerGet(c)
    BY <1>4, <1>9 DEF ConsumerGet
  <1>10. CASE ConsumerGetIdx(c)
    BY <1>10 DEF ConsumerGetIdx
  <1>11. CASE ConsumerGetInc(c)
    BY <1>4, <1>5, <1>11 DEF ConsumerGetInc
  <1>12. ASSUME NEW pos \in SeekPos, ConsumerSetPos(c, pos)
         PROVE  Positions'
    <2>1. pos \in Int /\ pos >= -1
      BY <1>12, UllcConstants DEF ForwardSeek
    <2> QED
      BY <1>12, <2>1 DEF ConsumerSetPos
  <1>13. CASE ConsumerSetPosSwap(c)
    BY <1>5, <1>13 DEF ConsumerSetPosSwap
  <1>16. CASE ConsumerSetPosLoad(c)
    BY <1>16 DEF ConsumerSetPosLoad
  <1>14. CASE ConsumerFree(c)
    BY <1>14 DEF ConsumerFree
  <1>15. CASE ConsumerFreeCursor(c)
    BY <1>15 DEF ConsumerFreeCursor
  <1> QED
    BY <1>6, <1>7, <1>8, <1>9, <1>10, <1>11, <1>12, <1>13, <1>14, <1>15, <1>16

LEMMA PositionStep ==
  ASSUME TypeOK, RingUp, PositionInv, ForwardSeek, [Next]_vars
  PROVE  PositionInv'
  <1>0. Positions
    BY DEF PositionInv, Positions
  <1>1. CommitWindow' /\ CursorExclusive'
    BY CommitWindowStep, ExclusiveStep DEF PositionInv
  <1>2. cursor' >= -1 /\ Positions'
    <2>1. CASE UNCHANGED vars
      BY <2>1 DEF vars, ring, table, clocal, PositionInv, Positions, NeverAhead, CursorsSettle,
                  ConsumerChecked
    <2>2. ASSUME NEW x \in Proc,
                 \/ Open(x) \/ Compare(x) \/ InitMagic(x) \/ InitFields(x)
                 \/ OverrunEnable(x) \/ OverrunDisable(x)
          PROVE  cursor' >= -1 /\ Positions'
      BY <2>2, OpenFrame
      DEF PositionInv, Positions, NeverAhead, CursorsSettle, ConsumerChecked, Proc
    <2>3. ASSUME NEW p \in Producer,
                 \/ ProducerJoin(p) \/ ProducerClaim(p) \/ ClaimTest(p) \/ ClaimScan(p)
                 \/ ProducerWrite(p) \/ CommitNext(p) \/ CommitCursor(p)
                 \/ ProducerFree(p) \/ ProducerFreeLast(p)
          PROVE  cursor' >= -1 /\ Positions'
      <3>1. TypeOK'
        BY TypeStep
      <3> QED
        BY <2>3, <3>1, ProducerFrame, IndexOK, SMTT(30)
        DEF PositionInv, Positions, NeverAhead, CursorsSettle, ConsumerChecked, TypeOK
    <2>4. ASSUME NEW c \in Consumer,
                 \/ ConsumerJoin(c) \/ ConsumerSetCursor(c) \/ ConsumerFixCursor(c)
                 \/ ConsumerGet(c) \/ ConsumerGetIdx(c) \/ ConsumerGetInc(c)
                 \/ \E pos \in SeekPos : ConsumerSetPos(c, pos)
                 \/ ConsumerSetPosLoad(c) \/ ConsumerSetPosSwap(c) \/ ConsumerFree(c) \/ ConsumerFreeCursor(c)
          PROVE  cursor' >= -1 /\ Positions'
      <3>1. cursor' = cursor
        BY <2>4, ConsumerFrame DEF ring
      <3> QED
        BY <2>4, <1>0, <3>1, PositionsConsumer DEF PositionInv
    <2> QED
      BY <2>1, <2>2, <2>3, <2>4, NextCases
  <1> QED
    BY <1>1, <1>2 DEF PositionInv, Positions

---------------------------------------------------------------------------------
\* Two positions less than a round apart have different slots.
LEMMA SlotsDiffer ==
  ASSUME NEW a \in Nat, NEW b \in Nat, a < b, b < a + Slots
  PROVE  a % Slots # b % Slots
  <1> DEFINE qa == a \div Slots
             qb == b \div Slots
  <1>1. /\ qa \in Int /\ qb \in Int
        /\ a = Slots * qa + (a % Slots)
        /\ b = Slots * qb + (b % Slots)
    BY UllcConstants
  <1> HIDE DEF qa, qb
  <1>2. SUFFICES ASSUME a % Slots = b % Slots PROVE FALSE
    OBVIOUS
  <1>3. b - a = Slots * qb - Slots * qa
    BY <1>1, <1>2, UllcConstants
  <1>4. b - a = Slots * (qb - qa)
    BY <1>1, <1>3, UllcConstants
  <1>5. CASE qb - qa <= 0
    BY <1>1, <1>4, <1>5, UllcConstants
  <1>6. CASE qb - qa >= 1
    <2>1. Slots * (qb - qa) >= Slots
      BY <1>1, <1>6, UllcConstants
    <2> QED
      BY <1>4, <2>1, UllcConstants
  <1> QED
    BY <1>1, <1>5, <1>6

\* The one step that changes a slot.  It writes the item of the round that
\* begins, over the oldest one of the round that ends.
LEMMA SlotsWrite ==
  ASSUME TypeOK, SlotsHoldLastRound, SoleProducer, NEW p \in Producer, ProducerWrite(p)
  PROVE  SlotsHoldLastRound'
  <1>1. /\ claimed[p] = next_ptr
        /\ next_ptr \in Nat
        /\ Written = next_ptr
    BY DEF SlotsHoldLastRound, SoleProducer, ProducerWrite, Written, TypeOK
  <1>2. /\ UNCHANGED <<next_ptr, claimed>>
        /\ pc'[p] = "commit"
        /\ \A q \in Producer : q = p
    BY DEF ProducerWrite, Goto, ring, plocal, SoleProducer, TypeOK, ControlOK, Proc
  <1>3. Written' = next_ptr + 1
    BY <1>1, <1>2 DEF Written
  <1>4. LikeToWrite(p) = next_ptr % Slots /\ LikeToWrite(p) \in Pos
    BY <1>1, IndexOK DEF LikeToWrite
  <1>5. /\ item'[next_ptr % Slots] = next_ptr
        /\ \A r \in Pos : r # next_ptr % Slots => item'[r] = item[r]
    BY <1>1, <1>4 DEF ProducerWrite, TypeOK
  <1>6. ASSUME NEW k \in Nat, k < next_ptr + 1
        PROVE  /\ item'[k % Slots] >= k
               /\ next_ptr + 1 <= k + Slots => item'[k % Slots] = k
    <2>1. CASE k = next_ptr
      BY <2>1, <1>5
    <2>2. CASE k < next_ptr
      <3>1. k % Slots \in Pos
        BY UllcConstants DEF Pos
      <3>2. item[k % Slots] >= k /\ (next_ptr <= k + Slots => item[k % Slots] = k)
        BY <2>2, <1>1 DEF SlotsHoldLastRound
      <3>3. CASE k % Slots = next_ptr % Slots
        <4>1. ~(next_ptr < k + Slots)
          BY <2>2, <3>3, <1>1, SlotsDiffer
        <4> QED
          BY <4>1, <3>3, <2>2, <1>1, <1>5, UllcConstants
      <3>4. CASE k % Slots # next_ptr % Slots
        <4>1. item'[k % Slots] = item[k % Slots]
          BY <3>1, <3>4, <1>5
        <4> QED
          BY <4>1, <3>2, <1>1, UllcConstants
      <3> QED
        BY <3>3, <3>4
    <2> QED
      BY <2>1, <2>2, <1>6, <1>1
  <1> QED
    BY <1>1, <1>2, <1>3, <1>6 DEF SlotsHoldLastRound

\* Any other step that keeps the counters, the slots and the claims.
LEMMA SlotsFrame ==
  ASSUME TypeOK, SlotsHoldLastRound, UNCHANGED <<next_ptr, item>>,
         \A p \in Producer :
           /\ pc'[p] = "commit" <=> pc[p] = "commit"
           /\ pc'[p] \in {"claim", "scan", "write"} =>
                claimed'[p] = next_ptr \/ (claimed'[p] = claimed[p] /\ pc[p] \in {"claim", "scan", "write"})
           /\ pc'[p] = "commit" => claimed'[p] = claimed[p]
  PROVE  SlotsHoldLastRound'
  <1>1. Written' = Written
    BY DEF Written
  <1> QED
    BY <1>1 DEF SlotsHoldLastRound, SoleProducer

LEMMA SlotsStep ==
  ASSUME TypeOK, RingUp, SlotsHoldLastRound, [Next]_vars
  PROVE  SlotsHoldLastRound'
  <1>0. CASE ~SoleProducer
    BY <1>0 DEF SlotsHoldLastRound, SoleProducer
  <1> SUFFICES ASSUME SoleProducer PROVE SlotsHoldLastRound'
    BY <1>0
  <1>1. CASE UNCHANGED vars
    BY <1>1, SlotsFrame DEF vars, ring, plocal
  <1>2. ASSUME NEW x \in Proc,
               \/ Open(x) \/ Compare(x) \/ InitMagic(x) \/ InitFields(x)
               \/ OverrunEnable(x) \/ OverrunDisable(x)
        PROVE  SlotsHoldLastRound'
    BY <1>2, OpenFrame, SlotsFrame DEF Proc
  <1>3. ASSUME NEW p \in Producer,
               \/ ProducerJoin(p) \/ ProducerClaim(p) \/ ClaimTest(p) \/ ClaimScan(p)
               \/ CommitCursor(p) \/ ProducerFree(p) \/ ProducerFreeLast(p)
        PROVE  SlotsHoldLastRound'
    <2>1. UNCHANGED <<next_ptr, item>>
      BY <1>3 DEF ProducerJoin, ProducerClaim, ClaimTest, ClaimScan, CommitCursor,
                  ProducerFree, ProducerFreeLast, ring
    <2>2. ASSUME NEW q \in Producer
          PROVE  /\ pc'[q] = "commit" <=> pc[q] = "commit"
                 /\ pc'[q] \in {"claim", "scan", "write"} =>
                      \/ claimed'[q] = next_ptr
                      \/ claimed'[q] = claimed[q] /\ pc[q] \in {"claim", "scan", "write"}
                 /\ pc'[q] = "commit" => claimed'[q] = claimed[q]
      BY <1>3 DEF ProducerJoin, ProducerClaim, ClaimTest, ClaimScan, CommitCursor, ProducerFree,
                  ProducerFreeLast, plocal, Goto, TypeOK, ControlOK, Proc
    <2> QED
      BY <2>1, <2>2, SlotsFrame
  <1>4. ASSUME NEW p \in Producer, ProducerWrite(p) PROVE SlotsHoldLastRound'
    BY <1>4, SlotsWrite
  <1>5. ASSUME NEW p \in Producer, CommitNext(p) PROVE SlotsHoldLastRound'
    <2>1. /\ next_ptr' = next_ptr + 1
          /\ UNCHANGED item
          /\ pc[p] = "commit" /\ pc'[p] = "commit_cursor"
          /\ \A q \in Producer : q = p
      BY <1>5 DEF CommitNext, Goto, SoleProducer, TypeOK, ControlOK, Proc
    <2>2. Written' = Written
      BY <2>1 DEF Written, TypeOK
    <2> QED
      BY <2>1, <2>2 DEF SlotsHoldLastRound
  <1>6. ASSUME NEW c \in Consumer,
               \/ ConsumerJoin(c) \/ ConsumerSetCursor(c) \/ ConsumerFixCursor(c)
               \/ ConsumerGet(c) \/ ConsumerGetIdx(c) \/ ConsumerGetInc(c)
               \/ \E pos \in SeekPos : ConsumerSetPos(c, pos)
               \/ ConsumerSetPosLoad(c) \/ ConsumerSetPosSwap(c) \/ ConsumerFree(c) \/ ConsumerFreeCursor(c)
        PROVE  SlotsHoldLastRound'
    BY <1>6, ConsumerFrame, SlotsFrame DEF ring
  <1> QED
    BY <1>1, <1>2, <1>3, <1>4, <1>5, <1>6, NextCases

\* What the slots hold and what the consumers were handed fit together.
LEMMA IntactFromInv ==
  ASSUME TypeOK, PositionInv, SlotsHoldLastRound
  PROVE  ItemIntact
  <1> SUFFICES ASSUME SoleProducer, NEW c \in Consumer, held[c] >= 0
               PROVE  /\ item[held[c] % Slots] >= held[c]
                      /\ ~Lapped(held[c]) => item[held[c] % Slots] = held[c]
    BY DEF ItemIntact
  <1>1. held[c] \in Nat /\ held[c] < next_ptr /\ next_ptr \in Nat
    BY CursorBelowNext DEF PositionInv, NeverAhead, TypeOK
  <1>2. held[c] < Written
    BY <1>1 DEF Written
  <1>3. ~Lapped(held[c]) => Written <= held[c] + Slots
    BY <1>1, UllcConstants DEF Written, Lapped
  <1> QED
    BY <1>1, <1>2, <1>3 DEF SlotsHoldLastRound

---------------------------------------------------------------------------------
\* What holds whatever positions consumers ask for ...
RingInv ==
  TypeOK /\ RingUp /\ cursor >= -1 /\ CommitWindow /\ CursorExclusive /\ SlotsHoldLastRound

\* ... and what holds if nobody asks for a position below -1.
UllcInv == RingInv /\ PositionInv

LEMMA UllcInvInit == Init => UllcInv
  <1> SUFFICES ASSUME Init PROVE UllcInv
    OBVIOUS
  <1>1. TypeOK
    BY TypeInit
  <1>2. RingUp
    BY DEF Init, RingUp, InitLabel
  <1>3. PositionInv
    <2>1. Committing = {}
      BY DEF Init, Committing, Proc
    <2>2. CommitWindow
      BY <2>1, FS_EmptySet DEF Init, CommitWindow, Committing
    <2> QED
      BY <2>2 DEF Init, NoOneAttached, PositionInv, NeverAhead, CursorExclusive, Owner, OpeningLabel,
             CursorsSettle, ConsumerChecked, Proc
  <1>4. SlotsHoldLastRound
    <2>1. Written = 0
      BY DEF Init, Written, Proc
    <2> QED
      BY <2>1 DEF Init, SlotsHoldLastRound, Proc
  <1> QED
    BY <1>1, <1>2, <1>3, <1>4 DEF UllcInv, RingInv, PositionInv

LEMMA RingInvStep == RingInv /\ [Next]_vars => RingInv'
  <1> SUFFICES ASSUME RingInv, [Next]_vars PROVE RingInv'
    OBVIOUS
  <1> USE DEF RingInv
  <1>1. TypeOK' /\ RingUp' /\ CommitWindow' /\ CursorExclusive' /\ SlotsHoldLastRound'
    BY TypeStep, RingUpStep, CommitWindowStep, ExclusiveStep, SlotsStep
  <1>2. cursor \in Int /\ cursor' \in Int
    BY <1>1 DEF TypeOK
  <1>3. cursor' >= cursor
    <2>1. CASE UNCHANGED vars
      BY <1>2, <2>1 DEF vars, ring
    <2> QED
      BY <1>2, <2>1, NextCases, OpenFrame, ProducerFrame, ConsumerFrame DEF ring
  <1> QED
    BY <1>1, <1>2, <1>3

LEMMA UllcInvStep == UllcInv /\ ForwardSeek /\ [Next]_vars => UllcInv'
  BY RingInvStep, PositionStep DEF UllcInv, RingInv

LEMMA RingInvariance == Spec => []RingInv
  <1>1. Init => RingInv
    BY UllcInvInit DEF UllcInv
  <1> QED
    BY <1>1, RingInvStep, PTL DEF Spec

LEMMA UllcInvariance == SeeksForward => (Spec => []UllcInv)
  <1> SUFFICES ASSUME SeeksForward PROVE Spec => []UllcInv
    OBVIOUS
  <1>1. ForwardSeek
    BY DEF SeeksForward, ForwardSeek
  <1>2. UllcInv /\ [Next]_vars => UllcInv'
    BY <1>1, UllcInvStep
  <1> QED
    BY <1>2, UllcInvInit, PTL DEF Spec

\* The counters of the ring differ by one plus the number of producers between
\* the two increments of ina_ullc_producer_commit.
THEOREM CommitWindowHolds == Spec => []CommitWindow
  <1>1. RingInv => CommitWindow
    BY DEF RingInv
  <1> QED
    BY <1>1, RingInvariance, PTL

\* If ina_ullc_consumer_set_pos is asked for -1 or for positions of the ring, no
\* consumer gets ahead of the producers, in spite of the late clearing of its
\* cursor word by ina_ullc_consumer_free of an earlier owner.
THEOREM NeverAheadHolds == SeeksForward => (Spec => []NeverAhead)
  <1>1. UllcInv => NeverAhead
    BY DEF UllcInv, PositionInv
  <1> QED
    BY <1>1, UllcInvariance, PTL

\* The swap of ina_ullc_consumer_new gives each cursor one owner.
THEOREM CursorExclusiveHolds == Spec => []CursorExclusive
  <1>1. RingInv => CursorExclusive
    BY DEF RingInv
  <1> QED
    BY <1>1, RingInvariance, PTL

\* With one producer a consumer that is not lapped looks at exactly the item
\* whose position it was handed by ina_ullc_consumer_get.
THEOREM ItemIntactHolds == SeeksForward => (Spec => []ItemIntact)
  <1>1. UllcInv => ItemIntact
    BY IntactFromInv DEF UllcInv, RingInv
  <1> QED
    BY <1>1, UllcInvariance, PTL

\* A step of an initialised ring takes no counter back.
LEMMA ForwardStep ==
  ASSUME RingInv, [Next]_vars
  PROVE  [RingForward]_vars
  <1> USE DEF RingInv
  <1>1. ASSUME NEW x \in Proc,
               \/ Open(x) \/ Compare(x) \/ InitMagic(x) \/ InitFields(x)
               \/ OverrunEnable(x) \/ OverrunDisable(x)
        PROVE  RingForward
    BY <1>1, OpenFrame DEF RingForward, TypeOK
  <1>2. ASSUME NEW p \in Producer,
               \/ ProducerJoin(p) \/ ProducerClaim(p) \/ ClaimTest(p) \/ ClaimScan(p)
               \/ ProducerWrite(p) \/ CommitNext(p) \/ ProducerFree(p) \/ ProducerFreeLast(p)
        PROVE  RingForward
    BY <1>2 DEF ProducerJoin, ProducerClaim, ClaimTest, ClaimScan, ProducerWrite, CommitNext,
                ProducerFree, ProducerFreeLast, ring, RingForward, TypeOK
  <1>3. ASSUME NEW p \in Producer, CommitCursor(p) PROVE RingForward
    <2>1. cursor' = cursor + 1 /\ next_ptr' = next_ptr /\ cursor \in Int /\ cursor >= -1
      BY <1>3 DEF CommitCursor, TypeOK
    <2>2. ASSUME SoleProducer PROVE item[(cursor + 1) % Slots] = cursor + 1
      <3>1. Committing = {p}
        BY <1>3, <2>2 DEF CommitCursor, SoleProducer, Committing
      <3>2. next_ptr = cursor + 2
        <4>1. Cardinality({p}) = 1
          BY FS_Singleton
        <4>2. next_ptr = cursor + 1 + Cardinality(Committing)
          BY DEF CommitWindow, Committing
        <4> QED
          BY <2>1, <3>1, <4>1, <4>2
      <3>3. Written = next_ptr
        BY <1>3, <2>2, <2>1, <3>2 DEF CommitCursor, SoleProducer, Written
      <3> QED
        BY <2>1, <2>2, <3>2, <3>3, UllcConstants DEF SlotsHoldLastRound
    <2> QED
      BY <2>1, <2>2 DEF RingForward, TypeOK
  <1>4. ASSUME NEW c \in Consumer,
               \/ ConsumerJoin(c) \/ ConsumerSetCursor(c) \/ ConsumerFixCursor(c)
               \/ ConsumerGet(c) \/ ConsumerGetIdx(c) \/ ConsumerGetInc(c)
               \/ \E pos \in SeekPos : ConsumerSetPos(c, pos)
               \/ ConsumerSetPosLoad(c) \/ ConsumerSetPosSwap(c) \/ ConsumerFree(c) \/ ConsumerFreeCursor(c)
        PROVE  RingForward
    BY <1>4, ConsumerFrame DEF RingForward, ring, TypeOK
  <1> QED
    BY <1>1, <1>2, <1>3, <1>4, NextCases

\* No step takes the counters of an initialised ring back, and the increment of
\* ring->cursor publishes an item that is in its slot.  That this also holds when
\* all producers leave and come back is because alive_producers is never raised: the
\* re-initialisation ina_ullc_producer_free announces never happens.
THEOREM RingMonotoneHolds == Spec => RingMonotone
  <1>1. RingInv /\ [Next]_vars => [RingForward]_vars
    BY ForwardStep
  <1> QED
    BY <1>1, RingInvariance, PTL DEF Spec, RingMonotone
---------------------------------------------------------------------------------
(* A ring that is created while others open it, and reset at any time.           *)

\* The key is stored right after the parameters.
KeyFollows ==
  version = VERSION => semkey = SEMKEY \/ \E y \in Proc : pc[y] = "init_semkey"

ResetInv == TypeOK /\ CursorExclusive /\ AttachedInitialised /\ KeyFollows

LEMMA ResetInit == InitStartup => ResetInv
  <1> SUFFICES ASSUME InitStartup PROVE ResetInv
    OBVIOUS
  <1>1. PICK creator \in Producer :
           pc = [x \in Proc |-> IF x = creator THEN "init" ELSE "down"]
    BY DEF InitStartup
  <1>2. \A x \in Proc : pc[x] \in {"init", "down"}
    BY <1>1
  <1>3. ControlOK
    BY <1>1 DEF ControlOK, ProducerLabel, ConsumerLabel, OpeningLabel, InitLabel, Proc
  <1>4. TypeOK
    BY <1>3, UllcConstants
    DEF InitStartup, NoOneAttached, TypeOK, CSlot, Pos, Proc, OVERRUN, INT64_MAX, MAGIC_HDR, VERSION, SEMKEY
  <1>5. CursorExclusive
    BY <1>2 DEF CursorExclusive, Owner, OpeningLabel, InitLabel, Proc
  <1> QED BY <1>2, <1>4, <1>5 DEF ResetInv, AttachedInitialised, KeyFollows, OpeningLabel, InitLabel, InitStartup, VERSION

\* The parameters and the key are stored and never taken away; an opener that finds
\* magic set and no parameters yet is turned away.
LEMMA AttachedStep ==
  ASSUME TypeOK, AttachedInitialised, KeyFollows, [Next]_vars
  PROVE  AttachedInitialised' /\ KeyFollows'
  <1>0. pc \in [Proc -> ProducerLabel \cup ConsumerLabel]
    BY DEF TypeOK, ControlOK
  <1>1. CASE UNCHANGED vars
    BY <1>1 DEF vars, ring, AttachedInitialised, KeyFollows
  <1>2. ASSUME NEW x \in Proc, Open(x) \/ InitMagic(x) \/ InitFields(x) \/ Compare(x)
        PROVE  AttachedInitialised' /\ KeyFollows'
    <2> USE <1>0 DEF AttachedInitialised, KeyFollows, Goto, OpeningLabel, InitLabel
    <2>1. CASE Open(x) \/ InitMagic(x)
      BY <2>1 DEF Open, InitMagic, ring
    <2>2. CASE InitOverrun(x) \/ InitCursor(x) \/ InitNextPtr(x) \/ InitAlive(x)
      BY <2>2 DEF InitOverrun, InitCursor, InitNextPtr, InitAlive
    <2>3. CASE InitParams(x)
      BY <2>3 DEF InitParams
    <2>4. CASE InitSemkey(x)
      BY <2>4 DEF InitSemkey
    <2>5. CASE Compare(x)
      BY <2>5 DEF Compare, ring
    <2> QED BY <1>2, <2>1, <2>2, <2>3, <2>4, <2>5 DEF InitFields
  <1>3. ASSUME NEW x \in Proc, OverrunEnable(x) \/ OverrunDisable(x)
        PROVE  AttachedInitialised' /\ KeyFollows'
    BY <1>3 DEF OverrunEnable, OverrunDisable, AttachedInitialised, KeyFollows
  <1>4. ASSUME NEW x \in Proc, pc[x] \notin OpeningLabel, UNCHANGED <<version, semkey>>,
               \A y \in Proc \ {x} : pc'[y] = pc[y]
        PROVE  AttachedInitialised' /\ KeyFollows'
    BY <1>0, <1>4 DEF AttachedInitialised, KeyFollows, OpeningLabel, InitLabel
  <1>5. ASSUME NEW p \in Producer,
               \/ ProducerJoin(p) \/ ProducerClaim(p) \/ ClaimTest(p) \/ ClaimScan(p)
               \/ ProducerWrite(p) \/ CommitNext(p) \/ CommitCursor(p)
               \/ ProducerFree(p) \/ ProducerFreeLast(p)
        PROVE  AttachedInitialised' /\ KeyFollows'
    <2>1. /\ p \in Proc /\ pc[p] \notin OpeningLabel /\ UNCHANGED <<version, semkey>>
          /\ \A y \in Proc \ {p} : pc'[y] = pc[y]
      BY <1>0, <1>5
      DEF ProducerJoin, ProducerClaim, ClaimTest, ClaimScan, ProducerWrite,
          CommitNext, CommitCursor, ProducerFree, ProducerFreeLast, ring, Goto,
          OpeningLabel, InitLabel, Proc
    <2> QED BY <1>4, <2>1
  <1>6. ASSUME NEW c \in Consumer,
               \/ ConsumerJoin(c) \/ ConsumerSetCursor(c) \/ ConsumerFixCursor(c)
               \/ ConsumerGet(c) \/ ConsumerGetIdx(c) \/ ConsumerGetInc(c)
               \/ \E pos \in SeekPos : ConsumerSetPos(c, pos)
               \/ ConsumerSetPosLoad(c) \/ ConsumerSetPosSwap(c) \/ ConsumerFree(c) \/ ConsumerFreeCursor(c)
        PROVE  AttachedInitialised' /\ KeyFollows'
    <2>1. /\ c \in Proc /\ pc[c] \notin OpeningLabel /\ UNCHANGED <<version, semkey>>
          /\ \A y \in Proc \ {c} : pc'[y] = pc[y]
      BY <1>0, <1>6
      DEF ConsumerJoin, ConsumerSetCursor, ConsumerFixCursor, ConsumerGet,
          ConsumerGetIdx, ConsumerGetInc, ConsumerSetPos, ConsumerSetPosLoad, ConsumerSetPosSwap,
          ConsumerFree, ConsumerFreeCursor, ring, Goto, OpeningLabel, InitLabel, Proc
    <2> QED BY <1>4, <2>1
  <1> QED
    BY <1>1, <1>2, <1>3, <1>5, <1>6, NextCases

LEMMA ResetStep == ResetInv /\ [Next \/ ResetRing]_vars => ResetInv'
  <1>1. ASSUME ResetInv, ResetRing PROVE ResetInv'
    BY <1>1 DEF ResetInv, ResetRing, TypeOK, ControlOK, CursorExclusive, Owner,
                AttachedInitialised, KeyFollows, table, plocal, clocal
  <1>2. ASSUME ResetInv, [Next]_vars PROVE ResetInv'
    BY <1>2, TypeStep, ExclusiveStep, AttachedStep DEF ResetInv
  <1> QED BY <1>1, <1>2

LEMMA ResetInvariance == SpecReset => []ResetInv
  BY ResetInit, ResetStep, PTL DEF SpecReset

\* The types also hold of a ring that is opened before its creator has initialised
\* it, and that ina_ullc_reset_ring marks for another initialisation at any time.
THEOREM TypeCorrectReset == SpecReset => []TypeOK
  <1>1. ResetInv => TypeOK
    BY DEF ResetInv
  <1> QED BY <1>1, ResetInvariance, PTL

\* No initialisation, whenever it comes, lets two consumers share a cursor: it
\* leaves the cursor tables alone.
THEOREM CursorExclusiveReset == SpecReset => []CursorExclusive
  <1>1. ResetInv => CursorExclusive
    BY DEF ResetInv
  <1> QED BY <1>1, ResetInvariance, PTL

\* No process gets past __ina_ullc_ring_create before the parameters it compares
\* are stored, although magic is stored before them; the semaphore key, which it
\* does not compare, may be missing until the first initialiser's last store.
THEOREM AttachedInitialisedHolds == SpecReset => []AttachedInitialised
  <1>1. ResetInv => AttachedInitialised
    BY DEF ResetInv
  <1> QED BY <1>1, ResetInvariance, PTL
---------------------------------------------------------------------------------
(* Everyone attached and nothing but the traffic.                                *)

LEMMA StreamingIsNext == NextStreaming => Next
  BY DEF NextStreaming, Next

LEMMA StreamingSeeks ==
  ASSUME TypeOK, [NextStreaming]_vars
  PROVE  ForwardSeek
  <1> SUFFICES ASSUME NEW c \in Consumer, NEW pos \in SeekPos, ConsumerSetPos(c, pos) PROVE FALSE
    BY DEF ForwardSeek
  <1>0. pc \in [Proc -> ProducerLabel \cup ConsumerLabel] /\ c \in Proc /\ c \notin Producer
    BY UllcConstants DEF TypeOK, ControlOK, Proc
  <1>1. pc[c] = "idle" /\ pc'[c] \in {"set_pos_load", "set_pos"}
    BY <1>0 DEF ConsumerSetPos, Goto
  <1>2. ASSUME NEW p \in Producer, ProducerStream(p) PROVE FALSE
    BY <1>0, <1>1, <1>2
    DEF ProducerStream, ProducerClaim, ClaimTest, ClaimScan, ProducerWrite, CommitNext,
        CommitCursor, Goto
  <1>3. ASSUME NEW d \in Consumer, ConsumerStream(d) PROVE FALSE
    BY <1>0, <1>1, <1>3 DEF ConsumerStream, ConsumerGet, ConsumerGetIdx, ConsumerGetInc, Goto
  <1> QED BY <1>1, <1>2, <1>3 DEF NextStreaming, vars

LEMMA StreamingInit == InitStreaming => UllcInv
  <1> SUFFICES ASSUME InitStreaming PROVE UllcInv
    OBVIOUS
  <1>1. /\ id \in [Proc -> CSlot]
        /\ \A c, d \in Consumer : id[c] = id[d] => c = d
        /\ \A p \in Producer : id[p] = 0
        /\ \A x \in Proc : pc[x] = "idle"
    BY DEF InitStreaming
  <1>2. TypeOK
    <2>1. ControlOK
      BY DEF InitStreaming, ControlOK, ProducerLabel, ConsumerLabel, Proc
    <2>2. /\ id \in [Proc -> Nat]
          /\ \A p \in Producer : id[p] < NumProducers
          /\ \A c \in Consumer : id[c] < NumConsumers
      BY <1>1, UllcConstants DEF CSlot, Proc
    <2> QED
      BY <2>1, <2>2, UllcConstants
      DEF InitStreaming, TypeOK, CSlot, Pos, OVERRUN, INT64_MAX, MAGIC_HDR, VERSION, SEMKEY
  <1>3. RingUp
    BY <1>1 DEF InitStreaming, RingUp, InitLabel
  <1>4. PositionInv
    <2>1. Committing = {}
      BY <1>1 DEF Committing, Proc
    <2>2. CommitWindow
      <3>1. cursor = -1 /\ next_ptr = 0
        BY DEF InitStreaming
      <3> QED BY <2>1, <3>1, FS_EmptySet DEF CommitWindow, Committing
    <2>3. CursorExclusive
      BY <1>1 DEF InitStreaming, CursorExclusive, Owner, Proc
    <2>4. CursorsSettle /\ NeverAhead
      BY DEF InitStreaming, CursorsSettle, NeverAhead
    <2>5. ConsumerChecked
      BY <1>1 DEF ConsumerChecked, Proc
    <2> QED
      BY <2>2, <2>3, <2>4, <2>5 DEF InitStreaming, PositionInv
  <1>5. SlotsHoldLastRound
    <2>1. Written = 0
      BY <1>1 DEF InitStreaming, Written, Proc
    <2> QED
      BY <1>1, <2>1 DEF SlotsHoldLastRound, Proc
  <1> QED
    BY <1>2, <1>3, <1>4, <1>5 DEF UllcInv, RingInv, PositionInv

\* Every consumer is attached, and stays so.
Attached == \A c \in Consumer : pc[c] \in {"idle", "get_idx", "get_inc"}

LEMMA AttachedStays ==
  ASSUME TypeOK, Attached, [NextStreaming]_vars
  PROVE  Attached'
  <1>0. pc \in [Proc -> ProducerLabel \cup ConsumerLabel] /\ Consumer \subseteq Proc
    BY DEF TypeOK, ControlOK, Proc
  <1>1. ASSUME NEW p \in Producer, ProducerStream(p) PROVE Attached'
    <2>1. \A c \in Consumer : c # p
      BY UllcConstants
    <2> QED
      BY <1>0, <1>1, <2>1
      DEF Attached, ProducerStream, ProducerClaim, ClaimTest, ClaimScan, ProducerWrite, CommitNext,
          CommitCursor, Goto
  <1>2. ASSUME NEW c \in Consumer, ConsumerStream(c) PROVE Attached'
    BY <1>0, <1>2 DEF Attached, ConsumerStream, ConsumerGet, ConsumerGetIdx, ConsumerGetInc, Goto
  <1>3. CASE UNCHANGED vars
    BY <1>3 DEF vars, Attached
  <1> QED BY <1>1, <1>2, <1>3 DEF NextStreaming

\* The cursor of each consumer, as the refinement mapping of Log has it.
Reading == [c \in Consumer |-> c_cursor[id[c]]]

\* A commit publishes, an increment of a consumer's cursor reads, and no other step
\* of the traffic shows.
LEMMA BroadcastStep ==
  ASSUME UllcInv, Attached, [NextStreaming]_vars
  PROVE  \/ cursor' = cursor + 1 /\ Reading' = Reading
         \/ \E c \in Consumer : /\ Reading[c] < cursor + 1
                                /\ Reading' = [Reading EXCEPT ![c] = @ + 1]
                                /\ cursor' = cursor
         \/ cursor' = cursor /\ Reading' = Reading
  <1> USE DEF UllcInv, RingInv
  <1>1. ASSUME NEW p \in Producer, ProducerStream(p)
        PROVE  (cursor' = cursor + 1 \/ cursor' = cursor) /\ Reading' = Reading
    BY <1>1 DEF ProducerStream, ProducerClaim, ClaimTest, ClaimScan, ProducerWrite, CommitNext,
                CommitCursor, ring, table, Reading
  <1>2. ASSUME NEW c \in Consumer, ConsumerGet(c) \/ ConsumerGetIdx(c)
        PROVE  cursor' = cursor /\ Reading' = Reading
    BY <1>2 DEF ConsumerGet, ConsumerGetIdx, ring, table, Reading
  <1>3. ASSUME NEW c \in Consumer, ConsumerGetInc(c)
        PROVE  /\ Reading[c] < cursor + 1
               /\ Reading' = [Reading EXCEPT ![c] = @ + 1]
               /\ cursor' = cursor
    <2>1. /\ pc[c] = "get_inc"
          /\ c_cursor' = [c_cursor EXCEPT ![id[c]] = @ + 1]
          /\ id' = id /\ cursor' = cursor
      BY <1>3 DEF ConsumerGetInc, ring
    <2>2. /\ cursor \in Int
          /\ c_cursor \in [CSlot -> Int]
          /\ \A d \in Consumer : id[d] \in CSlot
      BY IndexOK DEF TypeOK
    <2>3. c_cursor[id[c]] <= cursor
      BY <2>1 DEF PositionInv, ConsumerChecked
    <2>4. \A d \in Consumer : id[d] = id[c] => d = c
      BY DEF Attached, PositionInv, CursorExclusive, Owner, OpeningLabel, InitLabel
    <2>5. Reading[c] < cursor + 1
      BY <2>2, <2>3 DEF Reading
    <2>6. \A d \in Consumer :
            c_cursor'[id'[d]] = IF d = c THEN c_cursor[id[c]] + 1 ELSE c_cursor[id[d]]
      BY <2>1, <2>2, <2>4
    <2>7. Reading' = [Reading EXCEPT ![c] = @ + 1]
      BY <2>6 DEF Reading
    <2> QED BY <2>1, <2>5, <2>7
  <1>4. CASE UNCHANGED vars
    BY <1>4 DEF vars, ring, table, Reading
  <1> QED BY <1>1, <1>2, <1>3, <1>4 DEF NextStreaming, ConsumerStream

LEMMA StreamingInvariance == SpecStreaming => [](UllcInv /\ Attached)
  <1>1. InitStreaming => UllcInv /\ Attached
    <2>1. InitStreaming => Attached
      BY DEF InitStreaming, Attached, Proc
    <2> QED BY <2>1, StreamingInit
  <1>2. UllcInv /\ Attached /\ [NextStreaming]_vars => (UllcInv /\ Attached)'
    BY UllcInvStep, StreamingIsNext, StreamingSeeks, AttachedStays DEF UllcInv, RingInv
  <1> QED BY <1>1, <1>2, PTL DEF SpecStreaming

\* The same two for a ring to which everyone is attached from the start, with overrun
\* on or off: a consumer that is not lapped looks at its item, and a commit publishes
\* an item that is in its slot.
THEOREM StreamingItems == SpecStreaming => []ItemIntact /\ RingMonotone
  <1>1. UllcInv => ItemIntact
    BY IntactFromInv DEF UllcInv, RingInv
  <1>2. UllcInv /\ [NextStreaming]_vars => [RingForward]_vars
    BY ForwardStep, StreamingIsNext DEF UllcInv
  <1> QED BY <1>1, <1>2, StreamingInvariance, PTL DEF SpecStreaming, RingMonotone

\* The safety part of IsBroadcast, for any number of producers, consumers and slots:
\* each consumer that calls ina_ullc_consumer_get is handed the committed positions
\* in order, each once, none before its commit, and its cursor is moved by nobody
\* else.
THEOREM BroadcastSafe == SpecStreaming => Log!Safe
  <1>1. InitStreaming => Log!Init
    <2> SUFFICES ASSUME InitStreaming PROVE Log!Init
      OBVIOUS
    <2>1. \A c \in Consumer : id[c] \in CSlot
      BY DEF InitStreaming, Proc
    <2> QED BY <2>1 DEF InitStreaming, Log!Init
  <1>2. UllcInv /\ Attached /\ [NextStreaming]_vars => [Log!Next]_(Log!log)
    <2> SUFFICES ASSUME UllcInv, Attached, [NextStreaming]_vars
                 PROVE  [Log!Next]_(Log!log)
      OBVIOUS
    <2>1. cursor \in Int
      BY DEF UllcInv, RingInv, TypeOK
    <2>2. CASE cursor' = cursor + 1 /\ Reading' = Reading
      BY <2>1, <2>2 DEF Log!Next, Log!Publish, Reading
    <2>3. ASSUME NEW c \in Consumer, Reading[c] < cursor + 1,
                 Reading' = [Reading EXCEPT ![c] = @ + 1], cursor' = cursor
          PROVE  Log!Next
      BY <2>1, <2>3 DEF Log!Next, Log!Read, Reading
    <2>4. CASE cursor' = cursor /\ Reading' = Reading
      BY <2>4 DEF Log!log, Reading
    <2> QED BY <2>2, <2>3, <2>4, BroadcastStep
  <1> QED BY <1>1, <1>2, StreamingInvariance, PTL DEF SpecStreaming, Log!Safe
=================================================================================
