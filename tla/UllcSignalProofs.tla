---------------------------- MODULE UllcSignalProofs ----------------------------
(***************************************************************************)
(* Proofs about UllcSignal, for any number of producers and any bounds:    *)
(* the types, with as many consumers as one likes, and that a waiting      *)
(* consumer is not forgotten when it is the only one.                      *)
(***************************************************************************)
EXTENDS UllcSignal, TLAPS

USE SignalConstants

\* One release is one token, so the promise is made to one consumer.
SoleConsumer == \A c, d \in Consumer : c = d

\* The steps of Next by name.
LEMMA NextCases ==
  ASSUME Next
  PROVE  \/ \E p \in Producer :
              SemCreate(p) \/ SemSetVal(p) \/ Commit(p) \/ SignalRelease(p)
         \/ \E c \in Consumer : SemOpen(c) \/ Get(c) \/ SWait(c)
         \/ \E x \in Proc : SemClose(x) \/ ProcessExit(x)
  BY DEF Next, ProducerStep

LEMMA TypeInit == Init => TypeOK
  BY DEF Init, TypeOK

LEMMA TypeStep == TypeOK /\ [Next]_vars => TypeOK'
  <1> SUFFICES ASSUME TypeOK, [Next]_vars PROVE TypeOK'
    OBVIOUS
  <1> USE DEF TypeOK, Goto
  <1>0. Producer \subseteq Proc /\ Consumer \subseteq Proc
    BY DEF Proc
  <1>1. ASSUME NEW p \in Producer, SemCreate(p) PROVE TypeOK'
    BY <1>0, <1>1 DEF SemCreate, SemGet
  <1>2. ASSUME NEW p \in Producer, SemSetVal(p) PROVE TypeOK'
    BY <1>0, <1>2 DEF SemSetVal, SetVal
  <1>3. ASSUME NEW p \in Producer, Commit(p) PROVE TypeOK'
    BY <1>0, <1>3 DEF Commit
  <1>4. ASSUME NEW p \in Producer, SignalRelease(p) PROVE TypeOK'
    BY <1>0, <1>4 DEF SignalRelease
  <1>5. ASSUME NEW c \in Consumer, SemOpen(c) PROVE TypeOK'
    BY <1>0, <1>5 DEF SemOpen
  <1>6. ASSUME NEW c \in Consumer, Get(c) PROVE TypeOK'
    BY <1>0, <1>6 DEF Get
  <1>7. ASSUME NEW c \in Consumer, SWait(c) PROVE TypeOK'
    BY <1>0, <1>7 DEF SWait
  <1>8. ASSUME NEW x \in Proc, SemClose(x) PROVE TypeOK'
    BY <1>8 DEF SemClose, RmId
  <1>10. ASSUME NEW x \in Proc, ProcessExit(x) PROVE TypeOK'
    BY <1>10 DEF ProcessExit, ExitAdjust
  <1>9. CASE UNCHANGED vars
    BY <1>9 DEF vars
  <1> QED BY <1>1, <1>2, <1>3, <1>4, <1>5, <1>6, <1>7, <1>8, <1>9, <1>10, NextCases

\* Every reachable state is well typed, for any number of producers and consumers:
\* in particular no order of release, wait, SETVAL and removal takes the value of
\* the semaphore below 0.
THEOREM TypeCorrect == Spec => []TypeOK
  BY TypeInit, TypeStep, PTL DEF Spec
---------------------------------------------------------------------------------
\* Identifiers are given out once, in order.
HandlesKnown ==
  /\ semid <= last
  /\ \A x \in Proc : handle[x] <= last

\* Until a second set is made next to a producer, every producer that is past
\* semget holds the set there is.
ProducersAgree ==
  split = "no" /\ semid # 0 => \A p \in Producer : pc[p] # "down" => handle[p] = semid

SignalInv == HandlesKnown /\ ProducersAgree /\ WakeUpPending

LEMMA SignalInit == Init => SignalInv
  BY DEF Init, SignalInv, HandlesKnown, ProducersAgree, WakeUpPending

LEMMA KnownStep ==
  ASSUME TypeOK, HandlesKnown, [Next]_vars
  PROVE  HandlesKnown'
  <1> USE DEF TypeOK, HandlesKnown
  <1>0. Producer \subseteq Proc /\ Consumer \subseteq Proc
    BY DEF Proc
  <1>1. ASSUME NEW p \in Producer, SemCreate(p) PROVE HandlesKnown'
    BY <1>0, <1>1 DEF SemCreate, SemGet
  <1>2. ASSUME NEW c \in Consumer, SemOpen(c) PROVE HandlesKnown'
    BY <1>0, <1>2 DEF SemOpen
  <1>3. ASSUME NEW x \in Proc, SemClose(x) PROVE HandlesKnown'
    BY <1>3 DEF SemClose, RmId
  <1>4. CASE UNCHANGED <<semid, last, handle>>
    BY <1>4
  <1> QED
    BY <1>1, <1>2, <1>3, <1>4, NextCases
    DEF SemSetVal, SetVal, Commit, SignalRelease, Get, SWait, ProcessExit, vars

LEMMA AgreeStep ==
  ASSUME TypeOK, HandlesKnown, ProducersAgree, [Next]_vars
  PROVE  ProducersAgree'
  <1> USE DEF TypeOK, ProducersAgree, Goto
  <1>0. Producer \subseteq Proc /\ Consumer \subseteq Proc
    BY DEF Proc
  <1>1. ASSUME NEW p \in Producer, SemCreate(p) PROVE ProducersAgree'
    BY <1>0, <1>1 DEF SemCreate, SemGet
  <1>2. ASSUME NEW p \in Producer, SemSetVal(p) \/ Commit(p) \/ SignalRelease(p)
        PROVE  ProducersAgree'
    BY <1>0, <1>2 DEF SemSetVal, Commit, SignalRelease, SetVal
  <1>3. ASSUME NEW c \in Consumer, SemOpen(c) \/ Get(c) \/ SWait(c)
        PROVE  ProducersAgree'
    BY <1>0, <1>3 DEF SemOpen, Get, SWait
  <1>4. ASSUME NEW x \in Proc, SemClose(x) PROVE ProducersAgree'
    BY <1>4 DEF SemClose, RmId, Valid
  <1>6. ASSUME NEW x \in Proc, ProcessExit(x) PROVE ProducersAgree'
    BY <1>6 DEF ProcessExit
  <1>5. CASE UNCHANGED vars
    BY <1>5 DEF vars
  <1> QED BY <1>1, <1>2, <1>3, <1>4, <1>5, <1>6, NextCases

\* Some call puts a token into the set.
Underway == \E p \in Producer : Valid(p) /\ pc[p] \in {"setval", "release"}

\* The only consumer goes to wait with nothing left to read.  From then on a
\* commit is followed by the release of a producer that holds the set, and a token
\* is taken by nobody else.
LEMMA WakeStep ==
  ASSUME SoleConsumer, TypeOK, HandlesKnown, ProducersAgree, WakeUpPending, [Next]_vars
  PROVE  WakeUpPending'
  <1> SUFFICES ASSUME split' = "no", ended' = "no", NEW c \in Consumer,
                      pc'[c] = "wait", Valid(c)', seen'[c] < items'
               PROVE  value' > 0 \/ Underway'
    BY DEF WakeUpPending, Underway
  <1> USE DEF Goto
  <1>0. /\ Producer \subseteq Proc /\ Consumer \subseteq Proc
        /\ \A p \in Producer : p # c
        /\ c \in Proc
    BY DEF Proc
  <1>t. /\ pc \in [Proc -> {"down", "setval", "up", "release", "wait"}]
        /\ handle \in [Proc -> 0 .. MaxSems]
        /\ seen \in [Consumer -> 0 .. MaxItems]
        /\ value \in Nat /\ items \in Nat /\ last \in Nat
        /\ undo \in [Proc -> Int]
    BY DEF TypeOK
  <1>w. split = "no" /\ ended = "no" /\ pc[c] = "wait" /\ Valid(c) /\ seen[c] < items
          => value > 0 \/ Underway
    BY DEF WakeUpPending, Underway
  <1>1. ASSUME NEW p \in Producer, SemCreate(p) PROVE value' > 0 \/ Underway'
    <2>1. pc[c] = "wait" /\ handle'[c] = handle[c] /\ seen[c] < items
      BY <1>0, <1>1, <1>t DEF SemCreate, SemGet
    <2>2. CASE semid # 0
      <3>1. split = "no" /\ Valid(c) /\ value' = value /\ semid' = semid
        BY <1>1, <2>1, <2>2 DEF SemCreate, SemGet, Valid
      <3>3. ended = "no"
        BY <1>1 DEF SemCreate
      <3>2. \A q \in Producer : pc[q] # "down" => pc'[q] = pc[q] /\ handle'[q] = handle[q]
        BY <1>0, <1>1, <1>t DEF SemCreate, SemGet
      <3> QED BY <1>w, <2>1, <3>1, <3>2, <3>3 DEF Underway, Valid
    <2>3. CASE semid = 0
      BY <1>0, <1>1, <1>t, <2>1, <2>3 DEF SemCreate, SemGet, Valid, HandlesKnown
    <2> QED BY <2>2, <2>3
  <1>2. ASSUME NEW p \in Producer, SemSetVal(p) PROVE value' > 0 \/ Underway'
    <2>1. CASE Valid(p)
      BY <1>2, <2>1 DEF SemSetVal, SetVal
    <2>2. CASE ~Valid(p)
      BY <1>0, <1>2, <1>t, <1>w, <2>2 DEF SemSetVal, SetVal, Underway, Valid
    <2> QED BY <2>1, <2>2
  <1>3. ASSUME NEW p \in Producer, Commit(p) PROVE value' > 0 \/ Underway'
    <2>1. semid # 0 /\ split = "no" /\ handle[p] = semid
      BY <1>0, <1>3, <1>t DEF Commit, Valid, ProducersAgree
    <2> QED BY <1>0, <1>3, <1>t, <2>1 DEF Commit, Valid, Underway
  <1>4. ASSUME NEW p \in Producer, SignalRelease(p) PROVE value' > 0 \/ Underway'
    <2>1. CASE Valid(p)
      BY <1>4, <1>t, <2>1 DEF SignalRelease
    <2>2. CASE ~Valid(p)
      BY <1>0, <1>4, <1>t, <1>w, <2>2 DEF SignalRelease, Underway, Valid
    <2> QED BY <2>1, <2>2
  <1>5. ASSUME NEW d \in Consumer, SemOpen(d) \/ Get(d) \/ SWait(d)
        PROVE  value' > 0 \/ Underway'
    <2>1. d = c
      BY DEF SoleConsumer
    <2> QED BY <1>0, <1>5, <1>t, <2>1, <1>w DEF SemOpen, Get, SWait, Underway, Valid
  <1>6. ASSUME NEW x \in Proc, SemClose(x) PROVE value' > 0 \/ Underway'
    BY <1>0, <1>6, <1>t, <1>w DEF SemClose, RmId, Valid, Underway
  <1>8. ASSUME NEW x \in Proc, ProcessExit(x) PROVE value' > 0 \/ Underway'
    <2>1. x \in Consumer
      BY <1>8 DEF ProcessExit, Proc
    <2>2. x = c
      BY <2>1 DEF SoleConsumer
    <2> QED BY <1>0, <1>8, <1>t, <2>2 DEF ProcessExit
  <1>7. CASE UNCHANGED vars
    BY <1>7, <1>w DEF vars, Underway, Valid
  <1> QED BY <1>1, <1>2, <1>3, <1>4, <1>5, <1>6, <1>7, <1>8, NextCases

\* No wake-up is lost: while the only consumer waits, or is about to, with an item
\* left to read, there is a token or a call under way that puts one there, for any
\* number of producers that come, leave, and set the value to 1 again, as long as
\* no second set is made next to a producer that holds the first, and no producer's
\* process ends attached without another one setting the value after it.
THEOREM WakeUpPendingHolds ==
  ASSUME SoleConsumer
  PROVE  Spec => []WakeUpPending
  <1> DEFINE Inv == TypeOK /\ SignalInv
  <1>1. Init => Inv
    BY TypeInit, SignalInit
  <1>2. Inv /\ [Next]_vars => Inv'
    BY TypeStep, KnownStep, AgreeStep, WakeStep DEF SignalInv
  <1>3. Inv => WakeUpPending
    BY DEF SignalInv
  <1> QED BY <1>1, <1>2, <1>3, PTL DEF Spec
=================================================================================
