-------------------------- MODULE SharedMemoryProofs --------------------------
(***************************************************************************)
(* Proofs about SharedMemory, for every number of owners, guests, segments *)
(* and deaths: the types, the count in a segment is the number of its      *)
(* users and of the ones that died, a segment keeps its name while its     *)
(* owner is there, and no name is left behind.                             *)
(***************************************************************************)
EXTENDS SharedMemory, FiniteSetTheorems, TLAPS

Label == {"out", "retry", "truncate", "map", "undo", "inc", "attached", "unlink"}

\* A process that has got past shm_open has a segment open.
HasSegment == \A p \in Proc : pc[p] \notin {"out", "retry"} => h[p] \in Segment

Inv == TypeOK /\ HasSegment /\ RefExact

\* The sets of counted processes are finite, so their sizes can be compared.
LEMMA CountedFinite ==
  ASSUME NEW s
  PROVE  IsFiniteSet(Counted(s)) /\ Cardinality(Counted(s)) \in Nat
<1>1. IsFiniteSet(Proc)
  BY SharedMemoryAssumption, FS_Union DEF Proc
<1>2. Counted(s) \in SUBSET Proc
  BY DEF Counted
<1>3. IsFiniteSet(Counted(s))
  BY <1>1, <1>2, FS_Subset
<1> QED BY <1>3, FS_CardinalityType

\* Process p moves and the others do not.
Alone(p) == \A q \in Proc \ {p} : pc'[q] = pc[q] /\ h'[q] = h[q] /\ cf'[q] = cf[q]

\* A step of a process that is counted neither before nor after it.
LEMMA UncountedStep ==
  ASSUME NEW p \in Proc, Alone(p), pc[p] # "attached", pc'[p] # "attached", NEW s
  PROVE  Counted(s)' = Counted(s)
<1>1. ASSUME NEW q \in Proc
      PROVE  pc'[q] = "attached" /\ h'[q] = s <=> pc[q] = "attached" /\ h[q] = s
  BY <1>1 DEF Alone
<1> QED BY <1>1 DEF Counted

\* A process that moves from label to label keeps everybody else where they are.
LEMMA GotoMoves ==
  ASSUME TypeOK, NEW p \in Proc, NEW label, Goto(p, label), UNCHANGED <<cf, h>>
  PROVE  Alone(p) /\ pc'[p] = label /\ h'[p] = h[p]
BY DEF TypeOK, Goto, Alone

LEMMA LeaveMoves ==
  ASSUME TypeOK, NEW p \in Proc, NEW label, Leave(p, label)
  PROVE  Alone(p) /\ pc'[p] = label /\ h'[p] = 0 /\ cf'[p] = "open"
BY DEF TypeOK, Goto, Leave, Alone

\* What Goto and Leave do to the types.
LEMMA GotoType ==
  ASSUME TypeOK, NEW p \in Proc, NEW label \in Label, Goto(p, label)
  PROVE  pc' \in [Proc -> Label]
BY DEF TypeOK, Goto, Label

LEMMA LeaveType ==
  ASSUME TypeOK, NEW p \in Proc, NEW label \in Label, Leave(p, label)
  PROVE  /\ pc' \in [Proc -> Label]
         /\ h' \in [Proc -> Segment \cup {0}]
         /\ cf' \in [Proc -> {"open", "create", "excl"}]
BY DEF TypeOK, Goto, Leave, Label

LEMMA RetryType == ASSUME NEW p PROVE Retry(p) \in {"out", "retry"}
BY DEF Retry

\* HasSegment after a step of p that leaves it with a segment, or outside.
LEMMA SegmentStep ==
  ASSUME TypeOK, HasSegment, NEW p \in Proc, Alone(p),
         pc'[p] \in {"out", "retry"} \/ h'[p] \in Segment
  PROVE  HasSegment'
<1> SUFFICES ASSUME NEW q \in Proc, pc'[q] \notin {"out", "retry"}
             PROVE  h'[q] \in Segment
  BY DEF HasSegment
<1> QED BY DEF HasSegment, Alone
-------------------------------------------------------------------------------
\* A step of opening: p gets a segment or does not, nobody is counted, and no word
\* of a segment changes.
Uncounted(p) ==
  /\ ref' = ref
  /\ lost' = lost
  /\ Alone(p)
  /\ pc[p] # "attached"
  /\ pc'[p] # "attached"

LEMMA UncountedExact ==
  ASSUME RefExact, NEW p \in Proc, Uncounted(p)
  PROVE  RefExact'
<1>1. \A s \in Segment : Counted(s)' = Counted(s)
  BY UncountedStep DEF Uncounted
<1> QED BY <1>1 DEF RefExact, Uncounted

LEMMA OpenStep ==
  ASSUME TypeOK, HasSegment, NEW p \in Proc, pc[p] \in {"out", "retry"},
         NEW flags \in {"open", "create", "excl"}, NEW label \in {"map", "truncate"},
         Open(p, flags, label) \/ Create(p, flags, label)
  PROVE  TypeOK' /\ HasSegment' /\ Uncounted(p)
<1>1. pc' = [pc EXCEPT ![p] = label]
  BY DEF Open, Create, Goto
<1>2. PICK s \in Segment : h' = [h EXCEPT ![p] = s]
  BY SharedMemoryAssumption DEF Open, Create, TypeOK, Segment
<1>3. cf' = [cf EXCEPT ![p] = flags]
  BY DEF Open, Create
<1>4. /\ name' \in Segment \cup {0}
      /\ made' \in 0 .. MaxSegments
      /\ UNCHANGED <<use, sized, ref, lost, crashed, orderly, deaths>>
  BY SharedMemoryAssumption DEF Open, Create, TypeOK, Segment, history
<1>5. TypeOK'
  BY <1>1, <1>2, <1>3, <1>4 DEF TypeOK
<1>6. Uncounted(p) /\ h'[p] \in Segment
  BY <1>1, <1>2, <1>3, <1>4 DEF TypeOK, Uncounted, Alone
<1>7. HasSegment'
  BY <1>6, SegmentStep DEF Uncounted
<1> QED BY <1>5, <1>6, <1>7

\* A step of opening that only moves p on, with what it has.
LEMMA MoveStep ==
  ASSUME TypeOK, HasSegment, NEW p \in Proc, NEW label \in Label,
         Goto(p, label), pc[p] # "attached", label # "attached",
         pc[p] \notin {"out", "retry"} \/ label \in {"out", "retry"},
         UNCHANGED <<use, name, made, ref, cf, h, history>>,
         sized' \in SUBSET Segment
  PROVE  TypeOK' /\ HasSegment' /\ Uncounted(p)
<1>1. pc' \in [Proc -> Label]
  BY GotoType
<1>2. Alone(p) /\ pc'[p] = label /\ h'[p] = h[p]
  BY GotoMoves
<1>3. TypeOK'
  BY <1>1 DEF TypeOK, Label, history
<1>4. HasSegment'
  BY <1>2, SegmentStep DEF HasSegment
<1> QED BY <1>2, <1>3, <1>4 DEF Uncounted, history

\* A step in which p gives up what it has open, and nobody was counted.
LEMMA LeaveStep ==
  ASSUME TypeOK, HasSegment, NEW p \in Proc, NEW label \in {"out", "retry"},
         Leave(p, label), pc[p] # "attached",
         name' \in Segment \cup {0},
         crashed' \in SUBSET Segment,
         orderly' \in {"yes", "no"},
         deaths' \in 0 .. MaxDeaths,
         UNCHANGED <<use, made, sized, ref, lost>>
  PROVE  TypeOK' /\ HasSegment' /\ Uncounted(p)
<1>1. label \in Label
  BY DEF Label
<1>2. /\ pc' \in [Proc -> Label]
      /\ h' \in [Proc -> Segment \cup {0}]
      /\ cf' \in [Proc -> {"open", "create", "excl"}]
  BY <1>1, LeaveType
<1>3. Alone(p) /\ pc'[p] = label /\ h'[p] = 0
  BY LeaveMoves
<1>4. TypeOK'
  BY <1>2 DEF TypeOK, Label
<1>5. HasSegment'
  BY <1>3, SegmentStep
<1> QED BY <1>3, <1>4, <1>5 DEF Uncounted
-------------------------------------------------------------------------------
\* The steps before a process is counted, and those after it was taken off.
Outside(p) ==
  \/ OpenGuest(p) \/ OpenOwner(p) \/ OpenAgain(p)
  \/ Truncate(p) \/ Map(p) \/ Undo(p) \/ Fault(p) \/ Unlink(p)

LEMMA OutsideStep ==
  ASSUME TypeOK, HasSegment, NEW p \in Proc, Outside(p)
  PROVE  TypeOK' /\ HasSegment' /\ Uncounted(p)
<1>1. CASE OpenGuest(p)
  BY <1>1, OpenStep DEF OpenGuest
<1>2. CASE OpenOwner(p)
  <2>1. CASE Create(p, "excl", "truncate")
    BY <1>2, <2>1, OpenStep DEF OpenOwner
  <2>2. CASE Goto(p, "retry") /\ UNCHANGED <<use, name, made, sized, ref, cf, h, history>>
    <3>1. "retry" \in Label /\ sized' \in SUBSET Segment /\ pc[p] = "out"
      BY <1>2, <2>2 DEF Label, TypeOK, OpenOwner
    <3> QED BY <2>2, <3>1, MoveStep
  <2> QED BY <1>2, <2>1, <2>2 DEF OpenOwner
<1>3. CASE OpenAgain(p)
  BY <1>3, OpenStep DEF OpenAgain
<1>4. CASE Truncate(p)
  <2>1. PICK label \in {"map", "undo"} : Goto(p, label)
    BY <1>4 DEF Truncate
  <2>2. label \in Label /\ pc[p] = "truncate" /\ UNCHANGED <<use, name, made, ref, cf, h, history>>
    BY <1>4, <2>1 DEF Truncate, Label
  <2>3. h[p] \in Segment
    BY <2>2 DEF HasSegment
  <2>4. sized' \in SUBSET Segment
    BY <1>4, <2>3 DEF Truncate, TypeOK
  <2> QED BY <2>1, <2>2, <2>4, MoveStep
<1>5. CASE Map(p)
  <2>1. pc[p] = "map" /\ UNCHANGED <<use, name, made, sized, ref, history>>
    BY <1>5 DEF Map
  <2>2. sized' \in SUBSET Segment
    BY <2>1 DEF TypeOK
  <2>3. ASSUME NEW label \in {"inc", "undo"}, Goto(p, label), UNCHANGED <<cf, h>>
        PROVE  TypeOK' /\ HasSegment' /\ Uncounted(p)
    <3>1. label \in Label
      BY DEF Label
    <3> QED BY <2>1, <2>2, <2>3, <3>1, MoveStep
  <2>4. CASE Leave(p, Retry(p))
    <3>1. /\ name' \in Segment \cup {0}
          /\ crashed' \in SUBSET Segment
          /\ orderly' \in {"yes", "no"}
          /\ deaths' \in 0 .. MaxDeaths
          /\ UNCHANGED <<use, made, sized, ref, lost>>
      BY <2>1 DEF TypeOK, history
    <3> QED BY <2>1, <2>4, <3>1, RetryType, LeaveStep
  <2> QED BY <1>5, <2>3, <2>4 DEF Map
<1>6. CASE Undo(p)
  <2>1. /\ pc[p] = "undo"
        /\ Leave(p, Retry(p))
        /\ name' \in Segment \cup {0}
        /\ crashed' \in SUBSET Segment
        /\ orderly' \in {"yes", "no"}
        /\ deaths' \in 0 .. MaxDeaths
        /\ UNCHANGED <<use, made, sized, ref, lost>>
    BY <1>6 DEF Undo, TypeOK, history
  <2> QED BY <2>1, RetryType, LeaveStep
<1>7. CASE Fault(p)
  <2>1. h[p] \in Segment
    BY <1>7 DEF Fault, HasSegment
  <2>2. /\ pc[p] = "inc"
        /\ Leave(p, "out")
        /\ name' \in Segment \cup {0}
        /\ crashed' \in SUBSET Segment
        /\ orderly' \in {"yes", "no"}
        /\ deaths' \in 0 .. MaxDeaths
        /\ UNCHANGED <<use, made, sized, ref, lost>>
    BY <1>7, <2>1 DEF Fault, TypeOK
  <2> QED BY <2>2, LeaveStep
<1>8. CASE Unlink(p)
  <2>1. /\ pc[p] = "unlink"
        /\ Leave(p, "out")
        /\ name' \in Segment \cup {0}
        /\ crashed' \in SUBSET Segment
        /\ orderly' \in {"yes", "no"}
        /\ deaths' \in 0 .. MaxDeaths
        /\ UNCHANGED <<use, made, sized, ref, lost>>
    BY <1>8 DEF Unlink, TypeOK, history
  <2> QED BY <2>1, LeaveStep
<1> QED BY <1>1, <1>2, <1>3, <1>4, <1>5, <1>6, <1>7, <1>8 DEF Outside
-------------------------------------------------------------------------------
\* p is counted in the segment it has open, and is not before.
LEMMA IncCounted ==
  ASSUME TypeOK, NEW p \in Proc, Inc(p), NEW s
  PROVE  /\ p \notin Counted(s)
         /\ Counted(s)' = IF s = h[p] THEN Counted(s) \cup {p} ELSE Counted(s)
<1>1. pc[p] = "inc" /\ Goto(p, "attached") /\ UNCHANGED <<cf, h>>
  BY DEF Inc
<1>2. Alone(p) /\ pc'[p] = "attached" /\ h'[p] = h[p]
  BY <1>1, GotoMoves
<1> QED BY <1>1, <1>2 DEF Counted, Alone

LEMMA IncStep ==
  ASSUME Inv, NEW p \in Proc, Inc(p)
  PROVE  Inv'
<1> USE DEF Inv
<1>1. /\ pc[p] = "inc"
      /\ h[p] \in Segment
      /\ ref' = [ref EXCEPT ![h[p]] = @ + 1]
      /\ Goto(p, "attached")
      /\ UNCHANGED <<use, name, made, sized, cf, h, history>>
  BY DEF Inc, HasSegment
<1>2. pc' \in [Proc -> Label]
  BY <1>1, GotoType DEF Label
<1>3. TypeOK'
  <2>1. ref' \in [Segment -> Nat]
    BY <1>1 DEF TypeOK
  <2> QED BY <1>1, <1>2, <2>1 DEF TypeOK, Label, history
<1>4. HasSegment'
  BY <1>1, GotoMoves, SegmentStep
<1>5. RefExact'
  <2> SUFFICES ASSUME NEW s \in Segment
               PROVE  ref'[s] = Cardinality(Counted(s)') + lost'[s]
    BY DEF RefExact
  <2>1. ref[s] = Cardinality(Counted(s)) + lost[s] /\ lost' = lost /\ lost[s] \in Nat /\ ref[s] \in Nat
    BY <1>1 DEF RefExact, TypeOK, history
  <2>2. ref'[s] = IF s = h[p] THEN ref[s] + 1 ELSE ref[s]
    BY <1>1 DEF TypeOK
  <2>3. Cardinality(Counted(s) \cup {p}) = Cardinality(Counted(s)) + 1
    BY CountedFinite, IncCounted, FS_AddElement
  <2>4. Counted(s)' = IF s = h[p] THEN Counted(s) \cup {p} ELSE Counted(s)
    BY IncCounted
  <2>5. Cardinality(Counted(s)) \in Nat
    BY CountedFinite
  <2>6. Cardinality(Counted(s)') = IF s = h[p] THEN Cardinality(Counted(s)) + 1
                                               ELSE Cardinality(Counted(s))
    BY <2>3, <2>4
  <2> QED BY <2>1, <2>2, <2>5, <2>6
<1> QED BY <1>3, <1>4, <1>5

\* A process that is counted stops being so, by closing or by dying.
LEMMA LeftCounted ==
  ASSUME NEW p \in Proc, pc[p] = "attached", pc'[p] # "attached", Alone(p), NEW s
  PROVE  /\ p \in Counted(s) <=> s = h[p]
         /\ Counted(s)' = IF s = h[p] THEN Counted(s) \ {p} ELSE Counted(s)
BY DEF Counted, Alone

\* The count of its segment is at least the process itself.
LEMMA LeftSize ==
  ASSUME NEW p \in Proc, pc[p] = "attached", pc'[p] # "attached", Alone(p), NEW s
  PROVE  /\ Cardinality(Counted(s)) \in Nat
         /\ Cardinality(Counted(s)') = IF s = h[p] THEN Cardinality(Counted(s)) - 1
                                                   ELSE Cardinality(Counted(s))
         /\ s = h[p] => Cardinality(Counted(s)) - 1 \in Nat
<1>1. IsFiniteSet(Counted(s)) /\ Cardinality(Counted(s)) \in Nat
  BY CountedFinite
<1>2. CASE s = h[p]
  <2>1. p \in Counted(s) /\ Counted(s)' = Counted(s) \ {p}
    BY <1>2, LeftCounted
  <2>2. IsFiniteSet(Counted(s) \ {p}) /\ Cardinality(Counted(s) \ {p}) = Cardinality(Counted(s)) - 1
    BY <1>1, <2>1, FS_RemoveElement
  <2>3. Cardinality(Counted(s) \ {p}) \in Nat
    BY <2>2, FS_CardinalityType
  <2> QED BY <1>1, <1>2, <2>1, <2>2, <2>3
<1>3. CASE s # h[p]
  BY <1>1, <1>3, LeftCounted
<1> QED BY <1>2, <1>3

LEMMA DecStep ==
  ASSUME Inv, NEW p \in Proc, Dec(p)
  PROVE  Inv'
<1> USE DEF Inv
<1>1. /\ pc[p] = "attached"
      /\ h[p] \in Segment
      /\ ref' = [ref EXCEPT ![h[p]] = ref[h[p]] - 1]
      /\ orderly' \in {"yes", "no"}
      /\ UNCHANGED <<use, name, made, sized, lost, crashed, deaths>>
  BY DEF Dec, HasSegment, TypeOK
<1>2. \/ Goto(p, "unlink") /\ UNCHANGED <<cf, h>>
      \/ Leave(p, "out")
  BY DEF Dec
<1>3. /\ pc' \in [Proc -> Label]
      /\ h' \in [Proc -> Segment \cup {0}]
      /\ cf' \in [Proc -> {"open", "create", "excl"}]
  <2>1. CASE Goto(p, "unlink") /\ UNCHANGED <<cf, h>>
    BY <2>1, GotoType DEF TypeOK, Label
  <2>2. CASE Leave(p, "out")
    BY <2>2, LeaveType DEF Label
  <2> QED BY <1>2, <2>1, <2>2
<1>4. Alone(p) /\ pc'[p] # "attached" /\ (pc'[p] = "out" \/ h'[p] \in Segment)
  BY <1>1, <1>2, GotoMoves, LeaveMoves
<1>5. HasSegment'
  BY <1>4, SegmentStep
<1>6. ASSUME NEW s \in Segment
      PROVE  ref'[s] \in Nat /\ ref'[s] = Cardinality(Counted(s)') + lost'[s]
  <2>1. ref[s] = Cardinality(Counted(s)) + lost[s] /\ lost' = lost /\ lost[s] \in Nat
    BY <1>1 DEF RefExact, TypeOK
  <2>2. ref'[s] = IF s = h[p] THEN ref[s] - 1 ELSE ref[s]
    BY <1>1 DEF TypeOK
  <2> QED BY <1>1, <1>4, <2>1, <2>2, LeftSize
<1>7. ref' \in [Segment -> Nat]
  BY <1>1, <1>6 DEF TypeOK
<1>8. TypeOK'
  BY <1>1, <1>3, <1>7 DEF TypeOK, Label
<1>9. RefExact'
  BY <1>6 DEF RefExact
<1> QED BY <1>5, <1>8, <1>9

LEMMA DieStep ==
  ASSUME Inv, NEW p \in Proc, Die(p)
  PROVE  Inv'
<1> USE DEF Inv
<1>1. /\ h[p] \in Segment
      /\ Leave(p, "out")
      /\ crashed' \in SUBSET Segment
      /\ orderly' \in {"yes", "no"}
      /\ deaths' \in 0 .. MaxDeaths
      /\ UNCHANGED <<use, name, made, sized, ref>>
  BY SharedMemoryAssumption DEF Die, TypeOK
<1>2. CASE pc[p] # "attached"
  <2>1. lost' = lost /\ name' \in Segment \cup {0}
    BY <1>1, <1>2 DEF Die, TypeOK
  <2>2. TypeOK' /\ HasSegment' /\ Uncounted(p)
    BY <1>1, <1>2, <2>1, LeaveStep
  <2> QED BY <2>2, UncountedExact
<1>3. CASE pc[p] = "attached"
  <2>1. lost' = [lost EXCEPT ![h[p]] = @ + 1]
    BY <1>3 DEF Die
  <2>2. Alone(p) /\ pc'[p] = "out"
    BY <1>1, LeaveMoves
  <2>3. /\ pc' \in [Proc -> Label]
        /\ h' \in [Proc -> Segment \cup {0}]
        /\ cf' \in [Proc -> {"open", "create", "excl"}]
    BY <1>1, LeaveType DEF Label
  <2>4. lost' \in [Segment -> Nat]
    BY <1>1, <2>1 DEF TypeOK
  <2>5. TypeOK'
    BY <1>1, <2>3, <2>4 DEF TypeOK, Label
  <2>6. HasSegment'
    BY <2>2, SegmentStep
  <2>7. ASSUME NEW s \in Segment
        PROVE  ref'[s] = Cardinality(Counted(s)') + lost'[s]
    <3>1. ref[s] = Cardinality(Counted(s)) + lost[s] /\ ref' = ref /\ lost[s] \in Nat
      BY <1>1 DEF RefExact, TypeOK
    <3>2. lost'[s] = IF s = h[p] THEN lost[s] + 1 ELSE lost[s]
      BY <2>1 DEF TypeOK
    <3> QED BY <1>3, <2>2, <3>1, <3>2, LeftSize
  <2> QED BY <2>5, <2>6, <2>7 DEF RefExact
<1> QED BY <1>2, <1>3
-------------------------------------------------------------------------------
LEMMA InitInv == Init => Inv
<1> SUFFICES ASSUME Init PROVE Inv
  OBVIOUS
<1>1. TypeOK
  BY SharedMemoryAssumption DEF Init, TypeOK, Segment
<1>2. HasSegment
  BY DEF Init, HasSegment
<1>3. \A s \in Segment : Counted(s) = {}
  BY DEF Init, Counted
<1>4. RefExact
  BY <1>3, FS_EmptySet DEF Init, RefExact
<1> QED BY <1>1, <1>2, <1>4 DEF Inv

LEMMA StepInv == Inv /\ [Next]_vars => Inv'
<1> SUFFICES ASSUME Inv, [Next]_vars PROVE Inv'
  OBVIOUS
<1>1. CASE UNCHANGED vars
  <2>1. TypeOK' /\ HasSegment'
    BY <1>1 DEF vars, proc, history, Inv, TypeOK, HasSegment
  <2>2. \A s \in Segment : Counted(s)' = Counted(s)
    BY <1>1 DEF vars, proc, Counted
  <2>3. RefExact'
    BY <1>1, <2>2 DEF vars, history, Inv, RefExact
  <2> QED BY <2>1, <2>3 DEF Inv
<1>2. CASE Next
  <2>1. PICK p \in Proc : Outside(p) \/ Inc(p) \/ Dec(p) \/ Die(p)
    BY <1>2 DEF Next, Outside
  <2>2. CASE Outside(p)
    <3>1. TypeOK' /\ HasSegment' /\ Uncounted(p)
      BY <2>2, OutsideStep DEF Inv
    <3> QED BY <3>1, UncountedExact DEF Inv
  <2> QED BY <2>1, <2>2, IncStep, DecStep, DieStep
<1> QED BY <1>1, <1>2

\* Types, handles and counts at every step.
THEOREM InvHolds == Spec => []Inv
BY InitInv, StepInv, PTL DEF Spec

\* Whatever processes open, close, fail and die, every variable keeps its type; in
\* particular __ina_shm_close never takes the count of a segment below zero.
THEOREM TypeCorrect == Spec => []TypeOK
<1>1. Inv => TypeOK
  BY DEF Inv
<1> QED BY <1>1, InvHolds, PTL

\* The count in the first word of a segment is the number of processes attached to
\* it and of those that died attached, at every step of __ina_shm_open and
\* __ina_shm_close of any number of processes.
THEOREM RefExactHolds == Spec => []RefExact
<1>1. Inv => RefExact
  BY DEF Inv
<1> QED BY <1>1, InvHolds, PTL
-------------------------------------------------------------------------------
(* The name.  An exclusive owner is the one that will remove it.             *)

Owning(p) == cf[p] = "excl" /\ pc[p] \notin {"out", "retry"}

\* ftruncate and the removal after a failure are the exclusive owner's.
OwnerOnly == \A p \in Proc : pc[p] \in {"truncate", "undo"} => cf[p] = "excl"

\* The name, and what has or is to get a size, are segments that were made.
MadeOnly == /\ name \in 0 .. made
            /\ sized \subseteq 1 .. made
            /\ \A p \in Proc : pc[p] = "truncate" => h[p] \in 1 .. made

\* A segment that has a size and a name has an owner, unless a process died on it.
OwnerThere ==
  name \in sized /\ name \notin crashed => \E p \in Proc : Owning(p) /\ h[p] = name

\* As long as nobody outlived an owner: there is one owner at most, the name is
\* that of its segment, and nobody else is about to remove it.
OwnerNamed ==
  orderly = "yes" =>
    /\ \A p \in Proc : Owning(p) => h[p] = name
    /\ \A p, q \in Proc : Owning(p) /\ Owning(q) => p = q
    /\ \A p \in Proc : pc[p] = "unlink" => cf[p] = "excl"

NameInv == OwnerOnly /\ MadeOnly /\ OwnerThere /\ OwnerNamed

\* A step of p that leaves the name alone and makes p neither an owner nor stop it
\* being one.
LEMMA KeepStep ==
  ASSUME NameInv, NEW p \in Proc, Alone(p),
         UNCHANGED <<name, made, sized, crashed>>,
         orderly' \in {orderly, "no"},
         Owning(p)' <=> Owning(p),
         Owning(p) => h'[p] = h[p],
         pc'[p] # "truncate",
         pc'[p] = "undo" => cf'[p] = "excl",
         orderly' = "yes" /\ pc'[p] = "unlink" => cf'[p] = "excl"
  PROVE  NameInv'
<1> USE DEF NameInv
<1>1. \A q \in Proc : (Owning(q)' <=> Owning(q)) /\ (Owning(q) => h'[q] = h[q])
  BY DEF Owning, Alone
<1>2. OwnerOnly'
  BY DEF OwnerOnly, Alone
<1>3. MadeOnly'
  BY DEF MadeOnly, Alone
<1>4. OwnerThere'
  BY <1>1 DEF OwnerThere
<1>5. OwnerNamed'
  <2> SUFFICES ASSUME orderly' = "yes" PROVE OwnerNamed'
    BY DEF OwnerNamed
  <2>1. orderly = "yes"
    OBVIOUS
  <2>2. \A q \in Proc : Owning(q)' => h'[q] = name'
    BY <1>1, <2>1 DEF OwnerNamed
  <2>3. \A q, x \in Proc : Owning(q)' /\ Owning(x)' => q = x
    BY <1>1, <2>1 DEF OwnerNamed
  <2>4. \A q \in Proc : pc'[q] = "unlink" => cf'[q] = "excl"
    BY <2>1 DEF OwnerNamed, Alone
  <2> QED BY <2>2, <2>3, <2>4 DEF OwnerNamed
<1> QED BY <1>2, <1>3, <1>4, <1>5

\* shm_open makes a segment: there was no name, hence no owner.
LEMMA CreateStep ==
  ASSUME TypeOK, HasSegment, NameInv, NEW p \in Proc, pc[p] \in {"out", "retry"},
         NEW flags \in {"create", "excl"}, NEW label \in {"map", "truncate"},
         label = "truncate" => flags = "excl",
         Create(p, flags, label)
  PROVE  NameInv'
<1> USE DEF NameInv
<1>1. /\ name = 0
      /\ made \in Nat
      /\ made' = made + 1
      /\ name' = made + 1
      /\ pc'[p] = label
      /\ h'[p] = made + 1
      /\ cf'[p] = flags
      /\ UNCHANGED <<sized, crashed, orderly>>
      /\ Alone(p)
  BY DEF Create, Goto, TypeOK, history, Alone
<1>2. OwnerOnly'
  BY <1>1 DEF OwnerOnly, Alone
<1>3. MadeOnly' /\ name' \notin sized'
  BY <1>1 DEF MadeOnly, Alone
<1>4. OwnerThere'
  BY <1>3 DEF OwnerThere
<1>5. OwnerNamed'
  <2> SUFFICES ASSUME orderly' = "yes" PROVE OwnerNamed'
    BY DEF OwnerNamed
  <2>1. ASSUME NEW q \in Proc, Owning(q) PROVE FALSE
    <3>1. h[q] \in Segment /\ h[q] = name
      BY <1>1, <2>1 DEF Owning, HasSegment, OwnerNamed
    <3> QED BY <1>1, <3>1 DEF Segment
  <2>2. \A q \in Proc : Owning(q)' => q = p
    BY <1>1, <2>1 DEF Owning, Alone
  <2>3. \A q \in Proc : pc'[q] = "unlink" => cf'[q] = "excl"
    BY <1>1 DEF OwnerNamed, Alone
  <2> QED BY <1>1, <2>2, <2>3 DEF OwnerNamed
<1> QED BY <1>2, <1>3, <1>4, <1>5

\* shm_unlink, and p has nothing open any more.
LEMMA RemoveStep ==
  ASSUME TypeOK, NameInv, NEW p \in Proc, Alone(p),
         name' = 0,
         pc'[p] \in {"out", "retry"},
         orderly = "yes" => Owning(p),
         UNCHANGED <<made, sized, crashed, orderly>>
  PROVE  NameInv'
<1> USE DEF NameInv
<1>1. OwnerOnly'
  BY DEF OwnerOnly, Alone
<1>2. MadeOnly' /\ name' \notin sized'
  BY DEF MadeOnly, TypeOK, Alone
<1>3. OwnerThere'
  BY <1>2 DEF OwnerThere
<1>4. OwnerNamed'
  <2> SUFFICES ASSUME orderly' = "yes" PROVE OwnerNamed'
    BY DEF OwnerNamed
  <2>1. \A q \in Proc : ~Owning(q)'
    BY DEF OwnerNamed, Owning, Alone
  <2>2. \A q \in Proc : pc'[q] = "unlink" => cf'[q] = "excl"
    BY DEF OwnerNamed, Alone
  <2> QED BY <2>1, <2>2 DEF OwnerNamed
<1> QED BY <1>1, <1>2, <1>3, <1>4

\* p ends on its segment.
LEMMA EndStep ==
  ASSUME NameInv, NEW p \in Proc, Alone(p),
         pc'[p] = "out",
         crashed' = crashed \cup {h[p]},
         UNCHANGED <<name, made, sized, orderly>>
  PROVE  NameInv'
<1> USE DEF NameInv
<1>1. \A q \in Proc : Owning(q)' => Owning(q) /\ h'[q] = h[q]
  BY DEF Owning, Alone
<1>2. OwnerOnly' /\ MadeOnly'
  BY DEF OwnerOnly, MadeOnly, Alone
<1>3. OwnerThere'
  <2> SUFFICES ASSUME name' \in sized', name' \notin crashed'
               PROVE  \E q \in Proc : Owning(q)' /\ h'[q] = name'
    BY DEF OwnerThere
  <2>1. PICK q \in Proc : Owning(q) /\ h[q] = name
    BY DEF OwnerThere
  <2>2. q # p
    BY <2>1
  <2>3. Owning(q)' /\ h'[q] = name'
    BY <2>1, <2>2 DEF Owning, Alone
  <2> QED BY <2>3
<1>4. OwnerNamed'
  BY <1>1 DEF OwnerNamed, Alone
<1> QED BY <1>2, <1>3, <1>4

\* A process that releases a segment with its owner counted is not the last one.
LEMMA NotLast ==
  ASSUME Inv, NEW p \in Proc, NEW q \in Proc, p # q,
         p \in Counted(h[p]), q \in Counted(h[p]), h[p] \in Segment
  PROVE  ref[h[p]] - 1 # 0
<1> DEFINE C == Counted(h[p])
<1>1. IsFiniteSet(C) /\ Cardinality(C) \in Nat
  BY CountedFinite
<1>2. IsFiniteSet(C \ {p}) /\ Cardinality(C \ {p}) = Cardinality(C) - 1
  BY <1>1, FS_RemoveElement
<1>3. q \in C \ {p}
  OBVIOUS
<1> HIDE DEF C
<1>4. Cardinality(C \ {p}) # 0 /\ Cardinality(C \ {p}) \in Nat
  BY <1>2, <1>3, FS_EmptySet, FS_CardinalityType
<1>5. ref[h[p]] = Cardinality(C) + lost[h[p]] /\ lost[h[p]] \in Nat
  BY DEF Inv, RefExact, TypeOK, C
<1> QED BY <1>1, <1>2, <1>4, <1>5
-------------------------------------------------------------------------------
LEMMA NameStep ==
  ASSUME Inv, NameInv, NEW p \in Proc, Outside(p) \/ Inc(p) \/ Dec(p) \/ Die(p)
  PROVE  NameInv'
<1> USE DEF Inv
<1>1. ASSUME NEW flags \in {"open", "create"}, Open(p, flags, "map"), pc[p] \in {"out", "retry"}
      PROVE  NameInv'
  <2>1. /\ Alone(p)
        /\ pc'[p] = "map"
        /\ cf'[p] = flags
        /\ UNCHANGED <<name, made, sized, crashed, orderly>>
    BY <1>1 DEF Open, Goto, TypeOK, history, Alone
  <2>2. ~Owning(p) /\ ~Owning(p)'
    BY <1>1, <2>1 DEF Owning
  <2> QED BY <2>1, <2>2, KeepStep
<1>2. CASE OpenGuest(p)
  BY <1>1, <1>2 DEF OpenGuest
<1>3. CASE OpenOwner(p)
  <2>1. CASE Create(p, "excl", "truncate")
    BY <1>3, <2>1, CreateStep DEF OpenOwner
  <2>2. CASE Goto(p, "retry") /\ UNCHANGED <<use, name, made, sized, ref, cf, h, history>>
    <3>1. Alone(p) /\ pc'[p] = "retry" /\ pc[p] = "out"
      BY <1>3, <2>2, GotoMoves DEF OpenOwner
    <3>2. ~Owning(p) /\ ~Owning(p)'
      BY <3>1 DEF Owning
    <3> QED BY <2>2, <3>1, <3>2, KeepStep DEF history
  <2> QED BY <1>3, <2>1, <2>2 DEF OpenOwner
<1>4. CASE OpenAgain(p)
  <2>1. CASE Open(p, "create", "map")
    BY <1>1, <1>4, <2>1 DEF OpenAgain
  <2>2. CASE Create(p, "create", "map")
    BY <1>4, <2>2, CreateStep DEF OpenAgain
  <2> QED BY <1>4, <2>1, <2>2 DEF OpenAgain
<1>5. CASE Truncate(p)
  <2>1. PICK label \in {"map", "undo"} : Goto(p, label)
    BY <1>5 DEF Truncate
  <2>2. /\ pc[p] = "truncate"
        /\ sized' \in {sized, sized \cup {h[p]}}
        /\ UNCHANGED <<name, made, cf, h, crashed, orderly>>
    BY <1>5 DEF Truncate, history
  <2>3. Alone(p) /\ pc'[p] = label /\ h'[p] = h[p] /\ cf'[p] = cf[p] /\ cf[p] = "excl"
    BY <2>1, <2>2, GotoMoves DEF NameInv, OwnerOnly
  <2>4. \A q \in Proc : (Owning(q)' <=> Owning(q)) /\ h'[q] = h[q]
    BY <2>2, <2>3 DEF Owning, Alone
  <2>5. OwnerOnly'
    BY <2>3 DEF NameInv, OwnerOnly, Alone
  <2>6. MadeOnly'
    <3>1. h[p] \in 1 .. made
      BY <2>2 DEF NameInv, MadeOnly
    <3> QED BY <2>2, <2>3, <3>1 DEF NameInv, MadeOnly, Alone
  <2>7. OwnerThere'
    BY <2>2, <2>3, <2>4 DEF NameInv, OwnerThere, Owning
  <2>8. OwnerNamed'
    BY <2>2, <2>3, <2>4 DEF NameInv, OwnerNamed, Alone
  <2> QED BY <2>5, <2>6, <2>7, <2>8 DEF NameInv
<1>6. CASE Map(p)
  <2>1. pc[p] = "map" /\ UNCHANGED <<name, made, sized, crashed, orderly>>
    BY <1>6 DEF Map, history
  <2>2. CASE Goto(p, "inc") /\ UNCHANGED <<cf, h>>
    <3>1. Alone(p) /\ pc'[p] = "inc" /\ h'[p] = h[p] /\ cf'[p] = cf[p]
      BY <2>2, GotoMoves
    <3>2. Owning(p)' <=> Owning(p)
      BY <2>1, <3>1 DEF Owning
    <3> QED BY <2>1, <3>1, <3>2, KeepStep
  <2>3. CASE cf[p] = "excl" /\ Goto(p, "undo") /\ UNCHANGED <<cf, h>>
    <3>1. Alone(p) /\ pc'[p] = "undo" /\ h'[p] = h[p] /\ cf'[p] = "excl"
      BY <2>3, GotoMoves
    <3>2. Owning(p)' <=> Owning(p)
      BY <2>1, <2>3, <3>1 DEF Owning
    <3> QED BY <2>1, <3>1, <3>2, KeepStep
  <2>4. CASE cf[p] # "excl" /\ Leave(p, Retry(p))
    <3>1. Alone(p) /\ pc'[p] \in {"out", "retry"}
      BY <2>4, LeaveMoves, RetryType
    <3>2. ~Owning(p) /\ ~Owning(p)'
      BY <2>4, <3>1 DEF Owning
    <3> QED BY <2>1, <3>1, <3>2, KeepStep
  <2> QED BY <1>6, <2>2, <2>3, <2>4 DEF Map
<1>7. CASE Undo(p)
  <2>1. /\ pc[p] = "undo"
        /\ Leave(p, Retry(p))
        /\ name' = 0
        /\ UNCHANGED <<made, sized, crashed, orderly>>
    BY <1>7 DEF Undo, history
  <2>2. Alone(p) /\ pc'[p] \in {"out", "retry"}
    BY <2>1, LeaveMoves, RetryType
  <2>3. Owning(p)
    BY <2>1 DEF NameInv, OwnerOnly, Owning
  <2> QED BY <2>1, <2>2, <2>3, RemoveStep
<1>8. CASE Fault(p)
  <2>1. /\ Leave(p, "out")
        /\ crashed' = crashed \cup {h[p]}
        /\ UNCHANGED <<name, made, sized, orderly>>
    BY <1>8 DEF Fault
  <2> QED BY <2>1, LeaveMoves, EndStep
<1>9. CASE Unlink(p)
  <2>1. /\ pc[p] = "unlink"
        /\ Leave(p, "out")
        /\ name' = 0
        /\ UNCHANGED <<made, sized, crashed, orderly>>
    BY <1>9 DEF Unlink, history
  <2>2. Alone(p) /\ pc'[p] \in {"out", "retry"}
    BY <2>1, LeaveMoves
  <2>3. orderly = "yes" => Owning(p)
    BY <2>1 DEF NameInv, OwnerNamed, Owning
  <2> QED BY <2>1, <2>2, <2>3, RemoveStep
<1>10. CASE Inc(p)
  <2>1. pc[p] = "inc" /\ Goto(p, "attached") /\ UNCHANGED <<cf, h, name, made, sized, crashed, orderly>>
    BY <1>10 DEF Inc, history
  <2>2. Alone(p) /\ pc'[p] = "attached" /\ h'[p] = h[p] /\ cf'[p] = cf[p]
    BY <2>1, GotoMoves
  <2>3. Owning(p)' <=> Owning(p)
    BY <2>1, <2>2 DEF Owning
  <2> QED BY <2>1, <2>2, <2>3, KeepStep
<1>11. CASE Dec(p)
  <2>1. /\ pc[p] = "attached"
        /\ h[p] \in Segment
        /\ orderly' \in {orderly, "no"}
        /\ orderly' = "yes" => InOrder(p)
        /\ UNCHANGED <<name, made, sized, crashed>>
    BY <1>11 DEF Dec, HasSegment
  <2>2. CASE Goto(p, "unlink") /\ UNCHANGED <<cf, h>> /\ (ref[h[p]] - 1 = 0 \/ cf[p] = "excl")
    <3>1. Alone(p) /\ pc'[p] = "unlink" /\ h'[p] = h[p] /\ cf'[p] = cf[p]
      BY <2>2, GotoMoves
    <3>2. Owning(p)' <=> Owning(p)
      BY <2>1, <3>1 DEF Owning
    <3>3. orderly' = "yes" => cf[p] = "excl"
      <4> SUFFICES ASSUME orderly' = "yes", cf[p] # "excl" PROVE FALSE
        OBVIOUS
      <4>1. PICK q \in Counted(h[p]) : cf[q] = "excl"
        BY <2>1 DEF InOrder
      <4>2. q \in Proc /\ p # q /\ p \in Counted(h[p])
        BY <2>1, <4>1 DEF Counted
      <4> QED BY <2>1, <2>2, <4>1, <4>2, NotLast
    <3> QED BY <2>1, <3>1, <3>2, <3>3, KeepStep
  <2>3. CASE cf[p] # "excl" /\ Leave(p, "out")
    <3>1. Alone(p) /\ pc'[p] = "out"
      BY <2>3, LeaveMoves
    <3>2. ~Owning(p) /\ ~Owning(p)'
      BY <2>3, <3>1 DEF Owning
    <3> QED BY <2>1, <3>1, <3>2, KeepStep
  <2> QED BY <1>11, <2>2, <2>3 DEF Dec
<1>12. CASE Die(p)
  <2>1. /\ Leave(p, "out")
        /\ crashed' = crashed \cup {h[p]}
        /\ UNCHANGED <<name, made, sized, orderly>>
    BY <1>12 DEF Die
  <2> QED BY <2>1, LeaveMoves, EndStep
<1> QED BY <1>2, <1>3, <1>4, <1>5, <1>6, <1>7, <1>8, <1>9, <1>10, <1>11, <1>12 DEF Outside

LEMMA NameInit == Init => NameInv
BY DEF Init, NameInv, OwnerOnly, MadeOnly, OwnerThere, OwnerNamed, Owning

LEMMA NameNext == Inv /\ NameInv /\ [Next]_vars => NameInv'
<1> SUFFICES ASSUME Inv, NameInv, [Next]_vars PROVE NameInv'
  OBVIOUS
<1>1. CASE UNCHANGED vars
  <2>1. \A p \in Proc : Owning(p)' <=> Owning(p)
    BY <1>1 DEF vars, proc, Owning
  <2> QED BY <1>1, <2>1 DEF vars, proc, history, NameInv, OwnerOnly, MadeOnly, OwnerThere, OwnerNamed
<1>2. CASE Next
  <2>1. PICK p \in Proc : Outside(p) \/ Inc(p) \/ Dec(p) \/ Die(p)
    BY <1>2 DEF Next, Outside
  <2> QED BY <2>1, NameStep
<1> QED BY <1>1, <1>2

\* Who has the name and who will remove it, at every step.
THEOREM NameInvHolds == Spec => []NameInv
BY NameInit, NameNext, InvHolds, PTL DEF Spec

\* As long as nobody releases a segment after its exclusive owner did, or before
\* the owner was counted, the name is the owner's segment while the owner is
\* attached: no release, failure or death of another process takes it away.
THEOREM NameKeptHolds == Spec => []NameKept
<1>1. NameInv => NameKept
  BY DEF NameInv, OwnerNamed, Owning, NameKept, Proc
<1> QED BY <1>1, NameInvHolds, PTL

\* When everybody has left, no segment that got its size has kept its name, unless
\* a process died on it: __ina_shm_open and __ina_shm_close leave nothing behind
\* on any path.
THEOREM NoLeakHolds == Spec => []NoLeak
<1>1. NameInv => NoLeak
  BY DEF NameInv, OwnerThere, Owning, NoLeak
<1> QED BY <1>1, NameInvHolds, PTL
================================================================================
