------------------------------- MODULE IpcProofs -------------------------------
(***************************************************************************)
(* Proofs about the flags and the counters of src/ipc.c: about IpcFlags,   *)
(* for any number of flags, any counter width, any bound on references and *)
(* any number of calls, and about IpcCounter, for any width of the word and any      *)
(* number of processes.                                                    *)
(***************************************************************************)
EXTENDS IpcFlags, IpcCounter, TLAPS

LEMMA ModRange ==
  ASSUME NEW a \in Int, NEW n \in Nat \ {0}
  PROVE  a % n \in 0 .. n - 1
  OBVIOUS

LEMMA ModSmall ==
  ASSUME NEW a \in Nat, NEW n \in Nat, a < n
  PROVE  a % n = a
  OBVIOUS

LEMMA GotoWriter ==
  ASSUME ControlOK, NEW w \in Writer, NEW label \in WriterLabel, Goto(w, label)
  PROVE  ControlOK'
  BY FlagsConstants DEF ControlOK, Goto, Proc

LEMMA GotoWaiter ==
  ASSUME ControlOK, NEW x \in Waiter, NEW label \in WaiterLabel, Goto(x, label)
  PROVE  ControlOK'
  BY FlagsConstants DEF ControlOK, Goto, Proc

LEMMA TypeCall ==
  ASSUME TypeOK, NEW w \in Writer, NEW o \in {"set", "unset", "clear", "dump"},
         NEW m \in SUBSET Flag, Call(w, o, m)
  PROVE  TypeOK'
  <1>1. ControlOK'
    BY GotoWriter DEF TypeOK, Call, WriterLabel
  <1>2. due' \in [Flag -> 0 .. MaxRef]
    <2>1. \A i \in Flag :
            OnlyCaller(w) => (IF i \in m THEN After(o, due[i]) ELSE due[i]) \in 0 .. MaxRef
      BY FlagsConstants DEF TypeOK, Call, After
    <2> QED
      BY <2>1, FlagsConstants DEF Call
  <1> QED
    BY <1>1, <1>2, FlagsConstants DEF TypeOK, Call, Goto, shared, ControlOK, Proc, IndexOK

LEMMA TypeInCall ==
  ASSUME TypeOK, NEW w \in Writer, InCall(w)
  PROVE  TypeOK'
  <1> USE FlagsConstants DEF shared, locals
  <1>0. w \in Proc
    BY DEF Proc
  <1>1. ControlOK'
    <2>1. \/ UNCHANGED pc
          \/ \E label \in WriterLabel : Goto(w, label)
      BY DEF WriterLabel, InCall, EnterLock, Loop, SwapLoad, SwapLoad2, Swap, RefTest, RefLoad,
             RefStore, RefZero, ExitLock
    <2>2. CASE UNCHANGED pc
      BY <2>2 DEF TypeOK, ControlOK
    <2> QED
      BY <2>1, <2>2, GotoWriter DEF TypeOK
  <1>2. IndexOK'
    <2>0. pc \in [Proc -> WriterLabel \cup WaiterLabel] /\ w \in Proc /\ Writer \subseteq Proc
      BY DEF TypeOK, ControlOK, Proc
    <2>1. /\ op' \in [Writer -> {"set", "unset", "clear", "dump"}]
          /\ \A x \in Writer \ {w} : pc'[x] = pc[x] /\ op'[x] = op[x] /\ j'[x] = j[x]
      BY <2>0 DEF TypeOK, InCall, EnterLock, Loop, SwapLoad, SwapLoad2, Swap, RefTest, RefLoad,
                  RefStore, RefZero, ExitLock, Goto
    <2>2. \/ pc'[w] \in {"ref_test", "ref_load", "ref_store", "ref_zero"}
          \/ pc'[w] \in {"load", "load2", "swap"} /\ op'[w] # "set"
          => j'[w] \in Flag
      BY <2>0, SMTT(30) DEF TypeOK, IndexOK, InCall, EnterLock, Loop, SwapLoad, SwapLoad2, Swap, RefTest,
                  RefLoad, RefStore, RefZero, ExitLock, Goto, Flag
    <2> QED
      BY <2>1, <2>2 DEF IndexOK, TypeOK
  <1>3. j' \in [Writer -> 0 .. INA_IPC_FLAGS_MAX]
    <2>1. j[w] \in Flag => j[w] + 1 \in 0 .. INA_IPC_FLAGS_MAX
      BY DEF Flag
    <2>2. \/ j' = [j EXCEPT ![w] = 0]
          \/ j' = j
          \/ j' = [j EXCEPT ![w] = @ + 1] /\ j[w] \in Flag
      <3>1. j[w] \in 0 .. INA_IPC_FLAGS_MAX
        BY DEF TypeOK
      <3>2. \/ pc[w] \in {"ref_test", "ref_load", "ref_store", "ref_zero"}
            \/ pc[w] = "swap" /\ op[w] # "set"
            => j[w] \in Flag
        BY DEF TypeOK, IndexOK
      <3>3. CASE EnterLock(w) \/ ExitLock(w)
        BY <3>3 DEF EnterLock, ExitLock
      <3>4. CASE Loop(w)
        BY <3>1, <3>4 DEF Loop, Flag
      <3>5. CASE SwapLoad(w) \/ SwapLoad2(w) \/ RefLoad(w)
        BY <3>5 DEF SwapLoad, SwapLoad2, RefLoad
      <3>6. CASE Swap(w)
        BY <3>2, <3>6 DEF Swap
      <3>7. CASE RefTest(w)
        BY <3>2, <3>7 DEF RefTest
      <3>8. CASE RefStore(w)
        BY <3>2, <3>8 DEF RefStore
      <3>9. CASE RefZero(w)
        BY <3>2, <3>9 DEF RefZero
      <3> QED
        BY <3>3, <3>4, <3>5, <3>6, <3>7, <3>8, <3>9 DEF InCall
    <2> QED
      BY <2>1, <2>2 DEF TypeOK
  <1>4. c_ref' \in [Flag -> 0 .. UINT32_MOD - 1]
    <2>1. CASE RefStore(w)
      <3> DEFINE ref == IF op[w] = "set" THEN reg[w] + 1 ELSE reg[w] - 1
      <3>1. ref \in Int
        BY DEF TypeOK
      <3>2. c_ref' = [c_ref EXCEPT ![j[w]] = ref % UINT32_MOD]
        BY <2>1 DEF RefStore
      <3> HIDE DEF ref
      <3>4. ref % UINT32_MOD \in 0 .. UINT32_MOD - 1
        BY <3>1, ModRange
      <3>3. j[w] \in Flag
        BY <2>1 DEF TypeOK, IndexOK, RefStore
      <3> QED
        BY <3>2, <3>3, <3>4 DEF TypeOK
    <2>2. CASE RefZero(w)
      BY <2>2 DEF TypeOK, IndexOK, RefZero
    <2>3. CASE UNCHANGED c_ref
      BY <2>3 DEF TypeOK
    <2> QED
      BY <2>1, <2>2, <2>3
      DEF InCall, EnterLock, Loop, SwapLoad, SwapLoad2, Swap, RefTest, RefLoad, ExitLock
  <1>5. UNCHANGED <<callers, timer, due>>
    BY DEF InCall, EnterLock, Loop, SwapLoad, SwapLoad2, Swap, RefTest, RefLoad, RefStore,
           RefZero, ExitLock
  <1>6. /\ l' \in {0, 1}
        /\ v' \in SUBSET Flag
        /\ op' \in [Writer -> {"set", "unset", "clear", "dump"}]
        /\ mask' \in [Writer -> SUBSET Flag]
        /\ expected' \in [Writer -> SUBSET Flag]
        /\ desired' \in [Writer -> SUBSET Flag]
    BY SMTT(30) DEF TypeOK, InCall, EnterLock, Loop, SwapLoad, SwapLoad2, Swap, RefTest, RefLoad, RefStore,
           RefZero, ExitLock
  <1>7. reg' \in [Writer -> 0 .. UINT32_MOD - 1]
    BY DEF TypeOK, IndexOK, InCall, EnterLock, Loop, SwapLoad, SwapLoad2, Swap, RefTest, RefLoad,
           RefStore, RefZero, ExitLock
  <1> QED
    BY <1>1, <1>2, <1>3, <1>4, <1>5, <1>6, <1>7 DEF TypeOK

LEMMA TypeStep == TypeOK /\ [Next]_vars => TypeOK'
  <1> SUFFICES ASSUME TypeOK, [Next]_vars PROVE TypeOK'
    OBVIOUS
  <1>1. CASE UNCHANGED vars
    BY <1>1 DEF TypeOK, IndexOK, ControlOK, vars, shared, locals
  <1>2. ASSUME NEW w \in Writer, Die(w) PROVE TypeOK'
    <2>1. ControlOK'
      BY <1>2, GotoWriter DEF TypeOK, Die, WriterLabel
    <2> QED
      BY <1>2, <2>1, FlagsConstants DEF TypeOK, IndexOK, Die, Goto, shared, locals, ControlOK, Proc
  <1>3. ASSUME NEW x \in Waiter, WaitCall(x) \/ Waiting(x) \/ TimeOut(x) PROVE TypeOK'
    <2>1. ControlOK'
      BY <1>3, GotoWaiter DEF TypeOK, WaitCall, Waiting, WaitArm, TimerEventNew, TimerEventFree, WaitTest, WaitTimer, TimeOut, WaiterLabel,
                              ControlOK
    <2>2. \A w \in Writer : pc'[w] = pc[w]
      BY <1>3, FlagsConstants
      DEF WaitCall, Waiting, WaitArm, TimerEventNew, TimerEventFree, WaitTest, WaitTimer, TimeOut, Goto, TypeOK, ControlOK, Proc
    <2> QED
      BY <1>3, <2>1, <2>2
      DEF TypeOK, IndexOK, WaitCall, Waiting, WaitArm, TimerEventNew, TimerEventFree, WaitTest, WaitTimer, TimeOut, shared, locals
  <1> QED
    BY <1>1, <1>2, <1>3, TypeCall, TypeInCall DEF Next

LEMMA TypeInit == Init => TypeOK
  BY FlagsConstants DEF Init, TypeOK, IndexOK, ControlOK, WriterLabel, WaiterLabel, Flag, Proc

\* Every word of the shared memory and of the calls keeps its type, whatever the
\* number of writers: no counter leaves its range and no loop its table.
THEOREM TypeCorrect == Spec => []TypeOK
  <1> QED
    BY TypeInit, TypeStep, PTL DEF Spec

---------------------------------------------------------------------------------
(* A single caller.  Alive(w) is what its call has established at each label.  *)

Alive(w) == CountsTrackCalls(w) /\ FlagsTrackCounts(w) /\ LocalsCurrent(w)

LEMMA SoleCall ==
  ASSUME TypeOK, NEW w \in Writer, OnlyCaller(w), pc[w] = "idle", Alive(w),
         NEW o \in {"set", "unset", "clear", "dump"}, NEW m \in SUBSET Flag, Call(w, o, m)
  PROVE  Alive(w)'
  <1>1. /\ pc'[w] = "lock" /\ op'[w] = o /\ mask'[w] = m
        /\ UNCHANGED <<l, v, c_ref, j>>
    BY DEF TypeOK, ControlOK, Proc, Call, Goto, shared
  <1>5. due' = [i \in Flag |-> IF i \in m THEN After(o, due[i]) ELSE due[i]]
    BY DEF Call
  <1>2. CountsTrackCalls(w)'
    BY <1>1, <1>5 DEF Alive, CountsTrackCalls, Before, After, TypeOK
  <1>3. FlagsTrackCounts(w)'
    BY <1>1 DEF Alive, FlagsTrackCounts
  <1>4. LocalsCurrent(w)'
    BY <1>1 DEF LocalsCurrent
  <1> QED
    BY <1>2, <1>3, <1>4 DEF Alive

LEMMA SoleInCall ==
  ASSUME TypeOK, NEW w \in Writer, Alive(w), InCall(w)
  PROVE  Alive(w)'
  <1>a. /\ w \in Proc
        /\ pc \in [Proc -> WriterLabel \cup WaiterLabel]
    BY DEF TypeOK, ControlOK, Proc
  <1>b. /\ op[w] \in {"set", "unset", "clear", "dump"}
        /\ mask[w] \subseteq Flag /\ v \subseteq Flag
    BY DEF TypeOK
  <1>c. INA_IPC_FLAGS_MAX \in Nat /\ j[w] \in 0 .. INA_IPC_FLAGS_MAX
    BY FlagsConstants DEF TypeOK
  <1>d. \A i \in Flag : i \in Nat /\ i < INA_IPC_FLAGS_MAX
    BY FlagsConstants DEF Flag
  <1>e. \A i \in Flag : c_ref[i] \in Nat /\ due[i] \in 0 .. MaxRef
    BY FlagsConstants DEF TypeOK
  <1> USE <1>a, <1>b, <1>c, <1>d, <1>e DEF Goto, shared, locals
  <1>1. CASE EnterLock(w)
    <2>1. /\ pc[w] = "lock" /\ op'[w] = op[w] /\ mask'[w] = mask[w]
          /\ UNCHANGED <<v, c_ref, due>>
      BY <1>1 DEF EnterLock
    <2>2. \/ pc'[w] = "lock" /\ j'[w] = j[w]
          \/ /\ j'[w] = 0
             /\ pc'[w] = IF op[w] = "set" THEN "load"
                         ELSE IF op[w] = "dump" THEN "exit" ELSE "loop"
      BY <1>1 DEF EnterLock, TypeOK
    <2>3. CountsTrackCalls(w)'
      BY <2>1, <2>2 DEF Alive, CountsTrackCalls, Before, After
    <2>4. FlagsTrackCounts(w)'
      BY <2>1, <2>2 DEF Alive, FlagsTrackCounts
    <2>5. LocalsCurrent(w)'
      BY <2>1, <2>2 DEF LocalsCurrent
    <2> QED
      BY <2>3, <2>4, <2>5 DEF Alive
  <1>2. CASE Loop(w)
    <2>1. /\ pc[w] = "loop" /\ op'[w] = op[w] /\ mask'[w] = mask[w]
          /\ UNCHANGED <<v, c_ref, due>>
      BY <1>2 DEF Loop
    <2>2. \/ j[w] = INA_IPC_FLAGS_MAX /\ pc'[w] = "exit" /\ j'[w] = j[w]
          \/ j[w] \notin mask[w] /\ pc'[w] = "loop" /\ j'[w] = j[w] + 1
          \/ /\ j[w] \in mask[w] /\ j'[w] = j[w]
             /\ op[w] = "set" => pc'[w] = "ref_load"
             /\ op[w] = "unset" => pc'[w] = "ref_test"
             /\ op[w] = "clear" => pc'[w] = "load"
      BY <1>2 DEF Loop, TypeOK, Alive, LocalsCurrent
    <2>3. op[w] # "dump"
      BY <2>1 DEF Alive, LocalsCurrent
    <2>4. CountsTrackCalls(w)'
      BY <2>1, <2>2, <2>3 DEF Alive, CountsTrackCalls, Before, After
    <2>5. FlagsTrackCounts(w)'
      BY <2>1, <2>2, <2>3 DEF Alive, FlagsTrackCounts
    <2>6. LocalsCurrent(w)'
      BY <2>1, <2>2, <2>3 DEF LocalsCurrent
    <2> QED
      BY <2>4, <2>5, <2>6 DEF Alive
  <1>3. CASE SwapLoad(w)
    <2>1. CountsTrackCalls(w)'
      BY <1>3 DEF SwapLoad, Alive, CountsTrackCalls, LocalsCurrent, Before, After, TypeOK
    <2>2. FlagsTrackCounts(w)'
      BY <1>3 DEF SwapLoad, Alive, FlagsTrackCounts, LocalsCurrent, TypeOK
    <2>3. LocalsCurrent(w)'
      BY <1>3 DEF SwapLoad, Alive, FlagsTrackCounts, LocalsCurrent, TypeOK
    <2> QED
      BY <2>1, <2>2, <2>3 DEF Alive
  <1>4. CASE SwapLoad2(w)
    <2>1. CountsTrackCalls(w)'
      BY <1>4 DEF SwapLoad2, Alive, CountsTrackCalls, LocalsCurrent, Before, After, TypeOK
    <2>2. FlagsTrackCounts(w)'
      BY <1>4 DEF SwapLoad2, Alive, FlagsTrackCounts, LocalsCurrent, TypeOK
    <2>3. LocalsCurrent(w)'
      BY <1>4 DEF SwapLoad2, Alive, FlagsTrackCounts, LocalsCurrent, TypeOK
    <2> QED
      BY <2>1, <2>2, <2>3 DEF Alive
  <1>5. CASE Swap(w)
    <2>1. /\ pc[w] = "swap" /\ op'[w] = op[w] /\ mask'[w] = mask[w]
          /\ UNCHANGED <<c_ref, due>>
          /\ v' = IF op[w] = "set" THEN v \cup mask[w] ELSE v \ {j[w]}
          /\ op[w] # "dump"
      BY <1>5 DEF Swap, Alive, LocalsCurrent
    <2>2. /\ op[w] = "set" => pc'[w] = "loop" /\ j'[w] = j[w]
          /\ op[w] = "unset" => pc'[w] = "loop" /\ j'[w] = j[w] + 1 /\ j[w] \in mask[w]
          /\ op[w] = "clear" => pc'[w] = "ref_zero" /\ j'[w] = j[w] /\ j[w] \in mask[w]
      BY <1>5 DEF Swap, TypeOK, Alive, LocalsCurrent
    <2>3. CountsTrackCalls(w)'
      <3>1. ASSUME NEW i \in Flag, op[w] = "set" PROVE j'[w] <= i
        BY <2>1, <2>2, <3>1 DEF Alive, LocalsCurrent
      <3>2. CASE op[w] = "set"
        BY <2>1, <2>2, <3>1, <3>2 DEF Alive, CountsTrackCalls, Before, After
      <3>3. CASE op[w] = "unset"
        BY <2>1, <2>2, <3>3 DEF Alive, CountsTrackCalls, Before, After
      <3>4. CASE op[w] = "clear"
        BY <2>1, <2>2, <3>4 DEF Alive, CountsTrackCalls, Before, After
      <3> QED
        BY <2>1, <3>2, <3>3, <3>4
    <2>4. FlagsTrackCounts(w)'
      <3>1. ASSUME NEW i \in Flag, op[w] = "set" PROVE j'[w] <= i
        BY <2>1, <2>2, <3>1 DEF Alive, LocalsCurrent
      <3>2. CASE op[w] = "set"
        BY <2>1, <2>2, <3>1, <3>2 DEF Alive, FlagsTrackCounts
      <3>3. CASE op[w] = "unset"
        BY <2>1, <2>2, <3>3 DEF Alive, FlagsTrackCounts
      <3>4. CASE op[w] = "clear"
        BY <2>1, <2>2, <3>4 DEF Alive, FlagsTrackCounts
      <3> QED
        BY <2>1, <3>2, <3>3, <3>4
    <2>5. LocalsCurrent(w)'
      BY <2>1, <2>2 DEF LocalsCurrent
    <2> QED
      BY <2>3, <2>4, <2>5 DEF Alive
  <1>6. CASE RefTest(w)
    <2>1. /\ pc[w] = "ref_test" /\ op[w] = "unset" /\ op'[w] = op[w] /\ mask'[w] = mask[w]
          /\ UNCHANGED <<v, c_ref, due>>
          /\ j[w] \in mask[w]
      BY <1>6 DEF RefTest, Alive, LocalsCurrent
    <2>2. \/ c_ref[j[w]] > 0 /\ pc'[w] = "ref_load" /\ j'[w] = j[w]
          \/ c_ref[j[w]] = 0 /\ pc'[w] = "loop" /\ j'[w] = j[w] + 1
      BY <1>6 DEF RefTest, TypeOK
    <2>3. CountsTrackCalls(w)'
      BY <2>1, <2>2 DEF Alive, CountsTrackCalls, Before, After
    <2>4. FlagsTrackCounts(w)'
      BY <2>1, <2>2 DEF Alive, FlagsTrackCounts
    <2>5. LocalsCurrent(w)'
      BY <2>1, <2>2 DEF LocalsCurrent
    <2> QED
      BY <2>3, <2>4, <2>5 DEF Alive
  <1>7. CASE RefLoad(w)
    <2>1. CountsTrackCalls(w)'
      BY <1>7 DEF RefLoad, Alive, CountsTrackCalls, LocalsCurrent, Before, After, TypeOK
    <2>2. FlagsTrackCounts(w)'
      BY <1>7 DEF RefLoad, Alive, FlagsTrackCounts, LocalsCurrent, TypeOK
    <2>3. LocalsCurrent(w)'
      BY <1>7 DEF RefLoad, Alive, FlagsTrackCounts, LocalsCurrent, TypeOK
    <2> QED
      BY <2>1, <2>2, <2>3 DEF Alive
  <1>8. CASE RefStore(w)
    <2>1. /\ pc[w] = "ref_store" /\ op'[w] = op[w] /\ mask'[w] = mask[w]
          /\ UNCHANGED <<v, due>>
          /\ op[w] \in {"set", "unset"}
          /\ j[w] \in Flag /\ j[w] \in mask[w]
          /\ reg[w] = c_ref[j[w]]
          /\ op[w] = "unset" => c_ref[j[w]] > 0
      BY <1>8 DEF RefStore, Alive, LocalsCurrent, TypeOK, IndexOK
    <2>2. due[j[w]] = After(op[w], c_ref[j[w]])
      BY <2>1 DEF Alive, CountsTrackCalls, Before
    <2>3. After(op[w], c_ref[j[w]]) = IF op[w] = "set" THEN reg[w] + 1 ELSE reg[w] - 1
      BY <2>1 DEF After
    <2> DEFINE ref == IF op[w] = "set" THEN reg[w] + 1 ELSE reg[w] - 1
    <2>4. ref = due[j[w]] /\ ref \in Nat /\ ref < UINT32_MOD
      BY <2>1, <2>2, <2>3, FlagsConstants
    <2>5. ref % UINT32_MOD = ref
      <3> HIDE DEF ref
      <3> QED
        BY <2>4, ModSmall, FlagsConstants
    <2>6. /\ c_ref' = [c_ref EXCEPT ![j[w]] = ref]
          /\ \/ op[w] = "unset" /\ ref = 0 /\ pc'[w] = "load" /\ j'[w] = j[w]
             \/ (op[w] # "unset" \/ ref # 0) /\ pc'[w] = "loop" /\ j'[w] = j[w] + 1
      BY <1>8, <2>5 DEF RefStore, TypeOK
    <2>7. /\ c_ref'[j[w]] = due[j[w]]
          /\ \A i \in Flag \ {j[w]} : c_ref'[i] = c_ref[i]
      BY <2>1, <2>4, <2>6 DEF TypeOK
    <2>8. CountsTrackCalls(w)'
      BY <2>1, <2>4, <2>6, <2>7 DEF Alive, CountsTrackCalls, Before, After
    <2>9. FlagsTrackCounts(w)'
      BY <2>1, <2>4, <2>6, <2>7 DEF Alive, FlagsTrackCounts
    <2>10. LocalsCurrent(w)'
      BY <2>1, <2>6 DEF LocalsCurrent
    <2> QED
      BY <2>8, <2>9, <2>10 DEF Alive
  <1>9. CASE RefZero(w)
    <2>1. /\ pc[w] = "ref_zero" /\ op[w] = "clear" /\ op'[w] = op[w] /\ mask'[w] = mask[w]
          /\ UNCHANGED <<v, due>>
          /\ j[w] \in Flag /\ j[w] \in mask[w]
          /\ pc'[w] = "loop" /\ j'[w] = j[w] + 1
      BY <1>9 DEF RefZero, Alive, LocalsCurrent, TypeOK
    <2>2. c_ref'[j[w]] = 0 /\ \A i \in Flag \ {j[w]} : c_ref'[i] = c_ref[i]
      BY <1>9, <2>1 DEF RefZero, TypeOK
    <2>3. CountsTrackCalls(w)'
      BY <2>1, <2>2 DEF Alive, CountsTrackCalls, Before, After
    <2>4. FlagsTrackCounts(w)'
      BY <2>1, <2>2 DEF Alive, FlagsTrackCounts
    <2>5. LocalsCurrent(w)'
      BY <2>1 DEF LocalsCurrent
    <2> QED
      BY <2>3, <2>4, <2>5 DEF Alive
  <1>10. CASE ExitLock(w)
    <2>1. CountsTrackCalls(w)'
      BY <1>10 DEF ExitLock, Alive, CountsTrackCalls, LocalsCurrent, Before, After, TypeOK
    <2>2. FlagsTrackCounts(w)'
      BY <1>10 DEF ExitLock, Alive, FlagsTrackCounts, LocalsCurrent, TypeOK
    <2>3. LocalsCurrent(w)'
      BY <1>10 DEF ExitLock, Alive, FlagsTrackCounts, LocalsCurrent, TypeOK
    <2> QED
      BY <2>1, <2>2, <2>3 DEF Alive
  <1> QED
    BY <1>1, <1>2, <1>3, <1>4, <1>5, <1>6, <1>7, <1>8, <1>9, <1>10 DEF InCall

LEMMA SoleInit == Init => SoleInv
  <1> SUFFICES ASSUME Init PROVE SoleInv
    OBVIOUS
  <1>1. \A w \in Writer : pc[w] = "idle" /\ op[w] = "dump"
    BY DEF Init, Proc
  <1>2. \A i \in Flag : (i \in v <=> c_ref[i] > 0) /\ due[i] = c_ref[i]
    BY DEF Init
  <1> QED
    BY <1>1, <1>2
    DEF SoleInv, CallersKnown, ReferencedIsOn, CountsTrackCalls, FlagsTrackCounts, LocalsCurrent,
        Before

\* While the only caller lives, the flags with references are on.
LEMMA AliveReferenced ==
  ASSUME TypeOK', NEW w \in Writer, Alive(w)'
  PROVE  ReferencedIsOn'
  BY DEF TypeOK, Alive, FlagsTrackCounts, LocalsCurrent, ReferencedIsOn

\* A step of a writer is a step of the only caller, if there is one afterwards.
LEMMA StepOfCaller ==
  ASSUME TypeOK, CallersKnown, NEW w \in Writer, NEW y \in Writer, OnlyCaller(w)',
         \/ InCall(y) \/ Die(y)
         \/ \E o \in {"set", "unset", "clear", "dump"}, m \in SUBSET Flag : Call(y, o, m)
  PROVE  y = w /\ OnlyCaller(w)
  <1>1. CASE InCall(y) \/ Die(y)
    <2>1. callers' = callers /\ pc[y] # "idle"
      BY <1>1 DEF InCall, EnterLock, Loop, SwapLoad, SwapLoad2, Swap, RefTest, RefLoad, RefStore,
                  RefZero, ExitLock, Die
    <2> QED
      BY <2>1 DEF CallersKnown, OnlyCaller
  <1>2. CASE \E o \in {"set", "unset", "clear", "dump"}, m \in SUBSET Flag : Call(y, o, m)
    <2>1. callers' = callers \cup {y}
      BY <1>2 DEF Call
    <2> QED
      BY <2>1 DEF OnlyCaller
  <1> QED
    BY <1>1, <1>2

LEMMA CallersKnownStep ==
  ASSUME TypeOK, CallersKnown, [Next]_vars
  PROVE  CallersKnown'
  <1>0. callers \in SUBSET Writer /\ pc \in [Proc -> WriterLabel \cup WaiterLabel]
    BY DEF TypeOK, ControlOK
  <1>1. ASSUME NEW w \in Writer, InCall(w) \/ Die(w) PROVE CallersKnown'
    <2>1. /\ callers' = callers /\ pc[w] # "idle"
          /\ \A x \in Writer \ {w} : pc'[x] = pc[x]
      BY <1>0, <1>1
      DEF InCall, EnterLock, Loop, SwapLoad, SwapLoad2, Swap, RefTest, RefLoad, RefStore,
          RefZero, ExitLock, Die, Goto, Proc
    <2> QED
      BY <2>1 DEF CallersKnown
  <1>2. ASSUME NEW w \in Writer, NEW o \in {"set", "unset", "clear", "dump"},
               NEW m \in SUBSET Flag, Call(w, o, m)
        PROVE  CallersKnown'
    BY <1>0, <1>2 DEF Call, Goto, Proc, CallersKnown
  <1>3. ASSUME NEW x \in Waiter, WaitCall(x) \/ Waiting(x) \/ TimeOut(x) PROVE CallersKnown'
    BY <1>0, <1>3, FlagsConstants
    DEF WaitCall, Waiting, WaitArm, TimerEventNew, TimerEventFree, WaitTest, WaitTimer, TimeOut, Goto, Proc, CallersKnown
  <1>4. CASE UNCHANGED vars
    BY <1>4 DEF vars, CallersKnown
  <1> QED
    BY <1>1, <1>2, <1>3, <1>4 DEF Next

\* What the step leaves of the part of SoleInv about a writer w that is the only
\* caller after it.
LEMMA SoleStepOf ==
  ASSUME TypeOK, SoleInv, [Next]_vars, NEW w \in Writer, OnlyCaller(w)'
  PROVE  ReferencedIsOn' /\ (pc'[w] # "dead" => Alive(w)')
  <1>1. TypeOK'
    BY TypeStep
  <1>2. CallersKnown /\ ReferencedIsOn /\ (OnlyCaller(w) /\ pc[w] # "dead" => Alive(w))
    BY DEF SoleInv, Alive
  <1>3. ASSUME UNCHANGED <<v, c_ref, op, mask, j, expected, desired, reg, due, callers>>,
               \A x \in Writer : pc'[x] = pc[x]
        PROVE  ReferencedIsOn' /\ (pc'[w] # "dead" => Alive(w)')
    <2>1. OnlyCaller(w) /\ (SoleWriter' <=> SoleWriter)
      BY <1>3 DEF OnlyCaller, SoleWriter
    <2>2. ReferencedIsOn'
      BY <1>2, <1>3, <2>1 DEF ReferencedIsOn
    <2>3. ASSUME pc'[w] # "dead" PROVE Alive(w)'
      <3>1. Alive(w) /\ pc'[w] = pc[w]
        BY <1>2, <1>3, <2>1, <2>3
      <3>2. CountsTrackCalls(w)'
        BY <1>3, <3>1 DEF Alive, CountsTrackCalls, Before
      <3>3. FlagsTrackCounts(w)'
        BY <1>3, <3>1 DEF Alive, FlagsTrackCounts
      <3>4. LocalsCurrent(w)'
        BY <1>3, <3>1 DEF Alive, LocalsCurrent
      <3> QED
        BY <3>2, <3>3, <3>4 DEF Alive
    <2> QED
      BY <2>2, <2>3
  <1>4. CASE UNCHANGED vars
    BY <1>3, <1>4 DEF vars, shared, locals
  <1>5. ASSUME NEW x \in Waiter, WaitCall(x) \/ Waiting(x) \/ TimeOut(x)
        PROVE  ReferencedIsOn' /\ (pc'[w] # "dead" => Alive(w)')
    <2>1. \A y \in Writer : pc'[y] = pc[y]
      BY <1>5, FlagsConstants
      DEF WaitCall, Waiting, WaitArm, TimerEventNew, TimerEventFree, WaitTest, WaitTimer, TimeOut, Goto, TypeOK, ControlOK, Proc
    <2> QED
      BY <1>3, <1>5, <2>1
      DEF WaitCall, Waiting, WaitArm, TimerEventNew, TimerEventFree, WaitTest, WaitTimer, TimeOut, shared, locals
  <1>6. ASSUME NEW y \in Writer, NEW o \in {"set", "unset", "clear", "dump"},
               NEW m \in SUBSET Flag, Call(y, o, m)
        PROVE  ReferencedIsOn' /\ (pc'[w] # "dead" => Alive(w)')
    <2>1. y = w /\ OnlyCaller(w)
      BY <1>2, <1>6, StepOfCaller
    <2>2. pc[w] = "idle" /\ pc[w] # "dead"
      BY <1>6, <2>1 DEF Call
    <2>3. Alive(w)'
      BY <1>2, <1>6, <2>1, <2>2, SoleCall
    <2> QED
      BY <1>1, <2>3, AliveReferenced
  <1>7. ASSUME NEW y \in Writer, InCall(y)
        PROVE  ReferencedIsOn' /\ (pc'[w] # "dead" => Alive(w)')
    <2>1. y = w /\ OnlyCaller(w)
      BY <1>2, <1>7, StepOfCaller
    <2>2. pc[w] # "dead"
      BY <1>7, <2>1
      DEF InCall, EnterLock, Loop, SwapLoad, SwapLoad2, Swap, RefTest, RefLoad, RefStore,
          RefZero, ExitLock
    <2>3. Alive(w)'
      BY <1>2, <1>7, <2>1, <2>2, SoleInCall
    <2> QED
      BY <1>1, <2>3, AliveReferenced
  <1>8. ASSUME NEW y \in Writer, Die(y)
        PROVE  ReferencedIsOn' /\ (pc'[w] # "dead" => Alive(w)')
    <2>1. y = w /\ OnlyCaller(w)
      BY <1>2, <1>8, StepOfCaller
    <2>2. /\ pc'[w] = "dead" /\ UNCHANGED <<v, c_ref, op, mask>>
          /\ \A x \in Writer \ {w} : pc'[x] = pc[x]
      BY <1>8, <2>1 DEF Die, Goto, TypeOK, ControlOK, Proc, shared, locals
    <2>3. SoleWriter
      BY <2>1 DEF SoleWriter
    <2>4. ASSUME NEW i \in Flag, c_ref'[i] > 0, i \notin v'
          PROVE  \E x \in Writer : /\ op'[x] = "clear" /\ i \in mask'[x]
                                   /\ pc'[x] \in {"ref_zero", "dead"}
      <3>1. PICK x \in Writer : /\ op[x] = "clear" /\ i \in mask[x]
                                /\ pc[x] \in {"ref_zero", "dead"}
        BY <1>2, <2>2, <2>3, <2>4 DEF ReferencedIsOn
      <3>2. pc'[x] \in {"ref_zero", "dead"}
        BY <2>2, <3>1
      <3> QED
        BY <2>2, <3>1, <3>2
    <2> QED
      BY <2>2, <2>4 DEF ReferencedIsOn
  <1> QED
    BY <1>4, <1>5, <1>6, <1>7, <1>8 DEF Next

LEMMA SoleStep ==
  ASSUME TypeOK, SoleInv, [Next]_vars
  PROVE  SoleInv'
  <1>1. CallersKnown'
    BY CallersKnownStep DEF SoleInv
  <1>2. \A w \in Writer : OnlyCaller(w)' => ReferencedIsOn' /\ (pc'[w] # "dead" => Alive(w)')
    BY SoleStepOf
  <1>3. ReferencedIsOn'
    <2>1. CASE SoleWriter'
      BY <1>2, <2>1 DEF SoleWriter
    <2>2. CASE ~SoleWriter'
      BY <2>2 DEF ReferencedIsOn
    <2> QED
      BY <2>1, <2>2
  <1> QED
    BY <1>1, <1>2, <1>3 DEF SoleInv, Alive

LEMMA SoleInvariant == Spec => []SoleInv
  <1>1. TypeOK /\ SoleInv /\ [Next]_vars => SoleInv'
    BY SoleStep
  <1> QED
    BY <1>1, SoleInit, TypeCorrect, PTL DEF Spec

\* As long as one writer has made calls, the counters are what it asked for
\* whenever it is between calls, and exactly the flags with references are on.
THEOREM RefExactHolds == Spec => []RefExact
  <1>1. TypeOK /\ SoleInv => RefExact
    <2> SUFFICES ASSUME TypeOK, SoleInv, SoleWriter, Quiet PROVE c_ref = due /\ RefInSync
      BY DEF RefExact
    <2>1. PICK w \in Writer : OnlyCaller(w)
      BY DEF SoleWriter
    <2>2. pc[w] = "idle" /\ CountsTrackCalls(w) /\ FlagsTrackCounts(w)
      BY <2>1 DEF SoleInv, Quiet
    <2>3. \A i \in Flag : due[i] = c_ref[i] /\ (i \in v <=> c_ref[i] > 0)
      BY <2>2 DEF CountsTrackCalls, FlagsTrackCounts, Before
    <2>4. c_ref = due
      BY <2>3 DEF TypeOK
    <2> QED
      BY <2>3, <2>4 DEF RefInSync
  <1> QED
    BY <1>1, SoleInvariant, TypeCorrect, PTL

\* As long as one writer has made calls, in the middle of them and after its
\* death too, a flag that has references is on unless a clear has just turned
\* it off.
THEOREM ReferencedIsOnHolds == Spec => []ReferencedIsOn
  <1>1. SoleInv => ReferencedIsOn
    BY DEF SoleInv, ReferencedIsOn
  <1> QED
    BY <1>1, SoleInvariant, PTL
--------------------------------------------------------------------------------
(* The counter.                                                                *)

LEMMA ModWord ==
  ASSUME NEW a \in Int
  PROVE  a % UINT64_MOD \in Word
  BY CounterConstants DEF Word

LEMMA ApplyWord ==
  ASSUME NEW o, NEW w \in Word, NEW n \in Word
  PROVE  Apply(o, w, n) \in Word
  <1>1. w + n \in Int /\ w - n \in Int
    BY DEF Word
  <1>2. (w + n) % UINT64_MOD \in Word /\ (w - n) % UINT64_MOD \in Word
    BY <1>1, ModWord
  <1> QED
    BY <1>2 DEF Apply

LEMMA CounterTypeStep == CounterTypeOK /\ [CounterNext]_counterVars => CounterTypeOK'
  <1> SUFFICES ASSUME CounterTypeOK, [CounterNext]_counterVars PROVE CounterTypeOK'
    OBVIOUS
  <1> USE CounterConstants
  <1>1. CASE UNCHANGED counterVars
    BY <1>1 DEF CounterTypeOK, counterVars
  <1>2. ASSUME NEW p \in Holder, NEW o \in {"inc", "dec", "set"}, NEW n \in Step, CounterCall(p, o, n)
        PROVE  CounterTypeOK'
    <2>1. n \in Word
      BY DEF Word
    <2> QED
      BY <1>2, <2>1 DEF CounterTypeOK, CounterCall, MoveTo
  <1>3. ASSUME NEW p \in Holder, Load(p) PROVE CounterTypeOK'
    BY <1>3 DEF CounterTypeOK, Load, MoveTo
  <1>4. ASSUME NEW p \in Holder, Load2(p) PROVE CounterTypeOK'
    <2>1. Apply(operation[p], c, value[p]) \in Word
      BY ApplyWord DEF CounterTypeOK
    <2> QED
      BY <1>4, <2>1 DEF CounterTypeOK, Load2, MoveTo
  <1>5. ASSUME NEW p \in Holder, CounterSwap(p) PROVE CounterTypeOK'
    BY <1>5 DEF CounterTypeOK, CounterSwap, MoveTo
  <1>6. ASSUME NEW p \in Holder, Reload(p) PROVE CounterTypeOK'
    BY <1>6 DEF CounterTypeOK, Reload, MoveTo
  <1> QED
    BY <1>1, <1>2, <1>3, <1>4, <1>5, <1>6 DEF CounterNext, InCounterCall

\* The counter and every result stay in the range of the word, whatever the
\* number of processes.
THEOREM CounterTypeCorrect == CounterSpec => []CounterTypeOK
  <1>1. CounterInit => CounterTypeOK
    BY CounterConstants DEF CounterInit, CounterTypeOK, Word
  <1> QED
    BY <1>1, CounterTypeStep, PTL DEF CounterSpec

LEMMA UndisturbedStep ==
  ASSUME CounterTypeOK, UndisturbedInv, [CounterNext]_counterVars
  PROVE  UndisturbedInv'
  <1>1. CASE UNCHANGED counterVars
    BY <1>1 DEF UndisturbedInv, counterVars
  <1>2. ASSUME NEW p \in Holder, NEW o \in {"inc", "dec", "set"}, NEW n \in Step, CounterCall(p, o, n)
        PROVE  UndisturbedInv'
    BY <1>2 DEF UndisturbedInv, CounterCall, MoveTo, CounterTypeOK
  <1>3. ASSUME NEW p \in Holder, InCounterCall(p)
        PROVE  UndisturbedInv'
    <2>1. operation[p] = "set" => Apply(operation[p], c, value[p]) = value[p]
      BY DEF Apply
    <2>2. CASE Load(p)
      BY <2>1, <2>2 DEF UndisturbedInv, Load, MoveTo, CounterTypeOK
    <2>3. CASE Load2(p)
      BY <2>3 DEF UndisturbedInv, Load2, MoveTo, CounterTypeOK
    <2>4. CASE CounterSwap(p)
      BY <2>1, <2>4 DEF UndisturbedInv, CounterSwap, MoveTo, CounterTypeOK
    <2>5. CASE Reload(p)
      BY <2>5 DEF UndisturbedInv, Reload, MoveTo, CounterTypeOK
    <2> QED
      BY <1>3, <2>2, <2>3, <2>4, <2>5 DEF InCounterCall
  <1> QED
    BY <1>1, <1>2, <1>3 DEF CounterNext

\* A call that no other process disturbs gets exact arithmetic, modulo the width
\* of the word, and returns the value it left.
THEOREM UndisturbedExactHolds == CounterSpec => []UndisturbedExact
  <1>1. CounterInit => UndisturbedInv
    BY DEF CounterInit, UndisturbedInv
  <1>2. CounterTypeOK /\ UndisturbedInv /\ [CounterNext]_counterVars => UndisturbedInv'
    BY UndisturbedStep
  <1>3. UndisturbedInv => UndisturbedExact
    BY DEF UndisturbedInv, UndisturbedExact
  <1> QED
    BY <1>1, <1>2, <1>3, CounterTypeCorrect, PTL DEF CounterSpec
================================================================================
