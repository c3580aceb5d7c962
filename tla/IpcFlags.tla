-------------------------------- MODULE IpcFlags --------------------------------
(***************************************************************************)
(* IPC flags (src/ipc.c): a word of flags in shared memory with one        *)
(* reference counter per flag.  Each step is one access to the shared      *)
(* memory.  The reference counters are plain words, so ++ and -- are a     *)
(* load and a store; the update of the flag word is two loads and a        *)
(* compare-and-swap whose outcome is not looked at.                        *)
(*                                                                         *)
(* The flag word is the set of flags that are on.                          *)
(***************************************************************************)
EXTENDS Integers

CONSTANTS Writer,              \* processes that set, unset, clear and dump
          Waiter,              \* processes that wait for flags
          INA_IPC_FLAGS_MAX,   \* number of flags (64 in the code)
          UINT32_MOD,          \* range of a reference counter (2^32 in the code)
          MaxRef,              \* bound: references a single writer gives a flag at a time
          Calls                \* bound: Calls[w] is what w may call, about which flags

ASSUME FlagsConstants ==
  /\ INA_IPC_FLAGS_MAX \in Nat
  /\ UINT32_MOD \in Nat
  /\ MaxRef \in Nat \ {0}
  /\ MaxRef < UINT32_MOD
  /\ Calls \in [Writer -> SUBSET ({"set", "unset", "clear", "dump"}
                                  \X SUBSET (0 .. INA_IPC_FLAGS_MAX - 1))]
  /\ Writer # {}
  /\ Writer \cap Waiter = {}

Proc == Writer \cup Waiter
Flag == 0 .. INA_IPC_FLAGS_MAX - 1

VARIABLES
  l,        \* lock word
  v,        \* flags that are on
  c_ref,    \* reference counters
  pc,
  op,       \* call each writer is in
  mask,     \* flags the call is about
  j,        \* loop index
  expected, \* first load of v, for the swap
  desired,  \* value to swap in, from the second load of v
  reg,      \* the load of a reference counter
  callers,  \* history: writers that have made a call
  timer,    \* the event of each waiter's timer
  due       \* history: references asked for, while a single writer has made calls

shared == <<l, v, c_ref>>
locals == <<op, mask, j, expected, desired, reg>>
vars   == <<shared, pc, locals, callers, timer, due>>

Goto(x, label) == pc' = [pc EXCEPT ![x] = label]

WriterLabel == {"idle", "lock", "loop", "load", "load2", "swap", "ref_test", "ref_load",
                "ref_store", "ref_zero", "exit", "dead"}
WaiterLabel == {"idle", "arm", "wait", "wait_timer"}

ControlOK ==
  /\ pc \in [Proc -> WriterLabel \cup WaiterLabel]
  /\ \A w \in Writer : pc[w] \in WriterLabel
  /\ \A w \in Waiter : pc[w] \in WaiterLabel

\* A call that works on a single flag works on one there is.
IndexOK ==
  \A w \in Writer :
    \/ pc[w] \in {"ref_test", "ref_load", "ref_store", "ref_zero"}
    \/ pc[w] \in {"load", "load2", "swap"} /\ op[w] # "set"
    => j[w] \in Flag

\* Every word has its type; a reference counter stays in the range of a uint32_t
\* and a loop never indexes beyond the counters.
TypeOK ==
  /\ l \in {0, 1}
  /\ v \in SUBSET Flag
  /\ c_ref \in [Flag -> 0 .. UINT32_MOD - 1]
  /\ ControlOK
  /\ op \in [Writer -> {"set", "unset", "clear", "dump"}]
  /\ mask \in [Writer -> SUBSET Flag]
  /\ j \in [Writer -> 0 .. INA_IPC_FLAGS_MAX]
  /\ expected \in [Writer -> SUBSET Flag]
  /\ desired \in [Writer -> SUBSET Flag]
  /\ reg \in [Writer -> 0 .. UINT32_MOD - 1]
  /\ callers \in SUBSET Writer
  /\ timer \in [Waiter -> {"none", "armed", "due"}]
  /\ due \in [Flag -> 0 .. MaxRef]
  /\ IndexOK

---------------------------------------------------------------------------------
(* The calls. *)

\* References a flag with n of them has after a call.
After(o, n) ==
  CASE o = "set" -> n + 1
    [] o = "unset" -> IF n > 0 THEN n - 1 ELSE 0
    [] o = "clear" -> 0
    [] OTHER -> n

OnlyCaller(w) == callers \subseteq {w}

Call(w, o, m) ==
  /\ pc[w] = "idle"
  /\ <<o, m>> \in Calls[w]
  /\ o = "set" /\ OnlyCaller(w) => \A i \in m : due[i] < MaxRef
  /\ op' = [op EXCEPT ![w] = o]
  /\ mask' = [mask EXCEPT ![w] = m]
  /\ callers' = callers \cup {w}
  /\ due' = [i \in Flag |-> IF OnlyCaller(w)
                            THEN IF i \in m THEN After(o, due[i]) ELSE due[i]
                            ELSE 0]
  /\ Goto(w, "lock")
  /\ UNCHANGED <<shared, j, expected, desired, reg, timer>>

\* One round of __INA_ENTER_LOCK: while (0 == SWAP(l, 0, 1)).  The swap returns
\* the old value, so the loop is left when the lock word was 1 already.
EnterLock(w) ==
  /\ pc[w] = "lock"
  /\ \/ /\ l = 0
        /\ l' = 1
        /\ UNCHANGED <<j, pc>>
     \/ /\ l = 1
        /\ j' = [j EXCEPT ![w] = 0]
        /\ Goto(w, IF op[w] = "set" THEN "load" ELSE IF op[w] = "dump" THEN "exit" ELSE "loop")
        /\ UNCHANGED l
  /\ UNCHANGED <<v, c_ref, op, mask, expected, desired, reg, callers, timer, due>>

\* Mutant: <= in the loop condition.
Loop_OneMore(w) ==
  /\ pc[w] = "loop"
  /\ \/ /\ j[w] > INA_IPC_FLAGS_MAX
        /\ Goto(w, "exit")
        /\ UNCHANGED j
     \/ /\ j[w] <= INA_IPC_FLAGS_MAX
        /\ j[w] \notin mask[w]
        /\ j' = [j EXCEPT ![w] = @ + 1]
        /\ UNCHANGED pc
     \/ /\ j[w] <= INA_IPC_FLAGS_MAX
        /\ j[w] \in mask[w]
        /\ Goto(w, CASE op[w] = "set" -> "ref_load"
                     [] op[w] = "unset" -> "ref_test"
                     [] OTHER -> "load")
        /\ UNCHANGED j
  /\ UNCHANGED <<shared, op, mask, expected, desired, reg, callers, timer, due>>

\* The head of the for loop over the flags.
Loop(w) ==
  /\ pc[w] = "loop"
  /\ \/ /\ j[w] = INA_IPC_FLAGS_MAX
        /\ Goto(w, "exit")
        /\ UNCHANGED j
     \/ /\ j[w] < INA_IPC_FLAGS_MAX
        /\ j[w] \notin mask[w]
        /\ j' = [j EXCEPT ![w] = @ + 1]
        /\ UNCHANGED pc
     \/ /\ j[w] < INA_IPC_FLAGS_MAX
        /\ j[w] \in mask[w]
        /\ Goto(w, CASE op[w] = "set" -> "ref_load"
                     [] op[w] = "unset" -> "ref_test"
                     [] OTHER -> "load")
        /\ UNCHANGED j
  /\ UNCHANGED <<shared, op, mask, expected, desired, reg, callers, timer, due>>

\* The three accesses of INA_ATOMIC_SWAP(&v, v, v | value) in set and of
\* INA_ATOMIC_SWAP(&v, v, v & ~mask) in unset and clear.
SwapLoad(w) ==
  /\ pc[w] = "load"
  /\ expected' = [expected EXCEPT ![w] = v]
  /\ Goto(w, "load2")
  /\ UNCHANGED <<shared, op, mask, j, desired, reg, callers, timer, due>>

SwapLoad2(w) ==
  /\ pc[w] = "load2"
  /\ desired' = [desired EXCEPT ![w] = IF op[w] = "set" THEN v \cup mask[w] ELSE v \ {j[w]}]
  /\ Goto(w, "swap")
  /\ UNCHANGED <<shared, op, mask, j, expected, reg, callers, timer, due>>

\* Mutant: the swap is tried again, with the values it failed with.
Swap_Spins(w) ==
  /\ pc[w] = "swap"
  /\ v = expected[w]
  /\ v' = desired[w]
  /\ j' = IF op[w] = "unset" THEN [j EXCEPT ![w] = @ + 1] ELSE j
  /\ Goto(w, IF op[w] = "clear" THEN "ref_zero" ELSE "loop")
  /\ expected' = [expected EXCEPT ![w] = {}]
  /\ desired' = [desired EXCEPT ![w] = {}]
  /\ UNCHANGED <<l, c_ref, op, mask, reg, callers, timer, due>>

Swap(w) ==
  /\ pc[w] = "swap"
  /\ v' = IF v = expected[w] THEN desired[w] ELSE v
  /\ j' = IF op[w] = "unset" THEN [j EXCEPT ![w] = @ + 1] ELSE j
  /\ Goto(w, IF op[w] = "clear" THEN "ref_zero" ELSE "loop")
  /\ expected' = [expected EXCEPT ![w] = {}]
  /\ desired' = [desired EXCEPT ![w] = {}]
  /\ UNCHANGED <<l, c_ref, op, mask, reg, callers, timer, due>>

\* unset: c_ref[j] > 0 && ...
RefTest(w) ==
  /\ pc[w] = "ref_test"
  /\ \/ /\ c_ref[j[w]] > 0
        /\ Goto(w, "ref_load")
        /\ UNCHANGED j
     \/ /\ c_ref[j[w]] = 0
        /\ j' = [j EXCEPT ![w] = @ + 1]
        /\ Goto(w, "loop")
  /\ UNCHANGED <<shared, op, mask, expected, desired, reg, callers, timer, due>>

RefLoad(w) ==
  /\ pc[w] = "ref_load"
  /\ reg' = [reg EXCEPT ![w] = c_ref[j[w]]]
  /\ Goto(w, "ref_store")
  /\ UNCHANGED <<shared, op, mask, j, expected, desired, callers, timer, due>>

\* Mutant: the flag is turned off whatever references are left.
RefStore_AlwaysOff(w) ==
  /\ pc[w] = "ref_store"
  /\ LET ref == (IF op[w] = "set" THEN reg[w] + 1 ELSE reg[w] - 1) % UINT32_MOD IN
       /\ c_ref' = [c_ref EXCEPT ![j[w]] = ref]
       /\ IF op[w] = "unset"
          THEN Goto(w, "load") /\ UNCHANGED j
          ELSE Goto(w, "loop") /\ j' = [j EXCEPT ![w] = @ + 1]
  /\ reg' = [reg EXCEPT ![w] = 0]
  /\ UNCHANGED <<l, v, op, mask, expected, desired, callers, timer, due>>

\* Mutant: unset adds a reference.
RefStore_Adds(w) ==
  /\ pc[w] = "ref_store"
  /\ c_ref' = [c_ref EXCEPT ![j[w]] = (reg[w] + 1) % UINT32_MOD]
  /\ Goto(w, "loop")
  /\ j' = [j EXCEPT ![w] = @ + 1]
  /\ reg' = [reg EXCEPT ![w] = 0]
  /\ UNCHANGED <<l, v, op, mask, expected, desired, callers, timer, due>>

\* The store of ++c_ref[j] in set and of --c_ref[j] in unset, which turns the
\* flag off when it has stored 0.
RefStore(w) ==
  /\ pc[w] = "ref_store"
  /\ LET ref == (IF op[w] = "set" THEN reg[w] + 1 ELSE reg[w] - 1) % UINT32_MOD IN
       /\ c_ref' = [c_ref EXCEPT ![j[w]] = ref]
       /\ \/ /\ op[w] = "unset"
             /\ ref = 0
             /\ Goto(w, "load")
             /\ UNCHANGED j
          \/ /\ op[w] # "unset" \/ ref # 0
             /\ Goto(w, "loop")
             /\ j' = [j EXCEPT ![w] = @ + 1]
  /\ reg' = [reg EXCEPT ![w] = 0]
  /\ UNCHANGED <<l, v, op, mask, expected, desired, callers, timer, due>>

\* clear: c_ref[j] = 0, after the flag was turned off.
RefZero(w) ==
  /\ pc[w] = "ref_zero"
  /\ c_ref' = [c_ref EXCEPT ![j[w]] = 0]
  /\ j' = [j EXCEPT ![w] = @ + 1]
  /\ Goto(w, "loop")
  /\ UNCHANGED <<l, v, op, mask, expected, desired, reg, callers, timer, due>>

\* __INA_EXIT_LOCK: SWAP(l, 1, 0).  The locals of the call go with it.
ExitLock(w) ==
  /\ pc[w] = "exit"
  /\ l' = 0
  /\ Goto(w, "idle")
  /\ op' = [op EXCEPT ![w] = "dump"]
  /\ mask' = [mask EXCEPT ![w] = {}]
  /\ j' = [j EXCEPT ![w] = 0]
  /\ expected' = [expected EXCEPT ![w] = {}]
  /\ desired' = [desired EXCEPT ![w] = {}]
  /\ reg' = [reg EXCEPT ![w] = 0]
  /\ UNCHANGED <<v, c_ref, callers, timer, due>>

\* A writer dies in the middle of a call, and its locals with it.
Die(w) ==
  /\ pc[w] \notin {"idle", "dead"}
  /\ Goto(w, "dead")
  /\ j' = [j EXCEPT ![w] = 0]
  /\ expected' = [expected EXCEPT ![w] = {}]
  /\ desired' = [desired EXCEPT ![w] = {}]
  /\ reg' = [reg EXCEPT ![w] = 0]
  /\ UNCHANGED <<shared, op, mask, callers, timer, due>>

---------------------------------------------------------------------------------
(* ina_ipc_flags_wait polls the flag word and its own timer in turn.  A waiter *)
(* waits for all flags.                                                        *)

TimerEventNew(x) == timer' = [timer EXCEPT ![x] = "armed"]

\* ina_timer_next_event finds the event of the waiter when it is due.
TimerNextEvent(x) == timer[x] = "due"

TimerEventFree(x) == timer' = [timer EXCEPT ![x] = "none"]

WaitCall(x) ==
  /\ pc[x] = "idle"
  /\ Goto(x, "arm")
  /\ UNCHANGED <<shared, locals, callers, timer, due>>

\* The event is made, or it is not (a timeout of 0, a clock that stands at 0, no
\* memory) and the call returns the error without looking at the flags.
WaitArm(x) ==
  /\ pc[x] = "arm"
  /\ \/ TimerEventNew(x) /\ Goto(x, "wait")
     \/ UNCHANGED timer /\ Goto(x, "idle")
  /\ UNCHANGED <<shared, locals, callers, due>>

WaitTest(x) ==
  /\ pc[x] = "wait"
  /\ \/ Flag \subseteq v /\ TimerEventFree(x) /\ Goto(x, "idle")
     \/ ~(Flag \subseteq v) /\ UNCHANGED timer /\ Goto(x, "wait_timer")
  /\ UNCHANGED <<shared, locals, callers, due>>

\* Mutant: the timeout is not looked at.
WaitTimer_Ignored(x) ==
  /\ pc[x] = "wait_timer"
  /\ Goto(x, "wait")
  /\ UNCHANGED <<shared, locals, callers, timer, due>>

WaitTimer(x) ==
  /\ pc[x] = "wait_timer"
  /\ \/ TimerNextEvent(x) /\ TimerEventFree(x) /\ Goto(x, "idle")
     \/ ~TimerNextEvent(x) /\ UNCHANGED timer /\ Goto(x, "wait")
  /\ UNCHANGED <<shared, locals, callers, due>>

\* The clock the timer reads (ina_time_read_tsc_clock) reaches the time of the event.
TimeOut(x) ==
  /\ timer[x] = "armed"
  /\ timer' = [timer EXCEPT ![x] = "due"]
  /\ UNCHANGED <<shared, pc, locals, callers, due>>

---------------------------------------------------------------------------------
\* The flags as ina_ipc_flags_new left them: the initial ones are on, with one
\* reference each.
Init ==
  /\ l = 0
  /\ v \in SUBSET Flag
  /\ c_ref = [i \in Flag |-> IF i \in v THEN 1 ELSE 0]
  /\ due = c_ref
  /\ pc = [x \in Proc |-> "idle"]
  /\ op = [w \in Writer |-> "dump"]
  /\ mask = [w \in Writer |-> {}]
  /\ j = [w \in Writer |-> 0]
  /\ expected = [w \in Writer |-> {}]
  /\ desired = [w \in Writer |-> {}]
  /\ reg = [w \in Writer |-> 0]
  /\ callers = {}
  /\ timer = [x \in Waiter |-> "none"]

InCall(w) ==
  \/ EnterLock(w) \/ Loop(w) \/ SwapLoad(w) \/ SwapLoad2(w) \/ Swap(w)
  \/ RefTest(w) \/ RefLoad(w) \/ RefStore(w) \/ RefZero(w) \/ ExitLock(w)

Waiting(x) == WaitArm(x) \/ WaitTest(x) \/ WaitTimer(x)

Next ==
  \/ \E w \in Writer :
       \/ \E o \in {"set", "unset", "clear", "dump"}, m \in SUBSET Flag : Call(w, o, m)
       \/ InCall(w) \/ Die(w)
  \/ \E x \in Waiter : WaitCall(x) \/ Waiting(x) \/ TimeOut(x)

\* A process that is in a call and alive keeps running, and time passes.
Fairness ==
  /\ \A w \in Writer : WF_vars(InCall(w))
  /\ \A x \in Waiter : WF_vars(Waiting(x)) /\ WF_vars(TimeOut(x))

Spec == Init /\ [][Next]_vars

FairSpec == Spec /\ Fairness

---------------------------------------------------------------------------------
(* What the flags promise. *)

Quiet == \A w \in Writer : pc[w] = "idle"

\* Between calls a flag is on exactly while it has references.
RefInSync == Quiet => \A i \in Flag : i \in v <=> c_ref[i] > 0

\* At most one writer has made a call so far.
SoleWriter == \E w \in Writer : OnlyCaller(w)

\* As long as a single writer has made calls, the counters are, between its calls,
\* what the calls have asked for: set adds one, unset takes one unless there is
\* none, clear takes all.
RefExact == SoleWriter => (Quiet => c_ref = due /\ RefInSync)

\* Whoever looks at the flag word while the only writer so far is in the middle of
\* a call sees every flag that has references, except one that is being cleared.
ReferencedIsOn ==
  SoleWriter =>
    \A i \in Flag :
      c_ref[i] > 0 =>
        \/ i \in v
        \/ \E w \in Writer : op[w] = "clear" /\ i \in mask[w] /\ pc[w] \in {"ref_zero", "dead"}

OthersQuiet(w) == \A x \in Writer \ {w} : pc[x] \in {"idle", "dead"}

\* A call that has passed the lock returns whatever the others do, and no death
\* takes the lock with it: a call waits at the lock for ever only if others keep
\* calling.  (They may then: the loop is left when the lock word was 1, so a writer
\* that finds it 0 each time it looks is passed by all who find the 1 it leaves.)
CallsReturn ==
  \A w \in Writer :
    /\ pc[w] \notin {"idle", "lock"} ~> pc[w] \in {"idle", "dead"}
    /\ <>[]OthersQuiet(w) => (pc[w] = "lock" ~> pc[w] # "lock")

\* A wait returns, at the latest when its timer event is due or at once when there
\* is none, whatever the writers do.
WaitReturns == \A x \in Waiter : (pc[x] # "idle") ~> (pc[x] = "idle")

---------------------------------------------------------------------------------
(* The inductive invariant behind RefExact and ReferencedIsOn, for a writer w   *)
(* that is the only one to have made calls and alive.                           *)

\* The call of w has not reached the counter of flag i yet.
Before(w, i) ==
  /\ i \in mask[w]
  /\ \/ pc[w] = "lock"
     \/ pc[w] \in {"load", "load2", "swap"} /\ op[w] = "set"
     \/ pc[w] \in {"load", "load2", "swap"} /\ op[w] = "clear" /\ j[w] <= i
     \/ pc[w] \in {"load", "load2", "swap"} /\ op[w] = "unset" /\ j[w] < i
     \/ pc[w] \in {"loop", "ref_test", "ref_load", "ref_store", "ref_zero"} /\ j[w] <= i

CountsTrackCalls(w) ==
  \A i \in Flag : due[i] = IF Before(w, i) THEN After(op[w], c_ref[i]) ELSE c_ref[i]

\* set turns flags on before it counts them, unset turns a flag off after it has
\* lost its last reference, clear turns it off first.
FlagsTrackCounts(w) ==
  \A i \in Flag :
    CASE op[w] = "set" /\ pc[w] \in {"loop", "ref_load", "ref_store"} /\ i \in mask[w] /\ j[w] <= i
           -> i \in v
      [] op[w] = "unset" /\ pc[w] \in {"load", "load2", "swap"} /\ i = j[w]
           -> i \in v /\ c_ref[i] = 0
      [] op[w] = "clear" /\ pc[w] = "ref_zero" /\ i = j[w]
           -> i \notin v
      [] OTHER
           -> i \in v <=> c_ref[i] > 0

\* What the call of w holds in its locals.
LocalsCurrent(w) ==
  /\ pc[w] \in {"loop", "load", "load2", "swap"} => op[w] # "dump"
  /\ pc[w] = "ref_test" => op[w] = "unset"
  /\ pc[w] \in {"ref_load", "ref_store"} => op[w] \in {"set", "unset"}
  /\ pc[w] = "ref_zero" => op[w] = "clear"
  /\ pc[w] \in {"ref_test", "ref_load", "ref_store", "ref_zero"} => j[w] \in mask[w]
  /\ pc[w] \in {"load", "load2", "swap"} /\ op[w] # "set" => j[w] \in mask[w]
  /\ pc[w] \in {"load", "load2", "swap"} /\ op[w] = "set" => j[w] = 0
  /\ pc[w] \in {"load2", "swap"} => expected[w] = v
  /\ pc[w] = "swap" => desired[w] = IF op[w] = "set" THEN v \cup mask[w] ELSE v \ {j[w]}
  /\ pc[w] \in {"ref_load", "ref_store"} /\ op[w] = "unset" => c_ref[j[w]] > 0
  /\ pc[w] = "ref_store" => reg[w] = c_ref[j[w]]

CallersKnown == \A w \in Writer : pc[w] # "idle" => w \in callers

SoleInv ==
  /\ CallersKnown
  /\ ReferencedIsOn
  /\ \A w \in Writer :
       OnlyCaller(w) /\ pc[w] # "dead" =>
         CountsTrackCalls(w) /\ FlagsTrackCounts(w) /\ LocalsCurrent(w)
=================================================================================
