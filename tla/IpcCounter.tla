------------------------------- MODULE IpcCounter -------------------------------
(***************************************************************************)
(* IPC counters (src/ipc.c): a 64-bit word in shared memory that any       *)
(* process may increment, decrement or set.  Each step is one access to    *)
(* the shared word.  increment and decrement load it twice, once for each  *)
(* argument of the compare-and-swap, and once more for the result.         *)
(***************************************************************************)
EXTENDS Integers

CONSTANTS Holder,          \* processes that have the counter open
          UINT64_MOD,      \* range of the counter (2^64 in the code)
          Step,            \* values a caller passes
          MaxCounterCalls  \* bound: calls of each process

ASSUME CounterConstants ==
  /\ UINT64_MOD \in Nat \ {0}
  /\ Step \subseteq 0 .. UINT64_MOD - 1
  /\ Holder # {}
  /\ MaxCounterCalls \in Nat

Word == 0 .. UINT64_MOD - 1

VARIABLES
  c,         \* counter->data->c
  at,        \* where in its call each process is
  operation, \* that call
  value,     \* its argument
  found,     \* first load
  wanted,    \* value to swap in
  result,    \* what the last call returned: a word, or FAILED
  made,      \* calls made
  alone      \* history: processes since whose first load nobody else changed c

counterVars == <<c, at, operation, value, found, wanted, result, made, alone>>

FAILED == UINT64_MOD  \* INA_ERR_OPERATION_FAILED, from set only

MoveTo(p, label) == at' = [at EXCEPT ![p] = label]

\* What a call does to a word that nobody else changes.
Apply(o, w, n) ==
  CASE o = "inc" -> (w + n) % UINT64_MOD
    [] o = "dec" -> (w - n) % UINT64_MOD
    [] OTHER -> n

\* Every word, the results included, is in the range of its type.
CounterTypeOK ==
  /\ c \in Word
  /\ at \in [Holder -> {"idle", "load", "load2", "swap", "reload"}]
  /\ operation \in [Holder -> {"inc", "dec", "set"}]
  /\ value \in [Holder -> Word]
  /\ found \in [Holder -> Word]
  /\ wanted \in [Holder -> Word]
  /\ result \in [Holder -> Word \cup {FAILED}]
  /\ made \in [Holder -> 0 .. MaxCounterCalls]
  /\ alone \in SUBSET Holder

---------------------------------------------------------------------------------
CounterCall(p, o, n) ==
  /\ at[p] = "idle"
  /\ made[p] < MaxCounterCalls
  /\ operation' = [operation EXCEPT ![p] = o]
  /\ value' = [value EXCEPT ![p] = n]
  /\ made' = [made EXCEPT ![p] = @ + 1]
  /\ alone' = alone \ {p}
  /\ MoveTo(p, "load")
  /\ UNCHANGED <<c, found, wanted, result>>

\* The first load.  set has nothing to do when the counter is at its value.
Load(p) ==
  /\ at[p] = "load"
  /\ found' = [found EXCEPT ![p] = c]
  /\ \/ /\ operation[p] = "set"
        /\ c = value[p]
        /\ result' = [result EXCEPT ![p] = c]
        /\ MoveTo(p, "idle")
        /\ UNCHANGED wanted
     \/ /\ operation[p] = "set"
        /\ c # value[p]
        /\ wanted' = [wanted EXCEPT ![p] = value[p]]
        /\ MoveTo(p, "swap")
        /\ UNCHANGED result
     \/ /\ operation[p] # "set"
        /\ MoveTo(p, "load2")
        /\ UNCHANGED <<wanted, result>>
  /\ alone' = alone \cup {p}
  /\ UNCHANGED <<c, operation, value, made>>

\* Mutant: the sum is not reduced to the width of the word.
Load2_Wide(p) ==
  /\ at[p] = "load2"
  /\ wanted' = [wanted EXCEPT ![p] = IF operation[p] = "inc" THEN c + value[p] ELSE c - value[p]]
  /\ MoveTo(p, "swap")
  /\ UNCHANGED <<c, operation, value, found, result, made, alone>>

\* The second load, of increment and decrement.
Load2(p) ==
  /\ at[p] = "load2"
  /\ wanted' = [wanted EXCEPT ![p] = Apply(operation[p], c, value[p])]
  /\ MoveTo(p, "swap")
  /\ UNCHANGED <<c, operation, value, found, result, made, alone>>

\* The swap; whether it took place is not looked at.
CounterSwap(p) ==
  /\ at[p] = "swap"
  /\ c' = IF c = found[p] THEN wanted[p] ELSE c
  /\ alone' = IF c' = c THEN alone ELSE alone \cap {p}
  /\ MoveTo(p, "reload")
  /\ UNCHANGED <<operation, value, found, wanted, result, made>>

\* Mutant: set fails when the counter has changed since it was read.
Reload_Inverted(p) ==
  /\ at[p] = "reload"
  /\ result' = [result EXCEPT ![p] = IF operation[p] = "set" /\ c # found[p] THEN FAILED ELSE c]
  /\ MoveTo(p, "idle")
  /\ UNCHANGED <<c, operation, value, found, wanted, made, alone>>

\* The last load: the result of increment and decrement; set fails if it reads
\* the value it started from.
Reload(p) ==
  /\ at[p] = "reload"
  /\ result' = [result EXCEPT ![p] = IF operation[p] = "set" /\ c = found[p] THEN FAILED ELSE c]
  /\ MoveTo(p, "idle")
  /\ UNCHANGED <<c, operation, value, found, wanted, made, alone>>

---------------------------------------------------------------------------------
\* The counter as ina_ipc_counter_new left it.
CounterInit ==
  /\ c \in Step
  /\ at = [p \in Holder |-> "idle"]
  /\ operation = [p \in Holder |-> "set"]
  /\ value = [p \in Holder |-> c]
  /\ found = [p \in Holder |-> 0]
  /\ wanted = [p \in Holder |-> 0]
  /\ result = [p \in Holder |-> c]
  /\ made = [p \in Holder |-> 0]
  /\ alone = {}

InCounterCall(p) == Load(p) \/ Load2(p) \/ CounterSwap(p) \/ Reload(p)

CounterNext ==
  \E p \in Holder :
    \/ \E o \in {"inc", "dec", "set"}, n \in Step : CounterCall(p, o, n)
    \/ InCounterCall(p)

CounterSpec == CounterInit /\ [][CounterNext]_counterVars

---------------------------------------------------------------------------------
\* A call during which no other process changes the counter is exact: it leaves
\* the counter at the value it found plus, minus or replaced by its argument,
\* wrapping round at either end of the word, and returns the counter it left.
\* What others load, or swap in vain, makes no difference.  (A call that is
\* disturbed may be lost or undo the other one, and reports neither.)
UndisturbedExact ==
  \A p \in alone :
    at[p] = "idle" => c = Apply(operation[p], found[p], value[p]) /\ result[p] = c

\* The inductive invariant behind UndisturbedExact.
UndisturbedInv ==
  \A p \in alone :
    /\ at[p] # "load"
    /\ at[p] \in {"load2", "swap"} => found[p] = c
    /\ at[p] = "load2" => operation[p] # "set"
    /\ at[p] = "swap" => wanted[p] = Apply(operation[p], c, value[p])
    /\ at[p] = "swap" /\ operation[p] = "set" => c # value[p]
    /\ at[p] \in {"reload", "idle"} => c = Apply(operation[p], found[p], value[p])
    /\ at[p] = "reload" /\ operation[p] = "set" => c # found[p]
    /\ at[p] = "idle" => result[p] = c
=================================================================================
