------------------------------- MODULE UllcSignal -------------------------------
(***************************************************************************)
(* The wait strategy INA_ULLC_WS_SIGNAL_WAIT of the ULLC ring: producers   *)
(* release a System V semaphore after each commit, a consumer that finds   *)
(* nothing new waits on it.  The ring itself is reduced to the number of   *)
(* committed items and the number each consumer has read (module Ullc has  *)
(* the rest); commit and get are single steps here.                        *)
(*                                                                         *)
(* The kernel's part (semget, semctl, semop, SEM_UNDO) is modelled as the  *)
(* code in src/ullc.c uses it.  Only the semaphore set that the key names  *)
(* can still exist, so its identifier and its value are all there is.      *)
(* Every context has read the key of the ring: an opener that comes before *)
(* the key is stored (AttachedInitialised of module Ullc) has a private    *)
(* set and no part in this.                                                *)
(***************************************************************************)
EXTENDS Integers

CONSTANTS Producer, Consumer,
          MaxItems,   \* bound: items committed
          MaxSems     \* bound: semaphore sets created

ASSUME SignalConstants ==
  /\ Producer \cap Consumer = {}
  /\ MaxItems \in Nat
  /\ MaxSems \in Nat

VARIABLES
  items,   \* items committed to the ring
  seen,    \* items each consumer has read
  semid,   \* identifier the key names; 0: no such set
  last,    \* last identifier the kernel gave out
  value,   \* value of semaphore 0 of the set
  handle,  \* ctx->sem_handle of each context; 0: the failed semget of a consumer
  undo,    \* SEM_UNDO adjustment the kernel keeps for each process
  pc,
  split,   \* history: a new set was created while a producer used the old one
  ended    \* history: a producer's process ended attached, and no producer has set
           \* the value since

vars == <<items, seen, semid, last, value, handle, undo, pc, split, ended>>

Proc == Producer \cup Consumer

Goto(x, label) == pc' = [pc EXCEPT ![x] = label]

\* The identifier a context holds is the one of the existing set.
Valid(x) == handle[x] # 0 /\ handle[x] = semid

\* Identifiers, tokens and positions stay in range; in particular the value of
\* the semaphore never drops below 0.
TypeOK ==
  /\ items \in 0 .. MaxItems
  /\ seen \in [Consumer -> 0 .. MaxItems]
  /\ semid \in 0 .. MaxSems
  /\ last \in 0 .. MaxSems
  /\ value \in Nat
  /\ handle \in [Proc -> 0 .. MaxSems]
  /\ undo \in [Proc -> Int]
  /\ pc \in [Proc -> {"down", "setval", "up", "release", "wait"}]
  /\ split \in {"yes", "no"}
  /\ ended \in {"yes", "no"}

---------------------------------------------------------------------------------
(* The kernel. *)

\* semget with IPC_CREAT: the set the key names, or a new one with value 0.
SemGet(x) ==
  \/ /\ semid # 0
     /\ handle' = [handle EXCEPT ![x] = semid]
     /\ UNCHANGED <<semid, last, value>>
  \/ /\ semid = 0
     /\ last < MaxSems
     /\ last' = last + 1
     /\ semid' = last + 1
     /\ value' = 0
     /\ handle' = [handle EXCEPT ![x] = last + 1]

\* IPC_RMID removes the set for everyone and forgets its adjustments.
RmId(x) ==
  /\ semid' = IF Valid(x) THEN 0 ELSE semid
  /\ value' = IF Valid(x) THEN 0 ELSE value
  /\ undo' = IF Valid(x) THEN [y \in Proc |-> 0] ELSE undo

\* SETVAL clears the adjustments of all processes; it fails on a set that is
\* gone.
SetVal(x, n) ==
  /\ value' = IF Valid(x) THEN n ELSE value
  /\ undo' = IF Valid(x) THEN [y \in Proc |-> 0] ELSE undo

\* The end of a process gives back what its operations with SEM_UNDO took from the
\* semaphore and takes back what they gave, but not below 0.
ExitAdjust(x) ==
  /\ value' = IF value + undo[x] < 0 THEN 0 ELSE value + undo[x]
  /\ undo' = [undo EXCEPT ![x] = 0]

---------------------------------------------------------------------------------
(* Opening and closing. *)

\* __ina_sem_create: semget ...
SemCreate(p) ==
  /\ pc[p] = "down"
  /\ SemGet(p)
  /\ Goto(p, "setval")
  /\ split' = IF semid = 0 /\ \E q \in Producer : pc[q] # "down" THEN "yes" ELSE split
  /\ UNCHANGED <<items, seen, undo, ended>>

\* Mutant: the semaphore starts closed.
SemSetVal_Zero(p) ==
  /\ pc[p] = "setval"
  /\ SetVal(p, 0)
  /\ Goto(p, IF Valid(p) THEN "up" ELSE "down")
  /\ ended' = IF Valid(p) THEN "no" ELSE ended
  /\ UNCHANGED <<items, seen, semid, last, handle, split>>

\* ... then SETVAL 1 on whatever set there is, one in use included.  If it fails
\* the caller is left without a context (although ina_ullc_producer_new reports
\* success).
SemSetVal(p) ==
  /\ pc[p] = "setval"
  /\ SetVal(p, 1)
  /\ Goto(p, IF Valid(p) THEN "up" ELSE "down")
  /\ ended' = IF Valid(p) THEN "no" ELSE ended
  /\ UNCHANGED <<items, seen, semid, last, handle, split>>

\* __ina_sem_open: a missing set is not reported.  The consumer starts with the
\* items to come.
SemOpen(c) ==
  /\ pc[c] = "down"
  /\ handle' = [handle EXCEPT ![c] = semid]
  /\ seen' = [seen EXCEPT ![c] = items]
  /\ Goto(c, "up")
  /\ UNCHANGED <<items, semid, last, value, undo, split, ended>>

\* __ina_sem_close, by either kind of context.
SemClose(x) ==
  /\ pc[x] = "up"
  /\ RmId(x)
  /\ Goto(x, "down")
  /\ UNCHANGED <<items, seen, last, handle, split, ended>>

\* A process that is attached ends, wherever it is, without freeing its context: it
\* is killed, or its owner simply returns from main.
ProcessExit(x) ==
  /\ pc[x] # "down"
  /\ ExitAdjust(x)
  /\ ended' = IF x \in Producer THEN "yes" ELSE ended
  /\ Goto(x, "down")
  /\ UNCHANGED <<items, seen, semid, last, handle, split>>

---------------------------------------------------------------------------------
(* Traffic. *)
Commit(p) ==
  /\ pc[p] = "up"
  /\ items < MaxItems
  /\ items' = items + 1
  /\ Goto(p, "release")
  /\ UNCHANGED <<seen, semid, last, value, handle, undo, split, ended>>

\* INA_ULLC_SIGNAL_RELEASE: semop +1 with SEM_UNDO.  An error is returned to the
\* caller; nothing in the library looks at it.
SignalRelease(p) ==
  /\ pc[p] = "release"
  /\ value' = IF Valid(p) THEN value + 1 ELSE value
  /\ undo' = IF Valid(p) THEN [undo EXCEPT ![p] = @ - 1] ELSE undo
  /\ Goto(p, "up")
  /\ UNCHANGED <<items, seen, semid, last, handle, split, ended>>

\* INA_ULLC_GET: the next item, or nothing new and on to INA_ULLC_SWAIT.
Get(c) ==
  /\ pc[c] = "up"
  /\ \/ /\ seen[c] < items
        /\ seen' = [seen EXCEPT ![c] = @ + 1]
        /\ UNCHANGED pc
     \/ /\ seen[c] = items
        /\ Goto(c, "wait")
        /\ UNCHANGED seen
  /\ UNCHANGED <<items, semid, last, value, handle, undo, split, ended>>

\* Mutant: the wait does not block.
SWait_NoBlock(c) ==
  /\ pc[c] = "wait"
  /\ value' = IF Valid(c) THEN value - 1 ELSE value
  /\ undo' = IF Valid(c) THEN [undo EXCEPT ![c] = @ + 1] ELSE undo
  /\ Goto(c, "up")
  /\ UNCHANGED <<items, seen, semid, last, handle, split, ended>>

\* Mutant: the wait goes on when the set is removed.
SWait_Retries(c) ==
  /\ pc[c] = "wait"
  /\ Valid(c)
  /\ value > 0
  /\ value' = value - 1
  /\ undo' = [undo EXCEPT ![c] = @ + 1]
  /\ Goto(c, "up")
  /\ UNCHANGED <<items, seen, semid, last, handle, split, ended>>

\* INA_ULLC_SWAIT: semop -1 with SEM_UNDO.  It returns with an error at once, or
\* wakes with one, when the set does not exist (any more).
SWait(c) ==
  /\ pc[c] = "wait"
  /\ \/ /\ ~Valid(c)
        /\ UNCHANGED <<value, undo>>
     \/ /\ Valid(c)
        /\ value > 0
        /\ value' = value - 1
        /\ undo' = [undo EXCEPT ![c] = @ + 1]
  /\ Goto(c, "up")
  /\ UNCHANGED <<items, seen, semid, last, handle, split, ended>>

---------------------------------------------------------------------------------
Init ==
  /\ items = 0
  /\ seen = [c \in Consumer |-> 0]
  /\ semid = 0
  /\ last = 0
  /\ value = 0
  /\ handle = [x \in Proc |-> 0]
  /\ undo = [x \in Proc |-> 0]
  /\ pc = [x \in Proc |-> "down"]
  /\ split = "no"
  /\ ended = "no"

ProducerStep(p) == SemSetVal(p) \/ SignalRelease(p)

Next ==
  \/ \E p \in Producer : SemCreate(p) \/ Commit(p) \/ ProducerStep(p)
  \/ \E c \in Consumer : SemOpen(c) \/ Get(c) \/ SWait(c)
  \/ \E x \in Proc : SemClose(x) \/ ProcessExit(x)

\* A producer finishes the call it is in unless its process ends; a consumer keeps running its loop, and
\* the kernel does not pass over a waiter for ever.
Fairness ==
  /\ \A p \in Producer : WF_vars(ProducerStep(p))
  /\ \A c \in Consumer : WF_vars(Get(c)) /\ SF_vars(SWait(c))

Spec == Init /\ [][Next]_vars /\ Fairness

---------------------------------------------------------------------------------
\* Every item committed while a consumer is attached is read by it, unless it
\* leaves: no wake-up is lost to the order of commit, release and wait, to a
\* producer that comes later and sets the value to 1 again, to a context that is
\* freed and takes the set away from the others, or to the end of another consumer's
\* process.  It is promised to a single consumer, one release being one token, as
\* long as no second set is created next to a producer that still holds the first,
\* and as long as no producer's process ends attached: SEM_UNDO then takes back the
\* tokens of items that are still unread.  The next producer's SETVAL makes the
\* promise good again.
ItemsRead ==
  \A c \in Consumer, k \in 1 .. MaxItems :
    (pc[c] \in {"up", "wait"} /\ items >= k)
      ~> (seen[c] >= k \/ pc[c] = "down" \/ split = "yes" \/ ended = "yes")

\* A consumer about to block on the semaphore, or blocked on it, with an item
\* left to read finds a token, or a call that will put one there is under way,
\* within the limits ItemsRead names.
WakeUpPending ==
  split = "no" /\ ended = "no" =>
    \A c \in Consumer :
      pc[c] = "wait" /\ Valid(c) /\ seen[c] < items =>
        \/ value > 0
        \/ \E p \in Producer : Valid(p) /\ pc[p] \in {"setval", "release"}
=================================================================================
