----------------------------- MODULE SharedMemory -----------------------------
(***************************************************************************)
(* The shared segments of src/src/memory.c (__ina_shm_open, __ina_shm_close *)
(* on Unix) under one name, and the processes that open them: the owners,  *)
(* which create a segment exclusively (ina_ullc_producer_new, which opens  *)
(* an existing one instead when that fails, ina_ipc_flags_new and          *)
(* ina_ipc_counter_new, which do not), and the guests, which only open one *)
(* (ina_ullc_consumer_new, ina_ullc_get_ring_info, ina_ullc_reset_ring,    *)
(* ina_ipc_flags_open, ina_ipc_counter_open).  Every system call and every *)
(* atomic access to the reference count is a step of its own, since other  *)
(* processes get in between.                                               *)
(*                                                                         *)
(* A segment is a number and segments are made in order; 0 is no segment.  *)
(* lost, crashed, orderly and deaths are not in the code: the references   *)
(* taken by processes that died, the segments on which one died, whether   *)
(* everybody released a segment before its exclusive owner did, and how    *)
(* many died.                                                              *)
(***************************************************************************)
EXTENDS Integers, FiniteSets

CONSTANTS Owner, Guest,  \* processes
          MaxSegments,   \* bound: segments ever made
          MaxDeaths      \* bound: processes that die

Proc == Owner \cup Guest

ASSUME SharedMemoryAssumption ==
  /\ IsFiniteSet(Owner)
  /\ IsFiniteSet(Guest)
  /\ Owner \cap Guest = {}
  /\ MaxSegments \in Nat
  /\ MaxDeaths \in Nat

Segment == 1 .. MaxSegments

VARIABLES use,     \* what the name is for: a "ring" of ULLC or an "ipc" object
          name,    \* the segment the name refers to
          made,    \* segments made so far
          sized,   \* segments that have been given their size
          ref,     \* of each segment: the reference count in its first word
          pc, cf, h,  \* of each process: where it is, the flags it opens with
                      \* and the segment it has open
          lost, crashed, orderly, deaths

proc == <<pc, cf, h>>
history == <<lost, crashed, orderly, deaths>>
vars == <<use, name, made, sized, ref, proc, history>>

\* Processes that are counted in segment s.
Counted(s) == {p \in Proc : pc[p] = "attached" /\ h[p] = s}

Goto(p, label) == pc' = [pc EXCEPT ![p] = label]

\* Process p has nothing open any more; it goes on at label.
Leave(p, label) == /\ Goto(p, label)
                   /\ h' = [h EXCEPT ![p] = 0]
                   /\ cf' = [cf EXCEPT ![p] = "open"]

\* After its exclusive open failed, a producer tries to open what is there.
Retry(p) == IF use = "ring" /\ cf[p] = "excl" THEN "retry" ELSE "out"
-------------------------------------------------------------------------------
Init ==
  /\ use \in {"ring", "ipc"}
  /\ name = 0
  /\ made = 0
  /\ sized = {}
  /\ ref = [s \in Segment |-> 0]
  /\ pc = [p \in Proc |-> "out"]
  /\ cf = [p \in Proc |-> "open"]
  /\ h = [p \in Proc |-> 0]
  /\ lost = [s \in Segment |-> 0]
  /\ crashed = {}
  /\ orderly = "yes"
  /\ deaths = 0

\* shm_open finds a segment under the name.
Open(p, flags, label) ==
  /\ name # 0
  /\ h' = [h EXCEPT ![p] = name]
  /\ cf' = [cf EXCEPT ![p] = flags]
  /\ Goto(p, label)
  /\ UNCHANGED <<use, name, made, sized, ref, history>>

\* shm_open makes one, of no bytes.
Create(p, flags, label) ==
  /\ name = 0
  /\ made < MaxSegments
  /\ made' = made + 1
  /\ name' = made'
  /\ h' = [h EXCEPT ![p] = made']
  /\ cf' = [cf EXCEPT ![p] = flags]
  /\ Goto(p, label)
  /\ UNCHANGED <<use, sized, ref, history>>

\* A guest opens; when there is no segment its call fails.
OpenGuest(p) ==
  /\ p \in Guest
  /\ pc[p] = "out"
  /\ Open(p, "open", "map")

\* O_CREAT | O_EXCL makes a segment or fails, and a producer tries again.
OpenOwner(p) ==
  /\ p \in Owner
  /\ pc[p] = "out"
  /\ \/ Create(p, "excl", "truncate")
     \/ /\ name # 0
        /\ use = "ring"
        /\ Goto(p, "retry")
        /\ UNCHANGED <<use, name, made, sized, ref, cf, h, history>>

\* O_CREAT alone opens the segment that is there.  When it has gone since, one is
\* made that nobody gives a size.
OpenAgain(p) ==
  /\ pc[p] = "retry"
  /\ Open(p, "create", "map") \/ Create(p, "create", "map")

\* ftruncate; if it fails the name is removed.
Truncate(p) ==
  /\ pc[p] = "truncate"
  /\ \/ Goto(p, "map") /\ sized' = sized \cup {h[p]}
     \/ Goto(p, "undo") /\ UNCHANGED sized
  /\ UNCHANGED <<use, name, made, ref, cf, h, history>>

\* Mutant: the exclusive owner's name stays when its mmap fails.
Map_NoUndo(p) ==
  /\ pc[p] = "map"
  /\ \/ Goto(p, "inc") /\ UNCHANGED <<cf, h>>
     \/ Leave(p, Retry(p))
  /\ UNCHANGED <<use, name, made, sized, ref, history>>

\* mmap, which may fail; the exclusive owner then removes the name.
Map(p) ==
  /\ pc[p] = "map"
  /\ \/ Goto(p, "inc") /\ UNCHANGED <<cf, h>>
     \/ cf[p] = "excl" /\ Goto(p, "undo") /\ UNCHANGED <<cf, h>>
     \/ cf[p] # "excl" /\ Leave(p, Retry(p))
  /\ UNCHANGED <<use, name, made, sized, ref, history>>

\* shm_unlink of whatever the name refers to, after a failure.
Undo(p) ==
  /\ pc[p] = "undo"
  /\ name' = 0
  /\ Leave(p, Retry(p))
  /\ UNCHANGED <<use, made, sized, ref, history>>

\* Mutant: the exclusive owner does not count itself.
Inc_NotOwner(p) ==
  /\ pc[p] = "inc"
  /\ h[p] \in sized
  /\ ref' = IF cf[p] = "excl" THEN ref ELSE [ref EXCEPT ![h[p]] = @ + 1]
  /\ Goto(p, "attached")
  /\ UNCHANGED <<use, name, made, sized, cf, h, history>>

\* __sync_fetch_and_add on the first word of the segment.
Inc(p) ==
  /\ pc[p] = "inc"
  /\ h[p] \in sized
  /\ ref' = [ref EXCEPT ![h[p]] = @ + 1]
  /\ Goto(p, "attached")
  /\ UNCHANGED <<use, name, made, sized, cf, h, history>>

\* The same access to a segment of no bytes ends the process (SIGBUS).
Fault(p) ==
  /\ pc[p] = "inc"
  /\ h[p] \notin sized
  /\ crashed' = crashed \cup {h[p]}
  /\ Leave(p, "out")
  /\ UNCHANGED <<use, name, made, sized, ref, lost, orderly, deaths>>

\* The order the code counts on: a process that is not the exclusive owner
\* releases the segment while the owner is counted in it.
InOrder(p) == cf[p] = "excl" \/ \E q \in Counted(h[p]) : cf[q] = "excl"

\* Mutant: the name goes with every release.
Dec_Always(p) ==
  /\ pc[p] = "attached"
  /\ ref' = [ref EXCEPT ![h[p]] = @ - 1]
  /\ orderly' = IF InOrder(p) THEN orderly ELSE "no"
  /\ Goto(p, "unlink") /\ UNCHANGED <<cf, h>>
  /\ UNCHANGED <<use, name, made, sized, lost, crashed, deaths>>

\* __sync_sub_and_fetch: cn is the value it returns.  munmap and close follow,
\* which nobody else sees, and the unlink when cn is 0 or for the owner.
Dec(p) ==
  /\ pc[p] = "attached"
  /\ LET cn == ref[h[p]] - 1
     IN  /\ ref' = [ref EXCEPT ![h[p]] = cn]
         /\ IF cn = 0 \/ cf[p] = "excl" THEN Goto(p, "unlink") /\ UNCHANGED <<cf, h>>
                                        ELSE Leave(p, "out")
  /\ orderly' = IF InOrder(p) THEN orderly ELSE "no"
  /\ UNCHANGED <<use, name, made, sized, lost, crashed, deaths>>

\* shm_unlink of whatever the name refers to now.
Unlink(p) ==
  /\ pc[p] = "unlink"
  /\ name' = 0
  /\ Leave(p, "out")
  /\ UNCHANGED <<use, made, sized, ref, history>>

\* A process dies, and its place is taken by one that starts again.
Die(p) ==
  /\ h[p] # 0
  /\ deaths < MaxDeaths
  /\ deaths' = deaths + 1
  /\ crashed' = crashed \cup {h[p]}
  /\ lost' = IF pc[p] = "attached" THEN [lost EXCEPT ![h[p]] = @ + 1] ELSE lost
  /\ Leave(p, "out")
  /\ UNCHANGED <<use, name, made, sized, ref, orderly>>

Next ==
  \E p \in Proc :
    \/ OpenGuest(p) \/ OpenOwner(p) \/ OpenAgain(p)
    \/ Truncate(p) \/ Map(p) \/ Undo(p) \/ Inc(p) \/ Fault(p)
    \/ Dec(p) \/ Unlink(p)
    \/ Die(p)

Spec == Init /\ [][Next]_vars
-------------------------------------------------------------------------------
\* The types of the variables; in particular no count goes below zero.
TypeOK ==
  /\ use \in {"ring", "ipc"}
  /\ name \in Segment \cup {0}
  /\ made \in 0 .. MaxSegments
  /\ sized \subseteq Segment
  /\ ref \in [Segment -> Nat]
  /\ pc \in [Proc -> {"out", "retry", "truncate", "map", "undo", "inc", "attached", "unlink"}]
  /\ cf \in [Proc -> {"open", "create", "excl"}]
  /\ h \in [Proc -> Segment \cup {0}]
  /\ lost \in [Segment -> Nat]
  /\ crashed \subseteq Segment
  /\ orderly \in {"yes", "no"}
  /\ deaths \in 0 .. MaxDeaths

\* The count in a segment is the number of processes that use it, and of those
\* that died while they did: the release that sees 0 is the last one, and the
\* count of a segment a process died on never gets there.
RefExact == \A s \in Segment : ref[s] = Cardinality(Counted(s)) + lost[s]

\* While its exclusive owner is attached a segment keeps its name, so that every
\* guest and every producer that opens the name meets the owner there, whoever
\* dies.  This is owed to the order in which the processes leave and not to the
\* code: a guest that leaves before the owner has counted itself, or that outlives
\* it, takes away the name of a segment others use.
NameKept ==
  orderly = "yes" =>
    \A p \in Owner : pc[p] = "attached" /\ cf[p] = "excl" => name = h[p]

\* When everybody has left, a segment that was given its size has lost its name,
\* unless a process died on it: also after failed calls, and whatever the order in
\* which its users and the owners of other segments of the name left.
NoLeak ==
  (\A p \in Proc : pc[p] = "out") /\ name \in sized => name \in crashed
===============================================================================
