-------------------------------- MODULE Process --------------------------------
(***************************************************************************)
(* Supervised child processes (src/process.c, the POSIX part) driven by    *)
(* the state machine macros of libinac/fsm.h.  One thread makes the calls  *)
(* on the process records of a context; the children it forks end when     *)
(* they like.  A call is one step, except a start that waits for its child *)
(* (INA_PROCESS_CF_WAIT), which is a step for the fork and one for the     *)
(* return of waitpid: no other call can tell the system calls of a call    *)
(* apart, as only this thread reaps children.                              *)
(*                                                                         *)
(* mine, misfit, interrupted and astray are not in the code: the children  *)
(* a record forked since it was created or last reset, the records that    *)
(* since then got an event their state does not expect, those whose wait   *)
(* was cut short by a signal, and the records without a child that were    *)
(* asked for an exit code and reaped the child of another.                 *)
(***************************************************************************)
EXTENDS Integers

CONSTANTS Rec,      \* process records of the context's memory pool
          MaxPid,   \* bound: children forked (no process id is used twice)
          MaxCode   \* bound: exit codes

ASSUME ProcessConstants ==
  /\ MaxPid \in Nat
  /\ MaxCode \in Nat

Pid  == 1 .. MaxPid
Code == 0 .. MaxCode

VARIABLES
  desc,       \* process->descriptor: "wait" with INA_PROCESS_CF_WAIT, "plain"
              \* without, "null" after free; "unused": not allocated yet
  state,      \* state of the record's state machine
  pid,        \* process->pid
  exit_code,  \* process->exit_code
  last_rc,    \* process->last_rc, as far as INA_FAILED tells
  call,       \* the call that waits for the record's child
  status,     \* kernel: what became of each child
  code,       \* kernel: the code a child exited with
  mine, misfit, interrupted, astray

record  == <<desc, state, pid, exit_code, last_rc>>
kernel  == <<status, code>>
history == <<mine, misfit, interrupted, astray>>
vars    == <<record, call, kernel, history>>

STARTABLE == "startable"
RUNNING   == "running"
STOPPED   == "stopped"
State     == {STARTABLE, RUNNING, STOPPED}

\* process_fsm: the next state of each event and state.  The transitions whose
\* action is __ina_process_fsm_event_error change the state all the same.
OnStart(s) == IF s = STARTABLE THEN RUNNING ELSE STARTABLE
OnStop(s)  == IF s = RUNNING THEN STOPPED ELSE RUNNING
OnReset(s) == IF s = STOPPED THEN STARTABLE ELSE STOPPED

InUse(r) == desc[r] \in {"plain", "wait"}
Idle     == \A r \in Rec : call[r] = "none"
Ready(r) == InUse(r) /\ Idle

Zombie == {p \in Pid : status[p] \in {"exited", "signaled"}}

Unreaped == Zombie \cup {p \in Pid : status[p] = "running"}

\* waitpid returns p: the kernel forgets it.
Reaped(p) == [status EXCEPT ![p] = IF @ = "exited" THEN "reaped" ELSE "reaped_signaled"]

SetState(r, s) == state' = [state EXCEPT ![r] = s]
SetRc(r, rc)   == last_rc' = [last_rc EXCEPT ![r] = rc]
Misfit(r, s)   == misfit' = IF state[r] = s THEN misfit ELSE misfit \cup {r}

StartsOver(r)  == /\ mine' = [mine EXCEPT ![r] = {}]
                  /\ misfit' = misfit \ {r}
                  /\ interrupted' = interrupted \ {r}

TypeOK ==
  /\ desc \in [Rec -> {"unused", "null", "plain", "wait"}]
  /\ state \in [Rec -> State]
  /\ pid \in [Rec -> 0 .. MaxPid]
  /\ exit_code \in [Rec -> -1 .. MaxCode]
  /\ last_rc \in [Rec -> {"ok", "failed"}]
  /\ call \in [Rec -> {"none", "start", "cron"}]
  /\ status \in [Pid -> {"unborn", "running", "exited", "signaled",
                         "reaped", "reaped_signaled"}]
  /\ code \in [Pid -> Code]
  /\ mine \in [Rec -> SUBSET Pid]
  /\ misfit \in SUBSET Rec
  /\ interrupted \in SUBSET Rec
  /\ astray \in SUBSET Rec
--------------------------------------------------------------------------------
\* ina_process_new: every record whose descriptor is gone is zeroed and one of
\* them is used again; only if there is none, a new one is taken from the pool,
\* whose memory is zero.
Recyclable == {r \in Rec : desc[r] = "null"}

Zero(R) ==
  /\ state' = [r \in Rec |-> IF r \in R THEN STARTABLE ELSE state[r]]
  /\ pid' = [r \in Rec |-> IF r \in R THEN 0 ELSE pid[r]]
  /\ last_rc' = [r \in Rec |-> IF r \in R THEN "ok" ELSE last_rc[r]]

New(r, d) ==
  /\ Idle
  /\ desc[r] = "null" \/ (desc[r] = "unused" /\ Recyclable = {})
  /\ desc' = [desc EXCEPT ![r] = d]
  /\ Zero(Recyclable \cup {r})
  /\ exit_code' = [q \in Rec |-> IF q = r THEN -1
                                 ELSE IF q \in Recyclable THEN 0 ELSE exit_code[q]]
  /\ StartsOver(r)
  /\ UNCHANGED <<call, kernel, astray>>

\* There is no memory for the copy of the descriptor.
NewFails ==
  /\ Idle
  /\ Recyclable # {}
  /\ Zero(Recyclable)
  /\ exit_code' = [q \in Rec |-> IF q \in Recyclable THEN 0 ELSE exit_code[q]]
  /\ UNCHANGED <<desc, call, kernel, history>>

\* ina_process_free: the record goes back to the context, its child goes on.
Free(r) ==
  /\ Ready(r)
  /\ desc' = [desc EXCEPT ![r] = "null"]
  /\ UNCHANGED <<state, pid, exit_code, last_rc, call, kernel, history>>

\* fork: the child runs, and the record holds its process id.
Fork(r, p) ==
  /\ status[p] = "unborn"
  /\ \A q \in Pid : status[q] = "unborn" => p <= q
  /\ status' = [status EXCEPT ![p] = "running"]
  /\ pid' = [pid EXCEPT ![r] = p]
  /\ mine' = [mine EXCEPT ![r] = @ \cup {p}]

\* The state ina_process_start leaves: with INA_PROCESS_CF_WAIT always STOPPED.
AfterStart(r) == IF desc[r] = "wait" THEN STOPPED ELSE OnStart(state[r])

StartError(r) ==
  /\ Ready(r)
  /\ state[r] # STARTABLE
  /\ SetState(r, AfterStart(r))
  /\ Misfit(r, STARTABLE)
  /\ UNCHANGED <<desc, pid, exit_code, last_rc, call, kernel, mine, interrupted, astray>>

StartForkFails(r) ==
  /\ Ready(r)
  /\ state[r] = STARTABLE
  /\ SetState(r, AfterStart(r))
  /\ SetRc(r, "failed")
  /\ UNCHANGED <<desc, pid, exit_code, call, kernel, history>>

StartFork(r) ==
  /\ Ready(r)
  /\ state[r] = STARTABLE
  /\ \E p \in Pid : Fork(r, p)
  /\ IF desc[r] = "wait"
     THEN call' = [call EXCEPT ![r] = "start"] /\ UNCHANGED state
     ELSE SetState(r, RUNNING) /\ UNCHANGED call
  /\ UNCHANGED <<desc, exit_code, last_rc, code, misfit, interrupted, astray>>

\* __ina_process_cron_start_cb and __ina_process_cron_stop_cb fire only the
\* events that fit.  The one after the other: a stopped process is reset at once.
CronStart(r) ==
  /\ Ready(r)
  /\ state[r] = STARTABLE
  /\ \E p \in Pid : Fork(r, p)
  /\ IF desc[r] = "wait"
     THEN call' = [call EXCEPT ![r] = "cron"] /\ UNCHANGED state
     ELSE SetState(r, RUNNING) /\ UNCHANGED call
  /\ UNCHANGED <<desc, exit_code, last_rc, code, misfit, interrupted, astray>>

CronStartForkFails(r) ==
  /\ Ready(r)
  /\ state[r] = STARTABLE
  /\ SetState(r, RUNNING)
  /\ SetRc(r, "failed")
  /\ UNCHANGED <<desc, pid, exit_code, call, kernel, history>>

CronStop(r) ==
  /\ Ready(r)
  /\ state[r] = RUNNING
  /\ SetState(r, STARTABLE)
  /\ pid' = [pid EXCEPT ![r] = 0]
  /\ exit_code' = [exit_code EXCEPT ![r] = -1]
  /\ SetRc(r, "ok")
  /\ StartsOver(r)
  /\ UNCHANGED <<desc, call, kernel, astray>>

\* Mutant: waitpid is called with WNOHANG and returns at once.
WaitReturn_NoHang(r) ==
  /\ call[r] # "none"
  /\ status' = IF pid[r] \in Zombie THEN Reaped(pid[r]) ELSE status
  /\ exit_code' = IF status[pid[r]] = "exited"
                  THEN [exit_code EXCEPT ![r] = code[pid[r]]] ELSE exit_code
  /\ SetState(r, IF call[r] = "start" THEN STOPPED ELSE RUNNING)
  /\ call' = [call EXCEPT ![r] = "none"]
  /\ UNCHANGED <<desc, pid, last_rc, code, history>>

\* Mutant: the status word is stored as waitpid returned it.
WaitReturn_RawStatus(r) ==
  /\ call[r] # "none"
  /\ pid[r] \in Zombie
  /\ status' = Reaped(pid[r])
  /\ exit_code' = IF status[pid[r]] = "exited"
                  THEN [exit_code EXCEPT ![r] = 256 * code[pid[r]]] ELSE exit_code
  /\ SetState(r, IF call[r] = "start" THEN STOPPED ELSE RUNNING)
  /\ call' = [call EXCEPT ![r] = "none"]
  /\ UNCHANGED <<desc, pid, last_rc, code, history>>

\* waitpid of a start that waits, and the return: the state the action sets is
\* overwritten by the state machine, and that one by ina_process_start.
WaitReturn(r) ==
  /\ call[r] # "none"
  /\ pid[r] \in Zombie
  /\ status' = Reaped(pid[r])
  /\ exit_code' = IF status[pid[r]] = "exited"
                  THEN [exit_code EXCEPT ![r] = code[pid[r]]] ELSE exit_code
  /\ SetState(r, IF call[r] = "start" THEN STOPPED ELSE RUNNING)
  /\ call' = [call EXCEPT ![r] = "none"]
  /\ UNCHANGED <<desc, pid, last_rc, code, history>>

\* The library's signal handlers are set up without SA_RESTART: when one returns
\* (INA_SIGNAL_BEHAVIOR_IGNORE), waitpid fails, and its result is not looked at.
\* The status word is still zero, which reads as an exit with code 0.
WaitInterrupted(r) ==
  /\ call[r] # "none"
  /\ exit_code' = [exit_code EXCEPT ![r] = 0]
  /\ SetState(r, IF call[r] = "start" THEN STOPPED ELSE RUNNING)
  /\ call' = [call EXCEPT ![r] = "none"]
  /\ interrupted' = interrupted \cup {r}
  /\ UNCHANGED <<desc, pid, last_rc, kernel, mine, misfit, astray>>

\* ina_process_stop sends SIGTERM and does not wait.  Only the return code tells
\* whether that worked: a child may end at any time anyway.  It fails when the
\* child is gone or runs under another user.
Stop(r) ==
  /\ Ready(r)
  /\ SetState(r, OnStop(state[r]))
  /\ IF state[r] = RUNNING /\ pid[r] # 0
     THEN \E rc \in {"ok", "failed"} : (rc = "ok" => pid[r] \in Unreaped) /\ SetRc(r, rc)
     ELSE UNCHANGED last_rc
  /\ Misfit(r, RUNNING)
  /\ UNCHANGED <<desc, pid, exit_code, call, kernel, mine, interrupted, astray>>

\* Mutant: the exit code of the last run stays.
Reset_KeepsCode(r) ==
  /\ Ready(r)
  /\ state[r] = STOPPED
  /\ SetState(r, OnReset(state[r]))
  /\ pid' = [pid EXCEPT ![r] = 0]
  /\ SetRc(r, "ok")
  /\ StartsOver(r)
  /\ UNCHANGED <<desc, exit_code, call, kernel, astray>>

Reset(r) ==
  /\ Ready(r)
  /\ state[r] = STOPPED
  /\ SetState(r, OnReset(state[r]))
  /\ pid' = [pid EXCEPT ![r] = 0]
  /\ exit_code' = [exit_code EXCEPT ![r] = -1]
  /\ SetRc(r, "ok")
  /\ StartsOver(r)
  /\ UNCHANGED <<desc, call, kernel, astray>>

ResetError(r) ==
  /\ Ready(r)
  /\ state[r] # STOPPED
  /\ SetState(r, OnReset(state[r]))
  /\ Misfit(r, STOPPED)
  /\ UNCHANGED <<desc, pid, exit_code, last_rc, call, kernel, mine, interrupted, astray>>
--------------------------------------------------------------------------------
(* ina_process_get_exit_code, with __ina_process_is_running.                   *)

\* The children waitpid looks at.  Process id 0, of a record without a child,
\* stands for all children of the caller's process group.
Targets(r) == IF pid[r] = 0 THEN Unreaped ELSE Unreaped \cap {pid[r]}

GetRunning(r) ==
  /\ Ready(r)
  /\ Targets(r) # {}
  /\ Targets(r) \cap Zombie = {}
  /\ SetRc(r, "ok")
  /\ UNCHANGED <<desc, state, pid, exit_code, call, kernel, history>>

\* Mutant: a child that has ended is reaped and its status is not looked at.
GetReap_Forgets(r) ==
  /\ Ready(r)
  /\ \E p \in Targets(r) \cap Zombie : status' = Reaped(p)
  /\ astray' = IF pid[r] = 0 THEN astray \cup {r} ELSE astray
  /\ UNCHANGED <<record, call, code, mine, misfit, interrupted>>

\* A child that has ended is reaped; its code is kept when the record has none.
GetReap(r) ==
  /\ Ready(r)
  /\ \E p \in Targets(r) \cap Zombie :
       /\ status' = Reaped(p)
       /\ IF exit_code[r] < 0 /\ status[p] = "exited"
          THEN exit_code' = [exit_code EXCEPT ![r] = code[p]] /\ SetRc(r, "ok")
          ELSE UNCHANGED <<exit_code, last_rc>>
  /\ astray' = IF pid[r] = 0 THEN astray \cup {r} ELSE astray
  /\ UNCHANGED <<desc, state, pid, call, code, mine, misfit, interrupted>>

\* Nothing to wait for.  That is no failure when start has waited already.
GetNone(r) ==
  /\ Ready(r)
  /\ Targets(r) = {}
  /\ SetRc(r, IF pid[r] # 0 /\ desc[r] = "wait" THEN "ok" ELSE "failed")
  /\ UNCHANGED <<desc, state, pid, exit_code, call, kernel, history>>

\* kill fails for another reason: the child runs under another user.
GetRefused(r) ==
  /\ Ready(r)
  /\ pid[r] # 0
  /\ Targets(r) # {}
  /\ SetRc(r, "failed")
  /\ UNCHANGED <<desc, state, pid, exit_code, call, kernel, history>>
--------------------------------------------------------------------------------
(* The children.                                                               *)
Exit(p, c) ==
  /\ status[p] = "running"
  /\ status' = [status EXCEPT ![p] = "exited"]
  /\ code' = [code EXCEPT ![p] = c]
  /\ UNCHANGED <<record, call, history>>

Signaled(p) ==
  /\ status[p] = "running"
  /\ status' = [status EXCEPT ![p] = "signaled"]
  /\ UNCHANGED <<record, call, code, history>>
--------------------------------------------------------------------------------
Init ==
  /\ desc = [r \in Rec |-> "unused"]
  /\ state = [r \in Rec |-> STARTABLE]
  /\ pid = [r \in Rec |-> 0]
  /\ exit_code = [r \in Rec |-> 0]
  /\ last_rc = [r \in Rec |-> "ok"]
  /\ call = [r \in Rec |-> "none"]
  /\ status = [p \in Pid |-> "unborn"]
  /\ code = [p \in Pid |-> 0]
  /\ mine = [r \in Rec |-> {}]
  /\ misfit = {}
  /\ interrupted = {}
  /\ astray = {}

Start(r)       == StartError(r) \/ StartForkFails(r) \/ StartFork(r)
CronJob(r)     == CronStart(r) \/ CronStartForkFails(r) \/ CronStop(r)
GetExitCode(r) == GetRunning(r) \/ GetReap(r) \/ GetNone(r) \/ GetRefused(r)

Next ==
  \/ \E r \in Rec :
       \/ \E d \in {"plain", "wait"} : New(r, d)
       \/ Start(r) \/ WaitReturn(r) \/ WaitInterrupted(r) \/ CronJob(r) \/ Stop(r)
       \/ Reset(r) \/ ResetError(r) \/ GetExitCode(r) \/ Free(r)
  \/ NewFails
  \/ \E p \in Pid : Signaled(p) \/ \E c \in Code : Exit(p, c)

Spec == Init /\ [][Next]_vars
--------------------------------------------------------------------------------
\* A record that got only events that fit its state has the exit code of its
\* present child exactly when that child has exited and was reaped: no code of an
\* earlier run or of an earlier owner of the record is handed out, and none is
\* lost.  It holds as long as no signal cut its wait short, and no record without a
\* child is asked for an exit code, because that reaps whatever child has ended.
ExitCodeExact ==
  astray = {} =>
    \A r \in Rec :
      InUse(r) /\ r \notin misfit /\ r \notin interrupted =>
        IF pid[r] # 0 /\ status[pid[r]] = "reaped"
        THEN exit_code[r] = code[pid[r]]
        ELSE exit_code[r] = -1

\* Whatever events a record got, its exit code is the one of a child it forked
\* since it was created or reset, unless a signal cut its wait short.
ExitCodeGenuine ==
  astray = {} =>
    \A r \in Rec :
      InUse(r) /\ r \notin interrupted /\ exit_code[r] # -1 =>
        \E p \in mine[r] : status[p] = "reaped" /\ code[p] = exit_code[r]

\* Between calls the present child of a record whose starts wait has ended and
\* is gone, also after a start by the cron, which leaves the state RUNNING, unless
\* a signal cut the wait short.
WaitedGone ==
  \A r \in Rec :
    desc[r] = "wait" /\ call[r] = "none" /\ r \notin interrupted /\ pid[r] # 0 =>
      pid[r] \notin Unreaped
--------------------------------------------------------------------------------
(* The inductive invariant behind the properties above.                        *)

\* A start that waits has a child to wait for.
WaitingHasChild ==
  \A r \in Rec : call[r] # "none" => desc[r] = "wait" /\ pid[r] \in Unreaped

\* The process id of a record is the one of a child it forked.
ChildKnown ==
  \A r \in Rec :
    InUse(r) /\ pid[r] # 0 => pid[r] \in mine[r] /\ status[pid[r]] # "unborn"

\* No two records have one child.
ChildOwn ==
  \A r, q \in Rec :
    InUse(r) /\ InUse(q) /\ pid[r] # 0 /\ pid[r] = pid[q] => r = q

\* With events that fit, a record that can be started has forgotten no child.
FreshHasNone ==
  \A r \in Rec :
    InUse(r) /\ r \notin misfit /\ state[r] = STARTABLE /\ call[r] = "none" => pid[r] = 0

ProcessInv ==
  /\ WaitingHasChild
  /\ ChildKnown
  /\ ChildOwn
  /\ FreshHasNone
  /\ ExitCodeExact
  /\ ExitCodeGenuine
  /\ WaitedGone
================================================================================
