----------------------------- MODULE ProcessProofs -----------------------------
(***************************************************************************)
(* Proofs about Process, for every number of records, children and exit    *)
(* codes: types, exit codes that belong to the record's own child, and     *)
(* starts that wait leave no child behind.                                 *)
(***************************************************************************)
EXTENDS Process, TLAPS

\* What fork does to a child, a record and its history.
LEMMA ForkType ==
    ASSUME TypeOK, NEW r \in Rec, NEW p \in Pid, Fork(r, p)
    PROVE  /\ status' \in [Pid -> {"unborn", "running", "exited", "signaled",
                                   "reaped", "reaped_signaled"}]
           /\ pid' \in [Rec -> 0 .. MaxPid]
           /\ mine' \in [Rec -> SUBSET Pid]
<1>1. p \in 0 .. MaxPid
  BY ProcessConstants DEF Pid
<1>2. pid' = [pid EXCEPT ![r] = p] /\ status' = [status EXCEPT ![p] = "running"]
  BY DEF Fork
<1>3. mine' = [mine EXCEPT ![r] = @ \cup {p}]
  BY DEF Fork
<1>4. mine' \in [Rec -> SUBSET Pid]
  BY <1>3 DEF TypeOK
<1> QED BY <1>1, <1>2, <1>4 DEF TypeOK

LEMMA TypeStep == TypeOK /\ [Next]_vars => TypeOK'
<1> SUFFICES ASSUME TypeOK, [Next]_vars PROVE TypeOK'
  OBVIOUS
<1> USE ProcessConstants DEF TypeOK, Pid, Code, State, STARTABLE, RUNNING, STOPPED
<1>1. CASE UNCHANGED vars
  BY <1>1 DEF vars, record, kernel, history
<1>2. ASSUME NEW r \in Rec, NEW d \in {"plain", "wait"}, New(r, d) PROVE TypeOK'
  BY <1>2 DEF New, Recyclable, Zero, StartsOver, kernel
<1>3. ASSUME NEW r \in Rec, Start(r) PROVE TypeOK'
  <2>1. CASE StartError(r)
    BY <2>1 DEF StartError, SetState, AfterStart, OnStart, Misfit, kernel
  <2>2. CASE StartForkFails(r)
    BY <2>2 DEF StartForkFails, SetState, AfterStart, OnStart, SetRc, kernel, history
  <2>3. CASE StartFork(r)
    <3>1. PICK p \in Pid : Fork(r, p)
      BY <2>3 DEF StartFork
    <3>2. state' \in [Rec -> State] /\ call' \in [Rec -> {"none", "start", "cron"}]
      BY <2>3 DEF StartFork, SetState
    <3> HIDE DEF Pid, Code
    <3> QED BY <2>3, <3>1, <3>2, ForkType DEF StartFork
  <2> QED BY <1>3, <2>1, <2>2, <2>3 DEF Start
<1>4. ASSUME NEW r \in Rec, WaitReturn(r) PROVE TypeOK'
  BY <1>4, SMTT(30) DEF WaitReturn, Reaped, Zombie, SetState, history
<1>5. ASSUME NEW r \in Rec, CronJob(r) PROVE TypeOK'
  <2>1. CASE CronStart(r)
    <3>1. PICK p \in Pid : Fork(r, p)
      BY <2>1 DEF CronStart
    <3>2. state' \in [Rec -> State] /\ call' \in [Rec -> {"none", "start", "cron"}]
      BY <2>1 DEF CronStart, SetState
    <3> HIDE DEF Pid, Code
    <3> QED BY <2>1, <3>1, <3>2, ForkType DEF CronStart
  <2>2. CASE CronStartForkFails(r)
    BY <2>2 DEF CronStartForkFails, SetState, SetRc, kernel, history
  <2>3. CASE CronStop(r)
    BY <2>3 DEF CronStop, SetState, SetRc, StartsOver, kernel
  <2> QED BY <1>5, <2>1, <2>2, <2>3 DEF CronJob
<1>6. ASSUME NEW r \in Rec, Stop(r) PROVE TypeOK'
  BY <1>6 DEF Stop, SetState, OnStop, SetRc, Misfit, kernel
<1>7. ASSUME NEW r \in Rec, Reset(r) \/ ResetError(r) PROVE TypeOK'
  <2>1. CASE Reset(r)
    BY <2>1 DEF Reset, SetState, OnReset, SetRc, StartsOver, kernel
  <2>2. CASE ResetError(r)
    BY <2>2 DEF ResetError, SetState, OnReset, Misfit, kernel
  <2> QED BY <1>7, <2>1, <2>2
<1>8. ASSUME NEW r \in Rec, GetExitCode(r) PROVE TypeOK'
  <2>1. CASE GetRunning(r) \/ GetNone(r) \/ GetRefused(r)
    BY <2>1 DEF GetRunning, GetNone, GetRefused, SetRc, kernel, history
  <2>2. CASE GetReap(r)
    <3>1. PICK p \in Pid : /\ status' = Reaped(p)
                           /\ IF exit_code[r] < 0 /\ status[p] = "exited"
                              THEN exit_code' = [exit_code EXCEPT ![r] = code[p]] /\ SetRc(r, "ok")
                              ELSE UNCHANGED <<exit_code, last_rc>>
      BY <2>2 DEF GetReap, Zombie
    <3>2. astray' \in SUBSET Rec
      BY <2>2 DEF GetReap
    <3>3. status' \in [Pid -> {"unborn", "running", "exited", "signaled",
                               "reaped", "reaped_signaled"}]
      BY <3>1 DEF Reaped
    <3>4. exit_code' \in [Rec -> -1 .. MaxCode] /\ last_rc' \in [Rec -> {"ok", "failed"}]
      <4>1. CASE exit_code[r] < 0 /\ status[p] = "exited"
        <5>1. exit_code' = [exit_code EXCEPT ![r] = code[p]]
          BY <3>1, <4>1
        <5>2. last_rc' = [last_rc EXCEPT ![r] = "ok"]
          BY <3>1, <4>1 DEF SetRc
        <5>3. code[p] \in -1 .. MaxCode
          OBVIOUS
        <5> QED BY <5>1, <5>2, <5>3
      <4>2. CASE ~(exit_code[r] < 0 /\ status[p] = "exited")
        BY <3>1, <4>2
      <4> QED BY <4>1, <4>2
    <3> QED BY <2>2, <3>2, <3>3, <3>4 DEF GetReap
  <2> QED BY <1>8, <2>1, <2>2 DEF GetExitCode
<1>9. ASSUME NEW r \in Rec, Free(r) PROVE TypeOK'
  BY <1>9 DEF Free, kernel, history
<1>10. ASSUME NEW p \in Pid, Signaled(p) \/ \E c \in Code : Exit(p, c) PROVE TypeOK'
  <2>1. CASE Signaled(p)
    BY <2>1 DEF Signaled, record, history
  <2>2. ASSUME NEW c \in Code, Exit(p, c) PROVE TypeOK'
    BY <2>2 DEF Exit, record, history
  <2> QED BY <1>10, <2>1, <2>2
<1>11. ASSUME NEW r \in Rec, WaitInterrupted(r) PROVE TypeOK'
  BY <1>11 DEF WaitInterrupted, SetState, kernel
<1>12. CASE NewFails
  BY <1>12 DEF NewFails, Recyclable, Zero, kernel, history
<1> QED BY <1>1, <1>2, <1>3, <1>4, <1>5, <1>6, <1>7, <1>8, <1>9, <1>10, <1>11, <1>12
        DEF Next

\* Records, process ids, codes and statuses stay in their types, whatever the
\* calls of process.c and whenever the children end.
THEOREM TypeCorrect == Spec => []TypeOK
<1>1. Init => TypeOK
  BY ProcessConstants DEF Init, TypeOK, Pid, Code, State, STARTABLE, RUNNING, STOPPED
<1> QED BY <1>1, TypeStep, PTL DEF Spec
--------------------------------------------------------------------------------
(* Calls that leave the children, process ids and exit codes alone.            *)

\* No record becomes startable by an event that fits its state.
Quiet ==
  /\ UNCHANGED <<desc, pid, exit_code, call, status, code, mine, interrupted, astray>>
  /\ misfit \subseteq misfit'
  /\ \A r \in Rec : r \notin misfit' /\ state'[r] = STARTABLE => state[r] = STARTABLE

LEMMA QuietStep == ProcessInv /\ Quiet => ProcessInv'
<1> SUFFICES ASSUME ProcessInv, Quiet PROVE ProcessInv'
  OBVIOUS
<1>1. UNCHANGED <<desc, pid, exit_code, call, status, code, mine, interrupted, astray>>
  BY DEF Quiet
<1>2. \A r \in Rec : r \notin misfit' => r \notin misfit
  BY DEF Quiet
<1>3. WaitingHasChild'
  BY <1>1 DEF ProcessInv, WaitingHasChild, Unreaped, Zombie
<1>4. ChildKnown' /\ ChildOwn'
  BY <1>1 DEF ProcessInv, ChildKnown, ChildOwn, InUse
<1>5. FreshHasNone'
  BY <1>1, <1>2 DEF ProcessInv, FreshHasNone, InUse, Quiet
<1>6. ExitCodeExact'
  BY <1>1, <1>2 DEF ProcessInv, ExitCodeExact, InUse
<1>7. ExitCodeGenuine'
  BY <1>1 DEF ProcessInv, ExitCodeGenuine, InUse
<1>8. WaitedGone'
  BY <1>1 DEF ProcessInv, WaitedGone, InUse, Unreaped, Zombie
<1> QED BY <1>3, <1>4, <1>5, <1>6, <1>7, <1>8 DEF ProcessInv

\* Events that do not fit, failed forks, stops and questions without an answer.
LEMMA QuietCalls ==
    ASSUME TypeOK, NEW r \in Rec,
           \/ StartError(r) \/ StartForkFails(r) \/ CronStartForkFails(r) \/ Stop(r)
           \/ ResetError(r) \/ GetRunning(r) \/ GetNone(r) \/ GetRefused(r)
    PROVE  Quiet
<1> USE DEF TypeOK, Quiet, SetState, Misfit, kernel, history, STARTABLE, RUNNING, STOPPED
<1>1. CASE StartError(r)
  BY <1>1 DEF StartError
<1>2. CASE StartForkFails(r)
  BY <1>2 DEF StartForkFails, AfterStart, OnStart
<1>3. CASE CronStartForkFails(r)
  BY <1>3 DEF CronStartForkFails
<1>4. CASE Stop(r)
  BY <1>4 DEF Stop, OnStop
<1>5. CASE ResetError(r)
  BY <1>5 DEF ResetError
<1>6. CASE GetRunning(r) \/ GetNone(r) \/ GetRefused(r)
  BY <1>6 DEF GetRunning, GetNone, GetRefused
<1> QED BY <1>1, <1>2, <1>3, <1>4, <1>5, <1>6
--------------------------------------------------------------------------------
(* Records that start over: ina_process_new and the two ways to reset.         *)
Cleared(r) ==
  /\ Idle
  /\ UNCHANGED <<call, status, code, astray>>
  /\ pid'[r] = 0
  /\ exit_code'[r] = -1
  /\ misfit' = misfit \ {r}
  /\ interrupted' = interrupted \ {r}
  /\ \A q \in Rec \ {r} :
       /\ desc'[q] = desc[q]
       /\ InUse(q) => /\ state'[q] = state[q]
                      /\ pid'[q] = pid[q]
                      /\ exit_code'[q] = exit_code[q]
                      /\ mine'[q] = mine[q]

LEMMA ClearedStep ==
    ASSUME ProcessInv, NEW r \in Rec, Cleared(r) PROVE ProcessInv'
<1>1. UNCHANGED <<call, status, code, astray>> /\ pid'[r] = 0 /\ exit_code'[r] = -1
  BY DEF Cleared
<1>2. \A q \in Rec : InUse(q)' /\ q # r =>
        /\ InUse(q)
        /\ desc'[q] = desc[q]
        /\ state'[q] = state[q]
        /\ pid'[q] = pid[q]
        /\ exit_code'[q] = exit_code[q]
        /\ mine'[q] = mine[q]
  BY DEF Cleared, InUse
<1>3. \A q \in Rec : q # r => /\ q \notin misfit' => q \notin misfit
                              /\ q \notin interrupted' => q \notin interrupted
  BY DEF Cleared
<1>4. \A q \in Rec : call'[q] = "none"
  BY <1>1 DEF Cleared, Idle
<1>5. WaitingHasChild'
  BY <1>4 DEF WaitingHasChild
<1>6. ChildKnown'
  BY <1>1, <1>2 DEF ProcessInv, ChildKnown
<1>7. ChildOwn'
  BY <1>1, <1>2 DEF ProcessInv, ChildOwn
<1>8. FreshHasNone'
  BY <1>1, <1>2, <1>3 DEF ProcessInv, FreshHasNone
<1>9. ExitCodeExact'
  BY <1>1, <1>2, <1>3 DEF ProcessInv, ExitCodeExact
<1>10. ExitCodeGenuine'
  BY <1>1, <1>2, <1>3 DEF ProcessInv, ExitCodeGenuine
<1>11. WaitedGone'
  BY <1>1, <1>2, <1>3 DEF ProcessInv, WaitedGone, InUse, Unreaped, Zombie
<1> QED BY <1>5, <1>6, <1>7, <1>8, <1>9, <1>10, <1>11 DEF ProcessInv

LEMMA ClearedCalls ==
    ASSUME TypeOK, NEW r \in Rec,
           \/ \E d \in {"plain", "wait"} : New(r, d)
           \/ Reset(r) \/ CronStop(r)
    PROVE  Cleared(r)
<1> USE DEF TypeOK, Cleared, kernel
<1>1. CASE \E d \in {"plain", "wait"} : New(r, d)
  BY <1>1 DEF New, Recyclable, Zero, StartsOver, InUse
<1>2. CASE Reset(r)
  BY <1>2 DEF Reset, Ready, SetState, SetRc, StartsOver
<1>3. CASE CronStop(r)
  BY <1>3 DEF CronStop, Ready, SetState, SetRc, StartsOver
<1> QED BY <1>1, <1>2, <1>3

\* A free, or a new record that is not made after all, concerns only records that
\* are no longer in use.
LEMMA UnusedStep ==
    ASSUME TypeOK, ProcessInv, NewFails \/ \E r \in Rec : Free(r) PROVE ProcessInv'
<1>1. UNCHANGED <<call, status, code, mine, misfit, interrupted, astray>>
  BY DEF Free, NewFails, kernel, history
<1>2. \A q \in Rec : InUse(q)' => InUse(q) /\ desc'[q] = desc[q]
  BY DEF TypeOK, Free, NewFails, InUse
<1>3. \A q \in Rec : InUse(q) =>
        state'[q] = state[q] /\ pid'[q] = pid[q] /\ exit_code'[q] = exit_code[q]
  BY DEF TypeOK, Free, NewFails, Zero, Recyclable, InUse
<1>4. \A q \in Rec : call'[q] = "none"
  BY <1>1 DEF Free, NewFails, Ready, Idle
<1>5. WaitingHasChild'
  BY <1>4 DEF WaitingHasChild
<1>6. ChildKnown' /\ ChildOwn' /\ FreshHasNone'
  BY <1>1, <1>2, <1>3 DEF ProcessInv, ChildKnown, ChildOwn, FreshHasNone
<1>7. ExitCodeExact' /\ ExitCodeGenuine'
  BY <1>1, <1>2, <1>3 DEF ProcessInv, ExitCodeExact, ExitCodeGenuine
<1>8. WaitedGone'
  <2>1. \A q \in Rec : desc'[q] = "wait" => InUse(q)'
    BY DEF InUse
  <2> QED BY <1>1, <1>2, <1>3, <2>1 DEF ProcessInv, WaitedGone, Unreaped, Zombie
<1> QED BY <1>5, <1>6, <1>7, <1>8 DEF ProcessInv
--------------------------------------------------------------------------------
(* Children are born, end and are reaped.                                      *)

\* A process id of a record is one of the kernel's.
LEMMA PidRange == ASSUME TypeOK, NEW r \in Rec, pid[r] # 0 PROVE pid[r] \in Pid
BY ProcessConstants DEF TypeOK, Pid

\* A fork: StartFork and CronStart differ only in what the return will do.
Forked(r, p) ==
  /\ Ready(r)
  /\ state[r] = STARTABLE
  /\ status[p] = "unborn"
  /\ UNCHANGED <<desc, exit_code, code, misfit, interrupted, astray>>
  /\ pid'[r] = p
  /\ p \in mine'[r]
  /\ desc[r] = "wait" => call'[r] # "none"
  /\ desc[r] # "wait" => state'[r] = RUNNING /\ call'[r] = "none"
  /\ status'[p] = "running"
  /\ \A o \in Pid \ {p} : status'[o] = status[o]
  /\ \A q \in Rec : mine[q] \subseteq mine'[q]
  /\ \A q \in Rec \ {r} : state'[q] = state[q] /\ pid'[q] = pid[q] /\ call'[q] = call[q]

LEMMA ForkedCalls ==
    ASSUME TypeOK, NEW r \in Rec, StartFork(r) \/ CronStart(r)
    PROVE  \E p \in Pid : Forked(r, p)
<1>1. PICK p \in Pid : Fork(r, p)
  BY DEF StartFork, CronStart
<1>2. /\ Ready(r)
      /\ state[r] = STARTABLE
      /\ UNCHANGED <<desc, exit_code, code, misfit, interrupted, astray>>
  BY DEF StartFork, CronStart
<1>3. /\ desc[r] = "wait" => call'[r] # "none"
      /\ desc[r] # "wait" => state'[r] = RUNNING /\ call'[r] = "none"
      /\ \A q \in Rec \ {r} : state'[q] = state[q] /\ call'[q] = call[q]
  BY <1>2 DEF TypeOK, StartFork, CronStart, SetState, Ready, Idle
<1>4. /\ status[p] = "unborn"
      /\ status'[p] = "running"
      /\ \A o \in Pid \ {p} : status'[o] = status[o]
  BY <1>1 DEF TypeOK, Fork
<1>5. /\ pid'[r] = p
      /\ \A q \in Rec \ {r} : pid'[q] = pid[q]
  BY <1>1 DEF TypeOK, Fork
<1>6. p \in mine'[r] /\ \A q \in Rec : mine[q] \subseteq mine'[q]
  BY <1>1 DEF TypeOK, Fork
<1> QED BY <1>2, <1>3, <1>4, <1>5, <1>6 DEF Forked

LEMMA ForkedStep ==
    ASSUME TypeOK, TypeOK', ProcessInv, NEW r \in Rec, NEW p \in Pid, Forked(r, p)
    PROVE  ProcessInv'
<1>1. UNCHANGED <<desc, exit_code, code, misfit, interrupted, astray>>
  BY DEF Forked
<1>2. \A q \in Rec : InUse(q)' <=> InUse(q)
  BY <1>1 DEF InUse
<1>3. \A q \in Rec : InUse(q) /\ pid[q] # 0 => pid[q] # p /\ status'[pid[q]] = status[pid[q]]
  BY PidRange DEF ProcessInv, ChildKnown, Forked
<1>4. \A q \in Rec \ {r} : state'[q] = state[q] /\ pid'[q] = pid[q] /\ call'[q] = call[q]
  BY DEF Forked
<1>5. pid'[r] = p /\ status'[p] = "running" /\ p # 0
  BY DEF Forked, Pid
<1>6. \A q \in Rec : call[q] = "none"
  BY DEF Forked, Ready, Idle
<1>7. WaitingHasChild'
  BY <1>1, <1>4, <1>5, <1>6 DEF WaitingHasChild, Forked, Unreaped, Zombie
<1>8. ChildKnown'
  BY <1>2, <1>3, <1>4, <1>5 DEF ProcessInv, ChildKnown, Forked
<1>9. ChildOwn'
  BY <1>2, <1>3, <1>4, <1>5 DEF ProcessInv, ChildOwn
<1>10. FreshHasNone'
  <2>1. call'[r] # "none" \/ state'[r] # STARTABLE
    BY DEF Forked, RUNNING, STARTABLE
  <2> QED BY <1>1, <1>2, <1>4, <2>1 DEF ProcessInv, FreshHasNone
<1>11. ExitCodeExact'
  <2>1. InUse(r) /\ r \notin misfit => pid[r] = 0
    BY <1>6 DEF ProcessInv, FreshHasNone, Forked
  <2> QED BY <1>1, <1>2, <1>3, <1>4, <1>5, <2>1 DEF ProcessInv, ExitCodeExact
<1>12. ExitCodeGenuine'
  <2>1. \A q \in Rec : \A o \in mine[q] :
          status[o] = "reaped" => o \in mine'[q] /\ status'[o] = "reaped"
    BY DEF TypeOK, Forked
  <2> QED BY <1>1, <1>2, <2>1 DEF ProcessInv, ExitCodeGenuine
<1>13. WaitedGone'
  <2>1. \A q \in Rec : InUse(q) /\ q # r /\ pid[q] # 0 =>
          (pid[q] \in Unreaped' <=> pid[q] \in Unreaped)
    BY <1>3, PidRange DEF Unreaped, Zombie
  <2>2. desc[r] = "wait" => call'[r] # "none"
    BY DEF Forked
  <2> QED BY <1>1, <1>2, <1>4, <2>1, <2>2 DEF ProcessInv, WaitedGone, InUse
<1> QED BY <1>7, <1>8, <1>9, <1>10, <1>11, <1>12, <1>13 DEF ProcessInv

LEMMA WaitReturnStep ==
    ASSUME TypeOK, TypeOK', ProcessInv, NEW r \in Rec, WaitReturn(r) PROVE ProcessInv'
<1> DEFINE p == pid[r]
<1>1. UNCHANGED <<desc, pid, code, mine, misfit, interrupted, astray>>
  BY DEF WaitReturn, history
<1>2. p \in Pid /\ p # 0 /\ status[p] \in {"exited", "signaled"}
  BY DEF WaitReturn, Zombie, Pid
<1>3. desc[r] = "wait" /\ InUse(r)
  BY DEF ProcessInv, WaitingHasChild, WaitReturn, InUse
<1>4. /\ status'[p] = (IF status[p] = "exited" THEN "reaped" ELSE "reaped_signaled")
      /\ \A o \in Pid : o # p => status'[o] = status[o]
  BY <1>2 DEF TypeOK, WaitReturn, Reaped
<1>5. /\ exit_code'[r] = (IF status[p] = "exited" THEN code[p] ELSE exit_code[r])
      /\ \A q \in Rec : q # r => exit_code'[q] = exit_code[q]
  BY DEF TypeOK, WaitReturn
<1>6. /\ state'[r] # STARTABLE
      /\ call'[r] = "none"
      /\ \A q \in Rec : q # r => state'[q] = state[q] /\ call'[q] = call[q]
  BY DEF TypeOK, WaitReturn, SetState, STARTABLE, STOPPED, RUNNING
<1>7. \A q \in Rec : InUse(q)' <=> InUse(q)
  BY <1>1 DEF InUse
<1>8. \A q \in Rec : InUse(q) /\ q # r /\ pid[q] # 0 => pid[q] # p /\ pid[q] \in Pid
  BY <1>2, <1>3, PidRange DEF ProcessInv, ChildOwn
<1> HIDE DEF p
<1>9. p = pid[r]
  BY DEF p
<1>10. \A q \in Rec : call[q] # "none" => InUse(q) /\ pid[q] # 0
  BY DEF ProcessInv, WaitingHasChild, InUse, Unreaped, Zombie, Pid
<1>11. \A q \in Rec : InUse(q) /\ q # r /\ pid[q] # 0 =>
         (pid[q] \in Unreaped' <=> pid[q] \in Unreaped)
  BY <1>4, <1>8 DEF Unreaped, Zombie
<1>12. WaitingHasChild'
  BY <1>1, <1>6, <1>10, <1>11 DEF ProcessInv, WaitingHasChild
<1>13. ChildKnown'
  BY <1>1, <1>4, <1>7, <1>8, <1>9 DEF ProcessInv, ChildKnown
<1>14. ChildOwn' /\ FreshHasNone'
  BY <1>1, <1>6, <1>7 DEF ProcessInv, ChildOwn, FreshHasNone
<1>15. ExitCodeExact'
  BY <1>1, <1>2, <1>4, <1>5, <1>7, <1>8, <1>9 DEF ProcessInv, ExitCodeExact
<1>16. ExitCodeGenuine'
  <2>1. \A q \in Rec : \A o \in mine[q] : status[o] = "reaped" => status'[o] = "reaped"
    BY <1>2, <1>4 DEF TypeOK
  <2>2. p \in mine[r]
    BY <1>2, <1>3, <1>9 DEF ProcessInv, ChildKnown
  <2> QED BY <1>1, <1>4, <1>5, <1>7, <2>1, <2>2 DEF ProcessInv, ExitCodeGenuine
<1>17. WaitedGone'
  <2>1. p \notin Unreaped'
    BY <1>4 DEF Unreaped, Zombie
  <2> QED BY <1>1, <1>6, <1>7, <1>9, <1>11, <2>1 DEF ProcessInv, WaitedGone, InUse
<1> QED BY <1>12, <1>13, <1>14, <1>15, <1>16, <1>17 DEF ProcessInv

LEMMA WaitInterruptedStep ==
    ASSUME TypeOK, ProcessInv, NEW r \in Rec, WaitInterrupted(r) PROVE ProcessInv'
<1>1. UNCHANGED <<desc, pid, status, code, mine, misfit, astray>>
  BY DEF WaitInterrupted, kernel
<1>2. /\ r \in interrupted'
      /\ \A q \in Rec : q \notin interrupted' => q # r /\ q \notin interrupted
  BY DEF WaitInterrupted
<1>3. /\ state'[r] # STARTABLE
      /\ call'[r] = "none"
      /\ \A q \in Rec : q # r => /\ state'[q] = state[q]
                                 /\ call'[q] = call[q]
                                 /\ exit_code'[q] = exit_code[q]
  BY DEF TypeOK, WaitInterrupted, SetState, STARTABLE, STOPPED, RUNNING
<1>4. \A q \in Rec : InUse(q)' <=> InUse(q)
  BY <1>1 DEF InUse
<1>5. Unreaped' = Unreaped
  BY <1>1 DEF Unreaped, Zombie
<1>6. WaitingHasChild'
  BY <1>1, <1>3, <1>5 DEF ProcessInv, WaitingHasChild
<1>7. ChildKnown' /\ ChildOwn' /\ FreshHasNone'
  BY <1>1, <1>3, <1>4 DEF ProcessInv, ChildKnown, ChildOwn, FreshHasNone
<1>8. ExitCodeExact' /\ ExitCodeGenuine'
  BY <1>1, <1>2, <1>3, <1>4 DEF ProcessInv, ExitCodeExact, ExitCodeGenuine
<1>9. WaitedGone'
  BY <1>1, <1>2, <1>3, <1>5 DEF ProcessInv, WaitedGone
<1> QED BY <1>6, <1>7, <1>8, <1>9 DEF ProcessInv

LEMMA GetReapStep ==
    ASSUME TypeOK, TypeOK', ProcessInv, NEW r \in Rec, GetReap(r) PROVE ProcessInv'
<1>1. PICK p \in Targets(r) \cap Zombie :
        /\ status' = Reaped(p)
        /\ IF exit_code[r] < 0 /\ status[p] = "exited"
           THEN exit_code' = [exit_code EXCEPT ![r] = code[p]]
           ELSE UNCHANGED exit_code
  BY DEF GetReap
<1>2. UNCHANGED <<desc, state, pid, call, code, mine, misfit, interrupted>>
  BY DEF GetReap
<1>3. p \in Pid /\ p # 0 /\ status[p] \in {"exited", "signaled"}
  BY <1>1 DEF Zombie, Pid
<1>4. pid[r] # 0 => p = pid[r]
  BY <1>1 DEF Targets
<1>5. pid[r] = 0 => astray' # {}
  BY DEF GetReap
<1>6. pid[r] # 0 => astray' = astray
  BY DEF GetReap
<1>7. /\ status'[p] = (IF status[p] = "exited" THEN "reaped" ELSE "reaped_signaled")
      /\ \A o \in Pid : o # p => status'[o] = status[o]
  BY <1>1, <1>3 DEF TypeOK, Reaped
<1>8. /\ exit_code'[r] = (IF exit_code[r] = -1 /\ status[p] = "exited"
                          THEN code[p] ELSE exit_code[r])
      /\ \A q \in Rec : q # r => exit_code'[q] = exit_code[q]
  BY <1>1 DEF TypeOK
<1>9. \A q \in Rec : InUse(q)' <=> InUse(q)
  BY <1>2 DEF InUse
<1>10. InUse(r) /\ \A q \in Rec : call'[q] = "none"
  BY <1>2 DEF GetReap, Ready, Idle
<1>11. \A q \in Rec : pid[q] # 0 => pid[q] \in Pid
  BY PidRange
<1>12. WaitingHasChild'
  BY <1>10 DEF WaitingHasChild
<1>13. ChildKnown'
  BY <1>2, <1>7, <1>9, <1>11 DEF ProcessInv, ChildKnown
<1>14. ChildOwn' /\ FreshHasNone'
  BY <1>2, <1>9 DEF ProcessInv, ChildOwn, FreshHasNone
<1>15. ExitCodeExact'
  <2> SUFFICES ASSUME astray' = {}, NEW q \in Rec, InUse(q),
                      q \notin misfit, q \notin interrupted
               PROVE  IF pid[q] # 0 /\ status'[pid[q]] = "reaped"
                      THEN exit_code'[q] = code[pid[q]] ELSE exit_code'[q] = -1
    BY <1>2, <1>9 DEF ExitCodeExact
  <2>1. pid[r] # 0 /\ p = pid[r] /\ astray = {}
    BY <1>4, <1>5, <1>6
  <2>2. IF pid[q] # 0 /\ status[pid[q]] = "reaped"
        THEN exit_code[q] = code[pid[q]] ELSE exit_code[q] = -1
    BY <2>1 DEF ProcessInv, ExitCodeExact
  <2>3. CASE q = r
    BY <1>3, <1>7, <1>8, <2>1, <2>2, <2>3
  <2>4. CASE q # r
    <3>1. pid[q] # 0 => pid[q] # p
      BY <1>10, <2>1, <2>4 DEF ProcessInv, ChildOwn
    <3> QED BY <1>7, <1>8, <1>11, <2>2, <2>4, <3>1
  <2> QED BY <2>3, <2>4
<1>16. ExitCodeGenuine'
  <2> SUFFICES ASSUME astray' = {}, NEW q \in Rec, InUse(q),
                      q \notin interrupted, exit_code'[q] # -1
               PROVE  \E o \in mine[q] : status'[o] = "reaped" /\ code[o] = exit_code'[q]
    BY <1>2, <1>9 DEF ExitCodeGenuine
  <2>1. pid[r] # 0 /\ p = pid[r] /\ astray = {}
    BY <1>4, <1>5, <1>6
  <2>2. \A o \in mine[q] : status[o] = "reaped" => status'[o] = "reaped"
    BY <1>3, <1>7 DEF TypeOK
  <2>3. CASE exit_code[q] # -1
    <3>1. exit_code'[q] = exit_code[q]
      BY <1>8, <2>3
    <3> QED BY <2>1, <2>2, <2>3, <3>1 DEF ProcessInv, ExitCodeGenuine
  <2>4. CASE exit_code[q] = -1
    <3>1. q = r /\ status[p] = "exited" /\ exit_code'[q] = code[p]
      BY <1>8, <2>4
    <3>2. p \in mine[r]
      BY <1>10, <2>1 DEF ProcessInv, ChildKnown
    <3> QED BY <1>7, <3>1, <3>2
  <2> QED BY <2>3, <2>4
<1>17. WaitedGone'
  <2>1. \A o \in Pid : o \in Unreaped' => o \in Unreaped
    BY <1>7 DEF Unreaped, Zombie
  <2> QED BY <1>2, <1>9, <1>11, <2>1 DEF ProcessInv, WaitedGone
<1> QED BY <1>12, <1>13, <1>14, <1>15, <1>16, <1>17 DEF ProcessInv

LEMMA ChildEndsStep ==
    ASSUME TypeOK, ProcessInv, NEW p \in Pid, Signaled(p) \/ \E c \in Code : Exit(p, c)
    PROVE  ProcessInv'
<1>1. UNCHANGED <<desc, state, pid, exit_code, call, mine, misfit, interrupted, astray>>
  BY DEF Signaled, Exit, record, history
<1>2. /\ status[p] = "running"
      /\ status'[p] \in {"exited", "signaled"}
      /\ \A o \in Pid : o # p => status'[o] = status[o] /\ code'[o] = code[o]
  BY DEF TypeOK, Signaled, Exit
<1>3. \A q \in Rec : InUse(q)' <=> InUse(q)
  BY <1>1 DEF InUse
<1>4. \A q \in Rec : pid[q] # 0 => pid[q] \in Pid
  BY PidRange
<1>5. Unreaped' = Unreaped
  BY <1>2 DEF Unreaped, Zombie
<1>6. WaitingHasChild' /\ WaitedGone'
  BY <1>1, <1>3, <1>5 DEF ProcessInv, WaitingHasChild, WaitedGone
<1>7. ChildKnown'
  BY <1>1, <1>2, <1>3, <1>4 DEF ProcessInv, ChildKnown
<1>8. ChildOwn' /\ FreshHasNone'
  BY <1>1, <1>3 DEF ProcessInv, ChildOwn, FreshHasNone
<1>9. ExitCodeExact'
  BY <1>1, <1>2, <1>3, <1>4 DEF ProcessInv, ExitCodeExact
<1>10. ExitCodeGenuine'
  <2>1. \A q \in Rec : \A o \in mine[q] :
          status[o] = "reaped" => status'[o] = "reaped" /\ code'[o] = code[o]
    BY <1>2 DEF TypeOK
  <2> QED BY <1>1, <1>3, <2>1 DEF ProcessInv, ExitCodeGenuine
<1> QED BY <1>6, <1>7, <1>8, <1>9, <1>10 DEF ProcessInv
--------------------------------------------------------------------------------
LEMMA InvStep == TypeOK /\ ProcessInv /\ [Next]_vars => ProcessInv'
<1> SUFFICES ASSUME TypeOK, ProcessInv, [Next]_vars PROVE ProcessInv'
  OBVIOUS
<1>1. TypeOK'
  BY TypeStep
<1>2. CASE UNCHANGED vars
  <2>1. Quiet
    BY <1>2 DEF Quiet, vars, record, kernel, history
  <2> QED BY <2>1, QuietStep
<1>3. ASSUME NEW r \in Rec,
             \/ StartError(r) \/ StartForkFails(r) \/ CronStartForkFails(r) \/ Stop(r)
             \/ ResetError(r) \/ GetRunning(r) \/ GetNone(r) \/ GetRefused(r)
      PROVE  ProcessInv'
  BY <1>3, QuietCalls, QuietStep
<1>4. ASSUME NEW r \in Rec,
             \/ \E d \in {"plain", "wait"} : New(r, d)
             \/ Reset(r) \/ CronStop(r)
      PROVE  ProcessInv'
  BY <1>4, ClearedCalls, ClearedStep
<1>5. ASSUME NEW r \in Rec, StartFork(r) \/ CronStart(r) PROVE ProcessInv'
  BY <1>1, <1>5, ForkedCalls, ForkedStep
<1>6. ASSUME NEW r \in Rec, WaitReturn(r) PROVE ProcessInv'
  BY <1>1, <1>6, WaitReturnStep
<1>7. ASSUME NEW r \in Rec, GetReap(r) PROVE ProcessInv'
  BY <1>1, <1>7, GetReapStep
<1>8. CASE NewFails \/ \E r \in Rec : Free(r)
  BY <1>8, UnusedStep
<1>9. ASSUME NEW p \in Pid, Signaled(p) \/ \E c \in Code : Exit(p, c) PROVE ProcessInv'
  BY <1>9, ChildEndsStep
<1>10. ASSUME NEW r \in Rec, WaitInterrupted(r) PROVE ProcessInv'
  BY <1>10, WaitInterruptedStep
<1> QED BY <1>2, <1>3, <1>4, <1>5, <1>6, <1>7, <1>8, <1>9, <1>10
        DEF Next, Start, CronJob, GetExitCode

LEMMA ProcessInductive == Spec => [](TypeOK /\ ProcessInv)
<1> DEFINE IInv == TypeOK /\ ProcessInv
<1>1. Init => ProcessInv
  BY DEF Init, ProcessInv, WaitingHasChild, ChildKnown, ChildOwn, FreshHasNone,
         ExitCodeExact, ExitCodeGenuine, WaitedGone, InUse
<1>2. Init => IInv
  BY <1>1, ProcessConstants
     DEF Init, TypeOK, Pid, Code, State, STARTABLE, RUNNING, STOPPED
<1>3. IInv /\ [Next]_vars => IInv'
  BY TypeStep, InvStep
<1> HIDE DEF IInv
<1>4. Spec => []IInv
  BY <1>2, <1>3, PTL DEF Spec
<1> QED BY <1>4 DEF IInv

\* A record with fitting events only has exactly the exit code of its present
\* child (ina_process_get_exit_code, ina_process_start with INA_PROCESS_CF_WAIT).
THEOREM ExitCodeExactHolds == Spec => []ExitCodeExact
<1>1. TypeOK /\ ProcessInv => ExitCodeExact
  BY DEF ProcessInv
<1> QED BY <1>1, ProcessInductive, PTL

\* Whatever the calls, an exit code is the one of a child the record forked since
\* it was created or reset: ina_process_new and ina_process_reset forget the rest.
THEOREM ExitCodeGenuineHolds == Spec => []ExitCodeGenuine
<1>1. TypeOK /\ ProcessInv => ExitCodeGenuine
  BY DEF ProcessInv
<1> QED BY <1>1, ProcessInductive, PTL

\* A start that waits leaves no child behind, neither running nor unreaped.
THEOREM WaitedGoneHolds == Spec => []WaitedGone
<1>1. TypeOK /\ ProcessInv => WaitedGone
  BY DEF ProcessInv
<1> QED BY <1>1, ProcessInductive, PTL
================================================================================
