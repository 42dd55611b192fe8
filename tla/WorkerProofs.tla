---------------------------- MODULE WorkerProofs ----------------------------
(***************************************************************************)
(* Proofs about module Worker, for any number of cron jobs and handlers,   *)
(* any bound of the clock and any cron expression that ScheduleAssumption  *)
(* admits.                                                                 *)
(***************************************************************************)
EXTENDS Worker, TLAPS

\* The initial states are well typed.
LEMMA TypeInit == Init => TypeOK
<1>1. 0 \in Time
      BY ScheduleAssumption DEF Time
<1>2. Init => pc \in [Threads -> Steps] /\ read \in [Threads -> Nat]
      BY DEF Init, Steps
<1>3. Init => panicking \in SUBSET Threads /\ running \in BOOLEAN
      BY Zenon DEF Init
<1>4. Init => /\ lastSyncTime \in Nat /\ nextSyncTime \in Nat
              /\ clock \in Time /\ entryNext \in Nat
              /\ config \in Configs
              /\ main \in {"down", "starting", "serving", "stopping"}
      BY <1>1 DEF Init
<1> QED
    BY <1>2, <1>3, <1>4 DEF TypeOK

\* What the assumption says of one time.
LEMMA NextExecutionType ==
  ASSUME NEW t \in Time
  PROVE  /\ NextExecution[t] \in Nat
         /\ NextExecution[t] > t
         /\ \A u \in Time : t <= u => NextExecution[t] <= NextExecution[u]
  BY ScheduleAssumption

\* Every step keeps every variable in its set.
LEMMA TypeStep == TypeOK /\ [Next]_vars => TypeOK'
<1> SUFFICES ASSUME TypeOK, [Next]_vars
             PROVE  TypeOK'
    OBVIOUS
<1> USE DEF TypeOK, shared
<1>0. NextExecution[clock] \in Nat
      BY NextExecutionType
<1>1. ASSUME GoDown PROVE TypeOK'
      BY <1>1 DEF GoDown, Steps
<1>2. CASE Process
  <2>1. CASE Boot
        BY <2>1, <1>0 DEF Boot, RunOnStart, Steps, Threads
  <2>2. CASE CronRun
        BY <2>2, <1>0 DEF CronRun
  <2>3. CASE Signal
        BY <2>3 DEF Signal
  <2>4. CASE ShutdownDone \/ ShutdownTimeout \/ Kill
        BY <2>4, <1>1 DEF ShutdownDone, ShutdownTimeout, Kill
  <2> QED
      BY <1>2, <2>1, <2>2, <2>3, <2>4 DEF Process
<1>3. CASE Elapse
      BY <1>3, ScheduleAssumption DEF Elapse, Time
<1>4. ASSUME NEW t \in CronJobs, CronFire(t) PROVE TypeOK'
      BY <1>4, <1>0 DEF CronFire, Begin, Steps
<1>5. ASSUME NEW t \in Handlers, HandleSync(t) PROVE TypeOK'
      BY <1>5 DEF HandleSync, Begin, Steps
<1>6. ASSUME NEW t \in Threads, Own(t) \/ Return(t) \/ Panic(t)
      PROVE  TypeOK'
  <2> USE DEF Goto, Steps
  <2>1. CASE Check(t)
        BY <2>1 DEF Check
  <2>2. CASE Set(t)
        BY <2>2 DEF Set
  <2>3. CASE Return(t)
        BY <2>3 DEF Return
  <2>4. CASE Panic(t)
        BY <2>4 DEF Panic
  <2>5. CASE Clear(t)
        BY <2>5 DEF Clear
  <2>6. CASE ReadNow(t)
        BY <2>6, ScheduleAssumption DEF ReadNow, Time
  <2>7. CASE StoreLast(t)
        BY <2>7 DEF StoreLast
  <2>8. CASE ReadEntry(t)
        BY <2>8 DEF ReadEntry
  <2>9. CASE StoreNext(t)
        BY <2>9 DEF StoreNext, Leave
  <2>10. CASE LeaveWithoutCron(t)
        BY <2>10 DEF LeaveWithoutCron, Leave
  <2>11. CASE EndProcess(t)
        BY <2>11, <1>1 DEF EndProcess
  <2> QED
      BY <1>6, <2>1, <2>2, <2>3, <2>4, <2>5, <2>6, <2>7, <2>8, <2>9, <2>10,
         <2>11 DEF Own
<1>7. CASE UNCHANGED vars
      BY <1>7 DEF vars
<1> QED
    BY <1>2, <1>3, <1>4, <1>5, <1>6, <1>7 DEF Next

(* Type correctness of the worker.                                         *)
THEOREM TypeCorrect == Spec => []TypeOK
  BY TypeInit, TypeStep, PTL DEF Spec

-----------------------------------------------------------------------------
\* The inductive invariant.  The step that raises the flag is the step that
\* makes a goroutine busy, and a goroutine stops being busy only by lowering
\* the flag; a process that is down has neither, so Boot starts afresh.
DownIsQuiet == main = "down" => ~running /\ Quiet
OwnerInv == RunningHasOwner /\ DownIsQuiet

\* The second conjunct alone: in a process that is down only Boot and the
\* clock act.
LEMMA DownStep == TypeOK /\ DownIsQuiet /\ [Next]_vars => DownIsQuiet'
<1> SUFFICES ASSUME TypeOK, DownIsQuiet, [Next]_vars, main' = "down"
             PROVE  ~running' /\ Quiet'
    BY DEF DownIsQuiet
<1> USE DEF shared, Quiet
<1>1. CASE GoDown
      BY <1>1 DEF GoDown
<1>2. CASE main = "down" /\ UNCHANGED <<pc, running>>
      BY <1>2 DEF DownIsQuiet
<1> QED
    <2>1. CASE Process
          BY <1>1, <2>1 DEF Process, Boot, CronRun, Signal, ShutdownDone,
             ShutdownTimeout, Kill
    <2>2. CASE Elapse \/ UNCHANGED vars
          BY <1>2, <2>2 DEF Elapse, vars
    <2>3. ASSUME NEW t \in CronJobs, CronFire(t) PROVE FALSE
          BY <2>3 DEF CronFire
    <2>4. ASSUME NEW t \in Handlers, HandleSync(t) PROVE FALSE
          BY <2>4 DEF HandleSync
    <2>5. ASSUME NEW t \in Threads, Own(t) \/ Return(t) \/ Panic(t)
          PROVE  GoDown
      <3>1. pc[t] # "idle"
            BY <2>5 DEF Own, Goto, Check, Set, Return, Panic, Clear, ReadNow,
               StoreLast, ReadEntry, StoreNext, LeaveWithoutCron, Leave,
               EndProcess
      <3>2. main # "down"
            BY <3>1 DEF DownIsQuiet
      <3> QED
          BY <2>5, <3>2 DEF Own, Check, Set, Return, Panic, Clear, ReadNow,
             StoreLast, ReadEntry, StoreNext, LeaveWithoutCron, Leave,
             EndProcess
    <2> QED
        BY <1>1, <2>1, <2>2, <2>3, <2>4, <2>5 DEF Next

\* The first conjunct, action by action.
LEMMA OwnerStep == TypeOK /\ OwnerInv /\ [Next]_vars => RunningHasOwner'
<1> SUFFICES ASSUME TypeOK, RunningHasOwner, DownIsQuiet, [Next]_vars
             PROVE  RunningHasOwner'
    BY DEF OwnerInv
<1> USE DEF TypeOK, shared, RunningHasOwner, Busy
<1>1. ASSUME GoDown PROVE RunningHasOwner'
      BY <1>1 DEF GoDown
\* A goroutine that leaves a step which is not busy disturbs no owner.
<1>2. ASSUME NEW t \in Threads, NEW to, ~Busy(t),
             pc' = [pc EXCEPT ![t] = to], UNCHANGED running
      PROVE  RunningHasOwner'
      BY <1>2
<1>3. CASE Process
  <2>1. CASE Boot
        BY <2>1 DEF Boot, DownIsQuiet
  <2>2. CASE CronRun \/ Signal
        BY <2>2 DEF CronRun, Signal
  <2>3. CASE ShutdownDone \/ ShutdownTimeout \/ Kill
        BY <2>3, <1>1 DEF ShutdownDone, ShutdownTimeout, Kill
  <2> QED
      BY <1>3, <2>1, <2>2, <2>3 DEF Process
<1>4. CASE Elapse
      BY <1>4 DEF Elapse
<1>5. ASSUME NEW t \in CronJobs, CronFire(t) PROVE RunningHasOwner'
      BY <1>5, <1>2 DEF CronFire, Begin, Threads
<1>6. ASSUME NEW t \in Handlers, HandleSync(t) PROVE RunningHasOwner'
      BY <1>6, <1>2 DEF HandleSync, Begin, Threads
<1>7. ASSUME NEW t \in Threads, Own(t) \/ Return(t) \/ Panic(t)
      PROVE  RunningHasOwner'
  <2> USE DEF Goto
  <2>1. CASE Check(t)
        BY <2>1, <1>2 DEF Check
  <2>2. CASE Set(t)
        BY <2>2 DEF Set
  <2>3. CASE Return(t) \/ Panic(t)
        BY <2>3 DEF Return, Panic
  <2>4. CASE Clear(t)
        BY <2>4 DEF Clear
  <2>5. CASE ReadNow(t) \/ StoreLast(t) \/ ReadEntry(t)
        BY <2>5, <1>2 DEF ReadNow, StoreLast, ReadEntry
  <2>6. CASE StoreNext(t) \/ LeaveWithoutCron(t)
        BY <2>6, <1>2 DEF StoreNext, LeaveWithoutCron, Leave
  <2>7. CASE EndProcess(t)
        BY <2>7, <1>1 DEF EndProcess
  <2> QED
      BY <1>7, <2>1, <2>2, <2>3, <2>4, <2>5, <2>6, <2>7 DEF Own
<1>8. CASE UNCHANGED vars
      BY <1>8 DEF vars
<1> QED
    BY <1>3, <1>4, <1>5, <1>6, <1>7, <1>8 DEF Next

(* The flag is never left raised without a goroutine that lowers it.       *)
THEOREM FlagHasOwner == Spec => []RunningHasOwner
<1>1. Init => OwnerInv
      BY DEF Init, OwnerInv, RunningHasOwner, DownIsQuiet, Quiet
<1>2. TypeOK /\ OwnerInv /\ [Next]_vars => OwnerInv'
      BY OwnerStep, DownStep DEF OwnerInv
<1>3. OwnerInv => RunningHasOwner
      BY DEF OwnerInv
<1> QED
    BY <1>1, <1>2, <1>3, TypeCorrect, PTL DEF Spec

\* A goroutine goes from the check to its end only by seeing the flag, and the
\* flag has an owner.
LEMMA SkipStep ==
  ASSUME TypeOK, OwnerInv, [Next]_vars, NEW t \in Threads, TurnedAway(t)
  PROVE  \E u \in Threads \ {t} : Busy(u)
<1> USE DEF TurnedAway, shared
<1>1. main # "down"
      BY DEF OwnerInv, DownIsQuiet, Quiet
<1>2. ~Process
      BY <1>1 DEF Process, Boot, CronRun, Signal, ShutdownDone,
         ShutdownTimeout, Kill, GoDown
<1>3. ~Elapse /\ ~UNCHANGED vars
      BY DEF Elapse, vars
<1>4. \A u \in CronJobs : ~CronFire(u)
      BY DEF CronFire, Begin, TypeOK
<1>5. \A u \in Handlers : ~HandleSync(u)
      BY DEF HandleSync, Begin, TypeOK
<1>6. ASSUME NEW u \in Threads, Own(u) \/ Return(u) \/ Panic(u)
      PROVE  running
  <2>1. \/ Check(u) /\ u = t
        \/ EndProcess(u)
        BY <1>6 DEF TypeOK, Own, Goto, Check, Set, Return, Panic, Clear,
           ReadNow, StoreLast, ReadEntry, StoreNext, LeaveWithoutCron, Leave
  <2>2. ~EndProcess(u)
        BY DEF EndProcess, GoDown
  <2> QED
      BY <2>1, <2>2 DEF Check, Goto, TypeOK
<1>7. running
      BY <1>2, <1>3, <1>4, <1>5, <1>6 DEF Next
<1> QED
    BY <1>7 DEF OwnerInv, RunningHasOwner, Busy

(* A trigger is turned away only while another goroutine is syncing.       *)
THEOREM TurnedAwayOnlyWhenBusy == Spec => SkipOnlyWhenBusy
<1>1. TypeOK /\ OwnerInv /\ [Next]_vars
        => [\A t \in Threads :
              TurnedAway(t) => \E u \in Threads \ {t} : Busy(u)]_vars
      BY SkipStep
<1>2. Init => OwnerInv
      BY DEF Init, OwnerInv, RunningHasOwner, DownIsQuiet, Quiet
<1>3. TypeOK /\ OwnerInv /\ [Next]_vars => OwnerInv'
      BY OwnerStep, DownStep DEF OwnerInv
<1> QED
    BY <1>1, <1>2, <1>3, TypeCorrect, PTL DEF Spec, SkipOnlyWhenBusy

-----------------------------------------------------------------------------
\* The announced time is a copy of the entry's, possibly an old one, and the
\* entry only moves forward.  Until cron runs, the entry has no time and the
\* announced one is that of the expression.
CopiesBehind == \A t \in Threads : pc[t] = "next" => read[t] <= entryNext
BeforeCronRuns ==
  main = "starting" => entryNext = 0 /\ nextSyncTime <= NextExecution[clock]
ScheduleInv == ScheduleNotAhead /\ CopiesBehind /\ BeforeCronRuns

\* The schedule's invariant is inductive.
LEMMA ScheduleStep ==
  TypeOK /\ DownIsQuiet /\ ScheduleInv /\ [Next]_vars => ScheduleInv'
<1> SUFFICES ASSUME TypeOK, DownIsQuiet, ScheduleInv, [Next]_vars
             PROVE  ScheduleInv'
    OBVIOUS
<1> USE DEF TypeOK, shared, ScheduleInv, ScheduleNotAhead, CopiesBehind,
            BeforeCronRuns
<1>0. /\ NextExecution[clock] \in Nat
      /\ NextExecution[clock] > clock
      /\ clock \in Nat
      BY NextExecutionType, ScheduleAssumption DEF Time
<1>1. ASSUME GoDown PROVE ScheduleInv'
      BY <1>1 DEF GoDown
<1>2. CASE Process
  <2>1. CASE Boot
        BY <2>1, <1>0 DEF Boot, RunOnStart, DownIsQuiet, Quiet
  <2>2. CASE CronRun
        BY <2>2, <1>0 DEF CronRun
  <2>3. CASE Signal
        BY <2>3 DEF Signal
  <2>4. CASE ShutdownDone \/ ShutdownTimeout \/ Kill
        BY <2>4, <1>1 DEF ShutdownDone, ShutdownTimeout, Kill
  <2> QED
      BY <1>2, <2>1, <2>2, <2>3, <2>4 DEF Process
<1>3. CASE Elapse
  <2>1. clock + 1 \in Time /\ clock <= clock + 1
        BY <1>3, ScheduleAssumption DEF Elapse, Time
  <2>2. /\ NextExecution[clock] <= NextExecution[clock + 1]
        /\ NextExecution[clock + 1] \in Nat
        BY <2>1, NextExecutionType
  <2> QED
      BY <1>3, <1>0, <2>2 DEF Elapse
<1>4. ASSUME NEW t \in CronJobs, CronFire(t) PROVE ScheduleInv'
      BY <1>4, <1>0 DEF CronFire, Begin
<1>5. ASSUME NEW t \in Handlers, HandleSync(t) PROVE ScheduleInv'
      BY <1>5 DEF HandleSync, Begin
<1>6. ASSUME NEW t \in Threads, Own(t) \/ Return(t) \/ Panic(t)
      PROVE  ScheduleInv'
  <2> USE DEF Goto
  <2>1. CASE Check(t) \/ Set(t) \/ Return(t) \/ Panic(t) \/ Clear(t)
        BY <2>1 DEF Check, Set, Return, Panic, Clear
  <2>2. CASE ReadNow(t) \/ StoreLast(t)
        BY <2>2 DEF ReadNow, StoreLast
  <2>3. CASE ReadEntry(t)
        BY <2>3 DEF ReadEntry
  <2>4. CASE StoreNext(t)
        BY <2>4, <1>0 DEF StoreNext, Leave
  <2>5. CASE LeaveWithoutCron(t)
        BY <2>5 DEF LeaveWithoutCron, Leave
  <2>6. CASE EndProcess(t)
        BY <2>6, <1>1 DEF EndProcess
  <2> QED
      BY <1>6, <2>1, <2>2, <2>3, <2>4, <2>5, <2>6 DEF Own
<1>7. CASE UNCHANGED vars
      BY <1>7 DEF vars
<1> QED
    BY <1>2, <1>3, <1>4, <1>5, <1>6, <1>7 DEF Next

(* The announced next sync is never later than cron's next execution.      *)
THEOREM AnnouncedNotAhead == Spec => []ScheduleNotAhead
<1>1. Init => DownIsQuiet /\ ScheduleInv
      BY DEF Init, DownIsQuiet, Quiet, ScheduleInv, ScheduleNotAhead,
         CopiesBehind, BeforeCronRuns
<1>2. ScheduleInv => ScheduleNotAhead
      BY DEF ScheduleInv
<1> QED
    BY <1>1, <1>2, ScheduleStep, DownStep, TypeCorrect, PTL DEF Spec
=============================================================================
