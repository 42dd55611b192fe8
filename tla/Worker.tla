------------------------------- MODULE Worker -------------------------------
(***************************************************************************)
(* The worker of internal/sync/sync.go: one object shared, without a lock, *)
(* by the cron job goroutines, the handlers of POST /api/v1/sync and the   *)
(* run-on-start goroutine, all of which call w.sync().                     *)
(*                                                                         *)
(* The module keeps what these goroutines share: the flag `running', the   *)
(* two timestamps, cron's own next execution.  What a sync does between    *)
(* raising the flag and the deferred function is one step, pc = "body", of *)
(* unbounded length (module SyncPass models it).  The client of the code   *)
(* sets no request timeout, so nothing here says that a body ends.         *)
(*                                                                         *)
(* Abstractions: time is a counter that stops at MaxTime; the program has  *)
(* at most one live goroutine per element of Threads, where the code can   *)
(* have any number; a process that is down has no memory, so its variables *)
(* are back at their initial values.                                       *)
(***************************************************************************)
EXTENDS Naturals

CONSTANTS
  CronJobs,      \* goroutines the cron scheduler can have alive at once
  Handlers,      \* goroutines of POST /api/v1/sync alive at once
  Startup,       \* the goroutine of runOnStartAsync, or main itself
  MaxTime,       \* bound of the clock
  NextExecution  \* the parsed cron expression: sched.Next for each time

Threads == CronJobs \cup Handlers \cup {Startup}
Time == 0..MaxTime

ASSUME ThreadsAssumption ==
  /\ CronJobs \cap Handlers = {}
  /\ Startup \notin CronJobs \cup Handlers

ASSUME ScheduleAssumption ==
  /\ MaxTime \in Nat
  /\ NextExecution \in [Time -> Nat]
  /\ \A t \in Time : NextExecution[t] > t
  /\ \A t, u \in Time : t <= u => NextExecution[t] <= NextExecution[u]

VARIABLES
  config,        \* which of cfg.Cron, cfg.API.Port and cfg.RunOnStart are set
  main,          \* where the main goroutine is
  pc,            \* where each goroutine is inside w.sync()
  running,       \* w.running
  lastSyncTime,  \* w.lastSyncTime (0: the zero time)
  nextSyncTime,  \* w.nextSyncTime (0: the zero time)
  clock,         \* time.Now()
  entryNext,     \* w.cron.Entry(w.cronEntryID).Next
  read,          \* a goroutine's time value between reading and storing it
  panicking      \* goroutines that unwind a panic of the body

vars == <<config, main, pc, running, lastSyncTime, nextSyncTime, clock,
          entryNext, read, panicking>>
shared == <<config, main, clock, entryNext>>

\* With none of the three set, Sync returns at once.
Configs ==
  {c \in [cron : BOOLEAN, api : BOOLEAN, runOnStart : BOOLEAN] :
     c.cron \/ c.api \/ c.runOnStart}
Steps == {"idle", "check", "set", "body", "clear", "now", "last", "entry", "next"}

TypeOK ==
  /\ config \in Configs
  /\ main \in {"down", "starting", "serving", "stopping"}
  /\ pc \in [Threads -> Steps]
  /\ running \in BOOLEAN
  /\ lastSyncTime \in Nat
  /\ nextSyncTime \in Nat
  /\ clock \in Time
  /\ entryNext \in Nat
  /\ read \in [Threads -> Nat]
  /\ panicking \in SUBSET Threads

Init ==
  /\ config \in Configs
  /\ main = "down"
  /\ pc = [t \in Threads |-> "idle"]
  /\ running = FALSE
  /\ lastSyncTime = 0
  /\ nextSyncTime = 0
  /\ clock = 0
  /\ entryNext = 0
  /\ read = [t \in Threads |-> 0]
  /\ panicking = {}

-----------------------------------------------------------------------------
(* The process: func Sync, the signal handling of listenAndServe           *)

\* The process ends, whatever its goroutines were doing.
GoDown ==
  /\ main' = "down"
  /\ pc' = [t \in Threads |-> "idle"]
  /\ running' = FALSE
  /\ lastSyncTime' = 0
  /\ nextSyncTime' = 0
  /\ entryNext' = 0
  /\ read' = [t \in Threads |-> 0]
  /\ panicking' = {}
  /\ UNCHANGED <<config, clock>>

\* runOnStartAsync (or the call of w.sync() at the end of Sync).
RunOnStart ==
  pc' = [pc EXCEPT ![Startup] = IF config.runOnStart THEN "check" ELSE "idle"]

\* Sync: with the API, cron runs in the background; without it, Run() is
\* called after the run-on-start goroutine is on its way.
Boot ==
  /\ main = "down"
  /\ main' = IF config.cron /\ ~config.api THEN "starting" ELSE "serving"
  /\ nextSyncTime' = IF config.cron THEN NextExecution[clock] ELSE 0
  /\ entryNext' = IF config.cron /\ config.api THEN NextExecution[clock] ELSE 0
  /\ RunOnStart
  /\ UNCHANGED <<config, running, lastSyncTime, clock, read, panicking>>

\* w.cron.Run() of the configuration without the API.
CronRun ==
  /\ main = "starting"
  /\ main' = "serving"
  /\ entryNext' = NextExecution[clock]
  /\ UNCHANGED <<config, pc, running, lastSyncTime, nextSyncTime, clock, read,
                 panicking>>

\* A signal: the program stops cron and no longer accepts requests.
Signal ==
  /\ main = "serving"
  /\ config.api
  /\ main' = "stopping"
  /\ UNCHANGED <<config, pc, running, lastSyncTime, nextSyncTime, clock,
                 entryNext, read, panicking>>

\* httpServer.Shutdown returns once no handler is active ...
ShutdownDone ==
  /\ main = "stopping"
  /\ \A h \in Handlers : pc[h] = "idle"
  /\ GoDown

\* Mutant: the shutdown waits for the handlers for ever.
ShutdownWithoutTimeout ==
  /\ main = "stopping"
  /\ \A h \in Handlers : pc[h] = "idle"
  /\ GoDown

\* ... or after five seconds; main returns and the process is gone.
ShutdownTimeout ==
  /\ main = "stopping"
  /\ GoDown

\* SIGTERM, SIGKILL, the second signal, a crash, a power failure.
Kill ==
  /\ main # "down"
  /\ GoDown

-----------------------------------------------------------------------------
(* The triggers                                                            *)

Begin(t) ==
  /\ pc[t] = "idle"
  /\ pc' = [pc EXCEPT ![t] = "check"]

\* The cron loop starts a goroutine for the entry that is due, whether or not
\* an earlier one still runs, and computes the entry's next execution.
CronFire(t) ==
  /\ main = "serving"
  /\ config.cron
  /\ clock >= entryNext
  /\ Begin(t)
  /\ entryNext' = NextExecution[clock]
  /\ UNCHANGED <<config, main, running, lastSyncTime, nextSyncTime, clock,
                 read, panicking>>

\* handleSync.
HandleSync(t) ==
  /\ main = "serving"
  /\ config.api
  /\ Begin(t)
  /\ UNCHANGED <<shared, running, lastSyncTime, nextSyncTime, read, panicking>>

-----------------------------------------------------------------------------
(* w.sync(), one step per access to the worker                             *)

Goto(t, from, to) ==
  /\ pc[t] = from
  /\ pc' = [pc EXCEPT ![t] = to]

\* if w.running { return }
Check(t) ==
  /\ \/ ~running /\ Goto(t, "check", "set")
     \/ running /\ Goto(t, "check", "idle")
  /\ UNCHANGED <<shared, running, lastSyncTime, nextSyncTime, read, panicking>>

\* w.running = true
Set(t) ==
  /\ Goto(t, "set", "body")
  /\ running' = TRUE
  /\ UNCHANGED <<shared, lastSyncTime, nextSyncTime, read, panicking>>

\* The body returns, early or after the last replica.
Return(t) ==
  /\ Goto(t, "body", "clear")
  /\ UNCHANGED <<shared, running, lastSyncTime, nextSyncTime, read, panicking>>

\* Mutant: the flag is lowered by the last statement, not by a deferred function.
PanicWithoutDefer(t) ==
  /\ t \in Handlers
  /\ Goto(t, "body", "idle")
  /\ UNCHANGED <<shared, running, lastSyncTime, nextSyncTime, read, panicking>>

\* The body panics (a nil field of an answer): the deferred function runs.
Panic(t) ==
  /\ Goto(t, "body", "clear")
  /\ panicking' = panicking \cup {t}
  /\ UNCHANGED <<shared, running, lastSyncTime, nextSyncTime, read>>

\* Mutant: the deferred function forgets the flag.
ClearForgets(t) ==
  /\ Goto(t, "clear", "now")
  /\ UNCHANGED <<shared, running, lastSyncTime, nextSyncTime, read, panicking>>

\* The deferred function: w.running = false
Clear(t) ==
  /\ Goto(t, "clear", "now")
  /\ running' = FALSE
  /\ UNCHANGED <<shared, lastSyncTime, nextSyncTime, read, panicking>>

\* w.lastSyncTime = time.Now(): the time is taken, then stored.
ReadNow(t) ==
  /\ Goto(t, "now", "last")
  /\ read' = [read EXCEPT ![t] = clock]
  /\ UNCHANGED <<shared, running, lastSyncTime, nextSyncTime, panicking>>

StoreLast(t) ==
  /\ Goto(t, "last", "entry")
  /\ lastSyncTime' = read[t]
  /\ read' = [read EXCEPT ![t] = 0]
  /\ UNCHANGED <<shared, running, nextSyncTime, panicking>>

\* Mutant: takes the time that is left until the entry's next execution.
ReadTimeLeft(t) ==
  /\ config.cron
  /\ Goto(t, "entry", "next")
  /\ read' = [read EXCEPT ![t] = entryNext - clock]
  /\ UNCHANGED <<shared, running, lastSyncTime, nextSyncTime, panicking>>

\* entry := w.cron.Entry(w.cronEntryID), when there is a cron.
ReadEntry(t) ==
  /\ config.cron
  /\ Goto(t, "entry", "next")
  /\ read' = [read EXCEPT ![t] = entryNext]
  /\ UNCHANGED <<shared, running, lastSyncTime, nextSyncTime, panicking>>

\* The goroutine leaves sync.  gin recovers a handler's panic; anywhere else
\* a panic ends the process, and without cron and API main returns.
Survives(t) ==
  /\ t \in panicking => t \in Handlers
  /\ config.cron \/ config.api

Leave(t, from) ==
  /\ Survives(t)
  /\ Goto(t, from, "idle")
  /\ panicking' = panicking \ {t}
  /\ read' = [read EXCEPT ![t] = 0]
  /\ UNCHANGED <<shared, running, lastSyncTime>>

\* Mutant: w.nextSyncTime = sched.Next(time.Now()), as in Sync.
StoreNextFromNow(t) ==
  /\ Leave(t, "next")
  /\ nextSyncTime' = NextExecution[clock]

\* w.nextSyncTime = entry.Next
StoreNext(t) ==
  /\ Leave(t, "next")
  /\ nextSyncTime' = read[t]

LeaveWithoutCron(t) ==
  /\ ~config.cron
  /\ Leave(t, "entry")
  /\ UNCHANGED nextSyncTime

EndProcess(t) ==
  /\ pc[t] = IF config.cron THEN "next" ELSE "entry"
  /\ ~Survives(t)
  /\ GoDown

Elapse ==
  /\ clock < MaxTime
  /\ clock' = clock + 1
  /\ UNCHANGED <<config, main, pc, running, lastSyncTime, nextSyncTime,
                 entryNext, read, panicking>>

-----------------------------------------------------------------------------
\* What a goroutine does by itself; the body depends on the peers.
Own(t) ==
  \/ Check(t) \/ Set(t) \/ Clear(t) \/ ReadNow(t) \/ StoreLast(t)
  \/ ReadEntry(t) \/ StoreNext(t) \/ LeaveWithoutCron(t) \/ EndProcess(t)

Process == Boot \/ CronRun \/ Signal \/ ShutdownDone \/ ShutdownTimeout \/ Kill

Next ==
  \/ Process
  \/ Elapse
  \/ \E t \in CronJobs : CronFire(t)
  \/ \E t \in Handlers : HandleSync(t)
  \/ \E t \in Threads : Own(t) \/ Return(t) \/ Panic(t)

Spec == Init /\ [][Next]_vars

\* The Go scheduler runs every goroutine; the shutdown context expires.  No
\* fairness for Return: a request without timeout may never be answered.
Fairness ==
  /\ \A t \in Threads : WF_vars(Own(t))
  /\ WF_vars(ShutdownDone \/ ShutdownTimeout)

FairSpec == Spec /\ Fairness

-----------------------------------------------------------------------------
Busy(t) == pc[t] \in {"body", "clear"}
Quiet == \A t \in Threads : pc[t] = "idle"

(* The flag is never raised without a goroutine that will lower it: no     *)
(* interleaving of the unsynchronised check, set and clear, no panic and   *)
(* no restart leaves a flag behind that makes every later sync return with *)
(* "Sync already running".                                                 *)
RunningHasOwner == running => \E t \in Threads : Busy(t)

(* A trigger is turned away only while another goroutine really is syncing. *)
TurnedAway(t) == main' # "down" /\ pc[t] = "check" /\ pc'[t] = "idle"
SkipOnlyWhenBusy ==
  [][\A t \in Threads :
       TurnedAway(t) => \E u \in Threads \ {t} : Busy(u)]_vars

(* The announced next sync is never later than cron's own next execution,  *)
(* in spite of the racing goroutines that copy one to the other.           *)
ScheduleNotAhead == main # "starting" => nextSyncTime <= entryNext

(* If every sync's peers answer in the end, then the flag is lowered again *)
(* and again, also with triggers that keep coming.                         *)
PeersAnswer == \A t \in Threads : []<>(pc[t] # "body")
FlagIsReleased == PeersAnswer => []<>(~running)

(* A shutdown ends the process, even if a peer never answers.              *)
ShutdownTerminates == (main = "stopping") ~> (main = "down")

(* The claim of the guard in w.sync(): a second sync does not start while  *)
(* one is running.  The check and the set are two steps: it does.          *)
AtMostOneSync ==
  \A t, u \in Threads : pc[t] = "body" /\ pc[u] = "body" => t = u
=============================================================================
