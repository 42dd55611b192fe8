----------------------------- MODULE SyncSystem -----------------------------
(***************************************************************************)
(* The whole program at work: the goroutines of module Worker, each with   *)
(* its own origin struct and its own place in the loop over the replicas,  *)
(* against an origin that is edited and replicas they all write to.        *)
(*                                                                         *)
(* Worker says when a sync starts and ends, with its two unsynchronised    *)
(* steps on the flag; here the step pc = "body" is given its content.      *)
(* Module SyncPass has the detail of one pass (order of the requests,      *)
(* result, gates); here a part of the settings is one value, the number of *)
(* edits it has seen at the origin, and requests come in any order within  *)
(* the origin and within a replica.  The protection and the DNS config,    *)
(* which share a field, count as one part, and a list that its own         *)
(* requests put out of step (module ListSync) counts as left out.          *)
(*                                                                         *)
(* Environment: the origin is edited MaxEdits times; a request fails or    *)
(* its answer is lost, a part is left out, a body panics, the process is   *)
(* stopped or killed, together at most MaxFaults times.  A request that is *)
(* in flight when the process goes down has arrived or never does.         *)
(***************************************************************************)
EXTENDS Worker

CONSTANTS
  Replicas,    \* cfg.UniqueReplicas()
  Parts,       \* parts of the settings
  MaxEdits,    \* bound of the edits
  MaxFaults    \* bound of the failures and of the parts left out

ASSUME SystemAssumption == MaxEdits \in Nat /\ MaxFaults \in Nat

VARIABLES
  origin,      \* the version of each part at the origin
  replica,     \* the version of each part at each replica
  unread,      \* reads from the origin that are left to a goroutine
  held,        \* its origin struct
  left,        \* its comparisons that are left
  sending,     \* its request in flight
  missed,      \* (history) what its sync has failed to bring or left out
  overlapping, \* (history) goroutines whose sync overlaps with another
  asked,       \* (history) the origin when a goroutine's sync began
  faults

peers == <<origin, replica>>
progress == <<left, sending>>
locals == <<unread, held, progress, missed, overlapping, asked>>
sysVars == <<vars, peers, locals, faults>>

Versions == 0..MaxEdits
Work == Replicas \X Parts
NoVersion == [p \in Parts |-> 0]

InBody(t) == pc[t] = "body"

\* Goroutine t has no sync on its way.
AtRest(t) ==
  /\ unread[t] = Parts
  /\ held[t] = NoVersion
  /\ left[t] = Work
  /\ sending[t] = {}
  /\ missed[t] = {}
  /\ t \notin overlapping
  /\ asked[t] = NoVersion

SysTypeOK ==
  /\ TypeOK
  /\ origin \in [Parts -> Versions]
  /\ replica \in [Replicas -> [Parts -> Versions]]
  /\ unread \in [Threads -> SUBSET Parts]
  /\ held \in [Threads -> [Parts -> Versions]]
  /\ left \in [Threads -> SUBSET Work]
  /\ sending \in [Threads -> SUBSET Work]
  /\ missed \in [Threads -> SUBSET Work]
  /\ overlapping \in SUBSET Threads
  /\ asked \in [Threads -> [Parts -> Versions]]
  /\ \A t \in Threads : ~InBody(t) => AtRest(t)
  /\ faults \in 0..MaxFaults

SysInit ==
  /\ Init
  /\ origin = NoVersion
  /\ replica = [r \in Replicas |-> NoVersion]
  /\ unread = [t \in Threads |-> Parts]
  /\ held = [t \in Threads |-> NoVersion]
  /\ left = [t \in Threads |-> Work]
  /\ sending = [t \in Threads |-> {}]
  /\ missed = [t \in Threads |-> {}]
  /\ overlapping = {}
  /\ asked = [t \in Threads |-> NoVersion]
  /\ faults = 0

-----------------------------------------------------------------------------
Failure == faults < MaxFaults /\ faults' = faults + 1

\* The variables of t's sync, but for its origin struct.
ForgetWork(t) ==
  /\ left' = [left EXCEPT ![t] = Work]
  /\ sending' = [sending EXCEPT ![t] = {}]
  /\ missed' = [missed EXCEPT ![t] = {}]
  /\ overlapping' = overlapping \ {t}
  /\ asked' = [asked EXCEPT ![t] = NoVersion]

\* Mutant: the origin struct is kept for the next sync.
KeepOrigin(t) == ForgetWork(t) /\ UNCHANGED <<unread, held>>

\* The variables of t's sync are gone.
Forget(t) ==
  /\ ForgetWork(t)
  /\ unread' = [unread EXCEPT ![t] = Parts]
  /\ held' = [held EXCEPT ![t] = NoVersion]

\* The flag is raised and the sync begins; syncs that overlap are marked.
StartBody(t) ==
  /\ Set(t)
  /\ asked' = [asked EXCEPT ![t] = origin]
  /\ LET others == {u \in Threads : InBody(u)}
     IN overlapping' = IF others = {} THEN overlapping
                       ELSE overlapping \cup others \cup {t}
  /\ UNCHANGED <<peers, unread, held, progress, missed, faults>>

ReadOrigin(t, p) ==
  /\ InBody(t)
  /\ p \in unread[t]
  /\ unread' = [unread EXCEPT ![t] = unread[t] \ {p}]
  /\ held' = [held EXCEPT ![t][p] = origin[p]]
  /\ UNCHANGED <<vars, peers, progress, missed, overlapping, asked, faults>>

\* Reading the origin fails: w.sync() returns.
ReadOriginFails(t) ==
  /\ Return(t)
  /\ unread[t] # {}
  /\ Failure
  /\ Forget(t)
  /\ UNCHANGED peers

\* syncTo works on one replica after the other.
OneByOne(t, r) ==
  \A w \in left[t] : w[1] = r \/ {w[1]} \X Parts \subseteq left[t]

\* Ready for the next comparison, which is that of part p of replica r.
AtWork(t, r, p) ==
  /\ InBody(t)
  /\ unread[t] = {}
  /\ sending[t] = {}
  /\ <<r, p>> \in left[t]
  /\ OneByOne(t, r)

\* An action reads the replica; a request follows when the part differs, and
\* for some parts always.
Compare(t, r, p) ==
  /\ AtWork(t, r, p)
  /\ left' = [left EXCEPT ![t] = left[t] \ {<<r, p>>}]
  /\ \/ sending' = [sending EXCEPT ![t] = {<<r, p>>}]
     \/ replica[r][p] = held[t][p] /\ UNCHANGED sending
  /\ UNCHANGED <<vars, peers, unread, held, missed, overlapping, asked, faults>>

\* The sync goes on without the parts in dropped.
GiveUp(t, dropped) ==
  /\ left' = [left EXCEPT ![t] = left[t] \ dropped]
  /\ missed' = [missed EXCEPT ![t] = missed[t] \cup dropped]
  /\ sending' = [sending EXCEPT ![t] = {}]
  /\ UNCHANGED <<vars, origin, unread, held, overlapping, asked>>

\* A part that differs is not sent, without an error: the filtering switch
\* after new user rules, a profile that the origin has answered with 401.
LeaveOut(t, r, p) ==
  /\ AtWork(t, r, p)
  /\ replica[r][p] # held[t][p]
  /\ Failure
  /\ GiveUp(t, {<<r, p>>})
  /\ UNCHANGED replica

\* After an error the other parts of an action, and without ContinueOnError
\* all that is left for the replica, are given up with the part.
AfterError(t, r, p) ==
  \E others \in SUBSET ({r} \X Parts) :
    GiveUp(t, {<<r, p>>} \cup (others \cap left[t]))

CompareFails(t, r, p) ==
  /\ AtWork(t, r, p)
  /\ Failure
  /\ AfterError(t, r, p)
  /\ UNCHANGED replica

Apply(t, r, p) == replica' = [replica EXCEPT ![r][p] = held[t][p]]

Send(t, r, p) ==
  /\ InBody(t)
  /\ <<r, p>> \in sending[t]
  /\ Apply(t, r, p)
  /\ sending' = [sending EXCEPT ![t] = {}]
  /\ UNCHANGED <<vars, origin, unread, held, left, missed, overlapping, asked,
                 faults>>

\* The request is not applied, or it is and its answer is lost.
SendFails(t, r, p) ==
  /\ InBody(t)
  /\ <<r, p>> \in sending[t]
  /\ Failure
  /\ UNCHANGED replica \/ Apply(t, r, p)
  /\ AfterError(t, r, p)

\* Mutant: replicas are synced by goroutines that the sync does not wait for.
FinishedWhenStarted(t) == unread[t] = {}

Finished(t) == unread[t] = {} /\ left[t] = {} /\ sending[t] = {}

EndBody(t) ==
  /\ Return(t)
  /\ Finished(t)
  /\ Forget(t)
  /\ UNCHANGED <<peers, faults>>

PanicInBody(t) ==
  /\ Panic(t)
  /\ Failure
  /\ Forget(t)
  /\ UNCHANGED peers

-----------------------------------------------------------------------------
EditOrigin(p) ==
  /\ origin[p] < MaxEdits
  /\ origin' = [origin EXCEPT ![p] = origin[p] + 1]
  /\ UNCHANGED <<vars, replica, locals, faults>>

\* The process goes down, with all its goroutines.
Down ==
  /\ unread' = [t \in Threads |-> Parts]
  /\ held' = [t \in Threads |-> NoVersion]
  /\ left' = [t \in Threads |-> Work]
  /\ sending' = [t \in Threads |-> {}]
  /\ missed' = [t \in Threads |-> {}]
  /\ overlapping' = {}
  /\ asked' = [t \in Threads |-> NoVersion]
  /\ UNCHANGED peers

Stop ==
  \/ Kill /\ Failure /\ Down
  \/ Signal /\ Failure /\ UNCHANGED <<peers, locals>>

ShutdownEnds == (ShutdownDone \/ ShutdownTimeout) /\ Down /\ UNCHANGED faults

ProcessEnds(t) == EndProcess(t) /\ Down /\ UNCHANGED faults

\* Steps of the worker that do not touch what a body keeps.
Outside(t) ==
  /\ \/ Check(t) \/ Clear(t) \/ ReadNow(t) \/ StoreLast(t)
     \/ ReadEntry(t) \/ StoreNext(t) \/ LeaveWithoutCron(t)
  /\ UNCHANGED <<peers, locals, faults>>

Trigger ==
  /\ \/ Boot \/ CronRun \/ Elapse
     \/ \E t \in CronJobs : CronFire(t)
     \/ \E t \in Handlers : HandleSync(t)
  /\ UNCHANGED <<peers, locals, faults>>

SysOwn(t) == Outside(t) \/ StartBody(t) \/ ProcessEnds(t)

Body(t) ==
  \/ ReadOriginFails(t) \/ EndBody(t) \/ PanicInBody(t)
  \/ \E p \in Parts : ReadOrigin(t, p)
  \/ \E r \in Replicas, p \in Parts :
       \/ Compare(t, r, p) \/ CompareFails(t, r, p) \/ LeaveOut(t, r, p)
       \/ Send(t, r, p) \/ SendFails(t, r, p)

SysNext ==
  \/ Trigger \/ Stop \/ ShutdownEnds
  \/ \E p \in Parts : EditOrigin(p)
  \/ \E t \in Threads : SysOwn(t) \/ Body(t)

SysSpec == SysInit /\ [][SysNext]_sysVars

\* As in module Worker; no fairness for Body: peers may never answer.
SysFairSpec ==
  /\ SysSpec
  /\ \A t \in Threads : WF_sysVars(SysOwn(t))
  /\ WF_sysVars(ShutdownEnds)

-----------------------------------------------------------------------------
Overlap == overlapping # {}

Promise == INSTANCE Replication WITH overlap <- Overlap

(* The program keeps the promise of module Replication: whatever its       *)
(* goroutines interleave, fail, are killed and start again, a replica gets *)
(* versions the origin has had, and an older one than it has only from a   *)
(* sync that overlapped with another.                                      *)
KeepsPromise == Promise!Spec

Completes(t) == InBody(t) /\ pc'[t] = "clear" /\ Finished(t) /\ t \notin panicking'

(* A sync that overlapped with no other leaves at every replica, of every  *)
(* part that it has neither failed to bring nor left out, what the origin  *)
(* had when the sync began, or newer: although it has read the origin part *)
(* by part, and the replica before it sent, with edits in between.         *)
FreshWhenDone ==
  [][\A t \in Threads \ overlapping : Completes(t) =>
       \A r \in Replicas, p \in Parts :
         <<r, p>> \notin missed[t] => replica[r][p] >= asked[t][p]]_sysVars

(* If every sync's peers answer in the end and triggers keep coming, every *)
(* replica has the origin's last version for good, also after overlapping  *)
(* syncs have taken it back: no trigger is turned away for ever, and the   *)
(* last sync that holds old values ends before the last that does not.     *)
TriggersKeepComing == []<>(\E t \in Threads : pc[t] = "check")
SystemConverges ==
  PeersAnswer /\ TriggersKeepComing =>
    <>[](\A r \in Replicas : replica[r] = origin)
=============================================================================
