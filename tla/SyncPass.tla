------------------------------ MODULE SyncPass ------------------------------
(***************************************************************************)
(* What w.sync() does while `running' is raised (internal/sync/sync.go):   *)
(* read every setting of the origin, then bring the replicas into line one *)
(* after the other, action by action, and report a result per replica to   *)
(* the metrics.  One pass runs at a time here; module Worker shows when    *)
(* that is not so.                                                         *)
(*                                                                         *)
(* The value of a part of the settings is what its request brings to the   *)
(* replica: the profile's is its language, a theme that differs alone is   *)
(* the subject of module SettingSync.                                      *)
(*                                                                         *)
(* Environment: any request fails (not applied) or is lost (applied, but   *)
(* the answer is not seen), the process is killed at any step and started  *)
(* again, the origin and the replicas are edited during a pass; together   *)
(* at most MaxFaults and MaxEdits times.  A dead replica never answers, an *)
(* outdated instance has a version below versions.MinAgh, and a replica    *)
(* can reject a part of the settings for ever.                             *)
(***************************************************************************)
EXTENDS SyncActions

CONSTANTS
  Replicas,      \* cfg.UniqueReplicas()
  Origin,        \* cfg.Origin
  Values,        \* of a part of the settings
  Configs,       \* the configurations and environments considered
  Origins,       \* initial settings of the origin
  Contents,      \* initial settings of the replicas
  Editable,      \* parts an administrator edits at the origin
  ReplicaEditable,  \* and at a replica
  MaxFaults,     \* bound of the failures
  MaxEdits       \* bound of the edits

Hosts == Replicas \cup {Origin}
Settings == [AllParts -> Values]
NotRead == "not read"   \* no value yet, or an empty profile
Held == AllParts \cup {DNSProtection}

Config == [
  features : SUBSET Features,
  continueOnError : BOOLEAN,
  autoSetup : SUBSET Replicas,
  installed : SUBSET Replicas,     \* need no setup when the program starts
  invalid : SUBSET Replicas,       \* no client can be created
  dead : SUBSET Replicas,
  outdated : SUBSET Hosts,
  alwaysSent : SUBSET {BlockedServices, DHCPConfig},  \* never found equal
  neverSent : SUBSET {DHCPConfig},    \* the origin has no DHCP to compare
  rejects : [Replicas -> SUBSET AllRequests]]

ASSUME SyncPassAssumption ==
  /\ Origin \notin Replicas
  /\ NotRead \notin Values
  /\ Configs \subseteq Config
  /\ Origins \subseteq Settings
  /\ Contents \subseteq [Replicas -> Settings]
  /\ Editable \subseteq AllParts
  /\ ReplicaEditable \subseteq AllParts
  /\ MaxFaults \in Nat
  /\ MaxEdits \in Nat

VARIABLES
  cfg,         \* the configuration, and what the peers are like
  origin,      \* the settings of the origin
  replica,     \* the settings of each replica
  installed,   \* replicas that need no setup
  metric,      \* sync_successful of each replica
  pc,          \* where the pass is
  toRead,      \* reads from the origin that are left
  snapshot,    \* the origin struct of the pass
  todo,        \* replicas that are left
  current,     \* the replica syncTo works on
  status,      \* replicaStatus.ProtectionEnabled
  acts,        \* actions that are left for it
  plan,        \* requests that are left of an action
  withError,   \* the local variable of syncTo
  erred,       \* (history) a request to the current replica has failed
  unplanned,   \* parts of it that have changed behind their comparison
  faults, edits

peers == <<cfg, origin, replica, installed>>
local == <<status, acts, plan, withError, erred, unplanned>>
passwide == <<toRead, snapshot, todo>>
bounds == <<faults, edits>>
vars == <<peers, metric, pc, passwide, current, local, bounds>>

\* Where syncTo works on a replica.
InSyncTo == {"status", "setup", "restatus", "actions", "requests", "report"}

TypeOK ==
  /\ cfg \in Configs
  /\ origin \in Settings
  /\ replica \in [Replicas -> Settings]
  /\ installed \in SUBSET Replicas
  /\ metric \in [Replicas -> {"none", "yes", "no"}]
  /\ pc \in {"idle", "origin", "replicas"} \cup InSyncTo
  /\ toRead \in SUBSET Reads
  /\ snapshot \in [Held -> Values \cup {NotRead}]
  /\ todo \in SUBSET Replicas
  /\ current \in IF pc \in InSyncTo THEN Replicas ELSE {Origin}
  /\ status \in Values \cup {NotRead}
  /\ acts \in SUBSET ActionNames
  /\ plan \in SUBSET AllRequests
  /\ withError \in BOOLEAN
  /\ erred \in BOOLEAN
  /\ unplanned \in SUBSET AllParts
  /\ faults \in 0..MaxFaults
  /\ edits \in 0..MaxEdits

\* current = Origin: no replica is being synced.
Init ==
  /\ cfg \in Configs
  /\ origin \in Origins
  /\ replica \in Contents
  /\ installed = cfg.installed
  /\ metric = [r \in Replicas |-> "none"]
  /\ pc = "idle"
  /\ toRead = {}
  /\ snapshot = [p \in Held |-> NotRead]
  /\ todo = {}
  /\ current = Origin
  /\ status = NotRead
  /\ acts = {}
  /\ plan = {}
  /\ withError = FALSE
  /\ erred = FALSE
  /\ unplanned = {}
  /\ faults = 0
  /\ edits = 0

-----------------------------------------------------------------------------
(* Requests                                                                *)

Answered == UNCHANGED faults
Failure == faults < MaxFaults /\ faults' = faults + 1

\* A request to a replica is answered / is not, or is refused.
Reached(r) == r \notin cfg.dead /\ Answered
Unreached(r) == IF r \in cfg.dead THEN Answered ELSE Failure

-----------------------------------------------------------------------------
(* The pass: w.sync() from the first client to the loop over the replicas  *)

ClearLocals ==
  /\ current' = Origin
  /\ status' = NotRead
  /\ acts' = {}
  /\ plan' = {}
  /\ withError' = FALSE
  /\ erred' = FALSE
  /\ unplanned' = {}

\* The pass returns; its variables are gone.
EndPass ==
  /\ pc' = "idle"
  /\ toRead' = {}
  /\ snapshot' = [p \in Held |-> NotRead]
  /\ todo' = {}
  /\ ClearLocals

StartPass ==
  /\ pc = "idle"
  /\ pc' = "origin"
  /\ toRead' = OriginReads(cfg.features)
  /\ UNCHANGED <<peers, metric, snapshot, todo, current, local, bounds>>

\* The parts of the settings that a read returns take these values.
Store(s, value) ==
  snapshot' = [p \in Held |->
    IF p = DNSProtection
    THEN IF s = "DNS server config" THEN value[Protection] ELSE snapshot[p]
    ELSE IF \E a \in Serves(s) : p \in Parts(a) THEN value[p] ELSE snapshot[p]]

\* After the last read the replicas are next.
NextRead(s) ==
  /\ toRead' = toRead \ {s}
  /\ IF toRead' = {} THEN pc' = "replicas" /\ todo' = Replicas
                     ELSE pc' = "origin" /\ todo' = {}
  /\ UNCHANGED <<current, local>>

ReadOrigin(s) ==
  /\ pc = "origin"
  /\ First(s, toRead, ReadOrder)
  /\ s = "status" => Origin \notin cfg.outdated
  /\ Store(s, origin)
  /\ NextRead(s)
  /\ UNCHANGED <<peers, metric, bounds>>

\* versions.IsNewerThan(versions.MinAgh, o.status.Version)
OriginOutdated ==
  /\ pc = "origin"
  /\ First("status", toRead, ReadOrder)
  /\ Origin \in cfg.outdated
  /\ EndPass
  /\ UNCHANGED <<peers, metric, bounds>>

ReadOriginFails(s) ==
  /\ pc = "origin"
  /\ First(s, toRead, ReadOrder)
  /\ Failure
  /\ EndPass
  /\ UNCHANGED <<peers, metric, edits>>

\* The profile of the origin answers 401: with ContinueOnError the pass goes
\* on with an empty profile.
ProfileUnauthorized ==
  /\ pc = "origin"
  /\ First("profile info", toRead, ReadOrder)
  /\ cfg.continueOnError
  /\ Failure
  /\ Store("profile info", [p \in AllParts |-> NotRead])
  /\ NextRead("profile info")
  /\ UNCHANGED <<peers, metric, edits>>

\* The loop over the replicas is done.
FinishPass ==
  /\ pc = "replicas"
  /\ todo = {}
  /\ EndPass
  /\ UNCHANGED <<peers, metric, bounds>>

-----------------------------------------------------------------------------
(* syncTo                                                                  *)

NoClient(r) ==
  /\ pc = "replicas"
  /\ r \in todo \cap cfg.invalid
  /\ todo' = todo \ {r}
  /\ UNCHANGED <<peers, metric, pc, toRead, snapshot, current, local, bounds>>

\* UniqueReplicas returns the replicas in the order of a map: in any order.
Connect(r) ==
  /\ pc = "replicas"
  /\ r \in todo \ cfg.invalid
  /\ todo' = todo \ {r}
  /\ current' = r
  /\ withError' = FALSE
  /\ pc' = "status"
  /\ UNCHANGED <<peers, metric, toRead, snapshot, status, acts, plan, erred,
                 unplanned, bounds>>

\* syncTo returns with an error before the first action.
GiveUp ==
  /\ pc' = "report"
  /\ withError' = TRUE
  /\ erred' = TRUE
  /\ UNCHANGED <<status, acts, plan, unplanned>>

\* Mutant: the replica's version is not checked.
AcceptAnyVersion ==
  /\ status' = replica[current][Protection]
  /\ acts' = SetupActions(cfg.features)
  /\ pc' = "actions"
  /\ UNCHANGED <<plan, withError, erred, unplanned>>

\* The status has come: check the version, set up the actions.
Accept ==
  /\ current \notin cfg.outdated
  /\ status' = replica[current][Protection]
  /\ acts' = SetupActions(cfg.features)
  /\ pc' = "actions"
  /\ UNCHANGED <<plan, withError, erred, unplanned>>

ReplicaStatus ==
  /\ pc = "status"
  /\ Reached(current)
  /\ IF current \in installed THEN Accept \/ (current \in cfg.outdated /\ GiveUp)
     ELSE IF current \in cfg.autoSetup
          THEN pc' = "setup"
               /\ UNCHANGED local
          ELSE GiveUp
  /\ UNCHANGED <<peers, metric, passwide, current, edits>>

\* rc.Setup(): the replica is installed, and the answer may be lost.
Setup ==
  /\ pc = "setup"
  /\ installed' = installed \cup {current}
  /\ \/ /\ Answered
        /\ pc' = "restatus"
        /\ UNCHANGED local
     \/ Failure /\ GiveUp
  /\ UNCHANGED <<cfg, origin, replica, metric, passwide, current, edits>>

\* The status after the setup.
StatusAfterSetup ==
  /\ pc = "restatus"
  /\ Reached(current)
  /\ Accept \/ (current \in cfg.outdated /\ GiveUp)
  /\ UNCHANGED <<peers, metric, passwide, current, edits>>

\* Mutant: a replica without a status ends the pass for all replicas.
StatusFailsThePass ==
  /\ pc \in {"status", "setup", "restatus"}
  /\ Unreached(current)
  /\ EndPass
  /\ UNCHANGED <<peers, metric, edits>>

StatusFails ==
  /\ pc \in {"status", "setup", "restatus"}
  /\ Unreached(current)
  /\ GiveUp
  /\ UNCHANGED <<peers, metric, passwide, current, edits>>

-----------------------------------------------------------------------------
(* The actions                                                             *)

\* The protection is compared with the status that was read when the replica
\* was connected, and once more as a field of the DNS config.
Known(a, p) == IF a = "protection" THEN status ELSE replica[current][p]
Differs(a, p) ==
  \/ snapshot[p] # Known(a, p)
  \/ p = DNSConfig /\ snapshot[DNSProtection] # replica[current][Protection]
  \/ p \in cfg.alwaysSent

\* The parts of action a that its comparison finds to differ.
Due(a) ==
  {p \in Parts(a) \ cfg.neverSent : snapshot[p] # NotRead /\ Differs(a, p)}

BeginAction(a) ==
  /\ pc = "actions"
  /\ First(a, acts, ActionOrder)
  /\ Reached(current)
  /\ acts' = acts \ {a}
  /\ plan' = Plan(a, Due(a))
  /\ pc' = IF plan' = {} THEN "actions" ELSE "requests"
  /\ UNCHANGED <<peers, metric, passwide, current, status, withError, erred,
                 unplanned, edits>>

\* Mutant: the loop over the actions goes on in any case.
ActionErrorGoesOn ==
  /\ withError' = TRUE
  /\ plan' = {}
  /\ pc' = "actions"

\* The action returns an error.
ActionError ==
  /\ withError' = TRUE
  /\ plan' = {}
  /\ pc' = IF cfg.continueOnError THEN "actions" ELSE "report"

\* The action cannot read the replica's settings.
ReadReplicaFails(a) ==
  /\ pc = "actions"
  /\ First(a, acts, ActionOrder)
  /\ a # "protection"
  /\ Unreached(current)
  /\ acts' = acts \ {a}
  /\ ActionError
  /\ erred' = TRUE
  /\ UNCHANGED <<peers, metric, passwide, current, status, unplanned, edits>>

\* plan holds requests of one action.
NextRequest(q) ==
  /\ pc = "requests"
  /\ \E a \in ActionNames : First(q, plan, Requests(a))

\* What the request q brings for a part that it sets.
Sent(q, p) == snapshot[IF q = DNSConfig /\ p = Protection THEN DNSProtection ELSE p]

\* The replica's settings after the request: entries of a list that have
\* changed behind the comparison are not among those that q stands for.
Result(q) ==
  [p \in AllParts |->
     IF p \in Sets(q) /\ (p[2] = "set" \/ p \notin unplanned)
     THEN Sent(q, p) ELSE replica[current][p]]

\* The part that the request disturbs is left with another value than the one
\* that was read.
ApplyAndDisturb(q, p, v) ==
  /\ v # snapshot[p]
  /\ replica' = [replica EXCEPT ![current] = [Result(q) EXCEPT ![p] = v]]
  /\ unplanned' = unplanned \cup {p}

Apply(q) ==
  \/ replica' = [replica EXCEPT ![current] = Result(q)] /\ UNCHANGED unplanned
  \/ \E p \in Disturbs(q), v \in Values : ApplyAndDisturb(q, p, v)

RequestSucceeds(q) ==
  /\ NextRequest(q)
  /\ q \notin cfg.rejects[current]
  /\ Reached(current)
  /\ Apply(q)
  /\ plan' = plan \ {q}
  /\ pc' = IF plan' = {} THEN "actions" ELSE "requests"
  /\ UNCHANGED <<cfg, origin, installed, metric, passwide, current, status,
                 acts, withError, erred, edits>>

\* Mutant: a tolerant request's error is logged without ContinueOnError too.
AfterErrorLogs(q) ==
  /\ erred' = TRUE
  /\ IF q \in Tolerant
     THEN /\ plan' = plan \ {q}
          /\ pc' = IF plan' = {} THEN "actions" ELSE "requests"
          /\ UNCHANGED withError
     ELSE ActionError
  /\ UNCHANGED <<cfg, origin, installed, metric, passwide, current, status,
                 acts, edits>>

\* An error of a tolerant request is logged; any other ends the action.
AfterError(q) ==
  /\ erred' = TRUE
  /\ IF q \in Tolerant /\ cfg.continueOnError
     THEN /\ plan' = plan \ {q}
          /\ pc' = IF plan' = {} THEN "actions" ELSE "requests"
          /\ UNCHANGED withError
     ELSE ActionError
  /\ UNCHANGED <<cfg, origin, installed, metric, passwide, current, status,
                 acts, edits>>

RequestFails(q) ==
  /\ NextRequest(q)
  /\ IF q \in cfg.rejects[current] THEN Answered ELSE Unreached(current)
  /\ UNCHANGED <<replica, unplanned>>
  /\ AfterError(q)

AnswerLost(q) ==
  /\ NextRequest(q)
  /\ q \notin cfg.rejects[current]
  /\ current \notin cfg.dead
  /\ Failure
  /\ Apply(q)
  /\ AfterError(q)

LastAction ==
  /\ pc = "actions"
  /\ acts = {}
  /\ pc' = "report"
  /\ UNCHANGED <<peers, metric, passwide, current, local, bounds>>

\* The deferred function of syncTo: metrics.UpdateResult, without the duration.
UpdateResult ==
  metric' = [metric EXCEPT ![current] = IF withError THEN "no" ELSE "yes"]

\* Mutant: the variables of syncTo outlive it.
ReportKeepsLocals ==
  /\ pc = "report"
  /\ UpdateResult
  /\ pc' = "replicas"
  /\ UNCHANGED <<peers, passwide, current, local, bounds>>

Report ==
  /\ pc = "report"
  /\ UpdateResult
  /\ pc' = "replicas"
  /\ ClearLocals
  /\ UNCHANGED <<peers, passwide, bounds>>

\* An action panics (a field that an answer lacks): both deferred functions
\* run, the metric is written, and the pass is over.
Panic ==
  /\ pc \in {"actions", "requests"}
  /\ Failure
  /\ UpdateResult
  /\ EndPass
  /\ UNCHANGED <<peers, edits>>

\* The parts of the settings that the actions of the enabled features set.
Enabled ==
  (UNION {SetBy(a) : a \in SetupActions(cfg.features)}) \ cfg.neverSent

-----------------------------------------------------------------------------
(* The environment                                                         *)

\* The process dies and is started again: the metrics are gone as well.
Kill ==
  /\ Failure
  /\ EndPass
  /\ metric' = [r \in Replicas |-> "none"]
  /\ UNCHANGED <<peers, edits>>

\* An edit that a pass can bring to a replica.
EditOrigin(p, v) ==
  /\ p \in Enabled
  /\ edits < MaxEdits
  /\ edits' = edits + 1
  /\ origin[p] # v
  /\ origin' = [origin EXCEPT ![p] = v]
  /\ UNCHANGED <<cfg, replica, installed, metric, pc, passwide, current,
                 local, faults>>

\* What the pass knows of part p of the current replica is from before now.
Compared(p) ==
  /\ pc \in {"actions", "requests", "report"}
  /\ p = Protection \/ \A a \in acts : p \notin Parts(a)

\* An administrator edits a replica, or its protection comes back after a
\* pause.
EditReplica(r, p, v) ==
  /\ p \in Enabled
  /\ edits < MaxEdits
  /\ edits' = edits + 1
  /\ replica[r][p] # v
  /\ replica' = [replica EXCEPT ![r][p] = v]
  /\ unplanned' = IF r = current /\ Compared(p) THEN unplanned \cup {p}
                                               ELSE unplanned
  /\ UNCHANGED <<cfg, origin, installed, metric, pc, passwide, current, status,
                 acts, plan, withError, erred, faults>>

-----------------------------------------------------------------------------
OriginStep ==
  \/ \E s \in toRead : ReadOrigin(s) \/ ReadOriginFails(s)
  \/ OriginOutdated \/ ProfileUnauthorized

ReplicaStep ==
  \/ \E r \in todo : NoClient(r) \/ Connect(r)
  \/ ReplicaStatus \/ Setup \/ StatusAfterSetup \/ StatusFails

ActionStep ==
  \/ \E a \in acts : BeginAction(a) \/ ReadReplicaFails(a)
  \/ \E q \in plan : RequestSucceeds(q) \/ RequestFails(q) \/ AnswerLost(q)
  \/ LastAction \/ Panic

Pass == StartPass \/ OriginStep \/ ReplicaStep \/ ActionStep \/ Report \/ FinishPass

Next ==
  \/ Pass
  \/ Kill
  \/ \E p \in Editable, v \in Values : EditOrigin(p, v)
  \/ \E r \in Replicas, p \in ReplicaEditable, v \in Values : EditReplica(r, p, v)

Spec == Init /\ [][Next]_vars

\* The passes keep coming (cron), and every request ends: with an answer, an
\* error, or a kill.
FairSpec == Spec /\ WF_vars(Pass)

-----------------------------------------------------------------------------
\* What the pass is to bring for part p: of two reads of the protection the
\* later one, when the DNS config is synced.
Wanted(p) ==
  snapshot[IF p = Protection /\ "DNS.ServerConfig" \in cfg.features
           THEN DNSProtection ELSE p]

(* But for an edit, a replica's settings change only in syncTo for that    *)
(* replica, after the whole origin was read, when both versions are        *)
(* supported and the replica is set up; only parts change that a request   *)
(* of an enabled feature sets, and to what the pass has read, but for what *)
(* a request on a list has put out of step.                                *)
WritesAreGated ==
  [][\A r \in Replicas : replica'[r] # replica[r] /\ UNCHANGED edits =>
       /\ r = current /\ r \in installed /\ toRead = {}
       /\ {r, Origin} \cap cfg.outdated = {}
       /\ \A p \in AllParts : replica'[r][p] # replica[r][p] =>
            /\ p \in Enabled
            /\ replica'[r][p] \in {snapshot[p], Wanted(p)} \/ p \in unplanned']_vars

(* Without ContinueOnError nothing is written to a replica once a request  *)
(* to it has failed, neither by the same action nor by a later one.        *)
StopsAtFirstError ==
  [][~cfg.continueOnError /\ erred => UNCHANGED replica \/ edits' # edits]_vars

(* Without ContinueOnError an error in any of the calls, also one that an  *)
(* action handles entry by entry, reaches the result that syncTo reports.  *)
ErrorsAreReported ==
  pc = "report" /\ ~cfg.continueOnError => (withError <=> erred)

InStep(p) == Wanted(p) \in {NotRead, replica[current][p]}

(* When no request to a replica failed, the replica has at the end of      *)
(* syncTo every enabled part of the settings that were read, but for the   *)
(* filtering switch, which actionFilters can leave to the next pass, and   *)
(* for what has changed behind its comparison: by an edit, by a filter     *)
(* that was added while it is disabled at the origin, or by the copies of  *)
(* a rewrite that were deleted with another.                               *)
CleanPassSyncs ==
  pc = "report" /\ ~erred
    => \A p \in Enabled \ ({<<"filtering", "set">>} \cup unplanned) : InStep(p)

\* q comes before p in a pass.
Before(q, p) ==
  \/ \E a \in ActionNames : \E i, j \in DOMAIN Requests(a) :
       i < j /\ Requests(a)[i] = q /\ Requests(a)[j] = p
  \/ \E i, j \in DOMAIN ActionOrder :
       /\ i < j
       /\ q \in Elements(Requests(ActionOrder[i]))
       /\ p \in Elements(Requests(ActionOrder[j]))

SameAction(q, p) == \E a \in ActionNames : {p, q} \subseteq Elements(Requests(a))

\* A part that replica r rejects, or that is not sent for a rejected one.
Blocked(r, p) ==
  \E q \in cfg.rejects[r] :
    \/ p \in Sets(q)
    \/ ~cfg.continueOnError /\ Before(q, p)
    \/ q \notin Tolerant /\ SameAction(q, p) /\ Before(q, p)

Eligible(r) ==
  /\ r \notin cfg.dead \cup cfg.invalid
  /\ r \in cfg.installed \cup cfg.autoSetup
  /\ {r, Origin} \cap cfg.outdated = {}

(* Once failures and edits stop, every replica that can be synced has, for *)
(* good, every enabled part of the origin's settings: whatever was lost,   *)
(* killed, applied twice, read before an edit or put out of step by the    *)
(* sync's own requests, and whatever the other replicas do.                *)
Converges ==
  <>[](\A r \in Replicas : Eligible(r) =>
         \A p \in Enabled : replica[r][p] # origin[p] => Blocked(r, p))

(* The claim of the metric sync_successful: a sync that reports success    *)
(* has synced the replica.                                                 *)
SuccessMeansSynced ==
  pc = "report" /\ ~withError => \A p \in Enabled : InStep(p)
=============================================================================
