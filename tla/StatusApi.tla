------------------------------ MODULE StatusApi ------------------------------
(***************************************************************************)
(* The status of the peers as the API tells it (internal/sync/sync.go      *)
(* status, getStatus; internal/sync/http.go handleStatus, handleHealthz).  *)
(* A request asks the peers one after the other and reads w.running, which *)
(* the sync sets and clears without a lock, once per replica and once at   *)
(* the end; peers fail and come back, and syncs begin and end, meanwhile.  *)
(*                                                                         *)
(* A peer is "ok", waits for its "setup", or is "down": it refuses, or no  *)
(* client can be created.  Peers change and syncs begin at most MaxChanges *)
(* times.                                                                  *)
(***************************************************************************)
EXTENDS Naturals

CONSTANTS
  Origin,
  Replicas,     \* cfg.Replicas
  Requests,     \* requests for /healthz or /api/v1/status
  MaxChanges    \* bound of the changes at the peers and of the syncs

Hosts == Replicas \cup {Origin}
NoHost == "no host"

ASSUME StatusApiAssumption == Origin \notin Replicas /\ MaxChanges \in Nat

VARIABLES
  health,       \* of each peer
  running,      \* w.running
  changes,
  handler,      \* each request: idle, asking, asked (getStatus is done), ended
  asked,        \* the peer of the last getStatus
  status,       \* replicaStatus.Status of each peer
  syncRunning,  \* syncStatus.SyncRunning
  code,         \* what handleHealthz answers
  wasOk,        \* (history) peers that were ok at some time of the request
  wasBad,       \* (history) peers that were not
  flags         \* (history) values w.running had

peers == <<health, running, changes>>
local == <<handler, asked, status, syncRunning, code>>
history == <<wasOk, wasBad, flags>>
vars == <<peers, local, history>>

TypeOK ==
  /\ health \in [Hosts -> {"ok", "setup", "down"}]
  /\ running \in BOOLEAN
  /\ changes \in 0..MaxChanges
  /\ handler \in [Requests -> {"idle", "asking", "asked", "ended"}]
  /\ asked \in [Requests -> Hosts]
  /\ status \in [Requests ->
                   [Hosts -> {"none", "success", "warning", "danger", "info"}]]
  /\ syncRunning \in [Requests -> BOOLEAN]
  /\ code \in [Requests -> {"none", "200", "503"}]
  /\ \A d \in Requests :
       (handler[d] = "ended") <=> (\A h \in Hosts : status[d][h] # "none")
                                  /\ code[d] # "none"

Ok(h) == health[h] = "ok"
Seen(d, ok, bad, flag) ==
  /\ wasOk' = [wasOk EXCEPT ![d] = @ \cup ok]
  /\ wasBad' = [wasBad EXCEPT ![d] = @ \cup bad]
  /\ flags' = [flags EXCEPT ![d] = @ \cup flag]

Init ==
  /\ health \in [Hosts -> {"ok", "setup", "down"}]
  /\ running = FALSE
  /\ changes = 0
  /\ handler = [d \in Requests |-> "idle"]
  /\ asked = [d \in Requests |-> Origin]
  /\ status = [d \in Requests |-> [h \in Hosts |-> "none"]]
  /\ syncRunning = [d \in Requests |-> FALSE]
  /\ code = [d \in Requests |-> "none"]
  /\ wasOk = [d \in Requests |-> {}]
  /\ wasBad = [d \in Requests |-> {}]
  /\ flags = [d \in Requests |-> {}]

-----------------------------------------------------------------------------
(* Environment                                                             *)

\* What changes is part of every request that is under way.
PeerChanges ==
  /\ changes < MaxChanges
  /\ changes' = changes + 1
  /\ \E h \in Hosts, s \in {"ok", "setup", "down"} :
       /\ health' = [health EXCEPT ![h] = s]
       /\ wasOk' = [d \in Requests |->
                      IF s = "ok" THEN wasOk[d] \cup {h} ELSE wasOk[d]]
       /\ wasBad' = [d \in Requests |->
                       IF s # "ok" THEN wasBad[d] \cup {h} ELSE wasBad[d]]
  /\ UNCHANGED <<running, local, flags>>

\* w.sync() sets the flag and clears it.
SetRunning(value) ==
  /\ running' = value
  /\ flags' = [d \in Requests |-> flags[d] \cup {value}]
  /\ UNCHANGED <<health, local, wasOk, wasBad>>

SyncBegins ==
  /\ ~running /\ changes < MaxChanges
  /\ changes' = changes + 1
  /\ SetRunning(TRUE)

SyncEnds == running /\ SetRunning(FALSE) /\ UNCHANGED changes

-----------------------------------------------------------------------------
(* A request                                                               *)

Begin(d) ==
  /\ handler[d] \in {"idle", "ended"}
  /\ handler' = [handler EXCEPT ![d] = "asking"]
  /\ status' = [status EXCEPT ![d] = [h \in Hosts |-> "none"]]
  /\ code' = [code EXCEPT ![d] = "none"]
  /\ wasOk' = [wasOk EXCEPT ![d] = {h \in Hosts : Ok(h)}]
  /\ wasBad' = [wasBad EXCEPT ![d] = {h \in Hosts : ~Ok(h)}]
  /\ flags' = [flags EXCEPT ![d] = {running}]
  /\ UNCHANGED <<peers, asked, syncRunning>>

\* The origin first, then the replicas.
Unasked(d) ==
  IF status[d][Origin] = "none" THEN {Origin}
  ELSE {r \in Replicas : status[d][r] = "none"}

\* Mutant: a peer that needs its setup counts as well.
LenientStatus(h) == IF health[h] = "down" THEN "danger" ELSE "success"

getStatus(h) ==
  CASE health[h] = "ok" -> "success"
    [] health[h] = "setup" -> "warning"
    [] health[h] = "down" -> "danger"

Ask(d) ==
  /\ handler[d] = "asking"
  /\ \E h \in Unasked(d) :
       /\ asked' = [asked EXCEPT ![d] = h]
       /\ status' = [status EXCEPT ![d][h] = getStatus(h)]
       /\ handler' = [handler EXCEPT ![d] = IF h = Origin THEN "asking" ELSE "asked"]
  /\ UNCHANGED <<peers, syncRunning, code, history>>

\* Mutant: an alarm is not overwritten.
KeepAlarm(d, r) ==
  IF running /\ status[d][r] = "success" THEN "info" ELSE status[d][r]

\* The status of a replica while a sync runs.
Overwritten(d, r) == IF running THEN "info" ELSE status[d][r]

ReadRunning(d) ==
  /\ handler[d] = "asked"
  /\ status' = [status EXCEPT ![d][asked[d]] = Overwritten(d, asked[d])]
  /\ handler' = [handler EXCEPT ![d] = "asking"]
  /\ UNCHANGED <<peers, asked, syncRunning, code, history>>

\* Mutant: the replicas decide.
ReplicasHealthy(d) == \A r \in Replicas : status[d][r] = "success"

Healthy(d) == \A h \in Hosts : status[d][h] = "success"

\* Mutant: the code of a request is decided by its first peers.
EndEarly(d) ==
  /\ handler[d] = "asking" /\ status[d][Origin] # "none"
  /\ handler' = [handler EXCEPT ![d] = "ended"]
  /\ syncRunning' = [syncRunning EXCEPT ![d] = running]
  /\ code' = [code EXCEPT ![d] = IF Healthy(d) THEN "200" ELSE "503"]
  /\ UNCHANGED <<peers, asked, status, history>>

End(d) ==
  /\ handler[d] = "asking" /\ Unasked(d) = {}
  /\ handler' = [handler EXCEPT ![d] = "ended"]
  /\ syncRunning' = [syncRunning EXCEPT ![d] = running]
  /\ code' = [code EXCEPT ![d] = IF Healthy(d) THEN "200" ELSE "503"]
  /\ UNCHANGED <<peers, asked, status, history>>

Handle(d) == Ask(d) \/ ReadRunning(d) \/ End(d)

Next == \/ PeerChanges \/ SyncBegins \/ SyncEnds
        \/ \E d \in Requests : Begin(d) \/ Handle(d)

Spec == Init /\ [][Next]_vars

\* Every peer answers or refuses, syncs end, and the monitor asks again.
FairSpec ==
  /\ Spec
  /\ WF_vars(SyncEnds)
  /\ \A d \in Requests : WF_vars(Begin(d)) /\ WF_vars(Handle(d))

-----------------------------------------------------------------------------
(* Properties                                                              *)

\* The code of /healthz is true of some time of the request: 200 only when
\* every peer was ok, each at some time of it, and, with replicas, no sync ran
\* all the time; 503 only when a peer was not ok or a sync ran.
CodeIsJustified ==
  \A d \in Requests :
    /\ code[d] = "200" => /\ wasOk[d] = Hosts
                          /\ Replicas = {} \/ FALSE \in flags[d]
    /\ code[d] = "503" => wasBad[d] # {} \/ TRUE \in flags[d]

\* The parts of a status agree on whether a sync runs, unless one began or
\* ended during the request: all replicas are "info", or none is.
StatusAgrees ==
  \A d \in Requests :
    (handler[d] = "ended" /\ flags[d] # BOOLEAN) =>
      \A r \in Replicas : (status[d][r] = "info") <=> syncRunning[d]

\* Once the peers and the syncs are quiet, /healthz tells in the end whether
\* all peers are ok, for good; a sync that ran, or a peer that was down, leaves
\* no trace.
HealthzCatchesUp ==
  \A d \in Requests :
    /\ <>[](\A h \in Hosts : Ok(h)) => <>[](code[d] # "503")
    /\ <>[](\E h \in Hosts : ~Ok(h)) => <>[](code[d] # "200")
    /\ []<>(handler[d] = "ended")
=============================================================================
