------------------------------ MODULE ListSync ------------------------------
(***************************************************************************)
(* Passes over the replicas for one list of the settings: rewrites, one    *)
(* kind of filters, clients or static leases.  Module SyncPass treats what *)
(* is left to do for a list as a given; here it is what the merges of      *)
(* model-functions.go make of the lists, and entries are sent one by one.  *)
(*                                                                         *)
(* The origin's list of a pass is one object, which the merge for one      *)
(* replica can change for the next.                                        *)
(*                                                                         *)
(* Environment: requests fail or their answers are lost, and a pass is cut *)
(* off (a kill, a panic, an error elsewhere), at most MaxFaults times.     *)
(***************************************************************************)
EXTENDS ListMerge

CONSTANTS
  Replicas,
  NoReplica,
  Entries,     \* for each kind of list, the entries that occur
  Scenarios,   \* kinds of lists, their contents and the error mode
  MaxFaults

ASSUME ListSyncAssumption ==
  /\ NoReplica \notin Replicas
  /\ MaxFaults \in Nat
  /\ \A s \in Scenarios :
       /\ s.list \in Lists
       /\ s.origin \subseteq Entries[s.list]
       /\ s.replica \in [Replicas -> SUBSET Entries[s.list]]
       /\ s.continueOnError \in BOOLEAN

\* The entries are records of their kind, and what a peer stores for one is
\* an entry as well; only a rewrite can be there twice.
ASSUME EntriesAssumption ==
  \A l \in Lists : \A e \in Entries[l] :
    /\ e \in [key : {e.key}, value : {e.value}, copy : Nat \ {0}]
    /\ l # "rewrites" => e.copy = 1
    /\ l = "filters" =>
         /\ e.value \in [name : {e.value.name}, enabled : BOOLEAN]
         /\ [e EXCEPT !.value.enabled = TRUE] \in Entries[l]
    /\ l = "clients" =>
         /\ e.value \in [data : {e.value.data}, days : BOOLEAN, zone : {e.value.zone}]
         /\ [e EXCEPT !.value.zone = DefaultZone] \in Entries[l]

\* A list is finite, and the entries of a key are its copies 1, 2, ...
Numbered(entries) ==
  /\ IsFiniteSet(entries)
  /\ \A e \in entries : e.copy \in 1..Copies(entries, e.key)
  /\ \A e, f \in entries : e.key = f.key /\ e.copy = f.copy => e = f

ASSUME NumberedAssumption ==
  \A s \in Scenarios :
    Numbered(s.origin) /\ \A r \in Replicas : Numbered(s.replica[r])

VARIABLES
  scenario,   \* the kind of list, the origin's list, the error mode
  replica,    \* the list of each replica
  pc,
  snapshot,   \* the origin's list as the pass holds it
  todo,       \* replicas that are left
  current,    \* the replica of the action
  before,     \* (history) its list when the action began
  plan,       \* requests that are left
  failed,     \* the action has met an error
  faults

pass == <<snapshot, todo>>
action == <<current, before, plan, failed>>
vars == <<scenario, replica, pc, pass, action, faults>>

list == scenario.list
origin == scenario.origin

\* An entry after the comparison may lack its zone.
Held == Entries[list] \cup AfterDiff(list, Entries[list], Entries[list])

TypeOK ==
  /\ scenario \in Scenarios
  /\ replica \in [Replicas -> SUBSET Entries[list]]
  /\ pc \in {"idle", "replicas", "action"}
  /\ snapshot \subseteq Held
  /\ todo \subseteq Replicas
  /\ current \in IF pc = "action" THEN Replicas ELSE {NoReplica}
  /\ before \subseteq Entries[list]
  /\ \A q \in plan : q[1] = "refresh" \/ (q[1] \in {"delete", "add", "update"} /\ q[2] \in Held)
  /\ failed \in BOOLEAN
  /\ faults \in 0..MaxFaults

Init ==
  /\ scenario \in Scenarios
  /\ replica = scenario.replica
  /\ pc = "idle"
  /\ snapshot = {}
  /\ todo = {}
  /\ current = NoReplica
  /\ before = {}
  /\ plan = {}
  /\ failed = FALSE
  /\ faults = 0

-----------------------------------------------------------------------------
Failure == faults < MaxFaults /\ faults' = faults + 1

\* w.sync() has read the origin.
StartPass ==
  /\ pc = "idle"
  /\ pc' = "replicas"
  /\ snapshot' = origin
  /\ todo' = Replicas
  /\ UNCHANGED <<scenario, replica, action, faults>>

\* The action reads the replica's list and merges.  An update sends the
\* origin's entry as the comparison has left it.
BeginAction(r) ==
  /\ pc = "replicas"
  /\ r \in todo
  /\ pc' = "action"
  /\ todo' = todo \ {r}
  /\ current' = r
  /\ before' = replica[r]
  /\ snapshot' = AfterDiff(list, replica[r], snapshot)
  /\ LET adds == Adds(replica[r], snapshot)
         updates == Updates(list, replica[r], snapshot)
     IN plan' = ({"delete"} \X Removes(replica[r], snapshot))
                  \cup ({"add"} \X adds)
                  \cup ({"update"} \X AfterDiff(list, replica[r], updates))
                  \cup {q \in {<<"refresh">>} : list = "filters" /\ adds \cup updates # {}}
  /\ UNCHANGED <<scenario, replica, failed, faults>>

\* The replica cannot be read, or syncTo ends before the action.
SkipReplica(r) ==
  /\ pc = "replicas"
  /\ r \in todo
  /\ Failure
  /\ todo' = todo \ {r}
  /\ UNCHANGED <<scenario, replica, pc, snapshot, action>>

-----------------------------------------------------------------------------
(* The replica                                                             *)

\* A deleted rewrite: one copy of it or all of them.
Deleted(entries, k) ==
  { {e \in entries : e.key # k \/ e.copy < Copies(entries, k)},
    {e \in entries : e.key # k} }

\* A new filter is enabled; a schedule without a zone gets the default one.
Stored(op, e) ==
  CASE op = "add" /\ list = "filters" -> [e EXCEPT !.value.enabled = TRUE]
    [] list = "clients" /\ e.value.zone = NoZone ->
         [e EXCEPT !.value.zone = DefaultZone]
    [] OTHER -> e

\* The lists that request q can make of a list.
Outcomes(entries, q) ==
  CASE q[1] = "delete" -> Deleted(entries, q[2].key)
    [] q[1] = "add" ->
         {entries \cup {[Stored("add", q[2]) EXCEPT !.copy = Copies(entries, q[2].key) + 1]}}
    [] q[1] = "update" ->
         {{IF e.key = q[2].key THEN Stored("update", q[2]) ELSE e : e \in entries}}
    [] OTHER -> {entries}

Apply(q) ==
  \E entries \in Outcomes(replica[current], q) :
    replica' = [replica EXCEPT ![current] = entries]

-----------------------------------------------------------------------------
Before(op) ==
  CASE op = "delete" -> {}
    [] op = "add" -> {"delete"}
    [] op = "update" -> {"delete", "add"}
    [] op = "refresh" -> {"delete", "add", "update"}

NextRequest(q) ==
  /\ pc = "action"
  /\ q \in plan
  /\ \A p \in plan : p[1] \notin Before(q[1])

RequestSucceeds(q) ==
  /\ NextRequest(q)
  /\ Apply(q)
  /\ plan' = plan \ {q}
  /\ UNCHANGED <<scenario, pc, pass, current, before, failed, faults>>

\* An error for an entry is passed over with ContinueOnError, but not that
\* of a rewrite or a refresh.
RequestFails(q) ==
  /\ NextRequest(q)
  /\ Failure
  /\ UNCHANGED replica \/ Apply(q)
  /\ failed' = TRUE
  /\ plan' = IF /\ scenario.continueOnError
                /\ list # "rewrites" /\ q[1] # "refresh"
             THEN plan \ {q} ELSE {}
  /\ UNCHANGED <<scenario, pc, pass, current, before>>

ClearAction ==
  /\ current' = NoReplica
  /\ before' = {}
  /\ plan' = {}
  /\ failed' = FALSE

\* Mutant: the variables of syncTo outlive it.
EndActionKeepsLocals ==
  /\ pc = "action"
  /\ plan = {}
  /\ pc' = "replicas"
  /\ UNCHANGED <<scenario, replica, pass, action, faults>>

EndAction ==
  /\ pc = "action"
  /\ plan = {}
  /\ pc' = "replicas"
  /\ ClearAction
  /\ UNCHANGED <<scenario, replica, pass, faults>>

EndPass ==
  /\ pc = "replicas"
  /\ todo = {}
  /\ pc' = "idle"
  /\ snapshot' = {}
  /\ UNCHANGED <<scenario, replica, todo, action, faults>>

\* The pass is cut off.
Kill ==
  /\ pc # "idle"
  /\ Failure
  /\ pc' = "idle"
  /\ snapshot' = {}
  /\ todo' = {}
  /\ ClearAction
  /\ UNCHANGED <<scenario, replica>>

Next ==
  \/ StartPass
  \/ \E r \in todo : BeginAction(r) \/ SkipReplica(r)
  \/ \E q \in plan : RequestSucceeds(q) \/ RequestFails(q)
  \/ EndAction
  \/ EndPass
  \/ Kill

Spec == Init /\ [][Next]_vars

\* The passes keep coming and every request ends.
FairSpec == Spec /\ WF_vars(Next)

-----------------------------------------------------------------------------
\* What the merge preserves of a value: all of a filter, of a client all but
\* the zone, nothing of a lease.
Kept(value) ==
  CASE list = "filters" -> value
    [] list = "clients" -> <<value.data, value.days>>
    [] OTHER -> {}

View(entries) == {<<e.key, Kept(e.value)>> : e \in entries}

Agrees(entries) ==
  View(entries) = View(origin) /\ \A e \in entries : e.copy = 1

(* After an action without errors a replica has no entry that the origin   *)
(* lacks, and the origin's entries as the merge knows them, but for a      *)
(* filter that is new (a peer enables it) and a rewrite that was there     *)
(* twice (a peer may delete both), which are left to the next pass.        *)
CleanActionReaches ==
  pc = "action" /\ plan = {} /\ ~failed =>
    LET now == replica[current]
        late(e) == list = "filters" /\ e.key \notin Keys(before) /\ ~e.value.enabled
        wanted == {e \in origin : ~late(e)}
    IN /\ Keys(now) \subseteq Keys(origin)
       /\ \A k \in Keys(origin) : k \in Keys(now) \/ Copies(before, k) > 1
       /\ list # "rewrites" => View(wanted) \subseteq View(now)

(* A replica whose list agrees with the origin's never leaves that state:  *)
(* neither a pass nor a failure in it takes away an entry that is right.   *)
AgreementIsStable ==
  [][\A r \in Replicas : Agrees(replica[r]) => Agrees(replica'[r])]_vars

Promise == INSTANCE ListReplication WITH kind <- list

(* The plan of an action was made of the list as it was, and requests fail *)
(* or take effect in part: whatever is sent, each step of a replica's list *)
(* is one that ListReplication allows.                                     *)
KeepsPromise == Promise!Spec

(* Every replica's list agrees with the origin's in the end, from whatever *)
(* it is at first and whatever failed on the way.                          *)
Converges == <>[](\A r \in Replicas : Agrees(replica[r]))

(* The claim of AfterDiff to reset a client after the comparison: then no  *)
(* pass changes the list of a replica that equals the origin's.            *)
EqualListsStay ==
  [][\A r \in Replicas : replica[r] = origin => replica'[r] = origin]_vars
=============================================================================
