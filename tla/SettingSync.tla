----------------------------- MODULE SettingSync -----------------------------
(***************************************************************************)
(* Passes over the replicas for one setting that is compared and set as a  *)
(* whole: the profile, the blocked services, the access lists, the DNS     *)
(* server config, the DHCP server config.  Module SyncPass takes it for    *)
(* given that the comparison tells what has to be sent and that sending it *)
(* brings the replica into line; here both are what the code makes of the  *)
(* values, and the origin's value of a pass is one object that the work    *)
(* for one replica can change for the next.                                *)
(*                                                                         *)
(* Values.  A list is a record of its elements and of whether they are in  *)
(* sorted order.  Of the DHCP config the address ranges count ("none":     *)
(* absent, "incomplete": without one of the required fields), the          *)
(* interface, the switch, and the leases, which each server hands out by   *)
(* itself and reports with its config.                                     *)
(*                                                                         *)
(* Environment: a request fails or its answer is lost, and the process is  *)
(* killed, at most MaxFaults times.                                        *)
(***************************************************************************)
EXTENDS Naturals, FiniteSets

CONSTANTS
  Replicas,
  NoReplica,
  Scenarios,   \* the setting, its values at the peers, the options
  MaxFaults    \* bound of the failures

Settings == {"profile", "blocked services", "access lists", "DNS config",
             "DHCP config"}

ASSUME SettingSyncAssumption ==
  /\ NoReplica \notin Replicas
  /\ MaxFaults \in Nat
  /\ \A s \in Scenarios :
       /\ s.setting \in Settings
       /\ {DOMAIN s.replica, DOMAIN s.interface, DOMAIN s.enabled} = {Replicas}
       /\ s.theme \in BOOLEAN

\* The values are records of the setting's kind.
ASSUME ValuesAssumption ==
  \A s \in Scenarios :
    \A v \in {s.origin} \cup {s.replica[r] : r \in Replicas} :
      DOMAIN v = CASE s.setting = "profile" -> {"name", "language", "theme"}
                   [] s.setting = "DHCP config" ->
                        {"v4", "v6", "interface", "enabled", "leases"}
                   [] OTHER -> {"elements", "sorted"}

VARIABLES
  scenario,   \* the setting, the origin's value, the options
  replica,    \* the value of each replica
  pc,         \* where the pass is
  snapshot,   \* the origin's value as the pass holds it
  todo,       \* replicas that are left
  current,    \* the replica of the action
  request,    \* what the action sends: a set of at most one value
  faults

vars == <<scenario, replica, pc, snapshot, todo, current, request, faults>>

setting == scenario.setting
origin == scenario.origin

-----------------------------------------------------------------------------
(* Comparisons and requests.  v is the replica's value, o the origin's as  *)
(* the pass holds it.                                                      *)

Sorted(list) == [list EXCEPT !.sorted = TRUE]

\* ProfileInfo.Equals
SameProfile(v, o, withTheme) ==
  v.language = o.language /\ (withTheme => v.theme = o.theme)

\* Mutant: the theme is taken over without the option.
MergedWithTheme(v, o, withTheme) ==
  [v EXCEPT !.language = IF o.language # "" THEN o.language ELSE @,
            !.theme = IF o.theme # "" THEN o.theme ELSE @]

Merged(v, o, withTheme) ==
  [v EXCEPT !.language = IF o.language # "" THEN o.language ELSE @,
            !.theme = IF withTheme /\ o.theme # "" THEN o.theme ELSE @]

ProfileRequest(v, o, withTheme) ==
  {m \in {Merged(v, o, withTheme)} : /\ ~SameProfile(v, o, withTheme)
                                     /\ m.name # ""
                                     /\ m.language # ""
                                     /\ ~SameProfile(m, v, FALSE)}

\* DhcpConfigV4.isValid, DhcpConfigV6.isValid
Valid(range) == range \notin {"none", "incomplete"}
HasConfig(config) == Valid(config.v4) \/ Valid(config.v6)
Clean(config) ==
  [config EXCEPT !.v4 = IF Valid(@) THEN @ ELSE "none",
                 !.v6 = IF Valid(@) THEN @ ELSE "none"]

\* The replica's interface name and switch; "" and "unset" override nothing.
Override(r, config) ==
  [config EXCEPT
     !.interface = IF scenario.interface[r] # "" THEN scenario.interface[r] ELSE @,
     !.enabled = IF scenario.enabled[r] # "unset" THEN scenario.enabled[r] ELSE @]

\* Mutant: compared without the overrides.
DhcpRequestComparedEarly(r, v, o) ==
  {c \in {Clean(Override(r, o))} : HasConfig(o) /\ Clean(o) # Clean(v)}

DhcpRequest(r, v, o) ==
  {c \in {Clean(Override(r, o))} : HasConfig(o) /\ c # Clean(v)}

\* Mutant: lists of the same length are equal.
SameLength(v, o) == Cardinality(v.elements) = Cardinality(o.elements)

\* AccessList.Equals, DNSConfig.Equals
SameList(v, o) == Sorted(v) = Sorted(o)

\* Blocked services are compared as they come, the other lists sorted.
Request(r, v, o) ==
  CASE setting = "profile" -> ProfileRequest(v, o, scenario.theme)
    [] setting = "blocked services" -> {b \in {o} : b # v}
    [] setting \in {"access lists", "DNS config"} -> {l \in {o} : ~SameList(v, l)}
    [] setting = "DHCP config" -> DhcpRequest(r, v, o)

\* Mutant: the DHCP config is not cloned, the overrides stay in the origin's.
HeldWithoutClone(r, o) == IF setting = "DHCP config" THEN Override(r, o) ELSE o

\* AccessList.Equals sorts the lists of both sides in place; DNSConfig.Equals
\* and the DHCP action work on a copy.
HeldAfterComparison(r, o) == IF setting = "access lists" THEN Sorted(o) ELSE o

\* SetBlockedServicesSchedule sorts the services to log them, in place.
Logged(value) == IF setting = "blocked services" THEN Sorted(value) ELSE value

\* What a server makes of a request: it keeps its leases, and the range that
\* the request lacks.
Stored(v, sent) ==
  IF setting = "DHCP config"
  THEN [sent EXCEPT !.leases = v.leases,
                    !.v4 = IF @ = "none" THEN v.v4 ELSE @,
                    !.v6 = IF @ = "none" THEN v.v6 ELSE @]
  ELSE sent

-----------------------------------------------------------------------------
TypeOK ==
  /\ scenario \in Scenarios
  /\ pc \in {"idle", "replicas", "compare", "send"}
  /\ todo \in SUBSET Replicas
  /\ current \in Replicas \cup {NoReplica}
  /\ (current = NoReplica) <=> (pc \in {"idle", "replicas"})
  /\ (request = {}) <=> (pc # "send")
  /\ faults \in 0..MaxFaults

Init ==
  /\ scenario \in Scenarios
  /\ replica = scenario.replica
  /\ pc = "idle"
  /\ snapshot = origin
  /\ todo = {}
  /\ current = NoReplica
  /\ request = {}
  /\ faults = 0

Answered == UNCHANGED faults
Failure == faults < MaxFaults /\ faults' = faults + 1

StartPass ==
  /\ pc = "idle"
  /\ pc' = "replicas"
  /\ snapshot' = origin
  /\ todo' = Replicas
  /\ UNCHANGED <<scenario, replica, current, request, faults>>

StartReplica(r) ==
  /\ pc = "replicas" /\ r \in todo
  /\ pc' = "compare"
  /\ current' = r
  /\ todo' = todo \ {r}
  /\ UNCHANGED <<scenario, replica, snapshot, request, faults>>

\* Mutant: the request stays for the next replica.
DoneWithRequest == pc' = "replicas" /\ current' = NoReplica /\ UNCHANGED request

\* The action of the replica is over.
Done == pc' = "replicas" /\ current' = NoReplica /\ request' = {}

Compare ==
  /\ pc = "compare"
  /\ snapshot' = HeldAfterComparison(current, snapshot)
  /\ LET needed == Request(current, replica[current], snapshot')
     IN IF needed = {} THEN Done
        ELSE pc' = "send" /\ request' = needed /\ UNCHANGED current
  /\ Answered
  /\ UNCHANGED <<scenario, replica, todo>>

\* The replica or the read of its value fails.
CompareFails ==
  /\ pc = "compare"
  /\ Failure
  /\ Done
  /\ UNCHANGED <<scenario, replica, snapshot, todo>>

Store ==
  \E value \in request :
    replica' = [replica EXCEPT ![current] = Stored(@, Logged(value))]

Send ==
  /\ pc = "send"
  /\ Store
  /\ snapshot' = Logged(snapshot)
  /\ Answered
  /\ Done
  /\ UNCHANGED <<scenario, todo>>

\* The request is not applied, or its answer is lost.
SendFails ==
  /\ pc = "send"
  /\ UNCHANGED replica \/ Store
  /\ snapshot' = Logged(snapshot)
  /\ Failure
  /\ Done
  /\ UNCHANGED <<scenario, todo>>

EndPass ==
  /\ pc = "replicas" /\ todo = {}
  /\ pc' = "idle"
  /\ UNCHANGED <<scenario, replica, snapshot, todo, current, request, faults>>

\* A request on its way is applied or not.
Kill ==
  /\ pc # "idle"
  /\ Failure
  /\ UNCHANGED replica \/ (pc = "send" /\ Store)
  /\ pc' = "idle"
  /\ todo' = {}
  /\ current' = NoReplica
  /\ request' = {}
  /\ UNCHANGED <<scenario, snapshot>>

Pass == \/ StartPass
        \/ \E r \in Replicas : StartReplica(r)
        \/ Compare
        \/ Send
        \/ EndPass

Next == Pass \/ CompareFails \/ SendFails \/ Kill

Spec == Init /\ [][Next]_vars

\* Passes follow one another, and a request is answered or fails.
FairSpec == Spec /\ WF_vars(Pass)

-----------------------------------------------------------------------------
(* Properties                                                              *)

\* What the sync promises replica r, told from the origin itself and from r's
\* own overrides.
AtTarget(r) ==
  CASE setting = "profile" ->
         \/ origin.language = "" \/ scenario.replica[r].name = ""
         \/ replica[r].language = origin.language
    [] setting = "DHCP config" ->
         HasConfig(origin) =>
           /\ replica[r].interface = Override(r, origin).interface
           /\ replica[r].enabled = Override(r, origin).enabled
           /\ Valid(origin.v4) => replica[r].v4 = origin.v4
           /\ Valid(origin.v6) => replica[r].v6 = origin.v6
    [] OTHER -> replica[r].elements = origin.elements

\* An action for r that ends without an error.
Succeeds(r) == current = r /\ current' = NoReplica /\ UNCHANGED faults

\* When the action of a replica ends without an error, sent or not, the
\* replica has what the origin has and its own overrides -- never those of a
\* replica before it in the pass, and not less because the origin's value was
\* sorted, cut or cleaned on the way; a replica that has it keeps it, whatever
\* fails.
BringsIntoLine ==
  [][\A r \in Replicas : /\ Succeeds(r) => AtTarget(r)'
                         /\ AtTarget(r) => AtTarget(r)']_vars

\* What belongs to the replica: the name of the profile, the theme when the
\* option is off, the leases, a range the origin does not have, and the whole
\* DHCP config when the origin has none.
Own(r) ==
  CASE setting = "profile" ->
         <<replica[r].name, IF scenario.theme THEN "" ELSE replica[r].theme>>
    [] setting = "DHCP config" ->
         IF HasConfig(origin)
         THEN <<replica[r].leases,
                IF Valid(origin.v4) THEN "" ELSE replica[r].v4,
                IF Valid(origin.v6) THEN "" ELSE replica[r].v6>>
         ELSE replica[r]
    [] OTHER -> <<>>

\* A sync does not touch what belongs to the replica, though the request sends
\* the profile and the DHCP config as a whole.
KeepsOwn == [][\A r \in Replicas : Own(r)' = Own(r)]_vars

\* Where the comparison sees a difference that the request cannot remove:
\* blocked services the origin does not have in sorted order, unless every
\* replica has them in the same one; the leases and the ranges that a replica
\* keeps.
NeverEqual ==
  \E r \in Replicas :
    LET own == scenario.replica[r]
    IN CASE setting = "blocked services" -> ~origin.sorted /\ own # origin
         [] setting = "DHCP config" ->
              /\ HasConfig(origin)
              /\ \/ own.leases # origin.leases
                 \/ Valid(own.v4) /\ ~Valid(origin.v4)
                 \/ Valid(own.v6) /\ ~Valid(origin.v6)
         [] OTHER -> FALSE

\* Passes over unchanged peers end up sending nothing, except in exactly
\* those cases, in which every pass sends again.
SettlesUnlessNeverEqual ==
  /\ ~NeverEqual => <>[](request = {})
  /\ NeverEqual => []<>(request # {})

\* In the end every replica has what the origin has.
Converges == \A r \in Replicas : <>[]AtTarget(r)

\* README: "Sync the web UI theme".  A change of the theme alone is not synced.
ThemeIsSynced ==
  [][\A r \in Replicas :
       (Succeeds(r) /\ setting = "profile" /\ scenario.theme /\ origin.theme # ""
          /\ replica[r].name # "" /\ replica[r].language # "")
       => replica'[r].theme = origin.theme]_vars
=============================================================================
