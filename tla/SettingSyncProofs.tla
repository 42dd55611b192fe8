-------------------------- MODULE SettingSyncProofs --------------------------
(***************************************************************************)
(* Proofs about module SettingSync, for any replicas, any scenarios with   *)
(* values of the setting's kind, and any bound on the failures.            *)
(***************************************************************************)
EXTENDS SettingSync, TLAPS

-----------------------------------------------------------------------------
(* The inductive invariant                                                 *)

Profile == setting = "profile"
DHCP == setting = "DHCP config"
ListSetting == setting \in {"blocked services", "access lists", "DNS config"}

Fields == IF Profile THEN {"name", "language", "theme"}
          ELSE IF DHCP THEN {"v4", "v6", "interface", "enabled", "leases"}
          ELSE {"elements", "sorted"}

\* Every value that is held is a record of the setting's kind.
Shapes ==
  /\ DOMAIN origin = Fields
  /\ DOMAIN snapshot = Fields
  /\ DOMAIN replica = Replicas
  /\ \A r \in Replicas : DOMAIN replica[r] = Fields
  /\ \A m \in request : DOMAIN m = Fields

\* The pass holds the origin's value; that of a list may have been sorted.
HeldIsOrigins ==
  IF ListSetting THEN snapshot.elements = origin.elements ELSE snapshot = origin

\* What is sent to r: the origin's value with r's own overrides.
Meant(r, m) ==
  /\ Profile => m = Merged(replica[r], origin, scenario.theme)
  /\ DHCP => HasConfig(origin) /\ m = Clean(Override(r, origin))
  /\ ListSetting => m.elements = origin.elements

RequestIsMeant == \A m \in request : Meant(current, m)

\* A profile keeps the name of its replica.
NamesStay == Profile => \A r \in Replicas : replica[r].name = scenario.replica[r].name

Inv == TypeOK /\ Shapes /\ HeldIsOrigins /\ RequestIsMeant /\ NamesStay

-----------------------------------------------------------------------------
(* The functions on values, field by field                                 *)

ProfileFields == {"name", "language", "theme"}
DhcpFields == {"v4", "v6", "interface", "enabled", "leases"}
ListFields == {"elements", "sorted"}

\* A merged profile keeps the name, and what the other does not have.
LEMMA MergedFields ==
  ASSUME NEW v, NEW o, DOMAIN v = ProfileFields
  PROVE  LET m == Merged(v, o, scenario.theme)
         IN /\ DOMAIN m = ProfileFields
            /\ m.name = v.name
            /\ m.language = IF o.language # "" THEN o.language ELSE v.language
            /\ ~scenario.theme => m.theme = v.theme
  BY DEF Merged, ProfileFields

\* A sorted list has the same elements.
LEMMA SortedFields ==
  ASSUME NEW l, DOMAIN l = ListFields
  PROVE  DOMAIN Sorted(l) = ListFields /\ Sorted(l).elements = l.elements
  BY DEF Sorted, ListFields

\* A config that is cleaned loses only ranges that are not valid.
LEMMA CleanFields ==
  ASSUME NEW c, DOMAIN c = DhcpFields
  PROVE  /\ DOMAIN Clean(c) = DhcpFields
         /\ Clean(c).v4 = IF Valid(c.v4) THEN c.v4 ELSE "none"
         /\ Clean(c).v6 = IF Valid(c.v6) THEN c.v6 ELSE "none"
         /\ Clean(c).interface = c.interface
         /\ Clean(c).enabled = c.enabled
  BY DEF Clean, DhcpFields

\* The overrides leave the ranges alone.
LEMMA OverrideFields ==
  ASSUME NEW r, NEW c, DOMAIN c = DhcpFields
  PROVE  /\ DOMAIN Override(r, c) = DhcpFields
         /\ Override(r, c).v4 = c.v4
         /\ Override(r, c).v6 = c.v6
  BY DEF Override, DhcpFields

\* A server keeps its leases, and the range that a request lacks.
LEMMA StoredFields ==
  ASSUME NEW v, NEW sent, DOMAIN sent = DhcpFields, DHCP
  PROVE  LET new == Stored(v, sent)
         IN /\ DOMAIN new = DhcpFields
            /\ new.leases = v.leases
            /\ new.v4 = IF sent.v4 = "none" THEN v.v4 ELSE sent.v4
            /\ new.v6 = IF sent.v6 = "none" THEN v.v6 ELSE sent.v6
            /\ new.interface = sent.interface
            /\ new.enabled = sent.enabled
  BY DEF Stored, DHCP, DhcpFields

\* A setting is a profile, a DHCP config or a list.
LEMMA Kinds ==
  ASSUME scenario \in Scenarios
  PROVE  /\ Profile \/ DHCP \/ ListSetting
         /\ ~(Profile /\ DHCP) /\ ~(Profile /\ ListSetting) /\ ~(DHCP /\ ListSetting)
         /\ Profile => Fields = ProfileFields
         /\ DHCP => Fields = DhcpFields
         /\ ListSetting => Fields = ListFields
<1>1. setting \in Settings
      BY SettingSyncAssumption DEF setting
<1> QED
    BY <1>1 DEF Settings, Profile, DHCP, ListSetting, Fields,
                ProfileFields, DhcpFields, ListFields

\* The request is made of what is meant.
LEMMA RequestedIsMeant ==
  ASSUME scenario \in Scenarios, Shapes, NEW r \in Replicas,
         NEW o, DOMAIN o = Fields,
         IF ListSetting THEN o.elements = origin.elements ELSE o = origin,
         NEW m \in Request(r, replica[r], o)
  PROVE  DOMAIN m = Fields /\ Meant(r, m)
<1>1. CASE Profile
  <2>1. m = Merged(replica[r], o, scenario.theme)
        BY <1>1 DEF Request, ProfileRequest, Profile
  <2>2. DOMAIN m = Fields
        BY <1>1, <2>1, Kinds, MergedFields DEF Shapes
  <2> QED
      BY <1>1, <2>1, <2>2, Kinds DEF Meant
<1>2. CASE DHCP
  <2>1. HasConfig(o) /\ m = Clean(Override(r, o))
        BY <1>2 DEF Request, DhcpRequest, DHCP
  <2>2. DOMAIN m = Fields
        BY <1>2, <2>1, Kinds, OverrideFields, CleanFields DEF Shapes
  <2> QED
      BY <1>2, <2>1, <2>2, Kinds DEF Meant
<1>3. CASE ListSetting
  <2>1. m = o
        BY <1>3 DEF Request, ListSetting
  <2> QED
      BY <1>3, <2>1, Kinds DEF Meant
<1> QED
    BY <1>1, <1>2, <1>3, Kinds

\* Where nothing has to be sent, the replica has what it should have.
LEMMA NothingToSend ==
  ASSUME scenario \in Scenarios, Shapes, NamesStay, NEW r \in Replicas,
         NEW o, DOMAIN o = Fields,
         IF ListSetting THEN o.elements = origin.elements ELSE o = origin,
         Request(r, replica[r], o) = {}
  PROVE  AtTarget(r)
<1>1. CASE Profile
  <2> DEFINE v == replica[r]
             m == Merged(v, o, scenario.theme)
  <2>1. ProfileRequest(v, o, scenario.theme) = {} /\ o = origin
        BY <1>1, Kinds DEF Request, Profile
  <2>2. \/ SameProfile(v, o, scenario.theme)
        \/ m.name = "" \/ m.language = ""
        \/ SameProfile(m, v, FALSE)
        BY <2>1 DEF ProfileRequest
  <2>3. /\ m.name = v.name
        /\ m.language = IF o.language # "" THEN o.language ELSE v.language
        BY <1>1, Kinds, MergedFields DEF Shapes
  <2>4. v.name = scenario.replica[r].name
        BY <1>1 DEF NamesStay
  <2>5. \/ origin.language = "" \/ scenario.replica[r].name = ""
        \/ v.language = origin.language
        BY <2>1, <2>2, <2>3, <2>4 DEF SameProfile
  <2> QED
      BY <1>1, <2>5 DEF AtTarget, Profile
<1>2. CASE DHCP
  <2> DEFINE v == replica[r]
             c == Override(r, origin)
  <2>1. DhcpRequest(r, v, origin) = {}
        BY <1>2, Kinds DEF Request, DHCP
  <2>2. HasConfig(origin) => Clean(c) = Clean(v)
        BY <2>1 DEF DhcpRequest
  <2>3. DOMAIN v = DhcpFields /\ DOMAIN origin = DhcpFields
        BY <1>2, Kinds DEF Shapes
  <2>4. DOMAIN c = DhcpFields /\ c.v4 = origin.v4 /\ c.v6 = origin.v6
        BY <2>3, OverrideFields
  <2>5. /\ Clean(c).v4 = IF Valid(c.v4) THEN c.v4 ELSE "none"
        /\ Clean(c).v6 = IF Valid(c.v6) THEN c.v6 ELSE "none"
        /\ Clean(c).interface = c.interface
        /\ Clean(c).enabled = c.enabled
        BY <2>4, CleanFields
  <2>6. /\ Clean(v).v4 = IF Valid(v.v4) THEN v.v4 ELSE "none"
        /\ Clean(v).v6 = IF Valid(v.v6) THEN v.v6 ELSE "none"
        /\ Clean(v).interface = v.interface
        /\ Clean(v).enabled = v.enabled
        BY <2>3, CleanFields
  <2>7. ~Valid("none")
        BY DEF Valid
  <2>8. HasConfig(origin) =>
          /\ v.interface = c.interface
          /\ v.enabled = c.enabled
          /\ Valid(origin.v4) => v.v4 = origin.v4
          /\ Valid(origin.v6) => v.v6 = origin.v6
        BY <2>2, <2>4, <2>5, <2>6, <2>7
  <2> QED
      BY <1>2, <2>8 DEF AtTarget, DHCP
<1>3. CASE ListSetting
  <2> DEFINE v == replica[r]
  <2>1. v = o \/ Sorted(v) = Sorted(o)
        BY <1>3 DEF Request, ListSetting, SameList
  <2>2. Sorted(v).elements = v.elements /\ Sorted(o).elements = o.elements
        BY <1>3, Kinds, SortedFields DEF Shapes
  <2>3. v.elements = origin.elements
        BY <1>3, <2>1, <2>2
  <2> QED
      BY <1>3, <2>3 DEF AtTarget, ListSetting
<1> QED
    BY <1>1, <1>2, <1>3, Kinds

\* What is meant brings a replica into line, leaves what is its own, and keeps
\* the shapes.
LEMMA MeantIsTarget ==
  ASSUME scenario \in Scenarios, scenario' = scenario, Shapes, NamesStay,
         NEW r \in Replicas, NEW m, DOMAIN m = Fields, Meant(r, m),
         replica' = [replica EXCEPT ![r] = Stored(@, Logged(m))]
  PROVE  /\ AtTarget(r)'
         /\ Own(r)' = Own(r)
         /\ DOMAIN replica'[r] = Fields
         /\ NamesStay'
<1>1. replica'[r] = Stored(replica[r], Logged(m))
      BY DEF Shapes
<1>2. setting' = setting /\ origin' = origin
      BY DEF setting, origin
<1>3. \A x \in Replicas : x # r => replica'[x] = replica[x]
      BY DEF Shapes
<1>4. CASE Profile
  <2>1. replica'[r] = m
        BY <1>1, <1>4 DEF Stored, Logged, Profile
  <2>2. /\ m.name = replica[r].name
        /\ m.language = IF origin.language # "" THEN origin.language
                        ELSE replica[r].language
        /\ ~scenario.theme => m.theme = replica[r].theme
    <3>1. m = Merged(replica[r], origin, scenario.theme)
          BY <1>4 DEF Meant
    <3>2. DOMAIN replica[r] = ProfileFields
          BY <1>4, Kinds DEF Shapes
    <3> QED
        BY <3>1, <3>2, MergedFields
  <2>3. AtTarget(r)'
        BY <1>2, <1>4, <2>1, <2>2 DEF AtTarget, Profile
  <2>4. Own(r)' = Own(r)
    <3>1. Own(r) = <<replica[r].name,
                     IF scenario.theme THEN "" ELSE replica[r].theme>>
          BY <1>4 DEF Own, Profile
    <3>2. setting' = "profile"
          BY <1>2, <1>4 DEF Profile
    <3>3. Own(r)' = <<replica'[r].name,
                      IF scenario'.theme THEN "" ELSE replica'[r].theme>>
          BY <3>2 DEF Own
    <3> QED
        BY <2>1, <2>2, <3>1, <3>3
  <2>5. NamesStay'
        BY <1>3, <1>4, <2>1, <2>2 DEF NamesStay
  <2> QED
      BY <2>1, <2>3, <2>4, <2>5
<1>5. CASE DHCP
  <2> DEFINE v == replica[r]
             c == Override(r, origin)
  <2>1. replica'[r] = Stored(v, m) /\ m = Clean(c) /\ HasConfig(origin)
        BY <1>1, <1>5 DEF Logged, DHCP, Meant
  <2>2. DOMAIN c = DhcpFields /\ c.v4 = origin.v4 /\ c.v6 = origin.v6
        BY <1>5, Kinds, OverrideFields DEF Shapes
  <2>3. /\ DOMAIN m = DhcpFields
        /\ m.v4 = IF Valid(c.v4) THEN c.v4 ELSE "none"
        /\ m.v6 = IF Valid(c.v6) THEN c.v6 ELSE "none"
        /\ m.interface = c.interface
        /\ m.enabled = c.enabled
        BY <2>1, <2>2, CleanFields
  <2>4. /\ DOMAIN replica'[r] = DhcpFields
        /\ replica'[r].leases = v.leases
        /\ replica'[r].v4 = IF m.v4 = "none" THEN v.v4 ELSE m.v4
        /\ replica'[r].v6 = IF m.v6 = "none" THEN v.v6 ELSE m.v6
        /\ replica'[r].interface = m.interface
        /\ replica'[r].enabled = m.enabled
        BY <1>5, <2>1, <2>3, StoredFields
  <2>5. ~Valid("none")
        BY DEF Valid
  <2>6. Override(r, origin)' = Override(r, origin)
        BY DEF Override, origin
  <2>7. AtTarget(r)'
    <3>1. /\ replica'[r].interface = c.interface
          /\ replica'[r].enabled = c.enabled
          /\ Valid(origin.v4) => replica'[r].v4 = origin.v4
          /\ Valid(origin.v6) => replica'[r].v6 = origin.v6
          BY <2>2, <2>3, <2>4, <2>5
    <3> QED
        BY <1>2, <1>5, <2>6, <3>1 DEF AtTarget, DHCP
  <2>8. Own(r)' = Own(r)
    <3>1. /\ replica'[r].leases = v.leases
          /\ ~Valid(origin.v4) => replica'[r].v4 = v.v4
          /\ ~Valid(origin.v6) => replica'[r].v6 = v.v6
          BY <2>2, <2>3, <2>4
    <3>2. Own(r) = <<v.leases,
                     IF Valid(origin.v4) THEN "" ELSE v.v4,
                     IF Valid(origin.v6) THEN "" ELSE v.v6>>
          BY <1>5, <2>1 DEF Own, DHCP
    <3>3. HasConfig(origin)'
          BY <1>2, <2>1 DEF HasConfig, Valid
    <3>4. setting' = "DHCP config"
          BY <1>2, <1>5 DEF DHCP
    <3>5. Own(r)' = <<replica'[r].leases,
                      IF Valid(origin'.v4) THEN "" ELSE replica'[r].v4,
                      IF Valid(origin'.v6) THEN "" ELSE replica'[r].v6>>
          BY <3>3, <3>4 DEF Own
    <3> QED
        BY <1>2, <3>1, <3>2, <3>5
  <2> QED
      BY <1>2, <1>5, <2>4, <2>7, <2>8, Kinds DEF NamesStay, Profile
<1>6. CASE ListSetting
  <2>1. replica'[r] = Logged(m)
        BY <1>1, <1>6 DEF Stored, ListSetting
  <2>2. DOMAIN Logged(m) = ListFields /\ Logged(m).elements = m.elements
        BY <1>6, Kinds, SortedFields DEF Logged
  <2>3. AtTarget(r)'
        BY <1>2, <1>6, <2>1, <2>2 DEF AtTarget, ListSetting, Meant
  <2>4. Own(r)' = Own(r)
        BY <1>2, <1>6 DEF Own, ListSetting
  <2> QED
      BY <1>2, <1>6, <2>1, <2>2, <2>3, <2>4, Kinds DEF NamesStay, Profile
<1> QED
    BY <1>4, <1>5, <1>6, Kinds

-----------------------------------------------------------------------------
(* What a step does to the values                                          *)

\* The values the pass may hold after a step.
Holds == {snapshot, origin, Logged(snapshot), HeldAfterComparison(current, snapshot)}

\* A value that is held is the origin's, in the origin's or in sorted order.
LEMMA HeldValues ==
  ASSUME scenario \in Scenarios, Shapes, HeldIsOrigins, NEW o \in Holds
  PROVE  /\ DOMAIN o = Fields
         /\ IF ListSetting THEN o.elements = origin.elements ELSE o = origin
<1>1. CASE ListSetting
  <2>1. DOMAIN Sorted(snapshot) = Fields /\ Sorted(snapshot).elements = snapshot.elements
        BY <1>1, Kinds, SortedFields DEF Shapes
  <2>2. o \in {snapshot, origin, Sorted(snapshot)}
        BY DEF Holds, Logged, HeldAfterComparison
  <2> QED
      BY <1>1, <2>1, <2>2 DEF HeldIsOrigins, Shapes
<1>2. CASE ~ListSetting
  <2>1. o = snapshot \/ o = origin
        BY <1>2 DEF Holds, Logged, HeldAfterComparison, ListSetting
  <2> QED
      BY <1>2, <2>1 DEF HeldIsOrigins, Shapes
<1> QED
    BY <1>1, <1>2

\* What a server stores.
LEMMA StoreEffect ==
  ASSUME Inv, pc = "send", Store, scenario' = scenario, NEW r \in Replicas
  PROVE  /\ r = current => AtTarget(r)' /\ Own(r)' = Own(r)
         /\ r # current => replica'[r] = replica[r]
         /\ DOMAIN replica'[r] = Fields
         /\ DOMAIN replica' = Replicas
         /\ NamesStay'
<1> PICK m \in request :
      replica' = [replica EXCEPT ![current] = Stored(@, Logged(m))]
    BY DEF Store
<1>1. DOMAIN replica' = Replicas
      BY DEF Inv, Shapes
<1>2. PICK c \in Replicas : c = current
      BY DEF Inv, TypeOK
<1>3. DOMAIN m = Fields /\ Meant(c, m)
      BY <1>2 DEF Inv, Shapes, RequestIsMeant
<1>4. replica' = [replica EXCEPT ![c] = Stored(@, Logged(m))]
      BY <1>2
<1>5. /\ AtTarget(c)' /\ Own(c)' = Own(c)
      /\ DOMAIN replica'[c] = Fields /\ NamesStay'
      BY <1>3, <1>4, MeantIsTarget DEF Inv, TypeOK
<1>6. CASE r = current
      BY <1>1, <1>2, <1>5, <1>6
<1>7. CASE r # current
  <2>1. replica'[r] = replica[r]
        BY <1>7 DEF Inv, Shapes
  <2> QED
      BY <1>1, <1>5, <1>7, <2>1 DEF Inv, Shapes
<1> QED
    BY <1>6, <1>7

\* A replica that keeps its value keeps what is told of it.
LEMMA SameValue ==
  ASSUME scenario' = scenario, NEW r, replica'[r] = replica[r]
  PROVE  /\ AtTarget(r) => AtTarget(r)'
         /\ Own(r)' = Own(r)
<1>1. AtTarget(r) => AtTarget(r)'
      BY DEF AtTarget, setting, origin, Override
<1>2. Own(r)' = Own(r)
      BY DEF Own, setting, origin
<1> QED
    BY <1>1, <1>2

\* What a step does to the values.
Effect ==
  /\ scenario' = scenario
  /\ snapshot' \in Holds
  /\ \/ replica' = replica
     \/ pc = "send" /\ Store
  /\ \/ request' = {}
     \/ UNCHANGED <<request, current, replica>>
     \/ /\ pc = "compare"
        /\ request' = Request(current, replica[current], snapshot')
        /\ UNCHANGED <<current, replica>>

\* Every step is of that form.
LEMMA StepEffect == Inv /\ [Next]_vars => Effect
<1> SUFFICES ASSUME Inv, [Next]_vars PROVE Effect
    OBVIOUS
<1> USE DEF Effect, Holds
<1>1. CASE StartPass
      BY <1>1 DEF StartPass
<1>2. ASSUME NEW r \in Replicas, StartReplica(r) PROVE Effect
      BY <1>2 DEF StartReplica, Inv, TypeOK
<1>3. CASE Compare
      BY <1>3 DEF Compare, Done
<1>4. CASE Send
      BY <1>4 DEF Send, Done
<1>5. CASE EndPass
      BY <1>5 DEF EndPass
<1>6. CASE CompareFails
      BY <1>6 DEF CompareFails, Done
<1>7. CASE SendFails
      BY <1>7 DEF SendFails, Done
<1>8. CASE Kill
      BY <1>8 DEF Kill
<1>9. CASE UNCHANGED vars
      BY <1>9 DEF vars
<1> QED
    BY <1>1, <1>2, <1>3, <1>4, <1>5, <1>6, <1>7, <1>8, <1>9 DEF Next, Pass

-----------------------------------------------------------------------------
(* The invariant is inductive                                              *)

\* The initial states.
LEMMA InvInit == Init => Inv
<1> SUFFICES ASSUME Init PROVE Inv
    OBVIOUS
<1> USE DEF Init
<1>1. TypeOK
      BY SettingSyncAssumption DEF TypeOK
<1>2. Shapes
  <2>1. \A v \in {scenario.origin} \cup {scenario.replica[r] : r \in Replicas} :
          DOMAIN v = Fields
        BY ValuesAssumption DEF Fields, Profile, DHCP, setting
  <2>2. DOMAIN scenario.replica = Replicas
        BY SettingSyncAssumption
  <2> QED
      BY <2>1, <2>2 DEF Shapes, origin
<1> QED
    BY <1>1, <1>2 DEF Inv, HeldIsOrigins, RequestIsMeant, NamesStay

\* Where the pass is, in every step.
LEMMA TypeStep == Inv /\ [Next]_vars => TypeOK'
<1> SUFFICES ASSUME TypeOK, [Next]_vars PROVE TypeOK'
    BY DEF Inv
<1> USE DEF TypeOK
<1>1. Failure => faults' \in 0..MaxFaults
      BY SettingSyncAssumption DEF Failure
<1>2. Answered => faults' \in 0..MaxFaults
      BY DEF Answered
<1>3. CASE StartPass
      BY <1>3 DEF StartPass
<1>4. ASSUME NEW r \in Replicas, StartReplica(r) PROVE TypeOK'
      BY <1>4, SettingSyncAssumption DEF StartReplica
<1>5. CASE Compare
      BY <1>2, <1>5 DEF Compare, Done
<1>6. CASE Send
      BY <1>2, <1>6 DEF Send, Done
<1>7. CASE EndPass
      BY <1>7 DEF EndPass
<1>8. CASE CompareFails
      BY <1>1, <1>8 DEF CompareFails, Done
<1>9. CASE SendFails
      BY <1>1, <1>9 DEF SendFails, Done
<1>10. CASE Kill
      BY <1>1, <1>10 DEF Kill
<1>11. CASE UNCHANGED vars
      BY <1>11 DEF vars
<1> QED
    BY <1>3, <1>4, <1>5, <1>6, <1>7, <1>8, <1>9, <1>10, <1>11 DEF Next, Pass

\* The invariant is inductive.
LEMMA InvStep == Inv /\ [Next]_vars => Inv'
<1> SUFFICES ASSUME Inv, [Next]_vars PROVE Inv'
    OBVIOUS
<1>1. TypeOK' /\ Effect
      BY TypeStep, StepEffect
<1>2. /\ setting' = setting /\ origin' = origin /\ Fields' = Fields
      /\ Profile' = Profile /\ DHCP' = DHCP /\ ListSetting' = ListSetting
      BY <1>1 DEF Effect, setting, origin, Fields, Profile, DHCP, ListSetting
<1>3. /\ DOMAIN snapshot' = Fields
      /\ IF ListSetting THEN snapshot'.elements = origin.elements
                        ELSE snapshot' = origin
      BY <1>1, HeldValues DEF Effect, Inv, TypeOK
<1>4. HeldIsOrigins'
      BY <1>2, <1>3 DEF HeldIsOrigins
<1>5. /\ DOMAIN replica' = Replicas
      /\ \A r \in Replicas : DOMAIN replica'[r] = Fields
      /\ NamesStay'
  <2>1. CASE replica' = replica
        BY <1>1, <1>2, <2>1 DEF Effect, Inv, Shapes, NamesStay
  <2>2. CASE pc = "send" /\ Store
    <3>1. current \in Replicas
          BY <2>2 DEF Inv, TypeOK
    <3> QED
        BY <1>1, <2>2, <3>1, StoreEffect DEF Effect
  <2> QED
      BY <1>1, <2>1, <2>2 DEF Effect
<1>6. ASSUME NEW m \in request' PROVE DOMAIN m = Fields /\ Meant(current, m)'
  <2>1. CASE request' = {}
        BY <2>1
  <2>2. CASE UNCHANGED <<request, current, replica>>
    <3>1. DOMAIN m = Fields /\ Meant(current, m)
          BY <2>2 DEF Inv, Shapes, RequestIsMeant
    <3>2. Meant(current, m)'
          BY <1>1, <1>2, <2>2, <3>1
             DEF Effect, Meant, Override, HasConfig, Valid
    <3> QED
        BY <3>1, <3>2
  <2>3. CASE /\ pc = "compare"
             /\ request' = Request(current, replica[current], snapshot')
             /\ UNCHANGED <<current, replica>>
    <3>1. current \in Replicas
          BY <2>3 DEF Inv, TypeOK
    <3>2. DOMAIN m = Fields /\ Meant(current, m)
          BY <1>3, <2>3, <3>1, RequestedIsMeant DEF Inv, TypeOK
    <3>3. Meant(current, m)'
          BY <1>1, <1>2, <2>3, <3>2
             DEF Effect, Meant, Override, HasConfig, Valid
    <3> QED
        BY <3>2, <3>3
  <2> QED
      BY <1>1, <2>1, <2>2, <2>3 DEF Effect
<1>7. Shapes'
      BY <1>2, <1>3, <1>5, <1>6 DEF Shapes, Inv
<1> QED
    BY <1>1, <1>4, <1>5, <1>6, <1>7 DEF Inv, RequestIsMeant

\* An action that ends without an error leaves the replica as it should be,
\* and no step takes that away.
LEMMA StepBringsIntoLine ==
  ASSUME Inv, [Next]_vars, NEW r \in Replicas
  PROVE  /\ Succeeds(r) => AtTarget(r)'
         /\ AtTarget(r) => AtTarget(r)'
<1>1. Effect
      BY StepEffect
<1>2. replica'[r] = replica[r] => (AtTarget(r) => AtTarget(r)')
      BY <1>1, SameValue DEF Effect
<1>3. CASE pc = "send" /\ Store
  <2>1. Succeeds(r) => r = current
        BY DEF Succeeds
  <2> QED
      BY <1>1, <1>2, <1>3, <2>1, StoreEffect DEF Effect
<1>4. CASE ~(pc = "send" /\ Store)
  <2>1. replica' = replica
        BY <1>1, <1>4 DEF Effect
  <2>2. ASSUME Succeeds(r) PROVE AtTarget(r)
    <3>1. r # NoReplica /\ pc \in {"compare", "send"}
          BY <2>2, SettingSyncAssumption DEF Succeeds, Inv, TypeOK
    <3>2. faults' # faults + 1
          BY <2>2 DEF Succeeds, Inv, TypeOK
    <3>3. Compare /\ request' = {}
      <4>1. Compare \/ Send
            BY <2>2, <3>1, <3>2
               DEF Next, Pass, StartPass, StartReplica, EndPass, CompareFails,
                   SendFails, Kill, Failure, vars, Succeeds
      <4>2. ~Send
            BY <1>4 DEF Send
      <4> QED
          BY <2>2, <3>1, <4>1, <4>2 DEF Compare, Done, Succeeds
    <3>4. Request(r, replica[r], snapshot') = {}
          BY <2>2, <3>1, <3>3 DEF Compare, Done, Succeeds
    <3>5. /\ DOMAIN snapshot' = Fields
          /\ IF ListSetting THEN snapshot'.elements = origin.elements
                            ELSE snapshot' = origin
          BY <1>1, HeldValues DEF Effect, Inv, TypeOK
    <3> QED
        BY <3>4, <3>5, NothingToSend DEF Inv, TypeOK
  <2> QED
      BY <1>2, <2>1, <2>2
<1> QED
    BY <1>3, <1>4

\* No step touches what belongs to a replica.
LEMMA StepKeepsOwn ==
  ASSUME Inv, [Next]_vars, NEW r \in Replicas
  PROVE  Own(r)' = Own(r)
<1>1. Effect
      BY StepEffect
<1>2. replica'[r] = replica[r] => Own(r)' = Own(r)
      BY <1>1, SameValue DEF Effect
<1>3. CASE replica' = replica
      BY <1>2, <1>3
<1>4. CASE pc = "send" /\ Store
      BY <1>1, <1>2, <1>4, StoreEffect DEF Effect
<1> QED
    BY <1>1, <1>3, <1>4 DEF Effect

-----------------------------------------------------------------------------
(* What holds of every behaviour                                           *)

\* The invariant holds always.
THEOREM InvHolds == Spec => []Inv
<1>1. Init => Inv
      BY InvInit
<1>2. Inv /\ [Next]_vars => Inv'
      BY InvStep
<1> QED
    BY <1>1, <1>2, PTL DEF Spec

\* The state keeps its type: a replica is worked on only in an action, and a
\* request is there only to be sent.
THEOREM TypeCorrect == Spec => []TypeOK
<1>1. Inv => TypeOK
      BY DEF Inv
<1> QED
    BY <1>1, InvHolds, PTL

\* An action that ends without an error leaves its replica with what the
\* origin has and its own overrides, and a replica that has it keeps it.
THEOREM ActionsBringIntoLine == Spec => BringsIntoLine
<1>1. Inv /\ [Next]_vars =>
        [\A r \in Replicas : /\ Succeeds(r) => AtTarget(r)'
                             /\ AtTarget(r) => AtTarget(r)']_vars
      BY StepBringsIntoLine
<1> QED
    BY <1>1, InvHolds, PTL DEF Spec, BringsIntoLine

\* No sync touches what belongs to a replica.
THEOREM OwnIsKept == Spec => KeepsOwn
<1>1. Inv /\ [Next]_vars => [\A r \in Replicas : Own(r)' = Own(r)]_vars
      BY StepKeepsOwn
<1> QED
    BY <1>1, InvHolds, PTL DEF Spec, KeepsOwn
=============================================================================
