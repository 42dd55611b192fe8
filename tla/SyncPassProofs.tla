--------------------------- MODULE SyncPassProofs ---------------------------
(***************************************************************************)
(* Proofs about module SyncPass, for any set of replicas, any settings,    *)
(* any configurations and any bounds on failures and edits.                *)
(***************************************************************************)
EXTENDS SyncPass, TLAPS

-----------------------------------------------------------------------------
(* The tables of SyncActions                                               *)

\* The first of a set is one of the set.
LEMMA FirstIsMember ==
  ASSUME NEW x, NEW S, NEW seq, First(x, S, seq)
  PROVE  x \in S
  BY DEF First

\* What is read, and what is done, is in the tables.
LEMMA TableTypes ==
  ASSUME NEW f
  PROVE  /\ OriginReads(f) \subseteq Reads
         /\ SetupActions(f) \subseteq ActionNames
<1>1. {"DHCP", "TLS config"} \subseteq Reads
  <2>1. ReadOrder[14] = "DHCP" /\ ReadOrder[15] = "TLS config"
        BY DEF ReadOrder
  <2>2. 14 \in DOMAIN ReadOrder /\ 15 \in DOMAIN ReadOrder
        BY DEF ReadOrder
  <2> QED
      BY <2>1, <2>2 DEF Reads, Elements
<1>2. OriginReads(f) \subseteq Reads
      BY <1>1 DEF OriginReads
<1> QED
    BY <1>2 DEF SetupActions

\* The elements of tuples of one to four.
LEMMA SingleElement ==
  ASSUME NEW p
  PROVE  Elements(<<p>>) = {p}
<1>1. DOMAIN <<p>> = 1..1 /\ 1..1 = {1}
      OBVIOUS
<1> QED
    BY <1>1 DEF Elements

LEMMA PairElements ==
  ASSUME NEW p, NEW q
  PROVE  Elements(<<p, q>>) = {p, q}
<1>1. DOMAIN <<p, q>> = 1..2 /\ 1..2 = {1, 2}
      OBVIOUS
<1> QED
    BY <1>1 DEF Elements

LEMMA TripleElements ==
  ASSUME NEW p, NEW q, NEW r
  PROVE  Elements(<<p, q, r>>) = {p, q, r}
<1>1. DOMAIN <<p, q, r>> = 1..3 /\ 1..3 = {1, 2, 3}
      OBVIOUS
<1> QED
    BY <1>1 DEF Elements

LEMMA QuadrupleElements ==
  ASSUME NEW p, NEW q, NEW r, NEW s
  PROVE  Elements(<<p, q, r, s>>) = {p, q, r, s}
<1>1. DOMAIN <<p, q, r, s>> = 1..4 /\ 1..4 = {1, 2, 3, 4}
      OBVIOUS
<1> QED
    BY <1>1 DEF Elements

\* The elements of a concatenation.
LEMMA ConcatElements ==
  ASSUME NEW S, NEW s \in Seq(S), NEW t \in Seq(S)
  PROVE  /\ s \o t \in Seq(S)
         /\ Elements(s \o t) = Elements(s) \cup Elements(t)
<1>1. ASSUME NEW x \in Elements(s \o t)
      PROVE  x \in Elements(s) \cup Elements(t)
  <2>1. PICK i \in 1..(Len(s) + Len(t)) : x = (s \o t)[i]
        BY <1>1 DEF Elements
  <2>2. CASE i <= Len(s)
        BY <2>1, <2>2 DEF Elements
  <2>3. CASE i > Len(s)
    <3>1. (s \o t)[i] = t[i - Len(s)] /\ i - Len(s) \in 1..Len(t)
          BY <2>3
    <3> QED
        BY <2>1, <3>1 DEF Elements
  <2> QED
      BY <2>2, <2>3
<1>2. ASSUME NEW i \in 1..Len(s) PROVE s[i] \in Elements(s \o t)
  <2>1. i \in DOMAIN (s \o t) /\ (s \o t)[i] = s[i]
        OBVIOUS
  <2> QED
      BY <2>1 DEF Elements
<1>3. ASSUME NEW i \in 1..Len(t) PROVE t[i] \in Elements(s \o t)
  <2>1. Len(s) + i \in DOMAIN (s \o t) /\ (s \o t)[Len(s) + i] = t[i]
        OBVIOUS
  <2> QED
      BY <2>1 DEF Elements
<1>4. Elements(s) = {s[i] : i \in 1..Len(s)} /\ Elements(t) = {t[i] : i \in 1..Len(t)}
      BY DEF Elements
<1>5. Elements(s) \cup Elements(t) \subseteq Elements(s \o t)
      BY <1>2, <1>3, <1>4
<1> QED
    BY <1>1, <1>5

\* The requests on one list of filters.
FilterSet(l) == {<<l, "delete">>, <<l, "add">>, <<l, "update">>, <<l, "refresh">>}

\* The requests of actionFilters.
LEMMA FilterElements ==
  Elements(Requests("actionFilters"))
    = (FilterSet("blocklist") \cup FilterSet("allowlist"))
        \cup {<<"user rules", "set">>, <<"filtering", "set">>}
<1> DEFINE block == FilterRequests("blocklist")
           allow == FilterRequests("allowlist")
           rest == << <<"user rules", "set">>, <<"filtering", "set">> >>
           S == Elements(block) \cup Elements(allow) \cup Elements(rest)
<1>1. Requests("actionFilters") = block \o allow \o rest
      BY DEF Requests
<1>2. /\ Elements(block) = FilterSet("blocklist")
      /\ Elements(allow) = FilterSet("allowlist")
      /\ Elements(rest) = {<<"user rules", "set">>, <<"filtering", "set">>}
  <2>1. ASSUME NEW l PROVE Elements(FilterRequests(l)) = FilterSet(l)
        BY QuadrupleElements DEF FilterRequests, FilterSet
  <2>2. Elements(rest) = {<<"user rules", "set">>, <<"filtering", "set">>}
        BY PairElements
  <2> QED
      BY <2>1, <2>2, Zenon
<1>3. block \in Seq(S) /\ allow \in Seq(S) /\ rest \in Seq(S)
  <2>1. ASSUME NEW T, NEW p \in T, NEW q \in T, NEW r \in T, NEW s \in T
        PROVE  <<p, q, r, s>> \in Seq(T) /\ <<p, q>> \in Seq(T)
        OBVIOUS
  <2> HIDE DEF S
  <2>2. Elements(block) \cup Elements(allow) \cup Elements(rest) = S
        BY DEF S
  <2> QED
      BY <1>2, <2>1, <2>2 DEF FilterRequests, FilterSet
<1>4. Elements(block \o allow \o rest)
        = (Elements(block) \cup Elements(allow)) \cup Elements(rest)
  <2> HIDE DEF block, allow, rest, S
  <2>1. block \o allow \in Seq(S)
          /\ Elements(block \o allow) = Elements(block) \cup Elements(allow)
        BY <1>3, ConcatElements
  <2> DEFINE both == block \o allow
  <2>2. both \in Seq(S)
        BY <2>1
  <2> HIDE DEF both
  <2>3. Elements(both \o rest) = Elements(both) \cup Elements(rest)
        BY <1>3, <2>2, ConcatElements
  <2> QED
      BY <2>1, <2>3 DEF both
<1> QED
    BY <1>1, <1>2, <1>4, Zenon

\* The requests of the other actions.
Several == {"DNS rewrites", "actionFilters", "client settings", "DHCP static leases"}

LEMMA RequestElements ==
  /\ Elements(Requests("DNS rewrites"))
       = {<<"rewrite", "delete">>, <<"rewrite", "add">>}
  /\ Elements(Requests("client settings"))
       = {<<"client", "delete">>, <<"client", "add">>, <<"client", "update">>}
  /\ Elements(Requests("DHCP static leases"))
       = {<<"lease", "delete">>, <<"lease", "add">>}
  /\ \A a : a \notin Several => Elements(Requests(a)) = {<<a, "set">>}
<1>1. Requests("DNS rewrites") = << <<"rewrite", "delete">>, <<"rewrite", "add">> >>
      BY DEF Requests
<1>2. Requests("client settings")
        = << <<"client", "delete">>, <<"client", "add">>, <<"client", "update">> >>
      BY DEF Requests
<1>3. Requests("DHCP static leases") = << <<"lease", "delete">>, <<"lease", "add">> >>
      BY DEF Requests
<1>4. ASSUME NEW a, a \notin Several PROVE Elements(Requests(a)) = {<<a, "set">>}
  <2>1. Requests(a) = << <<a, "set">> >>
        BY <1>4 DEF Requests, Several
  <2> QED
      BY <2>1, SingleElement, Zenon
<1>5. Elements(Requests("DNS rewrites")) = {<<"rewrite", "delete">>, <<"rewrite", "add">>}
      BY <1>1, PairElements, Zenon
<1>6. Elements(Requests("client settings"))
        = {<<"client", "delete">>, <<"client", "add">>, <<"client", "update">>}
      BY <1>2, TripleElements, Zenon
<1>7. Elements(Requests("DHCP static leases")) = {<<"lease", "delete">>, <<"lease", "add">>}
      BY <1>3, PairElements, Zenon
<1> QED
    BY <1>4, <1>5, <1>6, <1>7

\* A setting of its own is sent by the action that is named for it.
Singles == {"protection", "DNS server config", "DHCP server config"}

LEMMA SinglesAreTheirOwn ==
  ASSUME NEW x \in Singles
  PROVE  /\ x \in ActionNames
         /\ Elements(Requests(x)) = {<<x, "set">>}
         /\ Parts(x) = {<<x, "set">>}
         /\ <<x, "set">> \in AllParts
         /\ <<x, "set">> \notin Refreshes
         /\ \A a : <<x, "set">> \in Elements(Requests(a)) => a = x
<1>1. /\ ActionOrder[2] = "protection" /\ 2 \in DOMAIN ActionOrder
      /\ ActionOrder[6] = "DNS server config" /\ 6 \in DOMAIN ActionOrder
      /\ ActionOrder[14] = "DHCP server config" /\ 14 \in DOMAIN ActionOrder
      BY DEF ActionOrder
<1>2. x \in ActionNames
      BY <1>1 DEF ActionNames, Elements, Singles
<1>3. Elements(Requests(x)) = {<<x, "set">>}
      BY RequestElements DEF Singles, Several
<1>4. <<x, "set">> \notin Refreshes
      BY DEF Refreshes, Lists
<1>5. Parts(x) = {<<x, "set">>}
      BY <1>3, <1>4 DEF Parts
<1>6. ASSUME NEW a, <<x, "set">> \in Elements(Requests(a)) PROVE a = x
  <2>0. /\ <<x, "set">> \notin {<<"rewrite", "delete">>, <<"rewrite", "add">>}
        /\ <<x, "set">> \notin {<<"client", "delete">>, <<"client", "add">>,
                                <<"client", "update">>}
        /\ <<x, "set">> \notin {<<"lease", "delete">>, <<"lease", "add">>}
        /\ <<x, "set">> \notin (FilterSet("blocklist") \cup FilterSet("allowlist"))
                                 \cup {<<"user rules", "set">>, <<"filtering", "set">>}
        BY DEF Singles, FilterSet
  <2>1. a # "DNS rewrites"
        BY <1>6, <2>0, RequestElements, Zenon
  <2>2. a # "actionFilters"
        BY <1>6, <2>0, FilterElements, Zenon
  <2>3. a # "client settings"
        BY <1>6, <2>0, RequestElements, Zenon
  <2>4. a # "DHCP static leases"
        BY <1>6, <2>0, RequestElements, Zenon
  <2>5. Elements(Requests(a)) = {<<a, "set">>}
        BY <2>1, <2>2, <2>3, <2>4, RequestElements DEF Several
  <2> QED
      BY <1>6, <2>5
<1> QED
    BY <1>2, <1>3, <1>4, <1>5, <1>6 DEF AllParts

\* The protection has an action, and is part of the DNS config.
LEMMA ProtectionIsPart ==
  /\ Protection \in AllParts /\ Protection # DNSConfig /\ Protection # DNSProtection
  /\ DNSConfig \in AllParts /\ DNSConfig # DNSProtection
  /\ Protection \notin Refreshes /\ DNSConfig \notin Refreshes
  /\ Protection[2] = "set" /\ DNSConfig[2] = "set"
  BY SinglesAreTheirOwn DEF Singles, Protection, DNSConfig, DNSProtection

\* What a request sets.
LEMMA SetsOf ==
  ASSUME NEW q
  PROVE  /\ q \in Refreshes => Sets(q) = {}
         /\ q = DNSConfig => Sets(q) = {DNSConfig, Protection}
         /\ q \notin Refreshes \cup {DNSConfig} => Sets(q) = {q}
  BY ProtectionIsPart DEF Sets

\* A request disturbs a part of the same action, and none that has an action
\* of its own.
LEMMA DisturbedIsPart ==
  ASSUME NEW a, NEW q \in Elements(Requests(a)), NEW p \in Disturbs(q)
  PROVE  p \in Parts(a) /\ p[2] # "set"
<1>1. CASE q = <<"rewrite", "delete">> /\ p = <<"rewrite", "add">>
  <2>1. a = "DNS rewrites"
    <3>0. /\ q \notin (FilterSet("blocklist") \cup FilterSet("allowlist"))
                      \cup {<<"user rules", "set">>, <<"filtering", "set">>}
          /\ q \notin {<<"client", "delete">>, <<"client", "add">>, <<"client", "update">>}
          /\ q \notin {<<"lease", "delete">>, <<"lease", "add">>}
          BY <1>1 DEF FilterSet
    <3>1. a # "actionFilters"
          BY <3>0, FilterElements, Zenon
    <3>2. a # "client settings" /\ a # "DHCP static leases"
          BY <3>0, RequestElements, Zenon
    <3>3. Elements(Requests(a)) = {<<a, "set">>} \/ a = "DNS rewrites"
          BY <3>1, <3>2, RequestElements DEF Several
    <3> QED
        BY <1>1, <3>3
  <2>2. p \in Elements(Requests(a)) /\ p \notin Refreshes
        BY <1>1, <2>1, RequestElements DEF Refreshes, Lists
  <2> QED
      BY <1>1, <2>2 DEF Parts
<1>2. ASSUME NEW l \in Lists, q = <<l, "add">>, p = <<l, "update">>
      PROVE  p \in Parts(a) /\ p[2] # "set"
  <2>1. a = "actionFilters"
    <3>1. l \notin {"rewrite", "client", "lease"}
          BY <1>2 DEF Lists
    <3>2. /\ q \notin {<<"rewrite", "delete">>, <<"rewrite", "add">>}
          /\ q \notin {<<"client", "delete">>, <<"client", "add">>, <<"client", "update">>}
          /\ q \notin {<<"lease", "delete">>, <<"lease", "add">>}
          BY <1>2, <3>1
    <3>4. a # "DNS rewrites" /\ a # "client settings" /\ a # "DHCP static leases"
          BY <3>2, RequestElements, Zenon
    <3>3. Elements(Requests(a)) = {<<a, "set">>} \/ a = "actionFilters"
          BY <3>4, RequestElements DEF Several
    <3> QED
        BY <1>2, <3>3
  <2>2. p \in Elements(Requests(a)) /\ p \notin Refreshes
        BY <1>2, <2>1, FilterElements DEF FilterSet, Refreshes, Lists
  <2> QED
      BY <1>2, <2>2 DEF Parts
<1> QED
    BY <1>1, <1>2 DEF Disturbs

\* A plan has requests of its action, and but for the refreshes they are due.
LEMMA PlanIsDue ==
  ASSUME NEW a \in ActionNames, NEW due
  PROVE  /\ Plan(a, due) \subseteq Elements(Requests(a))
         /\ Plan(a, due) \subseteq AllRequests
         /\ \A q \in Plan(a, due) : q \in Refreshes \/ q \in due
<1>1. Plan(a, due) \subseteq Elements(Requests(a))
      BY DEF Plan
<1>2. Elements(Requests(a)) \subseteq AllRequests
      BY DEF AllRequests
<1>3. \A l \in Lists : <<l, "refresh">> \in Refreshes
      BY DEF Refreshes
<1>4. \A q \in Plan(a, due) : q \in Refreshes \/ q \in due
      BY <1>3 DEF Plan
<1> QED
    BY <1>1, <1>2, <1>4

-----------------------------------------------------------------------------
(* Types.  The settings of a replica stay in their type because no request *)
(* is planned for a part whose value was not read.                         *)

PlanIsRead ==
  /\ \A q \in plan : \A p \in Sets(q) : Sent(q, p) \in Values
  /\ pc # "requests" => plan = {}
DNSIsRead == snapshot[DNSConfig] = NotRead <=> snapshot[DNSProtection] = NotRead
TypeInv == TypeOK /\ PlanIsRead /\ DNSIsRead

\* The mode is a Boolean.
LEMMA ConfigType ==
  ASSUME TypeOK
  PROVE  cfg.continueOnError \in BOOLEAN
  BY SyncPassAssumption DEF TypeOK, Config

\* The initial states.
LEMMA TypeInit == Init => TypeInv
<1> SUFFICES ASSUME Init PROVE TypeInv
    OBVIOUS
<1> USE DEF Init
<1>1. cfg.installed \in SUBSET Replicas
      BY SyncPassAssumption DEF Config
<1>2. metric \in [Replicas -> {"none", "yes", "no"}]
      OBVIOUS
<1>3. origin \in Settings /\ replica \in [Replicas -> Settings]
      BY SyncPassAssumption
<1>4. faults \in 0..MaxFaults /\ edits \in 0..MaxEdits
      BY SyncPassAssumption
<1>5. withError \in BOOLEAN /\ erred \in BOOLEAN
      BY Zenon
<1>6. snapshot \in [Held -> Values \cup {NotRead}]
      OBVIOUS
<1>7. pc \notin InSyncTo
      BY DEF InSyncTo
<1>8. DNSIsRead
      BY ProtectionIsPart DEF DNSIsRead, Held
<1> QED
    BY <1>1, <1>2, <1>3, <1>4, <1>5, <1>6, <1>7, <1>8 DEF TypeInv, TypeOK, PlanIsRead

\* The failures that are counted stay within their bound.
LEMMA FaultType ==
  ASSUME TypeOK
  PROVE  /\ Failure => faults' \in 0..MaxFaults
         /\ Answered => faults' \in 0..MaxFaults
         /\ \A r : Reached(r) \/ Unreached(r) => faults' \in 0..MaxFaults
<1>1. Failure => faults' \in 0..MaxFaults
      BY SyncPassAssumption DEF TypeOK, Failure
<1>2. Answered => faults' \in 0..MaxFaults
      BY DEF TypeOK, Answered
<1> QED
    BY <1>1, <1>2 DEF Reached, Unreached

\* A pass that ends leaves only peers, metrics and bounds to look at.
LEMMA EndPassType ==
  ASSUME EndPass,
         cfg' \in Configs, origin' \in Settings,
         replica' \in [Replicas -> Settings],
         installed' \in SUBSET Replicas,
         metric' \in [Replicas -> {"none", "yes", "no"}],
         faults' \in 0..MaxFaults, edits' \in 0..MaxEdits
  PROVE  TypeInv'
<1> USE DEF EndPass, ClearLocals
<1>1. snapshot' \in [Held -> Values \cup {NotRead}]
      OBVIOUS
<1>2. pc' \notin InSyncTo
      BY DEF InSyncTo
<1>3. withError' \in BOOLEAN /\ erred' \in BOOLEAN
      BY Zenon
<1>4. DNSIsRead'
      BY ProtectionIsPart DEF DNSIsRead, Held
<1> QED
    BY <1>1, <1>2, <1>3, <1>4 DEF TypeInv, TypeOK, PlanIsRead

\* A read stores what it returns, and both parts of the DNS config together.
LEMMA StoreType ==
  ASSUME TypeInv, NEW s, NEW value \in [AllParts -> Values \cup {NotRead}],
         {value[Protection], value[DNSConfig]} \subseteq Values
           \/ s # "DNS server config",
         Store(s, value)
  PROVE  snapshot' \in [Held -> Values \cup {NotRead}] /\ DNSIsRead'
<1> USE DEF TypeInv, TypeOK
<1>1. \A p \in Held : p # DNSProtection => p \in AllParts
      BY DEF Held
<1>2. snapshot' \in [Held -> Values \cup {NotRead}]
      BY <1>1, ProtectionIsPart DEF Store
<1>3. DNSIsRead'
  <2>1. CASE s = "DNS server config"
    <3>1. "DNS server config" \in Serves(s) /\ DNSConfig \in Parts("DNS server config")
          BY <2>1, SinglesAreTheirOwn DEF Serves, DNSConfig, Singles
    <3>2. snapshot'[DNSConfig] = value[DNSConfig]
          BY <3>1, ProtectionIsPart DEF Store, Held
    <3>3. snapshot'[DNSProtection] = value[Protection]
          BY <2>1 DEF Store, Held
    <3> QED
        BY <2>1, <3>2, <3>3, SyncPassAssumption DEF DNSIsRead
  <2>2. CASE s # "DNS server config"
    <3>1. "DNS server config" \notin Serves(s)
          BY <2>2 DEF Serves
    <3>2. ~\E a \in Serves(s) : DNSConfig \in Parts(a)
          BY <3>1, SinglesAreTheirOwn DEF Parts, DNSConfig, Singles
    <3>3. snapshot'[DNSConfig] = snapshot[DNSConfig]
          BY <3>2, ProtectionIsPart DEF Store, Held
    <3>4. snapshot'[DNSProtection] = snapshot[DNSProtection]
          BY <2>2 DEF Store, Held
    <3> QED
        BY <3>3, <3>4 DEF DNSIsRead
  <2> QED
      BY <2>1, <2>2
<1> QED
    BY <1>2, <1>3

\* The pass outside syncTo.
LEMMA OriginStepType ==
  TypeInv /\ (StartPass \/ OriginStep \/ FinishPass) => TypeInv'
<1> SUFFICES ASSUME TypeInv, StartPass \/ OriginStep \/ FinishPass
             PROVE  TypeInv'
    OBVIOUS
<1> USE DEF TypeInv, peers, local, passwide, bounds
\* The reads that go on.
<1>1. ASSUME NEW s \in toRead, NEW value \in [AllParts -> Values \cup {NotRead}],
             {value[Protection], value[DNSConfig]} \subseteq Values
               \/ s # "DNS server config",
             Store(s, value), NextRead(s), pc = "origin",
             UNCHANGED <<peers, metric, edits>>, faults' \in 0..MaxFaults
      PROVE  TypeInv'
  <2> USE <1>1 DEF TypeOK
  <2>1. snapshot' \in [Held -> Values \cup {NotRead}] /\ DNSIsRead'
        BY StoreType
  <2>2. toRead' \in SUBSET Reads /\ todo' \in SUBSET Replicas
        BY DEF NextRead
  <2>3. pc' \in {"origin", "replicas"} /\ pc' \notin InSyncTo /\ pc \notin InSyncTo
        BY DEF NextRead, InSyncTo
  <2>4. UNCHANGED <<current, local>>
        BY DEF NextRead
  <2>5. TypeOK'
        BY <2>1, <2>2, <2>3, <2>4
  <2>6. PlanIsRead'
        BY <2>3, <2>4 DEF PlanIsRead
  <2> QED
      BY <2>1, <2>5, <2>6
<1>2. ASSUME EndPass,
             UNCHANGED <<peers, metric, edits>>, faults' \in 0..MaxFaults
      PROVE  TypeInv'
      BY <1>2, EndPassType DEF TypeOK
<1>3. CASE StartPass
  <2>1. toRead' \in SUBSET Reads
        BY <1>3, TableTypes DEF StartPass
  <2>2. pc' \notin InSyncTo /\ pc \notin InSyncTo
        BY <1>3 DEF StartPass, InSyncTo
  <2> QED
      BY <1>3, <2>1, <2>2 DEF StartPass, TypeOK, PlanIsRead, DNSIsRead, Sent
<1>4. ASSUME NEW s \in toRead, ReadOrigin(s) PROVE TypeInv'
  <2>1. /\ origin \in [AllParts -> Values \cup {NotRead}]
        /\ {origin[Protection], origin[DNSConfig]} \subseteq Values
        BY ProtectionIsPart DEF TypeOK, Settings
  <2> QED
      BY <1>1, <1>4, <2>1 DEF ReadOrigin, TypeOK
<1>5. ASSUME NEW s \in toRead, ReadOriginFails(s) PROVE TypeInv'
      BY <1>2, <1>5, FaultType DEF ReadOriginFails
<1>6. CASE OriginOutdated
      BY <1>2, <1>6 DEF OriginOutdated, TypeOK
<1>7. CASE ProfileUnauthorized
  <2>1. "profile info" \in toRead
        BY <1>7, FirstIsMember DEF ProfileUnauthorized
  <2> QED
      BY <1>1, <1>7, <2>1, FaultType DEF ProfileUnauthorized
<1>8. CASE FinishPass
      BY <1>2, <1>8 DEF FinishPass, TypeOK
<1> QED
    BY <1>3, <1>4, <1>5, <1>6, <1>7, <1>8 DEF OriginStep

\* syncTo up to the first action.
LEMMA ReplicaStepType == TypeInv /\ ReplicaStep => TypeInv'
<1> SUFFICES ASSUME TypeInv, ReplicaStep
             PROVE  TypeInv'
    OBVIOUS
<1> USE DEF TypeInv, PlanIsRead, DNSIsRead, Sent, peers, local, passwide, bounds
\* The steps that only move on, give up or accept.
<1>1. ASSUME pc \in {"status", "setup", "restatus"},
             installed' \in SUBSET Replicas, faults' \in 0..MaxFaults,
             UNCHANGED <<cfg, origin, replica, metric, passwide, current, edits>>,
             \/ pc' \in {"setup", "restatus"}
                  /\ UNCHANGED local
             \/ GiveUp
             \/ Accept
      PROVE  TypeInv'
  <2> USE <1>1
  <2>1. current \in Replicas
        BY DEF TypeOK, InSyncTo
  <2>2. replica[current][Protection] \in Values
        BY <2>1, ProtectionIsPart DEF TypeOK, Settings
  <2>3. plan = {}
        OBVIOUS
  <2>4. CASE pc' \in {"setup", "restatus"}
               /\ UNCHANGED local
        BY <2>1, <2>3, <2>4 DEF TypeOK, InSyncTo
  <2>5. CASE GiveUp
    <3>1. withError' \in BOOLEAN /\ erred' \in BOOLEAN
          BY <2>5, Zenon DEF GiveUp
    <3> QED
        BY <2>1, <2>3, <2>5, <3>1 DEF TypeOK, InSyncTo, GiveUp
  <2>6. CASE Accept
        BY <2>1, <2>2, <2>3, <2>6, TableTypes DEF TypeOK, InSyncTo, Accept
  <2> QED
      BY <2>4, <2>5, <2>6
<1>2. ASSUME NEW r \in todo, NoClient(r) PROVE TypeInv'
      BY <1>2 DEF NoClient, TypeOK
<1>3. ASSUME NEW r \in todo, Connect(r) PROVE TypeInv'
  <2>1. withError' \in BOOLEAN
        BY <1>3, Zenon DEF Connect
  <2>2. r \in Replicas /\ pc' \in InSyncTo
        BY <1>3 DEF Connect, TypeOK, InSyncTo
  <2> QED
      BY <1>3, <2>1, <2>2 DEF Connect, TypeOK
<1>4. CASE ReplicaStatus
      BY <1>1, <1>4, FaultType DEF ReplicaStatus, TypeOK
<1>5. CASE Setup
  <2>1. installed' \in SUBSET Replicas
        BY <1>5 DEF Setup, TypeOK, InSyncTo
  <2> QED
      BY <1>1, <1>5, <2>1, FaultType DEF Setup
<1>6. CASE StatusAfterSetup
      BY <1>1, <1>6, FaultType DEF StatusAfterSetup, TypeOK
<1>7. CASE StatusFails
      BY <1>1, <1>7, FaultType DEF StatusFails, TypeOK
<1> QED
    BY <1>2, <1>3, <1>4, <1>5, <1>6, <1>7 DEF ReplicaStep

\* What the deferred function of syncTo writes.
LEMMA MetricType ==
  ASSUME TypeOK, UpdateResult
  PROVE  metric' \in [Replicas -> {"none", "yes", "no"}]
<1> QED
    BY DEF TypeOK, UpdateResult

\* A request is one of an action's.
LEMMA RequestHasAction ==
  ASSUME TypeInv, NEW q \in plan
  PROVE  \E a \in ActionNames : q \in Elements(Requests(a))
  BY DEF TypeInv, TypeOK, AllRequests

\* A request that is applied stores values that were read, and can disturb.
LEMMA ApplyType ==
  ASSUME TypeInv, NEW q \in plan, Apply(q), current \in Replicas
  PROVE  replica' \in [Replicas -> Settings] /\ unplanned' \in SUBSET AllParts
<1>1. \A p \in Sets(q) : Sent(q, p) \in Values
      BY DEF TypeInv, PlanIsRead
<1>2. replica[current] \in Settings
      BY DEF TypeInv, TypeOK
<1>3. Result(q) \in Settings
      BY <1>1, <1>2 DEF Result, Settings
<1>4. \A f \in Settings :
        [replica EXCEPT ![current] = f] \in [Replicas -> Settings]
      BY DEF TypeInv, TypeOK
<1>5. CASE replica' = [replica EXCEPT ![current] = Result(q)] /\ UNCHANGED unplanned
      BY <1>3, <1>4, <1>5 DEF TypeInv, TypeOK
<1>6. ASSUME NEW p \in Disturbs(q), NEW v \in Values, ApplyAndDisturb(q, p, v)
      PROVE  replica' \in [Replicas -> Settings] /\ unplanned' \in SUBSET AllParts
  <2>1. PICK a \in ActionNames : q \in Elements(Requests(a))
        BY RequestHasAction
  <2>2. p \in AllParts
        BY <2>1, DisturbedIsPart DEF AllParts
  <2>3. [Result(q) EXCEPT ![p] = v] \in Settings
        BY <1>3, <2>2 DEF Settings
  <2>4. replica' = [replica EXCEPT ![current] = [Result(q) EXCEPT ![p] = v]]
          /\ unplanned' = unplanned \cup {p}
        BY <1>6 DEF ApplyAndDisturb
  <2> QED
      BY <1>4, <2>2, <2>3, <2>4 DEF TypeInv, TypeOK
<1> QED
    BY <1>5, <1>6 DEF Apply

\* What is due has been read, with all that its request sends.
LEMMA DueIsRead ==
  ASSUME TypeInv, NEW a \in ActionNames, NEW q \in Plan(a, Due(a)), NEW p \in Sets(q)
  PROVE  Sent(q, p) \in Values
<1>1. q \in Due(a)
      BY PlanIsDue, SetsOf
<1>2. q \in AllParts /\ snapshot[q] # NotRead
      BY <1>1 DEF Due, AllParts
<1>3. CASE q = DNSConfig /\ p = Protection
  <2>1. snapshot[DNSProtection] # NotRead
        BY <1>2, <1>3 DEF TypeInv, DNSIsRead
  <2> QED
      BY <1>3, <2>1 DEF Sent, TypeInv, TypeOK, Held
<1>4. CASE ~(q = DNSConfig /\ p = Protection)
  <2>1. p = q
        BY <1>4, SetsOf
  <2> QED
      BY <1>2, <1>4, <2>1 DEF Sent, TypeInv, TypeOK, Held
<1> QED
    BY <1>3, <1>4

\* The actions.
LEMMA ActionStepType == TypeInv /\ ActionStep => TypeInv'
<1> SUFFICES ASSUME TypeInv, ActionStep
             PROVE  TypeInv'
    OBVIOUS
<1> USE DEF peers, local, passwide, bounds
<1>1. pc \in {"actions", "requests"} => current \in Replicas
      BY DEF TypeInv, TypeOK, InSyncTo
<1>2. ASSUME NEW a \in acts, BeginAction(a) PROVE TypeInv'
  <2>1. a \in ActionNames
        BY DEF TypeInv, TypeOK
  <2>2. plan' \subseteq AllRequests
        BY <1>2, <2>1, PlanIsDue DEF BeginAction
  <2>3. plan' = Plan(a, Due(a)) /\ UNCHANGED <<passwide, unplanned>>
        BY <1>2 DEF BeginAction
  <2>4. \A q \in plan' : \A p \in Sets(q) : Sent(q, p)' \in Values
        BY <2>1, <2>3, DueIsRead DEF Sent
  <2>5. pc' \in {"actions", "requests"} /\ (pc' # "requests" => plan' = {})
        BY <1>2 DEF BeginAction
  <2>6. faults' \in 0..MaxFaults
        BY <1>2, FaultType DEF BeginAction, TypeInv
  <2> QED
      BY <1>1, <1>2, <2>2, <2>4, <2>5, <2>6
         DEF BeginAction, TypeInv, TypeOK, PlanIsRead, DNSIsRead, InSyncTo
\* The steps after a failed request.
<1>3. ASSUME pc \in {"actions", "requests"}, faults' \in 0..MaxFaults,
             replica' \in [Replicas -> Settings],
             unplanned' \in SUBSET AllParts,
             acts' \in SUBSET ActionNames, erred' = TRUE,
             UNCHANGED <<cfg, origin, installed, metric, passwide, current, status, edits>>,
             \/ ActionError
             \/ /\ plan' \subseteq plan
                /\ pc' = IF plan' = {} THEN "actions" ELSE "requests"
                /\ UNCHANGED withError
      PROVE  TypeInv'
  <2> USE <1>3
  <2>1. withError' \in BOOLEAN
    <3>1. withError' = TRUE \/ withError' = withError
          BY DEF ActionError
    <3> QED
        BY <3>1, Zenon DEF TypeInv, TypeOK
  <2>2. erred' \in BOOLEAN
        BY Zenon
  <2>3. /\ pc' \in {"actions", "requests", "report"}
        /\ plan' \subseteq plan
        /\ pc' # "requests" => plan' = {}
        BY DEF ActionError
  <2> QED
      BY <1>1, <2>1, <2>2, <2>3 DEF TypeInv, TypeOK, PlanIsRead, DNSIsRead, Sent, InSyncTo
<1>4. ASSUME NEW a \in acts, ReadReplicaFails(a) PROVE TypeInv'
      BY <1>3, <1>4, FaultType DEF ReadReplicaFails, TypeInv, TypeOK
<1>5. ASSUME NEW q \in plan, RequestSucceeds(q) PROVE TypeInv'
  <2>1. pc = "requests" /\ current \in Replicas
        BY <1>1, <1>5 DEF RequestSucceeds, NextRequest
  <2>2. replica' \in [Replicas -> Settings] /\ unplanned' \in SUBSET AllParts
        BY <1>5, <2>1, ApplyType DEF RequestSucceeds
  <2>3. faults' \in 0..MaxFaults
        BY <1>5, FaultType DEF RequestSucceeds, TypeInv
  <2>4. pc' \in {"actions", "requests"} /\ plan' \subseteq plan
        BY <1>5 DEF RequestSucceeds
  <2> QED
      BY <1>5, <2>1, <2>2, <2>3, <2>4
         DEF RequestSucceeds, TypeInv, TypeOK, PlanIsRead, DNSIsRead, Sent, InSyncTo
<1>6. ASSUME NEW q \in plan, RequestFails(q) \/ AnswerLost(q) PROVE TypeInv'
  <2>1. pc = "requests" /\ current \in Replicas
        BY <1>1, <1>6 DEF RequestFails, AnswerLost, NextRequest
  <2>2. faults' \in 0..MaxFaults
        BY <1>6, FaultType DEF RequestFails, AnswerLost, TypeInv
  <2>3. replica' \in [Replicas -> Settings] /\ unplanned' \in SUBSET AllParts
        BY <1>6, <2>1, ApplyType DEF RequestFails, AnswerLost, TypeInv, TypeOK
  <2>4. AfterError(q)
        BY <1>6 DEF RequestFails, AnswerLost
  <2>5. \/ ActionError
        \/ /\ plan' \subseteq plan
           /\ pc' = IF plan' = {} THEN "actions" ELSE "requests"
           /\ UNCHANGED withError
        BY <2>4 DEF AfterError
  <2>6. acts' \in SUBSET ActionNames
        BY <2>4 DEF AfterError, TypeInv, TypeOK
  <2> QED
      BY <1>3, <2>1, <2>2, <2>3, <2>4, <2>5, <2>6 DEF AfterError
<1>7. CASE LastAction
      BY <1>1, <1>7 DEF LastAction, TypeInv, TypeOK, PlanIsRead, DNSIsRead, Sent, InSyncTo
<1>8. CASE Panic
      BY <1>8, MetricType, FaultType, EndPassType DEF Panic, TypeInv, TypeOK
<1> QED
    BY <1>2, <1>4, <1>5, <1>6, <1>7, <1>8 DEF ActionStep

\* Every step.
LEMMA TypeStep == TypeInv /\ [Next]_vars => TypeInv'
<1> SUFFICES ASSUME TypeInv, [Next]_vars
             PROVE  TypeInv'
    OBVIOUS
<1> USE DEF peers, local, passwide, bounds
<1>1. CASE Report
  <2>1. withError' \in BOOLEAN /\ erred' \in BOOLEAN
        BY <1>1, Zenon DEF Report, ClearLocals
  <2>2. metric' \in [Replicas -> {"none", "yes", "no"}]
        BY <1>1, MetricType DEF Report, TypeInv
  <2>3. pc' = "replicas" /\ pc' \notin InSyncTo
        BY <1>1 DEF Report, InSyncTo
  <2> QED
      BY <1>1, <2>1, <2>2, <2>3
         DEF Report, ClearLocals, TypeInv, TypeOK, PlanIsRead, DNSIsRead
<1>2. CASE Kill
  <2>1. metric' \in [Replicas -> {"none", "yes", "no"}]
        BY <1>2 DEF Kill
  <2> QED
      BY <1>2, <2>1, FaultType, EndPassType DEF Kill, TypeInv, TypeOK
<1>3. ASSUME NEW p \in Editable, NEW v \in Values, EditOrigin(p, v)
      PROVE  TypeInv'
  <2>1. edits' \in 0..MaxEdits
        BY <1>3, SyncPassAssumption DEF EditOrigin, TypeInv, TypeOK
  <2>2. origin' \in Settings
        BY <1>3 DEF EditOrigin, TypeInv, TypeOK, Settings
  <2> QED
      BY <1>3, <2>1, <2>2 DEF EditOrigin, TypeInv, TypeOK, PlanIsRead, DNSIsRead, Sent
<1>4. ASSUME NEW r \in Replicas, NEW p \in ReplicaEditable, NEW v \in Values,
             EditReplica(r, p, v)
      PROVE  TypeInv'
  <2>1. edits' \in 0..MaxEdits
        BY <1>4, SyncPassAssumption DEF EditReplica, TypeInv, TypeOK
  <2>2. replica' \in [Replicas -> Settings] /\ unplanned' \in SUBSET AllParts
    <3>1. p \in AllParts
          BY SyncPassAssumption
    <3>2. [replica[r] EXCEPT ![p] = v] \in Settings
          BY <3>1 DEF TypeInv, TypeOK, Settings
    <3>3. replica' = [replica EXCEPT ![r] = [replica[r] EXCEPT ![p] = v]]
          BY <1>4 DEF EditReplica, TypeInv, TypeOK
    <3>4. unplanned' \in {unplanned, unplanned \cup {p}}
          BY <1>4 DEF EditReplica
    <3> QED
        BY <3>1, <3>2, <3>3, <3>4 DEF TypeInv, TypeOK
  <2> QED
      BY <1>4, <2>1, <2>2 DEF EditReplica, TypeInv, TypeOK, PlanIsRead, DNSIsRead, Sent
<1>5. CASE UNCHANGED vars
      BY <1>5 DEF vars, TypeInv, TypeOK, PlanIsRead, DNSIsRead, Sent
<1> QED
    BY <1>1, <1>2, <1>3, <1>4, <1>5, OriginStepType, ReplicaStepType, ActionStepType
       DEF Next, Pass

(* Type correctness of a pass.                                             *)
THEOREM TypeCorrect == Spec => []TypeOK
<1>1. TypeInv => TypeOK
      BY DEF TypeInv
<1> QED
    BY <1>1, TypeInit, TypeStep, PTL DEF Spec

-----------------------------------------------------------------------------
(* Errors.  Without ContinueOnError a failed request sends syncTo to its    *)
(* deferred function at once.                                               *)

ErrorInv ==
  /\ erred /\ ~cfg.continueOnError => pc = "report" /\ withError
  /\ withError => erred

\* After the loop over the actions, and after a pass, no error is pending.
LEMMA ErrorStep == TypeInv /\ ErrorInv /\ [Next]_vars => ErrorInv'
<1> SUFFICES ASSUME TypeInv, ErrorInv, [Next]_vars
             PROVE  ErrorInv'
    OBVIOUS
<1> USE DEF ErrorInv, peers, local, passwide, bounds
<1>1. ASSUME EndPass
      PROVE  ErrorInv'
      BY <1>1 DEF EndPass, ClearLocals
\* Steps that leave the errors alone, except from the report.
<1>2. ASSUME UNCHANGED <<cfg, withError, erred>>, pc # "report" \/ pc' = pc
      PROVE  ErrorInv'
      BY <1>2
<1>3. CASE StartPass
      BY <1>2, <1>3 DEF StartPass
<1>4. CASE OriginStep
  <2>1. ASSUME NEW s \in toRead, ReadOrigin(s) PROVE ErrorInv'
        BY <1>2, <2>1 DEF ReadOrigin, NextRead
  <2>2. ASSUME NEW s \in toRead, ReadOriginFails(s) PROVE ErrorInv'
        BY <1>1, <2>2 DEF ReadOriginFails
  <2>3. CASE OriginOutdated
        BY <1>1, <2>3 DEF OriginOutdated
  <2>4. CASE ProfileUnauthorized
        BY <1>2, <2>4 DEF ProfileUnauthorized, NextRead
  <2> QED
      BY <1>4, <2>1, <2>2, <2>3, <2>4 DEF OriginStep
<1>5. CASE ReplicaStep
  <2>1. GiveUp /\ UNCHANGED cfg => ErrorInv'
        BY DEF GiveUp
  <2>2. ASSUME NEW r \in todo, NoClient(r) \/ Connect(r) PROVE ErrorInv'
        BY <1>2, <2>2 DEF NoClient, Connect
  <2>3. CASE ReplicaStatus
        BY <1>2, <2>1, <2>3 DEF ReplicaStatus, Accept
  <2>4. CASE Setup
        BY <1>2, <2>1, <2>4 DEF Setup
  <2>5. CASE StatusAfterSetup
        BY <1>2, <2>1, <2>5 DEF StatusAfterSetup, Accept
  <2>6. CASE StatusFails
        BY <2>1, <2>6 DEF StatusFails
  <2> QED
      BY <1>5, <2>2, <2>3, <2>4, <2>5, <2>6 DEF ReplicaStep
<1>6. CASE ActionStep
  <2>1. ASSUME ActionError, erred' = TRUE, UNCHANGED cfg PROVE ErrorInv'
        BY <2>1 DEF ActionError
  <2>2. ASSUME NEW a \in acts, BeginAction(a) PROVE ErrorInv'
        BY <1>2, <2>2 DEF BeginAction
  <2>3. ASSUME NEW a \in acts, ReadReplicaFails(a) PROVE ErrorInv'
        BY <2>1, <2>3 DEF ReadReplicaFails
  <2>4. ASSUME NEW q \in plan, RequestSucceeds(q) PROVE ErrorInv'
        BY <1>2, <2>4 DEF RequestSucceeds, NextRequest
  <2>5. ASSUME NEW q, AfterError(q) PROVE ErrorInv'
        BY <2>1, <2>5 DEF AfterError
  <2>6. CASE LastAction
        BY <1>2, <2>6 DEF LastAction
  <2>7. CASE Panic
        BY <1>1, <2>7 DEF Panic
  <2> QED
      BY <1>6, <2>2, <2>3, <2>4, <2>5, <2>6, <2>7
         DEF ActionStep, RequestFails, AnswerLost
<1>7. CASE Report
      BY <1>7 DEF Report, ClearLocals
<1>8. CASE FinishPass \/ Kill
      BY <1>1, <1>8 DEF FinishPass, Kill
<1>9. ASSUME NEW p, NEW v, EditOrigin(p, v) PROVE ErrorInv'
      BY <1>2, <1>9 DEF EditOrigin
<1>10. ASSUME NEW r, NEW p, NEW v, EditReplica(r, p, v) PROVE ErrorInv'
      BY <1>2, <1>10 DEF EditReplica
<1>11. CASE UNCHANGED vars
      BY <1>2, <1>11 DEF vars
<1> QED
    BY <1>3, <1>4, <1>5, <1>6, <1>7, <1>8, <1>9, <1>10, <1>11 DEF Next, Pass

(* Without ContinueOnError every error reaches the reported result.        *)
THEOREM ErrorsReported == Spec => []ErrorsAreReported
<1>1. Init => TypeInv /\ ErrorInv
      BY TypeInit DEF Init, ErrorInv
<1>2. TypeInv /\ ErrorInv => ErrorsAreReported
      BY DEF ErrorInv, ErrorsAreReported, TypeInv, TypeOK
<1> QED
    BY <1>1, <1>2, TypeStep, ErrorStep, PTL DEF Spec

\* But for edits, only the requests of an action change a replica.
LEMMA OnlyRequestsWrite ==
  ASSUME TypeInv, [Next]_vars, replica' # replica, edits' = edits
  PROVE  /\ pc = "requests"
         /\ \E q \in plan : Apply(q)
<1> USE DEF peers, local, passwide, bounds
<1>1. ~(StartPass \/ OriginStep \/ ReplicaStep \/ Report \/ FinishPass \/ Kill)
      BY DEF StartPass, OriginStep, ReadOrigin, ReadOriginFails, OriginOutdated,
         ProfileUnauthorized, ReplicaStep, NoClient, Connect, ReplicaStatus,
         Setup, StatusAfterSetup, StatusFails, Report, FinishPass, Kill
<1>2. /\ ~UNCHANGED vars /\ \A p, v : ~EditOrigin(p, v)
      /\ \A r, p, v : ~EditReplica(r, p, v)
  <2>1. edits # edits + 1
        BY SyncPassAssumption DEF TypeInv, TypeOK
  <2> QED
      BY <2>1 DEF vars, EditOrigin, EditReplica
<1>3. ActionStep
      BY <1>1, <1>2 DEF Next, Pass
<1>4. \E q \in plan : RequestSucceeds(q) \/ AnswerLost(q)
      BY <1>3 DEF ActionStep, BeginAction, ReadReplicaFails, RequestFails,
         LastAction, Panic
<1> QED
    BY <1>4 DEF RequestSucceeds, AnswerLost, NextRequest

(* Without ContinueOnError nothing is written to a replica after an error.  *)
THEOREM StopsAfterError == Spec => StopsAtFirstError
<1>1. Init => TypeInv /\ ErrorInv
      BY TypeInit DEF Init, ErrorInv
<1>2. TypeInv /\ ErrorInv /\ [Next]_vars
        => [~cfg.continueOnError /\ erred => UNCHANGED replica \/ edits' # edits]_vars
      BY OnlyRequestsWrite DEF ErrorInv
<1> QED
    BY <1>1, <1>2, TypeStep, ErrorStep, PTL DEF Spec, StopsAtFirstError
-----------------------------------------------------------------------------
(* Gating.  The position of a pass tells what it has read and checked.     *)

GateInv ==
  /\ pc # "idle" => "status" \in toRead \/ Origin \notin cfg.outdated
  /\ pc \in InSyncTo \cup {"replicas"} => toRead = {}
  /\ pc \in {"restatus", "actions", "requests"} => current \in installed
  /\ pc \in {"actions", "requests"} =>
       current \notin cfg.outdated /\ acts \subseteq SetupActions(cfg.features)
  /\ \A q \in plan :
       /\ \E a \in SetupActions(cfg.features) : q \in Elements(Requests(a))
       /\ q \in Refreshes \/ q \notin cfg.neverSent

\* A part that is set is not one that is never sent, and the other way round.
LEMMA EnabledIs ==
  /\ \A p \in Enabled : p \notin cfg.neverSent
  /\ \A a \in SetupActions(cfg.features) : \A q \in Parts(a) :
       \A p \in Sets(q) : p \notin cfg.neverSent => p \in Enabled
<1>1. ASSUME NEW p \in Enabled PROVE p \notin cfg.neverSent
      BY DEF Enabled
<1>2. ASSUME NEW a \in SetupActions(cfg.features), NEW q \in Parts(a),
             NEW p \in Sets(q), p \notin cfg.neverSent
      PROVE  p \in Enabled
  <2>1. p \in SetBy(a)
        BY <1>2 DEF SetBy
  <2> QED
      BY <1>2, <2>1 DEF Enabled
<1> QED
    BY <1>1, <1>2

\* What is planned sets and disturbs only parts of the enabled features.
LEMMA PlanIsEnabled ==
  ASSUME TypeInv, GateInv, NEW q \in plan
  PROVE  Sets(q) \cup Disturbs(q) \subseteq Enabled
<1>1. cfg.neverSent \subseteq {DHCPConfig}
      BY SyncPassAssumption DEF TypeInv, TypeOK, Config
<1>2. PICK a \in SetupActions(cfg.features) : q \in Elements(Requests(a))
      BY DEF GateInv
<1>3. \A p \in Parts(a) : \A x \in Sets(p) : x \notin cfg.neverSent => x \in Enabled
      BY <1>2, EnabledIs
<1>4. ASSUME NEW p \in Sets(q) PROVE p \in Enabled
  <2>1. q \in Parts(a) /\ q \notin cfg.neverSent /\ (p = q \/ p = Protection)
        BY <1>2, <1>4, SetsOf DEF GateInv, Parts
  <2>2. Protection # DHCPConfig
        BY DEF Protection, DHCPConfig
  <2>3. p \notin cfg.neverSent
        BY <1>1, <2>1, <2>2
  <2> QED
      BY <1>3, <1>4, <2>1, <2>3
<1>5. ASSUME NEW p \in Disturbs(q) PROVE p \in Enabled
  <2>1. p \in Parts(a) /\ p[2] # "set"
        BY <1>2, DisturbedIsPart
  <2>2. DHCPConfig[2] = "set" /\ DNSConfig[2] = "set"
        BY DEF DHCPConfig, DNSConfig
  <2>3. p \notin cfg.neverSent /\ p \in Sets(p)
        BY <1>1, <2>1, <2>2, SetsOf DEF Parts
  <2> QED
      BY <1>3, <2>1, <2>3
<1> QED
    BY <1>4, <1>5

\* The DNS config is sent when its feature is enabled.
LEMMA DNSIsEnabled ==
  ASSUME GateInv, DNSConfig \in plan
  PROVE  "DNS.ServerConfig" \in cfg.features
<1>1. PICK a \in SetupActions(cfg.features) : DNSConfig \in Elements(Requests(a))
      BY DEF GateInv
<1>2. a = "DNS server config"
      BY <1>1, SinglesAreTheirOwn DEF DNSConfig, Singles
<1>3. Feature("DNS server config") = "DNS.ServerConfig"
      BY DEF Feature
<1> QED
    BY <1>1, <1>2, <1>3 DEF SetupActions

\* Every pass reads the status of the origin.
LEMMA StatusIsRead ==
  ASSUME NEW f
  PROVE  "status" \in OriginReads(f)
<1>1. ReadOrder[1] = "status" /\ 1 \in DOMAIN ReadOrder
      BY DEF ReadOrder
<1> QED
    BY <1>1 DEF OriginReads, Reads, Elements

\* The reads from the origin: the status is read only from one that is not
\* outdated.
LEMMA OriginStepGate ==
  TypeInv /\ GateInv /\ (StartPass \/ OriginStep \/ FinishPass) => GateInv'
<1> SUFFICES ASSUME TypeInv, GateInv, StartPass \/ OriginStep \/ FinishPass
             PROVE  GateInv'
    OBVIOUS
<1> USE DEF peers, local, passwide, bounds
<1>1. plan = {} \/ pc = "requests"
      BY DEF TypeInv, PlanIsRead
<1>2. ASSUME EndPass PROVE GateInv'
      BY <1>2 DEF EndPass, ClearLocals, GateInv, InSyncTo
<1>3. ASSUME NEW s, NextRead(s), pc = "origin", cfg' = cfg,
             s = "status" => Origin \notin cfg.outdated
      PROVE  GateInv'
  <2>1. plan' = {}
        BY <1>1, <1>3 DEF NextRead
  <2>2. pc' \in {"origin", "replicas"} /\ (pc' = "replicas" => toRead' = {})
        BY <1>3 DEF NextRead
  <2>3. "status" \in toRead' \/ Origin \notin cfg'.outdated
        BY <1>3 DEF NextRead, GateInv
  <2> QED
      BY <2>1, <2>2, <2>3 DEF GateInv, InSyncTo
<1>4. CASE StartPass
  <2>1. pc' = "origin" /\ plan' = {} /\ "status" \in toRead'
        BY <1>1, <1>4, StatusIsRead DEF StartPass
  <2> QED
      BY <2>1 DEF GateInv, InSyncTo
<1>5. ASSUME NEW s \in toRead, ReadOrigin(s) \/ ReadOriginFails(s) PROVE GateInv'
      BY <1>2, <1>3, <1>5 DEF ReadOrigin, ReadOriginFails
<1>6. CASE OriginOutdated \/ FinishPass
      BY <1>2, <1>6 DEF OriginOutdated, FinishPass
<1>7. CASE ProfileUnauthorized
      BY <1>3, <1>7 DEF ProfileUnauthorized
<1> QED
    BY <1>4, <1>5, <1>6, <1>7 DEF OriginStep

\* The way into the actions: a replica that is set up and not outdated.
LEMMA ReplicaStepGate == TypeInv /\ GateInv /\ ReplicaStep => GateInv'
<1> SUFFICES ASSUME TypeInv, GateInv, ReplicaStep
             PROVE  GateInv'
    OBVIOUS
<1> USE DEF peers, local, passwide, bounds
<1>1. pc # "requests" => plan = {}
      BY DEF TypeInv, PlanIsRead
<1>2. ASSUME pc \in {"status", "setup", "restatus"},
             UNCHANGED <<cfg, toRead, current>>, GiveUp
      PROVE  GateInv'
      BY <1>1, <1>2 DEF GiveUp, GateInv, InSyncTo
<1>3. ASSUME pc \in {"status", "restatus"}, current \in installed,
             UNCHANGED <<cfg, toRead, current, installed>>, Accept
      PROVE  GateInv'
      BY <1>1, <1>3 DEF Accept, GateInv, InSyncTo
<1>4. ASSUME NEW r \in todo, NoClient(r) PROVE GateInv'
      BY <1>1, <1>4 DEF NoClient, GateInv, InSyncTo
<1>5. ASSUME NEW r \in todo, Connect(r) PROVE GateInv'
      BY <1>1, <1>5 DEF Connect, GateInv, InSyncTo
<1>6. CASE ReplicaStatus
  <2>1. CASE pc' = "setup" /\ plan' = plan
        BY <1>1, <1>6, <2>1 DEF ReplicaStatus, GateInv, InSyncTo
  <2> QED
      BY <1>2, <1>3, <1>6, <2>1 DEF ReplicaStatus
<1>7. CASE Setup
  <2>1. CASE pc' = "restatus" /\ plan' = plan
        BY <1>1, <1>7, <2>1 DEF Setup, GateInv, InSyncTo
  <2> QED
      BY <1>2, <1>7, <2>1 DEF Setup
<1>8. CASE StatusAfterSetup
  <2>1. current \in installed
        BY <1>8 DEF StatusAfterSetup, GateInv
  <2> QED
      BY <1>2, <1>3, <1>8, <2>1 DEF StatusAfterSetup
<1>9. CASE StatusFails
      BY <1>2, <1>9 DEF StatusFails
<1> QED
    BY <1>4, <1>5, <1>6, <1>7, <1>8, <1>9 DEF ReplicaStep

\* The actions plan only what a feature enables.
LEMMA ActionStepGate == TypeInv /\ GateInv /\ ActionStep => GateInv'
<1> SUFFICES ASSUME TypeInv, GateInv, ActionStep
             PROVE  GateInv'
    OBVIOUS
<1> USE DEF peers, local, passwide, bounds
\* The steps that stay in syncTo and plan nothing new.
<1>1. ASSUME pc \in {"actions", "requests"},
             pc' \in {"actions", "requests", "report"},
             acts' \subseteq acts, plan' \subseteq plan,
             UNCHANGED <<cfg, toRead, current, installed>>
      PROVE  GateInv'
      BY <1>1 DEF GateInv, InSyncTo, Enabled
<1>2. ASSUME NEW a \in acts, BeginAction(a) PROVE GateInv'
  <2>1. a \in SetupActions(cfg.features) /\ a \in ActionNames
        BY <1>2 DEF BeginAction, GateInv, SetupActions
  <2>2. \A q \in plan' : q \in Elements(Requests(a)) /\ (q \in Refreshes \/ q \in Due(a))
        BY <1>2, <2>1, PlanIsDue DEF BeginAction
  <2>3. \A q \in plan' : /\ \E b \in SetupActions(cfg'.features) : q \in Elements(Requests(b))
                         /\ q \in Refreshes \/ q \notin cfg'.neverSent
        BY <1>2, <2>1, <2>2 DEF BeginAction, Due
  <2> QED
      BY <1>2, <2>3 DEF BeginAction, GateInv, InSyncTo
<1>3. ASSUME NEW a \in acts, ReadReplicaFails(a) PROVE GateInv'
      BY <1>1, <1>3 DEF ReadReplicaFails, ActionError
<1>4. ASSUME NEW q \in plan, RequestSucceeds(q) PROVE GateInv'
      BY <1>1, <1>4 DEF RequestSucceeds, NextRequest
<1>5. ASSUME NEW q \in plan, RequestFails(q) \/ AnswerLost(q) PROVE GateInv'
  <2>1. pc = "requests" /\ AfterError(q)
        BY <1>5 DEF RequestFails, AnswerLost, NextRequest
  <2> QED
      BY <1>1, <2>1 DEF AfterError, ActionError
<1>6. CASE LastAction
      BY <1>1, <1>6 DEF LastAction
<1>7. CASE Panic
      BY <1>7 DEF Panic, EndPass, ClearLocals, GateInv, InSyncTo
<1> QED
    BY <1>2, <1>3, <1>4, <1>5, <1>6, <1>7 DEF ActionStep

\* Every step.
LEMMA GateStep == TypeInv /\ GateInv /\ [Next]_vars => GateInv'
<1> SUFFICES ASSUME TypeInv, GateInv, [Next]_vars
             PROVE  GateInv'
    OBVIOUS
<1> USE DEF peers, local, passwide, bounds
<1>1. CASE Report
      BY <1>1 DEF Report, ClearLocals, GateInv, InSyncTo
<1>2. CASE Kill
      BY <1>2 DEF Kill, EndPass, ClearLocals, GateInv, InSyncTo
<1>3. ASSUME NEW p, NEW v, EditOrigin(p, v) PROVE GateInv'
      BY <1>3 DEF EditOrigin, GateInv, InSyncTo
<1>4. ASSUME NEW r, NEW p, NEW v, EditReplica(r, p, v) PROVE GateInv'
      BY <1>4 DEF EditReplica, GateInv, InSyncTo
<1>5. CASE UNCHANGED vars
      BY <1>5 DEF vars, GateInv, InSyncTo
<1> QED
    BY <1>1, <1>2, <1>3, <1>4, <1>5, OriginStepGate, ReplicaStepGate, ActionStepGate
       DEF Next, Pass

\* A request changes the current replica, as it says but for what it disturbs.
LEMMA ApplyEffect ==
  ASSUME TypeInv, NEW q \in plan, Apply(q), current \in Replicas
  PROVE  /\ unplanned \subseteq unplanned'
         /\ \A r \in Replicas : r # current => replica'[r] = replica[r]
         /\ \A p \in AllParts : \/ replica'[current][p] = Result(q)[p]
                                \/ p \in Disturbs(q) /\ p \in unplanned'
<1>1. replica \in [Replicas -> Settings]
      BY DEF TypeInv, TypeOK
<1>2. CASE replica' = [replica EXCEPT ![current] = Result(q)] /\ UNCHANGED unplanned
      BY <1>1, <1>2
<1>3. ASSUME NEW d \in Disturbs(q), NEW v \in Values, ApplyAndDisturb(q, d, v)
      PROVE  /\ unplanned \subseteq unplanned'
             /\ \A r \in Replicas : r # current => replica'[r] = replica[r]
             /\ \A p \in AllParts : \/ replica'[current][p] = Result(q)[p]
                                    \/ p \in Disturbs(q) /\ p \in unplanned'
  <2>1. replica' = [replica EXCEPT ![current] = [Result(q) EXCEPT ![d] = v]]
          /\ unplanned' = unplanned \cup {d}
        BY <1>3 DEF ApplyAndDisturb
  <2>2. replica'[current] = [Result(q) EXCEPT ![d] = v]
        BY <1>1, <2>1
  <2>3. \A p \in AllParts : p # d => replica'[current][p] = Result(q)[p]
        BY <2>2 DEF Result
  <2> QED
      BY <1>1, <2>1, <2>3
<1> QED
    BY <1>2, <1>3 DEF Apply

(* But for edits, a replica is written only in syncTo for it, after the    *)
(* whole origin was read and both versions were checked, and gets parts    *)
(* that the requests of enabled features set, with what was read, or that  *)
(* a request on a list has put out of step.                                *)
THEOREM WritesGated == Spec => WritesAreGated
<1>1. Init => TypeInv /\ GateInv
      BY TypeInit DEF Init, GateInv, InSyncTo
<1>2. ASSUME TypeInv, GateInv, [Next]_vars, NEW r \in Replicas,
             replica'[r] # replica[r], UNCHANGED edits
      PROVE  /\ r = current /\ r \in installed /\ toRead = {}
             /\ {r, Origin} \cap cfg.outdated = {}
             /\ \A p \in AllParts : replica'[r][p] # replica[r][p] =>
                  /\ p \in Enabled
                  /\ replica'[r][p] \in {snapshot[p], Wanted(p)} \/ p \in unplanned'
  <2>1. pc = "requests"
        BY <1>2, OnlyRequestsWrite
  <2>2. PICK q \in plan : Apply(q)
        BY <1>2, OnlyRequestsWrite
  <2>3. current \in Replicas
        BY <1>2, <2>1 DEF TypeInv, TypeOK, InSyncTo
  <2>4. r = current
        BY <1>2, <2>2, <2>3, ApplyEffect
  <2>5. /\ r \in installed /\ toRead = {}
        /\ {r, Origin} \cap cfg.outdated = {}
        BY <1>2, <2>1, <2>4 DEF GateInv, InSyncTo
  <2>6. Sets(q) \cup Disturbs(q) \subseteq Enabled
        BY <1>2, <2>2, PlanIsEnabled
  <2>7. ASSUME NEW p \in AllParts, replica'[r][p] # replica[r][p]
        PROVE  /\ p \in Enabled
               /\ replica'[r][p] \in {snapshot[p], Wanted(p)} \/ p \in unplanned'
    <3>1. CASE p \in Disturbs(q) /\ p \in unplanned'
          BY <2>6, <3>1
    <3>2. CASE replica'[r][p] = Result(q)[p]
      <4>1. p \in Sets(q) /\ replica'[r][p] = Sent(q, p)
            BY <2>4, <2>7, <3>2 DEF Result
      <4> SUFFICES replica'[r][p] \in {snapshot[p], Wanted(p)}
          BY <2>6, <4>1
      <4>2. CASE q = DNSConfig /\ p = Protection
        <5>1. "DNS.ServerConfig" \in cfg.features
              BY <1>2, <2>2, <4>2, DNSIsEnabled
        <5>2. Sent(q, p) = snapshot[DNSProtection] /\ Wanted(p) = snapshot[DNSProtection]
              BY <4>2, <5>1 DEF Sent, Wanted
        <5> QED
            BY <4>1, <5>2
      <4>3. CASE ~(q = DNSConfig /\ p = Protection)
        <5>1. Sent(q, p) = snapshot[p]
              BY <4>3 DEF Sent
        <5> QED
            BY <4>1, <5>1
      <4> QED
          BY <4>2, <4>3
    <3> QED
        BY <1>2, <2>2, <2>3, <2>4, <3>1, <3>2, ApplyEffect
  <2> QED
      BY <2>4, <2>5, <2>7
<1>3. TypeInv /\ GateInv /\ [Next]_vars
        => [\A r \in Replicas : replica'[r] # replica[r] /\ UNCHANGED edits =>
              /\ r = current /\ r \in installed /\ toRead = {}
              /\ {r, Origin} \cap cfg.outdated = {}
              /\ \A p \in AllParts : replica'[r][p] # replica[r][p] =>
                   /\ p \in Enabled
                   /\ replica'[r][p] \in {snapshot[p], Wanted(p)} \/ p \in unplanned']_vars
      BY <1>2
<1> QED
    BY <1>1, <1>3, TypeStep, GateStep, PTL DEF Spec, WritesAreGated
-----------------------------------------------------------------------------
(* A pass without errors.  Every enabled part is still to be compared, or   *)
(* planned, or changed behind its comparison, or in step.  The protection   *)
(* can be sent twice: what the DNS config brings comes last.                *)

Unfinished == <<"filtering", "set">>
WithDNS == "DNS.ServerConfig" \in cfg.features

\* The parts with one action and one request.
PartsDone ==
  \A p \in Enabled \ {Unfinished, Protection} :
    (\E a \in acts : p \in Parts(a)) \/ p \in plan \/ p \in unplanned \/ InStep(p)

\* The protection, when the DNS config brings it.
DNSDone ==
  /\ "protection" \in acts \/ Protection \in plan => "DNS server config" \in acts
  /\ \/ "DNS server config" \in acts \/ DNSConfig \in plan
     \/ Protection \in unplanned \/ InStep(Protection)

\* The protection, when only its own request brings it: what it is compared
\* with is still what the replica has.
ProtectionDone ==
  /\ Protection \in Enabled =>
       \/ "protection" \in acts \/ Protection \in plan
       \/ Protection \in unplanned \/ InStep(Protection)
  /\ "protection" \in acts =>
       /\ Protection \notin plan
       /\ status = replica[current][Protection] \/ Protection \in unplanned

CleanInv ==
  /\ pc \in {"actions", "requests", "report"} /\ ~erred =>
       /\ PartsDone
       /\ IF WithDNS THEN DNSDone ELSE ProtectionDone
  /\ pc = "report" /\ ~erred => acts = {}

\* Where the parts of the enabled features come from.
LEMMA EnabledParts ==
  ASSUME NEW p \in Enabled
  PROVE  /\ p \in AllParts /\ p \notin Refreshes /\ p \notin cfg.neverSent
         /\ p # Protection =>
              \E a \in SetupActions(cfg.features) : p \in Parts(a)
         /\ p = Protection /\ ~WithDNS => "protection" \in SetupActions(cfg.features)
<1>1. PICK a \in SetupActions(cfg.features) : \E q \in Parts(a) : p \in Sets(q)
      BY DEF Enabled, SetBy
<1>2. PICK q \in Parts(a) : p \in Sets(q)
      BY <1>1
<1>3. q \notin Refreshes /\ a \in ActionNames
      BY <1>2 DEF Parts, SetupActions
<1>4. p = q \/ (q = DNSConfig /\ p = Protection)
      BY <1>2, <1>3, SetsOf
<1>5. p \in AllParts /\ p \notin Refreshes
      BY <1>2, <1>3, <1>4, ProtectionIsPart DEF AllParts
<1>6. p # Protection => p \in Parts(a)
      BY <1>2, <1>4
<1>7. ASSUME p = Protection, ~WithDNS PROVE "protection" \in SetupActions(cfg.features)
  <2>1. a # "DNS server config"
    <3>1. Feature("DNS server config") = "DNS.ServerConfig"
          BY DEF Feature
    <3> QED
        BY <1>7, <3>1 DEF SetupActions, WithDNS
  <2>2. q # DNSConfig
        BY <1>2, <2>1, SinglesAreTheirOwn DEF Parts, DNSConfig, Singles
  <2>3. Protection \in Elements(Requests(a))
        BY <1>2, <1>4, <1>7, <2>2 DEF Parts
  <2>4. a = "protection"
        BY <2>3, SinglesAreTheirOwn DEF Protection, Singles
  <2> QED
      BY <2>4
<1> QED
    BY <1>2, <1>5, <1>6, <1>7, EnabledIs

\* After the first two of the sixteen actions the second is an earlier one.
LEMMA SecondIsEarlier ==
  ASSUME NEW i \in 1..16, i # 1, i # 2
  PROVE  2 \in 1..(i - 1)
  OBVIOUS

LEMMA SixteenActions ==
  DOMAIN ActionOrder = 1..16
  BY DEF ActionOrder

\* The action of the protection comes before that of the DNS config.
LEMMA ProtectionComesFirst ==
  ASSUME First("DNS server config", acts, ActionOrder)
  PROVE  "protection" \notin acts
<1>1. PICK i \in DOMAIN ActionOrder :
        /\ ActionOrder[i] = "DNS server config"
        /\ \A j \in 1..(i - 1) : ActionOrder[j] \notin acts
      BY DEF First
<1>2. ActionOrder[1] = "profile info" /\ ActionOrder[2] = "protection"
      BY DEF ActionOrder
<1>3. i \in 1..16
      BY SixteenActions
<1>4. i # 1 /\ i # 2
      BY <1>1, <1>2
<1>5. 2 \in 1..(i - 1)
      BY <1>3, <1>4, SecondIsEarlier
<1> QED
    BY <1>1, <1>2, <1>5

\* A part that is due is planned, but for the one that can be left over.
LEMMA DueIsPlanned ==
  ASSUME NEW a, NEW due, NEW p \in Parts(a), p # Unfinished, p \in due
  PROVE  p \in Plan(a, due)
  BY DEF Plan, Parts, Unfinished

\* An action begins: what it finds equal is in step, the rest is planned.
LEMMA BeginActionClean ==
  ASSUME TypeInv, GateInv, CleanInv, NEW a \in acts, BeginAction(a)
  PROVE  CleanInv'
<1>1. /\ pc = "actions" /\ plan = {} /\ acts' = acts \ {a}
      /\ plan' = Plan(a, Due(a)) /\ pc' \in {"actions", "requests"}
      /\ UNCHANGED <<cfg, replica, snapshot, current, status, erred, unplanned>>
      /\ First(a, acts, ActionOrder)
      BY DEF BeginAction, TypeInv, PlanIsRead, peers, passwide
<1>2. a \in ActionNames
      BY DEF TypeInv, TypeOK
<1>3. Enabled' = Enabled /\ WithDNS' = WithDNS /\ \A p : InStep(p)' = InStep(p)
      BY <1>1 DEF Enabled, WithDNS, InStep, Wanted
<1> SUFFICES ASSUME ~erred
             PROVE  PartsDone' /\ (IF WithDNS THEN DNSDone' ELSE ProtectionDone')
    BY <1>1, <1>3 DEF CleanInv
<1>4. PartsDone /\ (IF WithDNS THEN DNSDone ELSE ProtectionDone)
      BY <1>1 DEF CleanInv
<1>5. ASSUME NEW p \in Enabled \ {Unfinished, Protection}
      PROVE  \/ \E b \in acts' : p \in Parts(b)
             \/ p \in plan' \/ p \in unplanned \/ InStep(p)
  <2>1. CASE p \in Parts(a)
    <3>1. CASE p \in Due(a)
          BY <1>1, <1>5, <2>1, <3>1, DueIsPlanned
    <3>2. CASE p \notin Due(a)
      <4>1. p \notin cfg.neverSent
            BY <1>5, EnabledIs
      <4>2. snapshot[p] = NotRead \/ snapshot[p] = Known(a, p)
            BY <2>1, <3>2, <4>1 DEF Due, Differs
      <4>3. a # "protection"
            BY <1>5, <2>1, SinglesAreTheirOwn DEF Singles, Protection
      <4>4. Known(a, p) = replica[current][p] /\ Wanted(p) = snapshot[p]
            BY <1>5, <4>3 DEF Known, Wanted
      <4> QED
          BY <4>2, <4>4 DEF InStep
    <3> QED
        BY <3>1, <3>2
  <2>2. CASE p \notin Parts(a)
        BY <1>1, <1>4, <1>5, <2>2 DEF PartsDone
  <2> QED
      BY <2>1, <2>2
<1>6. PartsDone'
      BY <1>1, <1>3, <1>5 DEF PartsDone
<1>7. a # "protection" => Protection \notin plan'
      BY <1>1, <1>2, PlanIsDue, SinglesAreTheirOwn DEF Protection, Singles
<1>8. ASSUME WithDNS PROVE DNSDone'
  <2>1. CASE a = "DNS server config"
    <3>1. "protection" \notin acts'
          BY <1>1, <2>1, ProtectionComesFirst
    <3>2. Protection \notin plan'
          BY <1>7, <2>1
    <3>3. DNSConfig \in Parts(a) /\ DNSConfig # Unfinished /\ DNSConfig \notin cfg.neverSent
      <4>1. cfg.neverSent \subseteq {DHCPConfig}
            BY SyncPassAssumption DEF TypeInv, TypeOK, Config
      <4>2. DNSConfig \in Parts(a)
            BY <2>1, SinglesAreTheirOwn DEF Singles, DNSConfig
      <4> QED
          BY <4>1, <4>2 DEF DNSConfig, DHCPConfig, Unfinished
    <3>4. CASE DNSConfig \in Due(a)
          BY <1>1, <3>1, <3>2, <3>3, <3>4, DueIsPlanned DEF DNSDone
    <3>5. CASE DNSConfig \notin Due(a)
      <4>1. \/ snapshot[DNSConfig] = NotRead
            \/ snapshot[DNSProtection] = replica[current][Protection]
            BY <3>3, <3>5 DEF Due, Differs
      <4>2. Wanted(Protection) \in {NotRead, replica[current][Protection]}
            BY <1>8, <4>1 DEF Wanted, WithDNS, TypeInv, DNSIsRead
      <4> QED
          BY <1>3, <3>1, <3>2, <4>2 DEF DNSDone, InStep
    <3> QED
        BY <3>4, <3>5
  <2>2. CASE a # "DNS server config"
    <3>1. DNSDone
          BY <1>4, <1>8
    <3>2. a = "protection" => "DNS server config" \in acts'
          BY <1>1, <2>2, <3>1 DEF DNSDone
    <3>3. "protection" \in acts' \/ Protection \in plan' => "DNS server config" \in acts'
          BY <1>1, <1>7, <2>2, <3>1, <3>2 DEF DNSDone
    <3>4. \/ "DNS server config" \in acts' \/ DNSConfig \in plan'
          \/ Protection \in unplanned' \/ InStep(Protection)'
          BY <1>1, <1>3, <2>2, <3>1 DEF DNSDone
    <3> QED
        BY <3>3, <3>4 DEF DNSDone
  <2> QED
      BY <2>1, <2>2
<1>9. ASSUME ~WithDNS PROVE ProtectionDone'
  <2>1. ProtectionDone
        BY <1>4, <1>9
  <2>2. "protection" \in acts' =>
          /\ Protection \notin plan'
          /\ status = replica[current][Protection] \/ Protection \in unplanned
        BY <1>1, <1>7, <2>1 DEF ProtectionDone
  <2>3. ASSUME Protection \in Enabled
        PROVE  \/ "protection" \in acts' \/ Protection \in plan'
               \/ Protection \in unplanned \/ InStep(Protection)
    <3>1. CASE a = "protection"
      <4>1. Protection \in Parts(a) /\ Protection # Unfinished
            BY <3>1, SinglesAreTheirOwn DEF Singles, Protection, Unfinished
      <4>2. CASE Protection \in Due(a)
            BY <1>1, <4>1, <4>2, DueIsPlanned
      <4>3. CASE Protection \notin Due(a)
        <5>1. Protection \notin cfg.neverSent
              BY <2>3, EnabledIs
        <5>2. snapshot[Protection] = NotRead \/ snapshot[Protection] = status
              BY <3>1, <4>1, <4>3, <5>1 DEF Due, Differs, Known
        <5>3. Wanted(Protection) = snapshot[Protection]
              BY <1>9 DEF Wanted, WithDNS
        <5>4. status = replica[current][Protection] \/ Protection \in unplanned
              BY <2>1, <3>1 DEF ProtectionDone
        <5> QED
            BY <5>2, <5>3, <5>4 DEF InStep
      <4> QED
          BY <4>2, <4>3
    <3>2. CASE a # "protection"
          BY <1>1, <2>1, <2>3, <3>2 DEF ProtectionDone
    <3> QED
        BY <3>1, <3>2
  <2> QED
      BY <1>1, <1>3, <2>2, <2>3 DEF ProtectionDone
<1> QED
    BY <1>6, <1>8, <1>9

\* A request that succeeds puts its parts in step, or they have changed behind
\* their comparison.
LEMMA RequestClean ==
  ASSUME TypeInv, GateInv, CleanInv, NEW q \in plan, RequestSucceeds(q)
  PROVE  CleanInv'
<1>1. /\ pc = "requests" /\ Apply(q) /\ plan' = plan \ {q}
      /\ pc' \in {"actions", "requests"}
      /\ UNCHANGED <<cfg, snapshot, current, status, acts, erred>>
      BY DEF RequestSucceeds, NextRequest, passwide
<1>2. current \in Replicas
      BY <1>1 DEF TypeInv, TypeOK, InSyncTo
<1>3. Enabled' = Enabled /\ WithDNS' = WithDNS /\ \A p : Wanted(p)' = Wanted(p)
      BY <1>1 DEF Enabled, WithDNS, Wanted
<1>4. /\ unplanned \subseteq unplanned'
      /\ \A p \in AllParts : replica'[current][p] = Result(q)[p] \/ p \in unplanned'
      BY <1>1, <1>2, ApplyEffect
\* A part that q does not set stays; one that q sets is in step.
<1>5. ASSUME NEW p \in AllParts, p \notin Sets(q), InStep(p)
      PROVE  p \in unplanned' \/ InStep(p)'
      BY <1>1, <1>3, <1>4, <1>5 DEF Result, InStep
<1>6. ASSUME NEW p \in AllParts, p \in Sets(q), Sent(q, p) = Wanted(p)
      PROVE  p \in unplanned' \/ InStep(p)'
      BY <1>1, <1>3, <1>4, <1>6 DEF Result, InStep
<1>7. replica'[current][Protection] = Result(q)[Protection]
  <2>1. PICK a \in ActionNames : q \in Elements(Requests(a))
        BY RequestHasAction
  <2>2. Protection \notin Disturbs(q)
        BY <2>1, DisturbedIsPart, ProtectionIsPart
  <2> QED
      BY <1>1, <1>2, <2>2, ApplyEffect, ProtectionIsPart
<1>8. Protection \in Sets(q) => q = Protection \/ q = DNSConfig
      BY SetsOf
<1> SUFFICES ASSUME ~erred
             PROVE  PartsDone' /\ (IF WithDNS THEN DNSDone' ELSE ProtectionDone')
    BY <1>1, <1>3 DEF CleanInv
<1>9. PartsDone /\ (IF WithDNS THEN DNSDone ELSE ProtectionDone)
      BY <1>1 DEF CleanInv
<1>10. PartsDone'
  <2>1. ASSUME NEW p \in Enabled \ {Unfinished, Protection}
        PROVE  \/ \E b \in acts' : p \in Parts(b)
               \/ p \in plan' \/ p \in unplanned' \/ InStep(p)'
    <3>1. p \in AllParts /\ p \notin Refreshes /\ Wanted(p) = snapshot[p]
          BY <2>1, EnabledParts DEF Wanted
    <3>2. CASE p = q
      <4>1. p \in Sets(q)
            BY <3>1, <3>2, SetsOf
      <4>2. Sent(q, p) = Wanted(p)
            BY <2>1, <3>1, <3>2 DEF Sent
      <4> QED
          BY <1>6, <3>1, <4>1, <4>2
    <3>3. CASE p # q
      <4>1. p \notin Sets(q)
            BY <2>1, <3>3, SetsOf
      <4> QED
          BY <1>1, <1>4, <1>5, <1>9, <2>1, <3>1, <3>3, <4>1 DEF PartsDone
    <3> QED
        BY <3>2, <3>3
  <2> QED
      BY <1>3, <2>1 DEF PartsDone
<1>11. ASSUME WithDNS PROVE DNSDone'
  <2>1. DNSDone
        BY <1>9, <1>11
  <2>2. "protection" \in acts' \/ Protection \in plan' => "DNS server config" \in acts'
        BY <1>1, <2>1 DEF DNSDone
  <2>3. CASE q = DNSConfig
    <3>1. Protection \in Sets(q) /\ Sent(q, Protection) = Wanted(Protection)
          BY <1>11, <2>3, SetsOf DEF Sent, Wanted, WithDNS
    <3> QED
        BY <1>6, <2>2, <3>1, ProtectionIsPart DEF DNSDone
  <2>4. CASE q = Protection
        BY <1>1, <2>1, <2>2, <2>4 DEF DNSDone
  <2>5. CASE q # DNSConfig /\ q # Protection
    <3>1. InStep(Protection) => Protection \in unplanned' \/ InStep(Protection)'
          BY <1>5, <1>8, <2>5, ProtectionIsPart
    <3> QED
        BY <1>1, <1>4, <2>1, <2>2, <2>5, <3>1 DEF DNSDone
  <2> QED
      BY <2>3, <2>4, <2>5
<1>12. ASSUME ~WithDNS PROVE ProtectionDone'
  <2>1. ProtectionDone
        BY <1>9, <1>12
  <2>2. q # DNSConfig
        BY <1>12, DNSIsEnabled DEF WithDNS
  <2>3. CASE q = Protection
    <3>1. Protection \in Sets(q) /\ Sent(q, Protection) = Wanted(Protection)
          BY <1>12, <2>3, SetsOf, ProtectionIsPart DEF Sent, Wanted, WithDNS
    <3>2. "protection" \notin acts'
          BY <1>1, <2>1, <2>3 DEF ProtectionDone
    <3> QED
        BY <1>6, <3>1, <3>2, ProtectionIsPart DEF ProtectionDone
  <2>4. CASE q # Protection
    <3>1. Protection \notin Sets(q)
          BY <1>8, <2>2, <2>4
    <3>2. replica'[current][Protection] = replica[current][Protection]
          BY <1>7, <3>1, ProtectionIsPart DEF Result
    <3>3. InStep(Protection)' = InStep(Protection)
          BY <1>1, <1>3, <3>2 DEF InStep
    <3> QED
        BY <1>1, <1>3, <1>4, <2>1, <2>4, <3>2, <3>3 DEF ProtectionDone
  <2> QED
      BY <2>3, <2>4
<1> QED
    BY <1>10, <1>11, <1>12

\* An edit of the current replica is one that will be compared, or is kept in
\* mind.
LEMMA EditClean ==
  ASSUME TypeInv, CleanInv, NEW r \in Replicas, NEW p \in AllParts, NEW v,
         EditReplica(r, p, v)
  PROVE  CleanInv'
<1>1. /\ UNCHANGED <<cfg, pc, snapshot, current, status, acts, plan, erred>>
      /\ replica' = [replica EXCEPT ![r][p] = v]
      /\ unplanned' = IF r = current /\ Compared(p) THEN unplanned \cup {p}
                                                   ELSE unplanned
      BY DEF EditReplica, passwide
<1>2. unplanned \subseteq unplanned'
      BY <1>1
<1>3. Enabled' = Enabled /\ WithDNS' = WithDNS /\ \A x : Wanted(x)' = Wanted(x)
      BY <1>1 DEF Enabled, WithDNS, Wanted
<1> SUFFICES ASSUME pc \in {"actions", "requests", "report"}, ~erred
             PROVE  PartsDone' /\ (IF WithDNS THEN DNSDone' ELSE ProtectionDone')
    BY <1>1, <1>3 DEF CleanInv
<1>4. PartsDone /\ (IF WithDNS THEN DNSDone ELSE ProtectionDone)
      BY DEF CleanInv
<1>5. current \in Replicas /\ replica \in [Replicas -> Settings]
      BY DEF TypeInv, TypeOK, InSyncTo
<1>6. \A x \in AllParts : x # p \/ r # current
        => replica'[current][x] = replica[current][x]
      BY <1>1, <1>5 DEF Settings
<1>7. r = current => p \in unplanned' \/ (p # Protection /\ \E a \in acts : p \in Parts(a))
      BY <1>1 DEF Compared
<1>8. ASSUME NEW x \in AllParts
      PROVE  \/ x \in unplanned'
             \/ x # Protection /\ \E a \in acts : x \in Parts(a)
             \/ replica'[current][x] = replica[current][x]
      BY <1>6, <1>7
<1>9. \A x \in AllParts : InStep(x) =>
        \/ x \in unplanned'
        \/ x # Protection /\ \E a \in acts : x \in Parts(a)
        \/ InStep(x)'
      BY <1>1, <1>3, <1>8 DEF InStep
<1>10. PartsDone'
  <2>1. Enabled \subseteq AllParts
        BY EnabledParts
  <2> QED
      BY <1>1, <1>2, <1>3, <1>4, <1>9, <2>1 DEF PartsDone
<1>11. WithDNS => DNSDone'
      BY <1>1, <1>2, <1>4, <1>9, ProtectionIsPart DEF DNSDone
<1>12. ~WithDNS => ProtectionDone'
      BY <1>1, <1>2, <1>3, <1>4, <1>8, <1>9, ProtectionIsPart DEF ProtectionDone
<1> QED
    BY <1>10, <1>11, <1>12

\* The actions.
LEMMA ActionStepClean == TypeInv /\ GateInv /\ CleanInv /\ ActionStep => CleanInv'
<1> SUFFICES ASSUME TypeInv, GateInv, CleanInv, ActionStep
             PROVE  CleanInv'
    OBVIOUS
<1>1. ASSUME erred' = TRUE PROVE CleanInv'
      BY <1>1 DEF CleanInv
<1>2. ASSUME NEW a \in acts, ReadReplicaFails(a) PROVE CleanInv'
      BY <1>1, <1>2 DEF ReadReplicaFails
<1>3. ASSUME NEW q \in plan, RequestFails(q) \/ AnswerLost(q) PROVE CleanInv'
      BY <1>1, <1>3 DEF RequestFails, AnswerLost, AfterError
<1>4. CASE LastAction
  <2>1. /\ UNCHANGED <<cfg, replica, snapshot, current, status, acts, plan, erred, unplanned>>
        /\ pc = "actions" /\ acts = {}
        BY <1>4 DEF LastAction, peers, passwide, local
  <2>2. Enabled' = Enabled /\ WithDNS' = WithDNS /\ \A p : InStep(p)' = InStep(p)
        BY <2>1 DEF Enabled, WithDNS, InStep, Wanted
  <2>3. erred' = erred /\ acts' = {}
        BY <2>1
  <2>4. ~erred => PartsDone /\ (IF WithDNS THEN DNSDone ELSE ProtectionDone)
        BY <2>1 DEF CleanInv
  <2>5. PartsDone => PartsDone'
        BY <2>1, <2>2 DEF PartsDone
  <2>6. (DNSDone => DNSDone') /\ (ProtectionDone => ProtectionDone')
        BY <2>1, <2>2 DEF DNSDone, ProtectionDone
  <2> QED
      BY <2>2, <2>3, <2>4, <2>5, <2>6 DEF CleanInv
<1>5. CASE Panic
      BY <1>5 DEF Panic, EndPass, CleanInv
<1> QED
    BY <1>2, <1>3, <1>4, <1>5, BeginActionClean, RequestClean DEF ActionStep

\* The status of a replica is accepted: every enabled part is to be compared.
LEMMA AcceptClean ==
  ASSUME TypeInv, Accept, UNCHANGED <<cfg, replica, current>>,
         pc \in {"status", "restatus"}
  PROVE  CleanInv'
<1>1. plan' = {} /\ acts' = SetupActions(cfg.features)
        /\ status' = replica[current][Protection] /\ pc' = "actions"
      BY DEF Accept, TypeInv, PlanIsRead
<1>2. Enabled' = Enabled /\ WithDNS' = WithDNS
      BY DEF Enabled, WithDNS
<1>3. PartsDone'
      BY <1>1, <1>2, EnabledParts DEF PartsDone
<1>4. WithDNS => "DNS server config" \in acts'
  <2>1. Feature("DNS server config") = "DNS.ServerConfig"
        BY DEF Feature
  <2> QED
      BY <1>1, <2>1, SinglesAreTheirOwn DEF WithDNS, SetupActions, Singles
<1>5. WithDNS => DNSDone'
      BY <1>4 DEF DNSDone
<1>6. ~WithDNS => ProtectionDone'
      BY <1>1, <1>2, EnabledParts DEF ProtectionDone
<1> QED
    BY <1>1, <1>2, <1>3, <1>5, <1>6 DEF CleanInv

\* Every step.
LEMMA CleanStep == TypeInv /\ GateInv /\ CleanInv /\ [Next]_vars => CleanInv'
<1> SUFFICES ASSUME TypeInv, GateInv, CleanInv, [Next]_vars
             PROVE  CleanInv'
    OBVIOUS
<1> USE DEF peers, local, passwide, bounds
<1>1. ASSUME pc' \notin {"actions", "requests", "report"} \/ erred' = TRUE
      PROVE  CleanInv'
      BY <1>1 DEF CleanInv
<1>2. ASSUME EndPass PROVE CleanInv'
      BY <1>1, <1>2 DEF EndPass
<1>3. CASE StartPass \/ FinishPass \/ Report \/ Kill
      BY <1>1, <1>2, <1>3 DEF StartPass, FinishPass, Report, Kill
<1>4. CASE OriginStep
      BY <1>1, <1>2, <1>4 DEF OriginStep, ReadOrigin, ReadOriginFails,
         OriginOutdated, ProfileUnauthorized, NextRead
<1>5. CASE ReplicaStep
  <2>1. GiveUp => CleanInv'
        BY <1>1 DEF GiveUp
  <2>2. ASSUME NEW r \in todo, NoClient(r) \/ Connect(r) PROVE CleanInv'
        BY <1>1, <2>2 DEF NoClient, Connect
  <2>3. CASE ReplicaStatus
        BY <1>1, <2>1, <2>3, AcceptClean DEF ReplicaStatus
  <2>4. CASE Setup
        BY <1>1, <2>1, <2>4 DEF Setup
  <2>5. CASE StatusAfterSetup
        BY <2>1, <2>5, AcceptClean DEF StatusAfterSetup
  <2>6. CASE StatusFails
        BY <1>1, <2>1, <2>6 DEF StatusFails
  <2> QED
      BY <1>5, <2>2, <2>3, <2>4, <2>5, <2>6 DEF ReplicaStep
\* Steps that change nothing that the parts are judged by.
<1>6. ASSUME UNCHANGED <<cfg, replica, snapshot, current, status, acts, plan,
                         erred, unplanned, pc>>
      PROVE  CleanInv'
  <2>1. Enabled' = Enabled /\ WithDNS' = WithDNS /\ \A p : InStep(p)' = InStep(p)
        BY <1>6 DEF Enabled, WithDNS, InStep, Wanted
  <2>2. PartsDone' = PartsDone
        BY <1>6, <2>1 DEF PartsDone
  <2>3. (DNSDone => DNSDone') /\ (ProtectionDone => ProtectionDone')
        BY <1>6, <2>1 DEF DNSDone, ProtectionDone
  <2> QED
      BY <1>6, <2>1, <2>2, <2>3 DEF CleanInv
<1>7. ASSUME NEW p, NEW v, EditOrigin(p, v) PROVE CleanInv'
      BY <1>6, <1>7 DEF EditOrigin
<1>8. ASSUME NEW r \in Replicas, NEW p \in ReplicaEditable, NEW v, EditReplica(r, p, v)
      PROVE  CleanInv'
      BY <1>8, EditClean, SyncPassAssumption
<1>9. CASE UNCHANGED vars
      BY <1>6, <1>9 DEF vars
<1> QED
    BY <1>3, <1>4, <1>5, <1>7, <1>8, <1>9, ActionStepClean DEF Next, Pass

(* A pass in which no request to a replica failed leaves the replica with  *)
(* every enabled part of what was read, but for the filtering switch and   *)
(* for what has changed behind its comparison.                             *)
THEOREM CleanPass == Spec => []CleanPassSyncs
<1>1. Init => TypeInv /\ GateInv /\ CleanInv
      BY TypeInit DEF Init, GateInv, InSyncTo, CleanInv
<1>2. TypeInv /\ CleanInv => CleanPassSyncs
  <2> SUFFICES ASSUME TypeInv, CleanInv, pc = "report", ~erred,
                      NEW p \in Enabled \ ({<<"filtering", "set">>} \cup unplanned)
               PROVE  InStep(p)
      BY DEF CleanPassSyncs
  <2>1. plan = {} /\ acts = {}
        BY DEF TypeInv, PlanIsRead, CleanInv
  <2>2. PartsDone /\ (IF WithDNS THEN DNSDone ELSE ProtectionDone)
        BY DEF CleanInv
  <2>3. CASE p = Protection
        BY <2>1, <2>2, <2>3 DEF DNSDone, ProtectionDone
  <2>4. CASE p # Protection
        BY <2>1, <2>2, <2>4 DEF PartsDone, Unfinished
  <2> QED
      BY <2>3, <2>4
<1> QED
    BY <1>1, <1>2, TypeStep, GateStep, CleanStep, PTL DEF Spec
=============================================================================
