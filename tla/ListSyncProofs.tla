---------------------------- MODULE ListSyncProofs ----------------------------
(***************************************************************************)
(* Proofs about module ListSync, for any replicas, any lists of any kind,  *)
(* both error modes and any bound on the failures.                         *)
(***************************************************************************)
EXTENDS ListSync, FiniteSetTheorems, TLAPS

-----------------------------------------------------------------------------
(* The inductive invariant.  now is the list of the action's replica, b    *)
(* that list when the action began, p what is left of its plan.            *)

\* An origin's entry as a pass may hold it: without the zone of a schedule.
WithZone(e, zone) == [e EXCEPT !.value.zone = zone]

From(e, o) ==
  \/ e = o
  \/ list = "clients" /\ o.value.days /\ e = WithZone(o, NoZone)

Cut(e, keys) ==
  IF list = "clients" /\ e.value.days /\ e.key \in keys
  THEN WithZone(e, NoZone) ELSE e

\* The pass holds the origin's list, with the zones cut of some of its keys.
Cuts(keys) == {Cut(o, keys) : o \in origin}

HeldIsOrigins ==
  IF pc = "idle" THEN snapshot = {}
  ELSE \E keys \in SUBSET Keys(origin) : snapshot = Cuts(keys)

\* A deletion is of an entry the origin lacks, or of a copy of a rewrite; an
\* addition of an entry that the replica lacks and has lacked; an update of one
\* that it has.
Justified(b, now, q) ==
  \/ q = <<"refresh">>
  \/ /\ q = <<"delete", q[2]>>
     /\ q[2] \in Entries[list]
     /\ q[2].key \in Keys(origin) => list = "rewrites" /\ Copies(b, q[2].key) > 1
  \/ /\ q = <<"add", q[2]>>
     /\ \E o \in origin : From(q[2], o) /\ o.copy = 1
     /\ q[2].key \notin Keys(now) \cup Keys(b)
  \/ /\ q = <<"update", q[2]>>
     /\ \E o \in origin : From(q[2], o)
     /\ q[2].key \in Keys(now)
     /\ list \in {"filters", "clients"}

PlanIsJustified(b, now, p) ==
  /\ \A q \in p : Justified(b, now, q)
  /\ \A q1, q2 \in p :
       q1[1] = "add" /\ q2[1] = "add" /\ q1[2].key = q2[2].key => q1 = q2

\* The deletions of a key never take the last copy of an origin's entry, unless
\* the replica takes them all at once.
Deletions(p, k) == {q \in p : q[1] = "delete" /\ q[2].key = k}
KnownKeys == Keys(Entries[list])

OneStays(now, p) ==
  \A k \in KnownKeys :
    /\ IsFiniteSet(Deletions(p, k))
    /\ k \in Keys(origin) /\ k \in Keys(now) =>
         Cardinality(Deletions(p, k)) < Copies(now, k)

\* What is missing is planned, as long as nothing has failed: the deletions of
\* what the origin lacks, the entries it has, their values.
Due(p, k) == \E q \in p : q[1] \in {"add", "update"} /\ q[2].key = k

Late(b, o) == list = "filters" /\ o.key \notin Keys(b) /\ ~o.value.enabled

RestIsPlanned(b, now, p) ==
  /\ \A k \in KnownKeys \ Keys(origin) :
       Copies(now, k) <= Cardinality(Deletions(p, k))
  /\ \A k \in Keys(origin) : k \in Keys(now) \/ Copies(b, k) > 1 \/ Due(p, k)
  /\ list # "rewrites" =>
       \A o \in origin :
         Late(b, o) \/ <<o.key, Kept(o.value)>> \in View(now) \/ Due(p, o.key)

ActionInv ==
  IF pc = "action"
  THEN /\ current \in Replicas
       /\ PlanIsJustified(before, replica[current], plan)
       /\ OneStays(replica[current], plan)
       /\ ~failed => RestIsPlanned(before, replica[current], plan)
  ELSE current = NoReplica /\ plan = {} /\ failed = FALSE

Inv ==
  /\ scenario \in Scenarios
  /\ replica \in [Replicas -> SUBSET Entries[list]]
  /\ \A r \in Replicas : Numbered(replica[r])
  /\ pc \in {"idle", "replicas", "action"}
  /\ todo \in SUBSET Replicas
  /\ before \in SUBSET Entries[list]
  /\ failed \in BOOLEAN
  /\ faults \in 0..MaxFaults
  /\ HeldIsOrigins
  /\ ActionInv

-----------------------------------------------------------------------------
(* Lists of numbered copies                                                *)

OfKey(entries, k) == {e \in entries : e.key = k}

\* The copies of a key are numbered without a gap.
LEMMA CopiesAreNumbered ==
  ASSUME NEW L, Numbered(L), NEW k
  PROVE  /\ IsFiniteSet(OfKey(L, k))
         /\ Copies(L, k) \in Nat
         /\ Copies(L, k) = Cardinality(OfKey(L, k))
         /\ k \in Keys(L) <=> Copies(L, k) # 0
         /\ \A i \in 1..Copies(L, k) : \E e \in L : e.key = k /\ e.copy = i
<1> DEFINE S == OfKey(L, k)
           n == Cardinality(S)
           f == [e \in S |-> e.copy]
<1>1. Copies(L, k) = n
      BY DEF Copies, OfKey
<1>2. S \in SUBSET L /\ IsFiniteSet(L)
      BY DEF OfKey, Numbered
<1>3. IsFiniteSet(S)
      BY <1>2, FS_Subset
<1>4. n \in Nat
      BY <1>3, FS_CardinalityType
<1>5. n = 0 <=> S = {}
      BY <1>3, FS_EmptySet
<1>6. k \in Keys(L) <=> S # {}
      BY DEF Keys, OfKey
<1>7. \A i \in 1..n : \E e \in S : e.copy = i
  <2>1. f \in [S -> 1..n]
        BY <1>1 DEF Numbered, OfKey
  <2>2. \A e1, e2 \in S : f[e1] = f[e2] => e1 = e2
        BY DEF Numbered, OfKey
  <2>3. f \in Injection(S, 1..n)
        BY <2>1, <2>2 DEF Injection, IsInjective
  <2>4. 1 \in Int /\ n \in Int
        BY <1>4
  <2>5. IsFiniteSet(1..n) /\ Cardinality(1..n) = n
        BY <1>4, <2>4, FS_Interval
  <2>6. f \in Surjection(S, 1..n)
    <3> HIDE DEF f, n, S
    <3>1. Cardinality(S) = n
          BY DEF n
    <3> QED
        BY <2>3, <2>5, <3>1, FS_Injection
  <2> QED
      BY <2>6 DEF Surjection
<1> QED
    BY <1>1, <1>3, <1>4, <1>5, <1>6, <1>7 DEF OfKey

\* A list without a key.
LEMMA WithoutKey ==
  ASSUME NEW L, Numbered(L), NEW k,
         NEW M, \A e : e \in M <=> e \in L /\ e.key # k
  PROVE  /\ Numbered(M)
         /\ \A j : Copies(M, j) = IF j = k THEN 0 ELSE Copies(L, j)
         /\ Keys(M) = Keys(L) \ {k}
<1>1. IsFiniteSet(M)
  <2>1. M \in SUBSET L
        OBVIOUS
  <2> QED
      BY <2>1, FS_Subset DEF Numbered
<1>2. \A j : j # k => OfKey(M, j) = OfKey(L, j)
      BY DEF OfKey
<1>3. OfKey(M, k) = {}
      BY DEF OfKey
<1>4. \A j : Copies(M, j) = IF j = k THEN 0 ELSE Copies(L, j)
      BY <1>2, <1>3, FS_EmptySet DEF Copies, OfKey
<1>5. Numbered(M)
      BY <1>1, <1>4 DEF Numbered
<1>6. Keys(M) = Keys(L) \ {k}
      BY DEF Keys
<1> QED
    BY <1>4, <1>5, <1>6

\* A list without the last copy of a key.
LEMMA WithoutLast ==
  ASSUME NEW L, Numbered(L), NEW k \in Keys(L),
         NEW M, M = {e \in L : e.key # k \/ e.copy < Copies(L, k)}
  PROVE  /\ Numbered(M)
         /\ \A j : Copies(M, j) = IF j = k THEN Copies(L, k) - 1 ELSE Copies(L, j)
         /\ \A j : j # k => (j \in Keys(M) <=> j \in Keys(L))
<1> DEFINE n == Copies(L, k)
<1>1. n \in Nat /\ n # 0 /\ IsFiniteSet(OfKey(L, k)) /\ n = Cardinality(OfKey(L, k))
      BY CopiesAreNumbered
<1>2. PICK last \in L : last.key = k /\ last.copy = n
  <2>1. n \in 1..n
        BY <1>1
  <2> QED
      BY <2>1, CopiesAreNumbered
<1>3. \A e \in L : e.key = k => e.copy \in 1..n
      BY DEF Numbered
<1>4. \A e \in L : e.key = k => (e.copy < n <=> e # last)
      BY <1>1, <1>2, <1>3 DEF Numbered
<1>5. OfKey(M, k) = OfKey(L, k) \ {last}
      BY <1>4 DEF OfKey
<1>6. last \in OfKey(L, k)
      BY <1>2 DEF OfKey
<1>7. Cardinality(OfKey(M, k)) = n - 1
      BY <1>1, <1>5, <1>6, FS_RemoveElement
<1>8. \A j : j # k => OfKey(M, j) = OfKey(L, j)
      BY DEF OfKey
<1>9. \A j : Copies(M, j) = IF j = k THEN n - 1 ELSE Copies(L, j)
      BY <1>7, <1>8 DEF Copies, OfKey
<1>10. Numbered(M)
  <2>1. IsFiniteSet(M)
        BY FS_Subset DEF Numbered
  <2>2. ASSUME NEW e \in M PROVE e.copy \in 1..Copies(M, e.key)
    <3>1. e \in L /\ e.copy \in 1..Copies(L, e.key)
          BY DEF Numbered
    <3>2. CASE e.key # k
          BY <1>9, <3>1, <3>2
    <3>3. CASE e.key = k
          BY <1>1, <1>9, <3>1, <3>3
    <3> QED
        BY <3>2, <3>3
  <2> QED
      BY <2>1, <2>2 DEF Numbered
<1>11. \A j : j # k => (j \in Keys(M) <=> j \in Keys(L))
      BY DEF Keys
<1> QED
    BY <1>9, <1>10, <1>11

\* A list with a first entry for a key it does not have.
LEMMA WithEntry ==
  ASSUME NEW L, Numbered(L), NEW x, x.key \notin Keys(L), x.copy = 1,
         NEW M, M = L \cup {x}
  PROVE  /\ Numbered(M)
         /\ \A j : Copies(M, j) = IF j = x.key THEN 1 ELSE Copies(L, j)
         /\ Keys(M) = Keys(L) \cup {x.key}
<1>1. IsFiniteSet(M)
      BY FS_AddElement DEF Numbered
<1>2. OfKey(M, x.key) = {x}
      BY DEF OfKey, Keys
<1>3. \A j : j # x.key => OfKey(M, j) = OfKey(L, j)
      BY DEF OfKey
<1>4. \A j : Copies(M, j) = IF j = x.key THEN 1 ELSE Copies(L, j)
  <2>1. Cardinality({x}) = 1
        BY FS_Singleton
  <2>2. Cardinality(OfKey(M, x.key)) = 1
        BY <1>2, <2>1
  <2> QED
      BY <1>3, <2>2 DEF Copies, OfKey
<1>5. \A e \in L : e.key # x.key
      BY DEF Keys
<1>6. Numbered(M)
  <2>1. ASSUME NEW e \in M PROVE e.copy \in 1..Copies(M, e.key)
    <3>1. CASE e = x
          BY <1>4, <3>1
    <3>2. CASE e \in L
          BY <1>4, <1>5, <3>2 DEF Numbered
    <3> QED
        BY <3>1, <3>2
  <2>2. ASSUME NEW e \in M, NEW f \in M, e.key = f.key, e.copy = f.copy
        PROVE  e = f
        BY <1>5, <2>2 DEF Numbered
  <2> QED
      BY <1>1, <2>1, <2>2 DEF Numbered
<1>7. Keys(M) = Keys(L) \cup {x.key}
      BY DEF Keys
<1> QED
    BY <1>4, <1>6, <1>7

-----------------------------------------------------------------------------
(* Entries, as the origin has them, as a pass holds them and as a replica  *)
(* stores them                                                             *)

\* The entries of the list that a scenario is about.
LEMMA EntryShapes ==
  ASSUME scenario \in Scenarios, NEW e \in Entries[list]
  PROVE  /\ list \in Lists
         /\ e \in [key : {e.key}, value : {e.value}, copy : Nat \ {0}]
         /\ list # "rewrites" => e.copy = 1
         /\ list = "filters" =>
              /\ e.value \in [name : {e.value.name}, enabled : BOOLEAN]
              /\ [e EXCEPT !.value.enabled = TRUE] \in Entries[list]
         /\ list = "clients" =>
              /\ e.value \in [data : {e.value.data}, days : BOOLEAN,
                               zone : {e.value.zone}]
              /\ [e EXCEPT !.value.zone = DefaultZone] \in Entries[list]
<1>1. list \in Lists
      BY ListSyncAssumption DEF list
<1> HIDE DEF list
<1> QED
    BY <1>1, EntriesAssumption

\* Another zone.
LEMMA OtherZone ==
  ASSUME scenario \in Scenarios, list = "clients", NEW o \in Entries[list],
         NEW z, NEW e, e = WithZone(o, z)
  PROVE  /\ e.key = o.key /\ e.copy = o.copy
         /\ e.value.data = o.value.data /\ e.value.days = o.value.days
         /\ e.value.zone = z
         /\ \A w : WithZone(e, w) = WithZone(o, w)
<1>1. /\ o \in [key : {o.key}, value : {o.value}, copy : Nat \ {0}]
      /\ o.value \in [data : {o.value.data}, days : BOOLEAN, zone : {o.value.zone}]
      BY EntryShapes
<1> QED
    BY <1>1 DEF WithZone

\* What the merge keeps, by the kind of list.
LEMMA KeptByKind ==
  ASSUME NEW v
  PROVE  /\ list = "filters" => Kept(v) = v
         /\ list = "clients" => Kept(v) = <<v.data, v.days>>
         /\ list \notin {"filters", "clients"} => Kept(v) = {}
  BY Zenon DEF Kept

\* What is held of an entry has its key, its copy and what the merge keeps.
LEMMA HeldEntry ==
  ASSUME scenario \in Scenarios, NEW o \in Entries[list], NEW e, From(e, o)
  PROVE  /\ e.key = o.key /\ e.copy = o.copy
         /\ Kept(e.value) = Kept(o.value)
         /\ e \in Held
         /\ \A keys : From(Cut(e, keys), o)
<1>1. CASE e = o
      BY <1>1 DEF From, Cut, Held
<1>2. CASE /\ list = "clients" /\ o.value.days
           /\ e = WithZone(o, NoZone)
  <2>1. /\ e.key = o.key /\ e.copy = o.copy
        /\ e.value.data = o.value.data /\ e.value.days = o.value.days
        /\ WithZone(e, NoZone) = e
    <3>1. WithZone(e, NoZone) = WithZone(o, NoZone)
          BY <1>2, OtherZone
    <3>2. list = "clients" /\ e = WithZone(o, NoZone)
          BY <1>2
    <3>3. /\ e.key = o.key /\ e.copy = o.copy
          /\ e.value.data = o.value.data
          BY <3>2, OtherZone
    <3>4. e.value.days = o.value.days
          BY <3>2, OtherZone
    <3> QED
        BY <1>2, <3>1, <3>3, <3>4
  <2>2. Kept(e.value) = Kept(o.value)
        BY <1>2, <2>1, KeptByKind
  <2>3. e \in Held
        BY <1>2 DEF Held, AfterDiff, Keys, WithZone
  <2>4. \A keys : Cut(e, keys) = e
        BY <2>1 DEF Cut
  <2> QED
      BY <2>1, <2>2, <2>3, <2>4
<1> QED
    BY <1>1, <1>2 DEF From

\* What a replica stores of it is an entry with what the merge keeps, but for
\* a filter that is new.
LEMMA StoredEntry ==
  ASSUME scenario \in Scenarios, NEW o \in Entries[list], NEW e, From(e, o),
         NEW op \in {"add", "update"}
  PROVE  LET s == Stored(op, e)
         IN /\ s \in Entries[list]
            /\ s.key = o.key /\ s.copy = o.copy
            /\ \/ Kept(s.value) = Kept(o.value)
               \/ op = "add" /\ list = "filters" /\ ~o.value.enabled
<1> DEFINE s == Stored(op, e)
<1>1. CASE list = "filters"
  <2>1. e = o
        BY <1>1 DEF From
  <2>2. /\ o \in [key : {o.key}, value : {o.value}, copy : Nat \ {0}]
        /\ o.value \in [name : {o.value.name}, enabled : BOOLEAN]
        /\ [o EXCEPT !.value.enabled = TRUE] \in Entries[list]
        BY <1>1, EntryShapes
  <2>3. CASE op = "add"
    <3>1. s = [o EXCEPT !.value.enabled = TRUE]
          BY <1>1, <2>1, <2>3 DEF Stored
    <3>2. o.value.enabled => s = o
          BY <2>2, <3>1
    <3>3. s.key = o.key /\ s.copy = o.copy
          BY <2>2, <3>1
    <3> QED
        BY <1>1, <2>2, <2>3, <3>1, <3>2, <3>3
  <2>4. CASE op = "update"
    <3>1. s = o
          BY <1>1, <2>1, <2>4 DEF Stored
    <3> QED
        BY <3>1
  <2> QED
      BY <2>3, <2>4
<1>2. CASE list = "clients"
  <2>1. e.value.zone = NoZone => s = WithZone(e, DefaultZone)
        BY <1>2 DEF Stored, WithZone
  <2>2. e.value.zone # NoZone => s = e
        BY <1>2 DEF Stored
  <2>3. s = o \/ s = WithZone(o, DefaultZone)
    <3>1. CASE e = o
          BY <2>1, <2>2, <3>1
    <3>2. CASE e = WithZone(o, NoZone)
      <4>1. /\ e.value.zone = NoZone
            /\ WithZone(e, DefaultZone) = WithZone(o, DefaultZone)
            BY <1>2, <3>2, OtherZone
      <4> QED
          BY <2>1, <4>1
    <3> QED
        BY <3>1, <3>2 DEF From
  <2>4. CASE s = o
        BY <2>4
  <2>5. CASE s = WithZone(o, DefaultZone)
    <3>1. /\ s.key = o.key /\ s.copy = o.copy
          /\ s.value.data = o.value.data /\ s.value.days = o.value.days
          BY <1>2, <2>5, OtherZone
    <3>2. s \in Entries[list]
          BY <1>2, <2>5, EntryShapes DEF WithZone
    <3>3. Kept(s.value) = Kept(o.value)
          BY <1>2, <3>1, KeptByKind
    <3> QED
        BY <3>1, <3>2, <3>3
  <2> QED
      BY <2>3, <2>4, <2>5
<1>3. CASE list \notin {"filters", "clients"}
  <2>1. e = o /\ s = e
        BY <1>3 DEF From, Stored
  <2> QED
      BY <2>1
<1> QED
    BY <1>1, <1>2, <1>3

\* Values that are the same to the merge are the same in what it keeps.
LEMMA SameIsKept ==
  ASSUME scenario \in Scenarios, NEW t \in Entries[list],
         NEW o \in Entries[list], NEW e, From(e, o), Same(list, t.value, e.value)
  PROVE  Kept(t.value) = Kept(o.value)
<1>1. Kept(e.value) = Kept(o.value)
      BY HeldEntry
<1>2. CASE list = "filters"
      BY <1>1, <1>2 DEF Same
<1>3. CASE list = "clients"
  <2>1. t.value \in [data : {t.value.data}, days : BOOLEAN, zone : {t.value.zone}]
        BY <1>3, EntryShapes
  <2>2. e.value \in [data : {e.value.data}, days : BOOLEAN, zone : {e.value.zone}]
    <3>1. /\ o \in [key : {o.key}, value : {o.value}, copy : Nat \ {0}]
          /\ o.value \in [data : {o.value.data}, days : BOOLEAN, zone : {o.value.zone}]
          BY <1>3, EntryShapes
    <3>2. CASE e = o
          BY <3>1, <3>2
    <3>3. CASE e = WithZone(o, NoZone)
          BY <3>1, <3>3 DEF WithZone
    <3> QED
        BY <3>2, <3>3 DEF From
  <2>3. Prepared(t.value) = Prepared(e.value)
        BY <1>3 DEF Same
  <2>4. /\ Prepared(t.value).data = t.value.data
        /\ Prepared(t.value).days = t.value.days
        BY <2>1 DEF Prepared
  <2>5. /\ Prepared(e.value).data = e.value.data
        /\ Prepared(e.value).days = e.value.days
        BY <2>2 DEF Prepared
  <2>6. t.value.data = e.value.data /\ t.value.days = e.value.days
        BY <2>3, <2>4, <2>5
  <2> QED
      BY <1>1, <1>3, <2>6, KeptByKind
<1>4. CASE list \notin {"filters", "clients"}
      BY <1>4, KeptByKind
<1> QED
    BY <1>2, <1>3, <1>4

-----------------------------------------------------------------------------
(* Plans                                                                   *)

\* The origin's list.
LEMMA OriginsList ==
  ASSUME scenario \in Scenarios
  PROVE  /\ origin \in SUBSET Entries[list]
         /\ Numbered(origin)
         /\ Keys(origin) \subseteq KnownKeys
         /\ list # "rewrites" => \A o1, o2 \in origin : o1.key = o2.key => o1 = o2
<1>1. origin \in SUBSET Entries[list]
      BY ListSyncAssumption DEF origin, list
<1>2. Numbered(origin)
      BY NumberedAssumption DEF origin
<1>3. list # "rewrites" => \A o1, o2 \in origin : o1.key = o2.key => o1 = o2
      BY <1>1, <1>2, EntryShapes DEF Numbered
<1> QED
    BY <1>1, <1>2, <1>3 DEF Keys, KnownKeys

\* With fewer requests no more is taken away.
LEMMA FewerRequests ==
  ASSUME NEW b, NEW now, NEW p, NEW fewer \in SUBSET p,
         PlanIsJustified(b, now, p), OneStays(now, p), Numbered(now)
  PROVE  PlanIsJustified(b, now, fewer) /\ OneStays(now, fewer)
<1>1. PlanIsJustified(b, now, fewer)
      BY DEF PlanIsJustified
<1>2. ASSUME NEW k \in KnownKeys
      PROVE  /\ IsFiniteSet(Deletions(fewer, k))
             /\ k \in Keys(origin) /\ k \in Keys(now) =>
                  Cardinality(Deletions(fewer, k)) < Copies(now, k)
  <2>1. Deletions(fewer, k) \in SUBSET Deletions(p, k)
        BY DEF Deletions
  <2>2. IsFiniteSet(Deletions(p, k))
        BY DEF OneStays
  <2>3. /\ IsFiniteSet(Deletions(fewer, k))
        /\ Cardinality(Deletions(fewer, k)) <= Cardinality(Deletions(p, k))
        BY <2>1, <2>2, FS_Subset
  <2>4. /\ Cardinality(Deletions(fewer, k)) \in Nat
        /\ Cardinality(Deletions(p, k)) \in Nat
        /\ Copies(now, k) \in Nat
        BY <2>2, <2>3, FS_CardinalityType, CopiesAreNumbered
  <2> QED
      BY <2>3, <2>4 DEF OneStays
<1> QED
    BY <1>1, <1>2 DEF OneStays

\* What a deletion leaves.
LEMMA DeletionEffect ==
  ASSUME NEW now, Numbered(now), NEW k, NEW new \in Deleted(now, k)
  PROVE  /\ Numbered(new) /\ new \subseteq now
         /\ \A e \in now : e.key # k => e \in new
         /\ \A j : j # k => /\ Copies(new, j) = Copies(now, j)
                            /\ j \in Keys(new) <=> j \in Keys(now)
         /\ Copies(new, k) = 0 \/ Copies(new, k) = Copies(now, k) - 1
         /\ k \notin Keys(now) => new = now
<1>1. CASE new = {e \in now : e.key # k}
  <2>1. /\ Numbered(new)
        /\ \A j : Copies(new, j) = IF j = k THEN 0 ELSE Copies(now, j)
        /\ Keys(new) = Keys(now) \ {k}
    <3>1. \A e : e \in new <=> e \in now /\ e.key # k
          BY <1>1
    <3> QED
        BY <3>1, WithoutKey
  <2>2. k \notin Keys(now) => new = now
        BY <1>1 DEF Keys
  <2> QED
      BY <1>1, <2>1, <2>2
<1>2. CASE /\ new = {e \in now : e.key # k \/ e.copy < Copies(now, k)}
           /\ k \in Keys(now)
      BY <1>2, WithoutLast
<1>3. CASE /\ new = {e \in now : e.key # k \/ e.copy < Copies(now, k)}
           /\ k \notin Keys(now)
  <2>1. new = now
        BY <1>3 DEF Keys
  <2> QED
      BY <2>1, <1>3, CopiesAreNumbered
<1> QED
    BY <1>1, <1>2, <1>3 DEF Deleted

\* A deletion keeps the plan in order, and an agreement.
LEMMA DeletionKeeps ==
  ASSUME scenario \in Scenarios, NEW now \in SUBSET Entries[list], Numbered(now),
         NEW b, NEW p, PlanIsJustified(b, now, p), OneStays(now, p),
         NEW e \in Entries[list], <<"delete", e>> \in p,
         e.key \in Keys(origin) => list = "rewrites" /\ Copies(b, e.key) > 1,
         NEW new \in Deleted(now, e.key)
  PROVE  /\ PlanIsJustified(b, new, p \ {<<"delete", e>>})
         /\ OneStays(new, p \ {<<"delete", e>>})
         /\ RestIsPlanned(b, now, p) => RestIsPlanned(b, new, p \ {<<"delete", e>>})
         /\ Agrees(now) => Agrees(new)
<1> DEFINE k == e.key
           q == <<"delete", e>>
           rest == p \ {q}
<1>1. /\ Numbered(new) /\ new \subseteq now
      /\ \A x \in now : x.key # k => x \in new
      /\ \A j : j # k => /\ Copies(new, j) = Copies(now, j)
                         /\ j \in Keys(new) <=> j \in Keys(now)
      /\ Copies(new, k) = 0 \/ Copies(new, k) = Copies(now, k) - 1
      /\ k \notin Keys(now) => new = now
      BY DeletionEffect
<1>2. /\ Copies(now, k) \in Nat /\ Copies(new, k) \in Nat
      /\ k \in Keys(now) <=> Copies(now, k) # 0
      /\ k \in Keys(new) <=> Copies(new, k) # 0
      BY <1>1, CopiesAreNumbered
<1>3. \A j : j # k => Deletions(rest, j) = Deletions(p, j)
      BY DEF Deletions
<1>4. k \in KnownKeys
      BY DEF KnownKeys, Keys
<1>5. /\ q \in Deletions(p, k)
      /\ Deletions(rest, k) = Deletions(p, k) \ {q}
      /\ IsFiniteSet(Deletions(p, k))
      BY <1>4 DEF Deletions, OneStays
<1>6. /\ IsFiniteSet(Deletions(rest, k))
      /\ Cardinality(Deletions(rest, k)) = Cardinality(Deletions(p, k)) - 1
      /\ Cardinality(Deletions(rest, k)) \in Nat
      /\ Cardinality(Deletions(p, k)) \in Nat
  <2> DEFINE D == Deletions(p, k)
  <2> HIDE DEF D, q
  <2>1. IsFiniteSet(D) /\ q \in D
        BY <1>5 DEF D
  <2>2. IsFiniteSet(D \ {q}) /\ Cardinality(D \ {q}) = Cardinality(D) - 1
        BY <2>1, FS_RemoveElement
  <2>3. Cardinality(D) \in Nat /\ Cardinality(D \ {q}) \in Nat
        BY <2>1, <2>2, FS_CardinalityType
  <2>4. Deletions(rest, k) = D \ {q}
        BY <1>5 DEF D, q
  <2> QED
      BY <2>2, <2>3, <2>4 DEF D
<1>7. PlanIsJustified(b, new, rest)
  <2>1. ASSUME NEW x \in rest PROVE Justified(b, new, x)
    <3>1. Justified(b, now, x)
          BY DEF PlanIsJustified
    <3>2. x[2].key \notin Keys(now) => x[2].key \notin Keys(new)
          BY <1>1 DEF Keys
    <3>3. CASE /\ x = <<"update", x[2]>>
               /\ \E o \in origin : From(x[2], o)
               /\ x[2].key \in Keys(now)
               /\ list \in {"filters", "clients"}
      <4>1. x[2].key \in Keys(origin)
            BY <3>3, OriginsList, HeldEntry DEF Keys
      <4>2. x[2].key # k
            BY <3>3, <4>1
      <4> QED
          BY <1>1, <3>3, <4>2 DEF Justified
    <3> QED
        BY <3>1, <3>2, <3>3 DEF Justified
  <2> QED
      BY <2>1 DEF PlanIsJustified
<1>8. OneStays(new, rest)
  <2>1. ASSUME NEW j \in KnownKeys
        PROVE  /\ IsFiniteSet(Deletions(rest, j))
               /\ j \in Keys(origin) /\ j \in Keys(new) =>
                    Cardinality(Deletions(rest, j)) < Copies(new, j)
    <3>1. CASE j # k
          BY <1>1, <1>3, <3>1 DEF OneStays
    <3>2. CASE j = k
      <4>1. ASSUME k \in Keys(origin), k \in Keys(new)
            PROVE  Cardinality(Deletions(rest, k)) < Copies(new, k)
        <5>1. k \in Keys(now) /\ Copies(new, k) = Copies(now, k) - 1
              BY <1>1, <1>2, <4>1
        <5>2. Cardinality(Deletions(p, k)) < Copies(now, k)
              BY <1>4, <4>1, <5>1 DEF OneStays
        <5> QED
            BY <1>2, <1>6, <5>1, <5>2
      <4> QED
          BY <1>6, <3>2, <4>1
    <3> QED
        BY <3>1, <3>2
  <2> QED
      BY <2>1 DEF OneStays
<1>9. ASSUME RestIsPlanned(b, now, p) PROVE RestIsPlanned(b, new, rest)
  <2>1. \A j : Due(p, j) => Due(rest, j)
        BY DEF Due
  <2>2. ASSUME NEW j \in KnownKeys \ Keys(origin)
        PROVE  Copies(new, j) <= Cardinality(Deletions(rest, j))
    <3>1. Copies(now, j) <= Cardinality(Deletions(p, j))
          BY <1>9 DEF RestIsPlanned
    <3>2. CASE j # k
          BY <1>1, <1>3, <3>1, <3>2
    <3>3. CASE j = k
          BY <1>1, <1>2, <1>6, <3>1, <3>3
    <3> QED
        BY <3>2, <3>3
  <2>3. ASSUME NEW j \in Keys(origin)
        PROVE  j \in Keys(new) \/ Copies(b, j) > 1 \/ Due(rest, j)
        BY <1>1, <1>9, <2>1 DEF RestIsPlanned
  <2>4. ASSUME list # "rewrites", NEW o \in origin
        PROVE  Late(b, o) \/ <<o.key, Kept(o.value)>> \in View(new) \/ Due(rest, o.key)
    <3>1. Late(b, o) \/ <<o.key, Kept(o.value)>> \in View(now) \/ Due(p, o.key)
          BY <1>9, <2>4 DEF RestIsPlanned
    <3>2. o.key # k
          BY <2>4 DEF Keys
    <3>3. <<o.key, Kept(o.value)>> \in View(now) =>
            <<o.key, Kept(o.value)>> \in View(new)
          BY <1>1, <3>2 DEF View
    <3> QED
        BY <2>1, <3>1, <3>3
  <2> QED
      BY <2>2, <2>3, <2>4 DEF RestIsPlanned
<1>10. ASSUME Agrees(now) PROVE Agrees(new)
  <2>1. View(now) = View(origin) /\ \A x \in now : x.copy = 1
        BY <1>10 DEF Agrees
  <2>2. k \notin Keys(now)
    <3>1. SUFFICES ASSUME k \in Keys(now) PROVE FALSE
          OBVIOUS
    <3>2. k \in Keys(origin)
      <4>1. PICK x \in now : x.key = k
            BY <3>1 DEF Keys
      <4>2. <<k, Kept(x.value)>> \in View(origin)
            BY <2>1, <4>1 DEF View
      <4> QED
          BY <4>2 DEF View, Keys
    <3>3. Cardinality(Deletions(p, k)) < Copies(now, k)
          BY <1>4, <3>1, <3>2 DEF OneStays
    <3>4. 2 \in 1..Copies(now, k)
          BY <1>2, <1>6, <3>3
    <3>5. \E x \in now : x.copy = 2
          BY <3>4, CopiesAreNumbered
    <3> QED
        BY <2>1, <3>5
  <2> QED
      BY <1>1, <1>10, <2>2
<1> QED
    BY <1>7, <1>8, <1>9, <1>10

\* An entry that is put in the place of those of its key.
LEMMA PutEffect ==
  ASSUME NEW now, Numbered(now), NEW s, s.copy = 1,
         NEW new, \A x : x \in new <=> (x \in now /\ x.key # s.key) \/ x = s
  PROVE  /\ Numbered(new)
         /\ \A j : Copies(new, j) = IF j = s.key THEN 1 ELSE Copies(now, j)
         /\ Keys(new) = Keys(now) \cup {s.key}
<1> DEFINE M == {x \in now : x.key # s.key}
<1>1. \A x : x \in M <=> x \in now /\ x.key # s.key
      OBVIOUS
<1>2. new = M \cup {s}
      BY <1>1
<1> HIDE DEF M
<1>3. /\ Numbered(M)
      /\ \A j : Copies(M, j) = IF j = s.key THEN 0 ELSE Copies(now, j)
      /\ Keys(M) = Keys(now) \ {s.key}
      BY <1>1, WithoutKey
<1>4. /\ Numbered(new)
      /\ \A j : Copies(new, j) = IF j = s.key THEN 1 ELSE Copies(M, j)
      /\ Keys(new) = Keys(M) \cup {s.key}
      BY <1>2, <1>3, WithEntry
<1> QED
    BY <1>3, <1>4

\* A key that a list does not have, has no copies in it.
LEMMA NoCopies ==
  ASSUME NEW L, NEW k, k \notin Keys(L)
  PROVE  Copies(L, k) = 0
<1>1. {e \in L : e.key = k} = {}
      BY DEF Keys
<1> QED
    BY <1>1, FS_EmptySet DEF Copies

\* What is put takes the place of what a list has of its key.
Put(entries, x) == {y \in entries : y.key # x.key} \cup {x}

\* An addition or an update keeps the plan in order, and an agreement.
LEMMA PutKeeps ==
  ASSUME scenario \in Scenarios, NEW now \in SUBSET Entries[list], Numbered(now),
         NEW b, NEW p, PlanIsJustified(b, now, p), OneStays(now, p),
         NEW op \in {"add", "update"}, NEW e, <<op, e>> \in p,
         op = "add" => e.key \notin Keys(now) \cup Keys(b),
         op = "update" => e.key \in Keys(now) /\ list \in {"filters", "clients"},
         NEW o \in origin, From(e, o), o.copy = 1,
         NEW new, new = Put(now, Stored(op, e))
  PROVE  /\ new \in SUBSET Entries[list]
         /\ Numbered(new)
         /\ PlanIsJustified(b, new, p \ {<<op, e>>})
         /\ OneStays(new, p \ {<<op, e>>})
         /\ RestIsPlanned(b, now, p) => RestIsPlanned(b, new, p \ {<<op, e>>})
         /\ Agrees(now) => Agrees(new)
<1> DEFINE k == o.key
           s == Stored(op, e)
           q == <<op, e>>
           rest == p \ {q}
<1>1. o \in Entries[list] /\ k \in Keys(origin) /\ k \in KnownKeys
      BY OriginsList DEF Keys
<1>2. e.key = k
      BY <1>1, HeldEntry
<1>3. /\ s \in Entries[list]
      /\ s.key = k /\ s.copy = 1
      /\ \/ Kept(s.value) = Kept(o.value)
         \/ op = "add" /\ list = "filters" /\ ~o.value.enabled
      BY <1>1, StoredEntry
<1> \A x : x \in new <=> (x \in now /\ x.key # k) \/ x = s
    BY <1>3 DEF Put
<1>4. new \in SUBSET Entries[list]
      BY <1>3
<1>5. /\ Numbered(new)
      /\ \A j : Copies(new, j) = IF j = k THEN 1 ELSE Copies(now, j)
      /\ Keys(new) = Keys(now) \cup {k}
  <2>1. \A x : x \in new <=> (x \in now /\ x.key # s.key) \/ x = s
        BY <1>3
  <2> HIDE DEF s
  <2> QED
      BY <1>3, <2>1, PutEffect
<1>6. \A j : Deletions(rest, j) = Deletions(p, j)
      BY DEF Deletions
<1>7. Deletions(p, k) = {}
  <2>1. SUFFICES ASSUME NEW x \in p, x[1] = "delete", x[2].key = k PROVE FALSE
        BY DEF Deletions
  <2>2. list = "rewrites" /\ Copies(b, k) > 1
        BY <1>1, <2>1 DEF PlanIsJustified, Justified
  <2> QED
      BY <1>2, <2>2, NoCopies
<1>8. PlanIsJustified(b, new, rest)
  <2>1. ASSUME NEW x \in rest PROVE Justified(b, new, x)
    <3>1. Justified(b, now, x) /\ x \in p /\ x # q
          BY DEF PlanIsJustified
    <3>2. CASE /\ x = <<"add", x[2]>>
               /\ \E o2 \in origin : From(x[2], o2) /\ o2.copy = 1
               /\ x[2].key \notin Keys(now) \cup Keys(b)
      <4>1. x[2].key # k
        <5>1. CASE op = "add"
          <6>1. q[1] = "add" /\ x[1] = "add" /\ q[2] = e
                BY <3>2, <5>1
          <6>2. x[2].key # q[2].key
                BY <3>1, <6>1 DEF PlanIsJustified
          <6> QED
              BY <1>2, <6>1, <6>2
        <5>2. CASE op = "update"
              BY <1>2, <3>2, <5>2
        <5> QED
            BY <5>1, <5>2
      <4> QED
          BY <1>5, <3>2, <4>1 DEF Justified
    <3> QED
        BY <1>5, <3>1, <3>2 DEF Justified
  <2> QED
      BY <2>1 DEF PlanIsJustified
<1>9. OneStays(new, rest)
  <2>1. ASSUME NEW j \in KnownKeys
        PROVE  /\ IsFiniteSet(Deletions(rest, j))
               /\ j \in Keys(origin) /\ j \in Keys(new) =>
                    Cardinality(Deletions(rest, j)) < Copies(new, j)
    <3>1. CASE j # k
          BY <1>5, <1>6, <3>1 DEF OneStays
    <3>2. CASE j = k
      <4>1. Deletions(rest, j) = {}
            BY <1>6, <1>7, <3>2
      <4>2. IsFiniteSet({}) /\ Cardinality({}) = 0
            BY FS_EmptySet
      <4>3. Copies(new, j) = 1
            BY <1>5, <3>2
      <4>4. Cardinality(Deletions(rest, j)) = 0 /\ IsFiniteSet(Deletions(rest, j))
            BY <4>1, <4>2
      <4>5. 0 < 1
            OBVIOUS
      <4> QED
          BY <4>3, <4>4, <4>5
    <3> QED
        BY <3>1, <3>2
  <2> QED
      BY <2>1 DEF OneStays
<1>10. ASSUME RestIsPlanned(b, now, p) PROVE RestIsPlanned(b, new, rest)
  <2>1. \A j : j # k /\ Due(p, j) => Due(rest, j)
        BY <1>2 DEF Due
  <2>2. ASSUME NEW j \in KnownKeys \ Keys(origin)
        PROVE  Copies(new, j) <= Cardinality(Deletions(rest, j))
        BY <1>1, <1>5, <1>6, <1>10 DEF RestIsPlanned
  <2>3. ASSUME NEW j \in Keys(origin)
        PROVE  j \in Keys(new) \/ Copies(b, j) > 1 \/ Due(rest, j)
        BY <1>5, <1>10, <2>1 DEF RestIsPlanned
  <2>4. ASSUME list # "rewrites", NEW o2 \in origin
        PROVE  \/ Late(b, o2) \/ <<o2.key, Kept(o2.value)>> \in View(new)
               \/ Due(rest, o2.key)
    <3>1. CASE o2.key = k
      <4>1. o2 = o
            BY <2>4, <3>1, OriginsList
      <4>2. s \in new
            OBVIOUS
      <4>3. Kept(s.value) = Kept(o.value) => <<k, Kept(o.value)>> \in View(new)
            BY <1>3, <4>2 DEF View
      <4>4. op = "add" /\ list = "filters" /\ ~o.value.enabled => Late(b, o)
            BY <1>2 DEF Late
      <4> QED
          BY <1>3, <4>1, <4>3, <4>4
    <3>2. CASE o2.key # k
      <4>1. <<o2.key, Kept(o2.value)>> \in View(now) =>
              <<o2.key, Kept(o2.value)>> \in View(new)
            BY <3>2 DEF View
      <4> QED
          BY <1>10, <2>1, <2>4, <3>2, <4>1 DEF RestIsPlanned
    <3> QED
        BY <3>1, <3>2
  <2> QED
      BY <2>2, <2>3, <2>4 DEF RestIsPlanned
<1>11. ASSUME Agrees(now) PROVE Agrees(new)
  <2>1. View(now) = View(origin) /\ \A x \in now : x.copy = 1
        BY <1>11 DEF Agrees
  <2>2. k \in Keys(now)
    <3>1. <<k, Kept(o.value)>> \in View(now)
          BY <2>1 DEF View
    <3> QED
        BY <3>1 DEF View, Keys
  <2>3. op = "update" /\ list \in {"filters", "clients"}
        BY <1>2, <2>2
  <2>4. Kept(s.value) = Kept(o.value)
        BY <1>3, <2>3
  <2>5. ASSUME NEW x \in now, x.key = k PROVE Kept(x.value) = Kept(s.value)
    <3>1. <<k, Kept(x.value)>> \in View(origin)
          BY <2>1, <2>5 DEF View
    <3>2. PICK o2 \in origin : o2.key = k /\ Kept(o2.value) = Kept(x.value)
          BY <3>1 DEF View
    <3>3. o2 = o
          BY <2>3, <3>2, OriginsList
    <3> QED
        BY <2>4, <3>2, <3>3
  <2>6. View(new) = View(now)
    <3>1. ASSUME NEW x \in new PROVE <<x.key, Kept(x.value)>> \in View(now)
      <4>1. CASE x = s
        <5>1. <<k, Kept(o.value)>> \in View(origin)
              BY DEF View
        <5> QED
            BY <1>3, <2>1, <2>4, <4>1, <5>1
      <4>2. CASE x \in now
            BY <4>2 DEF View
      <4> QED
          BY <4>1, <4>2
    <3>2. ASSUME NEW x \in now PROVE <<x.key, Kept(x.value)>> \in View(new)
      <4>1. s \in new
            OBVIOUS
      <4>2. CASE x.key = k
        <5>1. <<s.key, Kept(s.value)>> \in View(new)
              BY <4>1 DEF View
        <5> QED
            BY <1>3, <2>5, <4>2, <5>1
      <4>3. CASE x.key # k
            BY <4>3 DEF View
      <4> QED
          BY <4>2, <4>3
    <3> QED
        BY <3>1, <3>2 DEF View
  <2> QED
      BY <1>3, <2>1, <2>6 DEF Agrees
<1> QED
    BY <1>4, <1>5, <1>8, <1>9, <1>10, <1>11

\* The case of an addition.
LEMMA AddKeeps ==
  ASSUME scenario \in Scenarios, NEW now \in SUBSET Entries[list], Numbered(now),
         NEW b, NEW p, PlanIsJustified(b, now, p), OneStays(now, p),
         NEW e, <<"add", e>> \in p,
         e.key \notin Keys(now) \cup Keys(b),
         NEW o \in origin, From(e, o), o.copy = 1,
         NEW new, new = Put(now, Stored("add", e))
  PROVE  /\ new \in SUBSET Entries[list]
         /\ Numbered(new)
         /\ PlanIsJustified(b, new, p \ {<<"add", e>>})
         /\ OneStays(new, p \ {<<"add", e>>})
         /\ RestIsPlanned(b, now, p) => RestIsPlanned(b, new, p \ {<<"add", e>>})
         /\ Agrees(now) => Agrees(new)
  BY PutKeeps

\* A request that is applied keeps the plan in order, and an agreement.
LEMMA RequestKeeps ==
  ASSUME scenario \in Scenarios, NEW now \in SUBSET Entries[list], Numbered(now),
         NEW b, NEW p, PlanIsJustified(b, now, p), OneStays(now, p),
         NEW q \in p, NEW new \in Outcomes(now, q)
  PROVE  /\ new \in SUBSET Entries[list]
         /\ Numbered(new)
         /\ PlanIsJustified(b, new, p \ {q})
         /\ OneStays(new, p \ {q})
         /\ RestIsPlanned(b, now, p) => RestIsPlanned(b, new, p \ {q})
         /\ Agrees(now) => Agrees(new)
<1>1. Justified(b, now, q)
      BY DEF PlanIsJustified
<1>2. CASE q = <<"refresh">>
  <2>1. q[1] = "refresh"
        BY <1>2
  <2>2. new = now
        BY <2>1 DEF Outcomes
  <2>3. RestIsPlanned(b, now, p) => RestIsPlanned(b, now, p \ {q})
    <3>1. \A k : Deletions(p \ {q}, k) = Deletions(p, k)
          BY <2>1 DEF Deletions
    <3>2. \A k : Due(p, k) => Due(p \ {q}, k)
          BY <2>1 DEF Due
    <3> QED
        BY <3>1, <3>2 DEF RestIsPlanned
  <2> QED
      BY <2>2, <2>3, FewerRequests
<1>3. CASE /\ q = <<"delete", q[2]>>
           /\ q[2] \in Entries[list]
           /\ q[2].key \in Keys(origin) =>
                list = "rewrites" /\ Copies(b, q[2].key) > 1
  <2> PICK e \in Entries[list] : e = q[2]
      BY <1>3
  <2>1. q = <<"delete", e>>
        BY <1>3
  <2>2. new \in Deleted(now, e.key)
        BY <2>1 DEF Outcomes
  <2>3. new \subseteq now /\ Numbered(new)
        BY <2>2, DeletionEffect
  <2>4. e.key \in Keys(origin) => list = "rewrites" /\ Copies(b, e.key) > 1
        BY <1>3
  <2> QED
      BY <2>1, <2>2, <2>3, <2>4, DeletionKeeps
<1>4. CASE /\ q = <<"add", q[2]>>
           /\ \E o \in origin : From(q[2], o) /\ o.copy = 1
           /\ q[2].key \notin Keys(now) \cup Keys(b)
  <2> PICK e : e = q[2]
      OBVIOUS
  <2>1. q = <<"add", e>> /\ e.key \notin Keys(now) \cup Keys(b)
        BY <1>4
  <2> PICK o \in origin : From(e, o) /\ o.copy = 1
      BY <1>4
  <2> DEFINE s == Stored("add", e)
  <2>2. o \in Entries[list] /\ e.key = o.key
        BY OriginsList, HeldEntry
  <2>3. s \in Entries[list] /\ s.key = o.key /\ s.copy = 1
        BY <2>2, StoredEntry
  <2>4. s \in [key : {s.key}, value : {s.value}, copy : Nat \ {0}]
        BY <2>3, EntryShapes
  <2>5. Copies(now, e.key) = 0
        BY <2>1, NoCopies
  <2>6. [s EXCEPT !.copy = Copies(now, e.key) + 1] = s
        BY <2>3, <2>4, <2>5
  <2>7. new = now \cup {s}
        BY <2>1, <2>6 DEF Outcomes
  <2>8. new = Put(now, s)
        BY <2>1, <2>2, <2>3, <2>7 DEF Keys, Put
  <2>9. <<"add", e>> \in p /\ q = <<"add", e>> /\ e.key \notin Keys(now) \cup Keys(b)
        BY <2>1
  <2>10. /\ new \in SUBSET Entries[list]
         /\ Numbered(new)
         /\ PlanIsJustified(b, new, p \ {<<"add", e>>})
         /\ OneStays(new, p \ {<<"add", e>>})
         /\ RestIsPlanned(b, now, p) => RestIsPlanned(b, new, p \ {<<"add", e>>})
         /\ Agrees(now) => Agrees(new)
    <3> HIDE <1>4
    <3> QED
        BY <2>8, <2>9, AddKeeps
  <2> QED
      BY <2>9, <2>10
<1>5. CASE /\ q = <<"update", q[2]>>
           /\ \E o \in origin : From(q[2], o)
           /\ q[2].key \in Keys(now)
           /\ list \in {"filters", "clients"}
  <2> PICK e : e = q[2]
      OBVIOUS
  <2>1. q = <<"update", e>> /\ e.key \in Keys(now) /\ list \in {"filters", "clients"}
        BY <1>5
  <2> PICK o \in origin : From(e, o)
      BY <1>5
  <2>2. o \in Entries[list] /\ e.key = o.key
        BY OriginsList, HeldEntry
  <2>3. o.copy = 1
        BY <2>1, <2>2, EntryShapes
  <2>4. new = {IF x.key = e.key THEN Stored("update", e) ELSE x : x \in now}
        BY <2>1 DEF Outcomes
  <2> PICK op \in {"add", "update"} : op = "update"
      OBVIOUS
  <2>5. new = Put(now, Stored(op, e))
        BY <2>1, <2>2, <2>3, <2>4, StoredEntry DEF Keys, Put
  <2>6. /\ <<op, e>> \in p /\ q = <<op, e>>
        /\ op = "add" => e.key \notin Keys(now) \cup Keys(b)
        /\ op = "update" => e.key \in Keys(now) /\ list \in {"filters", "clients"}
        BY <2>1
  <2> QED
      BY <2>3, <2>5, <2>6, PutKeeps
<1> QED
    BY <1>1, <1>2, <1>3, <1>4, <1>5 DEF Justified

-----------------------------------------------------------------------------
(* What the merge plans                                                    *)

\* What the comparison leaves of a list that is held.
LEMMA CutAgain ==
  ASSUME scenario \in Scenarios, NEW now, NEW other
  PROVE  AfterDiff(list, now, other) = {Cut(e, Keys(now)) : e \in other}
  BY DEF AfterDiff, Cut, WithZone

\* A zone that is cut twice is cut once.
LEMMA CutTwice ==
  ASSUME scenario \in Scenarios, NEW o \in origin, NEW keys, NEW more
  PROVE  Cut(Cut(o, keys), more) = Cut(o, keys \cup (more \cap Keys(origin)))
<1>1. o \in Entries[list] /\ o.key \in Keys(origin)
      BY OriginsList DEF Keys
<1>2. CASE list = "clients" /\ o.value.days /\ o.key \in keys
  <2>1. Cut(o, keys) = WithZone(o, NoZone)
        BY <1>2 DEF Cut
  <2>2. From(Cut(o, keys), o)
        BY <1>2, <2>1 DEF From
  <2> PICK e : e = WithZone(o, NoZone)
      OBVIOUS
  <2>3. WithZone(e, NoZone) = WithZone(o, NoZone)
        BY <1>1, <1>2, OtherZone
  <2>4. Cut(e, more) = e
        BY <2>3 DEF Cut
  <2> QED
      BY <1>2, <2>1, <2>4 DEF Cut
<1>3. CASE ~(list = "clients" /\ o.value.days /\ o.key \in keys)
  <2>1. Cut(o, keys) = o
        BY <1>3 DEF Cut
  <2>2. o.key \in more <=> o.key \in more \cap Keys(origin)
        BY <1>1
  <2> QED
      BY <1>3, <2>1, <2>2 DEF Cut
<1> QED
    BY <1>2, <1>3

\* A list that is held has the origin's keys, and keeps what the origin has of
\* an entry.
LEMMA HeldList ==
  ASSUME scenario \in Scenarios, NEW keys,
         NEW held, held = Cuts(keys)
  PROVE  /\ \A e \in held : \E o \in origin :
              /\ e = Cut(o, keys) /\ From(e, o)
              /\ e.key = o.key /\ e.copy = o.copy
         /\ \A o \in origin : \E e \in held :
              From(e, o) /\ e.key = o.key /\ e.copy = o.copy
         /\ Keys(held) = Keys(origin)
         /\ held \subseteq Held
<1>1. \A o \in origin :
        LET e == Cut(o, keys)
        IN From(e, o) /\ e.key = o.key /\ e.copy = o.copy /\ e \in Held
  <2>1. \A o \in origin : o \in Entries[list] /\ From(o, o)
    <3>1. \A o \in origin : o \in Entries[list]
          BY OriginsList
    <3>2. ASSUME NEW o PROVE From(o, o)
          BY DEF From
    <3> QED
        BY <3>1, <3>2
  <2>2. \A o \in origin : From(Cut(o, keys), o)
        BY <2>1, HeldEntry
  <2> QED
      BY <2>1, <2>2, HeldEntry
<1> QED
    BY <1>1 DEF Keys, Cuts

\* The plan that an action makes of the list of its replica.
Merge(now, held) ==
  LET adds == Adds(now, held)
      updates == Updates(list, now, held)
  IN ({"delete"} \X Removes(now, held))
       \cup ({"add"} \X adds)
       \cup ({"update"} \X AfterDiff(list, now, updates))
       \cup {q \in {<<"refresh">>} : list = "filters" /\ adds \cup updates # {}}

\* The requests of a plan.
LEMMA MergeRequests ==
  ASSUME scenario \in Scenarios, NEW now, NEW keys,
         NEW held, held = Cuts(keys),
         NEW p, p = Merge(now, held)
  PROVE  /\ \A q \in p :
              \/ q = <<"refresh">>
              \/ q = <<"delete", q[2]>> /\ q[2] \in Removes(now, held)
              \/ q = <<"add", q[2]>> /\ q[2] \in Adds(now, held)
              \/ /\ q = <<"update", q[2]>>
                 /\ \E e \in Updates(list, now, held) : q[2] = Cut(e, Keys(now))
         /\ \A e \in Removes(now, held) : <<"delete", e>> \in p
         /\ \A e \in Adds(now, held) : <<"add", e>> \in p
         /\ \A e \in Updates(list, now, held) : <<"update", Cut(e, Keys(now))>> \in p
<1> DEFINE U == Updates(list, now, held)
           A == AfterDiff(list, now, U)
<1>1. A = {Cut(e, Keys(now)) : e \in U}
      BY CutAgain
<1>2. p = ({"delete"} \X Removes(now, held))
            \cup ({"add"} \X Adds(now, held))
            \cup ({"update"} \X A)
            \cup {q \in {<<"refresh">>} : list = "filters" /\ Adds(now, held) \cup U # {}}
      BY DEF Merge
<1> HIDE DEF A, U
<1>3. ASSUME NEW q \in p
      PROVE  \/ q = <<"refresh">>
             \/ q = <<"delete", q[2]>> /\ q[2] \in Removes(now, held)
             \/ q = <<"add", q[2]>> /\ q[2] \in Adds(now, held)
             \/ q = <<"update", q[2]>> /\ q[2] \in A
  <2>1. CASE q \in {"delete"} \X Removes(now, held)
        BY <2>1
  <2>2. CASE q \in {"add"} \X Adds(now, held)
        BY <2>2
  <2>3. CASE q \in {"update"} \X A
        BY <2>3
  <2>4. CASE q \in {x \in {<<"refresh">>} :
                      list = "filters" /\ Adds(now, held) \cup U # {}}
        BY <2>4
  <2> QED
      BY <1>2, <2>1, <2>2, <2>3, <2>4
<1>4. \A e \in Removes(now, held) : <<"delete", e>> \in p
      BY <1>2
<1>5. \A e \in Adds(now, held) : <<"add", e>> \in p
      BY <1>2
<1>6. \A e \in A : <<"update", e>> \in p
      BY <1>2
<1> QED
    BY <1>1, <1>3, <1>4, <1>5, <1>6 DEF U

\* A merge deletes the copies of a rewrite but the first, and all entries of a
\* key that the origin lacks.
LEMMA MergeDeletions ==
  ASSUME scenario \in Scenarios, NEW now \in SUBSET Entries[list], Numbered(now),
         NEW keys, NEW held, held = Cuts(keys),
         NEW p, p = Merge(now, held), NEW k
  PROVE  /\ IsFiniteSet(Deletions(p, k))
         /\ k \notin Keys(origin) => Copies(now, k) = Cardinality(Deletions(p, k))
         /\ k \in Keys(origin) /\ k \in Keys(now) =>
              Cardinality(Deletions(p, k)) < Copies(now, k)
<1> DEFINE R == {e \in Removes(now, held) : e.key = k}
           D == Deletions(p, k)
<1>1. D = {"delete"} \X R
  <2>1. ASSUME NEW q \in D PROVE q \in {"delete"} \X R
    <3>1. q \in p /\ q[1] = "delete" /\ q[2].key = k
          BY DEF Deletions
    <3>2. q = <<"delete", q[2]>> /\ q[2] \in Removes(now, held)
          BY <3>1, MergeRequests
    <3> QED
        BY <3>1, <3>2
  <2>2. ASSUME NEW q \in {"delete"} \X R PROVE q \in D
    <3>1. PICK e \in R : q = <<"delete", e>>
          OBVIOUS
    <3>2. q \in p
          BY <3>1, MergeRequests
    <3> QED
        BY <3>1, <3>2 DEF Deletions
  <2> QED
      BY <2>1, <2>2
<1>2. Keys(held) = Keys(origin)
      BY HeldList
<1>3. R \in SUBSET OfKey(now, k)
      BY DEF Removes, OfKey
<1>4. /\ IsFiniteSet(OfKey(now, k)) /\ Copies(now, k) \in Nat
      /\ Copies(now, k) = Cardinality(OfKey(now, k))
      BY CopiesAreNumbered
<1>5. k \notin Keys(origin) => R = OfKey(now, k)
      BY <1>2 DEF Removes, OfKey
<1>6. ASSUME k \in Keys(origin), k \in Keys(now)
      PROVE  \E e \in OfKey(now, k) : R \in SUBSET (OfKey(now, k) \ {e})
  <2>1. 1 \in 1..Copies(now, k)
        BY <1>4, <1>6, CopiesAreNumbered
  <2>2. PICK e \in now : e.key = k /\ e.copy = 1
        BY <2>1, CopiesAreNumbered
  <2>3. e \notin R
        BY <1>2, <1>6, <2>2 DEF Removes
  <2> QED
      BY <1>3, <2>2, <2>3 DEF OfKey
<1> HIDE DEF R
<1>7. IsFiniteSet(R)
      BY <1>3, <1>4, FS_Subset
<1>8. IsFiniteSet(D) /\ Cardinality(D) = Cardinality(R)
  <2>1. IsFiniteSet({"delete"}) /\ Cardinality({"delete"}) = 1
        BY FS_Singleton
  <2>2. Cardinality(R) \in Nat
        BY <1>7, FS_CardinalityType
  <2> HIDE DEF D
  <2>3. /\ IsFiniteSet({"delete"} \X R)
        /\ Cardinality({"delete"} \X R) = Cardinality({"delete"}) * Cardinality(R)
        BY <1>7, <2>1, FS_Product
  <2> QED
      BY <1>1, <2>1, <2>2, <2>3
<1>9. ASSUME k \in Keys(origin), k \in Keys(now)
      PROVE  Cardinality(R) < Copies(now, k)
  <2> DEFINE O == OfKey(now, k)
  <2>1. PICK e \in O : R \in SUBSET (O \ {e})
        BY <1>6, <1>9
  <2> HIDE DEF O
  <2>2. IsFiniteSet(O \ {e}) /\ Cardinality(O \ {e}) = Cardinality(O) - 1
        BY <1>4, FS_RemoveElement DEF O
  <2>3. Cardinality(R) <= Cardinality(O \ {e})
        BY <2>1, <2>2, FS_Subset
  <2>4. Cardinality(R) \in Nat
        BY <1>7, FS_CardinalityType
  <2>5. Cardinality(O) \in Nat /\ Copies(now, k) = Cardinality(O)
        BY <1>4 DEF O
  <2>6. Cardinality(O \ {e}) \in Nat
        BY <2>2, FS_CardinalityType
  <2> QED
      BY <2>2, <2>3, <2>4, <2>5, <2>6
<1> QED
    BY <1>4, <1>5, <1>8, <1>9

\* The plan of an action, when it begins.
LEMMA MergePlans ==
  ASSUME scenario \in Scenarios, NEW now \in SUBSET Entries[list], Numbered(now),
         NEW keys, NEW held, held = Cuts(keys),
         NEW p, p = Merge(now, held)
  PROVE  /\ PlanIsJustified(now, now, p)
         /\ OneStays(now, p)
         /\ RestIsPlanned(now, now, p)
<1>1. ASSUME NEW q \in p PROVE Justified(now, now, q)
  <2>1. CASE q = <<"refresh">>
        BY <2>1 DEF Justified
  <2>2. CASE q = <<"delete", q[2]>> /\ q[2] \in Removes(now, held)
    <3> PICK e : e = q[2]
        OBVIOUS
    <3>1. e \in Entries[list] /\ e \in now
          BY <2>2 DEF Removes
    <3>2. ASSUME e.key \in Keys(origin)
          PROVE  list = "rewrites" /\ Copies(now, e.key) > 1
      <4>1. e.copy > 1
            BY <2>2, <3>2, HeldList DEF Removes
      <4>2. list = "rewrites"
        <5>1. list # "rewrites" => e.copy = 1
              BY <3>1, EntryShapes
        <5> QED
            BY <4>1, <5>1
      <4>3. e.copy \in 1..Copies(now, e.key)
            BY <3>1 DEF Numbered
      <4>4. Copies(now, e.key) \in Nat
            BY CopiesAreNumbered
      <4> QED
          BY <4>1, <4>2, <4>3, <4>4
    <3> QED
        BY <2>2, <3>1, <3>2 DEF Justified
  <2>3. CASE q = <<"add", q[2]>> /\ q[2] \in Adds(now, held)
    <3> PICK e : e = q[2]
        OBVIOUS
    <3>1. e \in held /\ e.key \notin Keys(now) /\ e.copy = 1
          BY <2>3 DEF Adds
    <3>2. \E o \in origin : From(e, o) /\ o.copy = 1
          BY <3>1, HeldList
    <3> QED
        BY <2>3, <3>1, <3>2 DEF Justified
  <2>4. CASE /\ q = <<"update", q[2]>>
             /\ \E e \in Updates(list, now, held) : q[2] = Cut(e, Keys(now))
    <3> PICK e \in Updates(list, now, held) : q[2] = Cut(e, Keys(now))
        BY <2>4
    <3>1. PICK t \in now : t.key = e.key /\ ~Same(list, t.value, e.value)
          BY DEF Updates
    <3>2. e \in held /\ e.key \in Keys(now)
          BY <3>1 DEF Updates, Keys
    <3>3. PICK o \in origin : From(e, o) /\ e.key = o.key
          BY <3>2, HeldList
    <3>4. o \in Entries[list]
          BY OriginsList
    <3>5. From(Cut(e, Keys(now)), o)
          BY <3>3, <3>4, HeldEntry
    <3>6. q[2].key = o.key
          BY <3>4, <3>5, HeldEntry
    <3>7. list \in {"filters", "clients"}
      <4>1. \A v, w : list # "filters" /\ list # "clients" => Same(list, v, w)
            BY Zenon DEF Same
      <4> QED
          BY <3>1, <4>1
    <3> QED
        BY <2>4, <3>2, <3>3, <3>5, <3>6, <3>7 DEF Justified
  <2> QED
      BY <2>1, <2>2, <2>3, <2>4, MergeRequests
<1>2. ASSUME NEW q1 \in p, NEW q2 \in p,
             q1[1] = "add", q2[1] = "add", q1[2].key = q2[2].key
      PROVE  q1 = q2
  <2>1. /\ q1 = <<"add", q1[2]>> /\ q1[2] \in Adds(now, held)
        /\ q2 = <<"add", q2[2]>> /\ q2[2] \in Adds(now, held)
        BY <1>2, MergeRequests
  <2> PICK e1, e2 : e1 = q1[2] /\ e2 = q2[2]
      OBVIOUS
  <2>2. e1 \in held /\ e2 \in held /\ e1.copy = 1 /\ e2.copy = 1
        BY <2>1 DEF Adds
  <2>3. PICK o1 \in origin : e1 = Cut(o1, keys) /\ e1.key = o1.key /\ e1.copy = o1.copy
        BY <2>2, HeldList
  <2>4. PICK o2 \in origin : e2 = Cut(o2, keys) /\ e2.key = o2.key /\ e2.copy = o2.copy
        BY <2>2, HeldList
  <2>5. o1 = o2
        BY <1>2, <2>2, <2>3, <2>4, OriginsList DEF Numbered
  <2> QED
      BY <2>1, <2>3, <2>4, <2>5
<1>3. \A k : k \in Keys(now) \cup KnownKeys => IsFiniteSet(Deletions(p, k))
      BY MergeDeletions
<1>4. OneStays(now, p)
      BY <1>3, MergeDeletions DEF OneStays
<1>5. ASSUME NEW o \in origin, o.copy = 1, o.key \notin Keys(now)
      PROVE  Due(p, o.key)
  <2>1. PICK e \in held : e.key = o.key /\ e.copy = o.copy
        BY HeldList
  <2>2. e \in Adds(now, held)
        BY <1>5, <2>1 DEF Adds
  <2>3. <<"add", e>> \in p
        BY <2>2, MergeRequests
  <2> QED
      BY <2>1, <2>3 DEF Due
<1>6. ASSUME NEW k \in Keys(origin), k \notin Keys(now) PROVE Due(p, k)
  <2>1. Numbered(origin)
        BY OriginsList
  <2>2. Copies(origin, k) \in Nat /\ Copies(origin, k) # 0
        BY <2>1, CopiesAreNumbered
  <2>3. 1 \in 1..Copies(origin, k)
        BY <2>2
  <2>4. PICK o \in origin : o.key = k /\ o.copy = 1
        BY <2>1, <2>3, CopiesAreNumbered
  <2> QED
      BY <1>5, <1>6, <2>4
<1>7. ASSUME list # "rewrites", NEW o \in origin, ~Due(p, o.key)
      PROVE  <<o.key, Kept(o.value)>> \in View(now)
  <2>1. o \in Entries[list] /\ o.copy = 1
        BY <1>7, OriginsList, EntryShapes
  <2>2. PICK t \in now : t.key = o.key
        BY <1>5, <1>7, <2>1 DEF Keys
  <2>3. PICK e \in held : From(e, o) /\ e.key = o.key
        BY HeldList
  <2>4. Same(list, t.value, e.value)
    <3>1. SUFFICES ASSUME ~Same(list, t.value, e.value) PROVE FALSE
          OBVIOUS
    <3>2. e \in Updates(list, now, held)
          BY <2>2, <2>3, <3>1 DEF Updates
    <3>3. <<"update", Cut(e, Keys(now))>> \in p
          BY <3>2, MergeRequests
    <3>4. Cut(e, Keys(now)).key = o.key
      <4>1. From(Cut(e, Keys(now)), o)
            BY <2>1, <2>3, HeldEntry
      <4> QED
          BY <2>1, <4>1, HeldEntry
    <3> QED
        BY <1>7, <3>3, <3>4 DEF Due
  <2>5. Kept(t.value) = Kept(o.value)
        BY <2>1, <2>3, <2>4, SameIsKept
  <2> QED
      BY <2>2, <2>5 DEF View
<1>8. RestIsPlanned(now, now, p)
  <2>1. \A k \in KnownKeys \ Keys(origin) :
          Copies(now, k) <= Cardinality(Deletions(p, k))
    <3>1. \A k : Copies(now, k) \in Nat
          BY CopiesAreNumbered
    <3> QED
        BY <3>1, MergeDeletions
  <2> QED
      BY <1>6, <1>7, <2>1 DEF RestIsPlanned
<1> QED
    BY <1>1, <1>2, <1>4, <1>8 DEF PlanIsJustified
-----------------------------------------------------------------------------
(* Steps                                                                   *)

\* The terms of the invariant depend on the scenario, which stays.
LEMMA SameScenario ==
  ASSUME scenario' = scenario, NEW b, NEW now, NEW p
  PROVE  /\ PlanIsJustified(b, now, p) => PlanIsJustified(b, now, p)'
         /\ OneStays(now, p) => OneStays(now, p)'
         /\ RestIsPlanned(b, now, p) => RestIsPlanned(b, now, p)'
<1>1. list' = list /\ origin' = origin
      BY DEF list, origin
<1>2. ASSUME NEW v PROVE Kept(v)' = Kept(v)
      BY <1>1, Zenon DEF Kept
<1>3. ASSUME NEW e, NEW o PROVE From(e, o)' <=> From(e, o)
      BY <1>1, Zenon DEF From
<1>4. ASSUME NEW q PROVE Justified(b, now, q)' <=> Justified(b, now, q)
      BY <1>1, <1>3 DEF Justified
<1>5. PlanIsJustified(b, now, p) => PlanIsJustified(b, now, p)'
      BY <1>4 DEF PlanIsJustified
<1>6. KnownKeys' = KnownKeys
      BY <1>1 DEF KnownKeys
<1>7. OneStays(now, p) => OneStays(now, p)'
      BY <1>1, <1>6 DEF OneStays
<1>8. View(now)' = View(now)
      BY <1>2 DEF View
<1>9. ASSUME NEW o PROVE Late(b, o)' <=> Late(b, o)
      BY <1>1, Zenon DEF Late
<1>10. RestIsPlanned(b, now, p) => RestIsPlanned(b, now, p)'
       BY <1>1, <1>2, <1>6, <1>8, <1>9 DEF RestIsPlanned
<1> QED
    BY <1>5, <1>7, <1>10

\* What a step has to show of the action that it leaves.
LEMMA ActionInvNext ==
  ASSUME scenario' = scenario, pc' = "action", current' \in Replicas,
         NEW b, b = before', NEW now, now = replica'[current'], NEW p, p = plan',
         PlanIsJustified(b, now, p), OneStays(now, p),
         failed' \/ RestIsPlanned(b, now, p)
  PROVE  ActionInv'
<1>1. /\ PlanIsJustified(b, now, p)'
      /\ OneStays(now, p)'
      /\ failed' \/ RestIsPlanned(b, now, p)'
      BY SameScenario
<1> QED
    BY <1>1 DEF ActionInv

\* The pass still holds the origin's list after a comparison with a replica's.
LEMMA CutsAgain ==
  ASSUME scenario \in Scenarios, NEW now, NEW keys
  PROVE  AfterDiff(list, now, Cuts(keys)) = Cuts(keys \cup (Keys(now) \cap Keys(origin)))
<1> DEFINE both == keys \cup (Keys(now) \cap Keys(origin))
<1>1. AfterDiff(list, now, Cuts(keys)) = {Cut(e, Keys(now)) : e \in Cuts(keys)}
      BY CutAgain
<1>2. \A o \in origin : Cut(Cut(o, keys), Keys(now)) = Cut(o, both)
      BY CutTwice
<1> HIDE DEF both
<1>3. {Cut(e, Keys(now)) : e \in Cuts(keys)} = Cuts(both)
      BY <1>2 DEF Cuts
<1> QED
    BY <1>1, <1>3 DEF both
\* The invariant holds at first.
LEMMA InvInit == Init => Inv
<1> SUFFICES ASSUME Init PROVE Inv
    OBVIOUS
<1>1. /\ scenario \in Scenarios
      /\ replica = scenario.replica
      /\ pc = "idle" /\ snapshot = {} /\ todo = {} /\ current = NoReplica
      /\ before = {} /\ plan = {} /\ failed = FALSE /\ faults = 0
      BY DEF Init
<1>2. replica \in [Replicas -> SUBSET Entries[list]]
      BY <1>1, ListSyncAssumption DEF list
<1>3. \A r \in Replicas : Numbered(replica[r])
      BY <1>1, NumberedAssumption
<1>4. 0 \in 0..MaxFaults
      BY ListSyncAssumption
<1>5. HeldIsOrigins /\ ActionInv
      BY <1>1 DEF HeldIsOrigins, ActionInv
<1> QED
    BY <1>1, <1>2, <1>3, <1>4, <1>5 DEF Inv

\* The bound on the failures.
LEMMA FailureCounts ==
  ASSUME faults \in 0..MaxFaults, Failure
  PROVE  faults' \in 0..MaxFaults
  BY ListSyncAssumption DEF Failure

\* A step that leaves the scenario and the lists, at the end of which no action
\* runs.
LEMMA QuietStep ==
  ASSUME Inv, UNCHANGED <<scenario, replica>>,
         pc' \in {"idle", "replicas"}, todo' \in SUBSET Replicas,
         before' \in SUBSET Entries[list], faults' \in 0..MaxFaults,
         current' = NoReplica, plan' = {}, failed' = FALSE,
         IF pc' = "idle" THEN snapshot' = {}
         ELSE \E keys \in SUBSET Keys(origin) : snapshot' = Cuts(keys)
  PROVE  Inv'
<1>1. list' = list /\ origin' = origin
      BY DEF list, origin
<1>2. \A keys : Cuts(keys)' = Cuts(keys)
  <2>1. ASSUME NEW o, NEW keys PROVE Cut(o, keys)' = Cut(o, keys)
        BY <1>1, Zenon DEF Cut
  <2> QED
      BY <1>1, <2>1 DEF Cuts
<1>3. HeldIsOrigins'
      BY <1>1, <1>2 DEF HeldIsOrigins
<1>4. ActionInv'
      BY DEF ActionInv
<1> QED
    BY <1>1, <1>3, <1>4 DEF Inv

\* A pass begins with the origin's list as it is.
LEMMA StartPassInv == Inv /\ StartPass => Inv'
<1> SUFFICES ASSUME Inv, StartPass PROVE Inv'
    OBVIOUS
<1>1. /\ pc = "idle" /\ pc' = "replicas" /\ snapshot' = origin /\ todo' = Replicas
      /\ UNCHANGED <<scenario, replica, current, before, plan, failed, faults>>
      BY DEF StartPass, action
<1>2. origin = Cuts({})
  <2>1. ASSUME NEW o PROVE Cut(o, {}) = o
        BY DEF Cut
  <2> QED
      BY <2>1 DEF Cuts
<1>3. \E keys \in SUBSET Keys(origin) : snapshot' = Cuts(keys)
      BY <1>1, <1>2
<1>4. /\ current = NoReplica /\ plan = {} /\ failed = FALSE
      /\ before \in SUBSET Entries[list] /\ faults \in 0..MaxFaults
      BY <1>1 DEF Inv, ActionInv
<1> QED
    BY <1>1, <1>3, <1>4, QuietStep

\* What a pass and an action that run have in common.
LEMMA Running ==
  ASSUME Inv
  PROVE  /\ pc = "idle" => snapshot = {}
         /\ pc # "idle" => \E keys \in SUBSET Keys(origin) : snapshot = Cuts(keys)
         /\ pc # "action" => current = NoReplica /\ plan = {} /\ failed = FALSE
         /\ pc = "action" => /\ current \in Replicas
                             /\ PlanIsJustified(before, replica[current], plan)
                             /\ OneStays(replica[current], plan)
                             /\ ~failed => RestIsPlanned(before, replica[current], plan)
  BY DEF Inv, HeldIsOrigins, ActionInv

\* A step of an action: the list of its replica may change.
LEMMA ActionStep ==
  ASSUME Inv, scenario' = scenario, pc # "idle", pc' = "action",
         replica' \in [Replicas -> SUBSET Entries[list]],
         \A r \in Replicas : Numbered(replica'[r]),
         todo' \in SUBSET Replicas, before' \in SUBSET Entries[list],
         failed' \in BOOLEAN, faults' \in 0..MaxFaults, current' \in Replicas,
         NEW b, b = before', NEW now, now = replica'[current'], NEW p, p = plan',
         PlanIsJustified(b, now, p), OneStays(now, p),
         failed' \/ RestIsPlanned(b, now, p),
         \E keys \in SUBSET Keys(origin) : snapshot' = Cuts(keys)
  PROVE  Inv'
<1>1. list' = list /\ origin' = origin
      BY DEF list, origin
<1>2. \A keys : Cuts(keys)' = Cuts(keys)
  <2>1. ASSUME NEW o, NEW keys PROVE Cut(o, keys)' = Cut(o, keys)
        BY <1>1, Zenon DEF Cut
  <2> QED
      BY <1>1, <2>1 DEF Cuts
<1>3. HeldIsOrigins'
      BY <1>1, <1>2 DEF HeldIsOrigins
<1>4. ActionInv'
      BY ActionInvNext
<1> QED
    BY <1>1, <1>3, <1>4 DEF Inv

\* An action begins with the plan of the merge.
LEMMA BeginActionInv ==
  ASSUME Inv, NEW r \in todo, BeginAction(r)
  PROVE  Inv'
<1>1. /\ pc = "replicas" /\ pc' = "action"
      /\ todo' = todo \ {r} /\ current' = r /\ before' = replica[r]
      /\ snapshot' = AfterDiff(list, replica[r], snapshot)
      /\ plan' = Merge(replica[r], snapshot)
      /\ UNCHANGED <<scenario, replica, failed, faults>>
      BY DEF BeginAction, Merge
<1>2. /\ scenario \in Scenarios /\ r \in Replicas
      /\ replica \in [Replicas -> SUBSET Entries[list]]
      /\ \A s \in Replicas : Numbered(replica[s])
      /\ todo \in SUBSET Replicas /\ failed \in BOOLEAN /\ faults \in 0..MaxFaults
      BY DEF Inv
<1> PICK now, p : now = replica[r] /\ p = plan'
    OBVIOUS
<1>3. now \in SUBSET Entries[list] /\ Numbered(now)
      BY <1>2
<1>4. PICK keys \in SUBSET Keys(origin) : snapshot = Cuts(keys)
      BY <1>1, Running
<1>5. /\ PlanIsJustified(now, now, p)
      /\ OneStays(now, p)
      /\ RestIsPlanned(now, now, p)
      BY <1>1, <1>2, <1>3, <1>4, MergePlans
<1>6. \E more \in SUBSET Keys(origin) : snapshot' = Cuts(more)
  <2>1. snapshot' = Cuts(keys \cup (Keys(now) \cap Keys(origin)))
        BY <1>1, <1>2, <1>4, CutsAgain
  <2> QED
      BY <2>1
<1>7. now = before' /\ now = replica'[current']
      BY <1>1
<1> QED
    BY <1>1, <1>2, <1>3, <1>5, <1>6, <1>7, ActionStep

\* A replica that is passed over is not touched.
LEMMA SkipReplicaInv ==
  ASSUME Inv, NEW r \in todo, SkipReplica(r)
  PROVE  Inv'
<1>1. /\ pc = "replicas" /\ pc' = pc /\ Failure /\ todo' = todo \ {r}
      /\ UNCHANGED <<scenario, replica, snapshot, current, before, plan, failed>>
      BY DEF SkipReplica, action
<1>2. /\ before \in SUBSET Entries[list] /\ faults \in 0..MaxFaults
      /\ todo \in SUBSET Replicas
      BY DEF Inv
<1>3. faults' \in 0..MaxFaults
      BY <1>1, <1>2, FailureCounts
<1>4. \E keys \in SUBSET Keys(origin) : snapshot' = Cuts(keys)
      BY <1>1, Running
<1>5. current' = NoReplica /\ plan' = {} /\ failed' = FALSE
      BY <1>1, Running
<1> QED
    BY <1>1, <1>2, <1>3, <1>4, <1>5, QuietStep
\* What a request makes of the list of the action's replica.
LEMMA AppliedKeeps ==
  ASSUME Inv, pc = "action", NEW q \in plan, Apply(q),
         NEW b, b = before, NEW p, p = plan
  PROVE  \E new \in SUBSET Entries[list] :
           /\ replica' = [replica EXCEPT ![current] = new]
           /\ Numbered(new)
           /\ PlanIsJustified(b, new, p \ {q})
           /\ OneStays(new, p \ {q})
           /\ failed \/ RestIsPlanned(b, new, p \ {q})
           /\ Agrees(replica[current]) => Agrees(new)
<1> PICK now : now = replica[current]
    OBVIOUS
<1>1. current \in Replicas
      BY Running
<1>2. /\ scenario \in Scenarios
      /\ now \in SUBSET Entries[list] /\ Numbered(now)
      BY <1>1 DEF Inv
<1>3. /\ PlanIsJustified(b, now, p)
      /\ OneStays(now, p)
      /\ failed \/ RestIsPlanned(b, now, p)
  <2>1. /\ PlanIsJustified(before, replica[current], plan)
        /\ OneStays(replica[current], plan)
        /\ ~failed => RestIsPlanned(before, replica[current], plan)
        BY Running
  <2> QED
      BY <2>1
<1>4. PICK new \in Outcomes(now, q) : replica' = [replica EXCEPT ![current] = new]
      BY DEF Apply
<1>5. /\ new \in SUBSET Entries[list]
      /\ Numbered(new)
      /\ PlanIsJustified(b, new, p \ {q})
      /\ OneStays(new, p \ {q})
      /\ RestIsPlanned(b, now, p) => RestIsPlanned(b, new, p \ {q})
      /\ Agrees(now) => Agrees(new)
      BY <1>2, <1>3, RequestKeeps
<1> QED
    BY <1>3, <1>4, <1>5

\* A request that succeeds.
LEMMA RequestSucceedsInv ==
  ASSUME Inv, NEW q \in plan, RequestSucceeds(q)
  PROVE  Inv'
<1>1. /\ pc = "action" /\ pc' = pc /\ Apply(q) /\ plan' = plan \ {q}
      /\ UNCHANGED <<scenario, snapshot, todo, current, before, failed, faults>>
      BY DEF RequestSucceeds, NextRequest, pass
<1>2. /\ current \in Replicas
      /\ replica \in [Replicas -> SUBSET Entries[list]]
      /\ \A r \in Replicas : Numbered(replica[r])
      /\ before \in SUBSET Entries[list] /\ faults \in 0..MaxFaults
      /\ todo \in SUBSET Replicas /\ failed \in BOOLEAN
      BY <1>1, Running DEF Inv
<1> PICK b, p : b = before /\ p = plan
    OBVIOUS
<1>3. PICK new \in SUBSET Entries[list] :
        /\ replica' = [replica EXCEPT ![current] = new]
        /\ Numbered(new)
        /\ PlanIsJustified(b, new, p \ {q})
        /\ OneStays(new, p \ {q})
        /\ failed \/ RestIsPlanned(b, new, p \ {q})
      BY <1>1, AppliedKeeps
<1>4. /\ replica' \in [Replicas -> SUBSET Entries[list]]
      /\ \A r \in Replicas : Numbered(replica'[r])
      /\ replica'[current'] = new
      BY <1>1, <1>2, <1>3
<1>5. \E keys \in SUBSET Keys(origin) : snapshot' = Cuts(keys)
      BY <1>1, Running
<1> PICK rest : rest = p \ {q}
    OBVIOUS
<1>6. /\ PlanIsJustified(b, new, rest)
      /\ OneStays(new, rest)
      /\ failed' \/ RestIsPlanned(b, new, rest)
      /\ rest = plan'
      BY <1>1, <1>3
<1> QED
    BY <1>1, <1>2, <1>4, <1>5, <1>6, ActionStep

\* A request that fails, applied or not: the rest of the plan or nothing of it
\* is left.
LEMMA RequestFailsInv ==
  ASSUME Inv, NEW q \in plan, RequestFails(q)
  PROVE  Inv'
<1>1. /\ pc = "action" /\ pc' = pc /\ Failure /\ failed' = TRUE
      /\ UNCHANGED replica \/ Apply(q)
      /\ plan' = plan \ {q} \/ plan' = {}
      /\ UNCHANGED <<scenario, snapshot, todo, current, before>>
      BY DEF RequestFails, NextRequest, pass
<1>2. /\ current \in Replicas
      /\ replica \in [Replicas -> SUBSET Entries[list]]
      /\ \A r \in Replicas : Numbered(replica[r])
      /\ before \in SUBSET Entries[list] /\ faults \in 0..MaxFaults
      /\ todo \in SUBSET Replicas
      BY <1>1, Running DEF Inv
<1>3. faults' \in 0..MaxFaults
      BY <1>1, <1>2, FailureCounts
<1> PICK b, p : b = before /\ p = plan
    OBVIOUS
<1>4. \E new \in SUBSET Entries[list] :
        /\ replica' = [replica EXCEPT ![current] = new]
        /\ Numbered(new)
        /\ PlanIsJustified(b, new, p \ {q})
        /\ OneStays(new, p \ {q})
  <2>1. CASE Apply(q)
        BY <1>1, <2>1, AppliedKeeps
  <2>2. CASE UNCHANGED replica
    <3> PICK now : now = replica[current]
        OBVIOUS
    <3>1. now \in SUBSET Entries[list] /\ Numbered(now)
          BY <1>2
    <3>2. PlanIsJustified(b, now, p) /\ OneStays(now, p)
      <4>1. /\ PlanIsJustified(before, replica[current], plan)
            /\ OneStays(replica[current], plan)
            BY <1>1, Running
      <4> QED
          BY <4>1
    <3>3. p \ {q} \in SUBSET p
          OBVIOUS
    <3>4. PlanIsJustified(b, now, p \ {q}) /\ OneStays(now, p \ {q})
          BY <3>1, <3>2, <3>3, FewerRequests
    <3>5. replica' = [replica EXCEPT ![current] = now]
          BY <1>2, <2>2
    <3> QED
        BY <3>1, <3>4, <3>5
  <2> QED
      BY <1>1, <2>1, <2>2
<1>5. PICK new \in SUBSET Entries[list] :
        /\ replica' = [replica EXCEPT ![current] = new]
        /\ Numbered(new)
        /\ PlanIsJustified(b, new, p \ {q})
        /\ OneStays(new, p \ {q})
      BY <1>4
<1>6. /\ replica' \in [Replicas -> SUBSET Entries[list]]
      /\ \A r \in Replicas : Numbered(replica'[r])
      /\ replica'[current'] = new
      BY <1>1, <1>2, <1>5
<1> PICK more, rest : more = p \ {q} /\ rest = plan'
    OBVIOUS
<1>7. PlanIsJustified(b, new, rest) /\ OneStays(new, rest)
  <2>1. PlanIsJustified(b, new, more) /\ OneStays(new, more)
        BY <1>5
  <2>2. rest \in SUBSET more
        BY <1>1
  <2> QED
      BY <1>5, <2>1, <2>2, FewerRequests
<1>8. \E keys \in SUBSET Keys(origin) : snapshot' = Cuts(keys)
      BY <1>1, Running
<1> QED
    BY <1>1, <1>2, <1>3, <1>6, <1>7, <1>8, ActionStep

\* An action ends.
LEMMA EndActionInv == Inv /\ EndAction => Inv'
<1> SUFFICES ASSUME Inv, EndAction PROVE Inv'
    OBVIOUS
<1>1. /\ pc = "action" /\ pc' = "replicas"
      /\ current' = NoReplica /\ before' = {} /\ plan' = {} /\ failed' = FALSE
      /\ UNCHANGED <<scenario, replica, snapshot, todo, faults>>
      BY DEF EndAction, ClearAction, pass
<1>2. todo \in SUBSET Replicas /\ faults \in 0..MaxFaults
      BY DEF Inv
<1>3. \E keys \in SUBSET Keys(origin) : snapshot' = Cuts(keys)
      BY <1>1, Running
<1> QED
    BY <1>1, <1>2, <1>3, QuietStep

\* A pass ends.
LEMMA EndPassInv == Inv /\ EndPass => Inv'
<1> SUFFICES ASSUME Inv, EndPass PROVE Inv'
    OBVIOUS
<1>1. /\ pc = "replicas" /\ pc' = "idle" /\ snapshot' = {}
      /\ UNCHANGED <<scenario, replica, todo, current, before, plan, failed, faults>>
      BY DEF EndPass, action
<1>2. /\ todo \in SUBSET Replicas /\ faults \in 0..MaxFaults
      /\ before \in SUBSET Entries[list]
      BY DEF Inv
<1>3. current' = NoReplica /\ plan' = {} /\ failed' = FALSE
      BY <1>1, Running
<1> QED
    BY <1>1, <1>2, <1>3, QuietStep

\* A pass is cut off.
LEMMA KillInv == Inv /\ Kill => Inv'
<1> SUFFICES ASSUME Inv, Kill PROVE Inv'
    OBVIOUS
<1>1. /\ Failure /\ pc' = "idle" /\ snapshot' = {} /\ todo' = {}
      /\ current' = NoReplica /\ before' = {} /\ plan' = {} /\ failed' = FALSE
      /\ UNCHANGED <<scenario, replica>>
      BY DEF Kill, ClearAction
<1>2. faults' \in 0..MaxFaults
      BY <1>1, FailureCounts DEF Inv
<1> QED
    BY <1>1, <1>2, QuietStep

\* A step that changes nothing.
LEMMA StutterInv == Inv /\ UNCHANGED vars => Inv'
<1> SUFFICES ASSUME Inv, UNCHANGED vars PROVE Inv'
    OBVIOUS
<1>1. UNCHANGED <<scenario, replica, pc, snapshot, todo, current, before, plan,
                  failed, faults>>
      BY DEF vars, pass, action
<1>2. /\ replica \in [Replicas -> SUBSET Entries[list]]
      /\ \A r \in Replicas : Numbered(replica[r])
      /\ pc \in {"idle", "replicas", "action"}
      /\ todo \in SUBSET Replicas /\ before \in SUBSET Entries[list]
      /\ failed \in BOOLEAN /\ faults \in 0..MaxFaults
      BY DEF Inv
<1>3. CASE pc = "idle"
  <2>1. snapshot' = {} /\ current' = NoReplica /\ plan' = {} /\ failed' = FALSE
        BY <1>1, <1>3, Running
  <2> QED
      BY <1>1, <1>2, <1>3, <2>1, QuietStep
<1>4. CASE pc = "replicas"
  <2>1. /\ \E keys \in SUBSET Keys(origin) : snapshot' = Cuts(keys)
        /\ current' = NoReplica /\ plan' = {} /\ failed' = FALSE
        BY <1>1, <1>4, Running
  <2> QED
      BY <1>1, <1>2, <1>4, <2>1, QuietStep
<1>5. CASE pc = "action"
  <2>1. /\ \E keys \in SUBSET Keys(origin) : snapshot' = Cuts(keys)
        /\ current' \in Replicas
        BY <1>1, <1>5, Running
  <2> PICK b, now, p : b = before /\ now = replica[current] /\ p = plan
      OBVIOUS
  <2>2. /\ PlanIsJustified(before, replica[current], plan)
        /\ OneStays(replica[current], plan)
        /\ ~failed => RestIsPlanned(before, replica[current], plan)
        BY <1>5, Running
  <2>3. /\ PlanIsJustified(b, now, p)
        /\ OneStays(now, p)
        /\ failed' \/ RestIsPlanned(b, now, p)
        BY <1>1, <2>2
  <2>4. b = before' /\ now = replica'[current'] /\ p = plan'
        BY <1>1
  <2> QED
      BY <1>1, <1>2, <1>5, <2>1, <2>3, <2>4, ActionStep
<1> QED
    BY <1>2, <1>3, <1>4, <1>5

\* The invariant is inductive.
LEMMA InvStep == Inv /\ [Next]_vars => Inv'
<1> SUFFICES ASSUME Inv, [Next]_vars PROVE Inv'
    OBVIOUS
<1>1. CASE \E r \in todo : BeginAction(r) \/ SkipReplica(r)
      BY <1>1, BeginActionInv, SkipReplicaInv
<1>2. CASE \E q \in plan : RequestSucceeds(q) \/ RequestFails(q)
      BY <1>2, RequestSucceedsInv, RequestFailsInv
<1> QED
    BY <1>1, <1>2, StartPassInv, EndActionInv, EndPassInv, KillInv, StutterInv
    DEF Next
-----------------------------------------------------------------------------
(* Theorems                                                                *)

\* The inductive invariant holds.
THEOREM InvHolds == Spec => []Inv
<1> QED
    BY InvInit, InvStep, PTL DEF Spec

\* Type correctness: what a pass holds and sends are entries of the list, or
\* what the comparison leaves of them.
THEOREM TypeCorrect == Spec => []TypeOK
<1>1. Inv => TypeOK
  <2> SUFFICES ASSUME Inv PROVE TypeOK
      OBVIOUS
  <2>1. /\ scenario \in Scenarios
        /\ replica \in [Replicas -> SUBSET Entries[list]]
        /\ pc \in {"idle", "replicas", "action"}
        /\ todo \in SUBSET Replicas /\ before \in SUBSET Entries[list]
        /\ failed \in BOOLEAN /\ faults \in 0..MaxFaults
        BY DEF Inv
  <2>2. snapshot \subseteq Held
    <3>1. CASE pc = "idle"
          BY <3>1, Running
    <3>2. CASE pc # "idle"
          BY <2>1, <3>2, Running, HeldList
    <3> QED
        BY <3>1, <3>2
  <2>3. current \in IF pc = "action" THEN Replicas ELSE {NoReplica}
        BY Running
  <2>4. ASSUME NEW q \in plan
        PROVE  \/ q[1] = "refresh"
               \/ q[1] \in {"delete", "add", "update"} /\ q[2] \in Held
    <3> PICK b, now : b = before /\ now = replica[current]
        OBVIOUS
    <3>1. Justified(b, now, q)
      <4>1. PlanIsJustified(before, replica[current], plan)
            BY <2>4, Running
      <4>2. \A x \in plan : Justified(before, replica[current], x)
            BY <4>1 DEF PlanIsJustified
      <4> QED
          BY <4>2
    <3>2. CASE q = <<"refresh">>
          BY <3>2
    <3>3. CASE q = <<"delete", q[2]>> /\ q[2] \in Entries[list]
          BY <3>3 DEF Held
    <3>4. CASE /\ q[1] \in {"add", "update"}
               /\ \E o \in origin : From(q[2], o)
      <4>1. PICK o \in origin : From(q[2], o)
            BY <3>4
      <4>2. o \in Entries[list]
            BY <2>1, OriginsList
      <4>3. q[2] \in Held
            BY <2>1, <4>1, <4>2, HeldEntry
      <4> QED
          BY <3>4, <4>3
    <3>5. \/ q = <<"refresh">>
          \/ q = <<"delete", q[2]>> /\ q[2] \in Entries[list]
          \/ q = <<"add", q[2]>> /\ \E o \in origin : From(q[2], o)
          \/ q = <<"update", q[2]>> /\ \E o \in origin : From(q[2], o)
          BY <3>1 DEF Justified
    <3>6. /\ q = <<"add", q[2]>> => q[1] \in {"add", "update"}
          /\ q = <<"update", q[2]>> => q[1] \in {"add", "update"}
          OBVIOUS
    <3> QED
        BY <3>2, <3>3, <3>4, <3>5, <3>6
  <2> QED
      BY <2>1, <2>2, <2>3, <2>4 DEF TypeOK
<1> QED
    BY <1>1, InvHolds, PTL

\* After an action without errors the replica has no entry that the origin
\* lacks, and the origin's entries and values but for those that are left to
\* the next pass.
THEOREM CleanActionEnds == Spec => []CleanActionReaches
<1>1. Inv => CleanActionReaches
  <2> SUFFICES ASSUME Inv, pc = "action", plan = {}, ~failed
               PROVE  CleanActionReaches
      BY DEF CleanActionReaches
  <2> DEFINE late(e) == list = "filters" /\ e.key \notin Keys(before) /\ ~e.value.enabled
             wanted == {e \in origin : ~late(e)}
  <2> PICK b, now : b = before /\ now = replica[current]
      OBVIOUS
  <2>1. RestIsPlanned(b, now, {})
    <3>1. RestIsPlanned(before, replica[current], plan)
          BY Running
    <3> QED
        BY <3>1
  <2>2. now \in SUBSET Entries[list] /\ Numbered(now)
    <3>1. current \in Replicas
          BY Running
    <3> QED
        BY <3>1 DEF Inv
  <2>3. \A k : ~Due({}, k) /\ Cardinality(Deletions({}, k)) = 0
        BY FS_EmptySet DEF Due, Deletions
  <2>4. Keys(now) \subseteq Keys(origin)
    <3>1. SUFFICES ASSUME NEW k \in Keys(now), k \notin Keys(origin) PROVE FALSE
          OBVIOUS
    <3>2. k \in KnownKeys
          BY <2>2 DEF Keys, KnownKeys
    <3>3. Copies(now, k) <= 0
          BY <2>1, <2>3, <3>1, <3>2 DEF RestIsPlanned
    <3>4. Copies(now, k) \in Nat /\ Copies(now, k) # 0
          BY <2>2, CopiesAreNumbered
    <3> QED
        BY <3>3, <3>4
  <2>5. \A k \in Keys(origin) : k \in Keys(now) \/ Copies(b, k) > 1
        BY <2>1, <2>3 DEF RestIsPlanned
  <2>6. ASSUME list # "rewrites" PROVE View(wanted) \subseteq View(now)
    <3>1. ASSUME NEW o \in wanted PROVE <<o.key, Kept(o.value)>> \in View(now)
      <4>1. ~Late(b, o)
            BY DEF Late
      <4> QED
          BY <2>1, <2>3, <2>6, <4>1 DEF RestIsPlanned
    <3> HIDE DEF wanted
    <3> QED
        BY <3>1 DEF View
  <2> QED
      BY <2>4, <2>5, <2>6 DEF CleanActionReaches
<1> QED
    BY <1>1, InvHolds, PTL

\* A list that agrees with the origin's keeps agreeing, whatever a pass or a
\* failure does.
THEOREM AgreementStays == Spec => AgreementIsStable
<1>1. Inv /\ [Next]_vars =>
        [\A r \in Replicas : Agrees(replica[r]) => Agrees(replica'[r])]_vars
  <2> SUFFICES ASSUME Inv, [Next]_vars, NEW r \in Replicas, Agrees(replica[r])
               PROVE  Agrees(replica'[r])
      OBVIOUS
  <2>1. CASE UNCHANGED replica
        BY <2>1
  <2>2. CASE \E q \in plan : pc = "action" /\ Apply(q)
    <3>1. PICK q \in plan : pc = "action" /\ Apply(q)
          BY <2>2
    <3> PICK b, p : b = before /\ p = plan
        OBVIOUS
    <3>2. PICK new \in SUBSET Entries[list] :
            /\ replica' = [replica EXCEPT ![current] = new]
            /\ Agrees(replica[current]) => Agrees(new)
          BY <3>1, AppliedKeeps
    <3>3. replica \in [Replicas -> SUBSET Entries[list]]
          BY DEF Inv
    <3> QED
        BY <3>2, <3>3
  <2>3. UNCHANGED replica \/ \E q \in plan : pc = "action" /\ Apply(q)
        BY DEF Next, StartPass, BeginAction, SkipReplica, RequestSucceeds,
               RequestFails, NextRequest, EndAction, EndPass, Kill, vars
  <2> QED
      BY <2>1, <2>2, <2>3
<1> QED
    BY <1>1, InvHolds, PTL DEF Spec, AgreementIsStable
-----------------------------------------------------------------------------
(* The promise of module ListReplication                                   *)

\* The steps of that module on one list.
Removal(now, new) ==
  \E k \in Keys(now) :
    /\ k \notin Keys(origin) \/ (list = "rewrites" /\ Copies(now, k) > 1)
    /\ new \in SUBSET now
    /\ \A e \in now \ new : e.key = k

Addition(now, new) ==
  \E o \in origin :
    /\ o.key \notin Keys(now)
    /\ \E x \in new :
         /\ x.key = o.key /\ x.copy = 1
         /\ \/ Promise!Alike(x.value, o.value)
            \/ list = "filters" /\ x.value = [o.value EXCEPT !.enabled = TRUE]
         /\ new = now \cup {x}

Exchange(now, new) ==
  \E o \in origin :
    /\ list \in {"filters", "clients"}
    /\ o.key \in Keys(now)
    /\ \E x \in new :
         /\ x.key = o.key /\ x.copy = 1
         /\ Promise!Alike(x.value, o.value)
         /\ new = {e \in now : e.key # o.key} \cup {x}

\* What a replica stores of an origin's entry is like it, but for a filter
\* that is new.
LEMMA StoredIsAlike ==
  ASSUME scenario \in Scenarios, NEW o \in Entries[list], NEW e, From(e, o),
         NEW op \in {"add", "update"}, NEW s, s = Stored(op, e)
  PROVE  /\ s.key = o.key /\ s.copy = o.copy
         /\ \/ Promise!Alike(s.value, o.value)
            \/ /\ op = "add" /\ list = "filters"
               /\ s.value = [o.value EXCEPT !.enabled = TRUE]
<1>1. /\ s.key = o.key /\ s.copy = o.copy
      /\ \/ Kept(s.value) = Kept(o.value)
         \/ op = "add" /\ list = "filters" /\ ~o.value.enabled
      BY StoredEntry
<1>2. CASE list = "filters"
  <2>1. e = o
        BY <1>2 DEF From
  <2>2. CASE op = "add"
    <3>1. s = [o EXCEPT !.value.enabled = TRUE]
          BY <1>2, <2>1, <2>2 DEF Stored
    <3>2. o \in [key : {o.key}, value : {o.value}, copy : Nat \ {0}]
          BY EntryShapes
    <3>3. s.value = [o.value EXCEPT !.enabled = TRUE]
          BY <3>1, <3>2
    <3> QED
        BY <1>1, <1>2, <2>2, <3>3
  <2>3. CASE op = "update"
    <3>1. s.value = o.value
          BY <1>1, <1>2, <2>3, KeptByKind
    <3> QED
        BY <1>1, <1>2, <3>1 DEF Promise!Alike
  <2> QED
      BY <2>2, <2>3
<1>3. CASE list = "clients"
  <2>1. s.value.data = o.value.data /\ s.value.days = o.value.days
        BY <1>1, <1>3, KeptByKind
  <2> QED
      BY <1>1, <1>3, <2>1 DEF Promise!Alike
<1>4. CASE list \notin {"filters", "clients"}
  <2>1. s = o
        BY <1>4 DEF From, Stored
  <2> QED
      BY <1>4, <2>1 DEF Promise!Alike
<1> QED
    BY <1>2, <1>3, <1>4

\* A request that is applied removes, adds or exchanges an entry as promised,
\* or changes nothing.
LEMMA RequestIsPromised ==
  ASSUME scenario \in Scenarios, NEW now \in SUBSET Entries[list], Numbered(now),
         NEW b, NEW p, PlanIsJustified(b, now, p), OneStays(now, p),
         NEW q \in p, NEW new \in Outcomes(now, q)
  PROVE  new = now \/ Removal(now, new) \/ Addition(now, new) \/ Exchange(now, new)
<1>1. Justified(b, now, q)
      BY DEF PlanIsJustified
<1>2. CASE q = <<"refresh">>
      BY <1>2 DEF Outcomes
<1>3. CASE /\ q = <<"delete", q[2]>>
           /\ q[2] \in Entries[list]
           /\ q[2].key \in Keys(origin) =>
                list = "rewrites" /\ Copies(b, q[2].key) > 1
  <2> PICK e \in Entries[list] : e = q[2]
      BY <1>3
  <2> DEFINE k == e.key
  <2>1. q = <<"delete", e>>
        BY <1>3
  <2>2. new \in Deleted(now, k)
        BY <2>1 DEF Outcomes
  <2>3. /\ new \in SUBSET now
        /\ \A x \in now \ new : x.key = k
        /\ k \notin Keys(now) => new = now
        BY <2>2, DeletionEffect
  <2>4. ASSUME k \in Keys(origin), k \in Keys(now)
        PROVE  list = "rewrites" /\ Copies(now, k) > 1
    <3>1. k \in KnownKeys
          BY DEF KnownKeys, Keys
    <3>2. /\ IsFiniteSet(Deletions(p, k))
          /\ Cardinality(Deletions(p, k)) < Copies(now, k)
          BY <2>4, <3>1 DEF OneStays
    <3>3. Deletions(p, k) # {}
          BY <2>1 DEF Deletions
    <3>4. Cardinality(Deletions(p, k)) \in Nat \ {0}
          BY <3>2, <3>3, FS_CardinalityType, FS_EmptySet
    <3>5. Copies(now, k) \in Nat
          BY CopiesAreNumbered
    <3> QED
        BY <1>3, <2>4, <3>2, <3>4, <3>5
  <2> QED
      BY <2>3, <2>4 DEF Removal
<1>4. CASE /\ q = <<"add", q[2]>>
           /\ \E o \in origin : From(q[2], o) /\ o.copy = 1
           /\ q[2].key \notin Keys(now) \cup Keys(b)
  <2> PICK e : e = q[2]
      OBVIOUS
  <2>1. q = <<"add", e>> /\ e.key \notin Keys(now)
        BY <1>4
  <2> PICK o \in origin : From(e, o) /\ o.copy = 1
      BY <1>4
  <2> PICK s : s = Stored("add", e)
      OBVIOUS
  <2>2. o \in Entries[list] /\ e.key = o.key
        BY OriginsList, HeldEntry
  <2>3. /\ s.key = o.key /\ s.copy = 1
        /\ \/ Promise!Alike(s.value, o.value)
           \/ list = "filters" /\ s.value = [o.value EXCEPT !.enabled = TRUE]
        BY <2>2, StoredIsAlike
  <2>4. s \in Entries[list]
        BY <2>2, StoredEntry
  <2>5. s \in [key : {s.key}, value : {s.value}, copy : Nat \ {0}]
        BY <2>4, EntryShapes
  <2>6. [s EXCEPT !.copy = Copies(now, e.key) + 1] = s
        BY <2>1, <2>3, <2>5, NoCopies
  <2>7. new = now \cup {s}
        BY <2>1, <2>6 DEF Outcomes
  <2> QED
      BY <2>1, <2>2, <2>3, <2>7 DEF Addition
<1>5. CASE /\ q = <<"update", q[2]>>
           /\ \E o \in origin : From(q[2], o)
           /\ q[2].key \in Keys(now)
           /\ list \in {"filters", "clients"}
  <2> PICK e : e = q[2]
      OBVIOUS
  <2>1. q = <<"update", e>> /\ e.key \in Keys(now) /\ list \in {"filters", "clients"}
        BY <1>5
  <2> PICK o \in origin : From(e, o)
      BY <1>5
  <2> PICK op \in {"add", "update"} : op # "add"
      OBVIOUS
  <2> PICK s : s = Stored(op, e)
      OBVIOUS
  <2>2. o \in Entries[list] /\ e.key = o.key
        BY OriginsList, HeldEntry
  <2>3. o.copy = 1
        BY <2>1, <2>2, EntryShapes
  <2>4. s.key = o.key /\ s.copy = 1 /\ Promise!Alike(s.value, o.value)
    <3>1. /\ s.key = o.key /\ s.copy = o.copy
          /\ \/ Promise!Alike(s.value, o.value)
             \/ /\ op = "add" /\ list = "filters"
                /\ s.value = [o.value EXCEPT !.enabled = TRUE]
          BY <2>2, StoredIsAlike
    <3> QED
        BY <2>3, <3>1
  <2>5. new = {IF x.key = e.key THEN s ELSE x : x \in now}
    <3>1. op = "update"
          OBVIOUS
    <3> QED
        BY <2>1, <3>1 DEF Outcomes
  <2>6. new = {x \in now : x.key # o.key} \cup {s}
        BY <2>1, <2>2, <2>5 DEF Keys
  <2> QED
      BY <2>1, <2>2, <2>4, <2>6 DEF Exchange
<1> QED
    BY <1>1, <1>2, <1>3, <1>4, <1>5 DEF Justified

\* Both modules read lists alike.
LEMMA SameTerms ==
  /\ Promise!Lists = Lists
  /\ \A L : Promise!Keys(L) = Keys(L)
  /\ \A L, k : Promise!Copies(L, k) = Copies(L, k)
<1>1. Promise!Lists = Lists
      BY DEF Promise!Lists, Lists
<1>2. ASSUME NEW L PROVE Promise!Keys(L) = Keys(L)
      BY DEF Promise!Keys, Keys
<1>3. ASSUME NEW L, NEW k PROVE Promise!Copies(L, k) = Copies(L, k)
      BY Zenon DEF Promise!Copies, Copies, Promise!Cardinality, Cardinality
<1> QED
    BY <1>1, <1>2, <1>3

\* A change of one list is a step of module ListReplication.
LEMMA ChangeIsPromised ==
  ASSUME NEW r \in Replicas, r \in DOMAIN replica, UNCHANGED scenario,
         NEW new, replica' = [replica EXCEPT ![r] = new],
         NEW now, now = replica[r],
         Removal(now, new) \/ Addition(now, new) \/ Exchange(now, new)
  PROVE  Promise!Next
<1>1. Promise!Change(r, new) /\ replica'[r] = new
      BY DEF Promise!Change, list, origin
<1>2. CASE Removal(now, new)
  <2>1. PICK k \in Keys(now) :
          /\ k \notin Keys(origin) \/ (list = "rewrites" /\ Copies(now, k) > 1)
          /\ new \in SUBSET now
          /\ \A e \in now \ new : e.key = k
        BY <1>2 DEF Removal
  <2>2. Promise!Remove(r, k)
        BY <1>1, <2>1, SameTerms DEF Promise!Remove
  <2> QED
      BY <2>2, SameTerms DEF Promise!Next
<1>3. CASE Addition(now, new)
  <2>1. PICK o \in origin :
          /\ o.key \notin Keys(now)
          /\ \E x \in new :
               /\ x.key = o.key /\ x.copy = 1
               /\ \/ Promise!Alike(x.value, o.value)
                  \/ /\ list = "filters"
                     /\ x.value = [o.value EXCEPT !.enabled = TRUE]
               /\ new = now \cup {x}
        BY <1>3 DEF Addition
  <2>2. Promise!Add(r, o)
        BY <1>1, <2>1, SameTerms DEF Promise!Add
  <2> QED
      BY <2>2, SameTerms DEF Promise!Next
<1>4. CASE Exchange(now, new)
  <2>1. PICK o \in origin :
          /\ list \in {"filters", "clients"}
          /\ o.key \in Keys(now)
          /\ \E x \in new :
               /\ x.key = o.key /\ x.copy = 1
               /\ Promise!Alike(x.value, o.value)
               /\ new = {e \in now : e.key # o.key} \cup {x}
        BY <1>4 DEF Exchange
  <2>2. Promise!Update(r, o)
        BY <1>1, <2>1, SameTerms DEF Promise!Update
  <2> QED
      BY <2>2, SameTerms DEF Promise!Next
<1> QED
    BY <1>2, <1>3, <1>4

\* A step maps to a step of module ListReplication or to a stutter.
LEMMA PromiseStep == Inv /\ [Next]_vars => [Promise!Next]_Promise!vars
<1> SUFFICES ASSUME Inv, [Next]_vars PROVE [Promise!Next]_Promise!vars
    OBVIOUS
<1>1. UNCHANGED scenario
      BY DEF Next, StartPass, BeginAction, SkipReplica, RequestSucceeds,
             RequestFails, EndAction, EndPass, Kill, vars
<1>2. CASE UNCHANGED replica
      BY <1>1, <1>2 DEF Promise!vars, list, origin
<1>3. ASSUME NEW q \in plan, pc = "action", Apply(q)
      PROVE  [Promise!Next]_Promise!vars
  <2> PICK b, p, now : b = before /\ p = plan /\ now = replica[current]
      OBVIOUS
  <2>1. /\ current \in Replicas
        /\ PlanIsJustified(b, now, p) /\ OneStays(now, p)
    <3>1. /\ current \in Replicas
          /\ PlanIsJustified(before, replica[current], plan)
          /\ OneStays(replica[current], plan)
          BY <1>3, Running
    <3> QED
        BY <3>1
  <2>2. /\ scenario \in Scenarios
        /\ replica \in [Replicas -> SUBSET Entries[list]]
        /\ now \in SUBSET Entries[list] /\ Numbered(now)
        BY <2>1 DEF Inv
  <2>3. PICK new \in Outcomes(now, q) : replica' = [replica EXCEPT ![current] = new]
        BY <1>3 DEF Apply
  <2>4. new = now \/ Removal(now, new) \/ Addition(now, new) \/ Exchange(now, new)
        BY <1>3, <2>1, <2>2, RequestIsPromised
  <2>5. CASE new = now
        BY <1>2, <2>2, <2>3, <2>5
  <2> QED
      BY <1>1, <2>1, <2>2, <2>3, <2>4, <2>5, ChangeIsPromised
<1>4. UNCHANGED replica \/ \E q \in plan : pc = "action" /\ Apply(q)
      BY DEF Next, StartPass, BeginAction, SkipReplica, RequestSucceeds,
             RequestFails, NextRequest, EndAction, EndPass, Kill, vars
<1> QED
    BY <1>2, <1>3, <1>4

\* A pass keeps the promise of module ListReplication: each step of a replica's
\* list removes what the origin lacks or a surplus copy, adds an entry of the
\* origin that is missing, or puts the origin's entry in the place of its own.
THEOREM PromiseKept == Spec => KeepsPromise
<1>1. Init => Promise!Init
  <2> SUFFICES ASSUME Init PROVE Promise!Init
      OBVIOUS
  <2>1. scenario \in Scenarios /\ replica = scenario.replica
        BY DEF Init
  <2>2. scenario.list \in Lists /\ DOMAIN scenario.replica = Replicas
        BY <2>1, ListSyncAssumption
  <2> QED
      BY <2>1, <2>2, SameTerms DEF Promise!Init, list
<1> QED
    BY <1>1, PromiseStep, InvHolds, PTL DEF Spec, KeepsPromise, Promise!Spec
=============================================================================
