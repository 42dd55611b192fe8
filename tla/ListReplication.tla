--------------------------- MODULE ListReplication ---------------------------
(***************************************************************************)
(* What syncing promises for one list of the settings, without plans,      *)
(* passes or failures: a replica's list loses only entries that the origin *)
(* lacks, or a surplus copy of a rewrite; gains only entries that the      *)
(* origin has and it lacks; and in place of an entry gets the origin's.    *)
(***************************************************************************)
EXTENDS ListMerge

CONSTANTS Replicas

VARIABLES
  kind,     \* of list
  origin,   \* the origin's list
  replica   \* the list of each replica

vars == <<kind, origin, replica>>

Init ==
  /\ kind \in Lists
  /\ DOMAIN replica = Replicas

\* The list of r becomes new.
Change(r, new) ==
  /\ replica' = [replica EXCEPT ![r] = new]
  /\ UNCHANGED <<kind, origin>>

\* v is w up to the zone of a client's schedule.
Alike(v, w) ==
  IF kind = "clients" THEN v.data = w.data /\ v.days = w.days ELSE v = w

\* A key of the origin keeps an entry, unless the replica had it several times.
Remove(r, k) ==
  /\ k \notin Keys(origin) \/ (kind = "rewrites" /\ Copies(replica[r], k) > 1)
  /\ \E new \in SUBSET replica[r] :
       /\ \A e \in replica[r] \ new : e.key = k
       /\ Change(r, new)

\* x is what r stores for o.  A filter that is new is enabled, also if the
\* origin's is not.
Add(r, o) ==
  /\ o.key \notin Keys(replica[r])
  /\ \E x \in replica'[r] :
       /\ x.key = o.key /\ x.copy = 1
       /\ \/ Alike(x.value, o.value)
          \/ kind = "filters" /\ x.value = [o.value EXCEPT !.enabled = TRUE]
       /\ Change(r, replica[r] \cup {x})

Update(r, o) ==
  /\ kind \in {"filters", "clients"}
  /\ o.key \in Keys(replica[r])
  /\ \E x \in replica'[r] :
       /\ x.key = o.key /\ x.copy = 1
       /\ Alike(x.value, o.value)
       /\ Change(r, {e \in replica[r] : e.key # o.key} \cup {x})

Next ==
  \E r \in Replicas :
    \/ \E k \in Keys(replica[r]) : Remove(r, k)
    \/ \E o \in origin : Add(r, o) \/ Update(r, o)

Spec == Init /\ [][Next]_vars
=============================================================================
