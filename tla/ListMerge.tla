------------------------------ MODULE ListMerge ------------------------------
(***************************************************************************)
(* The merges of internal/client/model/model-functions.go: which entries   *)
(* of a replica's list are deleted, added and updated to make it the       *)
(* origin's list.                                                          *)
(*                                                                         *)
(* A list is a set of entries [key, value, copy].  The key is what the     *)
(* merge looks an entry up by: domain and answer of a rewrite, the URL of  *)
(* a filter, the name of a client, the MAC of a lease.  A peer keeps each  *)
(* key once, but rewrites can be there several times: copies 1, 2, ...     *)
(***************************************************************************)
EXTENDS Naturals, FiniteSets

Lists == {"rewrites", "filters", "clients", "leases"}

NoZone == "no zone"            \* a nil TimeZone
DefaultZone == "default zone"  \* what a peer stores for it

Keys(entries) == {e.key : e \in entries}
Copies(entries, k) == Cardinality({e \in entries : e.key = k})

\* Mutant: an entry that is found is not taken out of `current'.
RemovesAll(this, other) == this

\* Mutant: an entry that differs is not taken out of `current'.
RemovesUpdated(this, other) ==
  {e \in this : e.key \notin Keys(other) \/ e.copy > 1 \/ e \notin other}

Removes(this, other) == {e \in this : e.key \notin Keys(other) \/ e.copy > 1}

\* Mutant: an entry that the other side has twice is added twice.
AddsDuplicates(this, other) == {e \in other : e.key \notin Keys(this)}

Adds(this, other) == {e \in other : e.key \notin Keys(this) /\ e.copy = 1}

\* Client.PrepareDiff: without days, the zone of the blocked services'
\* schedule does not count.
Prepared(value) == IF value.days THEN value ELSE [value EXCEPT !.zone = NoZone]

\* Mutant: Filter.Equals compares URL and name only.
SameButEnabled(kind, v, w) ==
  CASE kind = "filters" -> v.name = w.name
    [] kind = "clients" -> Prepared(v) = Prepared(w)
    [] OTHER -> TRUE

\* Filter.Equals, Client.Equals; rewrites and leases are not compared.
Same(kind, v, w) ==
  CASE kind = "filters" -> v = w
    [] kind = "clients" -> Prepared(v) = Prepared(w)
    [] OTHER -> TRUE

Updates(kind, this, other) ==
  {e \in other : \E t \in this : t.key = e.key /\ ~Same(kind, t.value, e.value)}

\* What the comparison leaves of the origin's list: PrepareDiff returns no
\* zone for a schedule with days, and AfterDiff puts "no zone" back.
AfterDiff(kind, this, other) ==
  {IF kind = "clients" /\ e.value.days /\ e.key \in Keys(this)
   THEN [e EXCEPT !.value.zone = NoZone] ELSE e : e \in other}
=============================================================================
