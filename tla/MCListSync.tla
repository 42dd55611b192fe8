----------------------------- MODULE MCListSync -----------------------------
(* ListSync for TLC: for each kind of list an origin and several replicas.   *)
EXTENDS ListSync

CONSTANTS r1, r2

Entry(k, v) == [key |-> k, value |-> v, copy |-> 1]
Twice(k, v) == {Entry(k, v), [key |-> k, value |-> v, copy |-> 2]}

Filter(name, enabled) == [name |-> name, enabled |-> enabled]
Client(data, days, zone) == [data |-> data, days |-> days, zone |-> zone]

MCEntries == [l \in Lists |->
  CASE l = "rewrites" -> UNION {Twice(k, "answer") : k \in {"a", "b", "c"}}
    [] l = "filters" -> {Entry(k, Filter(n, b)) :
                           k \in {"a", "b", "c"}, n \in {"old", "new"}, b \in BOOLEAN}
    [] l = "clients" -> {Entry(k, Client(d, b, z)) :
                           k \in {"a", "b", "c"}, d \in {"old", "new"}, b \in BOOLEAN,
                           z \in {"zone", DefaultZone}}
    [] l = "leases" -> {Entry(k, ip) : k \in {"a", "b", "c"}, ip \in {"old", "new"}}]

MCOrigin(l) ==
  CASE l = "rewrites" -> Twice("a", "answer") \cup {Entry("b", "answer")}
    [] l = "filters" -> {Entry("a", Filter("new", TRUE)), Entry("b", Filter("new", FALSE))}
    [] l = "clients" -> {Entry("a", Client("new", TRUE, "zone")),
                         Entry("b", Client("new", FALSE, "zone"))}
    [] l = "leases" -> {Entry("a", "new"), Entry("b", "new")}

MCContents(l) ==
  CASE l = "rewrites" -> {{}, Twice("b", "answer") \cup Twice("c", "answer"),
                          Twice("a", "answer") \cup {Entry("b", "answer")}}
    [] l = "filters" -> {{}, MCOrigin(l), {Entry("a", Filter("old", FALSE)),
                         Entry("c", Filter("old", TRUE))}}
    [] l = "clients" -> {{Entry("a", Client("new", TRUE, "zone"))}, MCOrigin(l),
                         {Entry("a", Client("old", TRUE, "zone")),
                          Entry("b", Client("new", TRUE, DefaultZone)),
                          Entry("c", Client("old", FALSE, "zone"))}}
    [] l = "leases" -> {{}, MCOrigin(l), {Entry("a", "old"), Entry("c", "old")}}

ScenariosOf(lists) ==
  UNION {[list : {l}, origin : {MCOrigin(l)},
          replica : [Replicas -> MCContents(l)], continueOnError : BOOLEAN] : l \in lists}

AllScenarios == ScenariosOf(Lists)
EqualClients ==
  {s \in ScenariosOf({"clients"}) : \A r \in Replicas : s.replica[r] = s.origin}
=============================================================================
