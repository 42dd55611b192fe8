----------------------------- MODULE SyncActions -----------------------------
(***************************************************************************)
(* The tables of a sync pass: what the worker reads from the origin, which *)
(* actions the enabled features select and in which order they run         *)
(* (internal/sync/action.go), and the requests an action can send to a     *)
(* replica (internal/sync/action-general.go).                              *)
(*                                                                         *)
(* A request on a list ("add client", "delete rewrite") stands for the     *)
(* requests the code sends for the entries of one kind.                    *)
(***************************************************************************)
EXTENDS Naturals, Sequences

ActionOrder == <<
  "profile info", "protection", "parental", "safe search config",
  "safe browsing", "DNS server config", "query log config", "stats config",
  "DNS rewrites", "actionFilters", "blocked services schedule",
  "client settings", "DNS access lists", "DHCP server config",
  "DHCP static leases", "TLS config" >>

Elements(seq) == {seq[i] : i \in DOMAIN seq}

ActionNames == Elements(ActionOrder)

\* x comes first among the members of S in the order of seq.
First(x, S, seq) ==
  /\ x \in S
  /\ \E i \in DOMAIN seq : seq[i] = x /\ \A j \in 1..(i - 1) : seq[j] \notin S

\* The feature flag that selects an action.
Feature(a) ==
  CASE a \in {"profile info", "protection", "parental", "safe search config",
              "safe browsing"} -> "GeneralSettings"
    [] a = "DNS server config" -> "DNS.ServerConfig"
    [] a = "query log config" -> "QueryLogConfig"
    [] a = "stats config" -> "StatsConfig"
    [] a = "DNS rewrites" -> "DNS.Rewrites"
    [] a = "actionFilters" -> "Filters"
    [] a = "blocked services schedule" -> "Services"
    [] a = "client settings" -> "ClientSettings"
    [] a = "DNS access lists" -> "DNS.AccessLists"
    [] a = "DHCP server config" -> "DHCP.ServerConfig"
    [] a = "DHCP static leases" -> "DHCP.StaticLeases"
    [] a = "TLS config" -> "TLSConfig"

Features == {Feature(a) : a \in ActionNames}

\* setupActions
SetupActions(features) == {a \in ActionNames : Feature(a) \in features}

-----------------------------------------------------------------------------
\* The reads from the origin, in the order of w.sync().
ReadOrder == <<
  "status", "profile info", "parental", "safe search config",
  "safe browsing", "DNS rewrites", "blocked services schedule",
  "actionFilters", "client settings", "query log config", "stats config",
  "DNS access lists", "DNS server config", "DHCP", "TLS config" >>

Reads == Elements(ReadOrder)

\* All but the last two are read whether or not a feature needs them.
OriginReads(features) ==
  (Reads \ {"DHCP", "TLS config"})
    \cup {s \in {"DHCP"} :
            features \cap {"DHCP.ServerConfig", "DHCP.StaticLeases"} # {}}
    \cup {s \in {"TLS config"} : "TLSConfig" \in features}

\* The actions that compare with what one read returns.
Serves(s) ==
  CASE s = "status" -> {"protection"}
    [] s = "DHCP" -> {"DHCP server config", "DHCP static leases"}
    [] OTHER -> {s}

-----------------------------------------------------------------------------
\* The requests of an action in the order in which it sends them.
FilterRequests(list) == <<
  <<list, "delete">>, <<list, "add">>, <<list, "update">>,
  <<list, "refresh">> >>

Requests(a) ==
  CASE a = "DNS rewrites" -> << <<"rewrite", "delete">>, <<"rewrite", "add">> >>
    [] a = "actionFilters" ->
         FilterRequests("blocklist") \o FilterRequests("allowlist")
           \o << <<"user rules", "set">>, <<"filtering", "set">> >>
    [] a = "client settings" ->
         << <<"client", "delete">>, <<"client", "add">>, <<"client", "update">> >>
    [] a = "DHCP static leases" -> << <<"lease", "delete">>, <<"lease", "add">> >>
    [] OTHER -> << <<a, "set">> >>

Lists == {"blocklist", "allowlist"}
Refreshes == Lists \X {"refresh"}

\* The parts of the settings that an action compares, each named as the
\* request that it sends for it.  A refresh stands for no part.
Parts(a) == Elements(Requests(a)) \ Refreshes
AllParts == UNION {Parts(a) : a \in ActionNames}
AllRequests == UNION {Elements(Requests(a)) : a \in ActionNames}

Protection == <<"protection", "set">>
DNSConfig == <<"DNS server config", "set">>
DHCPConfig == <<"DHCP server config", "set">>
BlockedServices == <<"blocked services schedule", "set">>

\* The protection_enabled that is a field of the DNS config.
DNSProtection == <<"DNS server config", "protection">>

\* The parts that a request sets.  SetDNSConfig posts the whole DNS config,
\* protection_enabled included, to the endpoint of ToggleProtection.
Sets(q) ==
  CASE q \in Refreshes -> {}
    [] q = DNSConfig -> {DNSConfig, Protection}
    [] OTHER -> {q}

\* The parts that an action sets, the refreshes aside.
SetBy(a) == UNION {Sets(q) : q \in Parts(a)}

\* The part of its list that a request can put out of step: a filter that is
\* disabled at the origin is added without that, and is to be updated; the
\* copies of a rewrite are deleted together, and one is to be added again.
Disturbs(q) ==
  {<<l, "update">> : l \in {k \in Lists : q = <<k, "add">>}}
    \cup {p \in {<<"rewrite", "add">>} : q = <<"rewrite", "delete">>}

\* The requests whose error an action passes over with ContinueOnError:
\* syncFilterType, actionClientSettings, actionDHCPStaticLeases, tlsConfig.
Tolerant ==
  (Lists \cup {"client", "lease"}) \X {"delete", "add", "update"}
    \cup {<<"TLS config", "set">>}

\* Mutant: entries are deleted or else added.
PlanDeletesOrAdds(a, due) ==
  {q \in Elements(Requests(a)) :
     \/ /\ q \in due
        /\ q[2] = "add" => <<q[1], "delete">> \notin due
     \/ \E l \in Lists : /\ q = <<l, "refresh">>
                        /\ due \cap {<<l, "add">>, <<l, "update">>} # {}}

\* The requests of action a when its comparison finds the parts in due to
\* differ: lists are refreshed when something was added or updated, and
\* actionFilters returns after the user rules.
Plan(a, due) ==
  {q \in Elements(Requests(a)) :
     \/ q \in due /\ q # <<"filtering", "set">>
     \/ q \in due /\ <<"user rules", "set">> \notin due
     \/ \E l \in Lists : /\ q = <<l, "refresh">>
                        /\ due \cap {<<l, "add">>, <<l, "update">>} # {}}
=============================================================================
