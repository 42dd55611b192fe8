----------------------------- MODULE MCSyncPass -----------------------------
(* SyncPass for TLC.  The origin has value "new" everywhere, the replicas    *)
(* have "old" in the parts that differ; an edit puts "old" back at the origin. *)
EXTENDS SyncPass

CONSTANTS r1, r2

NoRejects == [r \in Replicas |-> {}]

Plain == [
  features |-> {}, continueOnError |-> FALSE, autoSetup |-> {},
  installed |-> Replicas, invalid |-> {}, dead |-> {}, outdated |-> {},
  alwaysSent |-> {}, neverSent |-> {},
  rejects |-> NoRejects]

WithErrorModes(configs) ==
  configs \cup {[c EXCEPT !.continueOnError = TRUE] : c \in configs}

MCValues == {"old", "new"}
MCOrigins == {[p \in AllParts |-> "new"]}

\* Replicas that differ from the origin in the parts of D.
Differ(D) == [r \in Replicas |-> [p \in AllParts |-> IF p \in D THEN "old" ELSE "new"]]

\* Lists and single settings, tolerant and not.
ListParts == Parts("DNS rewrites") \cup Parts("client settings")
               \cup {<<"TLS config", "set">>, <<"protection", "set">>}
ListConfigs == WithErrorModes({
  [Plain EXCEPT !.features = {"DNS.Rewrites", "TLSConfig"},
                !.installed = {r1}, !.autoSetup = {r2}],
  [Plain EXCEPT !.features = {"ClientSettings", "TLSConfig"},
                !.rejects[r1] = {<<"client", "add">>}],
  [Plain EXCEPT !.features = {"ClientSettings"}, !.installed = {r1},
                !.outdated = {r1}],
  [Plain EXCEPT !.features = {"ClientSettings"}, !.outdated = {Origin}],
  [Plain EXCEPT !.features = {"ClientSettings"}, !.invalid = {r1}],
  [Plain EXCEPT !.features = {"DNS.Rewrites"}, !.dead = {r1}]})
ListEditable == {<<"client", "update">>}

\* The filters.
FilterParts ==
  {<<"blocklist", "delete">>, <<"blocklist", "add">>, <<"allowlist", "update">>,
   <<"user rules", "set">>, <<"filtering", "set">>}
FilterConfigs == WithErrorModes({
  [Plain EXCEPT !.features = {"Filters"}],
  [Plain EXCEPT !.features = {"Filters", "DHCP.StaticLeases"},
                !.rejects[r1] = {<<"blocklist", "add">>}],
  [Plain EXCEPT !.features = {"Filters", "Services"},
                !.rejects[r1] = {<<"blocklist", "refresh">>}]})
\* The protection by its own request, with the DNS config, and by both.
DNSParts == {Protection, DNSConfig}
DNSConfigs == WithErrorModes({
  [Plain EXCEPT !.features = {"DNS.ServerConfig"}],
  [Plain EXCEPT !.features = {"DNS.ServerConfig", "GeneralSettings"}],
  [Plain EXCEPT !.features = {"DNS.ServerConfig", "GeneralSettings"},
                !.rejects[r1] = {DNSConfig}]})

\* Settings that never compare equal, and an origin without DHCP.
UnequalParts == {BlockedServices, DHCPConfig} \cup Parts("DHCP static leases")
UnequalConfigs == WithErrorModes({
  [Plain EXCEPT !.features = {"Services", "DHCP.ServerConfig", "DHCP.StaticLeases"},
                !.alwaysSent = {BlockedServices, DHCPConfig}],
  [Plain EXCEPT !.features = {"Services", "DHCP.ServerConfig", "DHCP.StaticLeases"},
                !.neverSent = {DHCPConfig}]})

FilterEditable == {<<"filtering", "set">>, <<"user rules", "set">>}

\* Everything; all but the lists with a second replica that has no client.
MCConfigs ==
  ListConfigs \cup {[c EXCEPT !.invalid = {r2}] :
                      c \in FilterConfigs \cup DNSConfigs \cup UnequalConfigs}
MCContents == {Differ(ListParts \cup FilterParts \cup DNSParts \cup UnequalParts)}
MCEditable == ListEditable \cup FilterEditable \cup {Protection}
MCReplicaEditable == {Protection, <<"lease", "add">>}

\* The filters alone, without a failure.
FiltersOnly == {[Plain EXCEPT !.features = {"Filters"}, !.invalid = {r2}]}
=============================================================================
