--------------------------- MODULE MCSettingSync ---------------------------
(***************************************************************************)
(* SettingSync for TLC: two replicas; per setting, every value an origin   *)
(* and the replicas can have of a few.                                     *)
(***************************************************************************)
EXTENDS SettingSync

CONSTANTS r1, r2

MCReplicas == {r1, r2}

NoOverride == [interface |-> [r \in MCReplicas |-> ""],
               enabled |-> [r \in MCReplicas |-> "unset"]]

Scenario(kind, values, options, theme) ==
  [setting : {kind}, origin : values, replica : [MCReplicas -> values],
   interface : {options.interface}, enabled : {options.enabled}, theme : theme]

\* An empty profile stands for one that could not be read (a 401).
Profiles ==
  [name : {"n"}, language : {"en", "de"}, theme : {"auto", "dark"}]
    \cup {[name |-> "", language |-> "", theme |-> ""]}

\* Two services or clients at most; a list of one is sorted.
Lists == [elements : {{"a", "b"}}, sorted : BOOLEAN]
           \cup [elements : {{"a"}, {"c"}, {}}, sorted : {TRUE}]

Dhcp ==
  [v4 : {"x", "incomplete"}, v6 : {"y", "none"}, interface : {"eth0"},
   enabled : {"on"}, leases : {"l", "m"}]

ReplicaDhcp ==
  [v4 : {"x", "none"}, v6 : {"z", "none"}, interface : {"eth0"},
   enabled : {"on"}, leases : {"l"}]

\* The first replica has an interface and a switch of its own, the second
\* has none.
DhcpScenarios ==
  [setting : {"DHCP config"}, origin : Dhcp,
   replica : [MCReplicas -> ReplicaDhcp],
   interface : {[r \in MCReplicas |-> IF r = r1 THEN "eth1" ELSE ""]},
   enabled : {[r \in MCReplicas |-> IF r = r1 THEN "off" ELSE "unset"]},
   theme : {FALSE}]

MCScenarios ==
  Scenario("profile", Profiles, NoOverride, BOOLEAN)
    \cup UNION {Scenario(kind, Lists, NoOverride, {FALSE}) :
                  kind \in {"blocked services", "access lists", "DNS config"}}
    \cup DhcpScenarios
=============================================================================
