---------------------------- MODULE FleetStatus ----------------------------
(***************************************************************************)
(* `ogygia status`: the local host's revisions, and those that the other   *)
(* hosts' publishers put in etcd, one row per host.                        *)
(*                                                                         *)
(* A host name is a sequence of labels, and so is a domain; a machine is   *)
(* its full name.  The same machine may be known by its full name, by its  *)
(* first label, or in capitals, to its publisher and to the shell that     *)
(* runs the command.  Publishers go on while it reads; any get may fail.   *)
(***************************************************************************)
EXTENDS Naturals, Sequences, FiniteSets

CONSTANTS
  Fleet,           \* machines: sequences of labels, in lower case
  Here,            \* the one the command runs on: no other has its first label
  Upper,           \* label -> the label in capitals
  Domain,          \* the configured domain
  MaxPuts,         \* bound: what publishers do during the run
  Unset

States == {"current", "booted", "nextboot"}     \* SYSTEM_STATE_DATA

VARIABLES
  etcd,            \* the keys that are there: a name and a state
  nameFor,         \* the name each machine publishes under
  detected,        \* what each way to learn the host's name yields here
  configFile,
  viewing,         \* where the command is
  listed, table,   \* hosts to fetch, rows fetched
  puts

statusVars == <<etcd, nameFor, detected, configFile, viewing, listed, table, puts>>

Capitals(name) == [i \in DOMAIN name |-> Upper[name[i]]]
\* Two with the same first label publish under their full names.
Names(machine) ==
  {machine, Capitals(machine)} \cup {<<machine[1]>> : m \in {n \in {machine} : \A o \in Fleet : o[1] = n[1] => o = n}}

\* to_ascii_lowercase
Lower(name) == [i \in DOMAIN name |-> IF \E l \in DOMAIN Upper : Upper[l] = name[i]
                                      THEN CHOOSE l \in DOMAIN Upper : Upper[l] = name[i] ELSE name[i]]

\* How detect_hostname learns the name, in order.
Ways == <<"OGYGIA_HOSTNAME", "hostname -f", "HOSTNAME", "hostname", "gethostname">>

\* locate_config_file and load_cli_config: absent, not to be parsed, or without some of
\* its tables; no endpoints, or one without a scheme, are errors.
ConfigFiles == {"absent", "malformed", "no etcd", "no endpoints", "bad endpoint", "complete"}
ConfigFails == {"malformed", "no endpoints", "bad endpoint"}

StatusTypeOK ==
  /\ \A key \in etcd : key[2] \in States
  /\ \A m \in Fleet : nameFor[m] \in Names(m)
  /\ configFile \in ConfigFiles
  /\ viewing \in {"config", "list", "get", "failed", "shown"} /\ puts \in 0..MaxPuts

ASSUME FleetStatusAssumption ==
  /\ Fleet \subseteq Seq(DOMAIN Upper) \ {<<>>}
  /\ Here \in Fleet /\ \A m \in Fleet : m[1] = Here[1] => m = Here
  /\ MaxPuts \in Nat

\* Capitals tell labels apart, a label without letters is its own.
ASSUME UpperAssumption ==
  /\ \A a, b \in DOMAIN Upper : Upper[a] = Upper[b] => a = b
  /\ \A a \in DOMAIN Upper : Upper[a] \in DOMAIN Upper => Upper[a] = a

\* No machine is another one's name in the configured domain.
ASSUME DomainAssumption ==
  /\ Domain \in Seq(DOMAIN Upper \cup {Upper[l] : l \in DOMAIN Upper})
  /\ \A m, n \in Fleet : m # n \o Lower(Domain)

\* A publisher is started by systemd, the command by a shell: some ways yield nothing,
\* and none yields the name of another machine.
StatusInit ==
  /\ nameFor \in {f \in [Fleet -> UNION {Names(m) : m \in Fleet}] : \A m \in Fleet : f[m] \in Names(m)}
  /\ detected \in [1..Len(Ways) -> {Unset} \cup Names(Here)]
  /\ \E i \in 1..Len(Ways) : /\ detected[i] # Unset
                             /\ \A j \in 1..Len(Ways) : j < i => detected[j] = Unset
                             /\ \A j \in 1..Len(Ways) : j > i => detected[j] = <<Here[1]>>
  /\ \E up \in SUBSET Fleet : etcd = {<<nameFor[m], s>> : m \in up, s \in States}
  /\ configFile \in ConfigFiles
  /\ viewing = "config" /\ listed = {} /\ table = {} /\ puts = 0

-----------------------------------------------------------------------------
(* Names.                                                                  *)

\* The first way that yields a name.
DetectHostname == detected[CHOOSE i \in 1..Len(Ways) : detected[i] # Unset /\ \A j \in 1..i - 1 : detected[j] = Unset]

\* Mutant: names that have any label in common are one host's.
MatchesAnyLabel(host, other) == {host[i] : i \in DOMAIN host} \cap {other[i] : i \in DOMAIN other} # {}

\* Mutant: names are compared as they are.
MatchesExactly(host, other) == host = other

\* HostMatcher: whichever of the two is only a first label, in whatever case.
Matches(host, other) ==
  LET canonical == Lower(host)  theirs == Lower(other)
      shorts == {canonical, <<canonical[1]>>}
  IN theirs \in shorts \/ <<theirs[1]>> \in shorts

EndsWith(name, suffix) ==
  Len(name) > Len(suffix) /\ SubSeq(name, Len(name) - Len(suffix) + 1, Len(name)) = suffix

\* Mutant: the first label is enough of a name.
FirstLabel(host) == <<host[1]>>

\* trim_domain_suffix: in any case, and never the whole name.
TrimDomainSuffix(host) ==
  IF EndsWith(Lower(host), Lower(Domain)) THEN SubSeq(host, 1, Len(host) - Len(Domain)) ELSE host

-----------------------------------------------------------------------------
(* The command.                                                            *)

\* Its own revisions come from the three links; print_host_table says "unknown" for
\* a revision that is not there.
LocalRow == [host |-> DetectHostname, isLocal |-> TRUE, known |-> States]

\* A configuration that is there must be in order; without one, or without etcd in it,
\* only the local host is shown.
LoadConfig ==
  /\ viewing = "config"
  /\ viewing' = IF configFile \in ConfigFails THEN "failed" ELSE IF configFile = "complete" THEN "list" ELSE "shown"
  /\ table' = IF configFile \in ConfigFails THEN {} ELSE {LocalRow}
  /\ UNCHANGED <<etcd, nameFor, detected, configFile, listed, puts>>

\* One range request lists the hosts that have any key.
List ==
  /\ viewing = "list"
  /\ listed' = {name \in {key[1] : key \in etcd} : ~Matches(DetectHostname, name)}
  /\ viewing' = "get"
  /\ UNCHANGED <<etcd, nameFor, detected, configFile, table, puts>>

\* etcd cannot be reached: the local data is shown alone.
ListFails ==
  /\ viewing = "list" /\ viewing' = "shown"
  /\ UNCHANGED <<etcd, nameFor, detected, configFile, listed, table, puts>>

\* One get per state; a key that is gone and a get that fails both leave it unknown.
FetchStates(name) ==
  /\ viewing = "get" /\ name \in listed
  /\ \E failed \in {{}} \cup {{s} : s \in States} :
       table' = table \cup {[host |-> name, isLocal |-> FALSE,
                             known |-> {s \in States \ failed : <<name, s>> \in etcd}]}
  /\ listed' = listed \ {name}
  /\ UNCHANGED <<etcd, nameFor, detected, configFile, viewing, puts>>

PrintTable ==
  /\ viewing = "get" /\ listed = {} /\ viewing' = "shown"
  /\ UNCHANGED <<etcd, nameFor, detected, configFile, listed, table, puts>>

\* A publisher puts one more of its states.
Publish(m) ==
  /\ viewing # "shown" /\ puts < MaxPuts /\ puts' = puts + 1
  /\ \E s \in States : etcd' = etcd \cup {<<nameFor[m], s>>}
  /\ UNCHANGED <<nameFor, detected, configFile, viewing, listed, table>>

StatusNext ==
  \/ LoadConfig \/ List \/ ListFails \/ PrintTable
  \/ \E name \in listed : FetchStates(name)
  \/ \E m \in Fleet : Publish(m)

StatusSpec == StatusInit /\ [][StatusNext]_statusVars

-----------------------------------------------------------------------------
(* Properties.                                                             *)

\* However the command and this machine's publisher learned its name, the machine has
\* one row, the local one.
OneLocalRow ==
  viewing = "shown" =>
    Cardinality({row \in table : row.isLocal \/ row.host = nameFor[Here]}) = 1

\* What is left of the names when the domain is trimmed still tells the machines apart:
\* two that share a first label are in different domains, of which one is trimmed.
LabelsTellApart == viewing = "shown" =>
  \A row, other \in table :
    row # other => Lower(TrimDomainSuffix(row.host)) # Lower(TrimDomainSuffix(other.host))

\* Every other machine with a key in etcd is listed, whatever its name has in common
\* with this one's.
NoHostIsLeftOut ==
  viewing = "list" /\ viewing' = "get" =>
    \A m \in Fleet \ {Here} : (\E key \in etcd : key[1] = nameFor[m]) => nameFor[m] \in listed'

\* The report has one row for each machine and one label for each row: nobody
\* is left out for the likeness of two names, and nobody appears twice.
StatusIsWhole ==
  [](OneLocalRow /\ LabelsTellApart) /\ [][NoHostIsLeftOut]_statusVars
=============================================================================
