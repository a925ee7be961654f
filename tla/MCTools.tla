------------------------------- MODULE MCTools -------------------------------
(***************************************************************************)
(* The parts that share nothing with one another and promise nothing about *)
(* when: the commands of the CLI with what runs beside them, the drawing   *)
(* of the dashboard's timeline, and ogygia-irisd's blooms of its peers.    *)
(* Each behaviour is that of one of them, `active`, with the others not    *)
(* started.                                                                *)
(***************************************************************************)
EXTENDS NebulaKeys, IrisPush, FleetStatus, Timeline, PeerBloom

VARIABLE active

CONSTANTS m1, m2, k1

PeersAndRequests == Permutations(Peers) \cup Permutations(Requests)

\* A machine has its key, the other gets one.
Unkeyed == keyOf = (m1 :> k1 @@ m2 :> Nothing) /\ \A m \in Machines : options[m].groups = {} /\ options[m].validity = 3
SomeGroups == {{}, {"g"}}

\* p3 refers to p2 and p1, p2 to p1.
References == "p1" :> {} @@ "p2" :> {"p1"} @@ "p3" :> {"p1", "p2"}

\* Two machines share the first label, two the domain.
TheFleet == {<<"web", "lan">>, <<"db", "lan">>, <<"db", "lab">>}
ThisHost == <<"web", "lan">>
TheDomain == <<"LAN">>
UpperCase == "web" :> "WEB" @@ "db" :> "DB" @@ "lan" :> "LAN" @@ "lab" :> "LAB"

Tools == {"rekey", "push", "status", "timeline", "bloom"}

Of(tool) ==
  /\ active = tool
  /\ UNCHANGED active
  /\ tool # "rekey" => UNCHANGED nebulaKeysVars
  /\ tool # "push" => UNCHANGED pushVars
  /\ tool # "status" => UNCHANGED statusVars
  /\ tool # "timeline" => UNCHANGED timelineVars
  /\ tool # "bloom" => UNCHANGED vars

toolsVars == <<active, nebulaKeysVars, pushVars, statusVars, timelineVars, vars>>

\* One initial state is enough of a part that is not started.
ToolsInit ==
  /\ active \in Tools
  /\ NebulaKeysInit /\ Unkeyed
  /\ PushInit
  /\ IF active = "status" THEN StatusInit /\ (configFile # "complete" => etcd = {})
     ELSE /\ nameFor = [m \in Fleet |-> m]
          /\ detected = [i \in 1..Len(Ways) |-> IF i = 1 THEN Here ELSE <<Here[1]>>]
          /\ etcd = {} /\ configFile = "complete"
          /\ viewing = "config" /\ listed = {} /\ table = {} /\ puts = 0
  /\ IF active = "timeline" THEN TimelineInit
     ELSE /\ parentsOf = [c \in Repo |-> <<>>] /\ tipIs = 1 /\ skew = 0 /\ deployed = {1}
          /\ phase = "ask" /\ edges = <<>> /\ stack = <<>> /\ rowOrder = <<>>
          /\ lanes = <<>> /\ rows = <<>> /\ led = 0
  /\ Init

\* All but the blooms' come to an end.
Rests == active # "bloom" /\ UNCHANGED toolsVars

ToolsNext ==
  \/ Of("rekey") /\ NebulaKeysNext
  \/ Of("push") /\ PushNext
  \/ Of("status") /\ StatusNext
  \/ Of("timeline") /\ TimelineNext
  \/ Of("bloom") /\ Next
  \/ Rests

ToolsSpec == ToolsInit /\ [][ToolsNext]_toolsVars

\* TLC evaluates a definition once, but what replaces a constant each time it meets
\* the constant: the cfg names these, which only name a definition.
ReferencesOnce == References
TheFleetOnce == TheFleet
UpperCaseOnce == UpperCase
=============================================================================
