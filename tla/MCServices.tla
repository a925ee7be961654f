----------------------------- MODULE MCServices -----------------------------
(***************************************************************************)
(* The services that share nothing with one another, in one run: each      *)
(* behaviour is that of one service, `active`, with the others not         *)
(* started.  What one does never enables or disables what another does, so *)
(* their interleavings would add states and no behaviour of a service.     *)
(***************************************************************************)
EXTENDS NebulaDaemon, Clevis, HostInfo

VARIABLE active

\* Followed on either branch, without a device, and with a branch that does not
\* validate.
StoredSettings ==
  {[repository |-> "fit", branch |-> branch, device |-> device] :
     branch \in Parts, device \in {"fit", "absent"}} \ {[repository |-> "fit", branch |-> "malformed", device |-> "absent"]}

Services == {"nebula", "clevis", "hostinfo"}

Quiet(service) ==
  /\ UNCHANGED active
  /\ service # "nebula" => UNCHANGED nebulaVars
  /\ service # "clevis" => UNCHANGED clevisVars
  /\ service # "hostinfo" => UNCHANGED hostInfoVars

Of(service) == active = service /\ Quiet(service)

servicesVars == <<active, nebulaVars, clevisVars, hostInfoVars>>

\* One initial state is enough of a service that is not started.
ServicesInit ==
  /\ active \in Services
  /\ NebulaInit /\ (active # "nebula" => published = [i \in Installables |-> CHOOSE c \in Configs : TRUE])
  /\ ClevisInit /\ (active # "clevis" => deployed.t = 2 /\ blob = deployed)
  /\ HostInfoInit /\ (active # "hostinfo" => link = [s \in SystemStates |-> CHOOSE r \in Revisions : TRUE])

ServicesNext ==
  \/ Of("nebula") /\ NebulaNext
  \/ Of("clevis") /\ ClevisNext
  \/ Of("hostinfo") /\ HostInfoNext

\* Every task of an active service gets to run.
ServicesFairness ==
  /\ WF_servicesVars(Of("nebula") /\ StartStep)
  /\ WF_servicesVars(Of("nebula") /\ UpdateStep)
  /\ WF_servicesVars(Of("nebula") /\ SupervisorStep)
  /\ WF_servicesVars(Of("nebula") /\ ChildReads)
  /\ WF_servicesVars(Of("clevis") /\ RunStep)
  /\ WF_servicesVars(Of("hostinfo") /\ UpdatingStep)
  /\ WF_servicesVars(Of("hostinfo") /\ WatchingStep)

ServicesSpec == ServicesInit /\ [][ServicesNext]_servicesVars /\ ServicesFairness

\* TLC evaluates a definition once, but what replaces a constant each time it meets
\* the constant: the cfg names these, which only name a definition.
StoredSettingsOnce == StoredSettings
=============================================================================
