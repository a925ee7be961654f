----------------------------- MODULE MCRequests -----------------------------
(***************************************************************************)
(* The tasks that share nothing with one another, in one run: a request to *)
(* ogygia-irisd that its peers serve, and ogygia-dashboard's archive and   *)
(* certificate alerts.  Each behaviour is that of one of them, `active`,   *)
(* with the others not started.                                            *)
(***************************************************************************)
EXTENDS NarProxy, Archive, CertAlerts, TLC

VARIABLE active

\* Two compressions of a NAR, of different sizes.
Sizes == "z1" :> 2 @@ "z2" :> 3

CONSTANTS c1, c2, c3, p1, n1

\* c2 is a child of c1.
Reachable == c1 :> {c1} @@ c2 :> {c1, c2}

\* One certificate outlives another, and a commit has Nebula disabled.
NotAfters == c1 :> 2 @@ c2 :> 5 @@ c3 :> Off
Validities == c1 :> 4 @@ c2 :> 8 @@ c3 :> 4

Tasks == {"proxy", "archive", "certs"}

Of(name) ==
  /\ active = name
  /\ UNCHANGED active
  /\ name # "proxy" => UNCHANGED proxyVars
  /\ name # "archive" => UNCHANGED archiveVars
  /\ name # "certs" => UNCHANGED certVars

requestsVars == <<active, proxyVars, archiveVars, certVars>>

\* A NAR is like another, and so is a peer: p1 begins without a copy or with n1,
\* and so does the daemon, with one of its own; all compress it to three bytes at
\* first.
StartsWith ==
  /\ compression[Self] = "z2"
  /\ copyOf[Self] \in {NoCopy, [nar |-> n1, trusted |-> TRUE]}
  /\ copyOf[p1] # NoCopy => copyOf[p1].nar = n1

\* One initial state is enough of a task that is not started.
RequestsInit ==
  /\ active \in Tasks
  /\ ProxyInit /\ StartsWith /\ (active # "proxy" => advertised = {} /\ copyOf[Self] = NoCopy)
  /\ ArchiveInit /\ (active # "archive" => reported = {} /\ branches = {})
  /\ CertInit /\ (active # "certs" => pins = NoPins /\ tip = c1)

RequestsNext ==
  \/ Of("proxy") /\ ProxyNext
  \/ Of("archive") /\ ArchiveNext
  \/ Of("certs") /\ CertNext

\* Every task gets to run, and the forge answers again and again.
RequestsFairness ==
  /\ WF_requestsVars(Of("proxy") /\ ProxyStep)
  /\ WF_requestsVars(Of("archive") /\ (Collect \/ PushRejected \/ WakeUp \/ Seen))
  /\ SF_requestsVars(Of("archive") /\ Fetch)
  /\ SF_requestsVars(Of("archive") /\ Push)
  /\ WF_requestsVars(Of("certs") /\ CertStep)

RequestsSpec == RequestsInit /\ [][RequestsNext]_requestsVars /\ RequestsFairness

\* TLC evaluates a definition once, but what replaces a constant each time it meets
\* the constant: the cfg names these, which only name a definition.
SizesOnce == Sizes
ReachableOnce == Reachable
NotAftersOnce == NotAfters
ValiditiesOnce == Validities
=============================================================================
