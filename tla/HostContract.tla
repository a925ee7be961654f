---------------------------- MODULE HostContract ----------------------------
(***************************************************************************)
(* What ogygia-updated promises about a host, without saying how a cycle   *)
(* goes about it: which revisions the daemon may put in the three places a *)
(* system can be (running, in the profile, in the bootloader), on whose    *)
(* behalf, and how a canary begins and ends.  Each place may change on its *)
(* own, because a cycle can fail between any two of them.                  *)
(***************************************************************************)
CONSTANTS
  Commits, Branches, Main, BootIds, Revisions, Reasons, InitialRecords,
  OnBranch(_, _, _),      \* has a revision reached a tip, given what is known
  CommonAncestors(_, _)   \* the history two commits share

VARIABLES running, profile, bootloader, bootId, tips, known, record

vars == <<running, profile, bootloader, bootId, tips, known, record>>

places == <<running, profile, bootloader>>

\* A branch's tip as the daemon last fetched it.
tip == tips[Main]

Tracked(revision) == OnBranch(known, revision, tip)

Trialling    == record.state = "active"
EphemeralOn  == Trialling /\ record.hold = "ephemeral"
PersistentOn == Trialling /\ record.hold = "persistent"
SameBoot     == EphemeralOn => record.boot = bootId

Init ==
  /\ running \in Revisions /\ profile \in Revisions /\ bootloader \in Revisions
  /\ bootId \in BootIds
  /\ tips \in [Branches -> Commits]
  /\ known \subseteq Commits
  /\ record \in InitialRecords

\* The clone only gains commits, and holds the tips it knows.
Fetch ==
  /\ tips' \in [Branches -> Commits]
  /\ known \subseteq known' /\ known' \subseteq Commits
  /\ \A b \in Branches : tips'[b] \in known'
  /\ UNCHANGED <<places, bootId, record>>

\* A trial is announced before the host is touched, in the boot it runs in.
StartTrial ==
  /\ record'.state = "active"
  /\ \E b \in Branches : record'.commit = tips[b]
  /\ record'.boot = bootId
  /\ UNCHANGED <<places, bootId, tips, known>>

\* A trial ends for a reason that is true when it is recorded.
EndTrial(why) ==
  /\ Trialling
  /\ record' = [state |-> "finished", commit |-> record.commit, reason |-> why]
  /\ why = "rebooted" => EphemeralOn /\ ~SameBoot
  /\ why = "overwritten" => SameBoot /\ running # record.commit
  /\ why = "merged" => SameBoot /\ running = record.commit /\ Tracked(record.commit)
  /\ why = "expired" => /\ SameBoot /\ running = record.commit
                        /\ ~Tracked(record.commit) /\ record.timed
  /\ UNCHANGED <<places, bootId, tips, known>>

\* The daemon moves to r: in the profile, on the bootloader, at once, or on
\* the bootloader and at once.
RunsNow(r) == running' = r /\ UNCHANGED <<profile, bootloader>>
Boots(r) ==
  \/ profile' = r /\ UNCHANGED <<running, bootloader>>
  \/ bootloader' = r /\ UNCHANGED <<running, profile>>
Switches(r) == running' = r /\ bootloader' = r /\ UNCHANGED profile

\* Follow the tracked branch.
Follow == RunsNow(tip) \/ Boots(tip) \/ Switches(tip)

\* Run a trial: an ephemeral one only now and only in the boot it was started
\* in, a persistent one also as the boot default.
RunTrial ==
  /\ Trialling /\ SameBoot
  /\ \/ EphemeralOn /\ RunsNow(record.commit)
     \/ PersistentOn /\ (Boots(record.commit) \/ Switches(record.commit))

\* Put a commit of the tracked branch under an ephemeral trial.
Floor ==
  /\ EphemeralOn /\ SameBoot
  /\ \E r \in CommonAncestors(record.commit, tip) : Boots(r)

Daemon ==
  /\ Follow \/ RunTrial \/ Floor
  /\ UNCHANGED <<bootId, tips, known, record>>

Operator ==
  /\ \E r \in Revisions :
       \/ RunsNow(r)
       \/ profile' = r /\ bootloader' = r /\ running' \in {running, r}
  /\ UNCHANGED <<bootId, tips, known, record>>

Reboot ==
  /\ running' = bootloader
  /\ bootId' \in BootIds \ {bootId}
  /\ UNCHANGED <<profile, bootloader, tips, known, record>>

Next ==
  \/ Fetch
  \/ StartTrial
  \/ \E why \in Reasons : EndTrial(why)
  \/ Daemon
  \/ Operator
  \/ Reboot

Spec == Init /\ [][Next]_vars

=============================================================================
