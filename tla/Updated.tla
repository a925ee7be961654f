------------------------------ MODULE Updated ------------------------------
(***************************************************************************)
(* ogygia-updated: one host, its update daemon and the operators and       *)
(* machines around it.  A cycle of the daemon (engine::run) is cut at      *)
(* every point where the host can change under it: between reading a       *)
(* revision and acting on it, between the canary record and the            *)
(* activation it announces, and between the system calls of an activation. *)
(* At each cut the cycle can also fail, the machine can lose power, and an *)
(* operator can switch the system by hand.                                 *)
(*                                                                         *)
(* A system is identified with the revision it was built from.  The        *)
(* bootloader's default and the system profile are kept apart: set_profile *)
(* moves the one, switch-to-configuration the other, and the daemon can    *)
(* only read the profile.                                                  *)
(***************************************************************************)
EXTENDS CommitGraph

CONSTANTS
  Branches,      \* branches of the remote
  Main,          \* config.repo.branch, the one the host follows
  PublishedOn,   \* [Branches -> SUBSET Commits], what each may be pushed to
  InitialCommit, \* what the host and every branch start from
  Dirty,         \* the revision file of a dirty build ("unknown")
  HandBuilds,    \* what an operator may build and switch to by hand
  BootIds,       \* /proc/sys/kernel/random/boot_id; never repeats
  KernelOf,      \* kernel, initrd and modules of a revision's system
  Defines,       \* commits whose flake has this host's attribute
  AllowReboot,   \* config.activate.allow_reboot
  UsesPrefetch,  \* config.build.prefetch_attr is set
  NoRev          \* no revision

Revisions == Commits \cup {Dirty}

ASSUME UpdatedAssumption ==
  /\ Dirty \notin Commits
  /\ NoRev \notin Revisions
  /\ Main \in Branches
  /\ PublishedOn \in [Branches -> SUBSET Commits]
  /\ InitialCommit \in Commits
  /\ HandBuilds \subseteq Revisions
  /\ Defines \subseteq Commits
  /\ AllowReboot \in BOOLEAN
  /\ UsesPrefetch \in BOOLEAN

VARIABLES
  \* the host
  running,       \* /run/current-system's revision
  profile,       \* /nix/var/nix/profiles/system's revision ("next boot")
  bootloader,    \* what the machine really boots next
  bootedKernel,  \* kernel links of /run/booted-system
  bootId,        \* this boot's id
  rebootPending, \* shutdown -r is counting down
  \* the remote and the daemon's clone of it
  remote,        \* [Branches -> Commits]
  tips,          \* refs/remotes/origin/* as last fetched
  known,         \* commits the clone holds
  \* the canary record on disk
  record,
  lapsed,        \* the wall clock has passed the record's deadline
  \* the running cycle
  pc, trigger, force, goal, seenRunning, seenBoot,
  \* the last answer
  answer, promised

machine == <<bootedKernel, bootId, rebootPending>>
host  == <<running, profile, bootloader, machine>>
clone == <<tips, known>>
trial == <<record, lapsed>>
locals == <<trigger, force, goal, seenRunning, seenBoot>>
cycle == <<pc, locals>>
reply == <<answer, promised>>
vars  == <<host, remote, clone, trial, cycle, reply>>

-----------------------------------------------------------------------------
(* The canary record and the triggers of a cycle.                          *)

NoRecord   == [state |-> "none"]
Unreadable == [state |-> "unreadable"]

ActiveRecords ==
  [state : {"active"}, commit : Commits, hold : {"ephemeral", "persistent"},
   boot : BootIds, timed : BOOLEAN]

Reasons == {"merged", "expired", "cleared", "rebooted", "overwritten"}

FinishedRecords == [state : {"finished"}, commit : Commits, reason : Reasons]

Records == {NoRecord, Unreadable} \cup ActiveRecords \cup FinishedRecords

Active(r)    == r.state = "active"
Ephemeral(r) == Active(r) /\ r.hold = "ephemeral"

\* Mutant: the record keeps what only an active trial has.
FinishedKeepsHold(r, why) == [r EXCEPT !.state = "finished"]

Finished(r, why) == [state |-> "finished", commit |-> r.commit, reason |-> why]

NoTrigger == [kind |-> "none"]

Triggers ==
  [kind : {"scheduled", "manual"}, late : BOOLEAN]
    \cup [kind : {"start"}, branch : Branches, persist : BOOLEAN, timed : BOOLEAN]

AnswerKinds ==
  {"none", "error", "uptodate", "notonbranch", "switched", "testactivated",
   "rebootscheduled", "prefetch", "started", "held"}

Stages ==
  {"idle", "fetch", "dispatch", "survey", "build", "profile", "switch", "test",
   "stage", "kernel", "trial", "floor", "floorprofile", "floorboot", "apply"}

TypeOK ==
  /\ running \in Revisions /\ profile \in Revisions /\ bootloader \in Revisions
  /\ bootedKernel \in {KernelOf[r] : r \in Revisions}
  /\ bootId \in BootIds
  /\ rebootPending \in BOOLEAN
  /\ remote \in [Branches -> Commits]
  /\ tips \in [Branches -> Commits]
  /\ known \subseteq Commits
  /\ record \in Records
  /\ lapsed \in BOOLEAN
  /\ pc \in Stages
  /\ trigger \in Triggers \cup {NoTrigger}
  /\ force \in BOOLEAN
  /\ goal \in Revisions \cup {NoRev}
  /\ seenRunning \in Revisions \cup {NoRev}
  /\ seenBoot \in Revisions \cup {NoRev}
  /\ answer \in AnswerKinds
  /\ promised \in Revisions \cup {NoRev}

\* The tracked tip as this cycle fetched it.
mainTip == tips[Main]

Tracked(revision) == OnBranch(known, revision, mainTip)

-----------------------------------------------------------------------------
(* Beginning and ending a cycle.                                           *)

Init ==
  /\ running = InitialCommit
  /\ profile = InitialCommit
  /\ bootloader = InitialCommit
  /\ bootedKernel = KernelOf[InitialCommit]
  /\ bootId \in BootIds
  /\ rebootPending = FALSE
  /\ remote = [b \in Branches |-> InitialCommit]
  /\ tips = [b \in Branches |-> InitialCommit]
  /\ known = AncestorsOf[InitialCommit]
  /\ record \in {NoRecord, Unreadable}
  /\ lapsed = FALSE
  /\ pc = "idle"
  /\ trigger = NoTrigger
  /\ force = FALSE
  /\ goal = NoRev /\ seenRunning = NoRev /\ seenBoot = NoRev
  /\ answer = "none" /\ promised = NoRev

Goto(stage) == pc' = stage /\ UNCHANGED reply

\* The cycle is over and its locals are gone.
Answer(kind, boot) ==
  /\ pc' = "idle"
  /\ trigger' = NoTrigger
  /\ force' = FALSE
  /\ goal' = NoRev /\ seenRunning' = NoRev /\ seenBoot' = NoRev
  /\ answer' = kind
  /\ promised' = boot

\* A trigger reaches the idle loop; run_once reads the clock here, before
\* anything else.
Begin(t) ==
  /\ pc = "idle"
  /\ trigger' = t
  /\ pc' = "fetch"
  /\ answer' = "none" /\ promised' = NoRev
  /\ UNCHANGED <<host, remote, clone, trial, force, goal, seenRunning, seenBoot>>

BeginScheduled == Begin([kind |-> "scheduled", late |-> lapsed])
BeginManual    == Begin([kind |-> "manual", late |-> lapsed])
BeginStart     == \E t \in Triggers : t.kind = "start" /\ Begin(t)

\* open_or_clone, fetch and resolving the tracked tip.
Fetch ==
  /\ pc = "fetch"
  /\ tips' = remote
  /\ known' = known \cup UNION {AncestorsOf[remote[b]] : b \in Branches}
  /\ Goto("dispatch")
  /\ UNCHANGED <<host, remote, trial, locals>>

-----------------------------------------------------------------------------
(* Dispatching on the trigger: the canary record is read, and written      *)
(* before the host is touched.                                             *)

Dispatching(kind) == pc = "dispatch" /\ trigger.kind = kind

\* engine::finish_canary.
FinishCanary(why) == record' = Finished(record, why) /\ lapsed' = FALSE

\* Mutant: a reboot ends no trial.
EndingIgnoresReboot ==
  IF running # record.commit THEN "overwritten"
  ELSE IF Tracked(record.commit) THEN "merged"
  ELSE IF record.timed /\ trigger.late THEN "expired"
  ELSE "held"

\* How a scheduled cycle finds an active trial, the first reason to end it
\* winning: reboot, out-of-band switch, merge, timeout.
Ending ==
  IF record.hold = "ephemeral" /\ record.boot # bootId THEN "rebooted"
  ELSE IF running # record.commit THEN "overwritten"
  ELSE IF Tracked(record.commit) THEN "merged"
  ELSE IF record.timed /\ trigger.late THEN "expired"
  ELSE "held"

\* The ending depends on the running revision, which a dirty build has not.
EndingReadable ==
  (record.hold = "ephemeral" /\ record.boot # bootId) \/ running # Dirty

\* scheduled, no active trial (or an unreadable record): follow the branch.
Track ==
  /\ Dispatching("scheduled")
  /\ ~Active(record)
  /\ force' = FALSE
  /\ Goto("survey")
  /\ UNCHANGED <<host, remote, clone, trial, trigger, goal, seenRunning, seenBoot>>

\* scheduled, trial over: record why, then update. Only an expired trial is
\* replaced by force.
EndTrial ==
  /\ Dispatching("scheduled")
  /\ Active(record) /\ EndingReadable
  /\ Ending # "held"
  /\ FinishCanary(Ending)
  /\ force' = (Ending = "expired")
  /\ Goto("survey")
  /\ UNCHANGED <<host, remote, clone, trigger, goal, seenRunning, seenBoot>>

\* scheduled, trial still on: keep an ephemeral one's boot floor recent.
HoldTrial ==
  /\ Dispatching("scheduled")
  /\ Active(record) /\ EndingReadable
  /\ Ending = "held"
  /\ IF Ephemeral(record)
     THEN Goto("floor") /\ UNCHANGED locals
     ELSE Answer("held", record.commit)
  /\ UNCHANGED <<host, remote, clone, trial>>

\* Trigger::Manual: any active trial is cleared and the update is forced.
ClearTrial ==
  /\ Dispatching("manual")
  /\ IF Active(record) THEN FinishCanary("cleared") ELSE UNCHANGED trial
  /\ force' = TRUE
  /\ Goto("survey")
  /\ UNCHANGED <<host, remote, clone, trigger, goal, seenRunning, seenBoot>>

\* start_canary: pin the branch's tip and store the record.
StoreTrial ==
  /\ Dispatching("start")
  /\ record' = [state |-> "active", commit |-> tips[trigger.branch],
                hold |-> IF trigger.persist THEN "persistent" ELSE "ephemeral",
                boot |-> bootId, timed |-> trigger.timed]
  /\ lapsed' = FALSE
  /\ Goto("trial")
  /\ UNCHANGED <<host, remote, clone, locals>>

-----------------------------------------------------------------------------
(* update_to_tip and activate.                                             *)

\* Mutant: every system may be advanced.
AlwaysAdvance(current) == current \in Revisions

\* The guard that leaves a deliberately off-branch system alone.
MayAdvance(current) == force \/ Tracked(current)

\* update_to_tip: read both revisions, then decide from what was read.
Survey ==
  /\ pc = "survey"
  /\ running # Dirty /\ profile # Dirty
  /\ IF ~MayAdvance(running)
     THEN Answer("notonbranch", NoRev)
     ELSE IF running = mainTip /\ profile = mainTip
     THEN Answer("uptodate", NoRev)
     ELSE /\ goal' = mainTip
          /\ seenRunning' = running /\ seenBoot' = profile
          /\ Goto("build")
          /\ UNCHANGED <<trigger, force>>
  /\ UNCHANGED <<host, remote, clone, trial>>

\* Mutant: the staged boot default is never asked about.
AlwaysBoots(boot) == boot \in Revisions

\* next_boot_on_branch.
MayTakeBootDefault(boot) == force \/ Tracked(boot)

\* checkout, prefetch and build of the tip succeed.
Build ==
  /\ pc = "build"
  /\ goal \in Defines
  /\ Goto(IF MayTakeBootDefault(seenBoot) THEN "profile" ELSE "test")
  /\ UNCHANGED <<host, remote, clone, trial, locals>>

\* The cache-warm closure cannot be substituted.
PrefetchFails ==
  /\ pc = "build"
  /\ UsesPrefetch
  /\ Answer("prefetch", NoRev)
  /\ UNCHANGED <<host, remote, clone, trial>>

\* switch-to-configuration test of the tip: the boot default stays.
TestTip ==
  /\ pc = "test"
  /\ running' = goal
  /\ Answer("testactivated", NoRev)
  /\ UNCHANGED <<profile, bootloader, machine, remote, clone, trial>>

\* set_profile, for an update and for a persistent trial.
SetProfile ==
  /\ pc = "profile"
  /\ profile' = goal
  /\ Goto(IF trigger.kind # "start" /\ AllowReboot THEN "stage" ELSE "switch")
  /\ UNCHANGED <<running, bootloader, machine, remote, clone, trial, locals>>

\* switch-to-configuration switch.
Switch ==
  /\ pc = "switch"
  /\ bootloader' = goal /\ running' = goal
  /\ IF trigger.kind = "start" THEN Answer("started", goal) ELSE Answer("switched", NoRev)
  /\ UNCHANGED <<profile, machine, remote, clone, trial>>

\* Mutant: the bootloader is never told.
StageForgotten ==
  /\ pc = "stage"
  /\ Goto("kernel")
  /\ UNCHANGED <<host, remote, clone, trial, locals>>

\* allow_reboot: switch-to-configuration boot ...
StageBoot ==
  /\ pc = "stage"
  /\ bootloader' = goal
  /\ Goto("kernel")
  /\ UNCHANGED <<running, profile, machine, remote, clone, trial, locals>>

\* ... then activate at once when the kernel is the booted one ...
ActivateSameKernel ==
  /\ pc = "kernel"
  /\ KernelOf[goal] = bootedKernel
  /\ running' = goal
  /\ Answer("switched", NoRev)
  /\ UNCHANGED <<profile, bootloader, machine, remote, clone, trial>>

\* ... and schedule a reboot into it when it is not.
ScheduleReboot ==
  /\ pc = "kernel"
  /\ KernelOf[goal] # bootedKernel
  /\ rebootPending' = TRUE
  /\ Answer("rebootscheduled", NoRev)
  /\ UNCHANGED <<running, profile, bootloader, bootedKernel, bootId>>
  /\ UNCHANGED <<remote, clone, trial>>

-----------------------------------------------------------------------------
(* start_canary after the record is stored, and stage_boot_floor.          *)

\* A persistent trial is applied like an update; an ephemeral one gets its
\* floor first. The running revision read here decides below whether the
\* trial still has to be activated.
StartTrial ==
  /\ pc = "trial"
  /\ running # Dirty
  /\ IF Ephemeral(record)
     THEN seenRunning' = running /\ Goto("floor") /\ UNCHANGED <<trigger, force, goal, seenBoot>>
     ELSE /\ profile # Dirty
          /\ IF running = record.commit /\ profile = record.commit
             THEN Answer("started", record.commit)
             ELSE /\ record.commit \in Defines
                  /\ goal' = record.commit
                  /\ Goto("profile")
                  /\ UNCHANGED <<trigger, force, seenRunning, seenBoot>>
  /\ UNCHANGED <<host, remote, clone, trial>>

\* Mutant: the trial itself is staged for boot.
FloorIsTrial == record.commit

\* The commit a reboot should land on: where the trial left the branch.
Floor == MergeBase(record.commit, mainTip)

\* Back in the caller, with `boot` as the floor it will report: a held trial
\* is done, and so is a started one that already ran.
FloorDone(boot) ==
  IF trigger.kind = "start" /\ seenRunning # record.commit
  THEN goal' = boot /\ Goto("apply") /\ UNCHANGED <<trigger, force, seenRunning, seenBoot>>
  ELSE Answer(IF trigger.kind = "start" THEN "started" ELSE "held", boot)

\* Read the profile; without the attribute at the floor the boot default is
\* kept, and a profile already at the floor is taken as staged.
StageFloor ==
  /\ pc = "floor"
  /\ MergeBases(record.commit, mainTip) # {}
  /\ profile # Dirty
  /\ IF Floor \notin Defines THEN FloorDone(profile)
     ELSE IF profile = Floor THEN FloorDone(Floor)
     ELSE /\ goal' = Floor
          /\ Goto("floorprofile")
          /\ UNCHANGED <<trigger, force, seenRunning, seenBoot>>
  /\ UNCHANGED <<host, remote, clone, trial>>

SetFloorProfile ==
  /\ pc = "floorprofile"
  /\ profile' = goal
  /\ Goto("floorboot")
  /\ UNCHANGED <<running, bootloader, machine, remote, clone, trial, locals>>

BootFloor ==
  /\ pc = "floorboot"
  /\ bootloader' = goal
  /\ FloorDone(goal)
  /\ UNCHANGED <<running, profile, machine, remote, clone, trial>>

\* The trial's one activation: switch-to-configuration test.
ApplyTrial ==
  /\ pc = "apply"
  /\ record.commit \in Defines
  /\ running' = record.commit
  /\ Answer("started", goal)
  /\ UNCHANGED <<profile, bootloader, machine, remote, clone, trial>>

-----------------------------------------------------------------------------
(* Failures: of any call, before or after it took effect.                  *)

Fail == Answer("error", NoRev)

\* What the code cannot get past however often it tries: a dirty revision
\* file, a commit without the host's attribute, histories without a base.
Stuck ==
  \/ Dispatching("scheduled") /\ Active(record) /\ ~EndingReadable
  \/ pc = "survey" /\ Dirty \in {running, profile}
  \/ pc = "build" /\ goal \notin Defines
  \/ pc = "trial" /\ running = Dirty
  \/ pc = "trial" /\ ~Ephemeral(record) /\ profile = Dirty
  \/ pc = "trial" /\ ~Ephemeral(record) /\ record.commit \notin Defines
  \/ pc = "floor" /\ (MergeBases(record.commit, mainTip) = {} \/ profile = Dirty)
  \/ pc = "apply" /\ record.commit \notin Defines

\* A call fails without effect, or the daemon is killed; systemd restarts it.
CycleFails ==
  /\ pc # "idle" /\ ~Stuck
  /\ Fail
  /\ UNCHANGED <<host, remote, clone, trial>>

CycleStuck ==
  /\ Stuck
  /\ Fail
  /\ UNCHANGED <<host, remote, clone, trial>>

\* switch-to-configuration reports failure after it installed the bootloader
\* entry, or after it had also activated the system.
ActivationFails ==
  /\ \/ pc = "switch" /\ bootloader' = goal /\ running' \in {running, goal}
     \/ pc \in {"stage", "floorboot"} /\ bootloader' = goal /\ running' = running
     \/ pc \in {"test", "kernel"} /\ running' = goal /\ bootloader' = bootloader
     \/ pc = "apply" /\ running' = record.commit /\ bootloader' = bootloader
  /\ Fail
  /\ UNCHANGED <<profile, machine, remote, clone, trial>>

-----------------------------------------------------------------------------
(* The world around the daemon.                                            *)

\* A branch moves, forwards or not (the fetch refspec is forced).
Push(b, c) ==
  /\ c \in PublishedOn[b]
  /\ remote' = [remote EXCEPT ![b] = c]
  /\ UNCHANGED <<host, clone, trial, cycle, reply>>

\* nixos-rebuild switch, test and boot by an operator.
HandSwitch(r) ==
  /\ running' = r /\ profile' = r /\ bootloader' = r
  /\ UNCHANGED <<machine, remote, clone, trial, cycle, reply>>

HandTest(r) ==
  /\ running' = r
  /\ UNCHANGED <<profile, bootloader, machine, remote, clone, trial, cycle, reply>>

HandBoot(r) ==
  /\ profile' = r /\ bootloader' = r
  /\ UNCHANGED <<running, machine, remote, clone, trial, cycle, reply>>

Operator == \E r \in HandBuilds : HandSwitch(r) \/ HandTest(r) \/ HandBoot(r)

\* The machine comes up on the boot default under a fresh boot id.
Reboot ==
  /\ running' = bootloader
  /\ bootedKernel' = KernelOf[bootloader]
  /\ \E b \in BootIds :
       /\ b # bootId
       /\ Ephemeral(record) => b # record.boot
       /\ bootId' = b
  /\ rebootPending' = FALSE
  /\ pc' = "idle" /\ trigger' = NoTrigger /\ force' = FALSE
  /\ goal' = NoRev /\ seenRunning' = NoRev /\ seenBoot' = NoRev
  /\ answer' = "none" /\ promised' = NoRev
  /\ UNCHANGED <<profile, bootloader, remote, clone, trial>>

\* The countdown of a scheduled reboot runs out.
ScheduledReboot == rebootPending /\ Reboot

\* The wall clock passes the record's deadline.
DeadlineLapses ==
  /\ Active(record) /\ record.timed /\ ~lapsed
  /\ lapsed' = TRUE
  /\ UNCHANGED <<host, remote, clone, record, cycle, reply>>

-----------------------------------------------------------------------------

\* What a cycle does when nothing goes wrong.
Progress ==
  \/ Fetch
  \/ Track \/ EndTrial \/ HoldTrial \/ ClearTrial \/ StoreTrial
  \/ Survey \/ Build \/ TestTip \/ SetProfile \/ Switch
  \/ StageBoot \/ ActivateSameKernel \/ ScheduleReboot
  \/ StartTrial \/ StageFloor \/ SetFloorProfile \/ BootFloor \/ ApplyTrial
  \/ CycleStuck

\* What may go wrong.
Trouble == CycleFails \/ PrefetchFails \/ ActivationFails

Daemon == BeginScheduled \/ BeginManual \/ BeginStart \/ Progress \/ Trouble

World ==
  \/ \E b \in Branches, c \in Commits : Push(b, c)
  \/ Operator
  \/ Reboot
  \/ DeadlineLapses

Next == Daemon \/ World

Spec == Init /\ [][Next]_vars

\* The interval timer always fires again (systemd restarts a daemon that
\* exited), a cycle's steps end, countdowns and deadlines run out. Nothing
\* says that a call ever succeeds, that an operator acts or a branch moves.
Fairness ==
  /\ WF_vars(BeginScheduled)
  /\ WF_vars(Progress)
  /\ WF_vars(ScheduledReboot)
  /\ WF_vars(DeadlineLapses)

FairSpec == Spec /\ Fairness

-----------------------------------------------------------------------------
(* Properties.                                                             *)

\* The daemon acts on the host within what HostContract allows, whatever
\* fails, reboots or is switched by hand in the middle of a cycle.
Contract == INSTANCE HostContract WITH InitialRecords <- {NoRecord, Unreadable}
KeepsContract == Contract!Spec

UpdateStages == {"build", "profile", "switch", "test", "stage", "kernel"}

\* A scheduled update only moves a host whose running system it found on the
\* tracked branch, and only takes over a boot default it found there, except
\* to revert an expired trial (update_to_tip's two guards, which are read
\* before a build and used after it).
OffBranchLeftAlone ==
  (pc \in UpdateStages /\ trigger.kind = "scheduled" /\ ~force) =>
     /\ Tracked(seenRunning)
     /\ pc \in {"profile", "switch", "stage", "kernel"} => Tracked(seenBoot)

\* Every commit of the revision's own came back on the branch, with its
\* change-id, since the two parted.
BackOnBranch(revision) ==
  \A c \in AncestorsOf[revision] \ AncestorsOf[mainTip] :
     /\ ChangeIdOf[c] # NoChangeId
     /\ \E d \in BranchSide(revision, mainTip) : ChangeIdOf[d] = ChangeIdOf[c]

\* An update that is not forced only takes a host off a revision whose every
\* commit has landed, however long the two histories are that changes_landed
\* gives up reading: one commit that has not is lost to the host.
NothingIsLeftBehind ==
  (pc \in UpdateStages /\ trigger.kind # "start" /\ ~force) => BackOnBranch(seenRunning)

\* A held trial is running in the boot it was started in and has not merged:
\* "held" is never answered for a trial that a reboot already ended, even if
\* the reboot landed on the trial's own commit.
HeldInItsBoot ==
  (pc = "floor" /\ trigger.kind = "scheduled") \/ answer = "held" =>
     /\ Active(record)
     /\ Ephemeral(record) => record.boot = bootId
     /\ ~Tracked(record.commit)

(* The inductive invariant: what each stage of a cycle relies on, and what  *)
(* neither a reboot, an operator nor a failure can take from it.           *)

TrialStages == {"trial", "floor", "floorprofile", "floorboot", "apply"}
FloorStages == {"floor", "floorprofile", "floorboot"}
BootStages  == {"profile", "switch", "stage", "kernel"}

\* A cycle runs on somebody's behalf and has not answered yet.
OneCycle ==
  /\ pc = "idle" <=> trigger = NoTrigger
  /\ answer # "none" => pc = "idle"
  /\ pc = "survey" => trigger.kind # "start"

\* An update goes to the tip that was fetched, a persistent trial to its
\* commit; nothing else moves the profile and the bootloader together.
UpdateGoal ==
  pc \in UpdateStages =>
    \/ trigger.kind # "start" /\ goal = mainTip
    \/ /\ trigger.kind = "start" /\ pc \in {"profile", "switch"}
       /\ Active(record) /\ ~Ephemeral(record) /\ goal = record.commit

\* Both guards of update_to_tip were passed by what was read.
UpdateGuarded ==
  (pc \in UpdateStages /\ trigger.kind # "start") =>
    /\ force \/ Tracked(seenRunning)
    /\ pc \in BootStages => force \/ Tracked(seenBoot)

\* A trial is only started or kept in the boot its record names.
TrialOn ==
  pc \in TrialStages =>
    /\ Active(record)
    /\ Ephemeral(record) => record.boot = bootId
    /\ pc # "trial" => Ephemeral(record)
    /\ trigger.kind \in {"scheduled", "start"}
    /\ pc \in {"trial", "apply"} => trigger.kind = "start"

\* What is staged under a trial is where it left the branch.
FloorGoal ==
  /\ pc \in {"floorprofile", "floorboot"} =>
       MergeBases(record.commit, mainTip) # {} /\ goal = Floor
  /\ pc = "apply" => goal \in Revisions

\* A trial that is kept had not merged when the branch was fetched.
Held ==
  \/ pc \in FloorStages /\ trigger.kind = "scheduled"
  \/ answer = "held"

HeldTrial ==
  Held => /\ Active(record)
          /\ Ephemeral(record) => record.boot = bootId
          /\ ~Tracked(record.commit)

CycleInv ==
  OneCycle /\ UpdateGoal /\ UpdateGuarded /\ TrialOn /\ FloorGoal /\ HeldTrial

\* From some point on nothing fails, no operator acts, no branch moves and
\* the machine only reboots because the daemon scheduled it.
Undisturbed ==
  <>[][~(\/ Trouble \/ BeginManual \/ BeginStart \/ Operator
         \/ \E b \in Branches, c \in Commits : Push(b, c)
         \/ Reboot /\ ~rebootPending)]_vars

\* Left to itself the host ends up, for good, on the remote's tracked tip;
\* on the trial it holds; or on a system it found off the branch and may not
\* touch. Whatever partial activation it was left in before, and although
\* the update may need a reboot.
SettlesOnTip ==
  Undisturbed => <>[](\/ running = remote[Main]
                      \/ ~OnBranch(known, running, remote[Main])
                      \/ Active(record) /\ running = record.commit)

\* An ephemeral trial that a reboot ended is eventually recorded as over or
\* replaced by a new one.
Outlived == Ephemeral(record) /\ record.boot # bootId

RebootEndsTrial == Undisturbed => (Outlived ~> ~Outlived)

\* Left alone, the host settles on the tip or on a trial it may hold, and no
\* trial outlives for good the boot it was started in.
LeftAloneSettles == SettlesOnTip /\ RebootEndsTrial

\* The host runs the commit of its current or last trial, off the branch.
OnTrial ==
  /\ record.state \in {"active", "finished"}
  /\ running = record.commit
  /\ ~OnBranch(known, running, remote[Main])

\* "The host is held there until the timeout elapses" (Trigger::StartCanary):
\* a trial past its deadline eventually leaves the host, or is renewed.
ExpiredTrialReverts ==
  Undisturbed =>
    ((Active(record) /\ lapsed) ~> (~OnTrial \/ (Active(record) /\ ~lapsed)))

=============================================================================
