--------------------------- MODULE UpdatedProofs ----------------------------
(***************************************************************************)
(* What holds of the update cycle for every commit graph, every set of     *)
(* branches and every configuration.                                       *)
(***************************************************************************)
EXTENDS Updated, FiniteSetTheorems, TLAPS

-----------------------------------------------------------------------------
(* The commit graph.                                                       *)

\* Histories are sets of commits.
LEMMA AncestorsType == AncestorsOf \in [Commits -> SUBSET Commits]
  BY DEF AncestorsOf

\* Every commit is in its own history: is_ancestor(c, c) holds.
LEMMA AncestorsReflexive == ASSUME NEW c \in Commits PROVE c \in AncestorsOf[c]
  BY DEF AncestorsOf

\* A merge base that exists is a commit both histories share.
LEMMA MergeBaseShared ==
  ASSUME NEW a \in Commits, NEW b \in Commits, MergeBases(a, b) # {}
  PROVE  MergeBase(a, b) \in CommonAncestors(a, b) /\ MergeBase(a, b) \in Commits
<1>1. MergeBase(a, b) \in MergeBases(a, b)
  BY DEF MergeBase
<1>2. MergeBases(a, b) \subseteq CommonAncestors(a, b)
  BY DEF MergeBases
<1>3. CommonAncestors(a, b) \subseteq Commits
  BY AncestorsType DEF CommonAncestors
<1> QED BY <1>1, <1>2, <1>3

\* The history of an ancestor is part of one's own.
LEMMA AncestorsTransitive ==
  ASSUME NEW a \in Commits, NEW b \in AncestorsOf[a], NEW c \in AncestorsOf[b]
  PROVE  c \in AncestorsOf[a]
<1>1. b \in Commits /\ c \in Commits
  BY AncestorsType
<1> QED BY <1>1 DEF AncestorsOf

\* A finite set has subsets of every size up to its own.
LEMMA SomeOfMany ==
  ASSUME NEW S, IsFiniteSet(S), NEW k \in Nat, k <= Cardinality(S)
  PROVE  \E T \in SUBSET S : Cardinality(T) = k
<1>1. Cardinality(S) \in Nat /\ ExistsBijection(1..Cardinality(S), S)
  BY FS_CardinalityType
<1>2. PICK f \in [1..Cardinality(S) -> S] :
        \A i, j \in 1..Cardinality(S) : f[i] = f[j] => i = j
  BY <1>1 DEF ExistsBijection, Bijection, Injection, IsInjective
<1> DEFINE T == {f[i] : i \in 1..k}
           g == [i \in 1..k |-> f[i]]
<1>3. 1..k \subseteq 1..Cardinality(S)
  BY <1>1
<1>4. g \in [1..k -> T] /\ \A i, j \in 1..k : g[i] = g[j] => i = j
  BY <1>2, <1>3
<1>5. \A t \in T : \E i \in 1..k : g[i] = t
  OBVIOUS
<1>6. ExistsBijection(1..k, T)
  BY <1>4, <1>5 DEF ExistsBijection, Bijection, Injection, Surjection, IsInjective
<1>7. Cardinality(T) = k
  BY <1>6, FS_CountingElements
<1>8. T \in SUBSET S
  BY <1>2, <1>3
<1> QED BY <1>7, <1>8

\* A walk that stops at its bound read some of what it walks, and nothing else.
LEMMA ScannedIsPart ==
  ASSUME NEW S \in SUBSET Commits PROVE Scanned(S) \subseteq S
<1>1. IsFiniteSet(S) /\ Cardinality(S) \in Nat /\ MaxLandedScan \in Nat
  BY CommitGraphAssumption, FS_Subset, FS_CardinalityType
<1>2. CASE Cardinality(S) <= MaxLandedScan
  BY <1>2 DEF Scanned
<1>3. CASE ~(Cardinality(S) <= MaxLandedScan)
  <2>1. \E T \in SUBSET S : Cardinality(T) = MaxLandedScan
    BY <1>1, <1>3, SomeOfMany
  <2> QED BY <1>3, <2>1 DEF Scanned
<1> QED BY <1>2, <1>3

\* on_branch is never fooled by a history longer than changes_landed reads: each
\* commit of the revision that is not on the branch has its counterpart there.
LEMMA OnBranchIsWhole ==
  ASSUME NEW fetched \in SUBSET Commits, NEW revision, NEW tip \in Commits,
         OnBranch(fetched, revision, tip), NEW c \in AncestorsOf[revision] \ AncestorsOf[tip]
  PROVE  /\ ChangeIdOf[c] # NoChangeId
         /\ \E d \in BranchSide(revision, tip) : ChangeIdOf[d] = ChangeIdOf[c]
<1>1. revision \in Commits
  BY DEF OnBranch, IsAncestor, ChangesLanded
<1>2. ~IsAncestor(fetched, revision, tip)
  BY AncestorsTransitive DEF IsAncestor
<1>3. ChangeIdOf[c] \in LandedIds(revision, tip)
  BY <1>2 DEF OnBranch, ChangesLanded
<1>4. BranchSide(revision, tip) \in SUBSET Commits
  BY AncestorsType DEF BranchSide
<1>5. Scanned(BranchSide(revision, tip)) \subseteq BranchSide(revision, tip)
  BY <1>4, ScannedIsPart
<1> QED BY <1>3, <1>5 DEF LandedIds

-----------------------------------------------------------------------------
(* Type correctness.                                                       *)

\* A started trial names a branch.
LEMMA StartTriggers ==
  ASSUME TypeOK, trigger.kind = "start" PROVE trigger.branch \in Branches
  BY DEF TypeOK, Triggers, NoTrigger

\* An active record is one of the active records.
LEMMA ActiveType == ASSUME TypeOK, Active(record) PROVE record \in ActiveRecords
  BY DEF TypeOK, Active, Records, NoRecord, Unreadable, FinishedRecords

\* Ending a trial leaves a finished record.
LEMMA FinishedType ==
  ASSUME TypeOK, Active(record), NEW why \in Reasons
  PROVE  Finished(record, why) \in Records
<1>1. record.commit \in Commits
  BY ActiveType DEF ActiveRecords
<1> QED BY <1>1 DEF Finished, Records, FinishedRecords

\* The end of a cycle is well typed, whatever is answered.
LEMMA AnswerType ==
  ASSUME NEW kind \in AnswerKinds, NEW boot \in Revisions \cup {NoRev}, Answer(kind, boot)
  PROVE  /\ pc' \in Stages /\ trigger' \in Triggers \cup {NoTrigger} /\ force' \in BOOLEAN
         /\ goal' \in Revisions \cup {NoRev} /\ seenRunning' \in Revisions \cup {NoRev}
         /\ seenBoot' \in Revisions \cup {NoRev}
         /\ answer' \in AnswerKinds /\ promised' \in Revisions \cup {NoRev}
  BY DEF Answer, Stages

LEMMA InitTypeOK == Init => TypeOK
<1> SUFFICES ASSUME Init PROVE TypeOK
  OBVIOUS
<1> USE UpdatedAssumption
<1>1. InitialCommit \in Revisions
  BY DEF Revisions
<1>2. AncestorsOf[InitialCommit] \subseteq Commits
  BY AncestorsType
<1> QED BY <1>1, <1>2 DEF Init, TypeOK, Records, Stages, AnswerKinds

\* Types and control state are inductive together: what a stage puts on the
\* host was chosen in an earlier one.
IInv == TypeOK /\ CycleInv

\* What an update stage activates is a commit.
LEMMA UpdateGoalType ==
  ASSUME TypeOK, CycleInv, pc \in UpdateStages PROVE goal \in Commits
<1>1. CASE trigger.kind # "start"
  BY <1>1, UpdatedAssumption DEF TypeOK, CycleInv, UpdateGoal, mainTip
<1>2. CASE Active(record) /\ goal = record.commit
  BY <1>2, ActiveType DEF ActiveRecords
<1> QED BY <1>1, <1>2 DEF CycleInv, UpdateGoal

\* What a trial stage works on is an active trial with a commit.
LEMMA TrialType ==
  ASSUME TypeOK, CycleInv, pc \in TrialStages
  PROVE  Active(record) /\ record \in ActiveRecords /\ record.commit \in Commits
  BY ActiveType DEF CycleInv, TrialOn, ActiveRecords

\* The floor is a commit.
LEMMA FloorType ==
  ASSUME TypeOK, CycleInv, pc \in TrialStages, MergeBases(record.commit, mainTip) # {}
  PROVE  Floor \in Commits /\ Floor \in CommonAncestors(record.commit, mainTip)
<1>1. record.commit \in Commits /\ mainTip \in Commits
  BY TrialType, UpdatedAssumption DEF TypeOK, mainTip
<1> QED BY <1>1, MergeBaseShared DEF Floor

\* Staging the floor ends with a typed state.
LEMMA FloorDoneType ==
  ASSUME TypeOK, NEW boot \in Revisions, FloorDone(boot)
  PROVE  /\ pc' \in Stages /\ trigger' \in Triggers \cup {NoTrigger} /\ force' \in BOOLEAN
         /\ goal' \in Revisions \cup {NoRev} /\ seenRunning' \in Revisions \cup {NoRev}
         /\ seenBoot' \in Revisions \cup {NoRev}
         /\ answer' \in AnswerKinds /\ promised' \in Revisions \cup {NoRev}
<1>1. CASE goal' = boot /\ Goto("apply") /\ UNCHANGED <<trigger, force, seenRunning, seenBoot>>
  BY <1>1 DEF TypeOK, Goto, reply, Stages
<1>2. CASE Answer(IF trigger.kind = "start" THEN "started" ELSE "held", boot)
  BY <1>2, AnswerType DEF AnswerKinds
<1> QED BY <1>1, <1>2 DEF FloorDone

\* Every step of the daemon or of the world keeps the types. The steps that
\* take a value from somewhere else say why it has the type.
LEMMA NextTypeOK == IInv /\ [Next]_vars => TypeOK'
<1> SUFFICES ASSUME TypeOK, CycleInv, [Next]_vars PROVE TypeOK'
  BY DEF IInv
<1> USE UpdatedAssumption DEF TypeOK
<1>1. ASSUME NEW t \in Triggers, Begin(t) PROVE TypeOK'
  BY <1>1 DEF Begin, host, machine, clone, trial, Stages, AnswerKinds
<1>2. CASE BeginScheduled \/ BeginManual \/ BeginStart
  <2>1. [kind |-> "scheduled", late |-> lapsed] \in Triggers
    BY DEF Triggers
  <2>2. [kind |-> "manual", late |-> lapsed] \in Triggers
    BY DEF Triggers
  <2> QED BY <1>1, <1>2, <2>1, <2>2 DEF BeginScheduled, BeginManual, BeginStart
<1>3. CASE Fetch
  <2>1. \A b \in Branches : AncestorsOf[remote[b]] \subseteq Commits
    BY AncestorsType
  <2>2. known' \subseteq Commits
    BY <1>3, <2>1 DEF Fetch
  <2> QED BY <1>3, <2>2 DEF Fetch, Goto, host, machine, trial, locals, reply, Stages
<1>4. CASE Track
  BY <1>4 DEF Track, Goto, host, machine, clone, trial, reply, Stages
<1>5. CASE EndTrial
  <2>1. Ending \in Reasons
    BY <1>5 DEF EndTrial, Ending, Reasons
  <2>2. record' \in Records /\ lapsed' \in BOOLEAN
    BY <1>5, <2>1, FinishedType DEF EndTrial, FinishCanary
  <2> QED BY <1>5, <2>2 DEF EndTrial, Goto, host, machine, clone, reply, Stages
<1>6. CASE HoldTrial
  <2>1. record.commit \in Commits
    BY <1>6, ActiveType DEF HoldTrial, ActiveRecords
  <2>2. CASE Ephemeral(record)
    BY <1>6, <2>2 DEF HoldTrial, Goto, host, machine, clone, trial, locals, reply, Stages
  <2>3. CASE Answer("held", record.commit)
    BY <1>6, <2>1, <2>3, AnswerType
       DEF HoldTrial, host, machine, clone, trial, AnswerKinds, Revisions
  <2> QED BY <1>6, <2>2, <2>3 DEF HoldTrial
<1>7. CASE ClearTrial
  <2>1. record' \in Records /\ lapsed' \in BOOLEAN
    BY <1>7, FinishedType DEF ClearTrial, FinishCanary, trial, Reasons
  <2> QED BY <1>7, <2>1 DEF ClearTrial, Goto, host, machine, clone, reply, Stages
<1>8. CASE StoreTrial
  <2>1. trigger.branch \in Branches /\ trigger.timed \in BOOLEAN
    BY <1>8 DEF StoreTrial, Dispatching, Triggers, NoTrigger
  <2>2. record' \in Records /\ lapsed' \in BOOLEAN
    BY <1>8, <2>1 DEF StoreTrial, Records, ActiveRecords
  <2> QED BY <1>8, <2>2 DEF StoreTrial, Goto, host, machine, clone, locals, reply, Stages
<1>9. CASE Survey
  <2>1. mainTip \in Revisions
    BY DEF mainTip, Revisions
  <2>2. CASE Answer("notonbranch", NoRev) \/ Answer("uptodate", NoRev)
    BY <1>9, <2>2, AnswerType DEF Survey, host, machine, clone, trial, AnswerKinds
  <2>3. CASE goal' = mainTip /\ seenRunning' = running /\ seenBoot' = profile
             /\ Goto("build") /\ UNCHANGED <<trigger, force>>
    BY <1>9, <2>1, <2>3 DEF Survey, Goto, host, machine, clone, trial, reply, Stages
  <2> QED BY <1>9, <2>2, <2>3 DEF Survey
<1>10. CASE Build
  BY <1>10 DEF Build, Goto, host, machine, clone, trial, locals, reply, Stages
<1>11. CASE PrefetchFails \/ CycleFails \/ CycleStuck
  BY <1>11, AnswerType
     DEF PrefetchFails, CycleFails, CycleStuck, Fail, host, machine, clone, trial, AnswerKinds
<1>12. CASE TestTip \/ ActivateSameKernel
  <2>1. goal \in Revisions
    BY <1>12, UpdateGoalType DEF TestTip, ActivateSameKernel, UpdateStages, Revisions
  <2> QED BY <1>12, <2>1, AnswerType
          DEF TestTip, ActivateSameKernel, machine, clone, trial, AnswerKinds
<1>13. CASE SetProfile
  <2>1. goal \in Revisions
    BY <1>13, UpdateGoalType DEF SetProfile, UpdateStages, Revisions
  <2> QED BY <1>13, <2>1 DEF SetProfile, Goto, machine, clone, trial, locals, reply, Stages
<1>14. CASE Switch
  <2>1. goal \in Revisions
    BY <1>14, UpdateGoalType DEF Switch, UpdateStages, Revisions
  <2> QED BY <1>14, <2>1, AnswerType DEF Switch, machine, clone, trial, AnswerKinds
<1>15. CASE StageBoot
  <2>1. goal \in Revisions
    BY <1>15, UpdateGoalType DEF StageBoot, UpdateStages, Revisions
  <2> QED BY <1>15, <2>1 DEF StageBoot, Goto, machine, clone, trial, locals, reply, Stages
<1>16. CASE ScheduleReboot
  BY <1>16, AnswerType DEF ScheduleReboot, clone, trial, AnswerKinds
<1>17. CASE StartTrial
  <2>1. record.commit \in Revisions
    BY <1>17, TrialType DEF StartTrial, TrialStages, Revisions
  <2>2. CASE seenRunning' = running /\ Goto("floor") /\ UNCHANGED <<trigger, force, goal, seenBoot>>
    BY <1>17, <2>2 DEF StartTrial, Goto, host, machine, clone, trial, reply, Stages
  <2>3. CASE Answer("started", record.commit)
    BY <1>17, <2>1, <2>3, AnswerType DEF StartTrial, host, machine, clone, trial, AnswerKinds
  <2>4. CASE /\ goal' = record.commit /\ Goto("profile")
             /\ UNCHANGED <<trigger, force, seenRunning, seenBoot>>
    BY <1>17, <2>1, <2>4 DEF StartTrial, Goto, host, machine, clone, trial, reply, Stages
  <2> QED BY <1>17, <2>2, <2>3, <2>4 DEF StartTrial
<1>18. CASE StageFloor
  <2>1. Floor \in Revisions
    BY <1>18, FloorType DEF StageFloor, TrialStages, Revisions
  <2>2. CASE FloorDone(profile) \/ FloorDone(Floor)
    BY <1>18, <2>1, <2>2, FloorDoneType DEF StageFloor, host, machine, clone, trial
  <2>3. CASE /\ goal' = Floor /\ Goto("floorprofile")
             /\ UNCHANGED <<trigger, force, seenRunning, seenBoot>>
    BY <1>18, <2>1, <2>3 DEF StageFloor, Goto, host, machine, clone, trial, reply, Stages
  <2> QED BY <1>18, <2>2, <2>3 DEF StageFloor
<1>19. CASE SetFloorProfile
  <2>1. goal \in Revisions
    BY <1>19, FloorType DEF SetFloorProfile, CycleInv, FloorGoal, TrialStages, Revisions
  <2> QED BY <1>19, <2>1 DEF SetFloorProfile, Goto, machine, clone, trial, locals, reply, Stages
<1>20. CASE BootFloor
  <2>1. goal \in Revisions
    BY <1>20, FloorType DEF BootFloor, CycleInv, FloorGoal, TrialStages, Revisions
  <2> QED BY <1>20, <2>1, FloorDoneType DEF BootFloor, machine, clone, trial
<1>21. CASE ApplyTrial
  <2>1. record.commit \in Revisions /\ goal \in Revisions
    BY <1>21, TrialType DEF ApplyTrial, CycleInv, FloorGoal, TrialStages, Revisions
  <2> QED BY <1>21, <2>1, AnswerType DEF ApplyTrial, machine, clone, trial, AnswerKinds
<1>22. CASE ActivationFails
  <2>1. pc \in UpdateStages => goal \in Revisions
    BY UpdateGoalType DEF Revisions
  <2>2. pc = "floorboot" => goal \in Revisions
    BY FloorType DEF CycleInv, FloorGoal, TrialStages, Revisions
  <2>3. pc = "apply" => record.commit \in Revisions
    BY TrialType DEF TrialStages, Revisions
  <2>4. running' \in Revisions /\ bootloader' \in Revisions
    BY <1>22, <2>1, <2>2, <2>3 DEF ActivationFails, UpdateStages
  <2> QED BY <1>22, <2>4, AnswerType
          DEF ActivationFails, Fail, machine, clone, trial, AnswerKinds
<1>23. CASE \E b \in Branches, c \in Commits : Push(b, c)
  BY <1>23 DEF Push, host, machine, clone, trial, cycle, locals, reply
<1>24. CASE Operator
  BY <1>24 DEF Operator, HandSwitch, HandTest, HandBoot, machine, clone, trial, cycle, locals, reply
<1>25. CASE Reboot
  BY <1>25 DEF Reboot, clone, trial, Stages, AnswerKinds
<1>26. CASE DeadlineLapses
  BY <1>26 DEF DeadlineLapses, host, machine, clone, cycle, locals, reply
<1>27. CASE UNCHANGED vars
  BY <1>27 DEF vars, host, machine, clone, trial, cycle, locals, reply
<1> QED
  BY <1>2, <1>3, <1>4, <1>5, <1>6, <1>7, <1>8, <1>9, <1>10, <1>11, <1>12, <1>13, <1>14,
     <1>15, <1>16, <1>17, <1>18, <1>19, <1>20, <1>21, <1>22, <1>23, <1>24, <1>25, <1>26, <1>27
     DEF Next, Daemon, World, Progress, Trouble

-----------------------------------------------------------------------------
(* The control state of a cycle.                                           *)

\* A started cycle is somebody's.
LEMMA TriggersAreNot == NoTrigger \notin Triggers
  BY DEF NoTrigger, Triggers

\* Outside a cycle only an answered "held" says anything about the host.
LEMMA IdleCycle ==
  ASSUME pc' = "idle", trigger' = NoTrigger,
         answer' = "held" => /\ Active(record)'
                             /\ (Ephemeral(record) => record.boot = bootId)'
                             /\ ~Tracked(record.commit)'
  PROVE  CycleInv'
  BY DEF CycleInv, OneCycle, UpdateGoal, UpdateGuarded, TrialOn, FloorGoal, HeldTrial, Held,
         UpdateStages, TrialStages, FloorStages

\* Answering anything but "held" ends a cycle safely.
LEMMA AnswerCycle ==
  ASSUME NEW kind, NEW boot, Answer(kind, boot), kind # "held" PROVE CycleInv'
  BY IdleCycle DEF Answer

\* The stages before the survey only need a trigger.
LEMMA EarlyCycle ==
  ASSUME TypeOK, CycleInv, trigger' \in Triggers, answer' = "none",
         pc' \in {"fetch", "dispatch", "survey"}, pc' = "survey" => trigger'.kind # "start"
  PROVE  CycleInv'
  BY TriggersAreNot
     DEF CycleInv, OneCycle, UpdateGoal, UpdateGuarded, TrialOn, FloorGoal, HeldTrial, Held,
         UpdateStages, TrialStages, FloorStages

\* Inside a cycle there is a trigger and no answer.
LEMMA RunningCycle ==
  ASSUME TypeOK, CycleInv, pc # "idle" PROVE trigger \in Triggers /\ answer = "none"
  BY DEF TypeOK, CycleInv, OneCycle

\* The invariant speaks of these variables only.
LEMMA CycleFrame ==
  ASSUME CycleInv, UNCHANGED <<pc, trigger, force, goal, seenRunning, seenBoot, answer,
                               tips, known, record, bootId>>
  PROVE  CycleInv'
  BY DEF CycleInv, OneCycle, UpdateGoal, UpdateGuarded, TrialOn, FloorGoal, HeldTrial, Held,
         Floor, Tracked, mainTip, Active, Ephemeral

\* Every step keeps the control state of a cycle.
LEMMA NextCycleInv == IInv /\ [Next]_vars => CycleInv'
<1> SUFFICES ASSUME TypeOK, CycleInv, [Next]_vars PROVE CycleInv'
  BY DEF IInv
<1>1. ASSUME NEW t \in Triggers, Begin(t) PROVE CycleInv'
  BY <1>1, EarlyCycle DEF Begin
<1>2. CASE BeginScheduled \/ BeginManual \/ BeginStart
  <2>1. [kind |-> "scheduled", late |-> lapsed] \in Triggers
    BY DEF Triggers, TypeOK
  <2>2. [kind |-> "manual", late |-> lapsed] \in Triggers
    BY DEF Triggers, TypeOK
  <2> QED BY <1>1, <1>2, <2>1, <2>2 DEF BeginScheduled, BeginManual, BeginStart
<1>3. CASE Fetch
  BY <1>3, RunningCycle, EarlyCycle DEF Fetch, Goto, locals, reply
<1>4. CASE Track \/ EndTrial \/ ClearTrial
  BY <1>4, RunningCycle, EarlyCycle DEF Track, EndTrial, ClearTrial, Dispatching, Goto, reply
<1>5. CASE HoldTrial
  <2>1. ~Tracked(record.commit) /\ (Ephemeral(record) => record.boot = bootId)
    BY <1>5 DEF HoldTrial, Ending, Ephemeral
  <2>2. CASE Ephemeral(record) /\ Goto("floor") /\ UNCHANGED locals
    BY <1>5, <2>1, <2>2, RunningCycle
       DEF HoldTrial, Dispatching, Goto, locals, reply, host, machine, clone, trial,
           CycleInv, OneCycle, UpdateGoal, UpdateGuarded, TrialOn, FloorGoal, HeldTrial, Held,
           UpdateStages, TrialStages, FloorStages, Tracked, mainTip, Active, Ephemeral
  <2>3. CASE Answer("held", record.commit)
    BY <1>5, <2>1, <2>3, IdleCycle
       DEF HoldTrial, Answer, host, machine, clone, trial, Tracked, mainTip, Active, Ephemeral
  <2> QED BY <1>5, <2>2, <2>3 DEF HoldTrial
<1>6. CASE StoreTrial
  BY <1>6, RunningCycle
     DEF StoreTrial, Dispatching, Goto, locals, reply, host, machine,
         CycleInv, OneCycle, UpdateGoal, UpdateGuarded, TrialOn, FloorGoal, HeldTrial, Held,
         UpdateStages, TrialStages, FloorStages, Active, Ephemeral
<1>7. CASE Survey
  <2>1. CASE Answer("notonbranch", NoRev) \/ Answer("uptodate", NoRev)
    BY <2>1, AnswerCycle
  <2>2. CASE /\ pc = "survey" /\ MayAdvance(running)
             /\ goal' = mainTip /\ seenRunning' = running /\ seenBoot' = profile
             /\ Goto("build") /\ UNCHANGED <<trigger, force>>
    BY <1>7, <2>2, RunningCycle
       DEF Survey, MayAdvance, Goto, reply, clone,
           CycleInv, OneCycle, UpdateGoal, UpdateGuarded, TrialOn, FloorGoal, HeldTrial, Held,
           UpdateStages, TrialStages, FloorStages, BootStages, Tracked, mainTip
  <2> QED BY <1>7, <2>1, <2>2 DEF Survey
<1>8. CASE Build
  BY <1>8, RunningCycle
     DEF Build, MayTakeBootDefault, Goto, reply, clone, locals, host, machine, trial,
         CycleInv, OneCycle, UpdateGoal, UpdateGuarded, TrialOn, FloorGoal, HeldTrial, Held,
         UpdateStages, TrialStages, FloorStages, BootStages, Tracked, mainTip
<1>9. CASE PrefetchFails \/ CycleFails \/ CycleStuck \/ ActivationFails
  BY <1>9, AnswerCycle DEF PrefetchFails, CycleFails, CycleStuck, ActivationFails, Fail
<1>10. CASE TestTip \/ Switch \/ ActivateSameKernel \/ ScheduleReboot \/ ApplyTrial
  BY <1>10, AnswerCycle DEF TestTip, Switch, ActivateSameKernel, ScheduleReboot, ApplyTrial
<1>11. CASE SetProfile \/ StageBoot
  BY <1>11, RunningCycle
     DEF SetProfile, StageBoot, Goto, reply, clone, locals, machine, trial,
         CycleInv, OneCycle, UpdateGoal, UpdateGuarded, TrialOn, FloorGoal, HeldTrial, Held,
         UpdateStages, TrialStages, FloorStages, BootStages, Tracked, mainTip, Active, Ephemeral
<1>12. CASE StartTrial
  <2>1. /\ pc = "trial" /\ trigger.kind = "start" /\ Active(record)
        /\ Ephemeral(record) => record.boot = bootId
    BY <1>12 DEF StartTrial, CycleInv, TrialOn, TrialStages
  <2>2. CASE /\ Ephemeral(record) /\ Goto("floor")
             /\ seenRunning' = running /\ UNCHANGED <<trigger, force, goal, seenBoot>>
    BY <1>12, <2>1, <2>2, RunningCycle
       DEF StartTrial, Goto, reply, host, machine, clone, trial,
           CycleInv, OneCycle, UpdateGoal, UpdateGuarded, TrialOn, FloorGoal, HeldTrial, Held,
           UpdateStages, TrialStages, FloorStages, Active, Ephemeral
  <2>3. CASE Answer("started", record.commit)
    BY <2>3, AnswerCycle
  <2>4. CASE /\ ~Ephemeral(record) /\ goal' = record.commit /\ Goto("profile")
             /\ UNCHANGED <<trigger, force, seenRunning, seenBoot>>
    BY <1>12, <2>1, <2>4, RunningCycle
       DEF StartTrial, Goto, reply, host, machine, clone, trial,
           CycleInv, OneCycle, UpdateGoal, UpdateGuarded, TrialOn, FloorGoal, HeldTrial, Held,
           UpdateStages, TrialStages, FloorStages, Active, Ephemeral
  <2> QED BY <1>12, <2>2, <2>3, <2>4 DEF StartTrial
<1>13. ASSUME NEW boot \in Revisions, pc \in FloorStages, FloorDone(boot),
              UNCHANGED <<bootId, clone, trial>>
       PROVE  CycleInv'
  <2>1. /\ Ephemeral(record) /\ Active(record) /\ record.boot = bootId
        /\ trigger.kind \in {"scheduled", "start"}
        /\ trigger.kind = "scheduled" => ~Tracked(record.commit)
    BY <1>13 DEF CycleInv, TrialOn, HeldTrial, Held, TrialStages, FloorStages
  <2>2. CASE /\ trigger.kind = "start" /\ goal' = boot /\ Goto("apply")
             /\ UNCHANGED <<trigger, force, seenRunning, seenBoot>>
    BY <1>13, <2>1, <2>2, RunningCycle
       DEF Goto, reply, clone, trial,
           CycleInv, OneCycle, UpdateGoal, UpdateGuarded, TrialOn, FloorGoal, HeldTrial, Held,
           UpdateStages, TrialStages, FloorStages, Active, Ephemeral
  <2>3. CASE trigger.kind = "start" /\ Answer("started", boot)
    BY <2>3, AnswerCycle
  <2>4. CASE trigger.kind = "scheduled" /\ Answer("held", boot)
    BY <1>13, <2>1, <2>4, IdleCycle
       DEF Answer, clone, trial, Tracked, mainTip, Active, Ephemeral
  <2> QED BY <1>13, <2>1, <2>2, <2>3, <2>4 DEF FloorDone
<1>14. CASE StageFloor
  <2>1. pc \in TrialStages
    BY <1>14 DEF StageFloor, TrialStages
  <2>2. Floor \in Revisions /\ profile \in Revisions
    BY <1>14, <2>1, FloorType DEF StageFloor, Revisions, TypeOK
  <2>3. CASE FloorDone(profile) \/ FloorDone(Floor)
    BY <1>13, <1>14, <2>2, <2>3 DEF StageFloor, FloorStages, host, machine
  <2>4. CASE /\ goal' = Floor /\ Goto("floorprofile")
             /\ UNCHANGED <<trigger, force, seenRunning, seenBoot>>
    BY <1>14, <2>4, RunningCycle
       DEF StageFloor, Goto, reply, host, machine, clone, trial,
           CycleInv, OneCycle, UpdateGoal, UpdateGuarded, TrialOn, FloorGoal, HeldTrial, Held,
           UpdateStages, TrialStages, FloorStages, Active, Ephemeral, Floor, Tracked, mainTip
  <2> QED BY <1>14, <2>3, <2>4 DEF StageFloor
<1>15. CASE SetFloorProfile
  BY <1>15, RunningCycle
     DEF SetFloorProfile, Goto, reply, locals, machine, clone, trial,
         CycleInv, OneCycle, UpdateGoal, UpdateGuarded, TrialOn, FloorGoal, HeldTrial, Held,
         UpdateStages, TrialStages, FloorStages, Active, Ephemeral, Floor, Tracked, mainTip
<1>16. CASE BootFloor
  <2>1. goal \in Revisions
    BY <1>16, FloorType DEF BootFloor, CycleInv, FloorGoal, TrialStages, Revisions
  <2> QED BY <1>13, <1>16, <2>1 DEF BootFloor, FloorStages, machine
<1>17. CASE \E b \in Branches, c \in Commits : Push(b, c)
  BY <1>17, CycleFrame DEF Push, host, machine, clone, trial, cycle, locals, reply
<1>18. CASE Operator
  BY <1>18, CycleFrame
     DEF Operator, HandSwitch, HandTest, HandBoot, machine, clone, trial, cycle, locals, reply
<1>19. CASE Reboot
  BY <1>19, IdleCycle DEF Reboot
<1>20. CASE DeadlineLapses
  BY <1>20, CycleFrame DEF DeadlineLapses, host, machine, clone, cycle, locals, reply
<1>21. CASE UNCHANGED vars
  BY <1>21, CycleFrame DEF vars, host, machine, clone, trial, cycle, locals, reply
<1> QED
  BY <1>2, <1>3, <1>4, <1>5, <1>6, <1>7, <1>8, <1>9, <1>10, <1>11, <1>12, <1>14, <1>15,
     <1>16, <1>17, <1>18, <1>19, <1>20, <1>21
     DEF Next, Daemon, World, Progress, Trouble

-----------------------------------------------------------------------------
(* The theorems.                                                           *)

\* The inductive invariant holds, for every commit graph and configuration.
LEMMA Inductive == Spec => []IInv
<1>1. Init => IInv
  <2> SUFFICES ASSUME Init PROVE IInv
    OBVIOUS
  <2>1. TypeOK
    BY InitTypeOK
  <2>2. CycleInv
    BY DEF Init, CycleInv, OneCycle, UpdateGoal, UpdateGuarded, TrialOn, FloorGoal, HeldTrial,
           Held, UpdateStages, TrialStages, FloorStages
  <2> QED BY <2>1, <2>2 DEF IInv
<1>2. IInv /\ [Next]_vars => IInv'
  BY NextTypeOK, NextCycleInv DEF IInv
<1> QED BY <1>1, <1>2, PTL DEF Spec

\* Every variable keeps its type, so no step activates something that is not
\* a revision of a system.
THEOREM TypeCorrect == Spec => []TypeOK
<1>1. IInv => TypeOK
  BY DEF IInv
<1> QED BY <1>1, Inductive, PTL

\* What each stage of a cycle relies on is still true when it runs: no reboot,
\* hand-made switch or failure in between can take it away.
THEOREM ControlState == Spec => []CycleInv
<1>1. IInv => CycleInv
  BY DEF IInv
<1> QED BY <1>1, Inductive, PTL

\* A scheduled update never advances a system, nor takes over a boot default,
\* that it read to be off the branch, unless it reverts an expired trial.
THEOREM LeavesOffBranchAlone == Spec => []OffBranchLeftAlone
<1>1. IInv => OffBranchLeftAlone
  BY DEF IInv, CycleInv, UpdateGuarded, OffBranchLeftAlone, BootStages
<1> QED BY <1>1, Inductive, PTL

\* However long the histories, an update that is not forced leaves no commit of
\* the system it replaces behind that has not landed.
THEOREM LeavesNothingBehind == Spec => []NothingIsLeftBehind
<1>1. ASSUME IInv, pc \in UpdateStages, trigger.kind # "start", ~force
      PROVE  BackOnBranch(seenRunning)
  <2>1. OnBranch(known, seenRunning, mainTip)
    BY <1>1 DEF IInv, CycleInv, UpdateGuarded, Tracked
  <2>2. known \in SUBSET Commits /\ mainTip \in Commits
    BY <1>1, UpdatedAssumption DEF IInv, TypeOK, mainTip
  <2> QED BY <2>1, <2>2, OnBranchIsWhole DEF BackOnBranch
<1>2. IInv => NothingIsLeftBehind
  BY <1>1 DEF NothingIsLeftBehind
<1> QED BY <1>2, Inductive, PTL

\* A trial is only ever held in the boot it was started in, and not after it
\* merged.
THEOREM HoldsInItsBoot == Spec => []HeldInItsBoot
<1>1. IInv => HeldInItsBoot
  BY DEF IInv, CycleInv, HeldTrial, Held, HeldInItsBoot, FloorStages
<1> QED BY <1>1, Inductive, PTL

-----------------------------------------------------------------------------
(* The cycle implements the contract.                                      *)

\* The contract's branch test is the daemon's.
LEMMA SameTracked == \A r : Contract!Tracked(r) <=> Tracked(r)
  BY DEF Contract!Tracked, Contract!tip, Tracked, mainTip

\* A step that touches nothing the contract speaks of stutters.
LEMMA ContractStutter ==
  ASSUME UNCHANGED <<running, profile, bootloader, bootId, tips, known, record>>
  PROVE  UNCHANGED Contract!vars
  BY DEF Contract!vars

\* A step of the daemon that follows the branch is one of the contract's.
LEMMA ContractFollows ==
  ASSUME \/ running' = mainTip /\ UNCHANGED <<profile, bootloader>>
         \/ profile' = mainTip /\ UNCHANGED <<running, bootloader>>
         \/ bootloader' = mainTip /\ UNCHANGED <<running, profile>>
         \/ running' = mainTip /\ bootloader' = mainTip /\ UNCHANGED profile,
         UNCHANGED <<bootId, tips, known, record>>
  PROVE  Contract!Next
  BY DEF Contract!Next, Contract!Daemon, Contract!Follow, Contract!RunsNow, Contract!Boots,
         Contract!Switches, Contract!tip, mainTip

\* So is one that runs or stages an active trial's commit.
LEMMA ContractTrials ==
  ASSUME TypeOK, Active(record), Ephemeral(record) => record.boot = bootId,
         UNCHANGED <<bootId, tips, known, record>>,
         \/ Ephemeral(record) /\ running' = record.commit /\ UNCHANGED <<profile, bootloader>>
         \/ /\ ~Ephemeral(record)
            /\ \/ profile' = record.commit /\ UNCHANGED <<running, bootloader>>
               \/ bootloader' = record.commit /\ UNCHANGED <<running, profile>>
               \/ running' = record.commit /\ bootloader' = record.commit /\ UNCHANGED profile
  PROVE  Contract!Next
<1>1. record.hold \in {"ephemeral", "persistent"}
  BY ActiveType DEF ActiveRecords
<1> QED
  BY <1>1
     DEF Contract!Next, Contract!Daemon, Contract!RunTrial, Contract!RunsNow, Contract!Boots,
         Contract!Switches, Contract!Trialling, Contract!EphemeralOn, Contract!PersistentOn,
         Contract!SameBoot, Active, Ephemeral

\* And one that stages the floor under an ephemeral trial.
LEMMA ContractFloors ==
  ASSUME Ephemeral(record), record.boot = bootId,
         Floor \in CommonAncestors(record.commit, mainTip),
         UNCHANGED <<running, bootId, tips, known, record>>,
         \/ profile' = Floor /\ UNCHANGED bootloader
         \/ bootloader' = Floor /\ UNCHANGED profile
  PROVE  Contract!Next
  BY DEF Contract!Next, Contract!Daemon, Contract!Floor, Contract!Boots, Contract!Trialling,
         Contract!EphemeralOn, Contract!SameBoot, Contract!tip, mainTip, Active, Ephemeral

\* The initial states are the contract's.
LEMMA ContractInit == Init => Contract!Init
<1> SUFFICES ASSUME Init PROVE Contract!Init
  OBVIOUS
<1>1. TypeOK
  BY InitTypeOK
<1> QED BY <1>1 DEF Init, TypeOK, Contract!Init

\* Every step of the cycle and of its surroundings is one step of the contract
\* or none.
LEMMA ContractStep == IInv /\ [Next]_vars => [Contract!Next]_(Contract!vars)
<1> SUFFICES ASSUME TypeOK, CycleInv, [Next]_vars PROVE Contract!Next \/ UNCHANGED Contract!vars
  BY DEF IInv
<1>1. ASSUME pc \in TrialStages
      PROVE  /\ Active(record)
             /\ Ephemeral(record) => record.boot = bootId
             /\ pc # "trial" => Ephemeral(record)
  BY <1>1 DEF CycleInv, TrialOn
<1>2. CASE BeginScheduled \/ BeginManual \/ BeginStart
  BY <1>2, ContractStutter
     DEF BeginScheduled, BeginManual, BeginStart, Begin, host, machine, clone, trial
<1>3. CASE Fetch
  <2>1. known' \subseteq Commits
    BY <1>3, AncestorsType DEF Fetch, TypeOK
  <2>2. \A b \in Branches : tips'[b] \in known'
    BY <1>3, AncestorsReflexive DEF Fetch, TypeOK
  <2> QED BY <1>3, <2>1, <2>2
          DEF Fetch, host, machine, trial, TypeOK, Contract!Next, Contract!Fetch, Contract!places
<1>4. CASE Track \/ HoldTrial \/ Survey \/ Build \/ PrefetchFails \/ CycleFails \/ CycleStuck
           \/ StartTrial \/ StageFloor
  BY <1>4, ContractStutter
     DEF Track, HoldTrial, Survey, Build, PrefetchFails, CycleFails, CycleStuck, StartTrial,
         StageFloor, host, machine, clone, trial
<1>5. CASE EndTrial
  <2>1. Ending \in Reasons
    BY <1>5 DEF EndTrial, Ending, Reasons
  <2>2. Contract!EndTrial(Ending)
    BY <1>5, SameTracked
       DEF EndTrial, Ending, FinishCanary, Finished, host, machine, clone, Active,
           Contract!EndTrial, Contract!Trialling, Contract!EphemeralOn, Contract!SameBoot,
           Contract!places
  <2> QED BY <2>1, <2>2 DEF Contract!Next
<1>6. CASE ClearTrial
  <2>1. CASE Active(record)
    <3>1. Contract!EndTrial("cleared")
      BY <1>6, <2>1
         DEF ClearTrial, FinishCanary, Finished, host, machine, clone, Active,
             Contract!EndTrial, Contract!Trialling, Contract!places
    <3> QED BY <3>1 DEF Contract!Next, Reasons
  <2>2. CASE ~Active(record)
    BY <1>6, <2>2, ContractStutter DEF ClearTrial, host, machine, clone, trial
  <2> QED BY <2>1, <2>2
<1>7. CASE StoreTrial
  <2>1. trigger.branch \in Branches
    BY <1>7, StartTriggers DEF StoreTrial, Dispatching
  <2> QED BY <1>7, <2>1
          DEF StoreTrial, host, machine, clone, Contract!Next, Contract!StartTrial, Contract!places
<1>8. ASSUME pc \in UpdateStages, goal = mainTip,
             TestTip \/ SetProfile \/ Switch \/ StageBoot \/ ActivateSameKernel \/ ActivationFails
      PROVE  Contract!Next \/ UNCHANGED Contract!vars
  BY <1>8, ContractFollows, ContractStutter
     DEF TestTip, SetProfile, Switch, StageBoot, ActivateSameKernel, ActivationFails,
         UpdateStages, machine, clone, trial
<1>9. ASSUME pc \in {"profile", "switch"}, Active(record), ~Ephemeral(record), goal = record.commit,
             SetProfile \/ Switch \/ ActivationFails
      PROVE  Contract!Next \/ UNCHANGED Contract!vars
  BY <1>9, ContractTrials DEF SetProfile, Switch, ActivationFails, machine, clone, trial
<1>10. CASE TestTip \/ SetProfile \/ Switch \/ StageBoot \/ ActivateSameKernel
  <2>1. pc \in UpdateStages
    BY <1>10 DEF TestTip, SetProfile, Switch, StageBoot, ActivateSameKernel, UpdateStages
  <2>2. CASE goal = mainTip
    BY <1>8, <1>10, <2>1, <2>2
  <2>3. CASE pc \in {"profile", "switch"} /\ Active(record) /\ ~Ephemeral(record)
             /\ goal = record.commit
    BY <1>9, <1>10, <2>3 DEF TestTip, StageBoot, ActivateSameKernel
  <2> QED BY <2>1, <2>2, <2>3 DEF CycleInv, UpdateGoal
<1>11. CASE ScheduleReboot
  BY <1>11, ContractStutter DEF ScheduleReboot, clone, trial
<1>12. ASSUME pc \in {"floorprofile", "floorboot"}
       PROVE  /\ Ephemeral(record) /\ record.boot = bootId
              /\ goal = Floor /\ Floor \in CommonAncestors(record.commit, mainTip)
  BY <1>1, <1>12, FloorType DEF CycleInv, FloorGoal, TrialStages
<1>13. CASE SetFloorProfile \/ BootFloor
  BY <1>12, <1>13, ContractFloors DEF SetFloorProfile, BootFloor, machine, clone, trial
<1>14. CASE ApplyTrial
  BY <1>1, <1>14, ContractTrials DEF ApplyTrial, TrialStages, machine, clone, trial
<1>15. CASE ActivationFails
  <2>1. CASE pc \in UpdateStages /\ goal = mainTip
    BY <1>8, <1>15, <2>1
  <2>2. CASE pc \in {"profile", "switch"} /\ Active(record) /\ ~Ephemeral(record)
             /\ goal = record.commit
    BY <1>9, <1>15, <2>2
  <2>3. CASE pc = "floorboot"
    BY <1>12, <1>15, <2>3, ContractFloors DEF ActivationFails, machine, clone, trial
  <2>4. CASE pc = "apply"
    BY <1>1, <1>15, <2>4, ContractTrials DEF ActivationFails, TrialStages, machine, clone, trial
  <2> QED BY <1>15, <2>1, <2>2, <2>3, <2>4 DEF ActivationFails, CycleInv, UpdateGoal, UpdateStages
<1>16. CASE \E b \in Branches, c \in Commits : Push(b, c)
  BY <1>16, ContractStutter DEF Push, host, machine, clone, trial
<1>17. CASE Operator
  <2> PICK r \in HandBuilds : HandSwitch(r) \/ HandTest(r) \/ HandBoot(r)
    BY <1>17 DEF Operator
  <2>1. r \in Revisions
    BY UpdatedAssumption
  <2>2. Contract!Operator
    BY <2>1 DEF HandSwitch, HandTest, HandBoot, machine, clone, trial,
                Contract!Operator, Contract!RunsNow
  <2> QED BY <2>2 DEF Contract!Next
<1>18. CASE Reboot
  <2>1. Contract!Reboot
    BY <1>18 DEF Reboot, clone, trial, Contract!Reboot
  <2> QED BY <2>1 DEF Contract!Next
<1>19. CASE DeadlineLapses
  BY <1>19, ContractStutter DEF DeadlineLapses, host, machine, clone
<1>20. CASE UNCHANGED vars
  BY <1>20, ContractStutter DEF vars, host, machine, clone, trial
<1> QED
  BY <1>2, <1>3, <1>4, <1>5, <1>6, <1>7, <1>10, <1>11, <1>13, <1>14, <1>15, <1>16, <1>17,
     <1>18, <1>19, <1>20
     DEF Next, Daemon, World, Progress, Trouble

\* Whatever fails, crashes, reboots or is switched by hand in the middle of a
\* cycle, the daemon moves the host only where HostContract lets it.
THEOREM ImplementsContract == Spec => KeepsContract
<1>1. Init => Contract!Init
  BY ContractInit
<1>2. IInv /\ [Next]_vars => [Contract!Next]_(Contract!vars)
  BY ContractStep
<1> QED BY <1>1, <1>2, Inductive, PTL DEF Spec, KeepsContract, Contract!Spec

=============================================================================
