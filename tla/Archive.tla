------------------------------ MODULE Archive ------------------------------
(***************************************************************************)
(* ogygia-dashboard's archive task: every commit a host reports is merged  *)
(* into one branch of the forge, so that it outlives its own branch.  The  *)
(* branch has other writers (another dashboard, before a restart); it is   *)
(* advanced by a fast-forward push or not at all.                          *)
(*                                                                         *)
(* A commit is known with its ancestors.  A head of the archive branch is  *)
(* the commits reachable from it and how often the branch was advanced;    *)
(* the merge commits themselves are not counted among the commits.         *)
(***************************************************************************)
EXTENDS Integers, FiniteSets

CONSTANTS
  Deployed,    \* commits a host may report
  Ancestors,   \* per commit: itself and what is reachable from it
  MaxTurns     \* bound: reports, pushes and force-pushes by others, crashes

ASSUME ArchiveAssumption ==
  /\ IsFiniteSet(Deployed) /\ MaxTurns \in Nat
  /\ Ancestors \in [Deployed -> SUBSET Deployed]
  /\ \A c \in Deployed : c \in Ancestors[c]

\* const MAX_ATTEMPTS in archive_commits
MaxAttempts == 3

VARIABLES
  reported,    \* the commits in etcd's host states
  news,        \* the subscription has a change it has not seen
  branches,    \* commits reachable from the forge's other branches
  archive,     \* the forge's archive branch: [age, reach]
  clone,       \* commits in the local object database
  tracked,     \* refs/remotes/origin/<branch>, as last fetched
  stage,       \* "collect", "fetch", "push", "sleep", "wait"
  attempt,
  wanted,      \* the candidates of this round
  merged,      \* `done` of this attempt
  archived,    \* the task's memory of what it need not do again
  turns

forge == <<reported, branches>>
task  == <<stage, attempt, wanted, merged, archived>>
archiveVars == <<forge, news, archive, clone, tracked, task, turns>>

Heads == [age : 0..(2 * MaxTurns + Cardinality(Deployed)), reach : SUBSET Deployed]

Closure(commits) == UNION {Ancestors[c] : c \in commits}

\* No branch yet.
Unborn == [age |-> 0, reach |-> {}]

ArchiveTypeOK ==
  /\ reported \cup branches \cup clone \cup wanted \cup merged \cup archived \subseteq Deployed
  /\ archive \in Heads /\ tracked \in Heads
  /\ stage \in {"collect", "fetch", "push", "sleep", "wait"}
  /\ attempt \in 1..MaxAttempts /\ turns \in 0..MaxTurns
  /\ stage = "push" => merged \subseteq wanted /\ tracked.age <= archive.age

-----------------------------------------------------------------------------
(* The hosts, the forge and whoever else writes to it.                     *)

Turn == turns < MaxTurns /\ turns' = turns + 1

ReportCommit(c) ==
  /\ Turn
  /\ reported' = reported \cup {c} /\ news' = TRUE
  /\ UNCHANGED <<branches, archive, clone, tracked, task>>

ForgetCommit(c) ==
  /\ Turn /\ c \in reported
  /\ reported' = reported \ {c} /\ news' = TRUE
  /\ UNCHANGED <<branches, archive, clone, tracked, task>>

PushBranch(c) ==
  /\ Turn
  /\ branches' = branches \cup Ancestors[c]
  /\ UNCHANGED <<reported, news, archive, clone, tracked, task>>

\* A branch is force-pushed or deleted: a commit on no other branch is gone.
DropBranch(c) ==
  /\ Turn /\ c \in branches /\ \A d \in branches \ {c} : c \notin Ancestors[d]
  /\ branches' = branches \ {c}
  /\ UNCHANGED <<reported, news, archive, clone, tracked, task>>

Advanced(head, commits) == [age |-> head.age + 1, reach |-> head.reach \cup Closure(commits)]

OtherArchives(c) ==
  /\ Turn /\ c \in branches
  /\ archive' = Advanced(archive, {c})
  /\ UNCHANGED <<forge, news, clone, tracked, task>>

-----------------------------------------------------------------------------
(* The task.                                                               *)

\* collect_candidates from the host states as they are now.
Collect ==
  /\ stage = "collect"
  /\ wanted' = reported \ archived
  /\ stage' = IF reported \ archived = {} THEN "wait" ELSE "fetch"
  /\ attempt' = 1 /\ merged' = {}
  /\ UNCHANGED <<forge, news, archive, clone, tracked, archived, turns>>

Finish(done) ==
  /\ archived' = archived \cup done
  /\ stage' = "wait"
  /\ wanted' = {} /\ merged' = {} /\ attempt' = 1

\* The fetch, what is reachable from the fetched head, and the merges on top
\* of it; a candidate the clone does not have is left out.
Fetch ==
  LET head      == archive
      local     == clone \cup branches \cup archive.reach
      reachable == wanted \cap head.reach
      found     == (wanted \ head.reach) \cap local
  IN
  /\ stage = "fetch"
  /\ clone' = local /\ tracked' = head
  /\ IF wanted \subseteq head.reach \/ (head = Unborn /\ found = {})
     THEN Finish(reachable)
     ELSE stage' = "push" /\ merged' = reachable \cup found /\ UNCHANGED <<attempt, wanted, archived>>
  /\ UNCHANGED <<forge, news, archive, turns>>

SleepMinute == stage' = "sleep" /\ attempt' = 1 /\ merged' = {} /\ wanted' = {} /\ UNCHANGED archived

\* Without the forge there is no attempt.
FetchFails ==
  /\ stage = "fetch"
  /\ SleepMinute
  /\ UNCHANGED <<forge, news, archive, clone, tracked, turns>>

\* Mutant: the push is forced.
FastForwardForced == TRUE

\* The forge refuses anything but a fast-forward.
FastForward == tracked = archive

\* Nothing new on top of the head: the push has nothing to do.
New == merged \ tracked.reach

NewHead == IF New = {} THEN tracked ELSE Advanced(tracked, New)

Push ==
  /\ stage = "push" /\ FastForward
  /\ archive' = NewHead
  /\ Finish(merged)
  /\ UNCHANGED <<forge, news, clone, tracked, turns>>

\* Mutant: a rejection, which completes the push, is taken for success.
RetryUnseen ==
  /\ Finish(merged)
  /\ UNCHANGED <<forge, news, archive, clone, tracked, turns>>

\* Mutant: a fourth attempt.
RetryOnce ==
  /\ IF attempt <= MaxAttempts
     THEN stage' = "fetch" /\ attempt' = attempt + 1 /\ merged' = {} /\ UNCHANGED <<wanted, archived>>
     ELSE SleepMinute
  /\ UNCHANGED <<forge, news, clone, tracked, turns>>

Retry ==
  /\ IF attempt < MaxAttempts
     THEN stage' = "fetch" /\ attempt' = attempt + 1 /\ merged' = {} /\ UNCHANGED <<wanted, archived>>
     ELSE SleepMinute
  /\ UNCHANGED <<forge, news, clone, tracked, turns>>

PushRejected ==
  /\ stage = "push" /\ ~FastForward
  /\ Retry
  /\ UNCHANGED archive

\* It fails on the way there, or on the way back.
PushFails ==
  /\ stage = "push"
  /\ UNCHANGED archive \/ (FastForward /\ archive' = NewHead)
  /\ Retry

\* Mutant: after a failure the task waits for the next change.
WakeUpToWait ==
  /\ stage = "sleep"
  /\ stage' = "wait"
  /\ UNCHANGED <<forge, news, archive, clone, tracked, attempt, wanted, merged, archived, turns>>

WakeUp ==
  /\ stage = "sleep"
  /\ stage' = "collect"
  /\ UNCHANGED <<forge, news, archive, clone, tracked, attempt, wanted, merged, archived, turns>>

Seen ==
  /\ stage = "wait" /\ news
  /\ stage' = "collect" /\ news' = FALSE
  /\ UNCHANGED <<forge, archive, clone, tracked, attempt, wanted, merged, archived, turns>>

\* The dashboard dies; its clone is in a temporary directory.
Restart ==
  /\ Turn
  /\ stage' = "collect" /\ attempt' = 1 /\ wanted' = {} /\ merged' = {} /\ archived' = {}
  /\ news' = FALSE
  /\ clone' = branches \cup archive.reach /\ tracked' = archive
  /\ UNCHANGED <<forge, archive>>

ArchiveInit ==
  /\ \E on \in SUBSET Deployed : branches = Closure(on)
  /\ reported \in SUBSET Deployed /\ news = FALSE
  /\ archive = Unborn /\ clone = branches /\ tracked = Unborn
  /\ stage = "collect" /\ attempt = 1 /\ wanted = {} /\ merged = {} /\ archived = {}
  /\ turns = 0

ArchiveStep == Collect \/ Fetch \/ Push \/ PushRejected \/ WakeUp \/ Seen

ArchiveNext ==
  \/ ArchiveStep \/ FetchFails \/ PushFails \/ Restart
  \/ \E c \in Deployed :
       \/ ReportCommit(c) \/ ForgetCommit(c)
       \/ PushBranch(c) \/ DropBranch(c) \/ OtherArchives(c)

ArchiveSpec == ArchiveInit /\ [][ArchiveNext]_archiveVars

-----------------------------------------------------------------------------
(* Properties.                                                             *)

\* What the task will not look at again is on the archive branch, so that it
\* survives its own branch, whatever became of a push and its answer.
ArchivedIsReachable == archived \subseteq archive.reach

\* Nobody's merges are ever lost: the branch only grows ("push without force").
ArchiveOnlyGrows == archive.reach \subseteq archive'.reach

\* A commit that is on the forge when its report arrives is archived, unless
\* it is reported no more or dropped before it could be fetched: reports that
\* come during a round, failing pushes and other writers do not make the task
\* miss it. (When the forge gets a commit after its report, nothing wakes the
\* task.)
ReportsGetArchived ==
  \A c \in Deployed :
    (news /\ c \in reported /\ c \in branches)
      ~> (c \in archive.reach \/ c \notin reported \/ c \notin branches)

\* The archive takes in every head that is reported and never gives one up:
\* not when a push fails after the forge took it, nor when others write to it.
ArchiveKeepsHeads ==
  /\ [](ArchiveTypeOK /\ ArchivedIsReachable)
  /\ [][ArchiveOnlyGrows]_archiveVars
  /\ ReportsGetArchived

\* "keeping every commit referenced in etcd reachable from the archive branch"
\* (archive.rs).
KeepsEveryReport ==
  \A c \in Deployed :
    (c \in reported /\ c \in branches) ~> (c \in archive.reach \/ c \notin reported \/ c \notin branches)
=============================================================================
