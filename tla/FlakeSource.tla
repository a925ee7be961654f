---------------------------- MODULE FlakeSource -----------------------------
(***************************************************************************)
(* Where a flake's source comes from (ogygia-nix-eval, src/flake/source.rs *)
(* from `add' on): a directory, the working tree or a commit of a local    *)
(* Git repository, the store directory, or a download.  A file tree is a   *)
(* map from names to contents, and its NAR hash is the tree itself.        *)
(*                                                                         *)
(* The working tree belongs to somebody else: it is edited, staged,        *)
(* committed and checked out between any two steps of a fetch.             *)
(***************************************************************************)
EXTENDS Integers, Sequences

CONSTANTS
    SourceFiles, \* names of files
    FirstFiles,  \* those of the first commit, when there is one
    Blobs,       \* their contents
    Requests,    \* the attributes fetch is called with
    Served,      \* what a URL may answer with, a tree or an error
    MaxCommits,  \* commits made while we look
    MaxChanges,  \* other changes made meanwhile
    NotThere,    \* what is not there
    Failed       \* a fetch that fails

VARIABLES
    commits,  \* the repository's history: the commit i has 1..i as ancestors
    head,     \* the commit HEAD is, 0 before the first
    index,    \* the files Git tracks, as they are staged
    work,     \* the files of the working tree, an untracked one with them
    stored,   \* the trees in the store directory
    changes,  \* how many changes have been made
    request,  \* what is being fetched
    at,       \* the step fetch is at
    keep, dirty, headSeen,  \* fetch_git_worktree's locals
    disturbed,  \* whether the repository changed since the fetch began
    source    \* what was fetched, or Failed

repoVars == <<commits, head, index, work>>
fetchVars == <<request, at, keep, dirty, headSeen, source>>
sourceVars == <<repoVars, stored, changes, fetchVars, disturbed>>

NoTree == <<>>
TreeAt(i) == IF i = 0 THEN NoTree ELSE commits[i]

NoInfo == [narHash |-> NotThere, lastModified |-> NotThere, rev |-> NotThere,
           revCount |-> NotThere, dirtyRev |-> NotThere]

Found(tree, info) == [tree |-> tree, info |-> info]

\* Requests are as a lock file or a reference has them, and a source is a tree
\* with what is known of it: times, revisions and counts are numbers.
SourceTrees == UNION {[S -> Blobs] : S \in SUBSET SourceFiles}
Hashes == {r.narHash : r \in Requests}
Known == Int \cup {NotThere}
FetchedSources ==
    [tree : SourceTrees \cup Served \cup Hashes,
     info : [narHash : SourceTrees \cup Served \cup Hashes, lastModified : Known, rev : Known,
             revCount : Known, dirtyRev : Known]]

ASSUME RequestsAssumption ==
    \A r \in Requests : r.lastModified \in Known /\ r.rev \in Known /\ r.revCount \in Known
ASSUME FirstFilesAssumption == FirstFiles \subseteq SourceFiles
ASSUME OutcomesAssumption == NotThere # Failed /\ NotThere \notin FetchedSources /\ Failed \notin FetchedSources

-----------------------------------------------------------------------------
(* Fetching by hash or by URL.                                             *)

\* The last modification times of an archive and of a directory themselves,
\* which are no commit's.
ArchiveTime == -1
NewestTime == -2

Takes(tree, hash) == TRUE

\* add: what was got must be what was locked, if anything was.
Accepts(tree, hash) == hash # NotThere => hash = tree

\* from_store: the tree of that hash, and what the lock says of it.
FromStore(attrs, trees) ==
    IF attrs.narHash \notin trees THEN NotThere
    ELSE Found(attrs.narHash,
               [NoInfo EXCEPT !.narHash = attrs.narHash, !.rev = attrs.rev,
                              !.lastModified = attrs.lastModified,
                              !.revCount = attrs.revCount])

OwnTime(attrs) == IF attrs.lastModified # NotThere THEN attrs.lastModified ELSE ArchiveTime

\* A locked archive has the time its lock gives it, or none.
TimeOf(attrs) ==
    IF attrs.lastModified # NotThere THEN attrs.lastModified
    ELSE IF attrs.narHash = NotThere THEN ArchiveTime ELSE NotThere

Downloaded(attrs, got) ==
    IF got = NotThere \/ ~Accepts(got, attrs.narHash) THEN Failed
    ELSE IF attrs.type = "file"
    THEN Found(got, [NoInfo EXCEPT !.narHash = got, !.lastModified = attrs.lastModified])
    ELSE Found(got, [NoInfo EXCEPT !.narHash = got, !.lastModified = TimeOf(attrs),
                                   !.rev = attrs.rev])

\* Which types are fetched from a URL, and those that need a revision to
\* have one.
Downloads(attrs) ==
    \/ attrs.type \in {"tarball", "file"}
    \/ attrs.type = "github" /\ attrs.rev # NotThere

\* A commit of the repository: the tree Git has, and what the lock says.
CommitSource(attrs) ==
    IF attrs.rev \notin DOMAIN commits \/ ~Accepts(commits[attrs.rev], attrs.narHash)
    THEN Failed
    ELSE Found(commits[attrs.rev],
               [NoInfo EXCEPT
                  !.narHash = commits[attrs.rev], !.rev = attrs.rev,
                  !.lastModified = IF attrs.lastModified # NotThere
                                   THEN attrs.lastModified ELSE attrs.rev,
                  !.revCount = IF attrs.revCount # NotThere THEN attrs.revCount
                               ELSE attrs.rev])

\* A directory, files Git does not track and all.
PathSource(attrs) ==
    IF ~Accepts(work, attrs.narHash) THEN Failed
    ELSE Found(work, [NoInfo EXCEPT !.narHash = work, !.lastModified =
                        IF attrs.lastModified # NotThere THEN attrs.lastModified
                        ELSE NewestTime])

FlakeSourceInit ==
    /\ commits \in {<<>>} \cup {<<t>> : t \in [FirstFiles -> Blobs]}
    /\ head = Len(commits)
    /\ index = TreeAt(head) /\ work = TreeAt(head)
    /\ stored \in SUBSET {r.narHash : r \in {q \in Requests : q.narHash # NotThere}}
    /\ changes = 0
    /\ request = NotThere /\ at = "idle"
    /\ keep = {} /\ dirty = FALSE /\ headSeen = 0
    /\ disturbed = FALSE
    /\ source = NotThere

Answered(result) == source' = result /\ at' = "idle"
Done(result) == source' = result /\ at' = "done"

\* fetch looks at the type; only a working tree takes more than one step.
Fetch(attrs) ==
    /\ at = "idle"
    /\ request' = attrs
    /\ disturbed' = FALSE
    /\ CASE attrs.type = "path" -> Done(PathSource(attrs))
         [] attrs.type = "git" /\ attrs.rev # NotThere -> Done(CommitSource(attrs))
         [] attrs.type = "git" /\ attrs.rev = NotThere -> at' = "index" /\ UNCHANGED source
         [] attrs.type = "indirect" -> Done(Failed)
         [] attrs.type \notin {"path", "git", "indirect"} ->
              LET there == FromStore(attrs, stored)
              IN  IF there # NotThere THEN Done(there)
                  ELSE IF ~Downloads(attrs) THEN Done(Failed)
                  ELSE \E got \in Served : Done(Downloaded(attrs, got))
    /\ UNCHANGED <<repoVars, stored, changes, keep, dirty, headSeen>>

-----------------------------------------------------------------------------
(* fetch_git_worktree.                                                     *)

Tracked == DOMAIN index
Everything == DOMAIN work

\* The files the index has are kept, and no others.
Kept == Tracked

ReadIndex ==
    /\ at = "index"
    /\ keep' = Kept
    /\ at' = "status"
    /\ UNCHANGED <<repoVars, stored, changes, request, dirty, headSeen, source, disturbed>>

\* A tracked file that is not as it is staged, or a staged one not as it is
\* in HEAD.  A file that is gone is not as it is staged.
WorkIsDirty == \E f \in Tracked : f \notin DOMAIN work \/ work[f] # index[f]
IndexIsDirty == index # TreeAt(head)
IsDirty == IndexIsDirty \/ WorkIsDirty

Status ==
    /\ at = "status"
    /\ dirty' = IsDirty
    /\ at' = "head"
    /\ UNCHANGED <<repoVars, stored, changes, request, keep, headSeen, source, disturbed>>

ReadHead ==
    /\ at = "head"
    /\ headSeen' = head
    /\ at' = "add"
    /\ UNCHANGED <<repoVars, stored, changes, request, keep, dirty, source, disturbed>>

\* The kept files that are there are copied; whose they are is what was seen.
AddKept ==
    /\ at = "add"
    /\ LET copied == [f \in keep \cap DOMAIN work |-> work[f]]
           info == [NoInfo EXCEPT
                      !.narHash = copied, !.lastModified = headSeen,
                      !.dirtyRev = IF headSeen # 0 /\ dirty THEN headSeen ELSE NotThere,
                      !.rev = IF headSeen # 0 /\ ~dirty THEN headSeen ELSE NotThere,
                      !.revCount = IF headSeen # 0 /\ ~dirty THEN headSeen ELSE NotThere]
       IN  Done(Found(copied, info))
    /\ UNCHANGED <<repoVars, stored, changes, request, keep, dirty, headSeen, disturbed>>

\* Another flake of the same evaluation, or another evaluation.
Again ==
    /\ at = "done"
    /\ at' = "idle" /\ request' = NotThere /\ source' = NotThere
    /\ keep' = {} /\ dirty' = FALSE /\ headSeen' = 0 /\ disturbed' = FALSE
    /\ UNCHANGED <<repoVars, stored, changes>>

-----------------------------------------------------------------------------
(* Somebody works in the repository.                                       *)

Change ==
    /\ changes < MaxChanges
    /\ changes' = changes + 1
    /\ disturbed' = TRUE
    /\ UNCHANGED <<stored, fetchVars>>

WithFile(tree, f, b) == [g \in DOMAIN tree \cup {f} |-> IF g = f THEN b ELSE tree[g]]
WithoutFile(tree, f) == [g \in DOMAIN tree \ {f} |-> tree[g]]

Edit(f, b) ==
    /\ Change
    /\ work' = WithFile(work, f, b)
    /\ UNCHANGED <<commits, head, index>>

Delete(f) ==
    /\ Change /\ f \in DOMAIN work
    /\ work' = WithoutFile(work, f)
    /\ UNCHANGED <<commits, head, index>>

\* git add or git rm.
Stage(f) ==
    /\ Change
    /\ index' = IF f \in DOMAIN work THEN WithFile(index, f, work[f])
                ELSE WithoutFile(index, f)
    /\ UNCHANGED <<commits, head, work>>

\* Only a commit at the tip: one line of history is enough to count along.
Commit ==
    /\ Len(commits) < MaxCommits /\ head = Len(commits)
    /\ commits' = Append(commits, index)
    /\ head' = Len(commits) + 1
    /\ disturbed' = TRUE
    /\ UNCHANGED <<index, work, stored, changes, fetchVars>>

\* What is not tracked stays where it is.
Checkout(i) ==
    /\ Change /\ i # head
    /\ head' = i /\ index' = TreeAt(i)
    /\ work' = [f \in DOMAIN TreeAt(i) \cup (DOMAIN work \ DOMAIN index) |->
                  IF f \in DOMAIN TreeAt(i) THEN TreeAt(i)[f] ELSE work[f]]
    /\ UNCHANGED commits

FlakeSourceNext ==
    \/ \E attrs \in Requests : Fetch(attrs)
    \/ ReadIndex \/ Status \/ ReadHead \/ AddKept \/ Again
    \/ \E f \in SourceFiles : Stage(f) \/ Delete(f) \/ \E b \in Blobs : Edit(f, b)
    \/ Commit
    \/ \E i \in 1..Len(commits) : Checkout(i)

FlakeSourceSpec == FlakeSourceInit /\ [][FlakeSourceNext]_sourceVars

-----------------------------------------------------------------------------
(* What it must do.                                                        *)

IsSource(s) == s \notin {NotThere, Failed}

FlakeSourceTypeOK ==
    /\ commits \in Seq(SourceTrees) /\ index \in SourceTrees /\ work \in SourceTrees
    /\ head \in 0..Len(commits)
    /\ stored \subseteq Hashes
    /\ request \in Requests \cup {NotThere}
    /\ source \in FetchedSources \cup {NotThere, Failed}
    /\ at \in {"idle", "index", "status", "head", "add", "done"}
    /\ (at = "done") <=> (source # NotThere)
    /\ keep \subseteq SourceFiles /\ headSeen \in 0..Len(commits)
    /\ dirty \in BOOLEAN /\ disturbed \in BOOLEAN

\* A source that was locked is what it was locked to, wherever it is from and
\* whatever is served or committed now; a working tree, which a lock does not
\* pin, is the one that is taken as it is (source.rs:346-363).
LockedIsPinned ==
    IsSource(source) /\ request.narHash # NotThere
        /\ ~(request.type = "git" /\ request.rev = NotThere)
    => source.tree = request.narHash

\* Having a locked source in the store changes where it is read from and
\* nothing a flake can see of it but a revision or a count that a download
\* does not carry (source.rs:524-546, 571-590).
StoreIsTransparent ==
    IsSource(source) /\ Downloads(request) /\ request.narHash # NotThere =>
        LET stocked == FromStore(request, {request.narHash})
            served  == Downloaded(request, request.narHash)
        IN  /\ stocked.tree = served.tree
            /\ stocked.info.lastModified = served.info.lastModified
            /\ request.type # "file" => stocked.info.rev = served.info.rev

\* A working tree that is said to be a commit is that commit, unless someone
\* changed it while it was read (source.rs:442-490).
CleanIsItsCommit ==
    IsSource(source) /\ request.type = "git" /\ request.rev = NotThere
        /\ source.info.rev # NotThere /\ ~disturbed =>
        /\ source.tree = commits[source.info.rev]
        /\ source.info.revCount = source.info.rev

\* What Git does not track is not in the source, not even of a directory that
\* is tracked in part, and what it tracks is (source.rs:446-460).
OnlyTrackedIsCopied ==
    IsSource(source) /\ request.type = "git" /\ request.rev = NotThere /\ ~disturbed =>
        DOMAIN source.tree = DOMAIN index \cap DOMAIN work

\* A source is what its label says: the hash it was locked to, the commit whose
\* revision it carries, no file that git does not track, and the same whether
\* it was in the store or not.
FlakeSourceInv ==
    /\ FlakeSourceTypeOK /\ LockedIsPinned /\ StoreIsTransparent
    /\ CleanIsItsCommit /\ OnlyTrackedIsCopied
=============================================================================
