---------------------------- MODULE CommitGraph ----------------------------
(***************************************************************************)
(* The commit graph of the configuration repository and the three          *)
(* questions ogygia-updated asks of its private clone (repo.rs): is one    *)
(* commit an ancestor of another, where did two histories diverge, and     *)
(* have a revision's changes landed on the tracked branch under other      *)
(* hashes.                                                                 *)
(*                                                                         *)
(* A commit is an atom.  What the clone has fetched is a set of commits    *)
(* passed to the operators that look a commit up first (find_commit).      *)
(***************************************************************************)
EXTENDS Integers, FiniteSets

CONSTANTS
  Commits,        \* every commit any host or branch can ever hold
  ParentsOf,      \* [Commits -> SUBSET Commits], the git parents
  ChangeIds,      \* the change-ids jj hands out
  NoChangeId,     \* a plain git commit carries none
  ChangeIdOf,     \* [Commits -> ChangeIds \cup {NoChangeId}], the header
  MaxLandedScan   \* MAX_LANDED_SCAN, commits scanned on either side

ASSUME CommitGraphAssumption ==
  /\ IsFiniteSet(Commits)
  /\ ParentsOf \in [Commits -> SUBSET Commits]
  /\ NoChangeId \notin ChangeIds
  /\ ChangeIdOf \in [Commits -> ChangeIds \cup {NoChangeId}]
  /\ MaxLandedScan \in Nat

\* A set of commits that contains the parents of its members.
ClosedUnderParents(S) == \A c \in S : ParentsOf[c] \subseteq S

\* The history of a commit, itself included: the least closed set around it.
AncestorsOf ==
  [c \in Commits |->
     {d \in Commits : \A S \in SUBSET Commits :
        (c \in S /\ ClosedUnderParents(S)) => d \in S}]

\* Repo::is_ancestor: a commit the clone never fetched is nobody's ancestor.
IsAncestor(known, ancestor, descendant) ==
  /\ ancestor \in known
  /\ ancestor \in AncestorsOf[descendant]

CommonAncestors(a, b) == AncestorsOf[a] \cap AncestorsOf[b]

\* Every best common ancestor; empty when the two share no history.
MergeBases(a, b) ==
  {c \in CommonAncestors(a, b) :
     \A d \in CommonAncestors(a, b) : c \in AncestorsOf[d] => d = c}

\* Repo::merge_base picks one of them, always the same one.
MergeBase(a, b) == CHOOSE c \in MergeBases(a, b) : TRUE

\* The branch side of the divergence: history of tip, base's history hidden.
BranchSide(revision, tip) ==
  IF MergeBases(revision, tip) = {}
  THEN AncestorsOf[tip]
  ELSE AncestorsOf[tip] \ AncestorsOf[MergeBase(revision, tip)]

\* revwalk().take(MAX_LANDED_SCAN): all of a short walk, some of a long one.
Scanned(S) ==
  IF Cardinality(S) <= MaxLandedScan
  THEN S
  ELSE CHOOSE T \in SUBSET S : Cardinality(T) = MaxLandedScan

LandedIds(revision, tip) ==
  {ChangeIdOf[c] : c \in Scanned(BranchSide(revision, tip))} \ {NoChangeId}

\* Mutant: a deployed walk that reaches the bound ends as one that was read whole.
LandedScanned(known, revision, tip) ==
  LET outstanding == AncestorsOf[revision] \ AncestorsOf[tip]
      newest == {c \in outstanding :
                   Cardinality({d \in outstanding \ {c} : c \in AncestorsOf[d]}) < MaxLandedScan}
  IN  /\ revision \in known
      /\ \A c \in newest : ChangeIdOf[c] \in LandedIds(revision, tip)

\* Repo::changes_landed: every commit of revision that is not on tip has a
\* counterpart there with its change-id.
ChangesLanded(known, revision, tip) ==
  LET outstanding == AncestorsOf[revision] \ AncestorsOf[tip]
  IN  /\ revision \in known
      /\ Cardinality(outstanding) <= MaxLandedScan
      /\ \A c \in outstanding : ChangeIdOf[c] \in LandedIds(revision, tip)

\* engine::on_branch.
OnBranch(known, revision, tip) ==
  \/ IsAncestor(known, revision, tip)
  \/ ChangesLanded(known, revision, tip)

=============================================================================
