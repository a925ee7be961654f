------------------------------ MODULE Timeline ------------------------------
(***************************************************************************)
(* ogygia-dashboard's commit timeline: which commits are shown beside the  *)
(* deployed ones, how they are connected when commits between them are     *)
(* not shown, in which order, and how their edges are led through lanes    *)
(* from row to row.                                                        *)
(*                                                                         *)
(* The repository's commits are 1..Size, oldest first; `skew` swaps two    *)
(* neighbours in time.  Commits that are not in the repository are shown   *)
(* first, have no parents and stand for themselves.                        *)
(***************************************************************************)
EXTENDS Integers, FiniteSets, Sequences, SequencesExt, FiniteSetsExt

CONSTANTS
  Size,       \* commits in the repository
  MaxParents, \* bound: parents of a commit
  MaxAsked    \* bound: deployed commits

ASSUME TimelineAssumption == Size \in Nat /\ MaxParents \in Nat

VARIABLES
  parentsOf, \* per commit: its parents in order
  tipIs,     \* the main tip
  skew,      \* this commit's clock is ahead of the next one's, or 0
  deployed,  \* the deployed commits; above Size: not in the repository
  phase,     \* "ask", "place", "row", "lead", "done"
  edges,     \* per shown commit: its GraphParents
  stack,     \* topo_order's: commits whose children are all placed
  rowOrder,  \* the shown commits from top to bottom
  lanes,     \* the edges on their way down: [target, elided] or NoEdge
  rows,      \* what was drawn, and the lanes that end there
  led        \* how many of the last row's edges have their lane

timelineVars == <<parentsOf, tipIs, skew, deployed, phase, edges, stack, rowOrder, lanes, rows, led>>

Repo == 1..Size
NoEdge == [target |-> 0, elided |-> FALSE]

-----------------------------------------------------------------------------
(* get_commits_info                                                        *)

\* What each commit leads to, itself included, by way of `next'.
Reached(next) ==
  LET down[c \in DOMAIN next] == {c} \cup UNION {down[d] : d \in next[c]} IN down

Up == Reached([c \in Repo |-> Range(parentsOf[c])])

\* The timestamps, all different.
Time(c) == IF skew = 0 THEN c ELSE IF c = skew THEN c + 1 ELSE IF c = skew + 1 THEN skew ELSE c

\* The walk from the tip that shows the oldest commit first.
Initial == CHOOSE c \in Up[tipIs] : \A d \in Up[tipIs] : Time(c) <= Time(d)

\* repo.merge_base: a best common ancestor, if there is any.
MergeBases(c) ==
  LET common == Up[c] \cap Up[tipIs]
      best == {b \in common : \A d \in common : b \in Up[d] => d = b}
  IN IF best = {} THEN {} ELSE {CHOOSE b \in best : TRUE}

\* Mutant: merge bases are left out.
ShownBare == deployed \cup {tipIs, Initial}

Shown ==
  LET seen == deployed \cup {tipIs, Initial}
  IN seen \cup UNION {MergeBases(c) : c \in seen \cap Repo}

-----------------------------------------------------------------------------
(* Sorting: what `key' is of, in the order of its pairs.                   *)

Before(k, l) == k[1] < l[1] \/ (k[1] = l[1] /\ k[2] < l[2])

Sorted(key) ==
  LET rank(x) == Cardinality({y \in DOMAIN key : Before(key[y], key[x])})
  IN [i \in 1..Cardinality(DOMAIN key) |-> CHOOSE x \in DOMAIN key : rank(x) = i - 1]

-----------------------------------------------------------------------------
(* graph_parents                                                           *)

\* Mutant: only parents that are shown themselves are connected.
NearestReal(c, shown) == Range(parentsOf[c]) \cap shown

\* Shown ancestors that are not reachable through another one.
Nearest(c, shown) ==
  LET above == (Up[c] \cap shown) \ {c}
  IN {b \in above : \A m \in above \ {b} : b \notin Up[m]}

\* The first real parent it is reachable through.
Via(c, b) ==
  LET through == {i \in DOMAIN parentsOf[c] : b \in Up[parentsOf[c][i]]} IN Min(through)

GraphParents(c, shown) ==
  LET ranked == Sorted([b \in Nearest(c, shown) |-> <<Via(c, b), b>>])
  IN [i \in DOMAIN ranked |-> [target |-> ranked[i], elided |-> ranked[i] \notin Range(parentsOf[c])]]

Edges(shown) == [c \in shown |-> IF c \in Repo THEN GraphParents(c, shown \cap Repo) ELSE <<>>]

-----------------------------------------------------------------------------
(* graph::topo_order                                                       *)

EdgeTargets(es, c) == {es[c][i].target : i \in DOMAIN es[c]}

\* Mutant: a commit follows its first child.
ReleasedByAny(es, placed, p) == p \notin placed

\* All its children are placed.
Released(es, placed, p) == \A c \in DOMAIN es : p \in EdgeTargets(es, c) => c \in placed

\* The heads, the last of them the first to be placed: missing commits before
\* the others, then the newest.
Heads(es) ==
  Sorted([c \in {h \in DOMAIN es : Released(es, {}, h)} |->
            IF c \in Repo THEN <<0, Time(c)>> ELSE <<1, -c>>])

\* The parents that c was the last child of, the first of them to be placed next.
Freed(c, placed) ==
  LET ready == {i \in DOMAIN edges[c] : Released(edges, placed, edges[c][i].target)}
      order == Sorted([i \in ready |-> <<-i, 0>>])
  IN [j \in DOMAIN order |-> edges[c][order[j]].target]

-----------------------------------------------------------------------------
(* graph::layout                                                           *)

\* free_lane: one of the lanes, or one more if none of them will do.
FreeLane(ls, avoid) ==
  LET free == {i \in DOMAIN ls : ls[i] = NoEdge /\ i \notin avoid}
  IN IF free = {} THEN Len(ls) + 1 ELSE Min(free)

PutEdge(ls, lane, edge) == IF lane > Len(ls) THEN Append(ls, edge) ELSE [ls EXCEPT ![lane] = edge]

Vertical(lane, from, to, elided) == [lane |-> lane, from |-> from, to |-> to, elided |-> elided]
Horizontal(from, to, lane, elided) == [across |-> <<from, to>>, lane |-> lane, elided |-> elided]

Across(from, to, lane, elided) == IF from = to THEN {} ELSE {Horizontal(from, to, lane, elided)}

\* Mutant: an edge joins a lane to its target whatever its style.
SharedLanes(ls, edge) == {i \in DOMAIN ls : ls[i].target = edge.target}

Shared(ls, edge) == {i \in DOMAIN ls : ls[i] = edge}

Trimmed(ls) ==
  LET used == {i \in DOMAIN ls : ls[i] # NoEdge}
  IN IF used = {} THEN <<>> ELSE SubSeq(ls, 1, Max(used))

\* What the lanes draw into the row of commit c: those that lead to it end in
\* its column, the others pass.
Above(incoming, column) ==
  UNION {LET elided == lanes[i].elided IN
         IF i \in incoming
         THEN {Vertical(i, "top", "middle", elided)} \cup Across(i, column, i, elided)
         ELSE {Vertical(i, "top", "bottom", elided)} : i \in {j \in DOMAIN lanes : lanes[j] # NoEdge}}

-----------------------------------------------------------------------------
Arrange ==
  /\ phase = "ask"
  /\ LET es == Edges(Shown) IN edges' = es /\ stack' = Heads(es)
  /\ phase' = "place"
  /\ UNCHANGED <<parentsOf, tipIs, skew, deployed, rowOrder, lanes, rows, led>>

PlaceNext ==
  /\ phase = "place" /\ stack # <<>>
  /\ LET c == Last(stack) IN
       /\ rowOrder' = Append(rowOrder, c)
       /\ stack' = Front(stack) \o Freed(c, Range(rowOrder) \cup {c})
  /\ phase' = IF stack' = <<>> THEN "row" ELSE "place"
  /\ UNCHANGED <<parentsOf, tipIs, skew, deployed, edges, lanes, rows, led>>

BeginRow ==
  /\ phase = "row" /\ Len(rows) < Len(rowOrder)
  /\ LET incoming == {i \in DOMAIN lanes : lanes[i].target = rowOrder[Len(rows) + 1]}
         column == IF incoming = {} THEN FreeLane(lanes, {}) ELSE Min(incoming)
         freed == [i \in DOMAIN lanes |-> IF i \in incoming THEN NoEdge ELSE lanes[i]]
     IN /\ rows' = Append(rows, [column |-> column, ends |-> incoming, segments |-> Above(incoming, column)])
        /\ lanes' = PutEdge(freed, column, NoEdge)
  /\ led' = 0 /\ phase' = "lead"
  /\ UNCHANGED <<parentsOf, tipIs, skew, deployed, edges, stack, rowOrder>>

\* An edge to a parent joins the lane that leads there already, or takes a lane
\* of its own: the first one the commit's, the others none that just ended.
LeadEdge ==
  /\ phase = "lead"
  /\ LET row == Last(rows)
         parents == edges[rowOrder[Len(rows)]]
         edge == parents[led + 1]
         shared == Shared(lanes, edge)
         lane == IF shared # {} THEN Min(shared)
                 ELSE IF led = 0 THEN row.column ELSE FreeLane(lanes, row.ends)
         down == IF shared # {} THEN {} ELSE {Vertical(lane, "middle", "bottom", edge.elided)}
     IN /\ led < Len(parents)
        /\ lanes' = IF shared # {} THEN lanes ELSE PutEdge(lanes, lane, edge)
        /\ rows' = [rows EXCEPT ![Len(rows)].segments = @ \cup down \cup Across(row.column, lane, lane, edge.elided)]
  /\ led' = led + 1
  /\ UNCHANGED <<parentsOf, tipIs, skew, deployed, phase, edges, stack, rowOrder>>

EndRow ==
  /\ phase = "lead" /\ led = Len(edges[rowOrder[Len(rows)]])
  /\ lanes' = Trimmed(lanes)
  /\ phase' = IF Len(rows) = Len(rowOrder) THEN "done" ELSE "row"
  /\ UNCHANGED <<parentsOf, tipIs, skew, deployed, edges, stack, rowOrder, rows, led>>

\* The parents of a commit, older than it, in any order.
ParentLists(c) ==
  {s \in UNION {[1..n -> 1..(c - 1)] : n \in 0..MaxParents} : IsInjective(s)}

TimelineInit ==
  /\ parentsOf \in {dag \in [Repo -> ParentLists(Size)] : \A c \in Repo : dag[c] \in ParentLists(c)}
  /\ tipIs \in Repo
  /\ skew \in 0..(Size - 1)
  /\ deployed \in {s \in SUBSET (1..(Size + 1)) : s # {} /\ Cardinality(s) <= MaxAsked}
  /\ phase = "ask"
  /\ edges = <<>> /\ stack = <<>> /\ rowOrder = <<>> /\ lanes = <<>> /\ rows = <<>> /\ led = 0

TimelineNext == Arrange \/ PlaceNext \/ BeginRow \/ LeadEdge \/ EndRow

TimelineSpec == TimelineInit /\ [][TimelineNext]_timelineVars

-----------------------------------------------------------------------------
(* Properties.                                                             *)

Drawn == Reached([c \in DOMAIN edges |-> EdgeTargets(edges, c)])

\* Leaving commits out loses nothing: one shown commit descends from another
\* exactly if it does in the repository, and every commit that has anything in
\* common with main hangs together with it (graph_parents, get_commits_info).
AncestryIsKept ==
  phase # "ask" =>
    LET shown == DOMAIN edges \cap Repo
        real == Up
        drawn == Drawn
    IN
    /\ \A a, b \in shown : b \in drawn[a] <=> b \in real[a]
    /\ \A a \in deployed \cap Repo : real[a] \cap real[tipIs] # {} =>
         shown \cap drawn[a] \cap drawn[tipIs] # {}

\* Every commit has one row, above those of its ancestors, whatever the clocks
\* of their authors said (topo_order).
ParentsBelow ==
  /\ IsInjective(rowOrder)
  /\ phase \in {"row", "lead", "done"} => Range(rowOrder) = DOMAIN edges
  /\ \A i, j \in DOMAIN rowOrder :
       rowOrder[j] \in EdgeTargets(edges, rowOrder[i]) => i < j

\* From a commit's node in row i an edge leaves into a lane ...
Leaves(i, lane, elided) ==
  /\ \/ rows[i].column = lane
     \/ Horizontal(rows[i].column, lane, lane, elided) \in rows[i].segments
  /\ \E from \in {"top", "middle"} : Vertical(lane, from, "bottom", elided) \in rows[i].segments

\* ... passes the rows between, and ends at the parent's node in row j.
Arrives(j, lane, elided) ==
  /\ Vertical(lane, "top", "middle", elided) \in rows[j].segments
  /\ rows[j].column = lane \/ Horizontal(lane, rows[j].column, lane, elided) \in rows[j].segments

\* Every edge is drawn without a gap from the child to the parent, in its own
\* style, and none is left over at the bottom (layout).
EdgesConnect ==
  phase = "done" =>
    /\ lanes = <<>>
    /\ \A i, j \in DOMAIN rowOrder : \A k \in DOMAIN edges[rowOrder[i]] :
         LET edge == edges[rowOrder[i]][k] IN
         edge.target = rowOrder[j] =>
           \E lane \in {s.lane : s \in rows[i].segments} :
             /\ Leaves(i, lane, edge.elided) /\ Arrives(j, lane, edge.elided)
             /\ \A m \in (i + 1)..(j - 1) : Vertical(lane, "top", "bottom", edge.elided) \in rows[m].segments

\* The drawing tells who descends from whom: in its edges, in its order and in
\* the lanes that lead from row to row.
TimelineInv == AncestryIsKept /\ ParentsBelow /\ EdgesConnect
=============================================================================
