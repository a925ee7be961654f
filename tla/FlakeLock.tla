------------------------------ MODULE FlakeLock ------------------------------
(***************************************************************************)
(* One evaluation of a flake (ogygia-nix-eval, src/flake/): flake.nix is   *)
(* read for the inputs it declares, flake.lock for the graph of nodes they *)
(* are locked to, and, if the lock needs no change, the nodes are fetched  *)
(* and evaluated, each when something first uses it.  A node is looked for *)
(* by way of those it is relative to, one step at a time.                  *)
(*                                                                         *)
(* A flake's `outputs' may use any of its inputs, at once or whenever one  *)
(* of its attributes is used: Use and UseLater choose.  References and     *)
(* sources are opaque; the characters of a URL are left out, its parts     *)
(* are not.  The inputs that inputs declare are one map, by the names that *)
(* lead to them.                                                           *)
(***************************************************************************)
EXTENDS Integers, FiniteSets, SequencesExt, TLC

CONSTANTS
    FlakeFiles,  \* what a root's flake.nix may hold
    LockFiles,   \* what a flake.lock may hold, as JSON
    HexRevs,     \* the path parts that are forty hexadecimal digits
    None,        \* an attribute that is not there
    Unread,      \* an attribute whose expression is not a literal
    Bad,         \* a file or a reference that is refused
    Missing,     \* "input does not exist", "references missing node"
    Cyclic       \* "input follows itself"

VARIABLES
    phase,     \* "load", "lock", "check", "eval", "done" or "failed"
    declared,  \* the inputs flake.nix declares, by the names that lead to them
    lock,      \* the lock file
    sources,   \* Flakes.sources: where each node was found
    values,    \* Flakes.values: each node's thunk, "forced" or "built"
    given,     \* the node each input of an evaluated flake was given as
    forcing,   \* the nodes being built, the innermost last
    locating,  \* the calls of locate for the innermost, each for the one before
    fetched    \* the nodes source::fetch was called for, in order

flakeVars == <<phase, declared, lock, sources, values, given, forcing,
               locating, fetched>>

Errors == {Bad, Missing, Cyclic}
NoMap == <<>>
With(map, key, x) == [k \in DOMAIN map \cup {key} |-> IF k = key THEN x ELSE map[k]]

-----------------------------------------------------------------------------
(* Flake references (flakeref.rs).                                         *)

Attr(name, value) == name :> value

\* A revision if it looks like one, a branch or tag otherwise.
RevOrRef(rest) ==
    IF rest = <<>> THEN NoMap
    ELSE Attr(IF rest[1] \in HexRevs THEN "rev" ELSE "ref", rest[1])

Indirect(id) == ("type" :> "indirect") @@ ("id" :> id)

\* What the reference `url' says before its query string.
ParseUrl(url) ==
    CASE url.scheme = "path" ->
             ("type" :> "path") @@ ("path" :> url.parts[1])
      [] url.scheme = "flake" -> Indirect(url.parts[1]) @@ RevOrRef(Tail(url.parts))
      [] url.scheme \in {"github", "gitlab", "sourcehut"} ->
             IF Len(url.parts) < 2 THEN Bad
             ELSE ("type" :> url.scheme) @@ ("owner" :> url.parts[1])
                  @@ ("repo" :> url.parts[2])
                  @@ RevOrRef(SubSeq(url.parts, 3, Len(url.parts)))
      [] url.scheme = "git+" -> ("type" :> "git") @@ ("url" :> url.parts[1])
      [] url.scheme \in {"tarball+", "file+", "https"} ->
             (IF url.scheme = "tarball+" \/ (url.scheme = "https" /\ url.archive)
                THEN "type" :> "tarball" ELSE "type" :> "file")
             @@ ("url" :> url.parts[1])
      [] OTHER -> Bad

\* A parameter of the query replaces what the URL says.
Parse(url) ==
    LET attrs == ParseUrl(url)
    IN  IF attrs = Bad \/ url.query = Bad THEN Bad ELSE url.query @@ attrs

-----------------------------------------------------------------------------
(* flake.nix (file.rs).                                                    *)

NoSpec == [attrs |-> None, follows |-> None]

\* Nix does not evaluate what is not a literal, and wants one.
Unreadable(raw) == raw = Unread \/ raw.url = Unread \/ raw.follows = Unread

\* The reference an input has: what its attributes say, or its own name in
\* the registry; an override and a follower may have none.
AttrsOf(name, raw, url, top) ==
    CASE url # None -> raw.extra @@ url
      [] url = None /\ raw.extra # NoMap -> raw.extra
      [] url = None /\ raw.extra = NoMap /\ top /\ raw.follows = None -> Indirect(name)
      [] OTHER -> None

InputSpec(path, raw) ==
    IF Unreadable(raw) THEN Bad
    ELSE LET url == IF raw.url = None THEN None ELSE Parse(raw.url)
         IN  IF url = Bad THEN Bad
             ELSE [attrs |-> AttrsOf(Last(path), raw, url, Len(path) = 1),
                   follows |-> raw.follows]

\* The root's own inputs, among those declared.
RootInputs(inputs) == {p[1] : p \in {q \in DOMAIN inputs : Len(q) = 1}}

\* An argument of `outputs' that is no declared input is one of the registry.
LoadFlake(nix) ==
    IF nix = Bad \/ nix.inputs = Unread \/ nix.outputs # "function" \/ nix.unsupported
    THEN Bad
    ELSE LET specs == [p \in DOMAIN nix.inputs |-> InputSpec(p, nix.inputs[p])]
             args  == nix.formals \ ({"self"} \cup RootInputs(specs))
         IN  IF \E p \in DOMAIN specs : specs[p] = Bad THEN Bad
             ELSE specs @@ [p \in {<<n>> : n \in args} |-> [NoSpec EXCEPT !.attrs = Indirect(p[1])]]

-----------------------------------------------------------------------------
(* flake.lock (lock.rs).  An edge leads to a node, or to what the input at *)
(* a path from the root is.                                                *)

To(key) == [node |-> key, path |-> None]
Follows(path) == [node |-> None, path |-> path]

EmptyLock ==
    [root  |-> "root",
     nodes |-> With(NoMap, "root", [inputs |-> NoMap, locked |-> None, original |-> None,
                                    flake |-> TRUE, parent |-> None])]

FromValue(json) ==
    IF json.version \notin 5..7 \/ json.root = None \/ json.nodes = None
    THEN Bad
    ELSE IF json.root \notin DOMAIN json.nodes THEN Bad
    ELSE [root |-> json.root, nodes |-> json.nodes]

Edges(l) == UNION {{k} \X DOMAIN l.nodes[k].inputs : k \in DOMAIN l.nodes}

\* Where the path an input of node `key' follows starts.
StartsAtNode(l, key) == key
StartsAt(l, key) == l.root

\* The node a path from `from' leads to, every edge leading to `known[edge]'.
Walk(l, known, from, path) ==
    LET step(key, name) == IF key \in Errors THEN key
                           ELSE IF <<key, name>> \in DOMAIN known THEN known[<<key, name>>]
                           ELSE Missing
    IN  FoldLeft(step, from, path)

\* Where each edge leads if `left' more paths may be followed on the way.
Followed(l) ==
    LET known[left \in 0..Cardinality(DOMAIN l.nodes) + 1] ==
          LET below == IF left = 0 THEN NoMap ELSE known[left - 1]
          IN  [e \in Edges(l) |->
                 LET edge == l.nodes[e[1]].inputs[e[2]]
                 IN  IF edge.node # None
                     THEN IF edge.node \in DOMAIN l.nodes THEN edge.node ELSE Missing
                     ELSE IF left = 0 THEN Cyclic
                     ELSE Walk(l, below, StartsAt(l, e[1]), edge.path)]
    IN  known

\* The node the input at `path' is; what an edge leads to may follow one more.
Resolve(l, path) == Walk(l, Followed(l)[Cardinality(DOMAIN l.nodes)], l.root, path)
Target(l, key, name) == Followed(l)[Cardinality(DOMAIN l.nodes) + 1][<<key, name>>]

\* The node that the edges of a path lead to, following nothing.
Direct(l, path) ==
    LET known == [e \in Edges(l) |->
                    LET node == l.nodes[e[1]].inputs[e[2]].node
                    IN  IF node \in DOMAIN l.nodes THEN node ELSE Missing]
    IN  Walk(l, known, l.root, path)

\* The declared inputs that the lock is compared with: an override of an
\* input that the node does not have changes nothing.
NoneOverridden(l, inputs) == {p \in DOMAIN inputs : Len(p) = 1}
Overridden(l, inputs) ==
    {p \in DOMAIN inputs :
       LET key == Direct(l, Front(p))
       IN  key \notin Errors /\ Last(p) \in DOMAIN l.nodes[key].inputs}

LocksInput(l, spec, edge) ==
    IF spec.follows # None THEN spec.follows = edge.path
    ELSE /\ edge.node # None
         /\ edge.node \in DOMAIN l.nodes
         /\ spec.attrs # None => l.nodes[edge.node].original = spec.attrs

\* Whether evaluating needs no change to the lock.
Locks(l, inputs) ==
    /\ RootInputs(inputs) = DOMAIN l.nodes[l.root].inputs
    /\ \A p \in Overridden(l, inputs) :
         LocksInput(l, inputs[p], l.nodes[Direct(l, Front(p))].inputs[Last(p)])

-----------------------------------------------------------------------------
(* Evaluation (mod.rs).                                                    *)

FlakeLockInit ==
    /\ phase = "load"
    /\ declared = NoMap
    /\ lock = EmptyLock
    /\ sources = NoMap
    /\ values = NoMap
    /\ given = NoMap
    /\ forcing = <<>>
    /\ locating = <<>>
    /\ fetched = <<>>

Fail == phase' = "failed"

\* The root is fetched and its flake.nix read.
Load ==
    /\ phase = "load"
    /\ \E nix \in FlakeFiles :
         LET inputs == LoadFlake(nix)
         IN  IF inputs = Bad THEN Fail /\ UNCHANGED declared
             ELSE phase' = "lock" /\ declared' = inputs
    /\ UNCHANGED <<lock, sources, values, given, forcing, locating, fetched>>

\* What a relative input is relative to.
ParentOf(l, key) ==
    LET node == l.nodes[key]
    IN  IF node.locked # None /\ node.locked.relative /\ node.parent # None
        THEN Resolve(l, node.parent) ELSE None

\* Its lock file is read, if it has one.
ReadLock ==
    /\ phase = "lock"
    /\ \E json \in LockFiles \cup {None} :
         LET l == IF json = None THEN EmptyLock ELSE FromValue(json)
         IN  IF l = Bad THEN Fail /\ UNCHANGED lock
             ELSE phase' = "check" /\ lock' = l
    /\ UNCHANGED <<declared, sources, values, given, forcing, locating, fetched>>

\* What needs no change is evaluated, and nothing else; the root is where it
\* was fetched.
Check ==
    /\ phase = "check"
    /\ IF Locks(lock, declared)
       THEN phase' = "eval" /\ sources' = With(NoMap, lock.root, [tree |-> lock.root, dir |-> <<>>])
       ELSE Fail /\ UNCHANGED sources
    /\ UNCHANGED <<declared, lock, values, given, forcing, locating, fetched>>

-----------------------------------------------------------------------------
(* locate: a node is fetched, or found below the one it is relative to,    *)
(* which is found first.                                                   *)

\* Nothing is looked for that was found before.
ToLocateAgain(key) == <<key>>
ToLocate(key) == IF key \in DOMAIN sources THEN <<>> ELSE <<key>>

\* A relative input is in its parent's source, below its directory.
UnderItself(place, dir) == [tree |-> dir, dir |-> <<dir>>]
Under(place, dir) == [tree |-> place.tree, dir |-> Append(place.dir, dir)]

Looking(key) ==
    /\ phase = "eval" /\ locating # <<>> /\ key = Last(locating)
    /\ UNCHANGED <<declared, lock, values, given, forcing>>
IsLocked(key) == key \in DOMAIN lock.nodes /\ lock.nodes[key].locked # None
Located(key, place) == sources' = With(sources, key, place) /\ locating' = Front(locating)

FetchNode(key) ==
    /\ Looking(key) /\ IsLocked(key) /\ ParentOf(lock, key) = None
    /\ Located(key, [tree |-> key, dir |-> <<>>])
    /\ fetched' = Append(fetched, key)
    /\ UNCHANGED phase

FindBelow(key, up) ==
    /\ Looking(key) /\ IsLocked(key) /\ up = ParentOf(lock, key) /\ up \in DOMAIN sources
    /\ Located(key, Under(sources[up], key))
    /\ UNCHANGED <<phase, fetched>>

GoUp(key, up) ==
    /\ Looking(key) /\ IsLocked(key) /\ up = ParentOf(lock, key)
    /\ up \notin Errors \cup {None} \cup DOMAIN sources \cup Range(locating)
    /\ locating' = Append(locating, up)
    /\ UNCHANGED <<phase, sources, fetched>>

\* It is not there, cannot be fetched or is relative to nothing; or it is
\* below itself, and looking for it does not end before the stack does.
NotLocated(key) ==
    /\ Looking(key)
    /\ IsLocked(key) => ParentOf(lock, key) \in Errors \cup {None} \cup Range(locating)
    /\ Fail
    /\ UNCHANGED <<sources, locating, fetched>>

-----------------------------------------------------------------------------
(* build: a node that was found and is a flake has its `outputs' applied   *)
(* to its inputs, of which none is forced by that.                         *)

\* The inputs a flake is given, or the first error.
Inputs(l, key) ==
    LET args == [n \in DOMAIN l.nodes[key].inputs |-> Target(l, key, n)]
    IN  IF \E n \in DOMAIN args : args[n] \in Errors THEN Bad ELSE args

\* The value of the node built last is there.
Returns ==
    /\ values' = [values EXCEPT ![Last(forcing)] = "built"]
    /\ forcing' = Front(forcing)

\* Its flake.nix may be refused.
ApplyOutputs ==
    /\ phase = "eval" /\ forcing # <<>> /\ locating = <<>>
    /\ Last(forcing) \notin DOMAIN given
    /\ LET key == Last(forcing)
           args == Inputs(lock, key)
       IN  \/ /\ lock.nodes[key].flake /\ args # Bad
              /\ given' = With(given, key, args)
              /\ UNCHANGED <<phase, values, forcing>>
           \/ lock.nodes[key].flake /\ Fail /\ UNCHANGED <<given, values, forcing>>
           \/ ~lock.nodes[key].flake /\ Returns /\ UNCHANGED <<phase, given>>
    /\ UNCHANGED <<declared, lock, sources, locating, fetched>>

BuildEntry(key) ==
    /\ values' = With(values, key, "forced")
    /\ forcing' = Append(forcing, key)
    /\ locating' = ToLocate(key)
    /\ UNCHANGED phase

ForceEntryBuilding(key) ==
    IF key \notin DOMAIN values \/ values[key] = "forced" THEN BuildEntry(key)
    ELSE UNCHANGED <<phase, values, forcing, locating>>

\* What it takes to use the value of a node: building it, the first time.
ForceEntry(key) ==
    IF key \notin DOMAIN values THEN BuildEntry(key)
    ELSE IF values[key] = "forced" THEN Fail /\ UNCHANGED <<values, forcing, locating>>
    ELSE UNCHANGED <<phase, values, forcing, locating>>

\* checked_outputs: the root's value is wanted.
ForceRoot ==
    /\ phase = "eval" /\ forcing = <<>> /\ values = NoMap
    /\ ForceEntry(lock.root)
    /\ UNCHANGED <<declared, lock, sources, given, fetched>>

\* The outputs being evaluated use an input of theirs, or themselves.
Use ==
    /\ phase = "eval" /\ forcing # <<>> /\ locating = <<>>
    /\ Last(forcing) \in DOMAIN given
    /\ \/ \E n \in DOMAIN given[Last(forcing)] : ForceEntry(given[Last(forcing)][n])
       \/ ForceEntry(Last(forcing))
    /\ UNCHANGED <<declared, lock, sources, given, fetched>>

\* They evaluate to a set, which is the node's value, or fail.
Built ==
    /\ phase = "eval" /\ forcing # <<>> /\ locating = <<>>
    /\ Last(forcing) \in DOMAIN given
    /\ \/ Returns /\ UNCHANGED phase
       \/ Fail /\ UNCHANGED <<values, forcing>>
    /\ UNCHANGED <<declared, lock, sources, given, locating, fetched>>

\* Later, an attribute of what was built uses an input.
UseLater ==
    /\ phase = "eval" /\ forcing = <<>>
    /\ \E k \in DOMAIN given : \E n \in DOMAIN given[k] : ForceEntry(given[k][n])
    /\ UNCHANGED <<declared, lock, sources, given, fetched>>

Finish ==
    /\ phase = "eval" /\ forcing = <<>> /\ values # NoMap
    /\ phase' = "done"
    /\ UNCHANGED <<declared, lock, sources, values, given, forcing, locating, fetched>>

FlakeLockNext ==
    \/ Load \/ ReadLock \/ Check
    \/ \E key \in Range(locating) :
         \/ FetchNode(key) \/ NotLocated(key)
         \/ \E up \in {ParentOf(lock, key)} : FindBelow(key, up) \/ GoUp(key, up)
    \/ ForceRoot \/ ApplyOutputs \/ Use \/ Built \/ UseLater \/ Finish

FlakeLockSpec == FlakeLockInit /\ [][FlakeLockNext]_flakeVars

-----------------------------------------------------------------------------
(* What it must do.                                                        *)

\* Nodes in the middle of being built are just those on the stack, once each,
\* and found, but for the last, which may be looked for.
FlakeLockTypeOK ==
    /\ phase \in {"load", "lock", "check", "eval", "done", "failed"}
    /\ DOMAIN sources \subseteq DOMAIN lock.nodes
    /\ DOMAIN given \subseteq DOMAIN values
    /\ IsInjective(forcing) /\ IsInjective(locating)
    /\ Range(forcing) = {k \in DOMAIN values : values[k] = "forced"}
    /\ DOMAIN values \ DOMAIN sources = {locating[i] : i \in DOMAIN locating \cap {1}}
    /\ locating # <<>> => forcing # <<>> /\ locating[1] = Last(forcing)

\* Each node is fetched at most once, and the root not again (mod.rs:45-46).
FetchedOnce == IsInjective(fetched) /\ lock.root \notin Range(fetched)

\* An input whose path is relative is read from the very source its parent
\* is read from, whichever of the two is used first (mod.rs:84-92).
InParentsSource ==
    \A k \in DOMAIN sources \ {lock.root} :
        LET up == ParentOf(lock, k)
        IN  up # None => up \in DOMAIN sources /\ sources[k].tree = sources[up].tree

\* An evaluation fetches what the lock file pins, once each and from where its
\* parent says, and builds each node once.
FlakeLockInv == FlakeLockTypeOK /\ FetchedOnce /\ InParentsSource
=============================================================================
