------------------------------ MODULE TreePath -------------------------------
(***************************************************************************)
(* Looking up a path in a flake's source (ogygia-nix-eval,                 *)
(* src/flake/source.rs, resolve and the accessors Dir and GitTree): names  *)
(* are taken one at a time, a symlink's target is put in front of those    *)
(* left, and nothing outside the tree is ever reached.  Dir reads a working *)
(* tree but shows only the files Git tracks; GitTree reads a commit.  A    *)
(* question is put to both, the working tree being clean and the commit    *)
(* its own, and their walks take their turns together.                     *)
(*                                                                         *)
(* A tree maps the names leading to an entry to the entry.  An untracked   *)
(* entry is in the working tree alone; a submodule is a directory in it    *)
(* and an entry of no kind in the commit.                                  *)
(***************************************************************************)
EXTENDS Integers, SequencesExt, FiniteSets, TLC

CONSTANTS FileNames, Trees, Paths, MaxSymlinks

\* Paths, the targets of symlinks and what leads to an entry are names.
ASSUME TreesAssumption ==
    /\ MaxSymlinks \in Nat
    /\ Paths \subseteq Seq(FileNames)
    /\ \A t \in Trees : \A p \in DOMAIN t :
         /\ p \in Seq(FileNames) \ {<<>>}
         /\ t[p].type = "symlink" => t[p].to \in Seq(FileNames)

VARIABLES
    tree,      \* what is looked in
    question,  \* what is asked of the accessors
    asked,     \* the path they are asked about
    walk,      \* resolve's locals, of either accessor
    answer     \* what each says, <<"none">> until it does

treeVars == <<tree, question, asked, walk, answer>>

Accessors == {"dir", "git"}

Ops == {"file_type", "resolved_type", "read_file", "read_dir", "read_link", "real_path"}

\* Which of them follow a symlink the path ends in.
Follow(o) == o \notin {"file_type", "read_link"}

\* What the tree shows of itself: Dir::kept, and the entries of a commit.
ShownThere(t, k, path) == path \in DOMAIN t /\ (k = "git" => t[path].tracked)
Shown(t, k, path) ==
    /\ path \in DOMAIN t
    /\ t[path].tracked
    /\ k = "dir" => t[path].type # "submodule"

-----------------------------------------------------------------------------
(* resolve.                                                                *)

\* `dirs' holds the directories from the root to the one reached, `names'
\* what leads to it through no symlink; `end' is "" until it is over.
StartOf(path) ==
    [pending |-> path, dirs |-> <<(<<>>)>>, names |-> <<>>, links |-> 0,
     end |-> "", node |-> <<>>]

Over(w) == w.end # ""
Stop(w, end) == [w EXCEPT !.end = end]
At(w, node) == [w EXCEPT !.end = "found", !.node = node, !.pending = <<>>]

\* Out of the directory reached, never of the tree.
UpFromName(w) ==
    IF Len(w.dirs) = 1 THEN Stop(w, "missing")
    ELSE [w EXCEPT !.dirs = Front(@), !.pending = Tail(@)]
UpFrom(w) ==
    IF Len(w.dirs) = 1 THEN Stop(w, "missing")
    ELSE [w EXCEPT !.dirs = Front(@), !.names = Front(@), !.pending = Tail(@)]

\* What is left once a symlink has been read.
TargetLast(to, rest) == rest \o to
TargetFirst(to, rest) == to \o rest

Through(w, link) ==
    IF w.links = MaxSymlinks THEN Stop(w, "loop")
    ELSE IF link.absolute THEN Stop(w, "missing")
    ELSE [w EXCEPT !.pending = TargetFirst(link.to, Tail(@)), !.links = @ + 1]

\* Every entry gone into has its name kept, a file's too.
NamedIfDirectory(names, name, type) ==
    IF type = "directory" THEN Append(names, name) ELSE names
Named(names, name, type) == Append(names, name)

Into(w, node, type) ==
    LET v == [w EXCEPT !.names = Named(@, Head(w.pending), type), !.pending = Tail(@)]
    IN  IF type = "directory" THEN [v EXCEPT !.dirs = Append(@, node)]
        ELSE IF v.pending = <<>> THEN At(v, node)
        ELSE Stop(v, "not a directory")

\* One turn of its loop.
Turn(t, k, follow, w) ==
    IF w.pending = <<>> THEN At(w, Last(w.dirs))
    ELSE LET name == Head(w.pending)
             node == Append(Last(w.dirs), name)
         IN  CASE name = "." -> [w EXCEPT !.pending = Tail(@)]
               [] name = ".." -> UpFrom(w)
               [] OTHER ->
                    IF ~Shown(t, k, node) THEN Stop(w, "missing")
                    ELSE IF t[node].type = "symlink" /\ (follow \/ Len(w.pending) > 1)
                    THEN Through(w, t[node])
                    ELSE Into(w, node, t[node].type)

-----------------------------------------------------------------------------
(* The accessors.                                                          *)

TypeAt(t, node) == IF node = <<>> THEN "directory" ELSE t[node].type

\* An entry that does not resolve has no type; too many symlinks are an
\* error (`found').  A submodule has none either.
TypeOf(t, w) ==
    IF w.end = "loop" THEN "error"
    ELSE IF w.end # "found" \/ TypeAt(t, w.node) = "submodule" THEN "no entry"
    ELSE TypeAt(t, w.node)

Children(t, k, node) ==
    {p \in DOMAIN t : /\ Len(p) = Len(node) + 1 /\ SubSeq(p, 1, Len(node)) = node
                      /\ Shown(t, k, p) /\ t[p].type # "submodule"}

\* What the accessor says once the path is resolved.
Answer(t, k, o, w) ==
    CASE o \in {"file_type", "resolved_type"} -> <<TypeOf(t, w)>>
      [] o \notin {"file_type", "resolved_type"} /\ w.end # "found" -> <<"error">>
      [] o = "read_file" /\ w.end = "found" ->
             IF TypeAt(t, w.node) = "regular" THEN <<"file", w.node>> ELSE <<"error">>
      [] o = "read_dir" /\ w.end = "found" ->
             IF TypeAt(t, w.node) = "directory"
             THEN <<"entries", Children(t, k, w.node)>> ELSE <<"error">>
      [] o = "read_link" /\ w.end = "found" ->
             IF TypeAt(t, w.node) = "symlink" THEN <<"target", t[w.node].to>> ELSE <<"error">>
      [] o = "real_path" /\ w.end = "found" -> <<"path", w.names>>

TreePathInit ==
    /\ tree \in Trees
    /\ question \in Ops
    /\ asked \in Paths
    /\ walk = [k \in Accessors |-> StartOf(asked)]
    /\ answer = [k \in Accessors |-> <<"none">>]

\* A walk that is over has no more turns.
ResolvePath ==
    /\ \E k \in Accessors : ~Over(walk[k])
    /\ walk' = [k \in Accessors |->
                  IF Over(walk[k]) THEN walk[k] ELSE Turn(tree, k, Follow(question), walk[k])]
    /\ UNCHANGED <<tree, question, asked, answer>>

Reply ==
    /\ \A k \in Accessors : Over(walk[k]) /\ answer[k] = <<"none">>
    /\ answer' = [k \in Accessors |-> Answer(tree, k, question, walk[k])]
    /\ UNCHANGED <<tree, question, asked, walk>>

TreePathNext == ResolvePath \/ Reply

TreePathSpec == TreePathInit /\ [][TreePathNext]_treeVars

-----------------------------------------------------------------------------
(* What it must do.                                                        *)

\* The directories passed are those the names lead to, one more than names.
TreePathTypeOK ==
    \A k \in Accessors :
      /\ ~Over(walk[k]) =>
           /\ Len(walk[k].dirs) = Len(walk[k].names) + 1
           /\ \A i \in DOMAIN walk[k].dirs : walk[k].dirs[i] = SubSeq(walk[k].names, 1, i - 1)
      /\ walk[k].links \in 0..MaxSymlinks
      /\ answer[k] # <<"none">> => Over(walk[k])

\* What is found is reached by its names, none of them a symlink's except
\* the last of a path that is not followed: real_path's promise.
NamesLeadThere ==
    \A k \in Accessors :
      walk[k].end = "found" =>
        /\ walk[k].names = walk[k].node
        /\ \A i \in DOMAIN walk[k].names :
             tree[SubSeq(walk[k].names, 1, i)].type = "symlink"
                 => i = Len(walk[k].names) /\ ~Follow(question)

\* A clean working tree and the commit it is of answer every question alike:
\* what Git does not track is seen by neither, and submodules by neither.
\* But for one question: a commit knows the real path of a submodule, whose
\* entry it has, where a working tree does not (source.rs:165-172, 245-268).
OfSubmodule == walk["git"].end = "found" /\ TypeAt(tree, walk["git"].node) = "submodule"
AccessorsAgree == answer["dir"] = answer["git"] \/ (question = "real_path" /\ OfSubmodule)

\* A walk through a source reaches what it finds by a name without symlinks,
\* and in a git tree just as in a directory.
TreePathInv == TreePathTypeOK /\ NamesLeadThere /\ AccessorsAgree
=============================================================================
