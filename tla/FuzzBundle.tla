----------------------------- MODULE FuzzBundle -----------------------------
(***************************************************************************)
(* Flake bundles of ogygia-nix-eval-fuzz (bundle.rs, flake.rs): one text   *)
(* that holds the trees of a flake and its inputs.  It is parsed line by   *)
(* line, and its trees are written out, file by file, before the two       *)
(* evaluators see them; and the mutator edits the Nix files in the text    *)
(* itself.                                                                 *)
(***************************************************************************)
EXTENDS Naturals, Sequences, SequencesExt, Functions

CONSTANTS Sources,  \* the texts, each a sequence of lines after the first
          TreeNames,    \* the names a tree can have
          NixPaths  \* the paths that end in .nix

(* A line is a directive,                                                  *)
(*   [is |-> "lock"], [is |-> "tree", name |-> n, kind |-> k] or           *)
(*   [is |-> "file", path |-> p, flags |-> f],                             *)
(* or one of a file's contents, [is |-> "text", text |-> t], where t may   *)
(* be a placeholder, <<"dir", n>> or <<"narHash", n>>.  A path is a        *)
(* sequence of names.                                                      *)

ASSUME SourcesAssumption == \A s \in Sources : s \in Seq(Range(s))

VARIABLES
  src,    \* the text
  parsed, \* the lines of it that are parsed
  bundle, \* what they parse to
  bundleStage,  \* how far the bundle is
  cursor,     \* the tree that is written, the state of its files that are, and
              \* the last file that was looked at
  workOf,   \* per tree: its files on disk
  headOf,   \* per tree: the files of its commit
  indexOf,  \* per tree: the files in its index
  store,  \* the trees that both stores have
  stamp   \* per tree: the files written since its times were last set

bundleVars == <<src, parsed, bundle, bundleStage, cursor, workOf, headOf, indexOf, store, stamp>>

(***************************************************************************)
(* Parsing                                                                 *)
(***************************************************************************)
NoFile == [path |-> <<>>]
NothingYet == [ok |-> TRUE, lock |-> FALSE, trees |-> <<>>, open |-> NoFile]
Malformed == [NothingYet EXCEPT !.ok = FALSE]

ValidPath(path) == \A i \in DOMAIN path : path[i] \notin {"", ".", "..", ".git"}

\* The file that is open is complete when a directive follows, or the text ends.
Close(b) ==
  IF b.open = NoFile THEN b
  ELSE [b EXCEPT !.open = NoFile, !.trees[Len(b.trees)].files = Append(@, b.open)]

StateOf(flags) ==
  IF "unstaged" \in flags THEN "unstaged" ELSE IF "staged" \in flags THEN "staged" ELSE "committed"

ParseLine(b, line) ==
  IF line.is = "text"
    THEN IF b.open = NoFile THEN b ELSE [b EXCEPT !.open.contents = Append(@, line.text)]
  ELSE LET closed == Close(b)
           trees == closed.trees IN
    CASE line.is = "lock" -> [closed EXCEPT !.lock = TRUE]
      [] line.is = "tree" ->
           IF line.name \notin TreeNames \/ line.kind \notin {"path", "git", "store"}
              \/ \E i \in DOMAIN trees : trees[i].name = line.name
             THEN Malformed
             ELSE [closed EXCEPT !.trees = Append(@, [name |-> line.name, kind |-> line.kind, files |-> <<>>])]
      [] line.is = "file" ->
           IF trees = <<>> \/ ~ValidPath(line.path)
              \/ ~(line.flags \subseteq {"x", "link"} \cup IF Last(trees).kind = "git" THEN {"staged", "unstaged"} ELSE {})
             THEN Malformed
             ELSE [closed EXCEPT !.open = [path |-> line.path, contents |-> <<>>, state |-> StateOf(line.flags),
                                           link |-> "link" \in line.flags, x |-> "x" \in line.flags]]
      [] OTHER -> Malformed

\* (mutant: the line of the directive that ends a part is edited too)
PartEndsLate(lines, j) == j

\* Where a part ends that the directive at j, or the text, ends.
PartEnd(lines, j) == j - 1

\* The parts of the text that the mutator may edit, by their first and last
\* lines: it reads the directives anew.
NixParts(lines) ==
  LET Directives == {i \in DOMAIN lines : lines[i].is # "text"}
      Nix(i) == lines[i].is = "file" /\ lines[i].path \in NixPaths
      Ends(i) == {j \in Directives : j > i} \cup {Len(lines) + 1} IN
  {<<i + 1, PartEnd(lines, CHOOSE j \in Ends(i) : \A k \in Ends(i) : j <= k)>> : i \in {d \in Directives : Nix(d)}}

(***************************************************************************)
(* Writing the trees                                                       *)
(***************************************************************************)
Tree(k) == bundle.trees[k]
EmptyDir == [p \in {} |-> <<>>]

\* The directories are known before any tree is written, and the hash of a store
\* tree once it is in the store.
Substituted(token) ==
  CASE token[1] = "dir" /\ (\E k \in DOMAIN bundle.trees : Tree(k).name = token[2]) -> <<"directory of", token[2]>>
    [] token[1] = "narHash" /\ token[2] \in store -> <<"hash of", token[2]>>
    [] OTHER -> token

Written(file) ==
  [contents |-> [i \in DOMAIN file.contents |-> Substituted(file.contents[i])],
   mode |-> IF file.link THEN "link" ELSE IF file.x THEN "x" ELSE "-"]

\* A file cannot be written where a directory is, nor below a file or a link
\* that leads nowhere.
CanWrite(path, files) ==
  \A p \in DOMAIN files : p # path => ~IsStrictPrefix(path, p) /\ ~IsStrictPrefix(p, path)

PutFile(files, file) == [p \in DOMAIN files \cup {file.path} |-> IF p = file.path THEN Written(file) ELSE files[p]]

\* The next file of the tree that has the state, if there is one.
IsNext(k, state, from, i) ==
  /\ i > from /\ Tree(k).files[i].state = state
  /\ \A j \in DOMAIN Tree(k).files : from < j /\ j < i => Tree(k).files[j].state # state

\* (mutant)
UnstagedFirst == [committed |-> "unstaged", unstaged |-> "staged", staged |-> "written"]

\* The files of a tree are written by their states, and with the last the tree is.
After == [committed |-> "staged", staged |-> "unstaged", unstaged |-> "written"]

BundleTypeOK ==
  /\ src \in Sources /\ parsed \in 0..Len(src)
  /\ bundleStage \in {"parse", "write", "stamp", "add", "lock", "locked", "ready", "malformed", "skipped"}
  /\ cursor.tree \in 0..Len(bundle.trees) /\ cursor.state \in {"committed", "staged", "unstaged", "written"}
  /\ store \subseteq TreeNames
  /\ \A k \in DOMAIN workOf : stamp[k] \subseteq DOMAIN workOf[k] \cup {<<"flake.lock">>}

FirstOf(tree) == [tree |-> tree, state |-> "committed", file |-> 0]

BundleInit ==
  /\ src \in Sources /\ parsed = 0 /\ bundle = NothingYet
  /\ bundleStage = "parse" /\ cursor = FirstOf(0)
  /\ workOf = <<>> /\ headOf = <<>> /\ indexOf = <<>> /\ store = {} /\ stamp = <<>>

ReadLine ==
  /\ bundleStage = "parse" /\ bundle.ok /\ parsed < Len(src)
  /\ parsed' = parsed + 1
  /\ bundle' = ParseLine(bundle, src[parsed + 1])
  /\ UNCHANGED <<src, bundleStage, cursor, workOf, headOf, indexOf, store, stamp>>

\* At the end of the text the last file is complete, and there has to be a tree.
BeginBundle ==
  /\ bundleStage = "parse" /\ (bundle.ok => parsed = Len(src))
  /\ IF bundle.trees = <<>>
       THEN bundleStage' = "malformed" /\ bundle' = Malformed /\ UNCHANGED <<cursor, workOf, headOf, indexOf, stamp>>
       ELSE /\ bundleStage' = "write" /\ bundle' = Close(bundle) /\ cursor' = FirstOf(1)
            /\ LET empty == [k \in DOMAIN bundle.trees |-> EmptyDir] IN workOf' = empty /\ headOf' = empty /\ indexOf' = empty
            /\ stamp' = [k \in DOMAIN bundle.trees |-> {}]
  /\ UNCHANGED <<src, parsed, store>>

\* A Git tree's files go into the index as well, but for those not to be added.
WriteFile ==
  /\ bundleStage = "write"
  /\ LET k == cursor.tree IN
     \E i \in DOMAIN Tree(k).files :
       LET file == Tree(k).files[i] IN
       /\ IsNext(k, cursor.state, cursor.file, i)
       /\ IF ~CanWrite(file.path, workOf[k]) THEN bundleStage' = "malformed" /\ UNCHANGED <<cursor, workOf, indexOf, stamp>>
          ELSE /\ workOf' = [workOf EXCEPT ![k] = PutFile(@, file)]
               /\ stamp' = [stamp EXCEPT ![k] = @ \cup {file.path}]
               /\ indexOf' = IF Tree(k).kind # "git" \/ file.state = "unstaged" THEN indexOf
                             ELSE [indexOf EXCEPT ![k] = PutFile(@, file)]
               /\ cursor' = [cursor EXCEPT !.file = i]
               /\ UNCHANGED bundleStage
  /\ UNCHANGED <<src, parsed, bundle, headOf, store>>

\* The commit is of the index once the committed files are in it.
EndOfState ==
  /\ bundleStage = "write"
  /\ \A i \in DOMAIN Tree(cursor.tree).files : ~IsNext(cursor.tree, cursor.state, cursor.file, i)
  /\ headOf' = IF cursor.state = "committed" THEN [headOf EXCEPT ![cursor.tree] = indexOf[cursor.tree]] ELSE headOf
  /\ cursor' = [cursor EXCEPT !.state = After[@], !.file = 0]
  /\ bundleStage' = IF cursor'.state = "written" THEN "stamp" ELSE "write"
  /\ UNCHANGED <<src, parsed, bundle, workOf, indexOf, store, stamp>>

\* The next tree, or the lock.
Proceeds ==
  IF cursor.tree < Len(bundle.trees)
    THEN bundleStage' = "write" /\ cursor' = FirstOf(cursor.tree + 1)
    ELSE bundleStage' = "lock" /\ UNCHANGED cursor

SetTimes ==
  /\ bundleStage = "stamp"
  /\ stamp' = [stamp EXCEPT ![cursor.tree] = {}]
  /\ IF Tree(cursor.tree).kind = "store" THEN bundleStage' = "add" /\ UNCHANGED cursor ELSE Proceeds
  /\ UNCHANGED <<src, parsed, bundle, workOf, headOf, indexOf, store>>

\* `nix store add` and `nix hash path`, and a copy for the evaluator.
AddToStore ==
  /\ bundleStage = "add"
  /\ \/ store' = store \cup {Tree(cursor.tree).name} /\ Proceeds
     \/ bundleStage' \in {"malformed", "skipped"} /\ UNCHANGED <<cursor, store>>
  /\ UNCHANGED <<src, parsed, bundle, workOf, headOf, indexOf, stamp>>

\* `nix flake lock` in the first tree: it writes a lock file, in a Git tree adds
\* it to the index, or fails and leaves the tree as it was.
Lock ==
  /\ bundleStage = "lock"
  /\ IF ~bundle.lock THEN bundleStage' = "ready" /\ UNCHANGED <<workOf, indexOf, stamp>>
     ELSE \/ /\ bundleStage' = "locked"
             /\ LET lock == <<"flake.lock">>
                    Locked(files) == [p \in DOMAIN files \cup {lock} |-> IF p = lock THEN [contents |-> <<"locked">>, mode |-> "-"] ELSE files[p]] IN
                  /\ workOf' = [workOf EXCEPT ![1] = Locked(@)]
                  /\ indexOf' = IF Tree(1).kind = "git" THEN [indexOf EXCEPT ![1] = Locked(@)] ELSE indexOf
                  /\ stamp' = [stamp EXCEPT ![1] = @ \cup {lock}]
          \/ bundleStage' = "locked" /\ UNCHANGED <<workOf, indexOf, stamp>>
          \/ bundleStage' = "skipped" /\ UNCHANGED <<workOf, indexOf, stamp>>
  /\ UNCHANGED <<src, parsed, bundle, cursor, headOf, store>>

\* (mutant: the times are not set again)
LeavesTimes(k) == stamp[k]

\* What is not of the fixed time after the lock.
TimesAfterLock(k) == {}

SetTimesAgain ==
  /\ bundleStage = "locked" /\ bundleStage' = "ready"
  /\ stamp' = [stamp EXCEPT ![1] = TimesAfterLock(1)]
  /\ UNCHANGED <<src, parsed, bundle, cursor, workOf, headOf, indexOf, store>>

BundleNext == ReadLine \/ BeginBundle \/ WriteFile \/ EndOfState \/ SetTimes \/ AddToStore \/ Lock \/ SetTimesAgain

(***************************************************************************)
(* Properties                                                              *)
(***************************************************************************)
\* The last file of a tree that has the path and one of the states.
LastOf(k, path, states) ==
  LET is == {i \in DOMAIN Tree(k).files : Tree(k).files[i].path = path /\ Tree(k).files[i].state \in states} IN
  IF is = {} THEN <<>> ELSE <<Tree(k).files[CHOOSE i \in is : \A j \in is : j <= i]>>

\* What a file holds whose placeholders stand for every tree, and for the hashes
\* of the store trees before its own.
ContentsOf(k, file) ==
  [i \in DOMAIN file.contents |->
     LET t == file.contents[i]
         Refers(ts) == \E j \in ts : Tree(j).name = t[2] IN
     IF t[1] = "dir" /\ Refers(DOMAIN bundle.trees) THEN <<"directory of", t[2]>>
     ELSE IF t[1] = "narHash" /\ Refers({j \in 1..(k - 1) : Tree(j).kind = "store"}) THEN <<"hash of", t[2]>>
     ELSE t]

\* The first of the two if it is there.
Over(a, b) == IF a # <<>> THEN a ELSE b

Is(k, files, path, file) ==
  IF file = <<>> THEN path \notin DOMAIN files ELSE path \in DOMAIN files /\ files[path].contents = ContentsOf(k, file[1])

\* However its files are ordered in the bundle, a Git tree has its unstaged
\* files over the staged over the committed, its index the staged over the
\* committed, and its commit the committed (write_git).
TreesAsDeclared ==
  bundleStage = "ready" =>
    \A k \in DOMAIN bundle.trees : \A p \in {Tree(k).files[i].path : i \in DOMAIN Tree(k).files} \ {<<"flake.lock">>} :
      LET c == LastOf(k, p, {"committed"})
          s == LastOf(k, p, {"staged"})
          u == LastOf(k, p, {"unstaged"}) IN
      /\ Is(k, workOf[k], p, Over(u, Over(s, c)))
      /\ Tree(k).kind = "git" => Is(k, indexOf[k], p, Over(s, c)) /\ Is(k, headOf[k], p, c)

\* Neither evaluator sees when the bundle was written (set_mtimes).
SeesNoTime == bundleStage = "ready" => \A k \in DOMAIN stamp : stamp[k] = {}

\* The lines of a well-formed bundle that the mutator edits are the contents of
\* its Nix files, and no directive is among them (nix_ranges and parse).
PartsAreContents ==
  bundleStage # "parse" /\ bundle.ok =>
    /\ \A part \in NixParts(src) : \A i \in part[1]..part[2] : i \in DOMAIN src /\ src[i].is = "text"
    /\ LET Nix(k) == {i \in DOMAIN Tree(k).files : Tree(k).files[i].path \in NixPaths} IN
       {[i \in 1..(part[2] + 1 - part[1]) |-> src[part[1] + i - 1].text] : part \in NixParts(src)}
         = UNION {{Tree(k).files[i].contents : i \in Nix(k)} : k \in DOMAIN bundle.trees}

\* The flakes built for an input are those it describes, on every machine and
\* at any time.
FuzzBundleInv == BundleTypeOK /\ TreesAsDeclared /\ SeesNoTime /\ PartsAreContents

BundleSpec == BundleInit /\ [][BundleNext]_bundleVars
=============================================================================
