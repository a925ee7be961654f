------------------------------- MODULE MCFuzz -------------------------------
(***************************************************************************)
(* The three parts of ogygia-nix-eval-fuzz in one run: the fuzzing itself, *)
(* with inputs that cover, diverge and crash differently in each build;    *)
(* the check of an input, of two at a time; and the writing of a bundle of *)
(* up to three trees, with every flag a file can have.  Each behaviour is  *)
(* that of one of them, `active`, with the others not started.             *)
(***************************************************************************)
EXTENDS FuzzRun, FuzzCheck, FuzzBundle

CONSTANTS i1, i2, i3, t1, t2

CoversThem == i1 :> {1} @@ i2 :> {2} @@ i3 :> {1, 2}
SomeBuilds ==
  {[diverges |-> {i1}, crashes |-> {i2}], [diverges |-> {i1, i2}, crashes |-> {}], [diverges |-> {i2}, crashes |-> {i1}]}

\* Of the other answer nix could give, and of what tires a bundle, one is enough.
SomeSubjects ==
  {s \in AllSubjects :
     /\ s.nix # "b"
     /\ s.form = "bundle" => s.quirk # "heavy"
     /\ s.bad => s.nix = "a" /\ s.ours = "a" /\ s.quirk = "none"}

\* What the second checker has only matters to the first by its panics.
PlainSubjects ==
  {s \in AllSubjects : s.form = "text" /\ ~s.bad /\ s.quirk = "none" /\ s.nix = "a" /\ s.ours \in {"a", "panic"}}
SecondIsPlain == subject[t2] \in PlainSubjects

TreeLine(n, k) == [is |-> "tree", name |-> n, kind |-> k]
FileLine(p, f) == [is |-> "file", path |-> p, flags |-> f]
TextLine(t) == [is |-> "text", text |-> t]
LockLine == [is |-> "lock"]

AnyLine ==
  {LockLine, TreeLine("r", "git"), TreeLine("s", "store"), TreeLine("bad name", "path"), TextLine(<<"t">>),
   FileLine(<<"a.nix">>, {}), FileLine(<<"a.nix">>, {"staged"}), FileLine(<<"a.nix", "b">>, {"x"}), FileLine(<<"..">>, {})}
AGitFile ==
  {<<FileLine(p, f[1]), TextLine(<<f[2]>>)>> :
     p \in {<<"a.nix">>, <<"b">>}, f \in {<<{}, "c">>, <<{"staged"}, "s">>, <<{"unstaged"}, "u">>, <<{"link"}, "l">>}}
Texts == {<<TextLine(<<"t">>), TextLine(<<"narHash", "s">>)>>, <<TextLine(<<"dir", "r">>)>>, <<>>}

BundleSources ==
  UNION {[1..n -> AnyLine] : n \in 0..3}
  \cup {<<TreeLine("r", "git")>> \o a \o <<FileLine(<<"a.nix">>, {}), TextLine(<<"u">>)>> \o b \o c :
          a \in AGitFile, b \in AGitFile, c \in AGitFile}
  \cup {l \o <<TreeLine("s", "store"), FileLine(<<"a.nix">>, {})>> \o a
          \o <<TreeLine("r", k), FileLine(<<"a.nix">>, {})>> \o b \o <<TreeLine("q", "store"), FileLine(<<"b">>, {"link"})>> \o c :
          l \in {<<>>, <<LockLine>>}, a \in Texts, b \in Texts, c \in Texts, k \in {"git", "path"}}
NixFiles == {<<"a.nix">>}

VARIABLE active

PartsOfFuzz == {"run", "check", "bundle"}

\* The part that runs, and the others that do not.
Alone(part) ==
  /\ active = part
  /\ UNCHANGED active
  /\ part # "run" => UNCHANGED fuzzRunVars
  /\ part # "check" => UNCHANGED checkVars
  /\ part # "bundle" => UNCHANGED bundleVars

fuzzVars == <<active, fuzzRunVars, checkVars, bundleVars>>

\* One initial state is enough of a part that is not started.
FuzzInit ==
  /\ active \in PartsOfFuzz
  /\ FuzzRunInit /\ (active # "run" => fuzzed = CHOOSE b \in Builds : TRUE)
  /\ active # "check" => subject = [c \in Checkers |-> CHOOSE s \in PlainSubjects : TRUE]
  /\ FuzzCheckInit /\ SecondIsPlain
  /\ IF active = "bundle" THEN BundleInit
     ELSE /\ src = <<>> /\ parsed = 0 /\ bundle = NothingYet
          /\ bundleStage = "parse" /\ cursor = FirstOf(0)
          /\ workOf = <<>> /\ headOf = <<>> /\ indexOf = <<>> /\ store = {} /\ stamp = <<>>

FuzzNext ==
  \/ Alone("run") /\ FuzzRunNext
  \/ Alone("check") /\ FuzzCheckNext
  \/ Alone("bundle") /\ BundleNext

FuzzSpec == FuzzInit /\ [][FuzzNext]_fuzzVars

\* TLC evaluates a definition once, but what replaces a constant each time it meets
\* the constant: the cfg names these, which only name a definition.
CoversThemOnce == CoversThem
SomeBuildsOnce == SomeBuilds
SomeSubjectsOnce == SomeSubjects
BundleSourcesOnce == BundleSources
=============================================================================
