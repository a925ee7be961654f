------------------------------- MODULE MCEval -------------------------------
(***************************************************************************)
(* The parts of ogygia-nix-eval in one run: the machine that evaluates a   *)
(* compiled flake, the compiler, the lock file, the paths of a tree and    *)
(* the fetching of sources.  Each behaviour is that of one of them,        *)
(* `active`, with the others not started: they hand each other values and  *)
(* share no state.                                                         *)
(***************************************************************************)
EXTENDS EvalMachine, MCFlakes, MCPrograms

Var(up, slot) == [x |-> "var", up |-> up, slot |-> slot]
IntE(n) == [x |-> "int", n |-> n]
StrE(s) == [x |-> "str", s |-> s]
BoolE(b) == [x |-> "bool", b |-> b]
Global(name) == [x |-> "global", op |-> name]
ApplyE(fn, args) == [x |-> "apply", fn |-> fn, args |-> args]
OpE(name, left, right) == [x |-> "bin", op |-> name, left |-> left, right |-> right]
NameE(name) == [x |-> "name", name |-> name]
Nothing == [x |-> "none"]
SelectE(of, keys, default) == [x |-> "select", of |-> of, path |-> keys, default |-> default]
Pair(name, value) == [name |-> name, value |-> value]
SetE(statics) == [x |-> "attrs", rec |-> FALSE, frame |-> <<>>, statics |-> statics, dynamics |-> <<>>]
LambdaE(e) == [x |-> "lambda", param |-> "ident", body |-> e]
ListE(items) == [x |-> "list", items |-> items]
Throws == ApplyE(Global("throw"), <<StrE("e")>>)
Text(parts) == [x |-> "interp", parts |-> parts]

\* In a flake { self }: let x = ...; y = ...; in { a = ...; b = x; }.
X == Var(0, 1)
Y == Var(0, 2)
SelfE == Var(1, 1)

RecSet == [x |-> "attrs", rec |-> TRUE, frame |-> <<IntE(1), Var(0, 1), LambdaE(LambdaE(Var(2, 2)))>>,
           statics |-> <<Pair("a", Var(0, 1)), Pair("b", Var(0, 2)), Pair("__functor", Var(0, 3))>>, dynamics |-> <<>>]
Pattern == [x |-> "lambda", param |-> "pattern", ellipsis |-> TRUE, at |-> TRUE,
            formals |-> <<[name |-> "a", default |-> Nothing], [name |-> "b", default |-> Var(0, 1)]>>,
            body |-> SelectE(Var(0, 3), <<NameE("c")>>, Var(0, 2))]
AWith(e, name) == [x |-> "with", namespace |-> e, body |-> [x |-> "withVar", name |-> name, withs |-> <<0>>]]

Xs ==
  {[x |-> "null"], IntE(1), ListE(<<X>>), Y, Throws, SetE(<<Pair("a", Y), Pair("b", IntE(1))>>), LambdaE(Var(1, 2)),
   SelectE(SelfE, <<NameE("b")>>, Nothing), ListE(<<Y, IntE(1)>>), StrE("a"),
   RecSet,
   ApplyE(Global("tryEval"), <<Y>>), LambdaE(ApplyE(Var(1, 1), <<Var(0, 1)>>))}

Ys ==
  {X, ListE(<<Y>>), ApplyE(Global("import"), <<X>>), SelectE(X, <<NameE("a")>>, Nothing), OpE("add", X, StrE("b")), OpE("add", IntE(1), X), ApplyE(X, <<IntE(2)>>),
   Text(<<StrE("c"), X>>), OpE("update", SetE(<<Pair("a", IntE(2)), Pair("b", X)>>), X),
   ApplyE(Global("import"), <<[x |-> "path", p |-> "f"]>>), AWith(X, "a"),
   SetE(<<Pair("__toString", LambdaE(StrE("a"))), Pair("outPath", X), Pair("a", Throws)>>),
   ApplyE(Global("deepSeq"), <<X, IntE(1)>>), ApplyE(Global("map"), <<X, ListE(<<IntE(1), Y>>)>>), Pattern}

As ==
  {[x |-> "assert", cond |-> OpE("neq", X, Y), body |-> Text(<<Y>>)],
   OpE("update", SelectE(ApplyE(Y, <<SetE(<<>>)>>), <<NameE("a")>>, X), SetE(<<Pair("b", X)>>)),
   OpE("eq", ListE(<<X, Y>>), ListE(<<Y, X>>)), ApplyE(Global("seq"), <<ApplyE(Global("tryEval"), <<Y>>), Y>>),
   SelectE(Y, <<NameE("b"), X>>, X), ApplyE(Y, <<X>>), OpE("and", OpE("eq", X, Y), Text(<<Y>>)),
   [SetE(<<Pair("c", X)>>) EXCEPT !.dynamics = <<Pair(Y, X), Pair(StrE("c"), Y)>>],
   [x |-> "if", cond |-> [x |-> "hasAttr", of |-> X, path |-> <<NameE("a"), X>>], then |-> Y, else |-> BoolE(TRUE)],
   SelectE(SelfE, <<NameE("outputs"), NameE("b")>>, Nothing),
   OpE("concat", X, Y),
   OpE("impl", [x |-> "not", of |-> OpE("neq", X, Y)], OpE("or", BoolE(FALSE), X))}

Flake(e) ==
  [x |-> "lambda", param |-> "pattern", ellipsis |-> FALSE, at |-> FALSE,
   formals |-> <<[name |-> "self", default |-> Nothing]>>, body |-> e]

Flakes ==
  {Flake([x |-> "let", slots |-> <<x, y>>, body |-> SetE(<<Pair("a", a), Pair("b", Var(0, 1))>>)]) :
   x \in Xs, y \in Ys, a \in As}

\* The second finds nothing, whatever the flake's outputs are.
TheSessions ==
  {[outputs |-> f, paths |-> <<<<"a", "b">>, <<"a">>>>] : f \in Flakes}
  \cup {[outputs |-> Flake(e), paths |-> <<<<"a", "b">>, <<"c">>>>] : e \in {IntE(1), Throws, SetE(<<Pair("a", IntE(1))>>)}}
TheFiles == [p \in {"f"} |-> LambdaE(OpE("update", SetE(<<Pair("a", ApplyE(Global("import"), <<[x |-> "path", p |-> "f"]>>))>>), Var(0, 1)))]

VARIABLE active

PartsOfEval == {"machine", "locks", "paths", "sources", "compiler"}

Of(part) ==
  /\ active = part
  /\ UNCHANGED active
  /\ part # "machine" => UNCHANGED machineVars
  /\ part # "locks" => UNCHANGED flakeVars
  /\ part # "paths" => UNCHANGED treeVars
  /\ part # "sources" => UNCHANGED sourceVars
  /\ part # "compiler" => UNCHANGED scopingVars

partsVars == <<active, machineVars, flakeVars, treeVars, sourceVars, scopingVars>>

\* One initial state is enough of a part that is not started.
Unstarted ==
  /\ active # "machine" => session = CHOOSE s \in Sessions : TRUE
  /\ active # "paths" => tree = (CHOOSE t \in Trees : TRUE) /\ question = "file_type" /\ asked = <<"a">>
  /\ active # "sources" => commits = <<>> /\ stored = {}

PartsInit ==
  /\ active \in PartsOfEval
  /\ Unstarted
  /\ EvalInit /\ FlakeLockInit /\ TreePathInit /\ FlakeSourceInit
  /\ IF active = "compiler" THEN ScopingInit
     ELSE program = Redefined /\ stage = "source" /\ compiled = NoExpr /\ outcome = NoExpr

PartsNext ==
  \/ Of("machine") /\ EvalNext
  \/ Of("locks") /\ FlakeLockNext
  \/ Of("paths") /\ TreePathNext
  \/ Of("sources") /\ FlakeSourceNext
  \/ Of("compiler") /\ ScopingNext

PartsSpec == PartsInit /\ [][PartsNext]_partsVars

\* The value of an expression by name, with thunks enough for the instances.
ByName == INSTANCE CallByName WITH Fuel <- 60

RECURSIVE Alike(_, _, _)
\* v is what w is by name, as far as v has been evaluated, n levels down.
Alike(v, w, n) ==
  LET Part(x, c) == n > 0 /\ Whnf(x) => LET r == ByName!Fo(c, 60) IN r.ok /\ Alike(Forced(x), r.v, n - 1) IN
    CASE v.t \in {"null", "bool", "int", "str", "path"} -> v = w
      [] v.t = "set" -> w.t = "set" /\ Names(v) = DOMAIN w.attrs /\ \A a \in Names(v) : Part(v.attrs[a], w.attrs[a])
      [] v.t = "list" -> w.t = "list" /\ Len(v.items) = Len(w.items)
                         /\ \A i \in DOMAIN v.items : Part(v.items[i], w.items[i])
      [] v.t = "lambda" -> w.t = "lambda" /\ v.def = w.def
      [] v.t \in {"primop", "papp"} -> w.t = "primop" /\ v.op = w.op

\* An evaluation ends as it does by name: with the same value or the same kind
\* of error, infinite recursion being what has no value, whatever was shared,
\* cached, forced before or failed before.  An evaluation that got too deep, or
\* compared functions, may differ (eval.rs, machine.rs and flake/mod.rs: select).
AgreesWithCallByName ==
  EvalEnds =>
    LET meaning == ByName!Installable(session.outputs, session.paths, 60) IN
      CASE step.s = "failed" /\ step.kind = "overflow" -> TRUE
        [] ~meaning.ok /\ meaning.kind = "unknown" -> TRUE
        [] step.s = "failed" /\ step.kind # "overflow" -> meaning = ByName!Error(step.kind)
        [] step.s = "done" -> meaning.ok /\ Alike(step.v, meaning.v, 2)
        [] OTHER -> FALSE

\* The way POSIX resolves a path: a symlink is resolved, to its end, before
\* what comes after it.  `fuel' is how many symlinks it may follow on the way
\* down, which a walk that took no more than MaxSymlinks never exceeds.
RECURSIVE Posix(_, _, _, _, _, _)
Posix(t, k, dir, path, follow, fuel) ==
    IF path = <<>> THEN dir
    ELSE LET name == Head(path)
             rest == Tail(path)
             node == Append(dir, name)
         IN  CASE name = "." -> Posix(t, k, dir, rest, follow, fuel)
               [] name = ".." ->
                    IF dir = <<>> THEN <<"missing", "">>
                    ELSE Posix(t, k, Front(dir), rest, follow, fuel)
               [] name \notin {".", ".."} /\ ~Shown(t, k, node) -> <<"missing", "">>
               [] name \notin {".", ".."} /\ Shown(t, k, node) ->
                    LET link == t[node].type = "symlink" /\ (follow \/ rest # <<>>)
                        end  == IF ~link THEN node
                                ELSE IF t[node].absolute THEN <<"missing", "">>
                                ELSE IF fuel = 0 THEN <<"loop", "">>
                                ELSE Posix(t, k, dir, t[node].to, TRUE, fuel - 1)
                    IN  IF rest = <<>> \/ Last(<<"x">> \o end) = "" THEN end
                        ELSE IF TypeAt(t, end) # "directory" THEN <<"not a directory", "">>
                        ELSE Posix(t, k, end, rest, follow, fuel)

\* A path leads where POSIX says it does, through symlinks to symlinks, to
\* directories that are left again, and out of the tree (source.rs:76-79).
ResolvesAsPosix ==
  \A k \in Accessors :
    walk[k].end \notin {"", "loop"} =>
        Posix(tree, k, <<>>, asked, Follow(question), MaxSymlinks + 1)
            = IF walk[k].end = "found" THEN walk[k].node ELSE <<walk[k].end, "">>

\* What every edge of a lock means, if it means anything: the least solution
\* of "what is followed is what the input at that path of the root is".
WalkedTo(known, from, path) ==
  FoldLeft(LAMBDA k, n : IF <<k, n>> \in DOMAIN known THEN known[<<k, n>>] ELSE None, from, path)
Meaning(l) ==
  LET M[i \in 0..Cardinality(Edges(l))] ==
        [e \in Edges(l) |->
           LET edge == l.nodes[e[1]].inputs[e[2]]
           IN  IF edge.node # None
               THEN IF edge.node \in DOMAIN l.nodes THEN edge.node ELSE None
               ELSE IF i = 0 THEN None ELSE WalkedTo(M[i - 1], l.root, edge.path)]
  IN  M[Cardinality(Edges(l))]

\* An evaluated flake's inputs are the nodes the lock means them to be,
\* through any chain of follows, and a chain without an end gives none.
GivenIsMeant ==
  \A k \in DOMAIN given : \A n \in DOMAIN given[k] : given[k][n] = Meaning(lock)[<<k, n>>]

\* What is evaluated is what flake.nix declares now, not what it declared
\* when the lock was written: references, follows and the overrides of
\* inputs' inputs alike (lock.rs:97-133).
DeclaredIsGiven ==
  phase \in {"eval", "done"} =>
    LET m == Meaning(lock) IN
    \A p \in DOMAIN declared :
      LET key == WalkedTo(m, lock.root, Front(p))
          spec == declared[p]
      IN  \/ \E i \in 1..Len(p) - 1 : declared[SubSeq(p, 1, i)].follows # None
          \/ Len(p) > 1 /\ <<key, Last(p)>> \notin DOMAIN m
          \/ IF spec.follows # None THEN m[<<key, Last(p)>>] = WalkedTo(m, lock.root, spec.follows)
             ELSE spec.attrs # None => lock.nodes[m[<<key, Last(p)>>]].original = spec.attrs

\* What programs, paths and locks mean: every name is what it is where it is written,
\* every evaluation ends as the language says, a path leads where the kernel would go,
\* and an input is what flake.nix declares and the lock's edges lead to.
MeaningInv == ScopingInv /\ AgreesWithCallByName /\ ResolvesAsPosix /\ GivenIsMeant /\ DeclaredIsGiven

\* TLC evaluates a definition once, but what replaces a constant each time it meets
\* the constant: the cfg names these, which only name a definition.
TheSessionsOnce == TheSessions
TheFilesOnce == TheFiles
TheFlakeFilesOnce == TheFlakeFiles
TheLockFilesOnce == TheLockFiles
TheTreesOnce == TheTrees
ThePathsOnce == ThePaths
TheRequestsOnce == TheRequests
TheProgramsOnce == ThePrograms
=============================================================================
