----------------------------- MODULE CallByName -----------------------------
(***************************************************************************)
(* What an expression means: evaluation by name, with no heap, no sharing, *)
(* no stack and no black holes.  A closure is evaluated again wherever it  *)
(* is used, errors are results, and what needs more than Fuel nested       *)
(* evaluations has no value.  EvalMachine's steps are compared with it.    *)
(*                                                                         *)
(* An environment is a sequence of frames, innermost first, whose slots    *)
(* are closures or expressions of the frame itself.                        *)
(***************************************************************************)
EXTENDS Integers, Sequences, FiniteSets, SequencesExt, TLC

CONSTANTS Files, Fuel

Ok(v) == [ok |-> TRUE, v |-> v]
Error(kind) == [ok |-> FALSE, kind |-> kind]
Then(result, F(_)) == IF result.ok THEN F(result.v) ELSE result

In(e, env) == [c |-> "in", e |-> e, env |-> env]
Own(e) == [c |-> "own", e |-> e]
Value(v) == [c |-> "value", v |-> v]
App(fn, arg) == [c |-> "app", fn |-> fn, arg |-> arg]

Bool(b) == [t |-> "bool", b |-> b]
Str(s) == [t |-> "str", s |-> s]
Set(attrs) == [t |-> "set", attrs |-> attrs]
List(items) == [t |-> "list", items |-> items]

IsSet(v) == v.t = "set"
HasName(v, name) == IsSet(v) /\ name \in DOMAIN v.attrs
IsFunction(v) == v.t \in {"lambda", "primop"} \/ HasName(v, "__functor")

Look(env, up, slot) ==
  LET from == SubSeq(env, up + 1, Len(env))
      own == from[1][slot]
  IN IF own.c = "own" THEN In(own.e, from) ELSE own

Arity == [throw |-> 1, abort |-> 1, tryEval |-> 1, import |-> 1, seq |-> 2, deepSeq |-> 2, map |-> 2]

Items(v) ==
  CASE IsSet(v) -> LET names == SetToSeq(DOMAIN v.attrs) IN [i \in DOMAIN names |-> v.attrs[names[i]]]
    [] v.t = "list" -> v.items
    [] OTHER -> <<>>

RECURSIVE Meaning(_, _)

\* What there is to find out, as arguments of Meaning.
Ev(e, env, n) == Meaning([do |-> "eval", e |-> e, env |-> env], n)
Fo(c, n) == Meaning([do |-> "force", c |-> c], n)
Ap(fn, arg, n) == Meaning([do |-> "apply", fn |-> fn, arg |-> arg], n)
Path(e, env, i, c, n) == Meaning([do |-> "path", e |-> e, env |-> env, i |-> i, c |-> c], n)
In_(e, env, i, c, n) == Meaning([do |-> "has", e |-> e, env |-> env, i |-> i, c |-> c], n)
With(w, env, i, n) == Meaning([do |-> "with", w |-> w, env |-> env, i |-> i], n)
Dyn(e, env, i, attrs, n) == Meaning([do |-> "dynamic", e |-> e, env |-> env, i |-> i, attrs |-> attrs], n)
Text(c, n) == Meaning([do |-> "text", c |-> c], n)
Parts(e, env, i, acc, n) == Meaning([do |-> "parts", e |-> e, env |-> env, i |-> i, acc |-> acc], n)
Deep(c, n) == Meaning([do |-> "deep", c |-> c], n)
DeepAll(v, items, n) == Meaning([do |-> "deepAll", v |-> v, items |-> items], n)
Same(a, b, n) == Meaning([do |-> "same", a |-> a, b |-> b], n)
SameAll(as, bs, i, n) == Meaning([do |-> "sameAll", as |-> as, bs |-> bs, i |-> i], n)
Elem(c, d, n) == Meaning([do |-> "elem", c |-> c, d |-> d], n)
Args(e, env, i, fn, n) == Meaning([do |-> "args", e |-> e, env |-> env, i |-> i, fn |-> fn], n)

Forced(c, n) ==
  IF n = 0 THEN Error("recursion")
  ELSE CASE c.c = "value" -> Ok(c.v)
         [] c.c = "in" -> Ev(c.e, c.env, n - 1)
         [] c.c = "app" -> Then(Fo(c.fn, n - 1), LAMBDA fn : Ap(fn, c.arg, n - 1))

BoolOf(result) == Then(result, LAMBDA v : IF v.t = "bool" THEN Ok(v) ELSE Error("type"))
NameOf(key, env, n) ==
  IF key.x = "name" THEN Ok(Str(key.name))
  ELSE Then(Ev(key, env, n), LAMBDA v : IF v.t = "str" THEN Ok(v) ELSE Error("type"))

Binary(e, env, n) ==
  LET first == Ev(e.left, env, n)
      other == Ev(e.right, env, n)
  IN CASE e.op = "and" -> Then(BoolOf(first), LAMBDA v : IF v.b THEN BoolOf(other) ELSE Ok(v))
       [] e.op = "or" -> Then(BoolOf(first), LAMBDA v : IF v.b THEN Ok(v) ELSE BoolOf(other))
       [] e.op = "impl" -> Then(BoolOf(first), LAMBDA v : IF v.b THEN BoolOf(other) ELSE Ok(Bool(TRUE)))
       [] e.op \in {"eq", "neq"} ->
            Then(first, LAMBDA a : Then(other, LAMBDA b :
              Then(Same(a, b, n), LAMBDA v : Ok(Bool(v.b = (e.op = "eq"))))))
       [] e.op = "concat" ->
            Then(first, LAMBDA a : Then(other, LAMBDA b :
              IF a.t = "list" /\ b.t = "list" THEN Ok(List(a.items \o b.items)) ELSE Error("type")))
       [] e.op = "add" ->
            Then(first, LAMBDA a :
              IF a.t = "int"
              THEN Then(other, LAMBDA b : IF b.t = "int" THEN Ok([t |-> "int", n |-> a.n + b.n]) ELSE Error("eval"))
              ELSE Then(Text(Value(a), n), LAMBDA s : Then(other, LAMBDA b :
                     Then(Text(Value(b), n), LAMBDA z : Ok(Str(s.s \o z.s))))))
       \* The right operand is evaluated first.
       [] e.op = "update" ->
            Then(other, LAMBDA b : IF ~IsSet(b) THEN Error("type")
              ELSE Then(first, LAMBDA a : IF IsSet(a) THEN Ok(Set(b.attrs @@ a.attrs)) ELSE Error("type")))

Evaluated(e, env, n) ==
  IF n = 0 THEN Error("recursion")
  ELSE LET m == n - 1 IN
    CASE e.x = "null" -> Ok([t |-> "null"])
      [] e.x = "bool" -> Ok(Bool(e.b))
      [] e.x = "int" -> Ok([t |-> "int", n |-> e.n])
      [] e.x = "str" -> Ok(Str(e.s))
      [] e.x = "path" -> Ok([t |-> "path", p |-> e.p])
      [] e.x = "global" -> Ok([t |-> "primop", op |-> e.op, args |-> <<>>])
      [] e.x = "var" -> Fo(Look(env, e.up, e.slot), m)
      [] e.x = "withVar" -> With(e, env, 1, m)
      [] e.x = "lambda" -> Ok([t |-> "lambda", def |-> e, env |-> env])
      [] e.x = "list" -> Ok(List([i \in DOMAIN e.items |-> In(e.items[i], env)]))
      [] e.x = "attrs" ->
           LET scope == IF e.rec THEN <<[i \in DOMAIN e.frame |-> Own(e.frame[i])]>> \o env ELSE env
               names == {e.statics[i].name : i \in DOMAIN e.statics}
           IN Dyn(e, scope, 1, [a \in names |->
                    In(e.statics[CHOOSE i \in DOMAIN e.statics : e.statics[i].name = a].value, scope)], m)
      [] e.x = "select" -> Then(Ev(e.of, env, m), LAMBDA v : Path(e, env, 1, Value(v), m))
      [] e.x = "hasAttr" -> In_(e, env, 1, In(e.of, env), m)
      [] e.x = "apply" -> Args(e, env, 1, Ev(e.fn, env, m), m)
      [] e.x = "if" -> Then(BoolOf(Ev(e.cond, env, m)), LAMBDA v : Ev(IF v.b THEN e.then ELSE e.else, env, m))
      [] e.x = "assert" -> Then(BoolOf(Ev(e.cond, env, m)), LAMBDA v : IF v.b THEN Ev(e.body, env, m) ELSE Error("assert"))
      [] e.x = "not" -> Then(BoolOf(Ev(e.of, env, m)), LAMBDA v : Ok(Bool(~v.b)))
      [] e.x = "bin" -> Binary(e, env, m)
      [] e.x = "interp" -> Parts(e, env, 1, "", m)
      [] e.x = "let" -> Ev(e.body, <<[i \in DOMAIN e.slots |-> Own(e.slots[i])]>> \o env, m)
      [] e.x = "with" -> Ev(e.body, <<<<In(e.namespace, env)>>>> \o env, m)

AppliedTo(e, env, i, fn, n) ==
  IF ~fn.ok \/ i > Len(e.args) THEN fn
  ELSE Args(e, env, i + 1, Ap(fn.v, In(e.args[i], env), n), n)

Resolved(w, env, i, n) ==
  IF i > Len(w.withs) THEN Error("eval")
  ELSE Then(Fo(Look(env, w.withs[i], 1), n), LAMBDA v :
         IF ~IsSet(v) THEN Error("type")
         ELSE IF HasName(v, w.name) THEN Fo(v.attrs[w.name], n)
         ELSE With(w, env, i + 1, n))

Selected(e, env, i, c, n) ==
  IF i > Len(e.path) THEN Fo(c, n)
  ELSE Then(NameOf(e.path[i], env, n), LAMBDA name : Then(Fo(c, n), LAMBDA v :
         IF HasName(v, name.s) THEN Path(e, env, i + 1, v.attrs[name.s], n)
         ELSE IF e.default.x # "none" THEN Ev(e.default, env, n)
         ELSE Error(IF IsSet(v) THEN "eval" ELSE "type")))

Present(e, env, i, c, n) ==
  IF i > Len(e.path) THEN Ok(Bool(TRUE))
  ELSE Then(Fo(c, n), LAMBDA v : Then(NameOf(e.path[i], env, n), LAMBDA name :
         IF HasName(v, name.s) THEN In_(e, env, i + 1, v.attrs[name.s], n) ELSE Ok(Bool(FALSE))))

Extended(e, env, i, attrs, n) ==
  IF i > Len(e.dynamics) THEN Ok(Set(attrs))
  ELSE Then(Ev(e.dynamics[i].name, env, n), LAMBDA v :
         CASE v.t = "null" -> Dyn(e, env, i + 1, attrs, n)
           [] v.t = "str" /\ v.s \notin DOMAIN attrs ->
                Dyn(e, env, i + 1, (v.s :> In(e.dynamics[i].value, env)) @@ attrs, n)
           [] OTHER -> Error(IF v.t = "str" THEN "eval" ELSE "type"))

Joined(e, env, i, acc, n) ==
  IF i > Len(e.parts) THEN Ok(Str(acc))
  ELSE Then(Text(In(e.parts[i], env), n), LAMBDA s : Parts(e, env, i + 1, acc \o s.s, n))

Coerced(c, n) ==
  IF n = 0 THEN Error("recursion")
  ELSE Then(Fo(c, n - 1), LAMBDA v :
    CASE v.t = "str" -> Ok(v)
      [] HasName(v, "__toString") ->
           Then(Fo(App(v.attrs["__toString"], Value(v)), n - 1), LAMBDA s : Text(Value(s), n - 1))
      [] ~HasName(v, "__toString") /\ HasName(v, "outPath") -> Text(v.attrs["outPath"], n - 1)
      [] OTHER -> Error("type"))

Tried(success, v) == Ok(Set("success" :> Value(Bool(success)) @@ "value" :> Value(v)))

Built(op, args, n) ==
  CASE op = "tryEval" ->
         LET r == Fo(args[1], n) IN
           IF r.ok THEN Tried(TRUE, r.v)
           ELSE IF r.kind \in {"throw", "assert"} THEN Tried(FALSE, Bool(FALSE)) ELSE r
    [] op = "seq" -> Then(Fo(args[1], n), LAMBDA v : Fo(args[2], n))
    [] op = "deepSeq" -> Then(Deep(args[1], n), LAMBDA v : Fo(args[2], n))
    [] op = "map" ->
         Then(Fo(args[2], n), LAMBDA l :
           IF l.t # "list" THEN Error("type")
           ELSE IF l.items = <<>> THEN Ok(l)
           ELSE Then(Fo(args[1], n), LAMBDA fn :
             IF IsFunction(fn) THEN Ok(List([i \in DOMAIN l.items |-> App(Value(fn), l.items[i])])) ELSE Error("type")))
    [] op = "import" -> Then(Fo(args[1], n), LAMBDA v : IF v.t = "path" THEN Ev(Files[v.p], <<<<>>>>, n) ELSE Error("eval"))
    [] op \in {"throw", "abort"} -> Then(Text(args[1], n), LAMBDA v : Error(op))

Enter(lambda, arg, n) ==
  LET def == lambda.def IN
    IF def.param = "ident" THEN Ev(def.body, <<<<arg>>>> \o lambda.env, n)
    ELSE Then(Fo(arg, n), LAMBDA set :
      LET formals == def.formals
          given == {formals[i].name : i \in DOMAIN formals}
          Slot(f) == IF HasName(set, f.name) THEN set.attrs[f.name] ELSE Own(f.default)
      IN IF \/ ~IsSet(set)
            \/ \E i \in DOMAIN formals : ~HasName(set, formals[i].name) /\ formals[i].default.x = "none"
            \/ ~def.ellipsis /\ ~(DOMAIN set.attrs \subseteq given)
         THEN Error("type")
         ELSE Ev(def.body, <<[i \in DOMAIN formals |-> Slot(formals[i])] \o (IF def.at THEN <<arg>> ELSE <<>>)>>
                           \o lambda.env, n))

Applied(fn, arg, n) ==
  IF n = 0 THEN Error("recursion")
  ELSE CASE fn.t = "lambda" -> Enter(fn, arg, n - 1)
         [] fn.t = "primop" ->
              LET args == Append(fn.args, arg) IN
                IF Len(args) < Arity[fn.op] THEN Ok([fn EXCEPT !.args = args]) ELSE Built(fn.op, args, n - 1)
         [] HasName(fn, "__functor") ->
              Then(Fo(App(fn.attrs["__functor"], Value(fn)), n - 1), LAMBDA g : Ap(g, arg, n - 1))
         [] OTHER -> Error("type")

\* What holds itself has no end by name, and is forced once where it is shared.
DeepForced(c, n) ==
  LET r == IF n = 0 THEN Error("recursion")
           ELSE Then(Fo(c, n - 1), LAMBDA v : DeepAll(v, Items(v), n - 1))
  IN IF r = Error("recursion") THEN Error("unknown") ELSE r
AllForced(v, items, n) ==
  IF items = <<>> THEN Ok(v) ELSE Then(Deep(Head(items), n), LAMBDA w : DeepAll(v, Tail(items), n))

\* Functions are equal only to themselves, and by name nothing is itself: what
\* that decides is unknown.
Equal(a, b, n) ==
  CASE a.t = "list" /\ b.t = "list" ->
         IF Len(a.items) # Len(b.items) THEN Ok(Bool(FALSE)) ELSE SameAll(a.items, b.items, 1, n)
    [] IsSet(a) /\ IsSet(b) ->
         IF DOMAIN a.attrs # DOMAIN b.attrs THEN Ok(Bool(FALSE)) ELSE SameAll(Items(a), Items(b), 1, n)
    [] a.t = b.t /\ a.t \in {"null", "bool", "int", "str", "path"} -> Ok(Bool(a = b))
    [] OTHER -> Ok(Bool(FALSE))

AllEqual(as, bs, i, n) ==
  IF i > Len(as) THEN Ok(Bool(TRUE))
  ELSE Then(Elem(as[i], bs[i], n), LAMBDA v : IF v.b THEN SameAll(as, bs, i + 1, n) ELSE Ok(v))

ElementEqual(c, d, n) ==
  IF n = 0 THEN Error("recursion")
  ELSE Then(Fo(c, n - 1), LAMBDA a : Then(Fo(d, n - 1), LAMBDA b :
         LET r == Same(a, b, n - 1) IN
           IF a.t = b.t /\ a.t \in {"lambda", "primop", "set", "list"} /\ r # Ok(Bool(TRUE))
           THEN Error("unknown") ELSE r))

Meaning(t, n) ==
  CASE t.do = "eval" -> Evaluated(t.e, t.env, n)
    [] t.do = "force" -> Forced(t.c, n)
    [] t.do = "apply" -> Applied(t.fn, t.arg, n)
    [] t.do = "path" -> Selected(t.e, t.env, t.i, t.c, n)
    [] t.do = "has" -> Present(t.e, t.env, t.i, t.c, n)
    [] t.do = "with" -> Resolved(t.w, t.env, t.i, n)
    [] t.do = "dynamic" -> Extended(t.e, t.env, t.i, t.attrs, n)
    [] t.do = "text" -> Coerced(t.c, n)
    [] t.do = "parts" -> Joined(t.e, t.env, t.i, t.acc, n)
    [] t.do = "deep" -> DeepForced(t.c, n)
    [] t.do = "deepAll" -> AllForced(t.v, t.items, n)
    [] t.do = "same" -> Equal(t.a, t.b, n)
    [] t.do = "sameAll" -> AllEqual(t.as, t.bs, t.i, n)
    [] t.do = "elem" -> ElementEqual(t.c, t.d, n)
    [] t.do = "args" -> AppliedTo(t.e, t.env, t.i, t.fn, n)

-----------------------------------------------------------------------------
(* The session: the outputs of a flake, and the candidates looked up there. *)

Slot(i) == [x |-> "var", up |-> 0, slot |-> i]
Named(name, e) == [name |-> name, value |-> e]
Literal(statics) == [x |-> "attrs", rec |-> FALSE, frame |-> <<>>, dynamics |-> <<>>, statics |-> statics]

\* What a flake is: its outputs, of itself, and what it has besides them.
Flake(outputs) ==
  << <<Own(Literal(<<Named("self", Slot(2))>>)),
       Own([x |-> "bin", op |-> "update", left |-> Slot(3),
            right |-> Literal(<<Named("outputs", Slot(3)), Named("outPath", [x |-> "str", s |-> "source"])>>)]),
       Own([x |-> "apply", fn |-> outputs, args |-> <<Slot(1)>>])>>, <<>> >>

RECURSIVE Walk(_, _, _), Installable(_, _, _)
Walk(c, path, n) ==
  IF path = <<>> THEN Ok(c)
  ELSE Then(Fo(c, n), LAMBDA v : IF HasName(v, path[1]) THEN Walk(v.attrs[path[1]], Tail(path), n) ELSE Error("type"))

\* The first of the paths that leads to something, evaluated; what has the
\* wrong type on the way leads nowhere.
Installable(outputs, paths, n) ==
  LET env == Flake(outputs)
      flake == Fo(In(Slot(2), env), n)
      found == Then(flake, LAMBDA self : Walk(In(Slot(3), env), paths[1], n))
  IN IF paths = <<>> THEN Error("eval")
     ELSE IF ~found.ok /\ found.kind = "type" THEN Installable(outputs, Tail(paths), n)
     ELSE Then(found, LAMBDA c : Fo(c, n))

=============================================================================
