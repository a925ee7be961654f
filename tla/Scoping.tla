------------------------------- MODULE Scoping ------------------------------
(***************************************************************************)
(* Compiling a Nix expression (ogygia-nix-eval, src/compile.rs): variables *)
(* become the number of frames between them and the one that binds them    *)
(* and a slot in it, and the bindings of a set, whose paths may be spread  *)
(* over several definitions, become one definition each.  Parsing, and the *)
(* text of literals, is rnix's and left out.                               *)
(*                                                                         *)
(* A source expression is a record with a tag x; a key of a path is a name *)
(* or, with name "", an expression.  What compiled expressions mean, by    *)
(* frames and slots, is RunCode, as eval/machine.rs has it; what source   *)
(* expressions mean, by names, is Means.  Neither is compiled code: they   *)
(* are what the compiler is held against.                                  *)
(***************************************************************************)
EXTENDS Integers, SequencesExt, FiniteSets, TLC

CONSTANTS
    Programs,  \* source expressions
    Globals,   \* Builtin::in_scope
    Fuel       \* how deep an evaluation may go before it counts as endless

VARIABLES program, stage, compiled, outcome

scopingVars == <<program, stage, compiled, outcome>>

NoExpr == [x |-> "nothing"]
Wrong == [x |-> "wrong"]

-----------------------------------------------------------------------------
(* The definitions of a set: merge_entry and insert_path.                  *)

NoDefs == [ok |-> TRUE, statics |-> <<>>, froms |-> <<>>, dynamics |-> <<>>]
Conflict == [NoDefs EXCEPT !.ok = FALSE]

ExprDef(e) == [is |-> "expr", e |-> e]
NestedDef(defs) == [is |-> "nested", defs |-> defs]
InheritDef(name) == [is |-> "inherit", name |-> name]
FromDef(i, name) == [is |-> "from", from |-> i, name |-> name]

Static(name, def) == [name |-> name, def |-> def]
Defines(defs, name) == \E i \in DOMAIN defs.statics : defs.statics[i].name = name

MergesAny(e) == e.x = "set"

\* Only a literal set that is not recursive is merged with another.
Merges(e) == e.x = "set" /\ ~e.rec

PutInherit(defs, entry) ==
    LET base == IF entry.from = NoExpr THEN defs
                ELSE [defs EXCEPT !.froms = Append(@, entry.from)]
        def(name) == IF entry.from = NoExpr THEN InheritDef(name)
                     ELSE FromDef(Len(base.froms), name)
    IN  FoldLeft(LAMBDA acc, name :
                   IF ~acc.ok \/ Defines(acc, name) THEN Conflict
                   ELSE [acc EXCEPT !.statics = Append(@, Static(name, def(name)))],
                 base, entry.names)

RECURSIVE Put(_, _)
Put(defs, entry) ==
    IF ~defs.ok THEN defs
    ELSE IF entry.names # <<>> THEN PutInherit(defs, entry)
    ELSE LET key  == Head(entry.path)
             rest == [entry EXCEPT !.path = Tail(@)]
             leaf == IF rest.path = <<>> THEN ExprDef(entry.value)
                     ELSE NestedDef(Put(NoDefs, rest))
         IN  IF key.name = ""
             THEN [defs EXCEPT !.dynamics = Append(@, [key |-> key.e, def |-> leaf])]
             ELSE IF ~Defines(defs, key.name)
             THEN [defs EXCEPT !.statics = Append(@, Static(key.name, leaf))]
             ELSE LET i   == CHOOSE j \in DOMAIN defs.statics : defs.statics[j].name = key.name
                      old == defs.statics[i].def
                      has == IF old.is = "nested" THEN old.defs
                             ELSE IF old.is = "expr" /\ Merges(old.e)
                             THEN FoldLeft(Put, NoDefs, old.e.entries)
                             ELSE Conflict
                      new == IF ~has.ok THEN Conflict
                             ELSE IF rest.path # <<>> THEN Put(has, rest)
                             ELSE IF Merges(entry.value)
                             THEN FoldLeft(Put, has, entry.value.entries)
                             ELSE Conflict
                  IN  IF new.ok THEN [defs EXCEPT !.statics[i].def = NestedDef(new)]
                      ELSE Conflict

Preset(entries) == FoldLeft(Put, NoDefs, entries)

-----------------------------------------------------------------------------
(* Variables: Compiler::resolve.  Scopes are innermost last.               *)

Binding(names) == [names |-> names, with |-> FALSE]
WithScope == [names |-> <<>>, with |-> TRUE]

\* Depths count every scope, a `with' too, from the innermost.
Depths(scopes, skip) == skip..(Len(scopes) - 1)
ScopeAt(scopes, d) == scopes[Len(scopes) - d]
SlotAt(names, name) == Len(names) - (CHOOSE i \in 0..(Len(names) - 1) : names[Len(names) - i] = name)

\* The nearest scope that binds the name; a global, which no `with' shadows;
\* or whatever the innermost `with' that has it has.
Lookup(scopes, name, skip) ==
    LET binds == {d \in Depths(scopes, skip) : name \in Range(ScopeAt(scopes, d).names)}
        withs == SetToSortSeq({d \in Depths(scopes, skip) : ScopeAt(scopes, d).with}, <)
    IN  IF binds # {}
        THEN LET d == CHOOSE m \in binds : \A n \in binds : m <= n
             IN  [x |-> "var", up |-> d, slot |-> SlotAt(ScopeAt(scopes, d).names, name)]
        ELSE IF name \in Globals THEN [x |-> "global", name |-> name]
        ELSE IF withs = <<>> THEN Wrong
        ELSE [x |-> "withVar", name |-> name, withs |-> withs]

NoSkip(framed) == 0

\* What `inherit' names is outside the frame of the bindings it is among.
Skip(framed) == IF framed THEN 1 ELSE 0

FromsFirst(rec, names) == 0

\* Where the sources of `inherit (from)' are, among the slots of their frame.
FromsBase(rec, names) == IF rec THEN Len(names) ELSE 0

\* A frame for names that can be referred to, or sources evaluated once.
HasFrame(rec, defs) == rec \/ defs.froms # <<>>

-----------------------------------------------------------------------------
(* Expressions: expr_inner, lambda, bindings and attrs.                    *)

\* What can go wrong in any part of an expression is wrong with all of it.
Whole(parts, e) == IF \E i \in DOMAIN parts : parts[i].x = "wrong" THEN Wrong ELSE e

FormalNames(l) == [i \in DOMAIN l.formals |-> l.formals[i].name] \o (IF l.at = "" THEN <<>> ELSE <<l.at>>)

Id(name) == [x |-> "id", name |-> name]

\* `a - b' is a call of __sub and `a > b' of __lessThan with b first, names
\* that can be bound like any other.
Called(e) == [x |-> "app", fn |-> Id(IF e.x = "sub" THEN "__sub" ELSE "__lessThan"),
              args |-> IF e.x = "sub" THEN <<e.l, e.r>> ELSE <<e.r, e.l>>]

RECURSIVE Compile(_, _)
Compile(e, scopes) ==
    LET all(es, s) == [i \in DOMAIN es |-> Compile(es[i], s)]
    IN  CASE e.x \in {"int", "str", "nothing"} -> e
          [] e.x = "id" -> Lookup(scopes, e.name, 0)
          [] e.x \in {"sub", "more"} -> Compile(Called(e), scopes)
          [] e.x = "app" ->
               LET fn == Compile(e.fn, scopes)
                   args == all(e.args, scopes)
               IN  Whole(<<fn>> \o args, [x |-> "app", fn |-> fn, args |-> args])
          [] e.x = "select" ->
               LET of == Compile(e.of, scopes)
                   default == Compile(e.default, scopes)
               IN  Whole(<<of, default>>,
                         [x |-> "select", of |-> of, name |-> e.name, default |-> default])
          [] e.x = "with" ->
               LET ns == Compile(e.namespace, scopes)
                   body == Compile(e.body, Append(scopes, WithScope))
               IN  Whole(<<ns, body>>, [x |-> "with", namespace |-> ns, body |-> body])
          [] e.x = "lambda" ->
               LET inner == Append(scopes, Binding(FormalNames(e)))
                   defaults == [i \in DOMAIN e.formals |-> Compile(e.formals[i].default, inner)]
                   body == Compile(e.body, inner)
               IN  IF ~IsInjective(FormalNames(e)) THEN Wrong
                   ELSE Whole(Append(defaults, body),
                              [x |-> "lambda", pattern |-> e.pattern, formals |-> e.formals,
                               at |-> e.at, defaults |-> defaults, body |-> body])
          [] e.x = "set" ->
               Compile([x |-> "defs", defs |-> Preset(e.entries), rec |-> e.rec,
                        body |-> NoExpr], scopes)
          [] e.x = "let" ->
               LET defs == Preset(e.entries)
               IN  IF defs.dynamics # <<>> THEN Wrong
                   ELSE Compile([x |-> "defs", defs |-> defs, rec |-> TRUE, body |-> e.body],
                                scopes)
          [] e.x = "defs" /\ ~e.defs.ok -> Wrong
          [] e.x = "defs" /\ e.defs.ok ->
               LET defs   == e.defs
                   names  == [i \in DOMAIN defs.statics |-> defs.statics[i].name]
                   framed == HasFrame(e.rec, defs)
                   inner  == IF ~framed THEN scopes
                             ELSE Append(scopes, Binding(IF e.rec THEN names ELSE <<>>))
                   one(def) ==
                     CASE def.is = "expr" -> Compile(def.e, inner)
                       [] def.is = "nested" ->
                            Compile([x |-> "defs", defs |-> def.defs, rec |-> FALSE,
                                     body |-> NoExpr], inner)
                       [] def.is = "inherit" -> Lookup(inner, def.name, Skip(framed))
                       [] def.is = "from" ->
                            [x |-> "select", name |-> def.name, default |-> NoExpr,
                             of |-> [x |-> "var", up |-> 0,
                                     slot |-> FromsBase(e.rec, names) + def.from]]
                   values == [i \in DOMAIN names |-> one(defs.statics[i].def)]
                   froms  == all(defs.froms, inner)
                   keys   == [i \in DOMAIN defs.dynamics |-> Compile(defs.dynamics[i].key, inner)]
                   others == [i \in DOMAIN keys |-> one(defs.dynamics[i].def)]
                   body   == Compile(e.body, inner)
               IN  Whole(values \o froms \o keys \o others \o <<body>>,
                         [x |-> "bindings", framed |-> framed, rec |-> e.rec, names |-> names,
                          slots |-> IF e.rec THEN values \o froms ELSE froms,
                          values |-> values, keys |-> keys, others |-> others, body |-> body])

-----------------------------------------------------------------------------
(* What compiled code means: frames and slots, as the machine has them.    *)

Num(n) == [v |-> "int", n |-> n]
Fails == [v |-> "fails"]
Endless == [v |-> "endless"]
Callable(f) == f.v \in {"function", "builtin"}
OrFails(r) == IF r.v = "endless" THEN r ELSE Fails

ThunkOf(c, env) == [code |-> c, env |-> env, here |-> FALSE]
Here(c) == [code |-> c, here |-> TRUE]
NewFrame(slots) == [slots |-> slots, with |-> NoExpr]

\* A slot's thunk; one of a recursive frame has that frame innermost.
ThunkAt(env, i, slot) == IF slot.here THEN ThunkOf(slot.code, SubSeq(env, 1, i)) ELSE slot

\* The arguments of a function: an attribute, or its default among the others.
Arguments(code, attrs, arg, default(_)) ==
    IF ~code.pattern THEN <<arg>>
    ELSE [i \in DOMAIN code.formals |->
            IF code.formals[i].name \in DOMAIN attrs THEN attrs[code.formals[i].name]
            ELSE Here(default(i))]
         \o (IF code.at = "" THEN <<>> ELSE <<arg>>)
Lacks(code, attrs) ==
    \E i \in DOMAIN code.formals :
        code.formals[i].default = NoExpr /\ code.formals[i].name \notin DOMAIN attrs

\* A builtin takes two integers.
CallGlobal(name, a, b) ==
    IF a.v # "int" THEN OrFails(a) ELSE IF b.v # "int" THEN OrFails(b)
    ELSE IF name = "__sub" THEN Num(a.n - b.n) ELSE Num(IF a.n < b.n THEN 1 ELSE 0)

\* The attributes that are named when the set is made.
WithDynamics(statics, keys, thunks) ==
    IF \E i \in DOMAIN keys : keys[i].v # "str" \/ keys[i].s \in DOMAIN statics THEN Fails
    ELSE [v |-> "set",
          attrs |-> statics @@ [n \in {keys[i].s : i \in DOMAIN keys} |->
                                  thunks[CHOOSE i \in DOMAIN keys : keys[i].s = n]]]

RECURSIVE RunCode(_, _, _)
RunCode(c, env, fuel) ==
    LET do(t) == RunCode(t.code, t.env, fuel - 1)
    IN  IF fuel = 0 THEN Endless
        ELSE CASE c.x = "int" -> Num(c.n)
          [] c.x = "str" -> [v |-> "str", s |-> c.s]
          [] c.x = "global" -> [v |-> "builtin", name |-> c.name]
          [] c.x = "lambda" -> [v |-> "function", code |-> c, env |-> env]
          [] c.x = "var" ->
               do(ThunkAt(env, Len(env) - c.up, env[Len(env) - c.up].slots[c.slot]))
          [] c.x = "withVar" ->
               IF c.withs = <<>> THEN Fails
               ELSE LET ns == do(env[Len(env) - Head(c.withs)].with)
                    IN  IF ns.v # "set" THEN OrFails(ns)
                        ELSE IF c.name \in DOMAIN ns.attrs THEN do(ns.attrs[c.name])
                        ELSE RunCode([c EXCEPT !.withs = Tail(@)], env, fuel - 1)
          [] c.x = "select" ->
               LET of == RunCode(c.of, env, fuel - 1)
               IN  IF of.v = "set" /\ c.name \in DOMAIN of.attrs THEN do(of.attrs[c.name])
                   ELSE IF c.default # NoExpr /\ of.v \notin {"fails", "endless"}
                   THEN RunCode(c.default, env, fuel - 1) ELSE OrFails(of)
          [] c.x = "with" ->
               RunCode(c.body, Append(env, [slots |-> <<>>, with |-> ThunkOf(c.namespace, env)]), fuel - 1)
          [] c.x = "app" ->
               LET f == RunCode(c.fn, env, fuel - 1)
               IN  IF ~Callable(f) THEN OrFails(f)
                   ELSE RunCode([x |-> "call", f |-> f,
                             args |-> [i \in DOMAIN c.args |-> ThunkOf(c.args[i], env)]], env, fuel - 1)
          [] c.x = "call" /\ c.f.v = "builtin" -> CallGlobal(c.f.name, do(c.args[1]), do(c.args[2]))
          [] c.x = "call" /\ c.f.v = "function" ->
               LET code  == c.f.code
                   arg   == Head(c.args)
                   set   == IF code.pattern THEN do(arg) ELSE [v |-> "set", attrs |-> <<>>]
                   slots == Arguments(code, set.attrs, arg, LAMBDA i : code.defaults[i])
                   r     == RunCode(code.body, Append(c.f.env, NewFrame(slots)), fuel - 1)
               IN  IF set.v # "set" THEN OrFails(set)
                   ELSE IF code.pattern /\ Lacks(code, set.attrs) THEN Fails
                   ELSE IF Len(c.args) = 1 THEN r
                   ELSE IF ~Callable(r) THEN OrFails(r)
                   ELSE RunCode([c EXCEPT !.f = r, !.args = Tail(@)], env, fuel - 1)
          [] c.x = "bindings" ->
               LET inner == IF c.framed
                            THEN Append(env, NewFrame([i \in DOMAIN c.slots |-> Here(c.slots[i])]))
                            ELSE env
                   named == [n \in Range(c.names) |->
                               ThunkOf(c.values[CHOOSE i \in DOMAIN c.names : c.names[i] = n], inner)]
               IN  IF c.body # NoExpr THEN RunCode(c.body, inner, fuel - 1)
                   ELSE WithDynamics(named,
                          [i \in DOMAIN c.keys |-> RunCode(c.keys[i], inner, fuel - 1)],
                          [i \in DOMAIN c.keys |-> ThunkOf(c.others[i], inner)])

-----------------------------------------------------------------------------
(* What source means: every name is looked for where it is written.        *)

Heads(entries) ==
    UNION {IF entries[i].names # <<>> THEN Range(entries[i].names)
           ELSE IF entries[i].path[1].name = "" THEN {} ELSE {entries[i].path[1].name}
           : i \in DOMAIN entries}

\* The definitions of a name, and of each key that is not one.
DefsOf(name, entries) ==
    SelectSeq(entries, LAMBDA d : IF d.names # <<>> THEN name \in Range(d.names)
                                  ELSE d.path[1].name = name)
Unnamed(entries) == SelectSeq(entries, LAMBDA d : d.names = <<>> /\ d.path[1].name = "")

SetOf(entries) == [x |-> "set", rec |-> FALSE, entries |-> entries]

PlainSet(e) == e.x = "set" /\ ~e.rec

\* What is said of the inside of what an entry defines.
Inside(d) == IF Len(d.path) > 1 THEN <<[d EXCEPT !.path = Tail(@)]>>
             ELSE IF PlainSet(d.value) THEN d.value.entries ELSE <<>>

\* One expression for all the definitions of a name.
Defined(name, entries, framed) ==
    LET ds == DefsOf(name, entries)
    IN  IF ds[1].names # <<>> /\ ds[1].from = NoExpr
        THEN [x |-> IF framed THEN "outer" ELSE "id", name |-> name]
        ELSE IF ds[1].names # <<>>
        THEN [x |-> "select", of |-> ds[1].from, name |-> name, default |-> NoExpr]
        ELSE IF Len(ds) = 1 /\ Len(ds[1].path) = 1 THEN ds[1].value
        ELSE SetOf(FlattenSeq([i \in DOMAIN ds |-> Inside(ds[i])]))

BoundNames(scope) == DOMAIN scope.binds

RECURSIVE Means(_, _, _)
Means(e, env, fuel) ==
    LET do(t) == Means(t.code, t.env, fuel - 1)
    IN  IF fuel = 0 THEN Endless
        ELSE CASE e.x = "int" -> Num(e.n)
          [] e.x = "str" -> [v |-> "str", s |-> e.s]
          [] e.x = "lambda" -> [v |-> "function", code |-> e, env |-> env]
          [] e.x = "outer" -> Means(Id(e.name), Front(env), fuel - 1)
          [] e.x = "id" ->
               LET at == {i \in DOMAIN env : e.name \in BoundNames(env[i])}
                   i  == CHOOSE m \in at : \A n \in at : n <= m
               IN  IF at # {} THEN do(ThunkAt(env, i, env[i].binds[e.name]))
                   ELSE IF e.name \in Globals THEN [v |-> "builtin", name |-> e.name]
                   ELSE Means([x |-> "among", name |-> e.name, env |-> env], env, fuel - 1)
          [] e.x = "among" ->
               IF env = <<>> THEN Fails
               ELSE IF Last(env).with = NoExpr THEN Means(e, Front(env), fuel - 1)
               ELSE LET ns == do(Last(env).with)
                    IN  IF ns.v # "set" THEN OrFails(ns)
                        ELSE IF e.name \in DOMAIN ns.attrs THEN do(ns.attrs[e.name])
                        ELSE Means(e, Front(env), fuel - 1)
          [] e.x = "select" ->
               LET of == Means(e.of, env, fuel - 1)
               IN  IF of.v = "set" /\ e.name \in DOMAIN of.attrs THEN do(of.attrs[e.name])
                   ELSE IF e.default # NoExpr /\ of.v \notin {"fails", "endless"}
                   THEN Means(e.default, env, fuel - 1) ELSE OrFails(of)
          [] e.x = "with" ->
               Means(e.body, Append(env, [binds |-> <<>>, with |-> ThunkOf(e.namespace, env)]), fuel - 1)
          [] e.x \in {"sub", "more"} -> Means(Called(e), env, fuel - 1)
          [] e.x = "app" ->
               LET f == Means(e.fn, env, fuel - 1)
               IN  IF ~Callable(f) THEN OrFails(f)
                   ELSE Means([x |-> "call", f |-> f,
                               args |-> [i \in DOMAIN e.args |-> ThunkOf(e.args[i], env)]], env, fuel - 1)
          [] e.x = "call" /\ e.f.v = "builtin" -> CallGlobal(e.f.name, do(e.args[1]), do(e.args[2]))
          [] e.x = "call" /\ e.f.v = "function" ->
               LET code  == e.f.code
                   arg   == Head(e.args)
                   set   == IF code.pattern THEN do(arg) ELSE [v |-> "set", attrs |-> <<>>]
                   given == Arguments(code, set.attrs, arg, LAMBDA i : code.formals[i].default)
                   binds == [n \in Range(FormalNames(code)) |->
                               given[CHOOSE i \in DOMAIN given : FormalNames(code)[i] = n]]
                   r     == Means(code.body, Append(e.f.env, [binds |-> binds, with |-> NoExpr]),
                                  fuel - 1)
               IN  IF set.v # "set" THEN OrFails(set)
                   ELSE IF code.pattern /\ Lacks(code, set.attrs) THEN Fails
                   ELSE IF Len(e.args) = 1 THEN r
                   ELSE IF ~Callable(r) THEN OrFails(r)
                   ELSE Means([e EXCEPT !.f = r, !.args = Tail(@)], env, fuel - 1)
          [] e.x \in {"set", "let"} ->
               LET framed == e.x = "let" \/ e.rec
                   def(n) == Defined(n, e.entries, framed)
                   inner == IF ~framed THEN env
                            ELSE Append(env, [binds |-> [n \in Heads(e.entries) |-> Here(def(n))],
                                              with |-> NoExpr])
                   others == Unnamed(e.entries)
               IN  IF e.x = "let" THEN Means(e.body, inner, fuel - 1)
                   ELSE WithDynamics([n \in Heads(e.entries) |-> ThunkOf(def(n), inner)],
                          [i \in DOMAIN others |-> Means(others[i].path[1].e, inner, fuel - 1)],
                          [i \in DOMAIN others |->
                             ThunkOf(IF Len(others[i].path) = 1 THEN others[i].value
                                  ELSE SetOf(Inside(others[i])), inner)])

\* Whether an expression may be compiled at all: every name is bound, global
\* or perhaps in a `with', no two arguments have one name, what is defined
\* more than once is made of paths and plain sets, and a `let' has only names.
RECURSIVE Sound(_, _, _)
Sound(e, names, with) ==
    CASE e.x \in {"int", "str", "nothing"} -> TRUE
      [] e.x = "id" -> with \/ e.name \in names \cup Globals
      [] e.x \in {"sub", "more"} -> Sound(Called(e), names, with)
      [] e.x = "app" -> Sound(e.fn, names, with) /\ \A i \in DOMAIN e.args : Sound(e.args[i], names, with)
      [] e.x = "select" -> Sound(e.of, names, with) /\ Sound(e.default, names, with)
      [] e.x = "with" -> Sound(e.namespace, names, with) /\ Sound(e.body, names, TRUE)
      [] e.x = "lambda" ->
           LET inner == names \cup Range(FormalNames(e))
           IN  /\ IsInjective(FormalNames(e))
               /\ \A i \in DOMAIN e.formals : Sound(e.formals[i].default, inner, with)
               /\ Sound(e.body, inner, with)
      [] e.x \in {"set", "let"} ->
           LET framed == e.x = "let" \/ e.rec
               inner  == IF framed THEN names \cup Heads(e.entries) ELSE names
               others == Unnamed(e.entries)
           IN  /\ \A n \in Heads(e.entries) :
                    LET ds == DefsOf(n, e.entries)
                    IN  /\ Len(ds) > 1 =>
                             \A i \in DOMAIN ds : /\ ds[i].names = <<>>
                                                  /\ Len(ds[i].path) > 1 \/ PlainSet(ds[i].value)
                        /\ Len(SelectSeq(ds[1].names, LAMBDA m : m = n)) < 2
                        /\ IF ds[1].names # <<>> /\ ds[1].from = NoExpr
                           THEN Sound(Id(n), names, with)
                           ELSE Sound(Defined(n, e.entries, FALSE), inner, with)
               /\ \A i \in DOMAIN others :
                    /\ Sound(others[i].path[1].e, inner, with)
                    /\ IF Len(others[i].path) = 1 THEN Sound(others[i].value, inner, with)
                       ELSE Sound(SetOf(Inside(others[i])), inner, with)
               /\ e.x = "let" => others = <<>> /\ Sound(e.body, inner, with)

-----------------------------------------------------------------------------

ScopingInit == program \in Programs /\ stage = "source" /\ compiled = NoExpr /\ outcome = NoExpr

Compiles ==
    /\ stage = "source"
    /\ compiled' = Compile(program, <<>>)
    /\ stage' = IF compiled'.x = "wrong" THEN "refused" ELSE "compiled"
    /\ UNCHANGED <<program, outcome>>

Flat(r) == IF r.v = "int" THEN <<"int", r.n>> ELSE IF r.v = "str" THEN <<"str", r.s>> ELSE <<r.v>>

\* A value as --json would show it, to the depth of two sets.
Within(r, attr(_)) == IF r.v = "set" THEN [n \in DOMAIN r.attrs |-> Flat(attr(r.attrs[n]))] ELSE Flat(r)
Json(r, attr(_)) ==
    IF r.v = "set" THEN [n \in DOMAIN r.attrs |-> Within(attr(r.attrs[n]), attr)] ELSE Flat(r)

Evaluates ==
    /\ stage = "compiled"
    /\ stage' = "evaluated"
    /\ outcome' = Json(RunCode(compiled, <<>>, Fuel), LAMBDA t : RunCode(t.code, t.env, Fuel))
    /\ UNCHANGED <<program, compiled>>

ScopingNext == Compiles \/ Evaluates

\* However bindings nest, shadow and inherit from one another, and wherever
\* their definitions are spread, the slots the compiler counted out hold what
\* the names mean where they are written (compile.rs:707-741, 1161-1381).
CompiledMeansTheSame ==
    stage = "evaluated" =>
        outcome = Json(Means(program, <<>>, Fuel), LAMBDA t : Means(t.code, t.env, Fuel))

\* An expression is refused for a name nothing can bind, for an argument or
\* an attribute that is defined twice, and for nothing else, whether or not
\* it would be evaluated.
RefusedJustWhenWrong ==
    stage # "source" => ((stage = "refused") <=> ~Sound(program, {}, FALSE))

\* The compiler refuses the programs that have no meaning and keeps the meaning
\* of the others.
ScopingInv == CompiledMeansTheSame /\ RefusedJustWhenWrong
=============================================================================
