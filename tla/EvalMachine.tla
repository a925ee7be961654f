---------------------------- MODULE EvalMachine ----------------------------
(***************************************************************************)
(* ogygia-nix-eval's evaluation loop: expressions, thunks and calls as     *)
(* steps over a stack of frames on the heap, native code (builtins, and    *)
(* walks over values) that starts loops of its own, errors that unwind     *)
(* both, and the driver that looks for an installable's attribute in a     *)
(* flake's outputs.                                                        *)
(*                                                                         *)
(* An expression is a record whose "x" is its kind, a value one whose "t"  *)
(* is its type, a frame one whose "f" is what waits.  Strings have no      *)
(* context, numbers are integers and files are named, not read.            *)
(***************************************************************************)
EXTENDS Integers, Sequences, FiniteSets, SequencesExt, TLC

CONSTANTS
  Sessions,      \* [outputs, paths]: a flake's outputs function and the
                 \* attribute paths an installable stands for, in order
  Files,         \* by path: the expression of a file
  MaxCallDepth

ASSUME CallDepthAssumption == MaxCallDepth \in Nat

VARIABLES
  session,
  candidates,    \* attribute paths still to try
  walked,        \* what is left of the one being followed
  step,
  loops,         \* loops on the native stack: frames, native code run by the
                 \* innermost step, and the depth they started at
  thunks,        \* the state of every thunk
  envs,          \* every environment: what it is in, and its slots
  made,          \* sets, lists and functions allocated
  imported,      \* import_cache: thunks by path
  depth

heap == <<thunks, envs, made, imported>>
machineVars == <<session, candidates, walked, step, loops, heap, depth>>

Null == [t |-> "null"]
Bool(b) == [t |-> "bool", b |-> b]
Str(s) == [t |-> "str", s |-> s]
Thunk(id) == [t |-> "thunk", id |-> id]
Set(id, attrs) == [t |-> "set", id |-> id, attrs |-> attrs]
List(id, items) == [t |-> "list", id |-> id, items |-> items]
PrimOp(op) == [t |-> "primop", op |-> op]
Blackhole == [k |-> "blackhole"]

\* Identities given out once: the empty set and list, and the root scope.
Empty == 0
Root == 1

Names(set) == DOMAIN set.attrs
IsSet(v) == v.t = "set"

Eval(e, env) == [s |-> "eval", e |-> e, env |-> env]
ForceOf(v) == [s |-> "force", v |-> v]
Call(fn, arg) == [s |-> "call", fn |-> fn, arg |-> arg]
Return(v) == [s |-> "return", v |-> v]
Throw(kind) == [s |-> "throw", kind |-> kind]
Want(v) == [s |-> "want", v |-> v]     \* native code forces a value
Got(v) == [s |-> "got", v |-> v]       \* and goes on with it
Invoke(fn, arg) == [s |-> "invoke", fn |-> fn, arg |-> arg]

Inner == loops[Len(loops)]
Frames == Inner.frames
Natives == Inner.natives

\* The innermost loop goes on with `s`, its frames being `fs`.
Go(fs, s) ==
  /\ loops' = [loops EXCEPT ![Len(loops)].frames = fs, ![Len(loops)].natives = <<>>]
  /\ step' = s

\* Native code goes on with `s`, the frames being `fs`.
GoNative(fs, ns, s) ==
  /\ loops' = [loops EXCEPT ![Len(loops)].frames = fs, ![Len(loops)].natives = ns]
  /\ step' = s

Whnf(v) == v.t = "thunk" => thunks[v.id].k = "done"
Forced(v) == IF v.t = "thunk" THEN thunks[v.id].v ELSE v

\* The environment `n` scopes around `env`.
Up(table, env, n) ==
  LET around[k \in 0..n] == IF k = 0 THEN env ELSE table[around[k - 1]].up IN around[n]

SlotOf(table, env, e) == table[Up(table, env, e.up)].slots[e.slot]

-----------------------------------------------------------------------------
(* Values without evaluation: lazy, lazy_slot, new_frame.                  *)

Const(e) ==
  CASE e.x = "null" -> Null
    [] e.x = "bool" -> Bool(e.b)
    [] e.x = "int" -> [t |-> "int", n |-> e.n]
    [] e.x = "str" -> Str(e.s)
    [] e.x = "path" -> [t |-> "path", p |-> e.p]
    [] e.x = "global" -> PrimOp(e.op)

Constants == {"null", "bool", "int", "str", "path", "global"}

\* A frame's own variables read before they are filled in.
SuspendsInAnyFrame(e, own) == e.x \notin Constants \cup {"var", "lambda"}

\* What has to wait: anything but a constant, a variable or a function, and
\* where slots are still being filled in (`own`) a variable of the same frame.
Suspends(e, own) ==
  \/ e.x \notin Constants \cup {"var", "lambda"}
  \/ own /\ e.x = "var" /\ e.up = 0

\* The values of `es` in `env`, which is in `table`, when `n` thunks and `id`
\* objects exist before them.
Lazies(es, env, own, table, n, id) ==
  LET later == {i \in DOMAIN es : Suspends(es[i], own)} IN
    [i \in DOMAIN es |->
       CASE i \in later -> Thunk(n + Cardinality({j \in later : j <= i}))
         [] es[i].x = "var" /\ i \notin later -> SlotOf(table, env, es[i])
         [] es[i].x = "lambda" -> [t |-> "lambda", id |-> id + i, def |-> es[i], env |-> env]
         [] OTHER -> Const(es[i])]

\* The thunks of those that wait, of which the first is number n + 1.
LaterThunks(es, env, own, n) ==
  LET later == SelectSeq(es, LAMBDA e : Suspends(e, own)) IN
    [id \in {n + k : k \in DOMAIN later} |-> [k |-> "expr", e |-> later[id - n], env |-> env]]

Lazy(e, env) == Lazies(<<e>>, env, FALSE, envs, Len(thunks), made)[1]

\* Thunks that exist and new ones.
Beside(old, new) ==
  [id \in DOMAIN old \cup DOMAIN new |-> IF id \in DOMAIN old THEN old[id] ELSE new[id]]

AllocLazy(e, env) ==
  /\ thunks' = Beside(thunks, LaterThunks(<<e>>, env, FALSE, Len(thunks)))
  /\ made' = made + 1
  /\ UNCHANGED <<envs, imported>>

Blank(n, env) == [up |-> env, slots |-> [i \in 1..n |-> Null]]

\* new_frame: a frame of `inits`, which may name one another.
Frame(inits, env) ==
  [up |-> env,
   slots |-> Lazies(inits, Len(envs) + 1, TRUE, Append(envs, Blank(Len(inits), env)), Len(thunks), made)]

FrameThunks(inits) == LaterThunks(inits, Len(envs) + 1, TRUE, Len(thunks))

-----------------------------------------------------------------------------
(* force_step and the walks along names, from frames `fs`.                 *)

Full == depth > MaxCallDepth

ForceStep(fs, v) ==
  \/ /\ Whnf(v)
     /\ Go(fs, Return(Forced(v)))
     /\ UNCHANGED <<heap, depth>>
  \/ /\ v.t = "thunk" /\ thunks[v.id] = Blackhole
     /\ Go(fs, Throw("recursion"))
     /\ UNCHANGED <<heap, depth>>
  \/ /\ v.t = "thunk" /\ v.id \in DOMAIN thunks /\ thunks[v.id].k \in {"expr", "app", "native"}
     /\ LET was == thunks[v.id]
            waiting == Append(fs, [f |-> "thunk", id |-> v.id, was |-> was])
        IN /\ thunks' = [thunks EXCEPT ![v.id] = Blackhole]
           /\ \/ was.k = "expr" /\ Go(waiting, Eval(was.e, was.env)) /\ UNCHANGED depth
              \/ was.k = "app" /\ Go(waiting, Call(was.fn, was.arg)) /\ UNCHANGED depth
              \/ was.k = "native" /\ Full /\ Go(waiting, Throw("overflow")) /\ UNCHANGED depth
              \/ /\ was.k = "native" /\ ~Full
                 /\ GoNative(Append(waiting, [f |-> "leave", depth |-> depth]),
                             <<[n |-> "result"]>> \o was.after, Want(was.first))
                 /\ depth' = depth + 1
     /\ UNCHANGED <<envs, made, imported>>

\* with_var: the namespaces from the innermost; `ns` is the i-th if forced.
LookUp(fs, w, i, ns) ==
  LET Namespace(j) == IF j = i /\ ns # <<>> THEN ns[1] ELSE envs[Up(envs, w.env, w.withs[j])].slots[1]
      Lacks(v) == Whnf(v) /\ IsSet(Forced(v)) /\ w.name \notin Names(Forced(v))
      left == {j \in i..Len(w.withs) : ~Lacks(Namespace(j))}
      v == Namespace(Min(left))
  IN CASE left = {} -> <<fs, Throw("eval")>>
       [] left # {} /\ ~Whnf(v) -> <<Append(fs, [f |-> "with", w |-> w, i |-> Min(left)]), ForceOf(v)>>
       [] left # {} /\ Whnf(v) /\ ~IsSet(Forced(v)) -> <<fs, Throw("type")>>
       [] OTHER -> <<fs, ForceOf(Forced(v).attrs[w.name])>>

\* Where a walk along `path` stops, which goes on from `v` with the i-th name, `name`
\* if that has been evaluated: the names up to there are written out, and the values
\* on the way are sets that have them.
Along(path, i, v, name) ==
  LET NameAt(k) == IF k = i /\ name # <<>> THEN name
                   ELSE IF path[k].x = "name" THEN <<path[k].name>> ELSE <<>>
      Goes(at, k) ==
        IF at.i = k /\ NameAt(k) # <<>> /\ Whnf(at.v) /\ IsSet(Forced(at.v)) /\ NameAt(k)[1] \in Names(Forced(at.v))
        THEN [i |-> k + 1, v |-> Forced(at.v).attrs[NameAt(k)[1]]] ELSE at
      stop == FoldLeftDomain(Goes, [i |-> i, v |-> v], path)
  IN [i |-> stop.i, v |-> stop.v, ends |-> stop.i > Len(path),
      name |-> IF stop.i > Len(path) THEN <<>> ELSE NameAt(stop.i)]

\* select: each name is evaluated before the value it is selected from.
Select(fs, sel, i, v, name) ==
  LET to == Along(sel.path, i, v, name) IN
    IF to.ends THEN <<fs, ForceOf(to.v)>>
    ELSE IF to.name = <<>>
    THEN <<Append(fs, [f |-> "selectName", sel |-> sel, i |-> to.i, set |-> to.v]), Eval(sel.path[to.i], sel.env)>>
    ELSE IF ~Whnf(to.v)
    THEN <<Append(fs, [f |-> "selectSet", sel |-> sel, i |-> to.i, name |-> to.name[1]]), ForceOf(to.v)>>
    ELSE IF sel.default.x # "none" THEN <<fs, Eval(sel.default, sel.env)>>
    ELSE <<fs, Throw(IF IsSet(Forced(to.v)) THEN "eval" ELSE "type")>>

\* has_attr: each set is forced before the name looked up in it.
Has(fs, has, i, v, name) ==
  LET to == Along(has.path, i, v, name) IN
    IF to.ends THEN <<fs, Return(Bool(TRUE))>>
    ELSE IF ~Whnf(to.v) THEN <<Append(fs, [f |-> "hasSet", has |-> has, i |-> to.i]), ForceOf(to.v)>>
    ELSE IF to.name = <<>>
    THEN <<Append(fs, [f |-> "hasName", has |-> has, i |-> to.i, set |-> Forced(to.v)]), Eval(has.path[to.i], has.env)>>
    ELSE <<fs, Return(Bool(FALSE))>>

\* dynamic_attrs and interp: the part at `d.i`, or what they build.
Dynamic(fs, d) ==
  IF d.i <= Len(d.def.dynamics)
  THEN <<Append(fs, d), Eval(d.def.dynamics[d.i].name, d.env)>>
  ELSE <<fs, Return(Set(d.id, d.entries))>>

Interp(fs, p) ==
  IF p.i <= Len(p.parts)
  THEN <<Append(fs, p), Eval(p.parts[p.i], p.env)>>
  ELSE <<fs, Return(Str(p.acc))>>

Becomes(next) == Go(next[1], next[2])

-----------------------------------------------------------------------------
(* eval_step.                                                              *)

Evaluating(kinds) == step.s = "eval" /\ step.e.x \in kinds

EvalPlain ==
  /\ Evaluating(Constants)
  /\ Go(Frames, Return(Const(step.e)))
  /\ UNCHANGED <<heap, depth>>

EvalVar == Evaluating({"var"}) /\ ForceStep(Frames, SlotOf(envs, step.env, step.e))

EvalWithVar ==
  /\ Evaluating({"withVar"})
  /\ Becomes(LookUp(Frames, [name |-> step.e.name, withs |-> step.e.withs, env |-> step.env], 1, <<>>))
  /\ UNCHANGED <<heap, depth>>

EvalLambda ==
  /\ Evaluating({"lambda"})
  /\ Go(Frames, Return([t |-> "lambda", id |-> made + 1, def |-> step.e, env |-> step.env]))
  /\ made' = made + 1
  /\ UNCHANGED <<thunks, envs, imported, depth>>

EvalList ==
  /\ Evaluating({"list"})
  /\ LET items == step.e.items
         id == IF items = <<>> THEN Empty ELSE made + Len(items) + 1
     IN /\ Go(Frames, Return(List(id, Lazies(items, step.env, FALSE, envs, Len(thunks), made))))
        /\ thunks' = Beside(thunks, LaterThunks(items, step.env, FALSE, Len(thunks)))
        /\ made' = made + Len(items) + 1
  /\ UNCHANGED <<envs, imported, depth>>

\* eval_attrs: the frame of a recursive set first, whose slots its attributes
\* are; others are expressions of the enclosing scope.
EvalAttrs ==
  /\ Evaluating({"attrs"})
  /\ LET def == step.e
         inits == def.frame
         env == IF def.rec THEN Len(envs) + 1 ELSE step.env
         table == IF def.rec THEN Append(envs, Frame(inits, step.env)) ELSE envs
         first == IF def.rec THEN FrameThunks(inits) ELSE << >>
         own == [i \in DOMAIN def.statics |-> def.statics[i].value]
         id == made + Len(inits)
         number == Len(thunks) + Cardinality(DOMAIN first)
         vals == Lazies(own, env, FALSE, table, number, id)
         names == {def.statics[i].name : i \in DOMAIN own}
         entries == [a \in names |-> vals[CHOOSE i \in DOMAIN own : def.statics[i].name = a]]
         self == IF names = {} /\ def.dynamics = <<>> THEN Empty ELSE id + Len(own) + 1
     IN /\ envs' = table
        /\ thunks' = Beside(Beside(thunks, first), LaterThunks(own, env, FALSE, number))
        /\ made' = id + Len(own) + 1
        /\ Becomes(Dynamic(Frames, [f |-> "dynamic", def |-> def, env |-> env, id |-> self,
                                    entries |-> entries, i |-> 1]))
  /\ UNCHANGED <<imported, depth>>

\* An operand, a condition, a function or a part first; the rest waits.
EvalFirst ==
  /\ Evaluating({"select", "apply", "if", "assert", "not", "bin", "interp"})
  /\ LET e == step.e
         env == step.env
         Waits(frame, first) == Go(Append(Frames, frame), Eval(first, env))
     IN \/ e.x = "select" /\ Waits([f |-> "selectBase", sel |-> [path |-> e.path, default |-> e.default, env |-> env]], e.of)
        \/ e.x = "apply" /\ Waits([f |-> "apply", args |-> e.args, env |-> env], e.fn)
        \/ e.x = "if" /\ Waits([f |-> "if", then |-> e.then, else |-> e.else, env |-> env], e.cond)
        \/ e.x = "assert" /\ Waits([f |-> "assert", body |-> e.body, env |-> env], e.cond)
        \/ e.x = "not" /\ Waits([f |-> "not"], e.of)
        \/ e.x = "bin" /\ e.op # "update" /\ Waits([f |-> "operand1", op |-> e.op, other |-> e.right, env |-> env], e.left)
        \/ e.x = "bin" /\ e.op = "update" /\ Waits([f |-> "operand1", op |-> e.op, other |-> e.left, env |-> env], e.right)
        \/ e.x = "interp" /\ Becomes(Interp(Frames, [f |-> "interp", parts |-> e.parts, env |-> env, i |-> 1, acc |-> ""]))
  /\ UNCHANGED <<heap, depth>>

EvalHasAttr ==
  /\ Evaluating({"hasAttr"})
  /\ LET v == Lazy(step.e.of, step.env)
         has == [path |-> step.e.path, env |-> step.env]
     IN \* A new thunk is not forced yet.
        Becomes(IF Suspends(step.e.of, FALSE)
                THEN <<Append(Frames, [f |-> "hasSet", has |-> has, i |-> 1]), ForceOf(v)>>
                ELSE Has(Frames, has, 1, v, <<>>))
  /\ AllocLazy(step.e.of, step.env)
  /\ UNCHANGED depth

EvalLet ==
  /\ Evaluating({"let"})
  /\ envs' = Append(envs, Frame(step.e.slots, step.env))
  /\ thunks' = Beside(thunks, FrameThunks(step.e.slots))
  /\ made' = made + Len(step.e.slots)
  /\ Go(Frames, Eval(step.e.body, Len(envs) + 1))
  /\ UNCHANGED <<imported, depth>>

EvalWith ==
  /\ Evaluating({"with"})
  /\ envs' = Append(envs, [up |-> step.env, slots |-> <<Lazy(step.e.namespace, step.env)>>])
  /\ thunks' = Beside(thunks, LaterThunks(<<step.e.namespace>>, step.env, FALSE, Len(thunks)))
  /\ made' = made + 1
  /\ Go(Frames, Eval(step.e.body, Len(envs) + 1))
  /\ UNCHANGED <<imported, depth>>

EvalStep ==
  \/ EvalPlain \/ EvalVar \/ EvalWithVar \/ EvalLambda \/ EvalList \/ EvalAttrs
  \/ EvalFirst \/ EvalHasAttr \/ EvalLet \/ EvalWith

ForceValue == step.s = "force" /\ ForceStep(Frames, step.v)

-----------------------------------------------------------------------------
(* Calls.                                                                  *)

Arity == [throw |-> 1, abort |-> 1, tryEval |-> 1, import |-> 1, seq |-> 2, deepSeq |-> 2, map |-> 2]

\* call_primop with all of its arguments: the native code that waits, and what
\* is forced first.
Native(op, args) ==
  CASE op = "tryEval" -> <<<<[n |-> "tryEval"]>>, Want(args[1])>>
    [] op = "seq" -> <<<<[n |-> "then", v |-> args[2]]>>, Want(args[1])>>
    [] op = "deepSeq" -> <<<<[n |-> "then", v |-> args[2]], [n |-> "deepForce", seen |-> {}]>>,
                          [s |-> "deepen", v |-> args[1]]>>
    [] op = "map" -> <<<<[n |-> "map", fn |-> args[1]]>>, Want(args[2])>>
    [] op = "import" -> <<<<[n |-> "import"]>>, Want(args[1])>>
    [] OTHER -> <<<<[n |-> "fail", kind |-> op]>>, [s |-> "coerce", v |-> args[1]]>>

\* enter_lambda and bind_pattern, `called` being the frames with the call's.
Bound(lambda, attrs) == {i \in DOMAIN lambda.def.formals : lambda.def.formals[i].name \in DOMAIN attrs}

BindPattern(called, lambda, arg, set) ==
  LET def == lambda.def
      attrs == IF IsSet(set) THEN set.attrs ELSE << >>
      bound == Bound(lambda, attrs)
      env == Len(envs) + 1
      defaults == [i \in DOMAIN def.formals |-> def.formals[i].default]
      size == Len(defaults) + (IF def.at THEN 1 ELSE 0)
      table == Append(envs, Blank(size, lambda.env))
      missing == SelectSeq([i \in DOMAIN defaults |-> i], LAMBDA i : i \notin bound)
      \* Only the defaults of the formals that are not bound are lazy.
      vals == Lazies([k \in DOMAIN missing |-> defaults[missing[k]]], env, TRUE, table, Len(thunks), made)
  IN \/ /\ \/ ~IsSet(set)
           \/ \E k \in DOMAIN missing : defaults[missing[k]].x = "none"
           \/ ~def.ellipsis /\ Cardinality(bound) # Cardinality(DOMAIN attrs)
        /\ Go(called, Throw("type"))
        /\ UNCHANGED heap
     \/ /\ IsSet(set)
        /\ \A k \in DOMAIN missing : defaults[missing[k]].x # "none"
        /\ def.ellipsis \/ Cardinality(bound) = Cardinality(DOMAIN attrs)
        /\ envs' = Append(envs,
             [up |-> lambda.env,
              slots |-> [i \in 1..size |->
                 CASE i \in bound -> attrs[def.formals[i].name]
                   [] i > Len(defaults) -> arg
                   [] OTHER -> vals[CHOOSE k \in DOMAIN missing : missing[k] = i]]])
        /\ thunks' = Beside(thunks, LaterThunks([k \in DOMAIN missing |-> defaults[missing[k]]],
                                                env, TRUE, Len(thunks)))
        /\ made' = made + Len(missing)
        /\ Go(called, Eval(def.body, env))
        /\ UNCHANGED imported

\* apply: one call deeper.
Apply(fs, fn, arg) ==
  LET called == Append(fs, [f |-> "leave", depth |-> depth]) IN
    \/ Full /\ Go(fs, Throw("overflow")) /\ UNCHANGED <<heap, depth>>
    \/ /\ ~Full /\ depth' = depth + 1
       /\ \/ /\ fn.t = "lambda" /\ fn.def.param = "ident"
             /\ envs' = Append(envs, [up |-> fn.env, slots |-> <<arg>>])
             /\ Go(called, Eval(fn.def.body, Len(envs) + 1))
             /\ UNCHANGED <<thunks, made, imported>>
          \/ fn.t = "lambda" /\ fn.def.param = "pattern" /\ Whnf(arg) /\ BindPattern(called, fn, arg, Forced(arg))
          \/ /\ fn.t = "lambda" /\ fn.def.param = "pattern" /\ ~Whnf(arg)
             /\ Go(Append(called, [f |-> "pattern", fn |-> fn, arg |-> arg]), ForceOf(arg))
             /\ UNCHANGED heap
          \/ /\ fn.t \in {"primop", "papp"}
             /\ LET args == IF fn.t = "papp" THEN Append(fn.args, arg) ELSE <<arg>> IN
                  \/ /\ Len(args) < Arity[fn.op]
                     /\ Go(called, Return([t |-> "papp", id |-> made + 1, op |-> fn.op, args |-> args]))
                     /\ made' = made + 1
                     /\ UNCHANGED <<thunks, envs, imported>>
                  \/ /\ Len(args) = Arity[fn.op]
                     /\ GoNative(called, <<[n |-> "result"]>> \o Native(fn.op, args)[1], Native(fn.op, args)[2])
                     /\ UNCHANGED heap
          \/ /\ IsSet(fn) /\ "__functor" \in Names(fn)
             /\ Go(Append(called, [f |-> "call", arg |-> arg]), Call(fn.attrs["__functor"], fn))
             /\ UNCHANGED heap
          \/ /\ fn.t \notin {"lambda", "primop", "papp"} /\ ~(IsSet(fn) /\ "__functor" \in Names(fn))
             /\ Go(called, Throw("type"))
             /\ UNCHANGED heap

CallStep ==
  /\ step.s = "call"
  /\ \/ Whnf(step.fn) /\ Apply(Frames, Forced(step.fn), step.arg)
     \/ /\ ~Whnf(step.fn)
        /\ Go(Append(Frames, [f |-> "call", arg |-> step.arg]), ForceOf(step.fn))
        /\ UNCHANGED <<heap, depth>>

-----------------------------------------------------------------------------
(* resume: the frame on top goes on with a value.                          *)

Top == Last(Frames)
Rest == Front(Frames)
Resuming(kinds) == step.s = "return" /\ Frames # <<>> /\ Top.f \in kinds

ResumeThunk ==
  /\ Resuming({"thunk"})
  /\ thunks' = [thunks EXCEPT ![Top.id] = [k |-> "done", v |-> step.v]]
  /\ Go(Rest, Return(step.v))
  /\ UNCHANGED <<envs, made, imported, depth>>

ResumeLeave ==
  /\ Resuming({"leave"})
  /\ depth' = Top.depth
  /\ Go(Rest, Return(step.v))
  /\ UNCHANGED heap

ResumeApply ==
  /\ Resuming({"apply"})
  /\ LET more == Tail(Top.args) IN
       Go(IF more = <<>> THEN Rest ELSE Append(Rest, [Top EXCEPT !.args = more]),
          Call(step.v, Lazy(Head(Top.args), Top.env)))
  /\ AllocLazy(Head(Top.args), Top.env)
  /\ UNCHANGED depth

ResumeCall == Resuming({"call"}) /\ Apply(Rest, step.v, Top.arg)

ResumePattern ==
  /\ Resuming({"pattern"})
  /\ BindPattern(Rest, Top.fn, Top.arg, step.v)
  /\ UNCHANGED depth

\* Conditions and the logical operators: a Boolean, or a type error.
ResumeBool ==
  /\ Resuming({"if", "assert", "not", "bool"})
  /\ IF step.v.t # "bool" THEN Go(Rest, Throw("type"))
     ELSE Go(Rest, CASE Top.f = "if" -> Eval(IF step.v.b THEN Top.then ELSE Top.else, Top.env)
                     [] Top.f = "assert" /\ step.v.b -> Eval(Top.body, Top.env)
                     [] Top.f = "assert" /\ ~step.v.b -> Throw("assert")
                     [] Top.f = "not" -> Return(Bool(~step.v.b))
                     [] Top.f = "bool" -> Return(step.v))
  /\ UNCHANGED <<heap, depth>>

Logical == {"and", "or", "impl"}

\* operand1: what the operand evaluated first decides, and what waits for the
\* other.
ResumeOperand1 ==
  /\ Resuming({"operand1"})
  /\ LET v == step.v
         op == Top.op
         Waits(frame) == Go(Append(Rest, frame), Eval(Top.other, Top.env))
     IN \/ op \in Logical /\ v.t # "bool" /\ Go(Rest, Throw("type"))
        \/ op = "and" /\ v = Bool(FALSE) /\ Go(Rest, Return(Bool(FALSE)))
        \/ op = "or" /\ v = Bool(TRUE) /\ Go(Rest, Return(Bool(TRUE)))
        \/ op = "impl" /\ v = Bool(FALSE) /\ Go(Rest, Return(Bool(TRUE)))
        \/ op \in Logical /\ v = Bool(op # "or") /\ Waits([f |-> "bool"])
        \/ op \in {"eq", "neq", "concat"} /\ Waits([f |-> "operand2", op |-> op, first |-> v])
        \/ op = "add" /\ v.t = "int" /\ Waits([f |-> "operand2", op |-> op, first |-> v])
        \/ op = "update" /\ IsSet(v) /\ Waits([f |-> "updateLeft", right |-> v])
        \/ op = "update" /\ ~IsSet(v) /\ Go(Rest, Throw("type"))
        \/ /\ op = "add" /\ v.t # "int"
           /\ GoNative(Rest, <<[n |-> "addStr", other |-> Top.other, env |-> Top.env]>>, [s |-> "coerce", v |-> v])
  /\ UNCHANGED <<heap, depth>>

\* operand2. A number and anything else do not add up.
ResumeOperand2 ==
  /\ Resuming({"operand2"})
  /\ LET a == Top.first
         b == step.v
     IN \/ /\ Top.op \in {"eq", "neq"}
           /\ GoNative(Rest, <<[n |-> "equal", op |-> Top.op]>>, [s |-> "equal", a |-> a, b |-> b])
           /\ UNCHANGED heap
        \/ /\ Top.op = "concat"
           /\ \/ a.t = "list" /\ b.t = "list"
                 /\ Go(Rest, Return(CASE a.items = <<>> -> b [] b.items = <<>> -> a
                                      [] OTHER -> List(made + 1, a.items \o b.items)))
                 /\ made' = made + 1
              \/ ~(a.t = "list" /\ b.t = "list") /\ Go(Rest, Throw("type")) /\ UNCHANGED made
           /\ UNCHANGED <<thunks, envs, imported>>
        \/ /\ Top.op = "add"
           /\ Go(Rest, IF b.t = "int" THEN Return([t |-> "int", n |-> a.n + b.n]) ELSE Throw("eval"))
           /\ UNCHANGED heap
  /\ UNCHANGED depth

\* The left operand of //: attributes of the right one win.
ResumeUpdate ==
  /\ Resuming({"updateLeft"})
  /\ LET a == step.v
         b == Top.right
     IN \/ ~IsSet(a) /\ Go(Rest, Throw("type")) /\ UNCHANGED made
        \/ /\ IsSet(a)
           /\ Go(Rest, Return(CASE Names(a) = {} -> b [] Names(b) = {} -> a
                                [] OTHER -> Set(made + 1, b.attrs @@ a.attrs)))
           /\ made' = made + 1
  /\ UNCHANGED <<thunks, envs, imported, depth>>

\* Strings coerce what comes.
ResumeString ==
  /\ Resuming({"addStr", "interp"})
  /\ GoNative(Rest, <<[n |-> "append", to |-> Top]>>, [s |-> "coerce", v |-> step.v])
  /\ UNCHANGED <<heap, depth>>

ResumeNames ==
  /\ Resuming({"with", "selectBase", "selectName", "selectSet", "hasSet", "hasName"})
  /\ LET v == step.v IN
       CASE Top.f = "with" -> Becomes(LookUp(Rest, Top.w, Top.i, <<v>>))
         [] Top.f = "selectBase" -> Becomes(Select(Rest, Top.sel, 1, v, <<>>))
         [] Top.f = "selectSet" -> Becomes(Select(Rest, Top.sel, Top.i, v, <<Top.name>>))
         [] Top.f = "hasSet" -> Becomes(Has(Rest, Top.has, Top.i, v, <<>>))
         [] Top.f \in {"selectName", "hasName"} /\ v.t # "str" -> Go(Rest, Throw("type"))
         [] Top.f = "selectName" /\ v.t = "str" -> Becomes(Select(Rest, Top.sel, Top.i, Top.set, <<v.s>>))
         [] Top.f = "hasName" /\ v.t = "str" -> Becomes(Has(Rest, Top.has, Top.i, Top.set, <<v.s>>))
  /\ UNCHANGED <<heap, depth>>

\* The name of a dynamic attribute: null leaves it out.
ResumeDynamic ==
  /\ Resuming({"dynamic"})
  /\ LET value == Top.def.dynamics[Top.i].value
         next == [Top EXCEPT !.i = @ + 1]
     IN \/ step.v = Null /\ Becomes(Dynamic(Rest, next)) /\ UNCHANGED heap
        \/ step.v.t \notin {"null", "str"} /\ Go(Rest, Throw("type")) /\ UNCHANGED heap
        \/ step.v.t = "str" /\ step.v.s \in DOMAIN Top.entries /\ Go(Rest, Throw("eval")) /\ UNCHANGED heap
        \/ /\ step.v.t = "str" /\ step.v.s \notin DOMAIN Top.entries
           /\ Becomes(Dynamic(Rest, [next EXCEPT !.entries = (step.v.s :> Lazy(value, Top.env)) @@ @]))
           /\ AllocLazy(value, Top.env)
  /\ UNCHANGED depth

Resume ==
  \/ ResumeThunk \/ ResumeLeave \/ ResumeApply \/ ResumeCall \/ ResumePattern
  \/ ResumeBool \/ ResumeOperand1 \/ ResumeOperand2 \/ ResumeUpdate
  \/ ResumeString \/ ResumeNames \/ ResumeDynamic

-----------------------------------------------------------------------------
(* Native code.                                                            *)

Code == Last(Natives)
Below == Front(Natives)
Running(kinds) == step.s = "got" /\ Natives # <<>> /\ Code.n \in kinds

Continue(ns, s) == GoNative(Frames, ns, s)

\* run: another loop on the native stack, unless the value is there.
RunLoop(s) == loops' = Append(loops, [frames |-> <<>>, natives |-> <<>>, base |-> depth]) /\ step' = s

NativeWants ==
  /\ step.s = "want"
  /\ \/ Whnf(step.v) /\ step' = Got(Forced(step.v)) /\ UNCHANGED loops
     \/ ~Whnf(step.v) /\ RunLoop(ForceOf(step.v))
  /\ UNCHANGED <<heap, depth>>

NativeCalls == step.s = "invoke" /\ RunLoop(Call(step.fn, step.arg)) /\ UNCHANGED <<heap, depth>>

LoopEnds ==
  /\ step.s = "return" /\ Frames = <<>> /\ Len(loops) > 1
  /\ loops' = Front(loops)
  /\ step' = Got(step.v)
  /\ UNCHANGED <<heap, depth>>

\* deeper: one level of a walk over a value, which counts like a call.
Deepens ==
  /\ step.s \in {"deepen", "coerce", "equal", "elem"}
  /\ \/ Full /\ Continue(Natives, Throw("overflow")) /\ UNCHANGED depth
     \/ /\ ~Full /\ depth' = depth + 1
        /\ LET level == Append(Natives, [n |-> "deeper", depth |-> depth]) IN
             CASE step.s = "deepen" -> Continue(Append(level, [n |-> "deep"]), Want(step.v))
               [] step.s = "coerce" -> Continue(Append(level, [n |-> "coerce"]), Want(step.v))
               [] step.s \in {"equal", "elem"} ->
                    Continue(Append(level, [n |-> "left", a |-> step.a, b |-> step.b, elem |-> step.s = "elem"]),
                             Want(step.a))
  /\ UNCHANGED heap

NativeLeaves ==
  /\ Running({"deeper"})
  /\ depth' = Code.depth
  /\ Continue(Below, step)
  /\ UNCHANGED heap

\* What the loop does with the result of native code.
NativeEnds ==
  /\ Running({"result", "equal", "addStr", "append"})
  /\ LET v == step.v IN
       \/ Code.n = "result" /\ Go(Frames, ForceOf(v))
       \/ Code.n = "equal" /\ Go(Frames, Return(Bool(v.b = (Code.op = "eq"))))
       \/ Code.n = "addStr" /\ Go(Append(Frames, [f |-> "addStr", left |-> v.s]), Eval(Code.other, Code.env))
       \/ Code.n = "append" /\ Code.to.f = "addStr" /\ Go(Frames, Return(Str(Code.to.left \o v.s)))
       \/ /\ Code.n = "append" /\ Code.to.f = "interp"
          /\ Becomes(Interp(Frames, [Code.to EXCEPT !.i = @ + 1, !.acc = @ \o v.s]))
  /\ UNCHANGED <<heap, depth>>

Tried(success, v) == Set(made + 1, "success" :> Bool(success) @@ "value" :> v)

\* try_eval, seq, deep_seq, throw, abort, map and import.
Builtin ==
  /\ Running({"tryEval", "then", "fail", "map", "mapped", "import"})
  /\ LET v == step.v IN
       \/ /\ Code.n = "tryEval" /\ Continue(Below, Got(Tried(TRUE, v)))
          /\ made' = made + 1 /\ UNCHANGED <<thunks, envs, imported>>
       \/ Code.n = "then" /\ Continue(Below, Want(Code.v)) /\ UNCHANGED heap
       \/ Code.n = "fail" /\ Continue(Below, Throw(Code.kind)) /\ UNCHANGED heap
       \/ /\ Code.n = "map"
          /\ Continue(IF v.t = "list" /\ v.items # <<>> THEN Append(Below, [n |-> "mapped", list |-> v]) ELSE Below,
                      IF v.t # "list" THEN Throw("type") ELSE IF v.items = <<>> THEN Got(v) ELSE Want(Code.fn))
          /\ UNCHANGED heap
       \/ /\ Code.n = "mapped"
          /\ LET items == Code.list.items
                 function == v.t \in {"lambda", "primop", "papp"} \/ (IsSet(v) /\ "__functor" \in Names(v))
             IN \/ ~function /\ Continue(Below, Throw("type")) /\ UNCHANGED heap
                \/ /\ function
                   /\ thunks' = Beside(thunks, [id \in {Len(thunks) + i : i \in DOMAIN items} |->
                                                [k |-> "app", fn |-> v, arg |-> items[id - Len(thunks)]]])
                   /\ made' = made + 1
                   /\ Continue(Below, Got(List(made + 1, [i \in DOMAIN items |-> Thunk(Len(thunks) + i)])))
                   /\ UNCHANGED <<envs, imported>>
       \/ /\ Code.n = "import"
          /\ CASE v.t # "path" -> Continue(Below, Throw("eval")) /\ UNCHANGED heap
               [] v.t = "path" /\ v.p \in DOMAIN imported ->
                    Continue(Below, Want(Thunk(imported[v.p]))) /\ UNCHANGED heap
               [] OTHER ->
                    /\ thunks' = Beside(thunks, [id \in {Len(thunks) + 1} |-> [k |-> "expr", e |-> Files[v.p], env |-> Root]])
                    /\ imported' = (v.p :> Len(thunks) + 1) @@ imported
                    /\ Continue(Below, Want(Thunk(Len(thunks) + 1)))
                    /\ UNCHANGED <<envs, made>>
  /\ UNCHANGED depth

\* deep_force_level: what a set or a list not seen yet holds, in turn.
Parts(v) ==
  CASE IsSet(v) -> LET names == SetToSeq(Names(v)) IN [i \in DOMAIN names |-> v.attrs[names[i]]]
    [] v.t = "list" -> v.items
    [] OTHER -> <<>>

DeepForce ==
  /\ Running({"deep", "items", "deepForce"})
  /\ LET at == CHOOSE i \in DOMAIN Natives : Natives[i].n = "deepForce"
         fresh == step.v.t \in {"set", "list"} /\ step.v.id \notin Natives[at].seen
         Next(ns, items) ==
           IF items = <<>> THEN Continue(ns, step)
           ELSE Continue(Append(ns, [n |-> "items", items |-> Tail(items)]), [s |-> "deepen", v |-> Head(items)])
     IN \/ Code.n = "deepForce" /\ Continue(Below, step)
        \/ Code.n = "items" /\ Next(Below, Code.items)
        \/ Code.n = "deep" /\ ~fresh /\ Continue(Below, step)
        \/ Code.n = "deep" /\ fresh /\ Next([Below EXCEPT ![at].seen = @ \cup {step.v.id}], Parts(step.v))
  /\ UNCHANGED <<heap, depth>>

Identified(v) == v.t \in {"set", "list", "lambda", "papp", "thunk"}

\* eq_forced on what does not need a walk.
Plain(a, b) ==
  CASE a.t = "list" /\ b.t = "list" -> Len(a.items) = Len(b.items)
    [] IsSet(a) /\ IsSet(b) -> Names(a) = Names(b)
    [] a.t = b.t /\ a.t \in {"null", "bool", "int", "str", "path"} -> a = b
    [] OTHER -> FALSE

\* eq and eq_elem: both are forced, then what is stored equals itself.
Equality ==
  /\ Running({"left", "right", "pairs"})
  /\ LET v == step.v
         Next(ns, a, b) ==
           IF a = <<>> THEN Continue(ns, Got(Bool(TRUE)))
           ELSE Continue(Append(ns, [n |-> "pairs", a |-> Tail(a), b |-> Tail(b)]),
                         [s |-> "elem", a |-> Head(a), b |-> Head(b)])
         same == /\ Code.elem /\ Code.a.t = Code.b.t
                 /\ \/ Identified(Code.a) /\ Code.a.id = Code.b.id
                    \/ Code.a.t = "primop" /\ Code.a.op = Code.b.op
     IN \/ Code.n = "left" /\ Continue(Append(Below, [n |-> "right", a |-> Code.a, b |-> Code.b, elem |-> Code.elem, forced |-> v]),
                                       Want(Code.b))
        \/ /\ Code.n = "right"
           /\ CASE same -> Continue(Below, Got(Bool(TRUE)))
                [] ~same /\ ~Plain(Code.forced, v) -> Continue(Below, Got(Bool(FALSE)))
                [] OTHER -> Next(Below, Parts(Code.forced), Parts(v))
        \/ Code.n = "pairs" /\ v.b /\ Next(Below, Code.a, Code.b)
        \/ Code.n = "pairs" /\ ~v.b /\ Continue(Below, step)
  /\ UNCHANGED <<heap, depth>>

\* coerce_level: __toString is called and its result coerced in turn, one level
\* down; outPath is coerced in place.
CoerceToString ==
  /\ Running({"coerce", "again"})
  /\ LET v == step.v IN
       CASE Code.n = "again" -> Continue(Below, [s |-> "coerce", v |-> v])
         [] Code.n = "coerce" /\ v.t = "str" -> Continue(Below, step)
         [] Code.n = "coerce" /\ IsSet(v) /\ "__toString" \in Names(v) ->
              Continue(Append(Below, [n |-> "again"]), Invoke(v.attrs["__toString"], v))
         [] Code.n = "coerce" /\ IsSet(v) /\ "__toString" \notin Names(v) /\ "outPath" \in Names(v) ->
              Continue(Natives, Want(v.attrs["outPath"]))
         [] OTHER -> Continue(Below, Throw("type"))
  /\ UNCHANGED <<heap, depth>>

NativeStep ==
  \/ NativeWants \/ NativeCalls \/ LoopEnds \/ Deepens \/ NativeLeaves
  \/ NativeEnds \/ Builtin \/ DeepForce \/ Equality \/ CoerceToString

-----------------------------------------------------------------------------
(* Errors: native code lets them through, then the loop drops its frames.  *)

NativeFails ==
  /\ step.s = "throw" /\ Natives # <<>> /\ Code.n # "select"
  /\ depth' = IF Code.n = "deeper" THEN Code.depth ELSE depth
  /\ \/ /\ Code.n = "tryEval" /\ step.kind \in {"throw", "assert"}
        /\ Continue(Below, Got(Tried(FALSE, Bool(FALSE))))
        /\ made' = made + 1
     \/ /\ ~(Code.n = "tryEval" /\ step.kind \in {"throw", "assert"})
        /\ Continue(Below, step)
        /\ UNCHANGED made
  /\ UNCHANGED <<thunks, envs, imported>>

\* What is not put back as it was.
UnwindToBlackholes ==
  /\ step.s = "throw" /\ Natives = <<>> /\ Len(loops) > 1
  /\ LET leaves == {i \in DOMAIN Frames : Frames[i].f = "leave"} IN
       depth' = IF leaves = {} THEN depth ELSE Frames[CHOOSE i \in leaves : \A j \in leaves : i <= j].depth
  /\ loops' = Front(loops)
  /\ UNCHANGED <<step, heap>>

UnwindOneCall ==
  /\ step.s = "throw" /\ Natives = <<>> /\ Len(loops) > 1
  /\ LET leaves == {i \in DOMAIN Frames : Frames[i].f = "leave"} IN
       depth' = IF leaves = {} THEN depth ELSE Frames[CHOOSE i \in leaves : \A j \in leaves : i >= j].depth
  /\ thunks' = [id \in DOMAIN thunks |->
       IF \E i \in DOMAIN Frames : Frames[i].f = "thunk" /\ Frames[i].id = id
       THEN Frames[CHOOSE i \in DOMAIN Frames : Frames[i].f = "thunk" /\ Frames[i].id = id].was
       ELSE thunks[id]]
  /\ loops' = Front(loops)
  /\ UNCHANGED <<step, envs, made, imported>>

\* unwind: the thunks being forced are as they were, and so is the depth.
Unwind ==
  /\ step.s = "throw" /\ Natives = <<>> /\ Len(loops) > 1
  /\ LET waiting == {i \in DOMAIN Frames : Frames[i].f = "thunk"}
         leaves == {i \in DOMAIN Frames : Frames[i].f = "leave"}
     IN /\ thunks' = [id \in DOMAIN thunks |->
             IF \E i \in waiting : Frames[i].id = id
             THEN Frames[CHOOSE i \in waiting : Frames[i].id = id].was
             ELSE thunks[id]]
        /\ depth' = IF leaves = {} THEN depth ELSE Frames[CHOOSE i \in leaves : \A j \in leaves : i <= j].depth
  /\ loops' = Front(loops)
  /\ UNCHANGED <<step, envs, made, imported>>

-----------------------------------------------------------------------------
(* The session: thunk 1 is the outputs `select` looks in, thunk 2 the flake *)
(* and thunk 3 its outputs function's result.                              *)

CheckedOutputs == 1
Self == 2
Outputs == 3

\* build: what the flake's value has besides its outputs.
Build ==
  /\ Running({"build"})
  /\ IF IsSet(step.v)
     THEN /\ Continue(Below, Got(Set(made + 1, ("outputs" :> Thunk(Outputs)
                                                @@ "outPath" :> Str("source")) @@ step.v.attrs)))
          /\ made' = made + 1
     ELSE Continue(Below, Throw("type")) /\ UNCHANGED made
  /\ UNCHANGED <<thunks, envs, imported, depth>>

\* select and the loop over the candidates: what has a type error on the way
\* has no such attribute, and another error is the evaluation's.
TryNext ==
  IF Len(candidates) > 1
  THEN /\ candidates' = Tail(candidates)
       /\ walked' = candidates[2]
       /\ Continue(<<[n |-> "select"]>>, Want(Thunk(CheckedOutputs)))
  ELSE /\ candidates' = <<>> /\ walked' = <<>>
       /\ Continue(<<>>, [s |-> "failed", kind |-> "eval"])

Selecting ==
  /\ Running({"select"})
  /\ \/ walked # <<>> /\ IsSet(step.v) /\ walked[1] \in Names(step.v)
        /\ walked' = Tail(walked)
        /\ Continue(<<[n |-> "select"]>>, Want(step.v.attrs[walked[1]]))
        /\ UNCHANGED candidates
     \/ walked # <<>> /\ ~(IsSet(step.v) /\ walked[1] \in Names(step.v)) /\ TryNext
     \/ walked = <<>> /\ Continue(<<>>, [s |-> "done", v |-> step.v]) /\ UNCHANGED <<candidates, walked>>
  /\ UNCHANGED <<heap, depth>>

SelectFails ==
  /\ step.s = "throw" /\ Natives # <<>> /\ Code.n = "select"
  /\ \/ step.kind = "type" /\ walked # <<>> /\ TryNext
     \/ /\ step.kind # "type" \/ walked = <<>>
        /\ Continue(<<>>, [s |-> "failed", kind |-> step.kind])
        /\ UNCHANGED <<candidates, walked>>
  /\ UNCHANGED <<heap, depth>>

EvalInit ==
  /\ session \in Sessions
  /\ candidates = session.paths
  /\ walked = candidates[1]
  /\ step = Want(Thunk(CheckedOutputs))
  /\ loops = <<[frames |-> <<>>, natives |-> <<[n |-> "select"]>>, base |-> -1]>>
  /\ thunks = <<[k |-> "native", first |-> Thunk(Self), after |-> <<[n |-> "then", v |-> Thunk(Outputs)]>>],
               [k |-> "native", first |-> Thunk(Outputs), after |-> <<[n |-> "build"]>>],
               [k |-> "app", fn |-> [t |-> "lambda", id |-> 1, def |-> session.outputs, env |-> Root],
                             arg |-> Set(2, "self" :> Thunk(Self))]>>
  /\ envs = <<[up |-> Root, slots |-> <<>>]>>
  /\ made = 2
  /\ imported = << >>
  /\ depth = 0

\* The machine, whatever it is run for.
MachineStep == (EvalStep \/ ForceValue \/ CallStep \/ Resume \/ NativeStep \/ NativeFails \/ Unwind \/ Build)
               /\ UNCHANGED <<session, candidates, walked>>

EvalNext == MachineStep \/ ((Selecting \/ SelectFails) /\ UNCHANGED session)

EvalSpec == EvalInit /\ [][EvalNext]_machineVars

EvalEnds == step.s \in {"done", "failed"}

-----------------------------------------------------------------------------
(* Properties.                                                             *)

AllFrames == UNION {{<<l, i>> : i \in DOMAIN loops[l].frames} : l \in DOMAIN loops}
FrameAt(at) == loops[at[1]].frames[at[2]]

\* A thunk is a black hole exactly while one frame waits for its value: an
\* error leaves none behind, so forcing it again fails as it did, and is never
\* taken for infinite recursion (machine.rs: force_step, unwind).
BlackholesAreForced ==
  \A id \in DOMAIN thunks :
    Cardinality({at \in AllFrames : FrameAt(at).f = "thunk" /\ FrameAt(at).id = id})
      = IF thunks[id] = Blackhole THEN 1 ELSE 0

\* However an evaluation ends, the depth it counted is back where it was, and
\* native code starts a loop only deeper than the loop it runs in, which is
\* what bounds the native stack (the assertion of machine.rs: run).
DepthIsCounted ==
  /\ EvalEnds => depth = 0
  /\ \A l \in 2..Len(loops) : loops[l - 1].base < loops[l].base
  /\ depth <= MaxCallDepth + 1

\* What makes the machine's shortcuts sound, whatever the program: no error, retried
\* thunk or catch leaves a blackhole or a level of depth behind.
MachineInv == BlackholesAreForced /\ DepthIsCounted
=============================================================================
