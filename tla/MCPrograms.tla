----------------------------- MODULE MCPrograms -----------------------------
(***************************************************************************)
(* The programs compiled in the runs: every pair of definitions of a small *)
(* language in a set, a recursive set or a let, under names that a let, a  *)
(* lambda and two withs around them define too; patterns with defaults;    *)
(* and operators that call a global somebody has redefined.                *)
(***************************************************************************)
EXTENDS Scoping

Lit(n) == [x |-> "int", n |-> n]
StrOf(s) == [x |-> "str", s |-> s]
Key(s) == [name |-> s, e |-> NoExpr]
DynKey(e) == [name |-> "", e |-> e]
Define(path, v) == [names |-> <<>>, from |-> NoExpr, path |-> path, value |-> v]
Inherit(names, from) == [names |-> names, from |-> from, path |-> <<>>, value |-> NoExpr]
Get(e, n) == [x |-> "select", of |-> e, name |-> n, default |-> NoExpr]
SetWith(isRec, entries) == [x |-> "set", rec |-> isRec, entries |-> entries]
LetIn(entries, e) == [x |-> "let", rec |-> TRUE, entries |-> entries, body |-> e]
Lambda(n, e) ==
  [x |-> "lambda", pattern |-> FALSE, formals |-> <<[name |-> n, default |-> NoExpr]>>, at |-> "", body |-> e]
LambdaOf(formals, bound, e) == [x |-> "lambda", pattern |-> TRUE, formals |-> formals, at |-> bound, body |-> e]
App(f, args) == [x |-> "app", fn |-> f, args |-> args]
WithOf(namespace, e) == [x |-> "with", namespace |-> namespace, body |-> e]
Minus(l, r) == [x |-> "sub", l |-> l, r |-> r]
A == Id("a")
B == Id("b")

Definitions ==
  {Define(<<Key("a")>>, Lit(1)), Define(<<Key("a"), Key("b")>>, B),
   Define(<<Key("a")>>, SetWith(FALSE, <<Define(<<Key("c")>>, Lit(3)), Inherit(<<"b">>, NoExpr)>>)),
   Define(<<Key("a")>>, SetWith(TRUE, <<Define(<<Key("c")>>, B), Define(<<Key("b")>>, Lit(4))>>)),
   Define(<<Key("a")>>, SetWith(FALSE, <<Inherit(<<"c">>, B)>>)),
   Inherit(<<"a">>, NoExpr), Inherit(<<"a">>, B),
   Define(<<Key("b")>>, A), Define(<<Key("b"), Key("a")>>, Lit(5)), Define(<<Key("b")>>, Lambda("a", Minus(A, Lit(1)))),
   Define(<<DynKey(Id("s"))>>, Lit(6)), Define(<<Key("a"), DynKey(Id("s")), Key("c")>>, B)}

OneOrTwo == {<<d>> : d \in Definitions} \cup {<<d, d2>> : d, d2 \in Definitions}
Bodies == {A, Get(A, "c"), Get(Get(A, "b"), "a"), App(B, <<A>>), WithOf(A, Minus(B, Id("c"))), Lambda("c", A)}
Nested == {SetWith(r, es) : r \in BOOLEAN, es \in OneOrTwo} \cup {LetIn(es, e) : es \in OneOrTwo, e \in Bodies}

\* Around them: let b = { a = 8; c = 9; }; s = "z"; in (a: ...) 7, and two withs.
Around(e) ==
  {LetIn(<<Define(<<Key("b")>>, SetWith(FALSE, <<Define(<<Key("a")>>, Lit(8)), Define(<<Key("c")>>, Lit(9))>>)),
           Define(<<Key("s")>>, StrOf("z"))>>, App(Lambda("a", e), <<Lit(7)>>)),
   WithOf(SetWith(TRUE, <<Define(<<Key("a")>>, B), Define(<<Key("b")>>, Lit(2)), Define(<<Key("s")>>, StrOf("c"))>>),
          WithOf(SetWith(FALSE, <<Define(<<Key("b")>>, Lit(3))>>), e))}

Patterns ==
  {App(LambdaOf(<<[name |-> "a", default |-> B], [name |-> "b", default |-> d]>>, bound, e), <<SetWith(FALSE, es)>>) :
     d \in {NoExpr, Lit(1), A}, bound \in {"", "c", "b"}, e \in {A, Minus(A, B), Get(Id("c"), "a")},
     es \in {<<>>, <<Define(<<Key("b")>>, Lit(4))>>, <<Define(<<Key("a")>>, Lit(4))>>}}

\* let __sub = a: b: a; in 3 - 1 > 2, and a set whose source mentions the lambda's argument.
Redefined ==
  LetIn(<<Define(<<Key("__sub")>>, Lambda("a", Lambda("b", A)))>>,
        [x |-> "more", l |-> Minus(Lit(3), Lit(1)), r |-> Lit(2)])
Sourced ==
  LetIn(<<Define(<<Key("a")>>,
            App(Lambda("b", SetWith(FALSE, <<Inherit(<<"b">>, NoExpr),
                                           Inherit(<<"c">>, SetWith(FALSE, <<Define(<<Key("c")>>, B)>>))>>)),
                <<Lit(5)>>))>>, A)

ThePrograms == UNION {Around(e) : e \in Nested} \cup Patterns \cup {Redefined, Sourced}
=============================================================================
