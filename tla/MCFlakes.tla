------------------------------ MODULE MCFlakes ------------------------------
(***************************************************************************)
(* What the flake.nix and the flake.lock of a root hold in the runs: two   *)
(* inputs, given by a URL, by another's path or not at all, an input of an *)
(* input overridden, and lock files whose follows meet, miss and circle.   *)
(* Then the trees a path is looked up in, and what is fetched: symlinks    *)
(* that meet, leave their directory or the tree, or circle, next to        *)
(* submodules and untracked entries; and requests with and without a       *)
(* revision, a hash and a time.                                            *)
(***************************************************************************)
EXTENDS FlakeLock, TreePath, FlakeSource

Url(id) == [scheme |-> "github", parts |-> <<"o", id>>, archive |-> FALSE, query |-> NoMap]
Input(url, follows) == [url |-> url, follows |-> follows, extra |-> NoMap]
Optional(n, S) == {<<>>} \cup {n :> e : e \in S}

OfA == <<"a">>
OfB == <<"b">>
OfAB == <<"a", "b">>

InputsA ==
  {<<>>, OfA :> Input(Url("u1"), None), (OfA :> Input(Url("u1"), None)) @@ (OfAB :> Input(None, <<"b">>)),
   (OfA :> Input(Url("u1"), None)) @@ (OfAB :> Input(Url("u2"), None)),
   OfA :> Input(None, <<"b">>), OfA :> Input(None, None), OfA :> Unread}
InputsB ==
  Optional(OfB, {Input(Url("u2"), None), Input(None, <<"a">>), Input(None, <<"a", "b">>)})

TheFlakeFiles ==
  {Bad} \cup
  {[inputs |-> a @@ b, outputs |-> "function", unsupported |-> FALSE, formals |-> f] :
     a \in InputsA, b \in InputsB, f \in {{"self"}, {"self", "b"}}} \cup
  {[inputs |-> <<>>, outputs |-> o, unsupported |-> u, formals |-> {}] : o \in {None, "function"}, u \in BOOLEAN}

OriginalOf(id) == IF id \in {"u1", "u2"} THEN Parse(Url(id)) ELSE Indirect("b")
Node(edges, locked, original, flake, parent) ==
  [inputs |-> edges, locked |-> locked, original |-> original, flake |-> flake, parent |-> parent]

RootEdges ==
  {a @@ b : a \in Optional("a", {To("n1"), Follows(<<"b">>), Follows(<<"b", "b">>)}),
            b \in Optional("b", {To("n2"), Follows(<<"a">>), Follows(<<"a", "b">>)})}

TheLockFiles ==
  {[version |-> 7, root |-> "root",
    nodes |-> ("root" :> Node(r, None, None, TRUE, None))
              @@ ("n1" :> Node(i1, [relative |-> FALSE], OriginalOf("u1"), TRUE, None))
              @@ ("n2" :> Node(i2, [relative |-> rel], OriginalOf(o), f, p))] :
     r \in RootEdges,
     i1 \in Optional("b", {To("n2"), Follows(<<"b">>), Follows(<<>>), Follows(<<"a", "b">>)}),
     i2 \in Optional("b", {To("n1"), Follows(<<"a">>)}),
     rel \in BOOLEAN, o \in {"u2", "b"}, f \in BOOLEAN, p \in {None, <<"a">>}} \cup
  {[version |-> v, root |-> r, nodes |-> n] : v \in {4, 7}, r \in {None, "x"}, n \in {None, EmptyLock.nodes}}

-----------------------------------------------------------------------------
Entry(type, tracked) == [type |-> type, tracked |-> tracked]
Symlink(to, absolute) == [type |-> "symlink", tracked |-> TRUE, to |-> to, absolute |-> absolute]
Directory == Entry("directory", TRUE)
Regular == Entry("regular", TRUE)

TheTrees ==
  {(<<"a">> :> a) @@ (<<"b">> :> b) @@ (<<"d">> :> Directory) @@ (<<"d", "a">> :> da) @@ (<<"d", "b">> :> db) :
     a \in {Regular, Symlink(<<"b">>, FALSE), Symlink(<<"d", "b">>, FALSE), Symlink(<<"d">>, TRUE),
            Symlink(<<"a">>, FALSE), Entry("submodule", TRUE)},
     b \in {Symlink(<<"a">>, FALSE), Symlink(<<"d", "a">>, FALSE), Symlink(<<"d">>, FALSE), Entry("regular", FALSE)},
     da \in {Regular, Symlink(<<"b">>, FALSE), Symlink(<<"..", "b">>, FALSE), Symlink(<<"..", "..", "a">>, FALSE)},
     db \in {Regular, Entry("directory", FALSE), Entry("submodule", TRUE), Symlink(<<".">>, FALSE)}}

ThePaths ==
  {<<"a">>, <<"b">>, <<"b", "a">>, <<"b", "..", "a">>, <<"d", ".", "a", "b">>, <<"a", "..">>,
   <<"d", "b", "a">>, <<"d", "b", "..", "..", "b">>}

Requested(type, rev, hash, time, count) ==
  [type |-> type, rev |-> rev, narHash |-> hash, lastModified |-> time, revCount |-> count]
OneTree == "f" :> "x"
OtherTree == "f" :> "y"

TheRequests ==
  {Requested("git", NotThere, hash, NotThere, NotThere) : hash \in {NotThere, OneTree}} \cup
  {Requested("git", 1, OneTree, NotThere, NotThere), Requested("git", 1, OneTree, 5, 7),
   Requested("git", 2, NotThere, NotThere, NotThere), Requested("indirect", NotThere, NotThere, NotThere, NotThere)} \cup
  {Requested("path", NotThere, hash, NotThere, NotThere) : hash \in {NotThere, OneTree}} \cup
  {Requested(type, rev, hash, time, NotThere) :
     type \in {"tarball", "file", "github"}, rev \in {NotThere, 1}, hash \in {NotThere, OneTree}, time \in {NotThere, 5}}

WhatIsServed == {OneTree, OtherTree, NotThere}
=============================================================================
