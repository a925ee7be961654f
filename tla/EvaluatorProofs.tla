-------------------------- MODULE EvaluatorProofs ---------------------------
(***************************************************************************)
(* The safety of ogygia-nix-eval, whatever the program, the sources, the   *)
(* lock files, the trees and what is done to a repository meanwhile: no    *)
(* evaluation leaves a blackhole or a level of depth behind; a source is   *)
(* what its label says; a path leads where its names do; and an input is   *)
(* fetched once, from where its parent is.                                 *)
(***************************************************************************)
EXTENDS EvalMachine, FlakeLock, FlakeSource, TreePath, FiniteSetTheorems,
        SequenceTheorems, WellFoundedInduction, TLAPS

-----------------------------------------------------------------------------
(* EvalMachine: stacks of anything.                                        *)

\* A sequence, whatever is in it.
IsSeq(s) == s \in Seq({s[i] : i \in DOMAIN s})

LEMMA SeqParts ==
  ASSUME NEW s, IsSeq(s)
  PROVE  /\ Len(s) \in Nat /\ DOMAIN s = 1..Len(s)
         /\ s = <<>> <=> Len(s) = 0
<1>. DEFINE S == {s[i] : i \in DOMAIN s}
<1>1. s \in Seq(S)
  BY DEF IsSeq
<1>. HIDE DEF S
<1>. QED BY <1>1

LEMMA FunctionIsSeq ==
  ASSUME NEW s, NEW n \in Nat, DOMAIN s = 1..n, s = [i \in 1..n |-> s[i]]
  PROVE  IsSeq(s) /\ Len(s) = n
<1>. DEFINE S == {s[i] : i \in DOMAIN s}
<1>1. s \in [1..n -> S]
  OBVIOUS
<1>. HIDE DEF S
<1>2. s \in Seq(S) /\ Len(s) = n
  BY <1>1
<1>. QED BY <1>2 DEF IsSeq, S

LEMMA SeqIsFunction ==
  ASSUME NEW s, IsSeq(s)
  PROVE  s = [i \in 1..Len(s) |-> s[i]]
<1>. DEFINE S == {s[i] : i \in DOMAIN s}
<1>1. s \in Seq(S)
  BY DEF IsSeq
<1>. HIDE DEF S
<1>2. s \in [1..Len(s) -> S]
  BY <1>1, LenProperties
<1>. QED BY <1>2

LEMMA EmptyAndOne ==
  /\ IsSeq(<<>>) /\ Len(<<>>) = 0 /\ DOMAIN <<>> = {}
  /\ \A x : IsSeq(<<x>>) /\ Len(<<x>>) = 1 /\ DOMAIN <<x>> = {1} /\ <<x>>[1] = x
BY DEF IsSeq

LEMMA AppendIs ==
  ASSUME NEW s, NEW x, IsSeq(s)
  PROVE  /\ IsSeq(Append(s, x)) /\ Append(s, x) # <<>>
         /\ Len(Append(s, x)) = Len(s) + 1 /\ DOMAIN Append(s, x) = 1..Len(s) + 1
         /\ \A i \in 1..Len(s) : Append(s, x)[i] = s[i]
         /\ Append(s, x)[Len(s) + 1] = x
<1>. DEFINE S == {s[i] : i \in DOMAIN s} \cup {x}
            t == Append(s, x)
<1>1. s \in Seq({s[i] : i \in DOMAIN s}) /\ {s[i] : i \in DOMAIN s} \subseteq S
  BY DEF IsSeq
<1>2. s \in Seq(S)
  BY <1>1, SeqMonotonic
<1>3. x \in S
  OBVIOUS
<1>. HIDE DEF S
<1>4. Append(s, x) \in Seq(S) /\ Append(s, x) # <<>> /\ Len(Append(s, x)) = Len(s) + 1
      /\ \A i \in 1..Len(s) : Append(s, x)[i] = s[i]
      /\ Append(s, x)[Len(s) + 1] = x
  BY <1>2, <1>3, AppendProperties
<1>5. Len(s) \in Nat
  BY <1>2
<1>. HIDE DEF t
<1>6. t \in Seq(S) /\ Len(t) = Len(s) + 1
  BY <1>4 DEF t
<1>7. t \in [1..Len(s) + 1 -> S]
  BY <1>6, LenProperties
<1>8. DOMAIN t = 1..Len(s) + 1 /\ t = [i \in 1..Len(s) + 1 |-> t[i]]
  BY <1>7
<1>9. IsSeq(t)
  BY <1>8, <1>5, FunctionIsSeq
<1>. QED BY <1>4, <1>8, <1>9 DEF t

LEMMA FrontIs ==
  ASSUME NEW s, IsSeq(s), s # <<>>
  PROVE  /\ Len(s) \in Nat \ {0} /\ Last(s) = s[Len(s)]
         /\ IsSeq(Front(s)) /\ Len(Front(s)) = Len(s) - 1 /\ DOMAIN Front(s) = 1..Len(s) - 1
         /\ \A i \in 1..Len(s) - 1 : Front(s)[i] = s[i]
<1>. DEFINE S == {s[i] : i \in DOMAIN s}
            t == Front(s)
<1>1. s \in Seq(S)
  BY DEF IsSeq
<1>. HIDE DEF S
<1>2. Len(s) \in Nat \ {0}
  BY <1>1, EmptySeq
<1>3. t = SubSeq(s, 1, Len(s) - 1)
  BY DEF Front
<1>4. t = [i \in 1..Len(s) - 1 |-> s[i]]
  BY <1>1, <1>2, <1>3
<1>5. Len(s) - 1 \in Nat
  BY <1>2
<1>. HIDE DEF t
<1>6. DOMAIN t = 1..Len(s) - 1 /\ t = [i \in 1..Len(s) - 1 |-> t[i]] /\ \A i \in 1..Len(s) - 1 : t[i] = s[i]
  BY <1>4
<1>7. IsSeq(t) /\ Len(t) = Len(s) - 1
  BY <1>5, <1>6, FunctionIsSeq
<1>. QED BY <1>2, <1>6, <1>7 DEF t, Last

LEMMA ReplaceIs ==
  ASSUME NEW s, NEW k, NEW x, IsSeq(s)
  PROVE  /\ IsSeq([s EXCEPT ![k] = x]) /\ Len([s EXCEPT ![k] = x]) = Len(s)
         /\ DOMAIN [s EXCEPT ![k] = x] = DOMAIN s
<1>. DEFINE t == [s EXCEPT ![k] = x]
<1>1. Len(s) \in Nat /\ DOMAIN t = 1..Len(s) /\ t = [i \in 1..Len(s) |-> t[i]]
  BY SeqParts, SeqIsFunction
<1>. HIDE DEF t
<1>2. IsSeq(t) /\ Len(t) = Len(s)
  BY <1>1, FunctionIsSeq
<1>. QED BY <1>1, <1>2, SeqParts DEF t

-----------------------------------------------------------------------------
(* EvalMachine: the inductive invariant.                                   *)

\* A thunk that nothing forces; native code is what the session starts with.
Dormant(t) ==
  /\ t # Blackhole
  /\ t.k = "native" => /\ t.after = <<t.after[1]>>
                       /\ "n" \in DOMAIN t.after[1] /\ t.after[1].n \in {"then", "build"}

FrameOk(x) == "f" \in DOMAIN x /\ (x.f = "thunk" => Dormant(x.was))

CodeOk(x) ==
  /\ "n" \in DOMAIN x
  /\ x.n = "deeper" => "depth" \in DOMAIN x
  /\ x.n = "append" => "to" \in DOMAIN x /\ "f" \in DOMAIN x.to

FramesOk(fs) == IsSeq(fs) /\ \A i \in DOMAIN fs : FrameOk(fs[i])
CodesOk(ns) == IsSeq(ns) /\ \A i \in DOMAIN ns : CodeOk(ns[i])

LoopOk(lp) ==
  lp = [frames |-> lp.frames, natives |-> lp.natives, base |-> lp.base] /\ FramesOk(lp.frames) /\ CodesOk(lp.natives)

LoopsOk(ls) == IsSeq(ls) /\ ls # <<>> /\ \A l \in DOMAIN ls : LoopOk(ls[l])
ThunksOk(ts) == \A id \in DOMAIN ts : ts[id] = Blackhole \/ Dormant(ts[id])

\* The i-th frame of the l-th loop waits for a thunk. It is a blackhole, nothing
\* else waits for it, and every blackhole is waited for.
Waits(ls, l, i) == l \in DOMAIN ls /\ i \in DOMAIN ls[l].frames /\ ls[l].frames[i].f = "thunk"
Awaits(ls, l, i) == ls[l].frames[i].id

Awaited(ls, ts) ==
  \A l \in DOMAIN ls : \A i \in DOMAIN ls[l].frames :
    Waits(ls, l, i) => Awaits(ls, l, i) \in DOMAIN ts /\ ts[Awaits(ls, l, i)] = Blackhole

AwaitedOnce(ls) ==
  \A l, m \in DOMAIN ls : \A i \in DOMAIN ls[l].frames, j \in DOMAIN ls[m].frames :
    Waits(ls, l, i) /\ Waits(ls, m, j) /\ Awaits(ls, l, i) = Awaits(ls, m, j) => l = m /\ i = j

Held(ls, ts) ==
  \A id \in DOMAIN ts : ts[id] = Blackhole =>
    \E l \in DOMAIN ls : \E i \in DOMAIN ls[l].frames : Waits(ls, l, i) /\ Awaits(ls, l, i) = id

Blackholes(ls, ts) == Awaited(ls, ts) /\ AwaitedOnce(ls) /\ Held(ls, ts)

\* The depths that C of q puts back climb from b, where they start, to t.
Climbs(q, C, b, t) ==
  /\ b <= t /\ (C = {} => t = b)
  /\ \A i \in C : /\ q[i].depth \in b..t - 1
                  /\ (\A j \in C : i <= j) => q[i].depth = b
                  /\ \A j \in C : i < j => q[i].depth < q[j].depth

Leaves(fs) == {i \in DOMAIN fs : fs[i].f = "leave"}
Deepers(ns) == {i \in DOMAIN ns : ns[i].n = "deeper"}

\* Calls first, then the levels of the native code above them.
Counts(fs, ns, b, t) ==
  \E mid \in 0..MaxCallDepth + 1 : Climbs(fs, Leaves(fs), b, mid) /\ Climbs(ns, Deepers(ns), mid, t)

\* The depth a loop starts at, and the one the next starts at.
Bottom(ls, l) == IF l = 1 THEN 0 ELSE ls[l].base
Ceiling(ls, l, d) == IF l = Len(ls) THEN d ELSE ls[l + 1].base

Levels(ls, d) ==
  /\ d \in 0..MaxCallDepth + 1
  /\ ls[1].base = -1
  /\ \A l \in 2..Len(ls) : ls[l].base \in 0..MaxCallDepth + 1 /\ ls[l - 1].base < ls[l].base
  /\ \A l \in 1..Len(ls) : Counts(ls[l].frames, ls[l].natives, Bottom(ls, l), Ceiling(ls, l, d))

\* Native code that the loop itself goes on from is at the bottom; a builtin's
\* is that of the call on top of the frames, and what is above any other is a
\* level deeper.
Bottoms == {"result", "equal", "addStr", "append"}

Stands(fs, ns) ==
  /\ \A i \in DOMAIN ns : ns[i].n # "select" /\ (i = 1 <=> ns[i].n \in Bottoms)
  /\ ns # <<>> /\ ns[1].n = "result" => fs # <<>> /\ fs[Len(fs)].f = "leave"
  /\ Len(ns) >= 2 /\ ns[1].n # "result" => ns[2].n = "deeper"

Stacks(ls) ==
  /\ ls[1].frames = <<>> /\ ls[1].natives \in {<<>>, <<[n |-> "select"]>>}
  /\ \A l \in 2..Len(ls) : Stands(ls[l].frames, ls[l].natives)

\* A loop that native code starts now is deeper than the one it runs in.
Ready(ns) == ns # <<>> /\ (ns[1].n = "result" \/ Len(ns) >= 2)

Fits(does, ns) ==
  /\ does \in {"eval", "force", "call", "return"} => ns = <<>>
  /\ does \in {"coerce", "deepen", "equal", "elem"} => ns # <<>>
  /\ does \in {"want", "invoke"} => Ready(ns)
  /\ does \notin {"done", "failed"}

Control(ls, does) ==
  IF Len(ls) = 1 THEN does \in {"want", "got", "throw", "done", "failed"}
                 ELSE Fits(does, ls[Len(ls)].natives)

MachineIInv ==
  /\ LoopsOk(loops) /\ ThunksOk(thunks)
  /\ Blackholes(loops, thunks)
  /\ Levels(loops, depth)
  /\ Stacks(loops) /\ Control(loops, step.s)

-----------------------------------------------------------------------------
(* EvalMachine: depths that climb, and what the innermost loop may become. *)

LEMMA ClimbsSame ==
  ASSUME NEW q, NEW r, NEW C, NEW b, NEW t, Climbs(q, C, b, t), \A i \in C : r[i].depth = q[i].depth
  PROVE  Climbs(r, C, b, t)
BY DEF Climbs

LEMMA ClimbsUp ==
  ASSUME NEW q, NEW r, NEW C \in SUBSET Int, NEW b \in Int, NEW t \in Int, NEW n \in Int, Climbs(q, C, b, t),
         \A i \in C : i < n /\ r[i].depth = q[i].depth, r[n].depth = t
  PROVE  Climbs(r, C \cup {n}, b, t + 1)
<1>1. b <= t + 1 /\ C \cup {n} # {}
  BY DEF Climbs
<1>2. ASSUME NEW i \in C \cup {n} PROVE r[i].depth \in b..(t + 1) - 1
  BY DEF Climbs
<1>3. ASSUME NEW i \in C \cup {n}, \A j \in C \cup {n} : i <= j PROVE r[i].depth = b
  <2>1. CASE i \in C
    BY <2>1, <1>3 DEF Climbs
  <2>2. CASE i = n
    <3>1. C = {}
      BY <1>3, <2>2
    <3>. QED BY <3>1, <2>2 DEF Climbs
  <2>. QED BY <2>1, <2>2
<1>4. ASSUME NEW i \in C \cup {n}, NEW j \in C \cup {n}, i < j PROVE r[i].depth < r[j].depth
  <2>1. i \in C
    <3>1. \A k \in C : k \in Int /\ k < n
      OBVIOUS
    <3>2. CASE i = n
      <4>1. j \in C \/ j = n
        BY <1>4
      <4>. QED BY <4>1, <3>1, <3>2, <1>4
    <3>. QED BY <3>2
  <2>2. CASE j \in C
    BY <2>1, <2>2, <1>4 DEF Climbs
  <2>3. CASE j = n
    BY <2>1, <2>3 DEF Climbs
  <2>. QED BY <2>2, <2>3
<1>. QED BY <1>1, <1>2, <1>3, <1>4 DEF Climbs

LEMMA ClimbsDown ==
  ASSUME NEW q, NEW r, NEW C \in SUBSET Int, NEW b \in Int, NEW t \in Int, NEW n \in C, Climbs(q, C, b, t),
         \A i \in C : i <= n, \A i \in C \ {n} : r[i].depth = q[i].depth
  PROVE  Climbs(r, C \ {n}, b, q[n].depth) /\ q[n].depth \in b..t - 1
<1>1. q[n].depth \in b..t - 1
  BY DEF Climbs
<1>2. C \ {n} = {} => q[n].depth = b
  <2>1. C \ {n} = {} => \A j \in C : n <= j
    OBVIOUS
  <2>2. (\A j \in C : n <= j) => q[n].depth = b
    BY DEF Climbs
  <2>. QED BY <2>1, <2>2
<1>3. ASSUME NEW i \in C \ {n} PROVE r[i].depth \in b..q[n].depth - 1
  BY <1>1 DEF Climbs
<1>4. ASSUME NEW i \in C \ {n}, \A j \in C \ {n} : i <= j PROVE r[i].depth = b
  <2>1. \A j \in C : i <= j
    BY <1>4
  <2>. QED BY <2>1 DEF Climbs
<1>5. ASSUME NEW i \in C \ {n}, NEW j \in C \ {n}, i < j PROVE r[i].depth < r[j].depth
  BY <1>5 DEF Climbs
<1>. QED BY <1>1, <1>2, <1>3, <1>4, <1>5 DEF Climbs

LEMMA ClimbsNone ==
  ASSUME NEW q, NEW b \in Int, NEW t \in Int
  PROVE  Climbs(q, {}, b, t) <=> t = b
BY DEF Climbs

\* The innermost loop becomes another.
WithTop(ls, fs, ns) == [ls EXCEPT ![Len(ls)] = [frames |-> fs, natives |-> ns, base |-> ls[Len(ls)].base]]

LEMMA TopIs ==
  ASSUME NEW ls, LoopsOk(ls), NEW fs, NEW ns, NEW us, us = WithTop(ls, fs, ns)
  PROVE  /\ Len(ls) \in Nat \ {0} /\ DOMAIN ls = 1..Len(ls)
         /\ Len(us) = Len(ls) /\ DOMAIN us = 1..Len(ls) /\ IsSeq(us)
         /\ us[Len(ls)].frames = fs /\ us[Len(ls)].natives = ns /\ us[Len(ls)].base = ls[Len(ls)].base
         /\ \A l \in 1..Len(ls) - 1 : us[l] = ls[l]
<1>1. IsSeq(ls) /\ ls # <<>>
  BY DEF LoopsOk
<1>2. Len(ls) \in Nat \ {0} /\ DOMAIN ls = 1..Len(ls)
  BY <1>1, SeqParts
<1>. DEFINE x == [frames |-> fs, natives |-> ns, base |-> ls[Len(ls)].base]
<1>3. us = [ls EXCEPT ![Len(ls)] = x] /\ x.frames = fs /\ x.natives = ns /\ x.base = ls[Len(ls)].base
  BY DEF WithTop
<1>. HIDE DEF x
<1>4. IsSeq(us) /\ Len(us) = Len(ls) /\ DOMAIN us = DOMAIN ls
  <2>1. IsSeq([ls EXCEPT ![Len(ls)] = x]) /\ Len([ls EXCEPT ![Len(ls)] = x]) = Len(ls)
        /\ DOMAIN [ls EXCEPT ![Len(ls)] = x] = DOMAIN ls
    BY <1>1, ReplaceIs
  <2>. QED BY <1>3, <2>1
<1>5. us[Len(ls)] = x /\ \A l \in 1..Len(ls) - 1 : us[l] = ls[l]
  BY <1>2, <1>3
<1>. QED BY <1>2, <1>3, <1>4, <1>5 DEF x

LEMMA TopOk ==
  ASSUME NEW ls, LoopsOk(ls), NEW fs, NEW ns, FramesOk(fs), CodesOk(ns)
  PROVE  LoopsOk(WithTop(ls, fs, ns))
<1>. DEFINE us == WithTop(ls, fs, ns)
            M == Len(ls)
<1>0. us = WithTop(ls, fs, ns)
  OBVIOUS
<1>. HIDE DEF us
<1>1. M \in Nat \ {0} /\ DOMAIN ls = 1..M /\ Len(us) = M /\ DOMAIN us = 1..M /\ IsSeq(us)
      /\ \A l \in 1..M - 1 : us[l] = ls[l]
  BY <1>0, TopIs
<1>5. us[M] = [frames |-> fs, natives |-> ns, base |-> ls[M].base]
  BY <1>0, <1>1 DEF WithTop
<1>. HIDE DEF M
<1>2. LoopOk(us[M])
  BY <1>5 DEF LoopOk
<1>3. us # <<>>
  BY <1>1, SeqParts
<1>4. \A l \in 1..M - 1 : LoopOk(us[l])
  BY <1>1 DEF LoopsOk, M
<1>. QED BY <1>1, <1>2, <1>3, <1>4 DEF LoopsOk, us

LEMMA TopLevels ==
  ASSUME NEW ls, NEW d, LoopsOk(ls), Levels(ls, d), NEW fs, NEW ns, NEW e \in 0..MaxCallDepth + 1,
         Counts(fs, ns, Bottom(ls, Len(ls)), e)
  PROVE  Levels(WithTop(ls, fs, ns), e)
<1>. DEFINE us == WithTop(ls, fs, ns)
            M == Len(ls)
<1>0. us = WithTop(ls, fs, ns)
  OBVIOUS
<1>. HIDE DEF us
<1>1. M \in Nat \ {0} /\ Len(us) = M
      /\ us[M].frames = fs /\ us[M].natives = ns /\ us[M].base = ls[M].base
      /\ \A l \in 1..M - 1 : us[l] = ls[l]
  BY <1>0, TopIs
<1>2. \A l \in 1..M : us[l].base = ls[l].base
  BY <1>1
<1>3. us[1].base = -1 /\ \A l \in 2..M : us[l].base \in 0..MaxCallDepth + 1 /\ us[l - 1].base < us[l].base
  <2>1. us[1].base = -1
    BY <1>1, <1>2 DEF Levels
  <2>2. ASSUME NEW l \in 2..M PROVE us[l].base \in 0..MaxCallDepth + 1 /\ us[l - 1].base < us[l].base
    <3>1. us[l].base = ls[l].base /\ us[l - 1].base = ls[l - 1].base
      BY <1>1, <1>2
    <3>. QED BY <3>1 DEF Levels
  <2>. QED BY <2>1, <2>2
<1>4. ASSUME NEW l \in 1..M - 1
      PROVE  Counts(us[l].frames, us[l].natives, Bottom(us, l), Ceiling(us, l, e))
  <2>1. Bottom(us, l) = Bottom(ls, l) /\ Ceiling(us, l, e) = Ceiling(ls, l, d)
    BY <1>1, <1>2 DEF Bottom, Ceiling
  <2>2. Counts(ls[l].frames, ls[l].natives, Bottom(ls, l), Ceiling(ls, l, d))
    BY <1>1 DEF Levels
  <2>. QED BY <1>1, <2>1, <2>2
<1>5. Counts(us[M].frames, us[M].natives, Bottom(us, M), Ceiling(us, M, e))
  BY <1>1 DEF Bottom, Ceiling
<1>6. \A l \in 1..M : Counts(us[l].frames, us[l].natives, Bottom(us, l), Ceiling(us, l, e))
  BY <1>1, <1>4, <1>5
<1>. QED BY <1>1, <1>3, <1>6 DEF Levels, us

LEMMA TopStacks ==
  ASSUME NEW ls, LoopsOk(ls), Stacks(ls), Len(ls) # 1, NEW fs, NEW ns, Stands(fs, ns)
  PROVE  Stacks(WithTop(ls, fs, ns))
<1>. DEFINE us == WithTop(ls, fs, ns)
<1>0. us = WithTop(ls, fs, ns)
  OBVIOUS
<1>. HIDE DEF us
<1>1. /\ Len(ls) \in Nat \ {0} /\ Len(us) = Len(ls) /\ us[Len(ls)].frames = fs /\ us[Len(ls)].natives = ns
      /\ \A l \in 1..Len(ls) - 1 : us[l] = ls[l]
  BY <1>0, TopIs
<1>2. us[1] = ls[1]
  BY <1>1
<1>. QED BY <1>1, <1>2 DEF Stacks, us

\* Thunks that are there stay, and those that come are not forced yet.
Grows(ts, us) ==
  /\ \A id \in DOMAIN ts : id \in DOMAIN us /\ us[id] = ts[id]
  /\ \A id \in DOMAIN us \ DOMAIN ts : Dormant(us[id])

\* The same frames of the innermost loop wait for the same thunks.
SameWaits(fs, gs) ==
  \A i : /\ (i \in DOMAIN fs /\ fs[i].f = "thunk") <=> (i \in DOMAIN gs /\ gs[i].f = "thunk")
         /\ (i \in DOMAIN fs /\ fs[i].f = "thunk") => gs[i].id = fs[i].id

LEMMA SameBlackholes ==
  ASSUME NEW ls, NEW ts, NEW ms, NEW us, Blackholes(ls, ts), Grows(ts, us),
         \A l, i : /\ Waits(ms, l, i) <=> Waits(ls, l, i)
                   /\ Waits(ls, l, i) => Awaits(ms, l, i) = Awaits(ls, l, i)
  PROVE  Blackholes(ms, us)
<1>1. Awaited(ms, us)
  BY DEF Awaited, Blackholes, Grows, Waits
<1>2. AwaitedOnce(ms)
  BY DEF AwaitedOnce, Blackholes, Waits
<1>3. Held(ms, us)
  <2>. SUFFICES ASSUME NEW id \in DOMAIN us, us[id] = Blackhole
                PROVE  \E l \in DOMAIN ms : \E i \in DOMAIN ms[l].frames : Waits(ms, l, i) /\ Awaits(ms, l, i) = id
    BY DEF Held
  <2>1. id \in DOMAIN ts /\ ts[id] = Blackhole
    BY DEF Grows, Dormant
  <2>2. PICK l, i : Waits(ls, l, i) /\ Awaits(ls, l, i) = id
    BY <2>1 DEF Held, Blackholes
  <2>3. Waits(ms, l, i) /\ Awaits(ms, l, i) = id
    BY <2>2
  <2>. QED BY <2>3 DEF Waits
<1>. QED BY <1>1, <1>2, <1>3 DEF Blackholes

LEMMA TopBlackholes ==
  ASSUME NEW ls, NEW ts, LoopsOk(ls), Blackholes(ls, ts), NEW fs, NEW ns, NEW us, Grows(ts, us),
         SameWaits(ls[Len(ls)].frames, fs)
  PROVE  Blackholes(WithTop(ls, fs, ns), us)
<1>. DEFINE ms == WithTop(ls, fs, ns)
            M == Len(ls)
<1>0. ms = WithTop(ls, fs, ns)
  OBVIOUS
<1>. HIDE DEF ms
<1>1. M \in Nat \ {0} /\ DOMAIN ls = 1..M /\ DOMAIN ms = 1..M
      /\ ms[M].frames = fs /\ \A l \in 1..M - 1 : ms[l] = ls[l]
  BY <1>0, TopIs
<1>. HIDE DEF M
<1>2. SameWaits(ls[M].frames, fs)
  BY DEF M
<1>3. \A l, i : /\ Waits(ms, l, i) <=> Waits(ls, l, i)
                /\ Waits(ls, l, i) => Awaits(ms, l, i) = Awaits(ls, l, i)
  <2>. SUFFICES ASSUME NEW l \in 1..M, NEW i
                PROVE  /\ Waits(ms, l, i) <=> Waits(ls, l, i)
                       /\ Waits(ls, l, i) => Awaits(ms, l, i) = Awaits(ls, l, i)
    BY <1>1 DEF Waits
  <2>1. CASE l = M
    BY <2>1, <1>1, <1>2 DEF Waits, Awaits, SameWaits
  <2>2. CASE l # M
    BY <2>2, <1>1 DEF Waits, Awaits
  <2>. QED BY <2>1, <2>2
<1>. QED BY <1>3, SameBlackholes DEF ms

-----------------------------------------------------------------------------
(* EvalMachine: steps of the innermost loop.                               *)

\* Frames that count or wait are the same ones.
Marked(fs) == {i \in DOMAIN fs : fs[i].f \in {"thunk", "leave"}}
Quiet(fs, gs) == FramesOk(gs) /\ Marked(gs) = Marked(fs) /\ \A i \in Marked(fs) : gs[i] = fs[i]
PlainFrame(x) == "f" \in DOMAIN x /\ x.f \notin {"thunk", "leave"}

LEMMA QuietSame ==
  ASSUME NEW fs, FramesOk(fs)
  PROVE  Quiet(fs, fs)
BY DEF Quiet

LEMMA QuietPush ==
  ASSUME NEW fs, NEW gs, NEW x, Quiet(fs, gs), PlainFrame(x)
  PROVE  Quiet(fs, Append(gs, x))
<1>. DEFINE hs == Append(gs, x)
            n == Len(gs)
<1>1. IsSeq(gs) /\ n \in Nat /\ DOMAIN gs = 1..n
  BY SeqParts DEF Quiet, FramesOk
<1>2. IsSeq(hs) /\ DOMAIN hs = 1..n + 1 /\ (\A i \in 1..n : hs[i] = gs[i]) /\ hs[n + 1] = x
  BY <1>1, AppendIs
<1>. HIDE DEF hs, n
<1>3. FramesOk(hs)
  BY <1>1, <1>2 DEF FramesOk, FrameOk, Quiet, PlainFrame
<1>4. Marked(hs) = Marked(gs)
  <2>1. \A i \in 1..n + 1 : i \in 1..n \/ i = n + 1
    BY <1>1
  <2>. QED BY <1>1, <1>2, <2>1 DEF Marked, PlainFrame
<1>5. \A i \in Marked(gs) : hs[i] = gs[i]
  BY <1>1, <1>2 DEF Marked
<1>. QED BY <1>3, <1>4, <1>5 DEF Quiet, hs

LEMMA QuietPop ==
  ASSUME NEW fs, FramesOk(fs), fs # <<>>, Last(fs).f \notin {"thunk", "leave"}
  PROVE  Quiet(fs, Front(fs))
<1>. DEFINE gs == Front(fs)
            n == Len(fs)
<1>1. IsSeq(fs) /\ n \in Nat \ {0} /\ DOMAIN fs = 1..n /\ Last(fs) = fs[n]
      /\ IsSeq(gs) /\ DOMAIN gs = 1..n - 1 /\ \A i \in 1..n - 1 : gs[i] = fs[i]
  BY FrontIs, SeqParts DEF FramesOk
<1>. HIDE DEF gs, n
<1>2. FramesOk(gs)
  BY <1>1 DEF FramesOk
<1>3. Marked(gs) = Marked(fs)
  <2>1. \A i \in 1..n : i \in 1..n - 1 \/ i = n
    BY <1>1
  <2>. QED BY <1>1, <2>1 DEF Marked
<1>4. \A i \in Marked(fs) : gs[i] = fs[i]
  BY <1>1, <1>3 DEF Marked
<1>. QED BY <1>2, <1>3, <1>4 DEF Quiet, gs

LEMMA QuietKeeps ==
  ASSUME NEW fs, NEW gs, Quiet(fs, gs)
  PROVE  SameWaits(fs, gs) /\ Leaves(gs) = Leaves(fs) /\ \A i \in Leaves(fs) : gs[i] = fs[i]
<1>1. \A i : /\ i \in DOMAIN fs /\ fs[i].f \in {"thunk", "leave"} <=> i \in DOMAIN gs /\ gs[i].f \in {"thunk", "leave"}
             /\ i \in DOMAIN fs /\ fs[i].f \in {"thunk", "leave"} => gs[i] = fs[i]
  BY DEF Quiet, Marked
<1>2. SameWaits(fs, gs)
  BY <1>1 DEF SameWaits
<1>3. Leaves(gs) = Leaves(fs) /\ \A i \in Leaves(fs) : gs[i] = fs[i]
  BY <1>1 DEF Leaves
<1>. QED BY <1>2, <1>3

LEMMA GrowsOk ==
  ASSUME NEW ts, NEW us, ThunksOk(ts), Grows(ts, us)
  PROVE  ThunksOk(us)
BY DEF ThunksOk, Grows

LEMMA GrowsSame ==
  ASSUME NEW ts
  PROVE  Grows(ts, ts)
BY DEF Grows

\* What holds of the innermost loop.
LEMMA InnerIs ==
  ASSUME MachineIInv
  PROVE  /\ Len(loops) \in Nat \ {0} /\ DOMAIN loops = 1..Len(loops)
         /\ LoopOk(Inner) /\ FramesOk(Frames) /\ CodesOk(Natives)
         /\ Bottom(loops, Len(loops)) \in 0..MaxCallDepth + 1 /\ depth \in 0..MaxCallDepth + 1
         /\ Counts(Frames, Natives, Bottom(loops, Len(loops)), depth)
         /\ Len(loops) # 1 => Stands(Frames, Natives) /\ Fits(step.s, Natives)
<1>1. IsSeq(loops) /\ loops # <<>>
  BY DEF MachineIInv, LoopsOk
<1>2. Len(loops) \in Nat \ {0} /\ DOMAIN loops = 1..Len(loops)
  BY <1>1, SeqParts
<1>3. LoopOk(Inner) /\ FramesOk(Frames) /\ CodesOk(Natives)
  BY <1>2 DEF MachineIInv, LoopsOk, LoopOk, Inner, Frames, Natives
<1>4. Bottom(loops, Len(loops)) \in 0..MaxCallDepth + 1 /\ depth \in 0..MaxCallDepth + 1
  BY <1>2, CallDepthAssumption DEF MachineIInv, Levels, Bottom
<1>5. Counts(Frames, Natives, Bottom(loops, Len(loops)), depth)
  <2>1. Len(loops) \in 1..Len(loops) /\ Ceiling(loops, Len(loops), depth) = depth
    BY <1>2 DEF Ceiling
  <2>2. Counts(loops[Len(loops)].frames, loops[Len(loops)].natives, Bottom(loops, Len(loops)),
               Ceiling(loops, Len(loops), depth))
    BY <2>1 DEF MachineIInv, Levels
  <2>. QED BY <2>1, <2>2 DEF Inner, Frames, Natives
<1>6. Len(loops) # 1 => Stands(Frames, Natives) /\ Fits(step.s, Natives)
  BY <1>2 DEF MachineIInv, Stacks, Control, Inner, Frames, Natives
<1>. QED BY <1>2, <1>3, <1>4, <1>5, <1>6

LEMMA GoIs ==
  ASSUME MachineIInv, NEW fs, NEW ns, NEW s
  PROVE  /\ GoNative(fs, ns, s) => loops' = WithTop(loops, fs, ns) /\ step' = s
         /\ Go(fs, s) => loops' = WithTop(loops, fs, <<>>) /\ step' = s
         /\ Continue(ns, s) => loops' = WithTop(loops, Frames, ns) /\ step' = s
<1>1. Len(loops) \in DOMAIN loops /\ Inner = [frames |-> Frames, natives |-> Natives, base |-> Inner.base]
  BY InnerIs DEF LoopOk, Frames, Natives
<1>2. ASSUME NEW gs, NEW ms
      PROVE  [loops EXCEPT ![Len(loops)].frames = gs, ![Len(loops)].natives = ms] = WithTop(loops, gs, ms)
  <2>. DEFINE one == [loops EXCEPT ![Len(loops)].frames = gs]
  <2>1. one = [loops EXCEPT ![Len(loops)] = [Inner EXCEPT !.frames = gs]]
    BY DEF Inner
  <2>2. [Inner EXCEPT !.frames = gs] = [frames |-> gs, natives |-> Natives, base |-> Inner.base]
    BY <1>1
  <2>3. one[Len(loops)] = [frames |-> gs, natives |-> Natives, base |-> Inner.base]
    BY <1>1, <2>1, <2>2
  <2>4. [one EXCEPT ![Len(loops)].natives = ms] = [one EXCEPT ![Len(loops)] = [one[Len(loops)] EXCEPT !.natives = ms]]
    OBVIOUS
  <2>5. [one[Len(loops)] EXCEPT !.natives = ms] = [frames |-> gs, natives |-> ms, base |-> Inner.base]
    BY <2>3
  <2>. QED BY <1>1, <2>1, <2>4, <2>5 DEF WithTop, Inner
<1>. QED BY <1>2 DEF Go, GoNative, Continue

\* Where the stacks and the depth of the innermost loop fit, the invariant holds.
LEMMA TopMoves ==
  ASSUME MachineIInv, Len(loops) # 1, NEW fs, NEW ns, FramesOk(fs), CodesOk(ns), loops' = WithTop(loops, fs, ns),
         Blackholes(loops', thunks'), ThunksOk(thunks'), depth' \in 0..MaxCallDepth + 1,
         Counts(fs, ns, Bottom(loops, Len(loops)), depth'), Stands(fs, ns), Fits(step'.s, ns)
  PROVE  MachineIInv'
<1>1. LoopsOk(loops')
  BY TopOk DEF MachineIInv
<1>2. Levels(loops', depth')
  BY TopLevels DEF MachineIInv
<1>3. Stacks(loops')
  BY TopStacks DEF MachineIInv
<1>4. Len(loops') = Len(loops) /\ loops'[Len(loops)].natives = ns
  BY TopIs DEF MachineIInv
<1>5. Control(loops', step'.s)
  BY <1>4 DEF Control
<1>. QED BY <1>1, <1>2, <1>3, <1>5 DEF MachineIInv

LEMMA CountsCalls ==
  ASSUME NEW fs, NEW ns, NEW b \in 0..MaxCallDepth + 1, NEW t \in 0..MaxCallDepth + 1, Deepers(ns) = {}
  PROVE  Counts(fs, ns, b, t) <=> Climbs(fs, Leaves(fs), b, t)
<1>1. \A mid \in 0..MaxCallDepth + 1 : Climbs(ns, Deepers(ns), mid, t) <=> t = mid
  BY ClimbsNone, CallDepthAssumption
<1>. QED BY <1>1 DEF Counts

\* Frames of the loop come and go, and thunks come that are not forced.
LEMMA TurnKeeps ==
  ASSUME MachineIInv, Len(loops) # 1, Deepers(Natives) = {}, NEW fs, NEW ns, Quiet(Frames, fs),
         loops' = WithTop(loops, fs, ns), CodesOk(ns), Deepers(ns) = {}, Stands(fs, ns),
         Grows(thunks, thunks'), depth' = depth, Fits(step'.s, ns)
  PROVE  MachineIInv'
<1>1. FramesOk(fs) /\ ThunksOk(thunks')
  BY GrowsOk DEF Quiet, MachineIInv
<1>2. SameWaits(Frames, fs) /\ Leaves(fs) = Leaves(Frames) /\ \A i \in Leaves(Frames) : fs[i] = Frames[i]
  BY QuietKeeps
<1>3. Blackholes(loops', thunks')
  BY <1>2, TopBlackholes DEF MachineIInv, Frames, Inner
<1>4. Climbs(Frames, Leaves(Frames), Bottom(loops, Len(loops)), depth)
  BY InnerIs, CountsCalls
<1>5. Climbs(fs, Leaves(fs), Bottom(loops, Len(loops)), depth)
  BY <1>2, <1>4, ClimbsSame
<1>6. Counts(fs, ns, Bottom(loops, Len(loops)), depth')
  BY <1>5, InnerIs, CountsCalls
<1>. QED BY <1>1, <1>3, <1>6, InnerIs, TopMoves

\* A call: its frame goes on top of the loop's.
Leave == [f |-> "leave", depth |-> depth]

LEMMA LeaveClimbs ==
  ASSUME NEW fs, IsSeq(fs), NEW b \in Int, depth \in Int, Climbs(fs, Leaves(fs), b, depth)
  PROVE  Climbs(Append(fs, Leave), Leaves(Append(fs, Leave)), b, depth + 1)
<1>. DEFINE gs == Append(fs, Leave)
            n == Len(fs) + 1
<1>1. Len(fs) \in Nat /\ DOMAIN fs = 1..Len(fs) /\ DOMAIN gs = 1..n
      /\ (\A i \in 1..Len(fs) : gs[i] = fs[i]) /\ gs[n] = Leave
  BY AppendIs, SeqParts
<1>2. n \in Int /\ \A i \in DOMAIN fs : i \in Int /\ i < n /\ gs[i] = fs[i]
  BY <1>1
<1>3. DOMAIN gs = DOMAIN fs \cup {n}
  BY <1>1
<1>. HIDE DEF gs, n
<1>4. Leaves(gs) = Leaves(fs) \cup {n}
  <2>1. gs[n].f = "leave" /\ \A i \in DOMAIN fs : gs[i] = fs[i]
    BY <1>1, <1>2 DEF Leave
  <2>. QED BY <1>3, <2>1 DEF Leaves
<1>5. Leaves(fs) \in SUBSET Int /\ \A i \in Leaves(fs) : i < n /\ gs[i].depth = fs[i].depth
  BY <1>2 DEF Leaves
<1>6. gs[n].depth = depth
  BY <1>1 DEF Leave
<1>7. Climbs(gs, Leaves(fs) \cup {n}, b, depth + 1)
  BY <1>2, <1>5, <1>6, ClimbsUp
<1>. QED BY <1>4, <1>7 DEF gs

LEMMA EnterKeeps ==
  ASSUME MachineIInv, Len(loops) # 1, Deepers(Natives) = {}, NEW fs, NEW gs, NEW ns, Quiet(Frames, fs),
         Quiet(Append(fs, Leave), gs), loops' = WithTop(loops, gs, ns), CodesOk(ns), Deepers(ns) = {}, Stands(gs, ns),
         Grows(thunks, thunks'), ~Full, depth' = depth + 1, Fits(step'.s, ns)
  PROVE  MachineIInv'
<1>. DEFINE hs == Append(fs, Leave)
            b == Bottom(loops, Len(loops))
<1>1. IsSeq(fs) /\ Len(fs) \in Nat /\ DOMAIN fs = 1..Len(fs) /\ DOMAIN hs = 1..Len(fs) + 1
      /\ (\A i \in 1..Len(fs) : hs[i] = fs[i]) /\ hs[Len(fs) + 1] = Leave
  BY AppendIs, SeqParts DEF Quiet, FramesOk
<1>2. SameWaits(Frames, fs) /\ Leaves(fs) = Leaves(Frames) /\ \A i \in Leaves(Frames) : fs[i] = Frames[i]
  BY QuietKeeps
<1>3. SameWaits(hs, gs) /\ Leaves(gs) = Leaves(hs) /\ \A i \in Leaves(hs) : gs[i] = hs[i]
  BY QuietKeeps
<1>4. SameWaits(fs, hs)
  <2>1. \A i \in 1..Len(fs) + 1 : i \in 1..Len(fs) \/ i = Len(fs) + 1
    BY <1>1
  <2>. HIDE DEF hs
  <2>. QED BY <1>1, <2>1 DEF SameWaits, Leave
<1>5. SameWaits(Frames, gs)
  <2>. HIDE DEF hs
  <2>. QED BY <1>2, <1>3, <1>4 DEF SameWaits
<1>6. FramesOk(gs) /\ ThunksOk(thunks')
  BY GrowsOk DEF Quiet, MachineIInv
<1>7. Blackholes(loops', thunks')
  BY <1>5, TopBlackholes DEF MachineIInv, Frames, Inner
<1>8. b \in 0..MaxCallDepth + 1 /\ depth \in 0..MaxCallDepth + 1 /\ depth' \in 0..MaxCallDepth + 1
  BY InnerIs, CallDepthAssumption DEF Full
<1>9. Climbs(Frames, Leaves(Frames), b, depth)
  BY <1>8, InnerIs, CountsCalls
<1>10. Climbs(fs, Leaves(fs), b, depth)
  BY <1>2, <1>9, ClimbsSame
<1>11. Climbs(hs, Leaves(hs), b, depth + 1)
  BY <1>1, <1>8, <1>10, LeaveClimbs
<1>12. Climbs(gs, Leaves(gs), b, depth')
  BY <1>3, <1>11, ClimbsSame
<1>13. Counts(gs, ns, b, depth')
  BY <1>8, <1>12, CountsCalls
<1>. QED BY <1>6, <1>7, <1>8, <1>13, TopMoves

-----------------------------------------------------------------------------
(* EvalMachine: thunks that are forced, and their values.                  *)

\* The n-th frame of gs, and no frame of fs, waits for the thunk `id`.
AddsWait(fs, gs, n, id) ==
  /\ n \in DOMAIN gs /\ gs[n].f = "thunk" /\ gs[n].id = id
  /\ ~(n \in DOMAIN fs /\ fs[n].f = "thunk")
  /\ \A i : i # n =>
       /\ (i \in DOMAIN fs /\ fs[i].f = "thunk") <=> (i \in DOMAIN gs /\ gs[i].f = "thunk")
       /\ (i \in DOMAIN fs /\ fs[i].f = "thunk") => gs[i].id = fs[i].id

LEMMA WaitsAdded ==
  ASSUME NEW ls, NEW ms, NEW M, NEW n, NEW id, M \in DOMAIN ls, DOMAIN ms = DOMAIN ls,
         \A l \in DOMAIN ls \ {M} : ms[l] = ls[l], AddsWait(ls[M].frames, ms[M].frames, n, id)
  PROVE  /\ Waits(ms, M, n) /\ Awaits(ms, M, n) = id /\ ~Waits(ls, M, n)
         /\ \A l, i : ~(l = M /\ i = n) => /\ Waits(ms, l, i) <=> Waits(ls, l, i)
                                           /\ Waits(ls, l, i) => Awaits(ms, l, i) = Awaits(ls, l, i)
<1>1. Waits(ms, M, n) /\ Awaits(ms, M, n) = id /\ ~Waits(ls, M, n)
  BY DEF AddsWait, Waits, Awaits
<1>2. ASSUME NEW l, NEW i, ~(l = M /\ i = n)
      PROVE  /\ Waits(ms, l, i) <=> Waits(ls, l, i)
             /\ Waits(ls, l, i) => Awaits(ms, l, i) = Awaits(ls, l, i)
  <2>1. CASE l = M
    BY <2>1, <1>2 DEF AddsWait, Waits, Awaits
  <2>2. CASE l # M
    BY <2>2 DEF Waits, Awaits
  <2>. QED BY <2>1, <2>2
<1>. QED BY <1>1, <1>2

LEMMA TopForces ==
  ASSUME NEW ls, NEW ts, LoopsOk(ls), Blackholes(ls, ts), NEW gs, NEW ns, NEW n, NEW id \in DOMAIN ts,
         AddsWait(ls[Len(ls)].frames, gs, n, id), ts[id] # Blackhole
  PROVE  Blackholes(WithTop(ls, gs, ns), [ts EXCEPT ![id] = Blackhole])
<1>. DEFINE ms == WithTop(ls, gs, ns)
            M == Len(ls)
            us == [ts EXCEPT ![id] = Blackhole]
<1>0. ms = WithTop(ls, gs, ns)
  OBVIOUS
<1>. HIDE DEF ms
<1>1. M \in DOMAIN ls /\ DOMAIN ms = DOMAIN ls /\ ms[M].frames = gs /\ \A l \in DOMAIN ls \ {M} : ms[l] = ls[l]
  BY <1>0, TopIs
<1>. HIDE DEF M
<1>2. AddsWait(ls[M].frames, ms[M].frames, n, id)
  BY <1>1 DEF M
<1>3. /\ Waits(ms, M, n) /\ Awaits(ms, M, n) = id /\ ~Waits(ls, M, n)
      /\ \A l, i : ~(l = M /\ i = n) => /\ Waits(ms, l, i) <=> Waits(ls, l, i)
                                        /\ Waits(ls, l, i) => Awaits(ms, l, i) = Awaits(ls, l, i)
  BY <1>1, <1>2, WaitsAdded
<1>4. \A l, i : Waits(ls, l, i) => Awaits(ls, l, i) \in DOMAIN ts /\ ts[Awaits(ls, l, i)] = Blackhole
  BY DEF Blackholes, Awaited, Waits
<1>5. \A l, i : Waits(ls, l, i) => Awaits(ls, l, i) # id
  BY <1>4
<1>6. DOMAIN us = DOMAIN ts /\ us[id] = Blackhole /\ \A x \in DOMAIN ts \ {id} : us[x] = ts[x]
  OBVIOUS
<1>. HIDE DEF us
<1>7. Awaited(ms, us)
  BY <1>3, <1>4, <1>6 DEF Awaited
<1>8. AwaitedOnce(ms)
  <2>. SUFFICES ASSUME NEW l, NEW m, NEW i, NEW j, Waits(ms, l, i), Waits(ms, m, j), Awaits(ms, l, i) = Awaits(ms, m, j)
                PROVE  l = m /\ i = j
    BY DEF AwaitedOnce
  <2>1. CASE l = M /\ i = n
    BY <2>1, <1>3, <1>5
  <2>2. CASE m = M /\ j = n
    BY <2>2, <1>3, <1>5
  <2>3. CASE ~(l = M /\ i = n) /\ ~(m = M /\ j = n)
    <3>1. Waits(ls, l, i) /\ Waits(ls, m, j) /\ Awaits(ls, l, i) = Awaits(ls, m, j)
      BY <2>3, <1>3
    <3>. QED BY <3>1 DEF Blackholes, AwaitedOnce, Waits
  <2>. QED BY <2>1, <2>2, <2>3
<1>9. Held(ms, us)
  <2>. SUFFICES ASSUME NEW x \in DOMAIN us, us[x] = Blackhole
                PROVE  \E l, i : Waits(ms, l, i) /\ Awaits(ms, l, i) = x
    BY DEF Held, Waits
  <2>1. CASE x = id
    BY <2>1, <1>3
  <2>2. CASE x # id
    <3>1. PICK l, i : Waits(ls, l, i) /\ Awaits(ls, l, i) = x
      BY <2>2, <1>6 DEF Blackholes, Held
    <3>. QED BY <3>1, <1>3
  <2>. QED BY <2>1, <2>2
<1>. QED BY <1>7, <1>8, <1>9 DEF Blackholes, ms, us

LEMMA TopResumes ==
  ASSUME NEW ls, NEW ts, LoopsOk(ls), Blackholes(ls, ts), NEW gs, NEW ns, NEW n, NEW id, NEW t, t # Blackhole,
         AddsWait(gs, ls[Len(ls)].frames, n, id)
  PROVE  Blackholes(WithTop(ls, gs, ns), [ts EXCEPT ![id] = t])
<1>. DEFINE ms == WithTop(ls, gs, ns)
            M == Len(ls)
            us == [ts EXCEPT ![id] = t]
<1>0. ms = WithTop(ls, gs, ns)
  OBVIOUS
<1>. HIDE DEF ms
<1>1. M \in DOMAIN ls /\ DOMAIN ms = DOMAIN ls /\ ms[M].frames = gs /\ \A l \in DOMAIN ls \ {M} : ms[l] = ls[l]
  BY <1>0, TopIs
<1>. HIDE DEF M
<1>2. AddsWait(ms[M].frames, ls[M].frames, n, id) /\ M \in DOMAIN ms /\ \A l \in DOMAIN ms \ {M} : ls[l] = ms[l]
  BY <1>1 DEF M
<1>3. /\ Waits(ls, M, n) /\ Awaits(ls, M, n) = id /\ ~Waits(ms, M, n)
      /\ \A l, i : ~(l = M /\ i = n) => /\ Waits(ls, l, i) <=> Waits(ms, l, i)
                                        /\ Waits(ms, l, i) => Awaits(ls, l, i) = Awaits(ms, l, i)
  BY <1>1, <1>2, WaitsAdded
<1>4. \A l, i : Waits(ls, l, i) => Awaits(ls, l, i) \in DOMAIN ts /\ ts[Awaits(ls, l, i)] = Blackhole
  BY DEF Blackholes, Awaited, Waits
<1>5. \A l, m, i, j : Waits(ls, l, i) /\ Waits(ls, m, j) /\ Awaits(ls, l, i) = Awaits(ls, m, j) => l = m /\ i = j
  BY DEF Blackholes, AwaitedOnce, Waits
<1>6. \A l, i : Waits(ms, l, i) => ~(l = M /\ i = n) /\ Waits(ls, l, i) /\ Awaits(ms, l, i) = Awaits(ls, l, i)
                                   /\ Awaits(ms, l, i) # id
  BY <1>3, <1>5
<1>7. DOMAIN us = DOMAIN ts /\ us[id] # Blackhole /\ \A x \in DOMAIN ts \ {id} : us[x] = ts[x]
  BY <1>3, <1>4
<1>. HIDE DEF us
<1>8. Awaited(ms, us)
  BY <1>4, <1>6, <1>7 DEF Awaited
<1>9. AwaitedOnce(ms)
  BY <1>5, <1>6 DEF AwaitedOnce
<1>10. Held(ms, us)
  <2>. SUFFICES ASSUME NEW x \in DOMAIN us, us[x] = Blackhole
                PROVE  \E l, i : Waits(ms, l, i) /\ Awaits(ms, l, i) = x
    BY DEF Held, Waits
  <2>1. x # id /\ x \in DOMAIN ts /\ ts[x] = Blackhole
    BY <1>7
  <2>2. PICK l, i : Waits(ls, l, i) /\ Awaits(ls, l, i) = x
    BY <2>1 DEF Blackholes, Held
  <2>. QED BY <2>1, <2>2, <1>3
<1>. QED BY <1>8, <1>9, <1>10 DEF Blackholes, ms, us

LEMMA AppendWaits ==
  ASSUME NEW fs, NEW gs, NEW x, FramesOk(fs), SameWaits(gs, fs), FrameOk(x), x.f = "thunk"
  PROVE  /\ AddsWait(gs, Append(fs, x), Len(fs) + 1, x.id) /\ FramesOk(Append(fs, x))
         /\ Leaves(Append(fs, x)) = Leaves(fs) /\ \A i \in Leaves(fs) : Append(fs, x)[i] = fs[i]
<1>. DEFINE hs == Append(fs, x)
            n == Len(fs) + 1
<1>1. Len(fs) \in Nat /\ DOMAIN fs = 1..Len(fs) /\ IsSeq(hs) /\ DOMAIN hs = 1..n
      /\ (\A i \in 1..Len(fs) : hs[i] = fs[i]) /\ hs[n] = x
  BY AppendIs, SeqParts DEF FramesOk
<1>2. DOMAIN hs = DOMAIN fs \cup {n} /\ n \notin DOMAIN fs /\ \A i \in DOMAIN fs : hs[i] = fs[i]
  BY <1>1
<1>3. IsSeq(hs) /\ hs[n] = x
  BY <1>1
<1>. HIDE DEF hs, n
<1>4. AddsWait(gs, hs, n, x.id)
  <2>1. ~(n \in DOMAIN gs /\ gs[n].f = "thunk")
    BY <1>2 DEF SameWaits
  <2>2. \A i : i # n => /\ (i \in DOMAIN fs /\ fs[i].f = "thunk") <=> (i \in DOMAIN hs /\ hs[i].f = "thunk")
                        /\ (i \in DOMAIN fs /\ fs[i].f = "thunk") => hs[i].id = fs[i].id
    BY <1>2
  <2>3. n \in DOMAIN hs /\ hs[n].f = "thunk" /\ hs[n].id = x.id
    BY <1>2, <1>3
  <2>. QED BY <2>1, <2>2, <2>3 DEF AddsWait, SameWaits
<1>5. FramesOk(hs)
  BY <1>2, <1>3 DEF FramesOk
<1>6. Leaves(hs) = Leaves(fs) /\ \A i \in Leaves(fs) : hs[i] = fs[i]
  BY <1>2, <1>3 DEF Leaves
<1>. QED BY <1>4, <1>5, <1>6 DEF hs, n

\* Frames that start with a leave on top of others wait as those do.
LEMMA AppendLeaves ==
  ASSUME NEW fs, FramesOk(fs)
  PROVE  /\ SameWaits(fs, Append(fs, Leave)) /\ FramesOk(Append(fs, Leave))
         /\ Append(fs, Leave) # <<>> /\ Append(fs, Leave)[Len(Append(fs, Leave))].f = "leave"
<1>. DEFINE hs == Append(fs, Leave)
            n == Len(fs) + 1
<1>1. Len(fs) \in Nat /\ DOMAIN fs = 1..Len(fs) /\ IsSeq(hs) /\ DOMAIN hs = 1..n /\ Len(hs) = n /\ hs # <<>>
      /\ (\A i \in 1..Len(fs) : hs[i] = fs[i]) /\ hs[n] = Leave
  BY AppendIs, SeqParts DEF FramesOk
<1>2. DOMAIN hs = DOMAIN fs \cup {n} /\ n \notin DOMAIN fs /\ \A i \in DOMAIN fs : hs[i] = fs[i]
  BY <1>1
<1>3. IsSeq(hs) /\ hs[n] = Leave /\ Len(hs) = n /\ hs # <<>>
  BY <1>1
<1>. HIDE DEF hs, n
<1>4. SameWaits(fs, hs)
  BY <1>2, <1>3 DEF SameWaits, Leave
<1>5. FramesOk(hs)
  BY <1>2, <1>3 DEF FramesOk, FrameOk, Leave
<1>6. hs[Len(hs)].f = "leave"
  BY <1>3 DEF Leave
<1>. QED BY <1>3, <1>4, <1>5, <1>6 DEF hs

LEMMA NoNatives == CodesOk(<<>>) /\ Deepers(<<>>) = {} /\ \A fs : Stands(fs, <<>>)
BY EmptyAndOne DEF CodesOk, Deepers, Stands

\* What the loop goes on with when no native code waits.
Steps == {"eval", "force", "call", "return", "throw"}

LEMMA GoKeeps ==
  ASSUME MachineIInv, Len(loops) # 1, Deepers(Natives) = {}, NEW fs, NEW s, Quiet(Frames, fs), Go(fs, s), s.s \in Steps,
         Grows(thunks, thunks'), depth' = depth
  PROVE  MachineIInv'
<1>1. loops' = WithTop(loops, fs, <<>>) /\ step' = s
  BY GoIs
<1>2. Fits(step'.s, <<>>)
  BY <1>1 DEF Fits, Steps
<1>. QED BY <1>1, <1>2, NoNatives, TurnKeeps

\* Native code of a builtin, above the call's own.
PlainCode(c) == CodeOk(c) /\ c.n \notin Bottoms \cup {"select", "deeper"}
PlainCodes(ms) == IsSeq(ms) /\ \A i \in DOMAIN ms : PlainCode(ms[i])

LEMMA ResultIs ==
  ASSUME NEW ms, PlainCodes(ms), NEW ns, ns = <<[n |-> "result"]>> \o ms
  PROVE  /\ CodesOk(ns) /\ Deepers(ns) = {} /\ Ready(ns)
         /\ \A fs : fs # <<>> /\ fs[Len(fs)].f = "leave" => Stands(fs, ns)
<1>. DEFINE r == [n |-> "result"]
            S == {ms[i] : i \in DOMAIN ms}
            T == S \cup {r}
            k == Len(ms)
<1>1. ms \in Seq(S) /\ S \subseteq T /\ r \in T /\ r.n = "result"
  BY DEF PlainCodes, IsSeq
<1>2. k \in Nat /\ DOMAIN ms = 1..k
  BY SeqParts DEF PlainCodes
<1>. HIDE DEF r, S
<1>3. ms \in Seq(T) /\ <<r>> \in Seq(T) /\ Len(<<r>>) = 1 /\ <<r>>[1] = r
  BY <1>1, SeqMonotonic
<1>. HIDE DEF T, k
<1>4. ns \in Seq(T) /\ Len(ns) = k + 1
      /\ \A i \in 1..k + 1 : ns[i] = IF i <= 1 THEN r ELSE ms[i - 1]
  BY <1>2, <1>3, ConcatProperties DEF r, k
<1>5. ns \in [1..k + 1 -> T]
  BY <1>4, LenProperties
<1>6. IsSeq(ns) /\ DOMAIN ns = 1..k + 1
  <2>1. k + 1 \in Nat /\ DOMAIN ns = 1..k + 1 /\ ns = [i \in 1..k + 1 |-> ns[i]]
    BY <1>2, <1>5
  <2>. QED BY <2>1, FunctionIsSeq
<1>7. 1 \in DOMAIN ns /\ ns[1] = r
  BY <1>2, <1>4, <1>6
<1>8. \A i \in DOMAIN ns : i = 1 \/ (i # 1 /\ i - 1 \in DOMAIN ms /\ ns[i] = ms[i - 1])
  BY <1>2, <1>4, <1>6
<1>9. \A i \in DOMAIN ns : i = 1 \/ (i # 1 /\ PlainCode(ns[i]))
  BY <1>8 DEF PlainCodes
<1>10. CodesOk(ns)
  BY <1>6, <1>7, <1>9 DEF CodesOk, CodeOk, PlainCode, r
<1>11. Deepers(ns) = {}
  BY <1>1, <1>7, <1>9 DEF Deepers, PlainCode
<1>12. ns # <<>> /\ ns[1].n = "result"
  BY <1>1, <1>7, EmptyAndOne
<1>13. \A i \in DOMAIN ns : ns[i].n # "select" /\ (i = 1 <=> ns[i].n \in Bottoms)
  BY <1>9, <1>12 DEF PlainCode, Bottoms
<1>. QED BY <1>10, <1>11, <1>12, <1>13 DEF Stands, Ready

LEMMA CallsClimb ==
  ASSUME MachineIInv, Deepers(Natives) = {}
  PROVE  Climbs(Frames, Leaves(Frames), Bottom(loops, Len(loops)), depth)
BY InnerIs, CountsCalls

\* force_step keeps the invariant, from the frames it is called with.
LEMMA ForceKeeps ==
  ASSUME MachineIInv, Len(loops) # 1, Deepers(Natives) = {}, NEW fs, NEW v, Quiet(Frames, fs), ForceStep(fs, v)
  PROVE  MachineIInv'
<1>. USE DEF heap
<1>1. CASE Whnf(v) /\ Go(fs, Return(Forced(v))) /\ UNCHANGED <<heap, depth>>
  BY <1>1, GoKeeps, GrowsSame DEF Return, Steps
<1>2. CASE Go(fs, Throw("recursion")) /\ UNCHANGED <<heap, depth>>
  BY <1>2, GoKeeps, GrowsSame DEF Throw, Steps
<1>. DEFINE was == thunks[v.id]
            x == [f |-> "thunk", id |-> v.id, was |-> was]
            gs == Append(fs, x)
            b == Bottom(loops, Len(loops))
<1>3. ASSUME v.id \in DOMAIN thunks, was.k \in {"expr", "app", "native"}, thunks' = [thunks EXCEPT ![v.id] = Blackhole],
             \/ was.k = "expr" /\ Go(gs, Eval(was.e, was.env)) /\ UNCHANGED depth
             \/ was.k = "app" /\ Go(gs, Call(was.fn, was.arg)) /\ UNCHANGED depth
             \/ was.k = "native" /\ Full /\ Go(gs, Throw("overflow")) /\ UNCHANGED depth
             \/ /\ was.k = "native" /\ ~Full
                /\ GoNative(Append(gs, [f |-> "leave", depth |-> depth]), <<[n |-> "result"]>> \o was.after, Want(was.first))
                /\ depth' = depth + 1
      PROVE  MachineIInv'
  <2>1. was # Blackhole /\ Dormant(was) /\ ThunksOk(thunks')
    BY <1>3 DEF MachineIInv, ThunksOk, Blackhole
  <2>2. FrameOk(x) /\ x.f = "thunk" /\ x.id = v.id
    BY <2>1 DEF FrameOk
  <2>3. FramesOk(fs) /\ SameWaits(Frames, fs) /\ Leaves(fs) = Leaves(Frames) /\ \A i \in Leaves(Frames) : fs[i] = Frames[i]
    BY QuietKeeps DEF Quiet
  <2>. HIDE DEF x
  <2>4. AddsWait(Frames, gs, Len(fs) + 1, v.id) /\ FramesOk(gs) /\ Leaves(gs) = Leaves(fs) /\ \A i \in Leaves(fs) : gs[i] = fs[i]
    BY <2>2, <2>3, AppendWaits
  <2>. HIDE DEF gs
  <2>5. Climbs(gs, Leaves(gs), b, depth)
    BY <2>3, <2>4, CallsClimb, ClimbsSame
  <2>6. b \in 0..MaxCallDepth + 1 /\ depth \in 0..MaxCallDepth + 1
    BY InnerIs
  <2>7. ASSUME NEW s, Go(gs, s), UNCHANGED depth, s.s \in Steps PROVE MachineIInv'
    <3>1. loops' = WithTop(loops, gs, <<>>) /\ step' = s
      BY <2>7, GoIs
    <3>2. Blackholes(loops', thunks')
      BY <1>3, <2>1, <2>4, <3>1, TopForces DEF MachineIInv, Frames, Inner
    <3>3. Counts(gs, <<>>, b, depth')
      BY <2>5, <2>6, <2>7, NoNatives, CountsCalls
    <3>4. Fits(step'.s, <<>>)
      BY <2>7, <3>1 DEF Fits, Steps
    <3>. QED BY <2>1, <2>4, <2>6, <2>7, <3>1, <3>2, <3>3, <3>4, NoNatives, TopMoves
  <2>8. ASSUME was.k = "native", ~Full, depth' = depth + 1,
               GoNative(Append(gs, Leave), <<[n |-> "result"]>> \o was.after, Want(was.first))
        PROVE  MachineIInv'
    <3>. DEFINE hs == Append(gs, Leave)
                ns == <<[n |-> "result"]>> \o was.after
    <3>1. PlainCodes(was.after)
      <4>1. was.after = <<was.after[1]>> /\ "n" \in DOMAIN was.after[1] /\ was.after[1].n \in {"then", "build"}
        BY <2>1, <2>8 DEF Dormant
      <4>2. PlainCode(was.after[1])
        BY <4>1 DEF PlainCode, CodeOk, Bottoms
      <4>3. \A c : PlainCode(c) => PlainCodes(<<c>>)
        BY EmptyAndOne DEF PlainCodes
      <4>. QED BY <4>1, <4>2, <4>3
    <3>2. SameWaits(gs, hs) /\ FramesOk(hs) /\ hs # <<>> /\ hs[Len(hs)].f = "leave"
      BY <2>4, AppendLeaves
    <3>3. CodesOk(ns) /\ Deepers(ns) = {} /\ Ready(ns) /\ Stands(hs, ns)
      BY <3>1, <3>2, ResultIs
    <3>4. loops' = WithTop(loops, hs, ns) /\ step' = Want(was.first)
      BY <2>8, GoIs
    <3>5. AddsWait(Frames, hs, Len(fs) + 1, v.id)
      BY <2>4, <3>2 DEF AddsWait, SameWaits
    <3>6. Climbs(hs, Leaves(hs), b, depth')
      BY <2>4, <2>5, <2>6, <2>8, LeaveClimbs DEF FramesOk
    <3>7. depth' \in 0..MaxCallDepth + 1
      BY <2>6, <2>8, CallDepthAssumption DEF Full
    <3>. HIDE DEF hs, ns
    <3>8. Blackholes(loops', thunks')
      BY <1>3, <2>1, <3>4, <3>5, TopForces DEF MachineIInv, Frames, Inner
    <3>9. Counts(hs, ns, b, depth')
      BY <2>6, <3>3, <3>6, <3>7, CountsCalls
    <3>10. Fits(step'.s, ns)
      BY <3>3, <3>4 DEF Fits, Want, Ready
    <3>. QED BY <2>1, <3>2, <3>3, <3>4, <3>7, <3>8, <3>9, <3>10, TopMoves
  <2>. HIDE DEF was
  <2>9. Eval(was.e, was.env).s \in Steps /\ Call(was.fn, was.arg).s \in Steps /\ Throw("overflow").s \in Steps
    BY DEF Eval, Call, Throw, Steps
  <2>. QED BY <1>3, <2>7, <2>8, <2>9 DEF Leave
<1>. QED BY <1>1, <1>2, <1>3, Zenon DEF ForceStep

LEMMA FrontWaits ==
  ASSUME NEW fs, FramesOk(fs), fs # <<>>, Last(fs).f = "thunk"
  PROVE  /\ AddsWait(Front(fs), fs, Len(fs), Last(fs).id) /\ FramesOk(Front(fs))
         /\ Leaves(Front(fs)) = Leaves(fs) /\ \A i \in Leaves(fs) : Front(fs)[i] = fs[i]
<1>. DEFINE gs == Front(fs)
            n == Len(fs)
<1>1. IsSeq(fs) /\ n \in Nat \ {0} /\ DOMAIN fs = 1..n /\ Last(fs) = fs[n]
      /\ IsSeq(gs) /\ DOMAIN gs = 1..n - 1 /\ \A i \in 1..n - 1 : gs[i] = fs[i]
  BY FrontIs, SeqParts DEF FramesOk
<1>2. DOMAIN fs = DOMAIN gs \cup {n} /\ n \notin DOMAIN gs /\ \A i \in DOMAIN gs : gs[i] = fs[i]
  BY <1>1
<1>3. IsSeq(gs) /\ Last(fs) = fs[n]
  BY <1>1
<1>. HIDE DEF gs, n
<1>4. AddsWait(gs, fs, n, Last(fs).id)
  BY <1>2, <1>3 DEF AddsWait
<1>5. FramesOk(gs)
  BY <1>2, <1>3 DEF FramesOk
<1>6. Leaves(gs) = Leaves(fs) /\ \A i \in Leaves(fs) : gs[i] = fs[i]
  BY <1>2, <1>3 DEF Leaves
<1>. QED BY <1>4, <1>5, <1>6 DEF gs, n

LEMMA FrontLeaves ==
  ASSUME NEW fs, FramesOk(fs), fs # <<>>, Last(fs).f = "leave"
  PROVE  /\ SameWaits(fs, Front(fs)) /\ FramesOk(Front(fs))
         /\ Leaves(Front(fs)) = Leaves(fs) \ {Len(fs)} /\ Len(fs) \in Leaves(fs) /\ Last(fs) = fs[Len(fs)]
         /\ Leaves(fs) \in SUBSET Int
         /\ \A i \in Leaves(fs) : i <= Len(fs) /\ (i # Len(fs) => Front(fs)[i] = fs[i])
<1>. DEFINE gs == Front(fs)
            n == Len(fs)
<1>1. IsSeq(fs) /\ n \in Nat \ {0} /\ DOMAIN fs = 1..n /\ Last(fs) = fs[n]
      /\ IsSeq(gs) /\ DOMAIN gs = 1..n - 1 /\ \A i \in 1..n - 1 : gs[i] = fs[i]
  BY FrontIs, SeqParts DEF FramesOk
<1>2. DOMAIN fs = DOMAIN gs \cup {n} /\ n \notin DOMAIN gs /\ \A i \in DOMAIN gs : gs[i] = fs[i]
  BY <1>1
<1>3. IsSeq(gs) /\ Last(fs) = fs[n] /\ Leaves(fs) \in SUBSET Int /\ \A i \in Leaves(fs) : i <= n
  BY <1>1 DEF Leaves
<1>. HIDE DEF gs, n
<1>4. SameWaits(fs, gs)
  BY <1>2, <1>3 DEF SameWaits
<1>5. FramesOk(gs)
  BY <1>2, <1>3 DEF FramesOk
<1>6. Leaves(gs) = Leaves(fs) \ {n} /\ n \in Leaves(fs) /\ \A i \in Leaves(fs) : i # n => gs[i] = fs[i]
  BY <1>2, <1>3 DEF Leaves
<1>. QED BY <1>3, <1>4, <1>5, <1>6 DEF gs, n

LEMMA Returning ==
  ASSUME MachineIInv, step.s \in {"eval", "force", "call", "return"}
  PROVE  Len(loops) # 1 /\ Natives = <<>> /\ Deepers(Natives) = {}
<1>1. Len(loops) # 1
  BY DEF MachineIInv, Control
<1>. QED BY <1>1, InnerIs, NoNatives DEF Fits

LEMMA ResumeThunkKeeps ==
  ASSUME MachineIInv, ResumeThunk
  PROVE  MachineIInv'
<1>. DEFINE b == Bottom(loops, Len(loops))
            done == [k |-> "done", v |-> step.v]
<1>1. Len(loops) # 1 /\ Deepers(Natives) = {}
  BY Returning DEF ResumeThunk, Resuming
<1>2. FramesOk(Frames) /\ Frames # <<>> /\ Last(Frames).f = "thunk"
  BY InnerIs DEF ResumeThunk, Resuming, Top
<1>3. AddsWait(Rest, Frames, Len(Frames), Top.id) /\ FramesOk(Rest)
      /\ Leaves(Rest) = Leaves(Frames) /\ \A i \in Leaves(Frames) : Rest[i] = Frames[i]
  BY <1>2, FrontWaits DEF Rest, Top
<1>4. thunks' = [thunks EXCEPT ![Top.id] = done] /\ Go(Rest, Return(step.v)) /\ depth' = depth
  BY DEF ResumeThunk
<1>5. loops' = WithTop(loops, Rest, <<>>) /\ step' = Return(step.v)
  BY <1>4, GoIs
<1>6. done # Blackhole /\ Dormant(done)
  BY DEF Dormant, Blackhole
<1>. HIDE DEF done
<1>7. ThunksOk(thunks')
  BY <1>4, <1>6 DEF ThunksOk, MachineIInv
<1>8. Blackholes(loops', thunks')
  BY <1>3, <1>4, <1>5, <1>6, TopResumes DEF MachineIInv, Frames, Inner
<1>9. Climbs(Rest, Leaves(Rest), b, depth)
  BY <1>1, <1>3, CallsClimb, ClimbsSame
<1>10. Counts(Rest, <<>>, b, depth') /\ depth' \in 0..MaxCallDepth + 1
  BY <1>4, <1>9, InnerIs, NoNatives, CountsCalls
<1>11. Fits(step'.s, <<>>)
  BY <1>5 DEF Fits, Return
<1>. QED BY <1>1, <1>3, <1>5, <1>7, <1>8, <1>10, <1>11, NoNatives, TopMoves

LEMMA ResumeLeaveKeeps ==
  ASSUME MachineIInv, ResumeLeave
  PROVE  MachineIInv'
<1>. DEFINE b == Bottom(loops, Len(loops))
<1>1. Len(loops) # 1 /\ Deepers(Natives) = {}
  BY Returning DEF ResumeLeave, Resuming
<1>2. FramesOk(Frames) /\ Frames # <<>> /\ Last(Frames).f = "leave"
  BY InnerIs DEF ResumeLeave, Resuming, Top
<1>3. /\ SameWaits(Frames, Rest) /\ FramesOk(Rest)
      /\ Leaves(Rest) = Leaves(Frames) \ {Len(Frames)} /\ Len(Frames) \in Leaves(Frames) /\ Top = Frames[Len(Frames)]
      /\ Leaves(Frames) \in SUBSET Int
      /\ \A i \in Leaves(Frames) : i <= Len(Frames) /\ (i # Len(Frames) => Rest[i] = Frames[i])
  BY <1>2, FrontLeaves DEF Rest, Top
<1>4. thunks' = thunks /\ Go(Rest, Return(step.v)) /\ depth' = Top.depth
  BY DEF ResumeLeave, heap
<1>5. loops' = WithTop(loops, Rest, <<>>) /\ step' = Return(step.v)
  BY <1>4, GoIs
<1>6. ThunksOk(thunks')
  BY <1>4 DEF MachineIInv
<1>7. Blackholes(loops', thunks')
  BY <1>3, <1>4, <1>5, GrowsSame, TopBlackholes DEF MachineIInv, Frames, Inner
<1>8. Climbs(Frames, Leaves(Frames), b, depth) /\ b \in Int /\ depth \in Int
  BY <1>1, CallsClimb, InnerIs, CallDepthAssumption
<1>9. Climbs(Rest, Leaves(Rest), b, depth') /\ depth' \in b..depth - 1
  <2>1. Leaves(Frames) \in SUBSET Int /\ Len(Frames) \in Leaves(Frames)
        /\ (\A i \in Leaves(Frames) : i <= Len(Frames))
        /\ \A i \in Leaves(Frames) \ {Len(Frames)} : Rest[i].depth = Frames[i].depth
    BY <1>3
  <2>2. Climbs(Rest, Leaves(Frames) \ {Len(Frames)}, b, Frames[Len(Frames)].depth)
        /\ Frames[Len(Frames)].depth \in b..depth - 1
    BY <2>1, <1>8, ClimbsDown
  <2>. QED BY <1>3, <1>4, <2>2
<1>10. b \in 0..MaxCallDepth + 1 /\ depth' \in 0..MaxCallDepth + 1
  BY <1>9, InnerIs, CallDepthAssumption
<1>11. Counts(Rest, <<>>, b, depth')
  BY <1>9, <1>10, NoNatives, CountsCalls
<1>12. Fits(step'.s, <<>>)
  BY <1>5 DEF Fits, Return
<1>. QED BY <1>1, <1>3, <1>5, <1>6, <1>7, <1>10, <1>11, <1>12, NoNatives, TopMoves

-----------------------------------------------------------------------------
(* EvalMachine: loops start and end.                                       *)

\* Native code that may start a loop has counted a level of its own.
LEMMA ReadyIsDeeper ==
  ASSUME MachineIInv, Len(loops) # 1, Ready(Natives)
  PROVE  loops[Len(loops)].base < depth
<1>. DEFINE b == Bottom(loops, Len(loops))
<1>1. b = loops[Len(loops)].base /\ b \in 0..MaxCallDepth + 1 /\ depth \in 0..MaxCallDepth + 1
  BY InnerIs DEF Bottom
<1>. HIDE DEF b
<1>2. PICK mid \in 0..MaxCallDepth + 1 : Climbs(Frames, Leaves(Frames), b, mid) /\ Climbs(Natives, Deepers(Natives), mid, depth)
  BY InnerIs DEF Counts, b
<1>3. b <= mid /\ mid <= depth
  BY <1>2 DEF Climbs
<1>4. Stands(Frames, Natives) /\ IsSeq(Frames) /\ IsSeq(Natives)
  BY InnerIs DEF FramesOk, CodesOk
<1>5. CASE Natives[1].n = "result"
  <2>1. Frames # <<>> /\ Frames[Len(Frames)].f = "leave"
    BY <1>4, <1>5 DEF Stands, Ready
  <2>2. Len(Frames) \in Leaves(Frames)
    BY <1>4, <2>1, SeqParts DEF Leaves
  <2>3. b < mid
    BY <1>1, <1>2, <2>2, CallDepthAssumption DEF Climbs
  <2>. QED BY <1>1, <1>3, <2>3, CallDepthAssumption
<1>6. CASE Natives[1].n # "result"
  <2>1. Len(Natives) >= 2 /\ Natives[2].n = "deeper"
    BY <1>4, <1>6 DEF Stands, Ready
  <2>2. 2 \in Deepers(Natives)
    BY <1>4, <2>1, SeqParts DEF Deepers
  <2>3. mid < depth
    BY <1>1, <1>2, <2>2, CallDepthAssumption DEF Climbs
  <2>. QED BY <1>1, <1>3, <2>3, CallDepthAssumption
<1>. QED BY <1>5, <1>6

LEMMA RunLoopKeeps ==
  ASSUME MachineIInv, Len(loops) # 1 => Ready(Natives), NEW s, RunLoop(s), s.s \in {"force", "call"}, UNCHANGED <<heap, depth>>
  PROVE  MachineIInv'
<1>. DEFINE M == Len(loops)
            new == [frames |-> <<>>, natives |-> <<>>, base |-> depth]
<1>1. IsSeq(loops) /\ M \in Nat \ {0} /\ DOMAIN loops = 1..M
  BY InnerIs DEF MachineIInv, LoopsOk
<1>2. loops' = Append(loops, new) /\ step'.s \in {"force", "call"} /\ depth' = depth /\ thunks' = thunks
  BY DEF RunLoop, heap
<1>3. IsSeq(loops') /\ loops' # <<>> /\ Len(loops') = M + 1 /\ DOMAIN loops' = 1..M + 1
      /\ (\A l \in 1..M : loops'[l] = loops[l]) /\ loops'[M + 1] = new
  BY <1>1, <1>2, AppendIs
<1>4. new.frames = <<>> /\ new.natives = <<>> /\ new.base = depth
      /\ new = [frames |-> new.frames, natives |-> new.natives, base |-> new.base]
  OBVIOUS
<1>5. \A l \in DOMAIN loops' : l \in 1..M \/ l = M + 1
  BY <1>1, <1>3
<1>. HIDE DEF M, new
<1>6. LoopsOk(loops')
  <2>1. LoopOk(new)
    BY <1>4, EmptyAndOne, NoNatives DEF LoopOk, FramesOk
  <2>2. \A l \in 1..M : LoopOk(loops[l])
    BY <1>1 DEF MachineIInv, LoopsOk
  <2>. QED BY <1>3, <1>5, <2>1, <2>2 DEF LoopsOk
<1>7. Blackholes(loops', thunks')
  <2>1. ASSUME NEW l, NEW i
        PROVE  /\ Waits(loops', l, i) <=> Waits(loops, l, i)
               /\ Waits(loops, l, i) => Awaits(loops', l, i) = Awaits(loops, l, i)
    <3>1. M + 1 \notin DOMAIN loops /\ DOMAIN loops \subseteq DOMAIN loops'
      BY <1>1, <1>3
    <3>2. ~Waits(loops', M + 1, i)
      BY <1>3, <1>4, EmptyAndOne DEF Waits
    <3>. QED BY <1>1, <1>3, <1>5, <3>1, <3>2 DEF Waits, Awaits
  <2>. QED BY <1>2, <2>1, GrowsSame, SameBlackholes DEF MachineIInv
<1>8. Levels(loops', depth')
  <2>1. depth \in 0..MaxCallDepth + 1 /\ loops'[1].base = -1
    BY <1>1, <1>3 DEF MachineIInv, Levels
  <2>2. loops[M].base < depth
    <3>1. CASE M = 1
      BY <2>1, <3>1, CallDepthAssumption DEF MachineIInv, Levels
    <3>2. CASE M # 1
      BY <3>2, ReadyIsDeeper DEF M
    <3>. QED BY <3>1, <3>2
  <2>3. ASSUME NEW l \in 2..M + 1
        PROVE  loops'[l].base \in 0..MaxCallDepth + 1 /\ loops'[l - 1].base < loops'[l].base
    <3>1. CASE l = M + 1
      BY <1>1, <1>3, <1>4, <2>1, <2>2, <3>1
    <3>2. CASE l # M + 1
      <4>1. l \in 2..M /\ loops'[l] = loops[l] /\ loops'[l - 1] = loops[l - 1]
        BY <1>1, <1>3, <3>2
      <4>. QED BY <4>1 DEF MachineIInv, Levels, M
    <3>. QED BY <3>1, <3>2
  <2>4. ASSUME NEW l \in 1..M + 1
        PROVE  Counts(loops'[l].frames, loops'[l].natives, Bottom(loops', l), Ceiling(loops', l, depth'))
    <3>1. CASE l = M + 1
      <4>1. loops'[l].frames = <<>> /\ loops'[l].natives = <<>> /\ Bottom(loops', l) = depth
            /\ Ceiling(loops', l, depth') = depth
        BY <1>1, <1>2, <1>3, <1>4, <3>1 DEF Bottom, Ceiling
      <4>2. Leaves(<<>>) = {}
        BY EmptyAndOne DEF Leaves
      <4>3. Climbs(<<>>, Leaves(<<>>), depth, depth)
        <5>1. depth \in Int
          BY <2>1, CallDepthAssumption
        <5>2. Climbs(<<>>, {}, depth, depth)
          BY <5>1, ClimbsNone
        <5>. QED BY <4>2, <5>2
      <4>4. Counts(<<>>, <<>>, depth, depth)
        BY <2>1, <4>3, NoNatives, CountsCalls
      <4>. QED BY <4>1, <4>4
    <3>2. CASE l # M + 1
      <4>1. l \in 1..M
        BY <1>1, <3>2
      <4>2. loops'[l] = loops[l] /\ Bottom(loops', l) = Bottom(loops, l)
        BY <1>3, <4>1 DEF Bottom
      <4>3. Ceiling(loops', l, depth') = Ceiling(loops, l, depth)
        BY <1>1, <1>3, <1>4, <4>1 DEF Ceiling, M
      <4>. QED BY <4>1, <4>2, <4>3 DEF MachineIInv, Levels, M
    <3>. QED BY <3>1, <3>2
  <2>. QED BY <1>2, <1>3, <2>1, <2>3, <2>4 DEF Levels
<1>9. Stacks(loops')
  <2>1. loops'[1].frames = <<>> /\ loops'[1].natives \in {<<>>, <<[n |-> "select"]>>}
    BY <1>1, <1>3 DEF MachineIInv, Stacks
  <2>2. ASSUME NEW l \in 2..M + 1 PROVE Stands(loops'[l].frames, loops'[l].natives)
    <3>1. CASE l = M + 1
      BY <1>3, <1>4, <3>1, NoNatives
    <3>2. CASE l # M + 1
      <4>1. l \in 2..M /\ loops'[l] = loops[l]
        BY <1>1, <1>3, <3>2
      <4>. QED BY <4>1 DEF MachineIInv, Stacks, M
    <3>. QED BY <3>1, <3>2
  <2>. QED BY <1>3, <2>1, <2>2 DEF Stacks
<1>10. Control(loops', step'.s)
  BY <1>1, <1>2, <1>3, <1>4 DEF Control, Fits
<1>. QED BY <1>2, <1>6, <1>7, <1>8, <1>9, <1>10 DEF MachineIInv

\* A loop that ends where it started, whatever its end puts back.
LEMMA PopLoopKeeps ==
  ASSUME MachineIInv, Len(loops) # 1, loops' = Front(loops), depth' = loops[Len(loops)].base,
         Blackholes(loops', thunks'), ThunksOk(thunks'), step'.s \in {"got", "throw"}
  PROVE  MachineIInv'
<1>. DEFINE M == Len(loops)
<1>1. IsSeq(loops) /\ M \in Nat \ {0, 1} /\ DOMAIN loops = 1..M /\ loops # <<>>
  BY InnerIs DEF MachineIInv, LoopsOk
<1>2. IsSeq(loops') /\ Len(loops') = M - 1 /\ DOMAIN loops' = 1..M - 1 /\ \A l \in 1..M - 1 : loops'[l] = loops[l]
  BY <1>1, FrontIs
<1>. HIDE DEF M
<1>3. LoopsOk(loops')
  <2>1. loops' # <<>>
    BY <1>1, <1>2, SeqParts
  <2>2. \A l \in 1..M - 1 : LoopOk(loops[l])
    BY <1>1 DEF MachineIInv, LoopsOk
  <2>. QED BY <1>2, <2>1, <2>2 DEF LoopsOk
<1>4. Levels(loops', depth')
  <2>1. depth' \in 0..MaxCallDepth + 1 /\ loops'[1].base = -1
    BY <1>1, <1>2 DEF MachineIInv, Levels, M
  <2>2. ASSUME NEW l \in 2..M - 1
        PROVE  loops'[l].base \in 0..MaxCallDepth + 1 /\ loops'[l - 1].base < loops'[l].base
    <3>1. l \in 2..M /\ loops'[l] = loops[l] /\ loops'[l - 1] = loops[l - 1]
      BY <1>1, <1>2
    <3>. QED BY <3>1 DEF MachineIInv, Levels, M
  <2>3. ASSUME NEW l \in 1..M - 1
        PROVE  Counts(loops'[l].frames, loops'[l].natives, Bottom(loops', l), Ceiling(loops', l, depth'))
    <3>1. l \in 1..M /\ loops'[l] = loops[l] /\ Bottom(loops', l) = Bottom(loops, l)
      BY <1>1, <1>2 DEF Bottom
    <3>2. Ceiling(loops', l, depth') = Ceiling(loops, l, depth)
      <4>0. Ceiling(loops, l, depth) = loops[l + 1].base /\ l \in Int
        <5>1. l # M /\ l \in Int
          BY <1>1
        <5>2. Ceiling(loops, l, depth) = loops[l + 1].base
          BY <5>1 DEF Ceiling, M
        <5>. QED BY <5>1, <5>2
      <4>1. CASE l = M - 1
        <5>1. Ceiling(loops', l, depth') = depth' /\ l + 1 = M
          BY <1>1, <1>2, <4>1 DEF Ceiling
        <5>. QED BY <4>0, <5>1 DEF M
      <4>2. CASE l # M - 1
        <5>1. l + 1 \in 1..M - 1
          BY <1>1, <4>2
        <5>2. Ceiling(loops', l, depth') = loops'[l + 1].base
          BY <1>2, <4>2 DEF Ceiling
        <5>. QED BY <1>2, <4>0, <5>1, <5>2
      <4>. QED BY <4>1, <4>2
    <3>. QED BY <3>1, <3>2 DEF MachineIInv, Levels, M
  <2>. QED BY <1>2, <2>1, <2>2, <2>3 DEF Levels
<1>5. Stacks(loops')
  <2>1. loops'[1] = loops[1]
    BY <1>1, <1>2
  <2>2. \A l \in 2..M - 1 : l \in 2..M /\ loops'[l] = loops[l]
    BY <1>1, <1>2
  <2>. QED BY <1>2, <2>1, <2>2 DEF MachineIInv, Stacks, M
<1>6. Control(loops', step'.s)
  BY DEF Control, Fits
<1>. QED BY <1>3, <1>4, <1>5, <1>6 DEF MachineIInv

LEMMA LoopEndsKeeps ==
  ASSUME MachineIInv, LoopEnds
  PROVE  MachineIInv'
<1>1. Len(loops) # 1 /\ Deepers(Natives) = {} /\ Frames = <<>>
  BY Returning DEF LoopEnds
<1>2. loops' = Front(loops) /\ thunks' = thunks /\ depth' = depth /\ step'.s = "got"
  BY DEF LoopEnds, Got, heap
<1>3. Leaves(Frames) = {} /\ \A i : i \notin DOMAIN Frames
  BY <1>1, EmptyAndOne DEF Leaves
<1>4. depth = Bottom(loops, Len(loops))
  <2>1. Climbs(Frames, {}, Bottom(loops, Len(loops)), depth)
    BY <1>1, <1>3, CallsClimb
  <2>. QED BY <2>1 DEF Climbs
<1>5. depth' = loops[Len(loops)].base
  BY <1>1, <1>2, <1>4 DEF Bottom
<1>6. Len(loops) \in Nat \ {0} /\ DOMAIN loops = 1..Len(loops) /\ IsSeq(loops) /\ loops # <<>>
  BY InnerIs DEF MachineIInv, LoopsOk
<1>7. DOMAIN loops' = 1..Len(loops) - 1 /\ \A l \in 1..Len(loops) - 1 : loops'[l] = loops[l]
  BY <1>2, <1>6, FrontIs
<1>8. \A l, i : /\ Waits(loops', l, i) <=> Waits(loops, l, i)
                /\ Waits(loops, l, i) => Awaits(loops', l, i) = Awaits(loops, l, i)
  <2>1. \A l \in DOMAIN loops : l \in DOMAIN loops' \/ l = Len(loops)
    BY <1>6, <1>7
  <2>2. \A l \in DOMAIN loops' : l \in DOMAIN loops /\ loops'[l] = loops[l]
    BY <1>6, <1>7
  <2>3. \A i : ~Waits(loops, Len(loops), i)
    BY <1>3 DEF Waits, Frames, Inner
  <2>. QED BY <2>1, <2>2, <2>3 DEF Waits, Awaits
<1>9. Blackholes(loops', thunks') /\ ThunksOk(thunks')
  BY <1>2, <1>8, GrowsSame, SameBlackholes DEF MachineIInv
<1>. QED BY <1>1, <1>2, <1>5, <1>9, PopLoopKeeps

\* What the frames of the innermost loop wait for is put back, and those are gone.
LEMMA PutBack ==
  ASSUME NEW ls, NEW ts, NEW ms, NEW us, NEW M, Blackholes(ls, ts), DOMAIN us = DOMAIN ts,
         \A l, i : /\ Waits(ms, l, i) <=> l # M /\ Waits(ls, l, i)
                   /\ Waits(ms, l, i) => Awaits(ms, l, i) = Awaits(ls, l, i),
         \A id \in DOMAIN ts : IF \E i : Waits(ls, M, i) /\ Awaits(ls, M, i) = id
                               THEN us[id] # Blackhole ELSE us[id] = ts[id]
  PROVE  Blackholes(ms, us)
<1>1. \A l, i : Waits(ls, l, i) => Awaits(ls, l, i) \in DOMAIN ts /\ ts[Awaits(ls, l, i)] = Blackhole
  BY DEF Blackholes, Awaited, Waits
<1>2. \A l, m, i, j : Waits(ls, l, i) /\ Waits(ls, m, j) /\ Awaits(ls, l, i) = Awaits(ls, m, j) => l = m /\ i = j
  BY DEF Blackholes, AwaitedOnce, Waits
<1>3. Awaited(ms, us)
  BY <1>1, <1>2 DEF Awaited
<1>4. AwaitedOnce(ms)
  BY <1>2 DEF AwaitedOnce
<1>5. Held(ms, us)
  <2>. SUFFICES ASSUME NEW id \in DOMAIN us, us[id] = Blackhole
                PROVE  \E l, i : Waits(ms, l, i) /\ Awaits(ms, l, i) = id
    BY DEF Held, Waits
  <2>1. ts[id] = Blackhole /\ ~\E i : Waits(ls, M, i) /\ Awaits(ls, M, i) = id
    OBVIOUS
  <2>2. PICK l, i : Waits(ls, l, i) /\ Awaits(ls, l, i) = id
    BY <2>1 DEF Held, Blackholes
  <2>. QED BY <2>1, <2>2
<1>. QED BY <1>3, <1>4, <1>5 DEF Blackholes

LEMMA LeastPlace ==
  ASSUME NEW T \in SUBSET Nat, T # {}
  PROVE  \E t \in T : \A u \in T : t <= u
<1>1. PICK t \in T : \A u \in T : <<u, t>> \notin OpToRel(<, Nat)
  BY WFMin, NatLessThanWellFounded, Zenon
<1>2. \A u \in T : ~ (u < t)
  BY <1>1 DEF OpToRel
<1>. QED BY <1>2

LEMMA UnwindKeeps ==
  ASSUME MachineIInv, Unwind
  PROVE  MachineIInv'
<1>. DEFINE waiting == {i \in DOMAIN Frames : Frames[i].f = "thunk"}
            leaves == {i \in DOMAIN Frames : Frames[i].f = "leave"}
            M == Len(loops)
            Of(id) == CHOOSE i \in waiting : Frames[i].id = id
<1>1. /\ step.s = "throw" /\ Natives = <<>> /\ M > 1
      /\ thunks' = [id \in DOMAIN thunks |-> IF \E i \in waiting : Frames[i].id = id THEN Frames[Of(id)].was ELSE thunks[id]]
      /\ depth' = IF leaves = {} THEN depth ELSE Frames[CHOOSE i \in leaves : \A j \in leaves : i <= j].depth
      /\ loops' = Front(loops) /\ step' = step
  BY DEF Unwind
<1>2. M \in Nat \ {0, 1} /\ DOMAIN loops = 1..M /\ IsSeq(loops) /\ loops # <<>>
  <2>1. M \in Nat \ {0} /\ DOMAIN loops = 1..M
    BY InnerIs
  <2>2. IsSeq(loops) /\ loops # <<>>
    BY DEF MachineIInv, LoopsOk
  <2>. HIDE DEF M
  <2>. QED BY <1>1, <2>1, <2>2
<1>3. DOMAIN loops' = 1..M - 1 /\ \A l \in 1..M - 1 : loops'[l] = loops[l]
  BY <1>1, <1>2, FrontIs
<1>4. \A id : (\E i \in waiting : Frames[i].id = id) <=> \E i : Waits(loops, M, i) /\ Awaits(loops, M, i) = id
  BY <1>2 DEF Waits, Awaits, Frames, Inner
<1>5. ASSUME NEW id, \E i \in waiting : Frames[i].id = id PROVE Dormant(Frames[Of(id)].was)
  <2>1. Of(id) \in waiting
    BY <1>5
  <2>. HIDE DEF Of
  <2>. QED BY <2>1, InnerIs DEF FramesOk, FrameOk
<1>. HIDE DEF Of
<1>6. DOMAIN thunks' = DOMAIN thunks
      /\ \A id \in DOMAIN thunks : IF \E i \in waiting : Frames[i].id = id THEN Dormant(thunks'[id]) ELSE thunks'[id] = thunks[id]
  BY <1>1, <1>5
<1>7. ThunksOk(thunks')
  BY <1>6 DEF ThunksOk, MachineIInv
<1>8. Blackholes(loops', thunks')
  <2>1. \A l, i : /\ Waits(loops', l, i) <=> l # M /\ Waits(loops, l, i)
                  /\ Waits(loops', l, i) => Awaits(loops', l, i) = Awaits(loops, l, i)
    <3>1. \A l \in DOMAIN loops : l # M <=> l \in DOMAIN loops'
      BY <1>2, <1>3
    <3>2. \A l \in DOMAIN loops' : l \in DOMAIN loops /\ loops'[l] = loops[l]
      BY <1>2, <1>3
    <3>. HIDE DEF M
    <3>. QED BY <3>1, <3>2 DEF Waits, Awaits
  <2>2. \A id \in DOMAIN thunks : IF \E i : Waits(loops, M, i) /\ Awaits(loops, M, i) = id
                                  THEN thunks'[id] # Blackhole ELSE thunks'[id] = thunks[id]
    BY <1>4, <1>6 DEF Dormant
  <2>3. Blackholes(loops, thunks)
    BY DEF MachineIInv
  <2>. QED BY <1>6, <2>1, <2>2, <2>3, PutBack
<1>9. depth' = loops[M].base
  <2>. DEFINE b == Bottom(loops, M)
  <2>1. Climbs(Frames, Leaves(Frames), b, depth) /\ b = loops[M].base
    BY <1>1, <1>2, CallsClimb, NoNatives DEF Bottom
  <2>2. leaves = Leaves(Frames)
    BY DEF Leaves
  <2>. HIDE DEF leaves, b
  <2>3. CASE leaves = {}
    BY <1>1, <2>1, <2>2, <2>3 DEF Climbs
  <2>4. CASE leaves # {}
    <3>. DEFINE least == CHOOSE i \in leaves : \A j \in leaves : i <= j
    <3>1. leaves \in SUBSET Nat
      <4>1. IsSeq(Frames)
        BY InnerIs DEF FramesOk
      <4>. QED BY <4>1, <2>2, SeqParts DEF Leaves
    <3>2. \E i \in leaves : \A j \in leaves : i <= j
      BY <2>4, <3>1, LeastPlace
    <3>3. least \in leaves /\ \A j \in leaves : least <= j
      BY <3>2
    <3>. HIDE DEF least
    <3>4. Frames[least].depth = b
      BY <2>1, <2>2, <3>3 DEF Climbs
    <3>5. depth' = Frames[least].depth
      BY <1>1, <2>4 DEF least
    <3>. QED BY <2>1, <3>4, <3>5
  <2>. QED BY <2>3, <2>4
<1>. QED BY <1>1, <1>2, <1>7, <1>8, <1>9, PopLoopKeeps

-----------------------------------------------------------------------------
(* EvalMachine: native code.                                               *)

\* Native code above which levels are counted as they were.
Carries(ns, ms) ==
  /\ CodesOk(ms) /\ ms # <<>> /\ ms[1].n = ns[1].n
  /\ \A i \in DOMAIN ms : ms[i].n # "select" /\ (i = 1 <=> ms[i].n \in Bottoms)
  /\ Len(ms) >= 2 /\ ms[1].n # "result" => ms[2].n = "deeper"
  /\ Deepers(ms) = Deepers(ns) /\ \A i \in Deepers(ns) : ms[i].depth = ns[i].depth

LEMMA CarriesSame ==
  ASSUME NEW fs, NEW ns, Stands(fs, ns), CodesOk(ns), ns # <<>>
  PROVE  Carries(ns, ns)
BY DEF Carries, Stands

\* Native code that is not at the bottom may be replaced.
LEMMA BelowCarried ==
  ASSUME NEW fs, NEW ns, Stands(fs, ns), CodesOk(ns), ns # <<>>, Last(ns).n \notin Bottoms \cup {"deeper"}
  PROVE  Carries(ns, Front(ns)) /\ Ready(Front(ns)) /\ Ready(ns)
<1>. DEFINE ms == Front(ns)
            k == Len(ns)
<1>1. IsSeq(ns) /\ k \in Nat \ {0} /\ DOMAIN ns = 1..k /\ Last(ns) = ns[k]
      /\ IsSeq(ms) /\ Len(ms) = k - 1 /\ DOMAIN ms = 1..k - 1 /\ \A i \in 1..k - 1 : ms[i] = ns[i]
  BY FrontIs, SeqParts DEF CodesOk
<1>. HIDE DEF ms, k
<1>2. k # 1 /\ 1 \in DOMAIN ns /\ 1 \in DOMAIN ms /\ ms[1] = ns[1]
  BY <1>1 DEF Stands
<1>3. ms # <<>>
  BY <1>1, <1>2, EmptyAndOne
<1>4. Len(ns) = k /\ k >= 2
  BY <1>1, <1>2 DEF k
<1>5. ns[1].n = "result" \/ (k >= 3 /\ ns[2].n = "deeper" /\ ms[2] = ns[2])
  <2>. SUFFICES ASSUME ns[1].n # "result" PROVE k >= 3 /\ ns[2].n = "deeper" /\ ms[2] = ns[2]
    OBVIOUS
  <2>1. ns[2].n = "deeper"
    BY <1>4 DEF Stands
  <2>2. k # 2
    BY <1>1, <2>1
  <2>. QED BY <1>1, <1>4, <2>1, <2>2
<1>6. DOMAIN ns = DOMAIN ms \cup {k} /\ k \notin DOMAIN ms /\ \A i \in DOMAIN ms : ms[i] = ns[i]
  BY <1>1
<1>7. CodesOk(ms)
  BY <1>1, <1>6 DEF CodesOk
<1>8. \A i \in DOMAIN ms : ms[i].n # "select" /\ (i = 1 <=> ms[i].n \in Bottoms)
  BY <1>6 DEF Stands
<1>9. Deepers(ms) = Deepers(ns) /\ \A i \in Deepers(ns) : ms[i] = ns[i]
  BY <1>1, <1>6 DEF Deepers
<1>10. Ready(ms) /\ Ready(ns)
  BY <1>1, <1>2, <1>3, <1>4, <1>5 DEF Ready
<1>. QED BY <1>2, <1>3, <1>5, <1>7, <1>8, <1>9, <1>10 DEF Carries, ms

LEMMA CarriesPush ==
  ASSUME NEW ns, NEW ms, NEW c, Carries(ns, ms), Ready(ms), PlainCode(c)
  PROVE  Carries(ns, Append(ms, c)) /\ Ready(Append(ms, c))
<1>. DEFINE hs == Append(ms, c)
            k == Len(ms) + 1
<1>1. IsSeq(ms) /\ Len(ms) \in Nat \ {0} /\ DOMAIN ms = 1..Len(ms)
  BY SeqParts DEF Carries, CodesOk
<1>2. IsSeq(hs) /\ hs # <<>> /\ Len(hs) = k /\ DOMAIN hs = 1..k /\ (\A i \in 1..Len(ms) : hs[i] = ms[i]) /\ hs[k] = c
  BY <1>1, AppendIs
<1>3. DOMAIN hs = DOMAIN ms \cup {k} /\ k \notin DOMAIN ms /\ (\A i \in DOMAIN ms : hs[i] = ms[i])
      /\ k >= 2 /\ 1 \in DOMAIN ms /\ k # 1
  BY <1>1, <1>2
<1>4. Len(ms) >= 2 => hs[2] = ms[2]
  BY <1>1, <1>2
<1>. HIDE DEF hs, k
<1>5. CodesOk(hs)
  BY <1>2, <1>3 DEF CodesOk, Carries, PlainCode
<1>6. \A i \in DOMAIN hs : hs[i].n # "select" /\ (i = 1 <=> hs[i].n \in Bottoms)
  BY <1>2, <1>3 DEF Carries, PlainCode
<1>7. Deepers(hs) = Deepers(ns) /\ \A i \in Deepers(ns) : hs[i].depth = ns[i].depth
  <2>1. Deepers(hs) = Deepers(ms) /\ \A i \in Deepers(ms) : hs[i] = ms[i]
    BY <1>2, <1>3 DEF Deepers, PlainCode
  <2>. QED BY <2>1 DEF Carries
<1>8. hs[1] = ms[1] /\ (hs[1].n # "result" => hs[2].n = "deeper")
  BY <1>3, <1>4 DEF Carries, Ready
<1>9. Ready(hs)
  BY <1>2, <1>3 DEF Ready
<1>. QED BY <1>2, <1>5, <1>6, <1>7, <1>8, <1>9 DEF Carries, hs

LEMMA CarriesSeen ==
  ASSUME NEW ns, NEW ms, NEW place, NEW set, Carries(ns, ms), Ready(ms)
  PROVE  Carries(ns, [ms EXCEPT ![place].seen = set]) /\ Ready([ms EXCEPT ![place].seen = set])
<1>. DEFINE hs == [ms EXCEPT ![place].seen = set]
<1>1. hs = [ms EXCEPT ![place] = [ms[place] EXCEPT !.seen = set]]
  OBVIOUS
<1>2. IsSeq(hs) /\ Len(hs) = Len(ms) /\ DOMAIN hs = DOMAIN ms
  <2>1. IsSeq(ms)
    BY DEF Carries, CodesOk
  <2>. HIDE DEF hs
  <2>2. \A x : IsSeq([ms EXCEPT ![place] = x]) /\ Len([ms EXCEPT ![place] = x]) = Len(ms)
               /\ DOMAIN [ms EXCEPT ![place] = x] = DOMAIN ms
    BY <2>1, ReplaceIs
  <2>. QED BY <1>1, <2>2
<1>3. \A i \in DOMAIN ms : i # place => hs[i] = ms[i]
  BY <1>1
<1>4. \A i \in DOMAIN ms : i = place => hs[i] = [ms[i] EXCEPT !.seen = set]
  BY <1>1
<1>. HIDE DEF hs
<1>5. ASSUME NEW i \in DOMAIN ms
      PROVE  CodeOk(hs[i]) /\ hs[i].n = ms[i].n /\ (ms[i].n = "deeper" => hs[i].depth = ms[i].depth)
  <2>1. CodeOk(ms[i])
    BY DEF Carries, CodesOk
  <2>2. CASE i = place
    BY <2>1, <2>2, <1>4 DEF CodeOk
  <2>3. CASE i # place
    BY <2>1, <2>3, <1>3
  <2>. QED BY <2>2, <2>3
<1>6. CodesOk(hs)
  BY <1>2, <1>5 DEF CodesOk
<1>7. hs # <<>> /\ Len(ms) \in Nat \ {0} /\ DOMAIN ms = 1..Len(ms)
  BY <1>2, SeqParts DEF Carries, CodesOk
<1>8. Deepers(hs) = Deepers(ms) /\ \A i \in Deepers(ms) : hs[i].depth = ms[i].depth
  BY <1>2, <1>5 DEF Deepers
<1>9. hs[1].n = ms[1].n /\ (Len(ms) >= 2 => hs[2].n = ms[2].n)
  BY <1>5, <1>7
<1>. QED BY <1>2, <1>5, <1>6, <1>7, <1>8, <1>9 DEF Carries, Ready, hs

\* What native code goes on with.
Asks == {"got", "throw", "want", "invoke", "coerce", "deepen", "equal", "elem"}

LEMMA CarriesKeeps ==
  ASSUME MachineIInv, Len(loops) # 1, NEW ns, NEW s, Carries(Natives, ns), Continue(ns, s),
         s.s \in Asks, s.s \in {"want", "invoke"} => Ready(ns), Natives # <<>>, Grows(thunks, thunks'), depth' = depth
  PROVE  MachineIInv'
<1>. DEFINE b == Bottom(loops, Len(loops))
<1>1. loops' = WithTop(loops, Frames, ns) /\ step' = s
  BY GoIs
<1>2. FramesOk(Frames) /\ Stands(Frames, Natives) /\ b \in 0..MaxCallDepth + 1 /\ depth \in 0..MaxCallDepth + 1
  BY InnerIs
<1>. HIDE DEF b
<1>3. PICK mid \in 0..MaxCallDepth + 1 : Climbs(Frames, Leaves(Frames), b, mid) /\ Climbs(Natives, Deepers(Natives), mid, depth)
  BY InnerIs DEF Counts, b
<1>4. Climbs(ns, Deepers(ns), mid, depth)
  BY <1>3, ClimbsSame DEF Carries
<1>5. Counts(Frames, ns, b, depth')
  BY <1>3, <1>4 DEF Counts
<1>6. Stands(Frames, ns)
  BY <1>2 DEF Stands, Carries
<1>7. Fits(step'.s, ns)
  BY <1>1 DEF Fits, Asks, Carries
<1>8. Blackholes(loops', thunks') /\ ThunksOk(thunks')
  <2>1. SameWaits(Frames, Frames)
    BY DEF SameWaits
  <2>. QED BY <1>1, <2>1, TopBlackholes, GrowsOk DEF MachineIInv, Frames, Inner
<1>. QED BY <1>1, <1>2, <1>5, <1>6, <1>7, <1>8, TopMoves DEF Carries, b

\* Native code of another than the first loop.
LEMMA CodeIs ==
  ASSUME MachineIInv, Natives # <<>>, Code.n # "select"
  PROVE  Len(loops) # 1 /\ Stands(Frames, Natives) /\ CodesOk(Natives) /\ CodeOk(Code)
<1>1. Len(loops) # 1
  <2>1. CASE Len(loops) = 1
    <3>1. Natives = <<[n |-> "select"]>>
      BY <2>1 DEF MachineIInv, Stacks, Natives, Inner
    <3>. QED BY <3>1 DEF Code, Last
  <2>. QED BY <2>1
<1>2. Stands(Frames, Natives) /\ CodesOk(Natives)
  BY <1>1, InnerIs
<1>3. CodeOk(Code)
  BY <1>2, FrontIs, SeqParts DEF CodesOk, Code
<1>. QED BY <1>1, <1>2, <1>3

LEMMA BottomAlone ==
  ASSUME MachineIInv, Natives # <<>>, Code.n \in Bottoms
  PROVE  Len(loops) # 1 /\ Deepers(Natives) = {} /\ Below = <<>>
<1>1. Len(loops) # 1 /\ Stands(Frames, Natives) /\ IsSeq(Natives)
  BY CodeIs DEF Bottoms, CodesOk
<1>2. Len(Natives) \in Nat \ {0} /\ Code = Natives[Len(Natives)] /\ DOMAIN Natives = 1..Len(Natives)
      /\ IsSeq(Below) /\ Len(Below) = Len(Natives) - 1
  BY <1>1, FrontIs, SeqParts DEF Code, Below
<1>3. Len(Natives) = 1
  BY <1>1, <1>2 DEF Stands
<1>4. Below = <<>>
  BY <1>2, <1>3, SeqParts
<1>5. Deepers(Natives) = {}
  BY <1>2, <1>3 DEF Deepers, Bottoms
<1>. QED BY <1>1, <1>4, <1>5

\* deeper: a level is counted, and counted back when its native code ends or fails.
LEMMA LevelKeeps ==
  ASSUME MachineIInv, Len(loops) # 1, Natives # <<>>, ~Full, NEW c, PlainCode(c), NEW s, s.s = "want",
         Continue(Append(Append(Natives, [n |-> "deeper", depth |-> depth]), c), s),
         depth' = depth + 1, thunks' = thunks
  PROVE  MachineIInv'
<1>. DEFINE b == Bottom(loops, Len(loops))
            level == [n |-> "deeper", depth |-> depth]
            ms == Append(Natives, level)
            ns == Append(ms, c)
            k == Len(Natives)
<1>1. loops' = WithTop(loops, Frames, ns) /\ step' = s
  BY GoIs
<1>2. FramesOk(Frames) /\ CodesOk(Natives) /\ Stands(Frames, Natives) /\ b \in 0..MaxCallDepth + 1 /\ depth \in 0..MaxCallDepth + 1
  BY InnerIs
<1>3. IsSeq(Natives) /\ k \in Nat \ {0} /\ DOMAIN Natives = 1..k
  BY <1>2, SeqParts DEF CodesOk
<1>4. IsSeq(ms) /\ Len(ms) = k + 1 /\ DOMAIN ms = 1..k + 1 /\ (\A i \in 1..k : ms[i] = Natives[i]) /\ ms[k + 1] = level
  BY <1>3, AppendIs
<1>. HIDE DEF ms
<1>5. IsSeq(ns) /\ ns # <<>> /\ Len(ns) = k + 2 /\ DOMAIN ns = 1..k + 2 /\ (\A i \in 1..k + 1 : ns[i] = ms[i]) /\ ns[k + 2] = c
  <2>1. IsSeq(ns) /\ ns # <<>> /\ Len(ns) = Len(ms) + 1 /\ DOMAIN ns = 1..Len(ms) + 1
        /\ (\A i \in 1..Len(ms) : ns[i] = ms[i]) /\ ns[Len(ms) + 1] = c
    BY <1>4, AppendIs
  <2>2. Len(ms) + 1 = k + 2
    BY <1>3, <1>4
  <2>. QED BY <1>4, <2>1, <2>2
<1>. HIDE DEF ns, b, k
<1>6. /\ DOMAIN ns = DOMAIN Natives \cup {k + 1, k + 2} /\ k + 1 \notin DOMAIN Natives /\ k + 2 \notin DOMAIN Natives
      /\ (\A i \in DOMAIN Natives : ns[i] = Natives[i]) /\ ns[k + 1] = level /\ ns[k + 2] = c
      /\ 1 \in DOMAIN Natives /\ ns[1] = Natives[1] /\ k + 2 >= 2
      /\ \A i \in DOMAIN Natives : i \in Int /\ i < k + 1
  BY <1>3, <1>4, <1>5
<1>7. level.n = "deeper" /\ level.depth = depth /\ CodeOk(level)
  BY DEF CodeOk
<1>. HIDE DEF level
<1>8. CodesOk(ns)
  BY <1>2, <1>5, <1>6, <1>7 DEF CodesOk, PlainCode
<1>9. Deepers(ns) = Deepers(Natives) \cup {k + 1}
  BY <1>6, <1>7 DEF Deepers, PlainCode
<1>10. PICK mid \in 0..MaxCallDepth + 1 : Climbs(Frames, Leaves(Frames), b, mid) /\ Climbs(Natives, Deepers(Natives), mid, depth)
  BY InnerIs DEF Counts, b
<1>11. Climbs(ns, Deepers(ns), mid, depth + 1)
  <2>1. /\ Deepers(Natives) \in SUBSET Int /\ mid \in Int /\ depth \in Int /\ k + 1 \in Int
        /\ \A i \in Deepers(Natives) : i < k + 1 /\ ns[i].depth = Natives[i].depth
        /\ ns[k + 1].depth = depth
    BY <1>2, <1>3, <1>6, <1>7, CallDepthAssumption DEF Deepers
  <2>. DEFINE p == k + 1
  <2>2. p \in Int /\ (\A i \in Deepers(Natives) : i < p /\ ns[i].depth = Natives[i].depth) /\ ns[p].depth = depth
    BY <2>1
  <2>. HIDE DEF p
  <2>3. Climbs(ns, Deepers(Natives) \cup {p}, mid, depth + 1)
    BY <1>10, <2>1, <2>2, ClimbsUp
  <2>. QED BY <1>9, <2>3 DEF p
<1>12. Counts(Frames, ns, b, depth')
  BY <1>10, <1>11 DEF Counts
<1>13. depth' \in 0..MaxCallDepth + 1
  BY <1>2, CallDepthAssumption DEF Full
<1>14. \A i \in DOMAIN ns : ns[i].n # "select" /\ (i = 1 <=> ns[i].n \in Bottoms)
  BY <1>2, <1>6, <1>7 DEF Stands, Bottoms, PlainCode
<1>15. ns[1].n # "result" => ns[2].n = "deeper"
  <2>1. CASE k = 1
    BY <1>6, <1>7, <2>1
  <2>2. CASE k # 1
    <3>1. Len(Natives) >= 2 /\ 2 \in DOMAIN Natives
      BY <1>3, <2>2 DEF k
    <3>. QED BY <1>2, <1>6, <3>1 DEF Stands
  <2>. QED BY <2>1, <2>2
<1>16. ns[1].n = "result" => Frames # <<>> /\ Frames[Len(Frames)].f = "leave"
  BY <1>2, <1>6 DEF Stands
<1>17. Stands(Frames, ns)
  BY <1>14, <1>15, <1>16 DEF Stands
<1>18. Fits(step'.s, ns)
  BY <1>1, <1>5, <1>6 DEF Fits, Ready
<1>19. Blackholes(loops', thunks') /\ ThunksOk(thunks')
  <2>1. SameWaits(Frames, Frames)
    BY DEF SameWaits
  <2>. QED BY <1>1, <2>1, TopBlackholes, GrowsSame DEF MachineIInv, Frames, Inner
<1>. QED BY <1>1, <1>2, <1>8, <1>12, <1>13, <1>17, <1>18, <1>19, TopMoves DEF b

LEMMA LevelEnds ==
  ASSUME MachineIInv, Natives # <<>>, Code.n = "deeper", NEW s, s.s \in {"got", "throw"}, Continue(Below, s),
         depth' = Code.depth, thunks' = thunks
  PROVE  MachineIInv'
<1>. DEFINE b == Bottom(loops, Len(loops))
            k == Len(Natives)
<1>1. loops' = WithTop(loops, Frames, Below) /\ step' = s
  BY GoIs
<1>2. Len(loops) # 1 /\ Stands(Frames, Natives) /\ CodesOk(Natives)
  BY CodeIs
<1>3. FramesOk(Frames) /\ b \in 0..MaxCallDepth + 1 /\ depth \in 0..MaxCallDepth + 1
  BY InnerIs
<1>4. IsSeq(Natives) /\ k \in Nat \ {0} /\ DOMAIN Natives = 1..k /\ Code = Natives[k]
      /\ IsSeq(Below) /\ Len(Below) = k - 1 /\ DOMAIN Below = 1..k - 1 /\ \A i \in 1..k - 1 : Below[i] = Natives[i]
  BY <1>2, FrontIs, SeqParts DEF CodesOk, Code, Below
<1>. HIDE DEF b, k
<1>5. k # 1
  BY <1>2, <1>4 DEF Stands, Bottoms
<1>6. /\ DOMAIN Natives = DOMAIN Below \cup {k} /\ k \notin DOMAIN Below /\ (\A i \in DOMAIN Below : Below[i] = Natives[i])
      /\ 1 \in DOMAIN Below /\ (Len(Below) >= 2 => 2 \in DOMAIN Below /\ Len(Natives) >= 2) /\ \A i \in DOMAIN Natives : i \in Int /\ i <= k
  BY <1>4, <1>5 DEF k
<1>7. CodesOk(Below) /\ Below # <<>>
  BY <1>2, <1>4, <1>6, EmptyAndOne DEF CodesOk
<1>8. Deepers(Below) = Deepers(Natives) \ {k} /\ k \in Deepers(Natives)
  BY <1>4, <1>6 DEF Deepers
<1>9. PICK mid \in 0..MaxCallDepth + 1 : Climbs(Frames, Leaves(Frames), b, mid) /\ Climbs(Natives, Deepers(Natives), mid, depth)
  BY InnerIs DEF Counts, b
<1>10. Climbs(Below, Deepers(Below), mid, depth') /\ depth' \in mid..depth - 1
  <2>1. /\ Deepers(Natives) \in SUBSET Int /\ mid \in Int /\ depth \in Int
        /\ \A i \in Deepers(Natives) : i <= k
        /\ \A i \in Deepers(Natives) \ {k} : Below[i].depth = Natives[i].depth
    BY <1>3, <1>6, <1>8, CallDepthAssumption DEF Deepers
  <2>2. Climbs(Below, Deepers(Natives) \ {k}, mid, Natives[k].depth) /\ Natives[k].depth \in mid..depth - 1
    BY <1>8, <1>9, <2>1, ClimbsDown
  <2>. QED BY <1>4, <1>8, <2>2
<1>11. Counts(Frames, Below, b, depth')
  BY <1>9, <1>10 DEF Counts
<1>12. depth' \in 0..MaxCallDepth + 1
  BY <1>3, <1>10, CallDepthAssumption
<1>13. Stands(Frames, Below)
  BY <1>2, <1>6 DEF Stands
<1>14. Fits(step'.s, Below)
  BY <1>1 DEF Fits
<1>15. Blackholes(loops', thunks') /\ ThunksOk(thunks')
  <2>1. SameWaits(Frames, Frames)
    BY DEF SameWaits
  <2>. QED BY <1>1, <2>1, TopBlackholes, GrowsSame DEF MachineIInv, Frames, Inner
<1>. QED BY <1>1, <1>2, <1>3, <1>7, <1>11, <1>12, <1>13, <1>14, <1>15, TopMoves DEF b

LEMMA BesideGrows ==
  ASSUME NEW ts, NEW new, \A id \in DOMAIN new : Dormant(new[id])
  PROVE  Grows(ts, Beside(ts, new))
BY DEF Grows, Beside

LEMMA PlainRuns ==
  ASSUME MachineIInv, Natives # <<>>, Code.n \notin Bottoms \cup {"select", "deeper"}
  PROVE  /\ Len(loops) # 1 /\ Carries(Natives, Below) /\ Ready(Below) /\ Carries(Natives, Natives) /\ Ready(Natives)
         /\ \A c : PlainCode(c) => Carries(Natives, Append(Below, c)) /\ Ready(Append(Below, c))
<1>1. Len(loops) # 1 /\ Stands(Frames, Natives) /\ CodesOk(Natives)
  BY CodeIs
<1>2. Carries(Natives, Below) /\ Ready(Below) /\ Ready(Natives)
  BY <1>1, BelowCarried DEF Code, Below
<1>3. Carries(Natives, Natives)
  BY <1>1, CarriesSame
<1>4. \A c : PlainCode(c) => Carries(Natives, Append(Below, c)) /\ Ready(Append(Below, c))
  BY <1>2, CarriesPush
<1>. QED BY <1>1, <1>2, <1>3, <1>4

LEMMA PlainKeeps ==
  ASSUME MachineIInv, Natives # <<>>, Code.n \notin Bottoms \cup {"select", "deeper"}, NEW ns, NEW s,
         Carries(Natives, ns), Ready(ns), Continue(ns, s), s.s \in Asks, Grows(thunks, thunks'), depth' = depth
  PROVE  MachineIInv'
BY PlainRuns, CarriesKeeps

LEMMA NativeWantsKeeps ==
  ASSUME MachineIInv, NativeWants
  PROVE  MachineIInv'
<1>1. step.s = "want" /\ UNCHANGED <<heap, depth>>
  BY DEF NativeWants
<1>2. CASE step' = Got(Forced(step.v)) /\ UNCHANGED loops
  <2>1. step'.s = "got" /\ loops' = loops /\ thunks' = thunks /\ depth' = depth
    BY <1>1, <1>2 DEF Got, heap
  <2>2. Control(loops', step'.s)
    BY <2>1 DEF Control, Fits
  <2>. QED BY <2>1, <2>2 DEF MachineIInv
<1>3. CASE RunLoop(ForceOf(step.v))
  <2>1. Len(loops) # 1 => Ready(Natives)
    BY <1>1, InnerIs DEF Fits
  <2>2. ForceOf(step.v).s \in {"force", "call"}
    BY DEF ForceOf
  <2>. QED BY <1>1, <1>3, <2>1, <2>2, RunLoopKeeps
<1>. QED BY <1>2, <1>3 DEF NativeWants

LEMMA NativeCallsKeeps ==
  ASSUME MachineIInv, NativeCalls
  PROVE  MachineIInv'
<1>1. step.s = "invoke" /\ RunLoop(Call(step.fn, step.arg)) /\ UNCHANGED <<heap, depth>>
  BY DEF NativeCalls
<1>2. Len(loops) # 1 => Ready(Natives)
  BY <1>1, InnerIs DEF Fits
<1>3. Call(step.fn, step.arg).s \in {"force", "call"}
  BY DEF Call
<1>. QED BY <1>1, <1>2, <1>3, RunLoopKeeps

LEMMA DeepensKeeps ==
  ASSUME MachineIInv, Deepens
  PROVE  MachineIInv'
<1>1. step.s \in {"deepen", "coerce", "equal", "elem"} /\ thunks' = thunks
  BY DEF Deepens, heap
<1>2. Len(loops) # 1
  BY <1>1 DEF MachineIInv, Control
<1>3. Natives # <<>> /\ Stands(Frames, Natives) /\ CodesOk(Natives)
  BY <1>1, <1>2, InnerIs DEF Fits
<1>4. CASE Full /\ Continue(Natives, Throw("overflow")) /\ UNCHANGED depth
  <2>1. Carries(Natives, Natives)
    BY <1>3, CarriesSame
  <2>2. Throw("overflow").s \in Asks /\ Throw("overflow").s \notin {"want", "invoke"}
    BY DEF Throw, Asks
  <2>. QED BY <1>1, <1>2, <1>3, <1>4, <2>1, <2>2, GrowsSame, CarriesKeeps
<1>5. CASE ~Full /\ depth' = depth + 1
  <2>. DEFINE level == Append(Natives, [n |-> "deeper", depth |-> depth])
              left == [n |-> "left", a |-> step.a, b |-> step.b, elem |-> step.s = "elem"]
  <2>1. PlainCode([n |-> "deep"]) /\ PlainCode([n |-> "coerce"]) /\ PlainCode(left)
    BY DEF PlainCode, CodeOk, Bottoms
  <2>2. Want(step.v).s = "want" /\ Want(step.a).s = "want"
    BY DEF Want
  <2>3. \/ Continue(Append(level, [n |-> "deep"]), Want(step.v))
        \/ Continue(Append(level, [n |-> "coerce"]), Want(step.v))
        \/ Continue(Append(level, left), Want(step.a))
    BY <1>1, <1>5 DEF Deepens, Full
  <2>. HIDE DEF left
  <2>. QED BY <1>1, <1>2, <1>3, <1>5, <2>1, <2>2, <2>3, LevelKeeps
<1>. QED BY <1>4, <1>5 DEF Deepens

LEMMA NativeLeavesKeeps ==
  ASSUME MachineIInv, NativeLeaves
  PROVE  MachineIInv'
<1>1. step.s = "got" /\ Natives # <<>> /\ Code.n = "deeper" /\ Continue(Below, step) /\ depth' = Code.depth /\ thunks' = thunks
  BY DEF NativeLeaves, Running, heap
<1>. QED BY <1>1, LevelEnds

LEMMA InterpIs ==
  ASSUME NEW gs, NEW fs, Quiet(gs, fs), NEW p, PlainFrame(p)
  PROVE  Quiet(gs, Interp(fs, p)[1]) /\ Interp(fs, p)[2].s \in Steps
BY QuietPush DEF Interp, Eval, Return, Steps

LEMMA NativeEndsKeeps ==
  ASSUME MachineIInv, NativeEnds
  PROVE  MachineIInv'
<1>. DEFINE v == step.v
<1>1. Natives # <<>> /\ Code.n \in Bottoms /\ thunks' = thunks /\ depth' = depth
  BY DEF NativeEnds, Running, Bottoms, heap
<1>2. Len(loops) # 1 /\ Deepers(Natives) = {} /\ CodeOk(Code) /\ Quiet(Frames, Frames) /\ Grows(thunks, thunks')
  BY <1>1, BottomAlone, CodeIs, InnerIs, QuietSame, GrowsSame DEF Bottoms
<1>3. CASE Code.n = "result" /\ Go(Frames, ForceOf(v))
  BY <1>1, <1>2, <1>3, GoKeeps DEF ForceOf, Steps
<1>4. CASE Code.n = "equal" /\ Go(Frames, Return(Bool(v.b = (Code.op = "eq"))))
  BY <1>1, <1>2, <1>4, GoKeeps DEF Return, Steps
<1>5. CASE Code.n = "addStr" /\ Go(Append(Frames, [f |-> "addStr", left |-> v.s]), Eval(Code.other, Code.env))
  <2>1. PlainFrame([f |-> "addStr", left |-> v.s])
    BY DEF PlainFrame
  <2>2. Quiet(Frames, Append(Frames, [f |-> "addStr", left |-> v.s]))
    BY <1>2, <2>1, QuietPush
  <2>3. Eval(Code.other, Code.env).s \in Steps
    BY DEF Eval, Steps
  <2>. QED BY <1>1, <1>2, <1>5, <2>2, <2>3, GoKeeps
<1>6. CASE Code.n = "append" /\ Code.to.f = "addStr" /\ Go(Frames, Return(Str(Code.to.left \o v.s)))
  BY <1>1, <1>2, <1>6, GoKeeps DEF Return, Steps
<1>7. CASE Code.n = "append" /\ Code.to.f = "interp" /\ Becomes(Interp(Frames, [Code.to EXCEPT !.i = @ + 1, !.acc = @ \o v.s]))
  <2>. DEFINE p == [Code.to EXCEPT !.i = @ + 1, !.acc = @ \o v.s]
  <2>1. PlainFrame(p)
    BY <1>2, <1>7 DEF PlainFrame, CodeOk
  <2>. HIDE DEF p
  <2>2. Quiet(Frames, Interp(Frames, p)[1]) /\ Interp(Frames, p)[2].s \in Steps
    BY <1>2, <2>1, InterpIs
  <2>3. Go(Interp(Frames, p)[1], Interp(Frames, p)[2])
    BY <1>7 DEF Becomes, p
  <2>. QED BY <1>1, <1>2, <2>2, <2>3, GoKeeps
<1>. QED BY <1>3, <1>4, <1>5, <1>6, <1>7 DEF NativeEnds

LEMMA BuildKeeps ==
  ASSUME MachineIInv, Build
  PROVE  MachineIInv'
<1>1. Natives # <<>> /\ Code.n \notin Bottoms \cup {"select", "deeper"} /\ thunks' = thunks /\ depth' = depth
  BY DEF Build, Running, Bottoms
<1>2. Carries(Natives, Below) /\ Ready(Below) /\ Grows(thunks, thunks')
  BY <1>1, PlainRuns, GrowsSame
<1>3. \E s : Continue(Below, s) /\ s.s \in Asks
  BY DEF Build, Got, Throw, Asks
<1>. QED BY <1>1, <1>2, <1>3, PlainKeeps

LEMMA BuiltinKeeps ==
  ASSUME MachineIInv, Builtin
  PROVE  MachineIInv'
<1>. DEFINE v == step.v
<1>1. Natives # <<>> /\ Code.n \notin Bottoms \cup {"select", "deeper"} /\ depth' = depth
  BY DEF Builtin, Running, Bottoms
<1>2. /\ Carries(Natives, Below) /\ Ready(Below)
      /\ \A c : PlainCode(c) => Carries(Natives, Append(Below, c)) /\ Ready(Append(Below, c))
  BY <1>1, PlainRuns
<1>3. ASSUME NEW ns, NEW s, Continue(ns, s), Carries(Natives, ns), Ready(ns), s.s \in Asks, thunks' = thunks
      PROVE  MachineIInv'
  BY <1>1, <1>3, GrowsSame, PlainKeeps
<1>4. ASSUME NEW new, NEW s, thunks' = Beside(thunks, new), \A id \in DOMAIN new : Dormant(new[id]),
             Continue(Below, s), s.s \in Asks
      PROVE  MachineIInv'
  BY <1>1, <1>2, <1>4, BesideGrows, PlainKeeps
<1>5. CASE Code.n = "tryEval"
  BY <1>2, <1>3, <1>5 DEF Builtin, Got, Asks
<1>6. CASE Code.n = "then"
  BY <1>2, <1>3, <1>6 DEF Builtin, Want, Asks, heap
<1>7. CASE Code.n = "fail"
  BY <1>2, <1>3, <1>7 DEF Builtin, Throw, Asks, heap
<1>8. CASE Code.n = "map"
  <2>. DEFINE ns == IF v.t = "list" /\ v.items # <<>> THEN Append(Below, [n |-> "mapped", list |-> v]) ELSE Below
              s == IF v.t # "list" THEN Throw("type") ELSE IF v.items = <<>> THEN Got(v) ELSE Want(Code.fn)
  <2>1. Continue(ns, s) /\ thunks' = thunks
    BY <1>8 DEF Builtin, heap
  <2>2. PlainCode([n |-> "mapped", list |-> v])
    BY DEF PlainCode, CodeOk, Bottoms
  <2>3. Carries(Natives, ns) /\ Ready(ns)
    BY <1>2, <2>2
  <2>4. s.s \in Asks
    BY DEF Throw, Got, Want, Asks
  <2>. HIDE DEF ns, s
  <2>. QED BY <1>3, <2>1, <2>3, <2>4
<1>9. CASE Code.n = "mapped"
  <2>. DEFINE items == Code.list.items
              new == [id \in {Len(thunks) + i : i \in DOMAIN items} |-> [k |-> "app", fn |-> v, arg |-> items[id - Len(thunks)]]]
  <2>1. \/ Continue(Below, Throw("type")) /\ thunks' = thunks
        \/ thunks' = Beside(thunks, new) /\ \E list : Continue(Below, Got(list))
    BY <1>9 DEF Builtin, heap
  <2>2. \A id \in DOMAIN new : Dormant(new[id])
    BY DEF Dormant, Blackhole
  <2>3. Throw("type").s \in Asks /\ \A list : Got(list).s \in Asks
    BY DEF Throw, Got, Asks
  <2>. HIDE DEF new
  <2>. QED BY <1>2, <1>3, <1>4, <2>1, <2>2, <2>3
<1>10. CASE Code.n = "import"
  <2>. DEFINE new == [id \in {Len(thunks) + 1} |-> [k |-> "expr", e |-> Files[v.p], env |-> Root]]
  <2>1. \/ Continue(Below, Throw("eval")) /\ thunks' = thunks
        \/ Continue(Below, Want(Thunk(imported[v.p]))) /\ thunks' = thunks
        \/ thunks' = Beside(thunks, new) /\ Continue(Below, Want(Thunk(Len(thunks) + 1)))
    BY <1>10 DEF Builtin, heap
  <2>2. \A id \in DOMAIN new : Dormant(new[id])
    BY DEF Dormant, Blackhole
  <2>3. Throw("eval").s \in Asks /\ \A t : Want(t).s \in Asks
    BY DEF Throw, Want, Asks
  <2>. HIDE DEF new
  <2>. QED BY <1>2, <1>3, <1>4, <2>1, <2>2, <2>3
<1>. QED BY <1>5, <1>6, <1>7, <1>8, <1>9, <1>10 DEF Builtin, Running

LEMMA DeepForceKeeps ==
  ASSUME MachineIInv, DeepForce
  PROVE  MachineIInv'
<1>. DEFINE place == CHOOSE i \in DOMAIN Natives : Natives[i].n = "deepForce"
            seen == Below[place].seen \cup {step.v.id}
            marked == [Below EXCEPT ![place].seen = seen]
            rest(items) == [n |-> "items", items |-> Tail(items)]
            one(items) == [s |-> "deepen", v |-> Head(items)]
<1>1. step.s = "got" /\ Natives # <<>> /\ Code.n \notin Bottoms \cup {"select", "deeper"} /\ thunks' = thunks /\ depth' = depth
  BY DEF DeepForce, Running, Bottoms, heap
<1>2. /\ Carries(Natives, Below) /\ Ready(Below) /\ Grows(thunks, thunks')
  BY <1>1, PlainRuns, GrowsSame
<1>3. Carries(Natives, marked) /\ Ready(marked)
  BY <1>2, CarriesSeen
<1>4. ASSUME NEW ns, Carries(Natives, ns), Ready(ns), Continue(ns, step)
      PROVE  MachineIInv'
  BY <1>1, <1>2, <1>4, PlainKeeps DEF Asks
<1>5. ASSUME NEW ns, NEW items, Carries(Natives, ns), Ready(ns), Continue(Append(ns, rest(items)), one(items))
      PROVE  MachineIInv'
  <2>1. PlainCode(rest(items)) /\ one(items).s \in Asks
    BY DEF PlainCode, CodeOk, Bottoms, Asks
  <2>. HIDE DEF rest, one
  <2>2. Carries(Natives, Append(ns, rest(items))) /\ Ready(Append(ns, rest(items)))
    BY <1>5, <2>1, CarriesPush
  <2>. QED BY <1>1, <1>2, <1>5, <2>1, <2>2, PlainKeeps
<1>6. \/ Continue(Below, step)
      \/ Continue(marked, step)
      \/ \E items : Continue(Append(Below, rest(items)), one(items))
      \/ \E items : Continue(Append(marked, rest(items)), one(items))
  BY DEF DeepForce
<1>. HIDE DEF marked, rest, one
<1>. QED BY <1>2, <1>3, <1>4, <1>5, <1>6

LEMMA EqualityKeeps ==
  ASSUME MachineIInv, Equality
  PROVE  MachineIInv'
<1>. DEFINE right == [n |-> "right", a |-> Code.a, b |-> Code.b, elem |-> Code.elem, forced |-> step.v]
            pairs(a, b) == [n |-> "pairs", a |-> Tail(a), b |-> Tail(b)]
            one(a, b) == [s |-> "elem", a |-> Head(a), b |-> Head(b)]
<1>1. step.s = "got" /\ Natives # <<>> /\ Code.n \notin Bottoms \cup {"select", "deeper"} /\ thunks' = thunks /\ depth' = depth
  BY DEF Equality, Running, Bottoms, heap
<1>2. /\ Carries(Natives, Below) /\ Ready(Below) /\ Grows(thunks, thunks')
      /\ \A c : PlainCode(c) => Carries(Natives, Append(Below, c)) /\ Ready(Append(Below, c))
  BY <1>1, PlainRuns, GrowsSame
<1>3. ASSUME NEW s, Continue(Below, s), s.s \in Asks
      PROVE  MachineIInv'
  BY <1>1, <1>2, <1>3, PlainKeeps
<1>4. ASSUME NEW c, NEW s, PlainCode(c), Continue(Append(Below, c), s), s.s \in Asks
      PROVE  MachineIInv'
  BY <1>1, <1>2, <1>4, PlainKeeps
<1>5. PlainCode(right) /\ (\A a, b : PlainCode(pairs(a, b)) /\ one(a, b).s \in Asks) /\ step.s \in Asks
      /\ Want(Code.b).s \in Asks /\ \A b : Got(Bool(b)).s \in Asks
  BY <1>1 DEF PlainCode, CodeOk, Bottoms, Asks, Want, Got
<1>6. \/ Continue(Append(Below, right), Want(Code.b))
      \/ Continue(Below, Got(Bool(TRUE))) \/ Continue(Below, Got(Bool(FALSE))) \/ Continue(Below, step)
      \/ \E a, b : Continue(Append(Below, pairs(a, b)), one(a, b))
  <2>. DEFINE next(a, b) == IF a = <<>> THEN Continue(Below, Got(Bool(TRUE)))
                            ELSE Continue(Append(Below, pairs(a, b)), one(a, b))
  <2>1. \/ Continue(Append(Below, right), Want(Code.b))
        \/ Continue(Below, Got(Bool(TRUE))) \/ Continue(Below, Got(Bool(FALSE))) \/ Continue(Below, step)
        \/ next(Parts(Code.forced), Parts(step.v)) \/ next(Code.a, Code.b)
    BY DEF Equality
  <2>. QED BY <2>1
<1>. HIDE DEF right, pairs, one
<1>. QED BY <1>3, <1>4, <1>5, <1>6

LEMMA CoerceKeeps ==
  ASSUME MachineIInv, CoerceToString
  PROVE  MachineIInv'
<1>. DEFINE v == step.v
<1>1. step.s = "got" /\ Natives # <<>> /\ Code.n \notin Bottoms \cup {"select", "deeper"} /\ thunks' = thunks /\ depth' = depth
  BY DEF CoerceToString, Running, Bottoms, heap
<1>2. /\ Carries(Natives, Below) /\ Ready(Below) /\ Carries(Natives, Natives) /\ Ready(Natives) /\ Grows(thunks, thunks')
      /\ \A c : PlainCode(c) => Carries(Natives, Append(Below, c)) /\ Ready(Append(Below, c))
  BY <1>1, PlainRuns, GrowsSame
<1>3. ASSUME NEW ns, NEW s, Carries(Natives, ns), Ready(ns), Continue(ns, s), s.s \in Asks
      PROVE  MachineIInv'
  BY <1>1, <1>2, <1>3, PlainKeeps
<1>4. \/ Continue(Below, [s |-> "coerce", v |-> v]) \/ Continue(Below, step) \/ Continue(Below, Throw("type"))
      \/ Continue(Append(Below, [n |-> "again"]), Invoke(v.attrs["__toString"], v))
      \/ Continue(Natives, Want(v.attrs["outPath"]))
  BY DEF CoerceToString
<1>5. PlainCode([n |-> "again"]) /\ [s |-> "coerce", v |-> v].s \in Asks /\ step.s \in Asks /\ Throw("type").s \in Asks
      /\ Invoke(v.attrs["__toString"], v).s \in Asks /\ Want(v.attrs["outPath"]).s \in Asks
  BY <1>1 DEF PlainCode, CodeOk, Bottoms, Asks, Throw, Invoke, Want
<1>. QED BY <1>2, <1>3, <1>4, <1>5

LEMMA NativeStepKeeps ==
  ASSUME MachineIInv, NativeStep
  PROVE  MachineIInv'
BY NativeWantsKeeps, NativeCallsKeeps, LoopEndsKeeps, DeepensKeeps, NativeLeavesKeeps, NativeEndsKeeps,
   BuiltinKeeps, DeepForceKeeps, EqualityKeeps, CoerceKeeps DEF NativeStep

LEMMA NativeFailsKeeps ==
  ASSUME MachineIInv, NativeFails
  PROVE  MachineIInv'
<1>1. step.s = "throw" /\ Natives # <<>> /\ Code.n # "select" /\ thunks' = thunks
      /\ depth' = IF Code.n = "deeper" THEN Code.depth ELSE depth
  BY DEF NativeFails
<1>2. \/ Continue(Below, step)
      \/ Code.n = "tryEval" /\ Continue(Below, Got(Tried(FALSE, Bool(FALSE))))
  BY DEF NativeFails
<1>3. CASE Code.n = "deeper"
  <2>1. Continue(Below, step)
    BY <1>2, <1>3
  <2>. QED BY <1>1, <1>3, <2>1, LevelEnds
<1>4. CASE Code.n \in Bottoms
  <2>1. Len(loops) # 1 /\ Deepers(Natives) = {} /\ Below = <<>>
    BY <1>1, <1>4, BottomAlone
  <2>2. Continue(Below, step) /\ depth' = depth
    BY <1>1, <1>2, <1>4 DEF Bottoms
  <2>3. loops' = WithTop(loops, Frames, <<>>) /\ step' = step
    BY <2>1, <2>2, GoIs
  <2>4. Quiet(Frames, Frames) /\ Grows(thunks, thunks') /\ Fits(step'.s, <<>>)
    BY <1>1, <2>3, InnerIs, QuietSame, GrowsSame DEF Fits
  <2>. QED BY <2>1, <2>2, <2>3, <2>4, NoNatives, TurnKeeps
<1>5. CASE Code.n \notin Bottoms \cup {"select", "deeper"}
  <2>1. Carries(Natives, Below) /\ Ready(Below) /\ Grows(thunks, thunks') /\ depth' = depth
    BY <1>1, <1>5, PlainRuns, GrowsSame
  <2>2. step.s \in Asks /\ Got(Tried(FALSE, Bool(FALSE))).s \in Asks
    BY <1>1 DEF Asks, Got
  <2>. QED BY <1>1, <1>2, <1>5, <2>1, <2>2, PlainKeeps
<1>. QED BY <1>1, <1>3, <1>4, <1>5

-----------------------------------------------------------------------------
(* EvalMachine: the search for the attribute.                              *)

LEMMA FirstIs ==
  ASSUME MachineIInv, Natives # <<>>, Code.n = "select"
  PROVE  Len(loops) = 1 /\ Frames = <<>>
<1>1. Len(loops) = 1
  <2>. SUFFICES ASSUME Len(loops) # 1 PROVE FALSE
    OBVIOUS
  <2>1. Stands(Frames, Natives) /\ IsSeq(Natives)
    BY InnerIs DEF CodesOk
  <2>2. Len(Natives) \in DOMAIN Natives /\ Code = Natives[Len(Natives)]
    BY <2>1, FrontIs, SeqParts DEF Code
  <2>. QED BY <2>1, <2>2 DEF Stands
<1>. QED BY <1>1 DEF MachineIInv, Stacks, Frames, Inner

LEMMA FirstKeeps ==
  ASSUME MachineIInv, Len(loops) = 1, Frames = <<>>, NEW ns \in {<<>>, <<[n |-> "select"]>>}, NEW s, Continue(ns, s),
         s.s \in {"want", "done", "failed"}, thunks' = thunks, depth' = depth
  PROVE  MachineIInv'
<1>. DEFINE c == [n |-> "select"]
<1>1. loops' = WithTop(loops, <<>>, ns) /\ step' = s
  BY GoIs
<1>2. CodesOk(ns) /\ Deepers(ns) = {}
  <2>1. CASE ns = <<>>
    BY <2>1, NoNatives
  <2>2. CASE ns = <<c>>
    <3>1. CodeOk(c) /\ c.n # "deeper"
      BY DEF CodeOk
    <3>. HIDE DEF c
    <3>. QED BY <2>2, <3>1, EmptyAndOne DEF CodesOk, Deepers
  <2>. QED BY <2>1, <2>2
<1>3. FramesOk(<<>>) /\ SameWaits(<<>>, <<>>) /\ Leaves(<<>>) = {}
  BY EmptyAndOne DEF FramesOk, SameWaits, Leaves
<1>4. Len(loops') = 1 /\ loops'[1].frames = <<>> /\ loops'[1].natives = ns
  BY <1>1, TopIs DEF MachineIInv
<1>5. LoopsOk(loops')
  BY <1>1, <1>2, <1>3, TopOk DEF MachineIInv
<1>6. Blackholes(loops', thunks') /\ ThunksOk(thunks')
  <2>1. SameWaits(loops[Len(loops)].frames, <<>>)
    BY <1>3 DEF Frames, Inner
  <2>. QED BY <1>1, <2>1, TopBlackholes, GrowsSame DEF MachineIInv
<1>7. Levels(loops', depth')
  <2>1. Natives \in {<<>>, <<c>>}
    BY DEF MachineIInv, Stacks, Natives, Inner
  <2>2. Counts(<<>>, Natives, Bottom(loops, 1), depth) /\ Bottom(loops, 1) \in 0..MaxCallDepth + 1 /\ depth \in 0..MaxCallDepth + 1
    BY InnerIs
  <2>3. Deepers(Natives) = {}
    <3>1. c.n # "deeper"
      OBVIOUS
    <3>. HIDE DEF c
    <3>. QED BY <2>1, <3>1, EmptyAndOne, NoNatives DEF Deepers
  <2>4. Counts(<<>>, ns, Bottom(loops, 1), depth)
    BY <1>2, <2>2, <2>3, CountsCalls
  <2>. QED BY <1>1, <2>2, <2>4, TopLevels DEF MachineIInv
<1>8. Stacks(loops')
  BY <1>4 DEF Stacks
<1>9. Control(loops', step'.s)
  BY <1>1, <1>4 DEF Control
<1>. QED BY <1>5, <1>6, <1>7, <1>8, <1>9 DEF MachineIInv

LEMMA SelectingKeeps ==
  ASSUME MachineIInv, Selecting \/ SelectFails
  PROVE  MachineIInv'
<1>1. Natives # <<>> /\ Code.n = "select" /\ thunks' = thunks /\ depth' = depth
  BY DEF Selecting, SelectFails, Running, heap
<1>2. Len(loops) = 1 /\ Frames = <<>>
  BY <1>1, FirstIs
<1>3. \E ns \in {<<>>, <<[n |-> "select"]>>} : \E s : Continue(ns, s) /\ s.s \in {"want", "done", "failed"}
  BY DEF Selecting, SelectFails, TryNext, Want
<1>. QED BY <1>1, <1>2, <1>3, FirstKeeps

-----------------------------------------------------------------------------
(* EvalMachine: expressions, calls and frames that go on.                  *)

LEMMA LookUpIs ==
  ASSUME NEW gs, NEW fs, Quiet(gs, fs), NEW w, NEW i, NEW ns
  PROVE  Quiet(gs, LookUp(fs, w, i, ns)[1]) /\ LookUp(fs, w, i, ns)[2].s \in Steps
<1>1. \A j : Quiet(gs, Append(fs, [f |-> "with", w |-> w, i |-> j]))
  BY QuietPush DEF PlainFrame
<1>. QED BY <1>1 DEF LookUp, Throw, ForceOf, Steps

LEMMA SelectIs ==
  ASSUME NEW gs, NEW fs, Quiet(gs, fs), NEW sel, NEW i, NEW v, NEW name
  PROVE  Quiet(gs, Select(fs, sel, i, v, name)[1]) /\ Select(fs, sel, i, v, name)[2].s \in Steps
<1>1. \A x : PlainFrame(x) => Quiet(gs, Append(fs, x))
  BY QuietPush
<1>2. \A j, set, n : /\ PlainFrame([f |-> "selectName", sel |-> sel, i |-> j, set |-> set])
                     /\ PlainFrame([f |-> "selectSet", sel |-> sel, i |-> j, name |-> n])
  BY DEF PlainFrame
<1>. QED BY <1>1, <1>2 DEF Select, Throw, ForceOf, Eval, Steps

LEMMA HasIs ==
  ASSUME NEW gs, NEW fs, Quiet(gs, fs), NEW has, NEW i, NEW v, NEW name
  PROVE  Quiet(gs, Has(fs, has, i, v, name)[1]) /\ Has(fs, has, i, v, name)[2].s \in Steps
<1>1. \A x : PlainFrame(x) => Quiet(gs, Append(fs, x))
  BY QuietPush
<1>2. \A j, set : /\ PlainFrame([f |-> "hasSet", has |-> has, i |-> j])
                  /\ PlainFrame([f |-> "hasName", has |-> has, i |-> j, set |-> set])
  BY DEF PlainFrame
<1>. QED BY <1>1, <1>2 DEF Has, Return, ForceOf, Eval, Steps

LEMMA DynamicIs ==
  ASSUME NEW gs, NEW fs, Quiet(gs, fs), NEW d, PlainFrame(d)
  PROVE  Quiet(gs, Dynamic(fs, d)[1]) /\ Dynamic(fs, d)[2].s \in Steps
BY QuietPush DEF Dynamic, Eval, Return, Steps

\* Thunks of expressions are not forced yet.
LEMMA LaterIs ==
  ASSUME NEW es, NEW env, NEW own, NEW n
  PROVE  \A id \in DOMAIN LaterThunks(es, env, own, n) : Dormant(LaterThunks(es, env, own, n)[id])
BY DEF LaterThunks, Dormant, Blackhole

LEMMA LaterGrows ==
  ASSUME NEW ts, NEW es, NEW env, NEW own, NEW n
  PROVE  Grows(ts, Beside(ts, LaterThunks(es, env, own, n)))
BY LaterIs, BesideGrows

LEMMA AllocGrows ==
  ASSUME NEW e, NEW env, AllocLazy(e, env)
  PROVE  Grows(thunks, thunks')
BY LaterGrows DEF AllocLazy

\* The loop goes on, from frames that count and wait as before.
LEMMA LoopKeeps ==
  ASSUME MachineIInv, step.s \in {"eval", "force", "call", "return"}, NEW fs, NEW s, Quiet(Frames, fs), Go(fs, s),
         s.s \in Steps, Grows(thunks, thunks'), depth' = depth
  PROVE  MachineIInv'
BY Returning, GoKeeps

LEMMA BecomesKeeps ==
  ASSUME MachineIInv, step.s \in {"eval", "force", "call", "return"}, NEW next, Becomes(next), Quiet(Frames, next[1]),
         next[2].s \in Steps, Grows(thunks, thunks'), depth' = depth
  PROVE  MachineIInv'
BY LoopKeeps DEF Becomes

LEMMA QuietFrames ==
  ASSUME MachineIInv
  PROVE  Quiet(Frames, Frames) /\ \A x : PlainFrame(x) => Quiet(Frames, Append(Frames, x))
BY InnerIs, QuietSame, QuietPush

LEMMA EvalFirstKeeps ==
  ASSUME MachineIInv, EvalFirst
  PROVE  MachineIInv'
<1>1. step.s \in {"eval", "force", "call", "return"} /\ Grows(thunks, thunks') /\ depth' = depth
  BY GrowsSame DEF EvalFirst, Evaluating, heap
<1>. DEFINE e == step.e
            env == step.env
<1>2. ASSUME NEW frame, NEW first, PlainFrame(frame), Go(Append(Frames, frame), Eval(first, env))
      PROVE  MachineIInv'
  <2>1. Eval(first, env).s \in Steps
    BY DEF Eval, Steps
  <2>. QED BY <1>1, <1>2, <2>1, QuietFrames, LoopKeeps
<1>3. CASE Becomes(Interp(Frames, [f |-> "interp", parts |-> e.parts, env |-> env, i |-> 1, acc |-> ""]))
  <2>. DEFINE p == [f |-> "interp", parts |-> e.parts, env |-> env, i |-> 1, acc |-> ""]
  <2>1. PlainFrame(p)
    BY DEF PlainFrame
  <2>. HIDE DEF p
  <2>2. Quiet(Frames, Interp(Frames, p)[1]) /\ Interp(Frames, p)[2].s \in Steps
    BY <2>1, QuietFrames, InterpIs
  <2>3. Becomes(Interp(Frames, p))
    BY <1>3 DEF p
  <2>. QED BY <1>1, <2>2, <2>3, BecomesKeeps
<1>4. CASE \E frame, first : PlainFrame(frame) /\ Go(Append(Frames, frame), Eval(first, env))
  BY <1>2, <1>4
<1>5. \/ \E frame, first : PlainFrame(frame) /\ Go(Append(Frames, frame), Eval(first, env))
      \/ Becomes(Interp(Frames, [f |-> "interp", parts |-> e.parts, env |-> env, i |-> 1, acc |-> ""]))
  <2>1. /\ PlainFrame([f |-> "selectBase", sel |-> [path |-> e.path, default |-> e.default, env |-> env]])
        /\ PlainFrame([f |-> "apply", args |-> e.args, env |-> env])
        /\ PlainFrame([f |-> "if", then |-> e.then, else |-> e.else, env |-> env])
        /\ PlainFrame([f |-> "assert", body |-> e.body, env |-> env])
        /\ PlainFrame([f |-> "not"])
        /\ PlainFrame([f |-> "operand1", op |-> e.op, other |-> e.right, env |-> env])
        /\ PlainFrame([f |-> "operand1", op |-> e.op, other |-> e.left, env |-> env])
    BY DEF PlainFrame
  <2>. QED BY <2>1, Zenon DEF EvalFirst
<1>. QED BY <1>3, <1>4, <1>5

LEMMA EvalHasAttrKeeps ==
  ASSUME MachineIInv, EvalHasAttr
  PROVE  MachineIInv'
<1>1. step.s \in {"eval", "force", "call", "return"} /\ Grows(thunks, thunks') /\ depth' = depth
  BY AllocGrows DEF EvalHasAttr, Evaluating
<1>. DEFINE v == Lazy(step.e.of, step.env)
            has == [path |-> step.e.path, env |-> step.env]
            x == [f |-> "hasSet", has |-> has, i |-> 1]
            next == IF Suspends(step.e.of, FALSE) THEN <<Append(Frames, x), ForceOf(v)>> ELSE Has(Frames, has, 1, v, <<>>)
<1>2. Becomes(next)
  BY DEF EvalHasAttr
<1>3. PlainFrame(x)
  BY DEF PlainFrame
<1>. HIDE DEF v, has, x
<1>4. Quiet(Frames, next[1]) /\ next[2].s \in Steps
  <2>1. Quiet(Frames, Append(Frames, x)) /\ ForceOf(v).s \in Steps
    BY <1>3, QuietFrames DEF ForceOf, Steps
  <2>2. Quiet(Frames, Has(Frames, has, 1, v, <<>>)[1]) /\ Has(Frames, has, 1, v, <<>>)[2].s \in Steps
    BY QuietFrames, HasIs
  <2>. QED BY <2>1, <2>2
<1>. HIDE DEF next
<1>. QED BY <1>1, <1>2, <1>4, BecomesKeeps

LEMMA EvalAttrsKeeps ==
  ASSUME MachineIInv, EvalAttrs
  PROVE  MachineIInv'
<1>1. step.s \in {"eval", "force", "call", "return"} /\ depth' = depth
  BY DEF EvalAttrs, Evaluating
<1>2. PICK first, es, env, n : /\ thunks' = Beside(Beside(thunks, first), LaterThunks(es, env, FALSE, n))
                               /\ first = <<>> \/ \E inits : first = FrameThunks(inits)
  BY DEF EvalAttrs
<1>3. \E def, in, id, entries : Becomes(Dynamic(Frames, [f |-> "dynamic", def |-> def, env |-> in, id |-> id,
                                                         entries |-> entries, i |-> 1]))
  BY DEF EvalAttrs
<1>4. Grows(thunks, thunks')
  <2>1. Grows(thunks, Beside(thunks, first))
    <3>1. \A id \in DOMAIN first : Dormant(first[id])
      <4>1. CASE first = <<>>
        BY <4>1, EmptyAndOne
      <4>2. ASSUME NEW inits, first = FrameThunks(inits) PROVE \A id \in DOMAIN first : Dormant(first[id])
        BY <4>2, LaterIs DEF FrameThunks
      <4>. QED BY <1>2, <4>1, <4>2
    <3>. QED BY <3>1, BesideGrows
  <2>2. Grows(Beside(thunks, first), thunks')
    BY <1>2, LaterGrows
  <2>. QED BY <2>1, <2>2 DEF Grows
<1>5. PICK d : PlainFrame(d) /\ Becomes(Dynamic(Frames, d))
  BY <1>3 DEF PlainFrame
<1>6. Quiet(Frames, Dynamic(Frames, d)[1]) /\ Dynamic(Frames, d)[2].s \in Steps
  BY <1>5, QuietFrames, DynamicIs
<1>. QED BY <1>1, <1>4, <1>5, <1>6, BecomesKeeps

LEMMA EvalStepKeeps ==
  ASSUME MachineIInv, EvalStep
  PROVE  MachineIInv'
<1>1. CASE EvalPlain
  BY <1>1, QuietFrames, GrowsSame, LoopKeeps DEF EvalPlain, Evaluating, heap, Return, Steps
<1>2. CASE EvalVar
  <2>1. Len(loops) # 1 /\ Deepers(Natives) = {}
    BY <1>2, Returning DEF EvalVar, Evaluating
  <2>. QED BY <1>2, <2>1, QuietFrames, ForceKeeps DEF EvalVar
<1>3. CASE EvalWithVar
  <2>1. step.s \in {"eval", "force", "call", "return"} /\ Grows(thunks, thunks') /\ depth' = depth
    BY <1>3, GrowsSame DEF EvalWithVar, Evaluating, heap
  <2>2. PICK w : Becomes(LookUp(Frames, w, 1, <<>>))
    BY <1>3 DEF EvalWithVar
  <2>3. Quiet(Frames, LookUp(Frames, w, 1, <<>>)[1]) /\ LookUp(Frames, w, 1, <<>>)[2].s \in Steps
    BY QuietFrames, LookUpIs
  <2>. QED BY <2>1, <2>2, <2>3, BecomesKeeps
<1>4. CASE EvalLambda
  BY <1>4, QuietFrames, GrowsSame, LoopKeeps DEF EvalLambda, Evaluating, Return, Steps
<1>5. CASE EvalList
  <2>1. step.s \in {"eval", "force", "call", "return"} /\ Grows(thunks, thunks') /\ depth' = depth
    BY <1>5, LaterGrows DEF EvalList, Evaluating
  <2>2. PICK v : Go(Frames, Return(v))
    BY <1>5 DEF EvalList
  <2>3. Return(v).s \in Steps
    BY DEF Return, Steps
  <2>. QED BY <2>1, <2>2, <2>3, QuietFrames, LoopKeeps
<1>6. CASE EvalAttrs
  BY <1>6, EvalAttrsKeeps
<1>7. CASE EvalFirst
  BY <1>7, EvalFirstKeeps
<1>8. CASE EvalHasAttr
  BY <1>8, EvalHasAttrKeeps
<1>9. CASE EvalLet
  <2>1. step.s \in {"eval", "force", "call", "return"} /\ Grows(thunks, thunks') /\ depth' = depth
    BY <1>9, LaterGrows DEF EvalLet, Evaluating, FrameThunks
  <2>2. Go(Frames, Eval(step.e.body, Len(envs) + 1)) /\ Eval(step.e.body, Len(envs) + 1).s \in Steps
    BY <1>9 DEF EvalLet, Eval, Steps
  <2>. QED BY <2>1, <2>2, QuietFrames, LoopKeeps
<1>10. CASE EvalWith
  <2>1. step.s \in {"eval", "force", "call", "return"} /\ Grows(thunks, thunks') /\ depth' = depth
    BY <1>10, LaterGrows DEF EvalWith, Evaluating
  <2>2. Go(Frames, Eval(step.e.body, Len(envs) + 1)) /\ Eval(step.e.body, Len(envs) + 1).s \in Steps
    BY <1>10 DEF EvalWith, Eval, Steps
  <2>. QED BY <2>1, <2>2, QuietFrames, LoopKeeps
<1>. QED BY <1>1, <1>2, <1>3, <1>4, <1>5, <1>6, <1>7, <1>8, <1>9, <1>10 DEF EvalStep

LEMMA ForceValueKeeps ==
  ASSUME MachineIInv, ForceValue
  PROVE  MachineIInv'
<1>1. Len(loops) # 1 /\ Deepers(Natives) = {}
  BY Returning DEF ForceValue
<1>. QED BY <1>1, QuietFrames, ForceKeeps DEF ForceValue

LEMMA PlainCodesMade ==
  /\ \A c : PlainCode(c) => PlainCodes(<<c>>)
  /\ \A c, d : PlainCode(c) /\ PlainCode(d) => PlainCodes(<<c, d>>)
BY DEF PlainCodes, IsSeq

\* call_primop: the native code of a builtin, none of it at the bottom.
LEMMA NativeIs ==
  ASSUME NEW op, NEW args
  PROVE  PlainCodes(Native(op, args)[1]) /\ Native(op, args)[2].s \in {"want", "deepen", "coerce"}
<1>1. /\ PlainCode([n |-> "tryEval"]) /\ PlainCode([n |-> "then", v |-> args[2]])
      /\ PlainCode([n |-> "deepForce", seen |-> {}]) /\ PlainCode([n |-> "map", fn |-> args[1]])
      /\ PlainCode([n |-> "import"]) /\ PlainCode([n |-> "fail", kind |-> op])
  BY DEF PlainCode, CodeOk, Bottoms
<1>2. /\ PlainCodes(<<[n |-> "tryEval"]>>) /\ PlainCodes(<<[n |-> "then", v |-> args[2]]>>)
      /\ PlainCodes(<<[n |-> "then", v |-> args[2]], [n |-> "deepForce", seen |-> {}]>>)
      /\ PlainCodes(<<[n |-> "map", fn |-> args[1]]>>) /\ PlainCodes(<<[n |-> "import"]>>)
      /\ PlainCodes(<<[n |-> "fail", kind |-> op]>>)
  BY <1>1, PlainCodesMade
<1>3. \A v : Want(v).s = "want"
  BY DEF Want
<1>. QED BY <1>2, <1>3 DEF Native

LEMMA BindIs ==
  ASSUME NEW called, NEW lambda, NEW arg, NEW set, BindPattern(called, lambda, arg, set)
  PROVE  Grows(thunks, thunks') /\ \E s : Go(called, s) /\ s.s \in Steps
<1>1. \/ thunks' = thunks /\ Go(called, Throw("type"))
      \/ /\ \E es, env : thunks' = Beside(thunks, LaterThunks(es, env, TRUE, Len(thunks)))
         /\ \E env : Go(called, Eval(lambda.def.body, env))
  BY Zenon DEF BindPattern, heap
<1>2. Throw("type").s \in Steps /\ \A e, in : Eval(e, in).s \in Steps
  BY DEF Throw, Eval, Steps
<1>. QED BY <1>1, <1>2, GrowsSame, LaterGrows

LEMMA ApplyKeeps ==
  ASSUME MachineIInv, step.s \in {"eval", "force", "call", "return"}, NEW fs, Quiet(Frames, fs), NEW fn, NEW arg,
         Apply(fs, fn, arg)
  PROVE  MachineIInv'
<1>. DEFINE called == Append(fs, Leave)
<1>1. Len(loops) # 1 /\ Deepers(Natives) = {}
  BY Returning
<1>2. FramesOk(fs)
  BY DEF Quiet
<1>3. FramesOk(called) /\ called # <<>> /\ called[Len(called)].f = "leave"
  BY <1>2, AppendLeaves
<1>4. called = Append(fs, [f |-> "leave", depth |-> depth])
  BY DEF Leave
<1>. HIDE DEF called
<1>5. CASE Full /\ Go(fs, Throw("overflow")) /\ UNCHANGED <<heap, depth>>
  BY <1>5, GrowsSame, LoopKeeps DEF Throw, Steps, heap
<1>6. ASSUME ~Full, depth' = depth + 1, NEW gs, NEW s, Quiet(called, gs), Go(gs, s), s.s \in Steps, Grows(thunks, thunks')
      PROVE  MachineIInv'
  <2>1. loops' = WithTop(loops, gs, <<>>) /\ step' = s
    BY <1>6, GoIs
  <2>2. Fits(step'.s, <<>>)
    BY <1>6, <2>1 DEF Fits, Steps
  <2>. QED BY <1>1, <1>6, <2>1, <2>2, NoNatives, EnterKeeps DEF called
<1>7. Quiet(called, called) /\ \A x : PlainFrame(x) => Quiet(called, Append(called, x))
  BY <1>3, QuietSame, QuietPush
<1>8. ASSUME ~Full, depth' = depth + 1, NEW op, NEW args, UNCHANGED heap,
             GoNative(called, <<[n |-> "result"]>> \o Native(op, args)[1], Native(op, args)[2])
      PROVE  MachineIInv'
  <2>. DEFINE ns == <<[n |-> "result"]>> \o Native(op, args)[1]
  <2>1. PlainCodes(Native(op, args)[1]) /\ Native(op, args)[2].s \in {"want", "deepen", "coerce"}
    BY NativeIs
  <2>2. CodesOk(ns) /\ Deepers(ns) = {} /\ Ready(ns) /\ Stands(called, ns)
    BY <1>3, <2>1, ResultIs
  <2>3. loops' = WithTop(loops, called, ns) /\ step' = Native(op, args)[2]
    BY <1>8, GoIs
  <2>. HIDE DEF ns
  <2>4. Fits(step'.s, ns)
    BY <2>1, <2>2, <2>3 DEF Fits, Ready
  <2>5. Grows(thunks, thunks')
    BY <1>8, GrowsSame DEF heap
  <2>. QED BY <1>1, <1>7, <1>8, <2>2, <2>3, <2>4, <2>5, EnterKeeps DEF called
<1>9. ASSUME ~Full, depth' = depth + 1,
             \/ /\ fn.t = "lambda" /\ fn.def.param = "ident"
                /\ envs' = Append(envs, [up |-> fn.env, slots |-> <<arg>>])
                /\ Go(called, Eval(fn.def.body, Len(envs) + 1))
                /\ UNCHANGED <<thunks, made, imported>>
             \/ fn.t = "lambda" /\ fn.def.param = "pattern" /\ Whnf(arg) /\ BindPattern(called, fn, arg, Forced(arg))
             \/ /\ fn.t = "lambda" /\ fn.def.param = "pattern" /\ ~Whnf(arg)
                /\ Go(Append(called, [f |-> "pattern", fn |-> fn, arg |-> arg]), ForceOf(arg))
                /\ UNCHANGED heap
             \/ /\ fn.t \in {"primop", "papp"}
                /\ LET args == IF fn.t = "papp" THEN Append(fn.args, arg) ELSE <<arg>> IN
                     \/ /\ Len(args) < Arity[fn.op]
                        /\ Go(called, Return([t |-> "papp", id |-> made + 1, op |-> fn.op, args |-> args]))
                        /\ made' = made + 1
                        /\ UNCHANGED <<thunks, envs, imported>>
                     \/ /\ Len(args) = Arity[fn.op]
                        /\ GoNative(called, <<[n |-> "result"]>> \o Native(fn.op, args)[1], Native(fn.op, args)[2])
                        /\ UNCHANGED heap
             \/ /\ IsSet(fn) /\ "__functor" \in Names(fn)
                /\ Go(Append(called, [f |-> "call", arg |-> arg]), Call(fn.attrs["__functor"], fn))
                /\ UNCHANGED heap
             \/ /\ fn.t \notin {"lambda", "primop", "papp"} /\ ~(IsSet(fn) /\ "__functor" \in Names(fn))
                /\ Go(called, Throw("type"))
                /\ UNCHANGED heap
      PROVE  MachineIInv'
  <2>1. PlainFrame([f |-> "pattern", fn |-> fn, arg |-> arg]) /\ PlainFrame([f |-> "call", arg |-> arg])
    BY DEF PlainFrame
  <2>2. /\ Eval(fn.def.body, Len(envs) + 1).s \in Steps /\ ForceOf(arg).s \in Steps /\ Throw("type").s \in Steps
        /\ Call(fn.attrs["__functor"], fn).s \in Steps /\ \A v : Return(v).s \in Steps
    BY DEF Eval, ForceOf, Throw, Call, Return, Steps
  <2>3. (UNCHANGED heap \/ UNCHANGED <<thunks, made, imported>> \/ UNCHANGED <<thunks, envs, imported>>)
        => Grows(thunks, thunks')
    BY GrowsSame DEF heap
  <2>4. \/ \E s : Go(called, s) /\ s.s \in Steps /\ Grows(thunks, thunks')
        \/ \E x, s : PlainFrame(x) /\ Go(Append(called, x), s) /\ s.s \in Steps /\ Grows(thunks, thunks')
        \/ \E op, args : UNCHANGED heap
                         /\ GoNative(called, <<[n |-> "result"]>> \o Native(op, args)[1], Native(op, args)[2])
    <3>1. BindPattern(called, fn, arg, Forced(arg)) => Grows(thunks, thunks') /\ \E s : Go(called, s) /\ s.s \in Steps
      BY BindIs
    <3>. QED BY <1>9, <2>1, <2>2, <2>3, <3>1, Zenon
  <2>. QED BY <1>6, <1>7, <1>8, <1>9, <2>4
<1>. QED BY <1>4, <1>5, <1>6, <1>9, Zenon DEF Apply

LEMMA CallStepKeeps ==
  ASSUME MachineIInv, CallStep
  PROVE  MachineIInv'
<1>1. step.s \in {"eval", "force", "call", "return"}
  BY DEF CallStep
<1>2. CASE Apply(Frames, Forced(step.fn), step.arg)
  BY <1>1, <1>2, QuietFrames, ApplyKeeps
<1>3. CASE Go(Append(Frames, [f |-> "call", arg |-> step.arg]), ForceOf(step.fn)) /\ UNCHANGED <<heap, depth>>
  <2>1. PlainFrame([f |-> "call", arg |-> step.arg]) /\ ForceOf(step.fn).s \in Steps
    BY DEF PlainFrame, ForceOf, Steps
  <2>2. Grows(thunks, thunks') /\ depth' = depth
    BY <1>3, GrowsSame DEF heap
  <2>. QED BY <1>1, <1>3, <2>1, <2>2, QuietFrames, LoopKeeps
<1>. QED BY <1>2, <1>3 DEF CallStep

\* The frame on top that goes on, if nothing is counted or waits by it.
LEMMA RestIs ==
  ASSUME MachineIInv, Frames # <<>>, Top.f \notin {"thunk", "leave"}
  PROVE  Quiet(Frames, Rest) /\ "f" \in DOMAIN Top /\ \A x : PlainFrame(x) => Quiet(Frames, Append(Rest, x))
<1>1. FramesOk(Frames)
  BY InnerIs
<1>2. Quiet(Frames, Rest)
  BY <1>1, QuietPop DEF Top, Rest
<1>3. "f" \in DOMAIN Top
  <2>1. Len(Frames) \in DOMAIN Frames /\ Top = Frames[Len(Frames)]
    BY <1>1, FrontIs, SeqParts DEF FramesOk, Top
  <2>. QED BY <1>1, <2>1 DEF FramesOk, FrameOk
<1>. QED BY <1>2, <1>3, QuietPush

LEMMA ResumeApplyKeeps ==
  ASSUME MachineIInv, ResumeApply
  PROVE  MachineIInv'
<1>1. step.s \in {"eval", "force", "call", "return"} /\ Frames # <<>> /\ Top.f \notin {"thunk", "leave"}
      /\ Grows(thunks, thunks') /\ depth' = depth
  BY AllocGrows DEF ResumeApply, Resuming
<1>. DEFINE more == Tail(Top.args)
            again == [Top EXCEPT !.args = more]
            call == Call(step.v, Lazy(Head(Top.args), Top.env))
<1>2. Go(Rest, call) \/ Go(Append(Rest, again), call)
  BY DEF ResumeApply
<1>3. PlainFrame(again)
  BY <1>1, RestIs DEF PlainFrame
<1>4. call.s \in Steps
  BY DEF Call, Steps
<1>. HIDE DEF again, call
<1>. QED BY <1>1, <1>2, <1>3, <1>4, RestIs, LoopKeeps

LEMMA ResumePatternKeeps ==
  ASSUME MachineIInv, ResumePattern
  PROVE  MachineIInv'
<1>1. step.s \in {"eval", "force", "call", "return"} /\ Frames # <<>> /\ Top.f \notin {"thunk", "leave"}
      /\ BindPattern(Rest, Top.fn, Top.arg, step.v) /\ depth' = depth
  BY DEF ResumePattern, Resuming
<1>2. Grows(thunks, thunks') /\ \E s : Go(Rest, s) /\ s.s \in Steps
  BY <1>1, BindIs
<1>. QED BY <1>1, <1>2, RestIs, LoopKeeps

LEMMA ResumeBoolKeeps ==
  ASSUME MachineIInv, ResumeBool
  PROVE  MachineIInv'
<1>1. step.s \in {"eval", "force", "call", "return"} /\ Frames # <<>> /\ Top.f \notin {"thunk", "leave"}
      /\ Grows(thunks, thunks') /\ depth' = depth
  BY GrowsSame DEF ResumeBool, Resuming, heap
<1>2. Top.f \in {"if", "assert", "not", "bool"}
  BY DEF ResumeBool, Resuming
<1>. DEFINE s == CASE Top.f = "if" -> Eval(IF step.v.b THEN Top.then ELSE Top.else, Top.env)
                   [] Top.f = "assert" /\ step.v.b -> Eval(Top.body, Top.env)
                   [] Top.f = "assert" /\ ~step.v.b -> Throw("assert")
                   [] Top.f = "not" -> Return(Bool(~step.v.b))
                   [] Top.f = "bool" -> Return(step.v)
<1>3. Go(Rest, Throw("type")) \/ Go(Rest, s)
  BY DEF ResumeBool
<1>4. Throw("type").s \in Steps /\ s.s \in Steps
  BY <1>2 DEF Eval, Throw, Return, Steps
<1>. HIDE DEF s
<1>. QED BY <1>1, <1>3, <1>4, RestIs, LoopKeeps

LEMMA ResumeOperand1Keeps ==
  ASSUME MachineIInv, ResumeOperand1
  PROVE  MachineIInv'
<1>1. step.s \in {"eval", "force", "call", "return"} /\ Frames # <<>> /\ Top.f \notin {"thunk", "leave"}
      /\ Grows(thunks, thunks') /\ depth' = depth
  BY GrowsSame DEF ResumeOperand1, Resuming, heap
<1>. DEFINE v == step.v
            c == [n |-> "addStr", other |-> Top.other, env |-> Top.env]
            coerce == [s |-> "coerce", v |-> v]
<1>2. \/ \E s : Go(Rest, s) /\ s.s \in Steps
      \/ \E x : PlainFrame(x) /\ Go(Append(Rest, x), Eval(Top.other, Top.env))
      \/ GoNative(Rest, <<c>>, coerce)
  <2>1. /\ PlainFrame([f |-> "bool"]) /\ PlainFrame([f |-> "operand2", op |-> Top.op, first |-> v])
        /\ PlainFrame([f |-> "updateLeft", right |-> v])
    BY DEF PlainFrame
  <2>2. Throw("type").s \in Steps /\ \A u : Return(u).s \in Steps
    BY DEF Throw, Return, Steps
  <2>. QED BY <2>1, <2>2, Zenon DEF ResumeOperand1
<1>3. CASE \E s : Go(Rest, s) /\ s.s \in Steps
  BY <1>1, <1>3, RestIs, LoopKeeps
<1>4. CASE \E x : PlainFrame(x) /\ Go(Append(Rest, x), Eval(Top.other, Top.env))
  <2>1. Eval(Top.other, Top.env).s \in Steps
    BY DEF Eval, Steps
  <2>. QED BY <1>1, <1>4, <2>1, RestIs, LoopKeeps
<1>5. CASE GoNative(Rest, <<c>>, coerce)
  <2>1. CodeOk(c) /\ c.n = "addStr" /\ coerce.s = "coerce"
    BY DEF CodeOk
  <2>. HIDE DEF c, coerce
  <2>2. CodesOk(<<c>>) /\ Deepers(<<c>>) = {} /\ Stands(Rest, <<c>>) /\ <<c>> # <<>>
    BY <2>1, EmptyAndOne DEF CodesOk, Deepers, Stands, Bottoms
  <2>3. loops' = WithTop(loops, Rest, <<c>>) /\ step' = coerce
    BY <1>5, GoIs
  <2>4. Fits(step'.s, <<c>>)
    BY <2>1, <2>2, <2>3 DEF Fits
  <2>. QED BY <1>1, <2>2, <2>3, <2>4, Returning, RestIs, TurnKeeps
<1>. QED BY <1>2, <1>3, <1>4, <1>5

LEMMA ResumeCallKeeps ==
  ASSUME MachineIInv, ResumeCall
  PROVE  MachineIInv'
<1>1. step.s \in {"eval", "force", "call", "return"} /\ Frames # <<>> /\ Top.f \notin {"thunk", "leave"}
      /\ Apply(Rest, step.v, Top.arg)
  BY DEF ResumeCall, Resuming
<1>. QED BY <1>1, RestIs, ApplyKeeps

\* Native code that the loop goes on from, at the bottom of no other.
LEMMA BottomKeeps ==
  ASSUME MachineIInv, step.s \in {"eval", "force", "call", "return"}, NEW fs, Quiet(Frames, fs), NEW c, CodeOk(c),
         c.n \in {"equal", "addStr", "append"}, NEW s, s.s \in {"coerce", "equal"}, GoNative(fs, <<c>>, s),
         Grows(thunks, thunks'), depth' = depth
  PROVE  MachineIInv'
<1>1. CodesOk(<<c>>) /\ Deepers(<<c>>) = {} /\ Stands(fs, <<c>>) /\ <<c>> # <<>>
  BY EmptyAndOne DEF CodesOk, Deepers, Stands, Bottoms
<1>2. loops' = WithTop(loops, fs, <<c>>) /\ step' = s
  BY GoIs
<1>3. Fits(step'.s, <<c>>)
  BY <1>1, <1>2 DEF Fits
<1>. QED BY <1>1, <1>2, <1>3, Returning, TurnKeeps

LEMMA ResumeOperand2Keeps ==
  ASSUME MachineIInv, ResumeOperand2
  PROVE  MachineIInv'
<1>1. step.s \in {"eval", "force", "call", "return"} /\ Frames # <<>> /\ Top.f \notin {"thunk", "leave"}
      /\ Grows(thunks, thunks') /\ depth' = depth
  BY GrowsSame DEF ResumeOperand2, Resuming, heap
<1>. DEFINE c == [n |-> "equal", op |-> Top.op]
            s == [s |-> "equal", a |-> Top.first, b |-> step.v]
<1>2. CodeOk(c) /\ c.n = "equal" /\ s.s = "equal"
  BY DEF CodeOk
<1>3. (\A v : Return(v).s \in Steps) /\ \A kind : Throw(kind).s \in Steps
  BY DEF Return, Throw, Steps
<1>4. \/ GoNative(Rest, <<c>>, s)
      \/ \E v : Go(Rest, Return(v))
      \/ \E kind : Go(Rest, Throw(kind))
  BY DEF ResumeOperand2
<1>. HIDE DEF c, s
<1>. QED BY <1>1, <1>2, <1>3, <1>4, RestIs, LoopKeeps, BottomKeeps

LEMMA ResumeUpdateKeeps ==
  ASSUME MachineIInv, ResumeUpdate
  PROVE  MachineIInv'
<1>1. step.s \in {"eval", "force", "call", "return"} /\ Frames # <<>> /\ Top.f \notin {"thunk", "leave"}
      /\ Grows(thunks, thunks') /\ depth' = depth
  BY GrowsSame DEF ResumeUpdate, Resuming
<1>2. (\A v : Return(v).s \in Steps) /\ Throw("type").s \in Steps
  BY DEF Return, Throw, Steps
<1>3. (\E v : Go(Rest, Return(v))) \/ Go(Rest, Throw("type"))
  BY DEF ResumeUpdate
<1>. QED BY <1>1, <1>2, <1>3, RestIs, LoopKeeps

LEMMA ResumeStringKeeps ==
  ASSUME MachineIInv, ResumeString
  PROVE  MachineIInv'
<1>1. step.s \in {"eval", "force", "call", "return"} /\ Frames # <<>> /\ Top.f \notin {"thunk", "leave"}
      /\ Grows(thunks, thunks') /\ depth' = depth
  BY GrowsSame DEF ResumeString, Resuming, heap
<1>. DEFINE c == [n |-> "append", to |-> Top]
            s == [s |-> "coerce", v |-> step.v]
<1>2. GoNative(Rest, <<c>>, s)
  BY DEF ResumeString
<1>3. CodeOk(c) /\ c.n = "append" /\ s.s = "coerce"
  BY <1>1, RestIs DEF CodeOk
<1>. HIDE DEF c, s
<1>. QED BY <1>1, <1>2, <1>3, RestIs, BottomKeeps

LEMMA ResumeNamesKeeps ==
  ASSUME MachineIInv, ResumeNames
  PROVE  MachineIInv'
<1>1. step.s \in {"eval", "force", "call", "return"} /\ Frames # <<>> /\ Top.f \notin {"thunk", "leave"}
      /\ Grows(thunks, thunks') /\ depth' = depth
  BY GrowsSame DEF ResumeNames, Resuming, heap
<1>2. Quiet(Frames, Rest)
  BY <1>1, RestIs
<1>3. \/ Go(Rest, Throw("type"))
      \/ \E w, i, ns : Becomes(LookUp(Rest, w, i, ns))
      \/ \E sel, i, v, name : Becomes(Select(Rest, sel, i, v, name))
      \/ \E has, i, v, name : Becomes(Has(Rest, has, i, v, name))
  <2>1. Top.f \in {"with", "selectBase", "selectName", "selectSet", "hasSet", "hasName"}
    BY DEF ResumeNames, Resuming
  <2>2. CASE Top.f = "with"
    BY <2>2, Zenon DEF ResumeNames
  <2>3. CASE Top.f = "selectBase"
    BY <2>3 DEF ResumeNames
  <2>4. CASE Top.f = "selectSet"
    BY <2>4 DEF ResumeNames
  <2>5. CASE Top.f = "hasSet"
    BY <2>5 DEF ResumeNames
  <2>6. CASE Top.f = "selectName"
    BY <2>6 DEF ResumeNames
  <2>7. CASE Top.f = "hasName"
    BY <2>7 DEF ResumeNames
  <2>. QED BY <2>1, <2>2, <2>3, <2>4, <2>5, <2>6, <2>7
<1>4. CASE Go(Rest, Throw("type"))
  BY <1>1, <1>2, <1>4, LoopKeeps DEF Throw, Steps
<1>5. ASSUME NEW w, NEW i, NEW ns, Becomes(LookUp(Rest, w, i, ns)) PROVE MachineIInv'
  <2>1. Quiet(Frames, LookUp(Rest, w, i, ns)[1]) /\ LookUp(Rest, w, i, ns)[2].s \in Steps
    BY <1>2, LookUpIs
  <2>. QED BY <1>1, <1>5, <2>1, BecomesKeeps
<1>6. ASSUME NEW sel, NEW i, NEW v, NEW name, Becomes(Select(Rest, sel, i, v, name)) PROVE MachineIInv'
  <2>1. Quiet(Frames, Select(Rest, sel, i, v, name)[1]) /\ Select(Rest, sel, i, v, name)[2].s \in Steps
    BY <1>2, SelectIs
  <2>. QED BY <1>1, <1>6, <2>1, BecomesKeeps
<1>7. ASSUME NEW has, NEW i, NEW v, NEW name, Becomes(Has(Rest, has, i, v, name)) PROVE MachineIInv'
  <2>1. Quiet(Frames, Has(Rest, has, i, v, name)[1]) /\ Has(Rest, has, i, v, name)[2].s \in Steps
    BY <1>2, HasIs
  <2>. QED BY <1>1, <1>7, <2>1, BecomesKeeps
<1>. QED BY <1>3, <1>4, <1>5, <1>6, <1>7, Zenon

LEMMA ResumeDynamicKeeps ==
  ASSUME MachineIInv, ResumeDynamic
  PROVE  MachineIInv'
<1>. DEFINE next == [Top EXCEPT !.i = @ + 1]
            value == Top.def.dynamics[Top.i].value
            filled == [next EXCEPT !.entries = (step.v.s :> Lazy(value, Top.env)) @@ @]
<1>1. step.s \in {"eval", "force", "call", "return"} /\ Frames # <<>> /\ Top.f \notin {"thunk", "leave"}
      /\ depth' = depth
  BY DEF ResumeDynamic, Resuming
<1>2. Grows(thunks, thunks')
  <2>1. UNCHANGED heap \/ AllocLazy(value, Top.env)
    BY DEF ResumeDynamic
  <2>. QED BY <2>1, GrowsSame, AllocGrows DEF heap
<1>3. \/ \E kind : Go(Rest, Throw(kind))
      \/ Becomes(Dynamic(Rest, next))
      \/ Becomes(Dynamic(Rest, filled))
  BY DEF ResumeDynamic
<1>4. PlainFrame(next)
  BY <1>1, RestIs DEF PlainFrame
<1>5. PlainFrame(filled)
  BY <1>4 DEF PlainFrame
<1>. HIDE DEF next, filled
<1>6. ASSUME NEW d, PlainFrame(d), Becomes(Dynamic(Rest, d)) PROVE MachineIInv'
  <2>1. Quiet(Frames, Dynamic(Rest, d)[1]) /\ Dynamic(Rest, d)[2].s \in Steps
    BY <1>1, <1>6, RestIs, DynamicIs
  <2>. QED BY <1>1, <1>2, <1>6, <2>1, BecomesKeeps
<1>7. ASSUME NEW kind, Go(Rest, Throw(kind)) PROVE MachineIInv'
  <2>1. Throw(kind).s \in Steps
    BY DEF Throw, Steps
  <2>. QED BY <1>1, <1>2, <1>7, <2>1, RestIs, LoopKeeps
<1>. QED BY <1>3, <1>4, <1>5, <1>6, <1>7

LEMMA ResumeKeeps ==
  ASSUME MachineIInv, Resume
  PROVE  MachineIInv'
BY ResumeThunkKeeps, ResumeLeaveKeeps, ResumeApplyKeeps, ResumeCallKeeps, ResumePatternKeeps, ResumeBoolKeeps,
   ResumeOperand1Keeps, ResumeOperand2Keeps, ResumeUpdateKeeps, ResumeStringKeeps, ResumeNamesKeeps,
   ResumeDynamicKeeps DEF Resume

-----------------------------------------------------------------------------
(* EvalMachine: the theorem.                                               *)

LEMMA MachineStarts ==
  ASSUME EvalInit
  PROVE  MachineIInv
<1>. DEFINE c == [n |-> "select"]
            first == [frames |-> <<>>, natives |-> <<c>>, base |-> -1]
<1>1. loops = <<first>> /\ step.s = "want" /\ depth = 0
  BY DEF EvalInit, Want
<1>2. CodeOk(c) /\ c.n = "select"
  BY DEF CodeOk
<1>3. first.frames = <<>> /\ first.natives = <<c>> /\ first.base = -1
      /\ first = [frames |-> first.frames, natives |-> first.natives, base |-> first.base]
  OBVIOUS
<1>. HIDE DEF c
<1>4. CodesOk(<<c>>) /\ Deepers(<<c>>) = {} /\ FramesOk(<<>>) /\ Leaves(<<>>) = {}
  BY <1>2, EmptyAndOne DEF CodesOk, Deepers, FramesOk, Leaves
<1>. HIDE DEF first
<1>5. Len(loops) = 1 /\ DOMAIN loops = {1} /\ loops[1] = first /\ IsSeq(loops) /\ loops # <<>>
  BY <1>1, EmptyAndOne
<1>6. LoopsOk(loops)
  BY <1>3, <1>4, <1>5 DEF LoopsOk, LoopOk
<1>7. ThunksOk(thunks) /\ \A id \in DOMAIN thunks : thunks[id] # Blackhole
  <2>. DEFINE one == [k |-> "native", first |-> Thunk(Self), after |-> <<[n |-> "then", v |-> Thunk(Outputs)]>>]
              two == [k |-> "native", first |-> Thunk(Outputs), after |-> <<[n |-> "build"]>>]
              three == [k |-> "app", fn |-> [t |-> "lambda", id |-> 1, def |-> session.outputs, env |-> Root],
                        arg |-> Set(2, "self" :> Thunk(Self))]
  <2>1. thunks = <<one, two, three>>
    BY DEF EvalInit
  <2>2. Dormant(one) /\ Dormant(two) /\ Dormant(three)
    BY DEF Dormant, Blackhole
  <2>. HIDE DEF one, two, three
  <2>3. \A id \in DOMAIN thunks : thunks[id] \in {one, two, three}
    BY <2>1
  <2>. QED BY <2>2, <2>3 DEF ThunksOk, Dormant
<1>8. Blackholes(loops, thunks)
  BY <1>3, <1>5, <1>7, EmptyAndOne DEF Blackholes, Awaited, AwaitedOnce, Held, Waits
<1>9. Levels(loops, depth)
  <2>1. 0 \in 0..MaxCallDepth + 1
    BY CallDepthAssumption
  <2>2. Climbs(<<>>, {}, 0, 0) /\ Climbs(<<c>>, {}, 0, 0)
    BY ClimbsNone
  <2>3. Counts(<<>>, <<c>>, 0, 0)
    BY <1>4, <2>1, <2>2 DEF Counts
  <2>4. Bottom(loops, 1) = 0 /\ Ceiling(loops, 1, depth) = 0
    BY <1>1, <1>5 DEF Bottom, Ceiling
  <2>5. 1..Len(loops) = {1} /\ 2..Len(loops) = {}
    BY <1>5
  <2>. QED BY <1>1, <1>3, <1>5, <2>1, <2>3, <2>4, <2>5 DEF Levels
<1>10. Stacks(loops)
  <2>1. 2..Len(loops) = {}
    BY <1>5
  <2>. QED BY <1>3, <1>5, <2>1 DEF Stacks, c
<1>11. Control(loops, step.s)
  BY <1>1, <1>5 DEF Control
<1>. QED BY <1>6, <1>7, <1>8, <1>9, <1>10, <1>11 DEF MachineIInv

LEMMA MachineKeeps ==
  ASSUME MachineIInv, [EvalNext]_machineVars
  PROVE  MachineIInv'
<1>1. CASE EvalStep \/ ForceValue \/ CallStep \/ Resume
  BY <1>1, EvalStepKeeps, ForceValueKeeps, CallStepKeeps, ResumeKeeps
<1>2. CASE NativeStep \/ NativeFails \/ Unwind \/ Build
  BY <1>2, NativeStepKeeps, NativeFailsKeeps, UnwindKeeps, BuildKeeps
<1>3. CASE Selecting \/ SelectFails
  BY <1>3, SelectingKeeps
<1>4. CASE UNCHANGED machineVars
  BY <1>4 DEF machineVars, heap, MachineIInv
<1>. QED BY <1>1, <1>2, <1>3, <1>4 DEF EvalNext, MachineStep

\* A thunk is a blackhole while one frame waits for it, and only then.
LEMMA BlackholesCounted ==
  ASSUME MachineIInv
  PROVE  BlackholesAreForced
<1>. SUFFICES ASSUME NEW id \in DOMAIN thunks
              PROVE  Cardinality({place \in AllFrames : FrameAt(place).f = "thunk" /\ FrameAt(place).id = id})
                       = IF thunks[id] = Blackhole THEN 1 ELSE 0
  BY DEF BlackholesAreForced
<1>. DEFINE by == {place \in AllFrames : FrameAt(place).f = "thunk" /\ FrameAt(place).id = id}
<1>1. \A place : place \in by <=> \E l, i : place = <<l, i>> /\ Waits(loops, l, i) /\ Awaits(loops, l, i) = id
  BY DEF AllFrames, FrameAt, Waits, Awaits
<1>2. Awaited(loops, thunks) /\ AwaitedOnce(loops) /\ Held(loops, thunks)
  BY DEF MachineIInv, Blackholes
<1>. HIDE DEF by
<1>3. CASE thunks[id] = Blackhole
  <2>1. PICK l, i : Waits(loops, l, i) /\ Awaits(loops, l, i) = id
    BY <1>2, <1>3 DEF Held
  <2>2. \A m, j : Waits(loops, m, j) /\ Awaits(loops, m, j) = id => m = l /\ j = i
    BY <1>2, <2>1 DEF AwaitedOnce, Waits
  <2>3. by = {<<l, i>>}
    BY <1>1, <2>1, <2>2
  <2>4. Cardinality(by) = 1
    BY <2>3, FS_Singleton
  <2>. QED BY <1>3, <2>4 DEF by
<1>4. CASE thunks[id] # Blackhole
  <2>1. \A l, i : ~ (Waits(loops, l, i) /\ Awaits(loops, l, i) = id)
    BY <1>2, <1>4 DEF Awaited, Waits
  <2>2. by = {}
    BY <1>1, <2>1
  <2>3. Cardinality(by) = 0
    BY <2>2, FS_EmptySet
  <2>. QED BY <1>4, <2>3 DEF by
<1>. QED BY <1>3, <1>4

LEMMA DepthCounted ==
  ASSUME MachineIInv
  PROVE  DepthIsCounted
<1>1. EvalEnds => depth = 0
  <2>. SUFFICES ASSUME EvalEnds PROVE depth = 0
    OBVIOUS
  <2>1. Len(loops) = 1
    BY DEF EvalEnds, MachineIInv, Control, Fits
  <2>2. Frames = <<>> /\ Natives \in {<<>>, <<[n |-> "select"]>>}
    BY <2>1 DEF MachineIInv, Stacks, Frames, Natives, Inner
  <2>3. Leaves(Frames) = {} /\ Deepers(Natives) = {}
    <3>. DEFINE c == [n |-> "select"]
    <3>1. c.n # "deeper" /\ Natives \in {<<>>, <<c>>}
      BY <2>2
    <3>. HIDE DEF c
    <3>. QED BY <2>2, <3>1, EmptyAndOne, NoNatives DEF Deepers, Leaves
  <2>4. Climbs(Frames, {}, 0, depth)
    BY <2>1, <2>3, CallsClimb DEF Bottom
  <2>5. depth \in Int
    BY InnerIs
  <2>. QED BY <2>4, <2>5, ClimbsNone
<1>2. \A l \in 2..Len(loops) : loops[l - 1].base < loops[l].base
  BY DEF MachineIInv, Levels
<1>3. depth <= MaxCallDepth + 1
  BY InnerIs, CallDepthAssumption
<1>. QED BY <1>1, <1>2, <1>3 DEF DepthIsCounted

\* Whatever the program, the files it imports and the depth calls may have: a thunk is a
\* blackhole exactly while one frame waits for it, however evaluations fail, are caught
\* and retried, and the depth comes back to where it was and bounds the loops on the
\* native stack (machine.rs: force_step, run and unwind; its assertion that a loop starts
\* deeper than the one it runs in never fails).
THEOREM EvaluationsLeaveNothing == EvalSpec => []MachineInv
<1>1. EvalInit => MachineIInv
  BY MachineStarts
<1>2. MachineIInv /\ [EvalNext]_machineVars => MachineIInv'
  BY MachineKeeps
<1>3. MachineIInv => MachineInv
  BY BlackholesCounted, DepthCounted DEF MachineInv
<1>. QED BY <1>1, <1>2, <1>3, PTL DEF EvalSpec

-----------------------------------------------------------------------------
(* FlakeSource.                                                            *)

OfWorktree(attrs) == attrs.type = "git" /\ attrs.rev = NotThere

\* Only a working tree is read in steps.
ReadsWorktree == at \in {"index", "status", "head", "add"} => request \in Requests /\ OfWorktree(request)

\* What was read of a repository that nobody changed is still so.
ReadIsSo ==
    ~disturbed =>
        /\ at \in {"status", "head", "add"} => keep = DOMAIN index
        /\ at \in {"head", "add"} => dirty = IsDirty
        /\ at = "add" => headSeen = head

FlakeSourceIInv == FlakeSourceInv /\ ReadsWorktree /\ ReadIsSo

-----------------------------------------------------------------------------
(* Trees, and the ways to change one.                                       *)

LEMMA TreeIs ==
  ASSUME NEW t \in SourceTrees
  PROVE  DOMAIN t \subseteq SourceFiles /\ t \in [DOMAIN t -> Blobs]
BY DEF SourceTrees

LEMMA IsTree ==
  ASSUME NEW S \in SUBSET SourceFiles, NEW t \in [S -> Blobs]
  PROVE  t \in SourceTrees
BY DEF SourceTrees

LEMMA EmptyIsTree == NoTree \in SourceTrees
<1>1. NoTree \in [{} -> Blobs]
  BY DEF NoTree
<1> QED BY <1>1, IsTree

LEMMA RestrictionIsTree ==
  ASSUME NEW t \in SourceTrees, NEW S \in SUBSET DOMAIN t
  PROVE  [f \in S |-> t[f]] \in SourceTrees
<1>1. [f \in S |-> t[f]] \in [S -> Blobs] /\ S \in SUBSET SourceFiles
  BY TreeIs
<1> QED BY <1>1, IsTree

LEMMA WithFileIsTree ==
  ASSUME NEW t \in SourceTrees, NEW f \in SourceFiles, NEW b \in Blobs
  PROVE  WithFile(t, f, b) \in SourceTrees
<1>1. WithFile(t, f, b) \in [DOMAIN t \cup {f} -> Blobs] /\ DOMAIN t \cup {f} \in SUBSET SourceFiles
  BY TreeIs DEF WithFile
<1> QED BY <1>1, IsTree

LEMMA WithoutFileIsTree ==
  ASSUME NEW t \in SourceTrees, NEW f
  PROVE  WithoutFile(t, f) \in SourceTrees
BY RestrictionIsTree DEF WithoutFile

LEMMA CommitIsTree ==
  ASSUME commits \in Seq(SourceTrees), NEW i \in 0..Len(commits)
  PROVE  TreeAt(i) \in SourceTrees
BY EmptyIsTree DEF TreeAt

-----------------------------------------------------------------------------
(* What a fetch that takes one step returns.                                *)

\* What every way to fetch gives for what was asked.
Pins(attrs, result) ==
    /\ result \in FetchedSources \cup {Failed}
    /\ result # Failed /\ attrs.narHash # NotThere => result.tree = attrs.narHash

LEMMA StoreTransparent ==
  ASSUME NEW attrs \in Requests, attrs.narHash # NotThere
  PROVE  LET stocked == FromStore(attrs, {attrs.narHash})
             served  == Downloaded(attrs, attrs.narHash)
         IN  /\ stocked.tree = served.tree
             /\ stocked.info.lastModified = served.info.lastModified
             /\ attrs.type # "file" => stocked.info.rev = served.info.rev
BY DEF FromStore, Downloaded, Accepts, Found, NoInfo, TimeOf

LEMMA FromStorePins ==
  ASSUME NEW attrs \in Requests, FromStore(attrs, stored) # NotThere
  PROVE  Pins(attrs, FromStore(attrs, stored))
BY RequestsAssumption DEF FromStore, Found, NoInfo, Pins, FetchedSources, Known, Hashes

LEMMA DownloadedPins ==
  ASSUME NEW attrs \in Requests, NEW got \in Served
  PROVE  Pins(attrs, Downloaded(attrs, got))
<1>1. TimeOf(attrs) \in Known /\ attrs.lastModified \in Known /\ attrs.rev \in Known
  BY RequestsAssumption DEF TimeOf, ArchiveTime, Known
<1> QED BY <1>1 DEF Downloaded, Accepts, Found, NoInfo, Pins, FetchedSources, Known

LEMMA PathPins ==
  ASSUME FlakeSourceTypeOK, NEW attrs \in Requests
  PROVE  Pins(attrs, PathSource(attrs))
<1>1. NewestTime \in Known /\ attrs.lastModified \in Known /\ work \in SourceTrees
  BY RequestsAssumption DEF NewestTime, Known, FlakeSourceTypeOK
<1> QED BY <1>1 DEF PathSource, Accepts, Found, NoInfo, Pins, FetchedSources, Known

LEMMA CommitPins ==
  ASSUME FlakeSourceTypeOK, NEW attrs \in Requests
  PROVE  Pins(attrs, CommitSource(attrs))
<1>1. CASE CommitSource(attrs) = Failed
  BY <1>1 DEF Pins
<1>2. CASE CommitSource(attrs) # Failed
  <2>1. attrs.rev \in 1..Len(commits) /\ commits[attrs.rev] \in SourceTrees /\ Accepts(commits[attrs.rev], attrs.narHash)
    BY <1>2 DEF CommitSource, FlakeSourceTypeOK
  <2> QED BY <2>1, RequestsAssumption DEF CommitSource, Accepts, Found, NoInfo, Pins, FetchedSources, Known
<1> QED BY <1>1, <1>2

-----------------------------------------------------------------------------
(* The steps of a fetch, and what somebody does to the repository.          *)

LEMMA FetchKeeps == FlakeSourceIInv /\ (\E attrs \in Requests : Fetch(attrs)) => FlakeSourceIInv'
<1> SUFFICES ASSUME FlakeSourceIInv, NEW attrs \in Requests, Fetch(attrs)
             PROVE  FlakeSourceIInv'
  OBVIOUS
<1>t. FlakeSourceTypeOK /\ at = "idle" /\ request' = attrs
  BY DEF FlakeSourceIInv, FlakeSourceInv, Fetch
<1>u. UNCHANGED <<commits, head, index, work, stored, keep, dirty, headSeen>> /\ disturbed' = FALSE
  BY DEF Fetch, repoVars
<1>1. CASE OfWorktree(attrs)
  <2>1. at' = "index" /\ source' = source
    BY <1>1 DEF Fetch, OfWorktree
  <2> QED BY <1>1, <1>t, <1>u, <2>1 DEF FlakeSourceIInv, FlakeSourceInv, FlakeSourceTypeOK, ReadsWorktree, ReadIsSo,
          LockedIsPinned, StoreIsTransparent, CleanIsItsCommit, OnlyTrackedIsCopied, IsSource
<1>2. CASE ~OfWorktree(attrs)
  <2>1. PICK result : Done(result) /\ Pins(attrs, result)
    <3>1. CASE attrs.type = "path"
      BY <3>1, <1>t, PathPins DEF Fetch
    <3>2. CASE attrs.type = "git" /\ attrs.rev # NotThere
      BY <3>2, <1>t, CommitPins DEF Fetch
    <3>3. CASE attrs.type = "indirect"
      BY <3>3 DEF Fetch, Pins
    <3>4. CASE attrs.type \notin {"path", "git", "indirect"}
      <4>1. CASE FromStore(attrs, stored) # NotThere
        BY <3>4, <4>1, FromStorePins DEF Fetch
      <4>2. CASE FromStore(attrs, stored) = NotThere /\ ~Downloads(attrs)
        BY <3>4, <4>2 DEF Fetch, Pins
      <4>3. CASE FromStore(attrs, stored) = NotThere /\ Downloads(attrs)
        BY <3>4, <4>3, DownloadedPins DEF Fetch
      <4> QED BY <4>1, <4>2, <4>3
    <3> QED BY <1>2, <3>1, <3>2, <3>3, <3>4 DEF OfWorktree
  <2>2. source' \in FetchedSources \cup {Failed} /\ source' # NotThere /\ at' = "done"
    BY <2>1, OutcomesAssumption DEF Done, Pins
  <2>3. FlakeSourceTypeOK'
    BY <1>t, <1>u, <2>2 DEF FlakeSourceTypeOK
  <2>4. LockedIsPinned'
    BY <1>t, <2>1 DEF LockedIsPinned, IsSource, Done, Pins
  <2>5. StoreIsTransparent'
    BY <1>t, StoreTransparent DEF StoreIsTransparent
  <2>6. CleanIsItsCommit' /\ OnlyTrackedIsCopied'
    BY <1>2, <1>t DEF CleanIsItsCommit, OnlyTrackedIsCopied, OfWorktree
  <2>7. ReadsWorktree' /\ ReadIsSo'
    BY <2>2 DEF ReadsWorktree, ReadIsSo
  <2> QED BY <2>3, <2>4, <2>5, <2>6, <2>7 DEF FlakeSourceIInv, FlakeSourceInv
<1> QED BY <1>1, <1>2

LEMMA ReadingKeeps == FlakeSourceIInv /\ (ReadIndex \/ Status \/ ReadHead) => FlakeSourceIInv'
<1> SUFFICES ASSUME FlakeSourceIInv, ReadIndex \/ Status \/ ReadHead
             PROVE  FlakeSourceIInv'
  OBVIOUS
<1> USE DEF repoVars
<1>t. FlakeSourceTypeOK /\ ReadsWorktree /\ ReadIsSo
  BY DEF FlakeSourceIInv, FlakeSourceInv
<1>1. /\ at \in {"index", "status", "head"} /\ at' \in {"status", "head", "add"}
      /\ UNCHANGED <<commits, head, index, work, stored, request, source, disturbed>>
  BY DEF ReadIndex, Status, ReadHead
<1>2. FlakeSourceTypeOK'
  <2>1. keep' \subseteq SourceFiles
    BY <1>t, TreeIs DEF FlakeSourceTypeOK, ReadIndex, Status, ReadHead, Kept, Tracked
  <2>2. dirty' \in BOOLEAN
    BY <1>t DEF FlakeSourceTypeOK, ReadIndex, Status, ReadHead, IsDirty, IndexIsDirty, WorkIsDirty
  <2>3. headSeen' \in 0..Len(commits)
    BY <1>t DEF FlakeSourceTypeOK, ReadIndex, Status, ReadHead
  <2> QED BY <1>t, <1>1, <2>1, <2>2, <2>3 DEF FlakeSourceTypeOK
<1>3. source' = NotThere /\ request' = request /\ at \in {"index", "status", "head"}
  BY <1>t, <1>1 DEF FlakeSourceTypeOK
<1>4. ReadsWorktree'
  BY <1>t, <1>3 DEF ReadsWorktree
<1>5. IsDirty' = IsDirty
  BY <1>1 DEF IsDirty, IndexIsDirty, WorkIsDirty, Tracked, TreeAt
<1>6. ReadIsSo'
  <2>1. CASE ReadIndex
    BY <2>1, <1>1 DEF ReadIndex, ReadIsSo, Kept, Tracked
  <2>2. CASE Status
    <3>1. dirty' = IsDirty' /\ at = "status" /\ at' = "head" /\ keep' = keep
      BY <2>2, <1>5 DEF Status
    <3> QED BY <3>1, <1>t, <1>1, Zenon DEF ReadIsSo
  <2>3. CASE ReadHead
    <3>1. headSeen' = head /\ at = "head" /\ at' = "add" /\ keep' = keep /\ dirty' = dirty
      BY <2>3 DEF ReadHead
    <3> QED BY <3>1, <1>t, <1>1, <1>5, Zenon DEF ReadIsSo
  <2> QED BY <2>1, <2>2, <2>3
<1> QED BY <1>2, <1>3, <1>4, <1>6 DEF FlakeSourceIInv, FlakeSourceInv, LockedIsPinned, StoreIsTransparent,
        CleanIsItsCommit, OnlyTrackedIsCopied, IsSource

LEMMA AddKeeps == FlakeSourceIInv /\ AddKept => FlakeSourceIInv'
<1> SUFFICES ASSUME FlakeSourceIInv, AddKept
             PROVE  FlakeSourceIInv'
  OBVIOUS
<1> DEFINE copied == [f \in keep \cap DOMAIN work |-> work[f]]
           isClean == headSeen # 0 /\ ~dirty
<1>t. FlakeSourceTypeOK /\ request \in Requests /\ OfWorktree(request) /\ ReadIsSo /\ at = "add"
  BY DEF FlakeSourceIInv, FlakeSourceInv, ReadsWorktree, AddKept
<1>1. /\ UNCHANGED <<commits, head, index, work, stored, request, keep, dirty, headSeen, disturbed>>
      /\ at' = "done"
  BY DEF AddKept, Done, repoVars
<1>2. /\ source'.tree = copied
      /\ source'.info.rev = IF isClean THEN headSeen ELSE NotThere
      /\ source'.info.revCount = IF isClean THEN headSeen ELSE NotThere
  BY DEF AddKept, Done, Found, NoInfo
<1>3. source' \in FetchedSources
  <2>1. copied \in SourceTrees
    BY <1>t, RestrictionIsTree DEF FlakeSourceTypeOK
  <2>2. headSeen \in Known /\ NotThere \in Known
    BY <1>t DEF FlakeSourceTypeOK, Known
  <2> QED BY <2>1, <2>2 DEF AddKept, Done, Found, NoInfo, FetchedSources
<1>4. FlakeSourceTypeOK'
  BY <1>t, <1>1, <1>3, OutcomesAssumption DEF FlakeSourceTypeOK
<1>5. LockedIsPinned'
  BY <1>t, <1>1 DEF LockedIsPinned, OfWorktree
<1>6. StoreIsTransparent'
  BY <1>t, <1>1, StoreTransparent DEF StoreIsTransparent
<1>7. OnlyTrackedIsCopied'
  BY <1>t, <1>1, <1>2 DEF OnlyTrackedIsCopied, ReadIsSo
<1>8. CleanIsItsCommit'
  <2> SUFFICES ASSUME source'.info.rev # NotThere, ~disturbed
               PROVE  copied = commits[headSeen] /\ source'.info.rev = headSeen /\ source'.info.revCount = headSeen
    BY <1>1, <1>2 DEF CleanIsItsCommit
  <2>1. isClean
    BY <1>2
  <2>2. keep = DOMAIN index /\ headSeen = head /\ dirty = IsDirty
    BY <1>t, Zenon DEF ReadIsSo
  <2>3. ~IsDirty
    BY <2>1, <2>2, Zenon
  <2>4. index = TreeAt(head) /\ \A f \in DOMAIN index : f \in DOMAIN work /\ work[f] = index[f]
    BY <2>3 DEF IsDirty, IndexIsDirty, WorkIsDirty, Tracked
  <2>5. copied = index
    <3>1. index = [f \in DOMAIN index |-> index[f]]
      BY <1>t, TreeIs DEF FlakeSourceTypeOK
    <3>2. copied = [f \in DOMAIN index |-> index[f]]
      BY <2>2, <2>4
    <3> QED BY <3>1, <3>2
  <2>6. index = commits[headSeen]
    BY <2>1, <2>2, <2>4 DEF TreeAt
  <2> QED BY <1>2, <2>1, <2>5, <2>6
<1>9. ReadsWorktree' /\ ReadIsSo'
  BY <1>1 DEF ReadsWorktree, ReadIsSo
<1> QED BY <1>4, <1>5, <1>6, <1>7, <1>8, <1>9 DEF FlakeSourceIInv, FlakeSourceInv

\* A repository that was changed is still one, and nothing is said of it.
LEMMA DisturbedKeeps ==
  ASSUME FlakeSourceIInv, UNCHANGED fetchVars, stored' = stored, disturbed' = TRUE,
         commits' \in Seq(SourceTrees), index' \in SourceTrees, work' \in SourceTrees,
         Len(commits) <= Len(commits'), head' \in 0..Len(commits')
  PROVE  FlakeSourceIInv'
<1>1. FlakeSourceTypeOK'
  BY DEF FlakeSourceIInv, FlakeSourceInv, FlakeSourceTypeOK, fetchVars
<1> QED BY <1>1 DEF FlakeSourceIInv, FlakeSourceInv, fetchVars, LockedIsPinned, StoreIsTransparent, CleanIsItsCommit,
        OnlyTrackedIsCopied, ReadsWorktree, ReadIsSo

LEMMA ChangesKeep ==
  ASSUME FlakeSourceIInv,
         \/ \E f \in SourceFiles : Stage(f) \/ Delete(f) \/ \E b \in Blobs : Edit(f, b)
         \/ Commit
         \/ \E i \in 1..Len(commits) : Checkout(i)
  PROVE  FlakeSourceIInv'
<1>t. /\ commits \in Seq(SourceTrees) /\ index \in SourceTrees /\ work \in SourceTrees
      /\ Len(commits) \in Nat /\ head \in 0..Len(commits)
  BY DEF FlakeSourceIInv, FlakeSourceInv, FlakeSourceTypeOK
<1>1. ASSUME NEW f \in SourceFiles, Stage(f)
      PROVE  FlakeSourceIInv'
  <2>1. index' \in SourceTrees
    <3>1. CASE f \in DOMAIN work
      BY <1>1, <1>t, <3>1, TreeIs, WithFileIsTree DEF Stage
    <3>2. CASE f \notin DOMAIN work
      BY <1>1, <1>t, <3>2, WithoutFileIsTree DEF Stage
    <3> QED BY <3>1, <3>2
  <2> QED BY <1>1, <1>t, <2>1, DisturbedKeeps DEF Stage, Change
<1>2. ASSUME NEW f \in SourceFiles, Delete(f)
      PROVE  FlakeSourceIInv'
  BY <1>2, <1>t, WithoutFileIsTree, DisturbedKeeps DEF Delete, Change
<1>3. ASSUME NEW f \in SourceFiles, NEW b \in Blobs, Edit(f, b)
      PROVE  FlakeSourceIInv'
  BY <1>3, <1>t, WithFileIsTree, DisturbedKeeps DEF Edit, Change
<1>4. CASE Commit
  <2>1. commits' \in Seq(SourceTrees) /\ Len(commits') = Len(commits) + 1
    BY <1>4, <1>t, AppendProperties DEF Commit
  <2> QED BY <1>4, <1>t, <2>1, DisturbedKeeps DEF Commit
<1>5. ASSUME NEW i \in 1..Len(commits), Checkout(i)
      PROVE  FlakeSourceIInv'
  <2>1. TreeAt(i) \in SourceTrees
    BY <1>t, CommitIsTree
  <2>2. work' \in SourceTrees
    <3> DEFINE files == DOMAIN TreeAt(i) \cup (DOMAIN work \ DOMAIN index)
    <3>1. files \in SUBSET SourceFiles /\ work' \in [files -> Blobs]
      BY <1>5, <1>t, <2>1, TreeIs DEF Checkout
    <3> QED BY <3>1, IsTree
  <2> QED BY <1>5, <1>t, <2>1, <2>2, DisturbedKeeps DEF Checkout, Change
<1> QED BY <1>1, <1>2, <1>3, <1>4, <1>5

\* A source is what its label says, whatever is done to the repository it is
\* from before, while and after it is read.
THEOREM SourcesAreLabelled == FlakeSourceSpec => []FlakeSourceInv
<1>1. FlakeSourceInit => FlakeSourceIInv
  <2> SUFFICES ASSUME FlakeSourceInit
               PROVE  FlakeSourceIInv
    OBVIOUS
  <2>1. commits \in Seq(SourceTrees)
    <3>1. CASE commits = <<>>
      BY <3>1
    <3>2. CASE commits # <<>>
      <4>1. PICK t \in [FirstFiles -> Blobs] : commits = <<t>>
        BY <3>2 DEF FlakeSourceInit
      <4>2. t \in SourceTrees
        BY FirstFilesAssumption, IsTree
      <4> QED BY <4>1, <4>2
    <3> QED BY <3>1, <3>2
  <2>2. head \in 0..Len(commits)
    BY <2>1 DEF FlakeSourceInit
  <2>3. TreeAt(head) \in SourceTrees
    BY <2>1, <2>2, CommitIsTree
  <2>4. FlakeSourceTypeOK
    <3>1. stored \subseteq Hashes
      BY DEF FlakeSourceInit, Hashes
    <3>2. index \in SourceTrees /\ work \in SourceTrees /\ headSeen \in 0..Len(commits)
      BY <2>1, <2>2, <2>3 DEF FlakeSourceInit
    <3> QED BY <2>1, <2>2, <3>1, <3>2 DEF FlakeSourceInit, FlakeSourceTypeOK
  <2> QED BY <2>4 DEF FlakeSourceInit, FlakeSourceIInv, FlakeSourceInv, LockedIsPinned, StoreIsTransparent,
          CleanIsItsCommit, OnlyTrackedIsCopied, IsSource, ReadsWorktree, ReadIsSo
<1>2. FlakeSourceIInv /\ [FlakeSourceNext]_sourceVars => FlakeSourceIInv'
  <2> SUFFICES ASSUME FlakeSourceIInv, [FlakeSourceNext]_sourceVars
               PROVE  FlakeSourceIInv'
    OBVIOUS
  <2>1. CASE Again
    <3>1. source' = NotThere /\ at' = "idle"
      BY <2>1 DEF Again
    <3>2. FlakeSourceTypeOK'
      <4>1. FlakeSourceTypeOK /\ UNCHANGED <<commits, head, index, work, stored>> /\ request' = NotThere
        BY <2>1 DEF Again, repoVars, FlakeSourceIInv, FlakeSourceInv
      <4>2. keep' = {} /\ headSeen' = 0 /\ dirty' \in BOOLEAN /\ disturbed' \in BOOLEAN
        BY <2>1 DEF Again
      <4> QED BY <3>1, <4>1, <4>2 DEF FlakeSourceTypeOK
    <3> QED BY <3>1, <3>2 DEF FlakeSourceIInv, FlakeSourceInv, LockedIsPinned, StoreIsTransparent,
            CleanIsItsCommit, OnlyTrackedIsCopied, IsSource, ReadsWorktree, ReadIsSo
  <2>2. CASE UNCHANGED sourceVars
    BY <2>2 DEF sourceVars, repoVars, fetchVars, FlakeSourceIInv, FlakeSourceInv, FlakeSourceTypeOK, LockedIsPinned,
       StoreIsTransparent, CleanIsItsCommit, OnlyTrackedIsCopied, ReadsWorktree, ReadIsSo, IsDirty, IndexIsDirty,
       WorkIsDirty, Tracked, TreeAt
  <2> QED BY <2>1, <2>2, FetchKeeps, ReadingKeeps, AddKeeps, ChangesKeep DEF FlakeSourceNext
<1>3. FlakeSourceIInv => FlakeSourceInv
  BY DEF FlakeSourceIInv
<1> QED BY <1>1, <1>2, <1>3, PTL DEF FlakeSourceSpec

-----------------------------------------------------------------------------
(* TreePath: the inductive invariant.                                      *)

Ends == {"", "missing", "loop", "found", "not a directory"}
Walks ==
    [pending : Seq(FileNames), dirs : Seq(Seq(FileNames)), names : Seq(FileNames),
     links : 0..MaxSymlinks, end : Ends, node : Seq(FileNames)]

\* The directories passed are those of the names, and directories they are.
OnItsWay(t, w) ==
    /\ Len(w.dirs) = Len(w.names) + 1
    /\ \A i \in 1..Len(w.dirs) : w.dirs[i] = SubSeq(w.names, 1, i - 1)
    /\ \A i \in 1..Len(w.names) : t[SubSeq(w.names, 1, i)].type = "directory"

\* All the names lead through are directories; only a link not followed is
\* found itself.
Arrived(t, follow, w) ==
    /\ w.names = w.node
    /\ \A i \in 1..Len(w.names) :
         t[SubSeq(w.names, 1, i)].type # "directory" => i = Len(w.names)
    /\ \A i \in 1..Len(w.names) :
         t[SubSeq(w.names, 1, i)].type = "symlink" => i = Len(w.names) /\ ~follow

Sound(t, follow, w) ==
    /\ ~Over(w) => OnItsWay(t, w)
    /\ w.end = "found" => Arrived(t, follow, w)

\* Where the walks part: at a submodule, which the commit has an entry for.
Parted(t, wd, wg) ==
    /\ wd.end = "missing"
    /\ wg.end = "not a directory" \/ (wg.end = "found" /\ TypeAt(t, wg.node) = "submodule")

InStep(t, wd, wg) == wd = wg \/ Parted(t, wd, wg)

TreePathTypes ==
    /\ tree \in Trees /\ question \in Ops /\ asked \in Paths
    /\ walk \in [Accessors -> Walks]
    /\ DOMAIN answer = Accessors

TreePathIInv ==
    /\ TreePathTypes
    /\ \A k \in Accessors : Sound(tree, Follow(question), walk[k])
    /\ InStep(tree, walk["dir"], walk["git"])
    /\ \A k \in Accessors : answer[k] # <<"none">> => Over(walk[k])
    /\ AccessorsAgree

-----------------------------------------------------------------------------
(* A turn of the loop.                                                     *)

\* The names of a path with one more at its end.
LEMMA NamesGrow ==
  ASSUME NEW s \in Seq(FileNames), NEW x \in FileNames
  PROVE  /\ Append(s, x) \in Seq(FileNames) /\ Len(Append(s, x)) = Len(s) + 1
         /\ \A i \in 1..Len(s) : SubSeq(Append(s, x), 1, i) = SubSeq(s, 1, i)
         /\ SubSeq(Append(s, x), 1, Len(s)) = s
         /\ SubSeq(Append(s, x), 1, Len(s) + 1) = Append(s, x)
         /\ SubSeq(s, 1, Len(s)) = s
<1>1. Append(s, x) \in Seq(FileNames) /\ Len(Append(s, x)) = Len(s) + 1
  OBVIOUS
<1>2. \A i \in 1..Len(s) : SubSeq(Append(s, x), 1, i) = SubSeq(s, 1, i)
  OBVIOUS
<1>3. SubSeq(s, 1, Len(s)) = s
  OBVIOUS
<1>4. SubSeq(Append(s, x), 1, Len(s)) = s
  OBVIOUS
<1>5. SubSeq(Append(s, x), 1, Len(s) + 1) = Append(s, x)
  BY <1>1
<1>. QED BY <1>1, <1>2, <1>3, <1>4, <1>5

\* The names of a path without the one at its end.
LEMMA NamesShrink ==
  ASSUME NEW S, NEW s \in Seq(S), s # <<>>
  PROVE  /\ Front(s) \in Seq(S) /\ Len(Front(s)) = Len(s) - 1 /\ Len(s) \in Nat \ {0}
         /\ \A i \in 1..Len(s) - 1 : Front(s)[i] = s[i]
         /\ \A i \in 0..Len(s) - 1 : SubSeq(Front(s), 1, i) = SubSeq(s, 1, i)
<1>1. Len(s) \in Nat \ {0}
  BY EmptySeq, LenProperties
<1>2. /\ Front(s) \in Seq(S) /\ Len(Front(s)) = Len(s) - 1
      /\ \A i \in 1..Len(s) - 1 : Front(s)[i] = s[i]
  <2>1. /\ SubSeq(s, 1, Len(s) - 1) \in Seq(S)
        /\ Len(SubSeq(s, 1, Len(s) - 1)) = IF 1 <= Len(s) - 1 THEN Len(s) - 1 - 1 + 1 ELSE 0
        /\ \A i \in 1..Len(s) - 1 - 1 + 1 : SubSeq(s, 1, Len(s) - 1)[i] = s[1 + i - 1]
    BY <1>1, SubSeqProperties
  <2>. DEFINE f == SubSeq(s, 1, Len(s) - 1)
  <2>2. Front(s) = f
    BY DEF Front
  <2>. HIDE DEF f
  <2>3. f \in Seq(S) /\ Len(f) = Len(s) - 1 /\ \A i \in 1..Len(s) - 1 : f[i] = s[i]
    <3>1. f \in Seq(S)
      BY <2>1 DEF f
    <3>2. Len(f) = Len(s) - 1
      <4>1. ASSUME NEW n \in Nat \ {0}  PROVE (IF 1 <= n - 1 THEN n - 1 - 1 + 1 ELSE 0) = n - 1
        OBVIOUS
      <4>. QED BY <1>1, <2>1, <4>1 DEF f
    <3>3. \A i \in 1..Len(s) - 1 : f[i] = s[i]
      BY <1>1, <2>1 DEF f
    <3>. QED BY <3>1, <3>2, <3>3
  <2>. QED BY <2>2, <2>3
<1>3. ASSUME NEW i \in 0..Len(s) - 1  PROVE SubSeq(Front(s), 1, i) = SubSeq(s, 1, i)
  BY <1>1, <1>2
<1>. QED BY <1>1, <1>2, <1>3

\* What a walk is made of.
LEMMA WalkParts ==
  ASSUME NEW w \in Walks
  PROVE  /\ w.pending \in Seq(FileNames) /\ w.dirs \in Seq(Seq(FileNames)) /\ w.names \in Seq(FileNames)
         /\ w.links \in 0..MaxSymlinks /\ w.end \in Ends /\ w.node \in Seq(FileNames)
         /\ Len(w.names) \in Nat /\ Len(w.dirs) \in Nat
         /\ w.pending # <<>> => Head(w.pending) \in FileNames /\ Tail(w.pending) \in Seq(FileNames)
<1>1. /\ w.pending \in Seq(FileNames) /\ w.dirs \in Seq(Seq(FileNames)) /\ w.names \in Seq(FileNames)
      /\ w.links \in 0..MaxSymlinks /\ w.end \in Ends /\ w.node \in Seq(FileNames)
  BY DEF Walks, Over
<1>2. w.pending # <<>> => Head(w.pending) \in FileNames /\ Tail(w.pending) \in Seq(FileNames)
  BY <1>1, HeadTailProperties
<1>. QED BY <1>1, <1>2, LenProperties

\* The directory reached is the one the names lead to.
LEMMA ReachedByNames ==
  ASSUME NEW t, NEW w \in Walks, OnItsWay(t, w)
  PROVE  Last(w.dirs) = w.names
<1>1. Len(w.dirs) = Len(w.names) + 1 /\ Len(w.names) \in Nat /\ w.names \in Seq(FileNames)
  BY WalkParts DEF OnItsWay
<1>2. \A i \in 1..Len(w.dirs) : w.dirs[i] = SubSeq(w.names, 1, i - 1)
  BY DEF OnItsWay
<1>3. w.dirs[Len(w.names) + 1] = SubSeq(w.names, 1, Len(w.names) + 1 - 1)
  BY <1>1, <1>2
<1>4. SubSeq(w.names, 1, Len(w.names)) = w.names
  BY <1>1
<1>5. w.dirs[Len(w.names) + 1] = w.names
  BY <1>1, <1>3, <1>4
<1>. QED BY <1>1, <1>5 DEF Last

\* Out of a directory that is not the root.
LEMMA UpKeeps ==
  ASSUME NEW t, NEW follow, NEW w \in Walks, ~Over(w), OnItsWay(t, w), w.pending # <<>>
  PROVE  UpFrom(w) \in Walks /\ Sound(t, follow, UpFrom(w))
<1>. DEFINE v == UpFrom(w)
<1>1. CASE Len(w.dirs) = 1
  BY <1>1 DEF UpFrom, Stop, Walks, Ends, Sound, Over
<1>2. CASE Len(w.dirs) # 1
  <2>1. w.dirs # <<>> /\ w.names # <<>> /\ w.names \in Seq(FileNames) /\ w.dirs \in Seq(Seq(FileNames)) /\ w.pending \in Seq(FileNames)
    <3>1. w.names \in Seq(FileNames) /\ w.dirs \in Seq(Seq(FileNames)) /\ w.pending \in Seq(FileNames) /\ Len(w.dirs) = Len(w.names) + 1
      BY WalkParts DEF OnItsWay
    <3>2. Len(w.names) \in Nat
      BY WalkParts
    <3>. QED BY <1>2, <3>1, <3>2
  <2>2. v = [w EXCEPT !.dirs = Front(@), !.names = Front(@), !.pending = Tail(@)]
    BY <1>2 DEF UpFrom
  <2>3. Front(w.dirs) \in Seq(Seq(FileNames)) /\ Front(w.names) \in Seq(FileNames) /\ Tail(w.pending) \in Seq(FileNames)
    <3>1. Front(w.dirs) \in Seq(Seq(FileNames))
      BY ONLY <2>1, NamesShrink
    <3>2. Front(w.names) \in Seq(FileNames)
      BY ONLY <2>1, NamesShrink
    <3>. QED BY <3>1, <3>2, WalkParts
  <2>4. v \in Walks /\ v.dirs = Front(w.dirs) /\ v.names = Front(w.names) /\ ~Over(v)
    BY <2>2, <2>3 DEF Walks, Over
  <2>. HIDE DEF v
  <2>5. /\ Len(v.dirs) = Len(w.dirs) - 1 /\ \A i \in 1..Len(w.dirs) - 1 : v.dirs[i] = w.dirs[i]
    BY <2>1, <2>4, NamesShrink
  <2>6. Len(v.names) = Len(w.names) - 1 /\ \A i \in 0..Len(w.names) - 1 : SubSeq(v.names, 1, i) = SubSeq(w.names, 1, i)
    BY <2>1, <2>4, NamesShrink
  <2>7. Len(w.dirs) = Len(w.names) + 1 /\ Len(w.names) \in Nat
    BY WalkParts DEF OnItsWay
  <2>8. \A i \in 1..Len(v.dirs) : v.dirs[i] = SubSeq(v.names, 1, i - 1)
    <3>1. \A i \in 1..Len(w.dirs) : w.dirs[i] = SubSeq(w.names, 1, i - 1)
      BY DEF OnItsWay
    <3>2. Len(v.dirs) = Len(w.names)
      BY <2>1, <2>3, <2>4, <2>5, <2>7
    <3>3. ASSUME NEW i \in 1..Len(w.names)  PROVE v.dirs[i] = SubSeq(v.names, 1, i - 1)
      <4>1. v.dirs[i] = w.dirs[i] /\ w.dirs[i] = SubSeq(w.names, 1, i - 1) /\ i - 1 \in 0..Len(w.names) - 1
        <5>1. i \in 1..Len(w.dirs) - 1 /\ i \in 1..Len(w.dirs)
          BY <2>1, <2>7
        <5>2. v.dirs[i] = w.dirs[i] /\ w.dirs[i] = SubSeq(w.names, 1, i - 1)
          BY <2>5, <3>1, <5>1
        <5>. QED BY <5>2, <2>7
      <4>. QED BY <4>1, <2>6
    <3>. QED BY <3>2, <3>3
  <2>9. \A i \in 1..Len(v.names) : t[SubSeq(v.names, 1, i)].type = "directory"
    <3>1. \A i \in 1..Len(w.names) : t[SubSeq(w.names, 1, i)].type = "directory"
      BY DEF OnItsWay
    <3>2. ASSUME NEW i \in 1..Len(v.names)  PROVE i \in 1..Len(w.names) /\ i \in 0..Len(w.names) - 1
      BY <2>1, <2>3, <2>4, <2>6, <2>7
    <3>. QED BY <3>1, <3>2, <2>6
  <2>10. OnItsWay(t, v)
    <3>1. Len(v.dirs) = Len(v.names) + 1
      BY <2>1, <2>3, <2>4, <2>5, <2>6, <2>7
    <3>. QED BY <3>1, <2>8, <2>9 DEF OnItsWay
  <2>. QED BY <2>4, <2>10 DEF Sound, Over, v
<1>. QED BY <1>1, <1>2

\* Into an entry that is shown and is not a symlink to follow.
LEMMA IntoKeeps ==
  ASSUME NEW t, NEW follow, NEW w \in Walks, ~Over(w), OnItsWay(t, w), w.pending # <<>>,
         NEW node, node = Append(Last(w.dirs), Head(w.pending)),
         ~(t[node].type = "symlink" /\ (follow \/ Len(w.pending) > 1))
  PROVE  LET v == Into(w, node, t[node].type) IN
         v \in Walks /\ Sound(t, follow, v)
<1>. DEFINE names == Append(w.names, Head(w.pending))
            u == [w EXCEPT !.names = names, !.pending = Tail(@)]
            v == Into(w, node, t[node].type)
<1>0. /\ w.names \in Seq(FileNames) /\ w.dirs \in Seq(Seq(FileNames)) /\ w.pending \in Seq(FileNames)
      /\ Head(w.pending) \in FileNames /\ Tail(w.pending) \in Seq(FileNames) /\ Len(w.names) \in Nat
      /\ Len(w.dirs) = Len(w.names) + 1
  BY WalkParts DEF OnItsWay
<1>1. Last(w.dirs) = w.names
  BY ReachedByNames
<1>2. node = names /\ names \in Seq(FileNames) /\ Len(names) = Len(w.names) + 1
  BY <1>0, <1>1, NamesGrow
<1>3. \A i \in 1..Len(w.names) : t[SubSeq(names, 1, i)].type = "directory"
  BY <1>0, NamesGrow DEF OnItsWay
<1>4. SubSeq(names, 1, Len(names)) = names /\ SubSeq(names, 1, Len(w.names)) = w.names
  BY <1>0, <1>2, NamesGrow
<1>5. u \in Walks /\ u.names = names /\ u.pending = Tail(w.pending) /\ ~Over(u) /\ u.dirs = w.dirs
  BY <1>0, <1>2 DEF Walks, Over
<1>6. v = IF t[node].type = "directory" THEN [u EXCEPT !.dirs = Append(@, node)]
          ELSE IF u.pending = <<>> THEN At(u, node) ELSE Stop(u, "not a directory")
  BY DEF Into, Named
<1>. HIDE DEF v, u
<1>10. ASSUME NEW i \in 1..Len(names), i # Len(names)  PROVE t[SubSeq(names, 1, i)].type = "directory"
  <2>1. i \in 1..Len(w.names)
    BY ONLY <1>0, <1>2, <1>10
  <2>. QED BY <2>1, <1>3
<1>7. CASE t[node].type = "directory"
  <2>1. v = [u EXCEPT !.dirs = Append(@, node)]
    BY <1>6, <1>7
  <2>2. v \in Walks /\ v.dirs = Append(w.dirs, node) /\ v.names = names /\ ~Over(v)
    <3>1. Append(w.dirs, node) \in Seq(Seq(FileNames))
      <4>1. w.dirs \in Seq(Seq(FileNames)) /\ node \in Seq(FileNames)
        BY <1>0, <1>2
      <4>. QED BY ONLY <4>1, AppendProperties
    <3>. QED BY <2>1, <3>1, <1>5 DEF Walks, Over
  <2>3. Len(v.dirs) = Len(v.names) + 1
    <3>1. Len(v.dirs) = Len(w.dirs) + 1
      BY <2>2, <1>0, <1>2
    <3>. QED BY <3>1, <2>2, <1>0, <1>2
  <2>4. ASSUME NEW i \in 1..Len(v.dirs)  PROVE v.dirs[i] = SubSeq(v.names, 1, i - 1)
    <3>1. CASE i = Len(v.dirs)
      <4>1. v.dirs = Append(w.dirs, node) /\ i = Len(w.dirs) + 1 /\ v.names = names /\ i - 1 = Len(names)
        BY <3>1, <2>2, <2>3, <1>0, <1>2
      <4>2. v.dirs[i] = node
        <5>1. w.dirs \in Seq(Seq(FileNames)) /\ node \in Seq(FileNames)
          BY <1>0, <1>2
        <5>2. Append(w.dirs, node)[Len(w.dirs) + 1] = node
          BY ONLY <5>1, AppendProperties
        <5>. QED BY <4>1, <5>2
      <4>. QED BY <4>1, <4>2, <1>2, <1>4
    <3>2. CASE i # Len(v.dirs)
      <4>1. i \in 1..Len(w.dirs) /\ v.dirs[i] = w.dirs[i] /\ w.dirs[i] = SubSeq(w.names, 1, i - 1)
        BY <3>2, <2>2, <2>3, <1>0, <1>2 DEF OnItsWay
      <4>2. SubSeq(names, 1, i - 1) = SubSeq(w.names, 1, i - 1)
        BY <4>1, <1>0
      <4>. QED BY <4>1, <4>2, <2>2
    <3>. QED BY <3>1, <3>2
  <2>5. \A i \in 1..Len(v.names) : t[SubSeq(v.names, 1, i)].type = "directory"
    <3>1. ASSUME NEW i \in 1..Len(names)  PROVE t[SubSeq(names, 1, i)].type = "directory"
      BY <1>2, <1>4, <1>7, <1>10
    <3>. QED BY <3>1, <2>2
  <2>. QED BY <2>2, <2>3, <2>4, <2>5 DEF Sound, Over, OnItsWay, v
<1>8. CASE t[node].type # "directory" /\ u.pending = <<>>
  <2>1. v = At(u, node)
    BY <1>6, <1>8
  <2>2. v \in Walks /\ v.names = names /\ v.node = names /\ v.end = "found"
    <3>1. v = [u EXCEPT !.end = "found", !.node = node, !.pending = <<>>]
      BY <2>1 DEF At
    <3>2. <<>> \in Seq(FileNames)
      OBVIOUS
    <3>3. v \in Walks /\ v.names = u.names /\ v.node = node
      BY <3>1, <3>2, <1>2, <1>5 DEF Walks, Ends
    <3>4. v.end = "found"
      BY <3>1, <1>5 DEF Walks
    <3>. QED BY <3>3, <3>4, <1>2, <1>5
  <2>3. Arrived(t, follow, v)
    <3>1. ASSUME t[node].type = "symlink"  PROVE ~follow
      BY <3>1
    <3>2. v.names = names /\ v.node = names
      BY <2>2
    <3>3. ASSUME NEW i \in 1..Len(names), t[SubSeq(names, 1, i)].type # "directory"  PROVE i = Len(names)
      BY <1>10, <3>3
    <3>4. ASSUME NEW i \in 1..Len(names), t[SubSeq(names, 1, i)].type = "symlink"  PROVE i = Len(names) /\ ~follow
      <4>1. i = Len(names)
        BY <3>3, <3>4
      <4>2. t[node].type = "symlink"
        BY <4>1, <3>4, <1>2, <1>4
      <4>. QED BY <4>1, <4>2, <3>1
    <3>. QED BY <3>2, <3>3, <3>4 DEF Arrived
  <2>. QED BY <2>2, <2>3 DEF Sound, Over, v
<1>9. CASE t[node].type # "directory" /\ u.pending # <<>>
  <2>1. v = Stop(u, "not a directory")
    BY <1>6, <1>9
  <2>. QED BY <2>1, <1>5 DEF Walks, Stop, Ends, Sound, Over, v
<1>. QED BY <1>7, <1>8, <1>9 DEF v

LEMMA ThroughKeeps ==
  ASSUME NEW t, NEW follow, NEW w \in Walks, ~Over(w), OnItsWay(t, w), w.pending # <<>>,
         NEW link, link.to \in Seq(FileNames)
  PROVE  Through(w, link) \in Walks /\ Sound(t, follow, Through(w, link))
<1>0. MaxSymlinks \in Nat
  BY TreesAssumption
<1>1. CASE w.links = MaxSymlinks
  BY <1>1 DEF Through, Stop, Walks, Ends, Sound, Over
<1>2. CASE w.links # MaxSymlinks /\ link.absolute
  BY <1>2 DEF Through, Stop, Walks, Ends, Sound, Over
<1>3. CASE w.links # MaxSymlinks /\ ~link.absolute
  <2>1. link.to \o Tail(w.pending) \in Seq(FileNames)
    <3>1. Tail(w.pending) \in Seq(FileNames)
      BY WalkParts
    <3>. QED BY <3>1, ConcatProperties
  <2>2. w.links + 1 \in 0..MaxSymlinks
    <3>1. w.links \in 0..MaxSymlinks
      BY WalkParts
    <3>. QED BY <1>0, <1>3, <3>1
  <2>3. Through(w, link) = [w EXCEPT !.pending = link.to \o Tail(@), !.links = @ + 1]
    BY <1>3 DEF Through, TargetFirst
  <2>4. Through(w, link) \in Walks /\ Through(w, link).dirs = w.dirs /\ Through(w, link).names = w.names /\ ~Over(Through(w, link))
    BY <2>1, <2>2, <2>3 DEF Walks, Over
  <2>. QED BY <2>4 DEF Sound, Over, OnItsWay
<1>. QED BY <1>1, <1>2, <1>3

\* Every turn keeps the directories those of the names.
LEMMA WalkTurns ==
  ASSUME NEW t \in Trees, NEW k \in Accessors, NEW follow \in BOOLEAN, NEW w \in Walks, ~Over(w), OnItsWay(t, w)
  PROVE  Turn(t, k, follow, w) \in Walks /\ Sound(t, follow, Turn(t, k, follow, w))
<1>. DEFINE v == Turn(t, k, follow, w)
            name == Head(w.pending)
            node == Append(Last(w.dirs), name)
<1>0. w.names \in Seq(FileNames) /\ w.dirs \in Seq(Seq(FileNames)) /\ w.pending \in Seq(FileNames) /\ Len(w.dirs) = Len(w.names) + 1
  BY WalkParts DEF OnItsWay
<1>1. CASE w.pending = <<>>
  <2>1. Last(w.dirs) = w.names
    BY ReachedByNames
  <2>2. v = [w EXCEPT !.end = "found", !.node = w.names, !.pending = <<>>]
    BY <1>1, <2>1 DEF Turn, At
  <2>3. v \in Walks /\ v.names = w.names /\ v.node = w.names /\ v.end = "found"
    BY <2>2, <1>0, <1>1 DEF Walks, Ends
  <2>. HIDE DEF v
  <2>4. Arrived(t, follow, v)
    BY <2>3 DEF Arrived, OnItsWay
  <2>. QED BY <2>3, <2>4 DEF Sound, Over, v
<1>2. CASE w.pending # <<>> /\ name = "."
  <2>1. v = [w EXCEPT !.pending = Tail(@)]
    BY <1>2 DEF Turn
  <2>2. v \in Walks /\ v.names = w.names /\ v.dirs = w.dirs /\ ~Over(v)
    <3>1. Tail(w.pending) \in Seq(FileNames)
      BY <1>2, WalkParts
    <3>. QED BY <2>1, <3>1 DEF Walks, Over
  <2>. QED BY <2>2 DEF Sound, Over, OnItsWay
<1>3. CASE w.pending # <<>> /\ name = ".."
  <2>1. v = UpFrom(w)
    BY <1>3 DEF Turn
  <2>. QED BY <2>1, <1>3, UpKeeps
<1>4. CASE w.pending # <<>> /\ name \notin {".", ".."} /\ ~Shown(t, k, node)
  <2>1. v = Stop(w, "missing")
    BY <1>4 DEF Turn
  <2>. QED BY <2>1 DEF Stop, Walks, Ends, Sound, Over
<1>5. CASE /\ w.pending # <<>> /\ name \notin {".", ".."} /\ Shown(t, k, node)
           /\ t[node].type = "symlink" /\ (follow \/ Len(w.pending) > 1)
  <2>1. v = Through(w, t[node])
    BY <1>5 DEF Turn
  <2>2. t[node].to \in Seq(FileNames)
    BY <1>5, TreesAssumption DEF Shown
  <2>. QED BY <2>1, <2>2, <1>5, ThroughKeeps
<1>6. CASE /\ w.pending # <<>> /\ name \notin {".", ".."} /\ Shown(t, k, node)
           /\ ~(t[node].type = "symlink" /\ (follow \/ Len(w.pending) > 1))
  <2>1. v = Into(w, node, t[node].type)
    BY <1>6 DEF Turn
  <2>. QED BY <2>1, <1>6, IntoKeeps
<1>. QED BY <1>1, <1>2, <1>3, <1>4, <1>5, <1>6

\* A turn taken by both is the same, or parts them at a submodule.
LEMMA TurnsAgree ==
  ASSUME NEW t, NEW follow, NEW w \in Walks, ~Over(w), OnItsWay(t, w)
  PROVE  InStep(t, Turn(t, "dir", follow, w), Turn(t, "git", follow, w))
<1>. DEFINE name == Head(w.pending)
            node == Append(Last(w.dirs), name)
            u == [w EXCEPT !.names = Append(@, name), !.pending = Tail(@)]
<1>0. Last(w.dirs) \in Seq(FileNames)
  BY ReachedByNames, WalkParts
<1>1. CASE Shown(t, "dir", node) = Shown(t, "git", node)
  BY <1>1 DEF Turn, InStep
<1>2. CASE Shown(t, "dir", node) # Shown(t, "git", node) /\ (w.pending = <<>> \/ name \in {".", ".."})
  BY <1>2 DEF Turn, InStep
<1>3. CASE Shown(t, "dir", node) # Shown(t, "git", node) /\ w.pending # <<>> /\ name \notin {".", ".."}
  <2>1. ~Shown(t, "dir", node) /\ Shown(t, "git", node) /\ t[node].type = "submodule"
    BY <1>3 DEF Shown
  <2>2. Turn(t, "dir", follow, w) = Stop(w, "missing") /\ Turn(t, "git", follow, w) = Into(w, node, "submodule")
    BY <1>3, <2>1 DEF Turn
  <2>3. Stop(w, "missing").end = "missing"
    BY DEF Stop, Walks
  <2>4. Into(w, node, "submodule") = IF u.pending = <<>> THEN At(u, node) ELSE Stop(u, "not a directory")
    BY DEF Into, Named
  <2>6. CASE u.pending = <<>>
    <3>1. At(u, node).end = "found" /\ At(u, node).node = node
      BY DEF At, Walks
    <3>2. node # <<>>
      <4>1. Last(w.dirs) \in Seq(FileNames) /\ name \in FileNames
        BY <1>3, <1>0, WalkParts DEF Last
      <4>. QED BY <4>1
    <3>. QED BY <2>1, <2>2, <2>3, <2>4, <2>6, <3>1, <3>2 DEF InStep, Parted, TypeAt
  <2>7. CASE u.pending # <<>>
    <3>1. Stop(u, "not a directory").end = "not a directory"
      BY DEF Stop, Walks
    <3>. QED BY <2>2, <2>3, <2>4, <2>7, <3>1 DEF InStep, Parted
  <2>. QED BY <2>6, <2>7
<1>. QED BY <1>1, <1>2, <1>3
-----------------------------------------------------------------------------
(* What the accessors say.                                                 *)

\* Both show the same children of a directory.
LEMMA SameChildren ==
  ASSUME NEW t, NEW node
  PROVE  Children(t, "dir", node) = Children(t, "git", node)
BY DEF Children, Shown

\* Walks in step are answered alike.
LEMMA AnswersAgree ==
  ASSUME NEW t, NEW o \in Ops, NEW wd, NEW wg, InStep(t, wd, wg)
  PROVE  \/ Answer(t, "dir", o, wd) = Answer(t, "git", o, wg)
         \/ o = "real_path" /\ wg.end = "found" /\ TypeAt(t, wg.node) = "submodule"
<1>1. CASE wd = wg
  <2>1. CASE o = "read_dir"
    BY <1>1, <2>1, SameChildren DEF Answer
  <2>2. CASE o # "read_dir"
    BY <1>1, <2>2 DEF Answer, Ops
  <2>. QED BY <2>1, <2>2
<1>2. CASE wd.end = "missing" /\ wg.end = "not a directory"
  <2>1. TypeOf(t, wd) = "no entry" /\ TypeOf(t, wg) = "no entry"
    BY <1>2 DEF TypeOf
  <2>2. wd.end # "found" /\ wg.end # "found"
    BY <1>2
  <2>. HIDE <1>2
  <2>3. CASE o \in {"file_type", "resolved_type"}
    BY <2>1, <2>3 DEF Answer
  <2>4. CASE o \notin {"file_type", "resolved_type"}
    <3>1. Answer(t, "dir", o, wd) = <<"error">> /\ Answer(t, "git", o, wg) = <<"error">>
      BY <2>2, <2>4 DEF Answer, Ops
    <3>. QED BY <3>1
  <2>. QED BY <2>3, <2>4
<1>3. CASE wd.end = "missing" /\ wg.end = "found" /\ TypeAt(t, wg.node) = "submodule" /\ o # "real_path"
  <2>1. TypeOf(t, wd) = "no entry" /\ TypeOf(t, wg) = "no entry"
    BY <1>3 DEF TypeOf
  <2>2. wd.end # "found" /\ wg.end = "found" /\ o # "real_path"
        /\ TypeAt(t, wg.node) \notin {"regular", "directory", "symlink"}
    BY <1>3
  <2>3. CASE o \in {"file_type", "resolved_type"}
    BY <2>1, <2>3 DEF Answer
  <2>4. CASE o \notin {"file_type", "resolved_type"}
    <3>1. Answer(t, "dir", o, wd) = <<"error">>
      BY <2>2, <2>4 DEF Answer, Ops
    <3>2. Answer(t, "git", o, wg) = <<"error">>
      BY <2>2, <2>4 DEF Answer, Ops
    <3>. QED BY <3>1, <3>2
  <2>. QED BY <2>3, <2>4
<1>. QED BY <1>1, <1>2, <1>3 DEF InStep, Parted

-----------------------------------------------------------------------------
(* TreePath: every step.                                                   *)

LEMMA StartIs ==
  ASSUME NEW p \in Paths, NEW t, NEW follow
  PROVE  StartOf(p) \in Walks /\ Sound(t, follow, StartOf(p)) /\ ~Over(StartOf(p))
<1>. DEFINE w == StartOf(p)
<1>1. p \in Seq(FileNames) /\ MaxSymlinks \in Nat
  BY TreesAssumption
<1>2. <<>> \in Seq(FileNames) /\ <<(<<>>)>> \in Seq(Seq(FileNames))
  OBVIOUS
<1>3. w \in Walks
  BY <1>1, <1>2 DEF StartOf, Walks, Ends
<1>4. ~Over(w) /\ w.end # "found"
  BY DEF StartOf, Over
<1>5. OnItsWay(t, w)
  <2>1. w.dirs = <<(<<>>)>> /\ w.names = <<>>
    BY DEF StartOf
  <2>2. Len(w.dirs) = 1 /\ w.dirs[1] = <<>> /\ Len(w.names) = 0 /\ SubSeq(w.names, 1, 0) = <<>>
    BY <2>1
  <2>. HIDE DEF w
  <2>3. Len(w.dirs) = Len(w.names) + 1
    BY <2>2
  <2>4. ASSUME NEW i \in 1..Len(w.dirs)  PROVE w.dirs[i] = SubSeq(w.names, 1, i - 1)
    <3>1. i = 1 /\ i - 1 = 0
      BY <2>2, <2>4
    <3>. QED BY <3>1, <2>2
  <2>5. 1..Len(w.names) = {}
    BY <2>2
  <2>. QED BY <2>3, <2>4, <2>5 DEF OnItsWay
<1>. QED BY <1>3, <1>4, <1>5 DEF Sound

LEMMA TreePathInitially == TreePathInit => TreePathIInv
<1>. SUFFICES ASSUME TreePathInit PROVE TreePathIInv
  OBVIOUS
<1>1. asked \in Paths /\ tree \in Trees /\ question \in Ops
  BY DEF TreePathInit
<1>2. walk = [k \in Accessors |-> StartOf(asked)] /\ answer = [k \in Accessors |-> <<"none">>]
  BY DEF TreePathInit
<1>3. \A k \in Accessors : walk[k] = StartOf(asked) /\ answer[k] = <<"none">>
  BY <1>2
<1>4. walk \in [Accessors -> Walks] /\ \A k \in Accessors : Sound(tree, Follow(question), walk[k])
  BY <1>1, <1>2, <1>3, StartIs
<1>. QED BY <1>1, <1>2, <1>3, <1>4 DEF TreePathIInv, TreePathTypes, InStep, AccessorsAgree, Accessors

LEMMA ResolvePathKeeps == TreePathIInv /\ ResolvePath => TreePathIInv'
<1>. SUFFICES ASSUME TreePathIInv, ResolvePath PROVE TreePathIInv'
  OBVIOUS
<1>. DEFINE Moved(k) == Turn(tree, k, Follow(question), walk[k])
<1>1. tree' = tree /\ question' = question /\ asked' = asked /\ answer' = answer
  BY DEF ResolvePath
<1>2. tree \in Trees /\ question \in Ops /\ asked \in Paths /\ walk \in [Accessors -> Walks] /\ DOMAIN answer = Accessors
  BY DEF TreePathIInv, TreePathTypes
<1>3. walk' = [k \in Accessors |-> IF Over(walk[k]) THEN walk[k] ELSE Moved(k)]
  BY DEF ResolvePath
<1>. HIDE DEF Moved
<1>4. \A k \in Accessors : walk'[k] = IF Over(walk[k]) THEN walk[k] ELSE Moved(k)
  BY <1>3
<1>5. \E k \in Accessors : ~Over(walk[k])
  BY DEF ResolvePath
<1>6. Follow(question) \in BOOLEAN
  BY DEF Follow
<1>7. ASSUME NEW k \in Accessors, ~Over(walk[k])
      PROVE  Moved(k) \in Walks /\ Sound(tree, Follow(question), Moved(k)) /\ OnItsWay(tree, walk[k])
  <2>1. walk[k] \in Walks /\ OnItsWay(tree, walk[k])
    BY <1>2, <1>7 DEF TreePathIInv, Sound
  <2>. QED BY <2>1, <1>2, <1>6, <1>7, WalkTurns DEF Moved
<1>8. \A k \in Accessors : walk'[k] \in Walks /\ Sound(tree, Follow(question), walk'[k])
  BY <1>2, <1>4, <1>7 DEF TreePathIInv
<1>9. walk' \in [Accessors -> Walks]
  BY <1>3, <1>4, <1>8
<1>10. \A k \in Accessors : answer[k] # <<"none">> => Over(walk'[k])
  BY <1>4 DEF TreePathIInv
<1>11. "dir" \in Accessors /\ "git" \in Accessors /\ walk["dir"] \in Walks /\ walk["git"] \in Walks
  BY <1>2 DEF Accessors
<1>12. InStep(tree, walk["dir"], walk["git"])
  BY DEF TreePathIInv
<1>13. ~Over(walk["dir"]) /\ ~Over(walk["git"]) /\ walk["dir"] = walk["git"]
  <2>1. CASE walk["dir"] = walk["git"]
    BY <2>1, <1>5 DEF Accessors
  <2>2. CASE Parted(tree, walk["dir"], walk["git"])
    BY <2>2, <1>5 DEF Accessors, Parted, Over
  <2>. QED BY <2>1, <2>2, <1>12 DEF InStep
<1>14. InStep(tree, walk'["dir"], walk'["git"])
  <2>1. walk'["dir"] = Moved("dir") /\ walk'["git"] = Moved("git")
    BY <1>4, <1>11, <1>13
  <2>2. OnItsWay(tree, walk["dir"])
    BY <1>7, <1>11, <1>13
  <2>3. InStep(tree, Turn(tree, "dir", Follow(question), walk["dir"]), Turn(tree, "git", Follow(question), walk["dir"]))
    BY <1>11, <1>13, <2>2, TurnsAgree
  <2>. QED BY <2>1, <2>3, <1>13 DEF Moved
<1>15. answer["dir"] = answer["git"]
  BY <1>11, <1>13 DEF TreePathIInv
<1>. QED BY <1>1, <1>2, <1>8, <1>9, <1>10, <1>14, <1>15 DEF TreePathIInv, TreePathTypes, AccessorsAgree

LEMMA ReplyKeeps == TreePathIInv /\ Reply => TreePathIInv'
<1>. SUFFICES ASSUME TreePathIInv, Reply PROVE TreePathIInv'
  OBVIOUS
<1>1. tree' = tree /\ question' = question /\ asked' = asked /\ walk' = walk
  BY DEF Reply
<1>2. question \in Ops /\ InStep(tree, walk["dir"], walk["git"]) /\ \A k \in Accessors : Over(walk[k])
  BY DEF TreePathIInv, TreePathTypes, Reply
<1>3. answer' = [k \in Accessors |-> Answer(tree, k, question, walk[k])]
  BY DEF Reply
<1>4. DOMAIN answer' = Accessors
  BY <1>3
<1>5. answer'["dir"] = Answer(tree, "dir", question, walk["dir"]) /\ answer'["git"] = Answer(tree, "git", question, walk["git"])
  BY <1>3 DEF Accessors
<1>6. AccessorsAgree'
  BY <1>1, <1>2, <1>5, AnswersAgree DEF AccessorsAgree, OfSubmodule
<1>. QED BY <1>1, <1>2, <1>4, <1>6 DEF TreePathIInv, TreePathTypes

LEMMA TreePathImplied == TreePathIInv => TreePathInv
<1>. SUFFICES ASSUME TreePathIInv, NEW k \in Accessors
             PROVE  /\ /\ ~Over(walk[k]) =>
                            /\ Len(walk[k].dirs) = Len(walk[k].names) + 1
                            /\ \A i \in DOMAIN walk[k].dirs : walk[k].dirs[i] = SubSeq(walk[k].names, 1, i - 1)
                       /\ walk[k].links \in 0..MaxSymlinks
                       /\ answer[k] # <<"none">> => Over(walk[k])
                    /\ walk[k].end = "found" =>
                         /\ walk[k].names = walk[k].node
                         /\ \A i \in DOMAIN walk[k].names :
                              tree[SubSeq(walk[k].names, 1, i)].type = "symlink"
                                => i = Len(walk[k].names) /\ ~Follow(question)
  BY DEF TreePathIInv, TreePathInv, TreePathTypeOK, NamesLeadThere
<1>. DEFINE w == walk[k]
<1>1. w \in Walks /\ Sound(tree, Follow(question), w) /\ (answer[k] # <<"none">> => Over(w))
  BY DEF TreePathIInv, TreePathTypes
<1>. HIDE DEF w
<1>2. w.links \in 0..MaxSymlinks /\ DOMAIN w.dirs = 1..Len(w.dirs) /\ DOMAIN w.names = 1..Len(w.names)
  BY <1>1, WalkParts
<1>. QED BY <1>1, <1>2 DEF Sound, OnItsWay, Arrived, w

\* A walk through a source reaches what it finds by names that are no
\* symlinks', and a clean working tree answers every question as its commit
\* does, whatever the tree, its symlinks and the path asked about
\* (source.rs, resolve, Dir and GitTree).
THEOREM WalksArrive == TreePathSpec => []TreePathInv
<1>1. TreePathInit => TreePathIInv
  BY TreePathInitially
<1>2. TreePathIInv /\ [TreePathNext]_treeVars => TreePathIInv'
  <2>. SUFFICES ASSUME TreePathIInv, [TreePathNext]_treeVars PROVE TreePathIInv'
    OBVIOUS
  <2>1. CASE ResolvePath
    BY <2>1, ResolvePathKeeps
  <2>2. CASE Reply
    BY <2>2, ReplyKeeps
  <2>3. CASE UNCHANGED treeVars
    BY <2>3 DEF treeVars, TreePathIInv, TreePathTypes, AccessorsAgree, OfSubmodule
  <2>. QED BY <2>1, <2>2, <2>3 DEF TreePathNext
<1>3. TreePathIInv => TreePathInv
  BY TreePathImplied
<1>. QED BY <1>1, <1>2, <1>3, PTL DEF TreePathSpec
-----------------------------------------------------------------------------
(* FlakeLock: the inductive invariant.                                     *)

\* Each thing is in the sequence once.
OnceEach(s) == IsSeq(s) /\ IsInjective(s)

\* Until the lock file is accepted nothing has been looked for.
NothingYet ==
    sources = NoMap /\ values = NoMap /\ given = NoMap /\ forcing = <<>> /\ locating = <<>> /\ fetched = <<>>

Phases ==
    /\ phase \in {"load", "lock", "check", "eval", "done", "failed"}
    /\ phase \in {"load", "lock", "check"} => NothingYet
    /\ phase = "eval" => lock.root \in DOMAIN sources
    /\ lock.root \in DOMAIN lock.nodes

\* What was found is kept, and what is being looked for was not found.
Places ==
    /\ DOMAIN sources \subseteq DOMAIN lock.nodes
    /\ OnceEach(locating) /\ Range(locating) \cap DOMAIN sources = {}
    /\ OnceEach(fetched) /\ Range(fetched) \subseteq DOMAIN sources /\ lock.root \notin Range(fetched)
    /\ InParentsSource

\* What is being built.
Builds ==
    /\ OnceEach(forcing)
    /\ Range(forcing) = {k \in DOMAIN values : values[k] = "forced"}
    /\ DOMAIN given \subseteq DOMAIN values
    /\ locating = <<>> => DOMAIN values \subseteq DOMAIN sources
    /\ locating # <<>> => /\ DOMAIN values \ DOMAIN sources = {locating[1]}
                          /\ forcing # <<>> /\ locating[1] = Last(forcing)

FlakeLockIInv == Phases /\ Places /\ Builds

-----------------------------------------------------------------------------
(* Sequences that grow by one.                                             *)

LEMMA OnceAppend ==
  ASSUME NEW s, NEW x, OnceEach(s), x \notin Range(s)
  PROVE  OnceEach(Append(s, x)) /\ Range(Append(s, x)) = Range(s) \cup {x} /\ Last(Append(s, x)) = x
<1>. DEFINE t == Append(s, x)
<1>1. IsSeq(s) /\ Len(s) \in Nat /\ DOMAIN s = 1..Len(s)
  BY SeqParts DEF OnceEach
<1>2. /\ IsSeq(t) /\ Len(t) = Len(s) + 1 /\ DOMAIN t = 1..Len(s) + 1
      /\ \A i \in 1..Len(s) : t[i] = s[i]
      /\ t[Len(s) + 1] = x
  BY <1>1, AppendIs
<1>. HIDE DEF t
<1>3. \A i \in 1..Len(s) : s[i] # x
  BY <1>1 DEF Range
<1>4. IsInjective(t)
  <2>1. \A i, j \in 1..Len(s) : s[i] = s[j] => i = j
    BY <1>1 DEF OnceEach, IsInjective
  <2>. QED BY <1>1, <1>2, <1>3, <2>1 DEF IsInjective
<1>5. Range(t) = Range(s) \cup {x}
  BY <1>1, <1>2 DEF Range
<1>6. Last(t) = x
  BY <1>2 DEF Last
<1>. QED BY <1>2, <1>4, <1>5, <1>6 DEF OnceEach, t

LEMMA OnceFront ==
  ASSUME NEW s, OnceEach(s), s # <<>>
  PROVE  /\ OnceEach(Front(s)) /\ Range(Front(s)) = Range(s) \ {Last(s)} /\ Last(s) \in Range(s)
         /\ Front(s) # <<>> => Front(s)[1] = s[1] /\ s[1] # Last(s)
         /\ Front(s) = <<>> => s[1] = Last(s)
<1>. DEFINE t == Front(s)
<1>1. IsSeq(s) /\ DOMAIN s = 1..Len(s)
  BY SeqParts DEF OnceEach
<1>2. /\ Len(s) \in Nat \ {0} /\ Last(s) = s[Len(s)]
      /\ IsSeq(t) /\ Len(t) = Len(s) - 1 /\ DOMAIN t = 1..Len(s) - 1
      /\ \A i \in 1..Len(s) - 1 : t[i] = s[i]
  BY <1>1, FrontIs
<1>. HIDE DEF t
<1>3. \A i, j \in 1..Len(s) : s[i] = s[j] => i = j
  BY <1>1 DEF OnceEach, IsInjective
<1>4. IsInjective(t)
  BY <1>2, <1>3 DEF IsInjective
<1>5. Range(t) = Range(s) \ {Last(s)}
  <2>1. \A i \in 1..Len(s) - 1 : i \in 1..Len(s) /\ t[i] = s[i] /\ s[i] # s[Len(s)]
    BY <1>2, <1>3
  <2>2. \A i \in 1..Len(s) : i # Len(s) => i \in 1..Len(s) - 1
    BY <1>2
  <2>. QED BY <1>1, <1>2, <2>1, <2>2 DEF Range
<1>6. Last(s) \in Range(s)
  BY <1>1, <1>2 DEF Range
<1>7. t # <<>> => t[1] = s[1] /\ s[1] # Last(s)
  <2>1. t # <<>> => Len(t) # 0
    BY <1>2, SeqParts
  <2>2. Len(t) # 0 => 1 \in 1..Len(s) - 1 /\ 1 \in 1..Len(s) /\ Len(s) \in 1..Len(s) /\ Len(s) # 1
    BY <1>2
  <2>. QED BY <1>2, <1>3, <2>1, <2>2
<1>8. t = <<>> => s[1] = Last(s)
  <2>1. t = <<>> => Len(t) = 0
    BY <1>2, SeqParts
  <2>2. Len(t) = 0 => Len(s) = 1
    BY <1>2
  <2>. QED BY <1>2, <2>1, <2>2
<1>. QED BY <1>2, <1>4, <1>5, <1>6, <1>7, <1>8 DEF OnceEach, t

LEMMA NothingIn == OnceEach(<<>>) /\ Range(<<>>) = {}
BY EmptyAndOne DEF OnceEach, IsInjective, Range

LEMMA OneIn ==
  ASSUME NEW x
  PROVE  OnceEach(<<x>>) /\ Range(<<x>>) = {x} /\ <<x>>[1] = x /\ <<x>> # <<>>
<1>1. IsSeq(<<x>>) /\ Len(<<x>>) = 1 /\ DOMAIN <<x>> = {1} /\ <<x>>[1] = x
  BY EmptyAndOne
<1>2. IsInjective(<<x>>) /\ Range(<<x>>) = {x}
  BY <1>1 DEF IsInjective, Range
<1>. QED BY <1>1, <1>2 DEF OnceEach

-----------------------------------------------------------------------------
(* FlakeLock: every step.                                                  *)

LEMMA FlakeLockInitially == FlakeLockInit => FlakeLockIInv
<1>. SUFFICES ASSUME FlakeLockInit PROVE FlakeLockIInv
  OBVIOUS
<1>1. NothingYet /\ phase = "load" /\ lock = EmptyLock
  BY DEF FlakeLockInit, NothingYet
<1>2. lock.root = "root" /\ "root" \in DOMAIN lock.nodes
  BY <1>1 DEF EmptyLock, With
<1>3. Phases
  BY <1>1, <1>2 DEF Phases
<1>4. DOMAIN sources = {} /\ DOMAIN values = {} /\ DOMAIN given = {} /\ forcing = <<>> /\ locating = <<>> /\ fetched = <<>>
  BY <1>1 DEF NothingYet, NoMap
<1>5. Places /\ Builds
  BY <1>4, NothingIn DEF Places, Builds, InParentsSource
<1>. QED BY <1>3, <1>5 DEF FlakeLockIInv

\* Where nothing was looked for, everything holds.
LEMMA NothingHolds ==
  ASSUME NothingYet
  PROVE  Places /\ Builds
<1>1. DOMAIN sources = {} /\ DOMAIN values = {} /\ DOMAIN given = {} /\ forcing = <<>> /\ locating = <<>> /\ fetched = <<>>
  BY DEF NothingYet, NoMap
<1>. QED BY <1>1, NothingIn DEF Places, Builds, InParentsSource

LEMMA LoadKeeps == FlakeLockIInv /\ Load => FlakeLockIInv'
<1>. SUFFICES ASSUME FlakeLockIInv, Load PROVE FlakeLockIInv'
  OBVIOUS
<1>1. phase = "load" /\ NothingYet
  BY DEF FlakeLockIInv, Phases, Load
<1>2. phase' \in {"lock", "failed"} /\ UNCHANGED <<lock, sources, values, given, forcing, locating, fetched>>
  BY DEF Load, Fail
<1>3. NothingYet'
  BY <1>1, <1>2 DEF NothingYet
<1>4. Phases'
  BY <1>2, <1>3 DEF FlakeLockIInv, Phases
<1>5. (Places /\ Builds)'
  BY <1>3, NothingHolds, PTL
<1>. QED BY <1>4, <1>5 DEF FlakeLockIInv

LEMMA ReadLockKeeps == FlakeLockIInv /\ ReadLock => FlakeLockIInv'
<1>. SUFFICES ASSUME FlakeLockIInv, ReadLock PROVE FlakeLockIInv'
  OBVIOUS
<1>1. phase = "lock" /\ NothingYet /\ lock.root \in DOMAIN lock.nodes
  BY DEF FlakeLockIInv, Phases, ReadLock
<1>2. UNCHANGED <<declared, sources, values, given, forcing, locating, fetched>>
  BY DEF ReadLock
<1>3. NothingYet'
  BY <1>1, <1>2 DEF NothingYet
<1>4. phase' \in {"check", "failed"} /\ lock'.root \in DOMAIN lock'.nodes
  <2>1. PICK json \in LockFiles \cup {None} :
          LET l == IF json = None THEN EmptyLock ELSE FromValue(json)
          IN  IF l = Bad THEN Fail /\ UNCHANGED lock ELSE phase' = "check" /\ lock' = l
    BY DEF ReadLock
  <2>. DEFINE l == IF json = None THEN EmptyLock ELSE FromValue(json)
  <2>2. CASE l = Bad
    BY <1>1, <2>1, <2>2 DEF Fail
  <2>3. CASE l # Bad /\ json = None
    <3>1. EmptyLock.root \in DOMAIN EmptyLock.nodes
      BY DEF EmptyLock, With
    <3>. QED BY <2>1, <2>3, <3>1
  <2>4. CASE l # Bad /\ json # None
    <3>1. l = [root |-> json.root, nodes |-> json.nodes] /\ json.root \in DOMAIN json.nodes
      BY <2>4 DEF FromValue
    <3>. QED BY <2>1, <2>4, <3>1
  <2>. QED BY <2>2, <2>3, <2>4
<1>5. Phases'
  BY <1>3, <1>4 DEF Phases
<1>6. (Places /\ Builds)'
  BY <1>3, NothingHolds, PTL
<1>. QED BY <1>5, <1>6 DEF FlakeLockIInv

LEMMA CheckKeeps == FlakeLockIInv /\ Check => FlakeLockIInv'
<1>. SUFFICES ASSUME FlakeLockIInv, Check PROVE FlakeLockIInv'
  OBVIOUS
<1>1. phase = "check" /\ NothingYet /\ lock.root \in DOMAIN lock.nodes
  BY DEF FlakeLockIInv, Phases, Check
<1>2. UNCHANGED <<declared, lock, values, given, forcing, locating, fetched>>
  BY DEF Check
<1>3. CASE phase' = "failed" /\ sources' = sources
  <2>1. NothingYet'
    BY <1>1, <1>2, <1>3 DEF NothingYet
  <2>2. (Places /\ Builds)'
    BY <2>1, NothingHolds, PTL
  <2>. QED BY <1>1, <1>2, <1>3, <2>2 DEF FlakeLockIInv, Phases
<1>4. CASE phase' = "eval" /\ sources' = With(NoMap, lock.root, [tree |-> lock.root, dir |-> <<>>])
  <2>1. DOMAIN sources' = {lock.root}
    BY <1>4 DEF NoMap, With
  <2>2. DOMAIN values' = {} /\ DOMAIN given' = {} /\ forcing' = <<>> /\ locating' = <<>> /\ fetched' = <<>> /\ lock' = lock
    BY <1>1, <1>2 DEF NothingYet, NoMap
  <2>3. Phases'
    BY <1>1, <1>4, <2>1, <2>2 DEF Phases
  <2>4. InParentsSource'
    BY <2>1, <2>2 DEF InParentsSource
  <2>5. Places'
    BY <1>1, <2>1, <2>2, <2>4, NothingIn DEF Places
  <2>6. Builds'
    BY <2>1, <2>2, NothingIn DEF Builds
  <2>. QED BY <2>3, <2>5, <2>6 DEF FlakeLockIInv
<1>. QED BY <1>3, <1>4 DEF Check, Fail

\* What is looked for has not been found, nor built.
LEMMA LookingIs ==
  ASSUME FlakeLockIInv, NEW key, Looking(key)
  PROVE  /\ phase = "eval" /\ locating # <<>> /\ key = Last(locating)
         /\ key \notin DOMAIN sources /\ lock.root \in DOMAIN sources /\ lock.root \in DOMAIN lock.nodes
         /\ OnceEach(locating) /\ forcing # <<>>
         /\ declared' = declared /\ lock' = lock /\ values' = values /\ given' = given /\ forcing' = forcing
<1>1. phase = "eval" /\ locating # <<>> /\ key = Last(locating)
  BY DEF Looking
<1>2. OnceEach(locating) /\ Range(locating) \cap DOMAIN sources = {}
  BY DEF FlakeLockIInv, Places
<1>3. key \in Range(locating)
  BY <1>1, <1>2, OnceFront
<1>. QED BY <1>1, <1>2, <1>3 DEF FlakeLockIInv, Phases, Builds, Looking

\* A node that is found leaves the rest where it was.
LEMMA LocatedKeeps ==
  ASSUME FlakeLockIInv, NEW key, Looking(key), NEW place, Located(key, place), phase' = phase,
         key \in DOMAIN lock.nodes,
         LET up == ParentOf(lock, key) IN up # None => up \in DOMAIN sources /\ place.tree = sources[up].tree,
         \/ fetched' = fetched
         \/ fetched' = Append(fetched, key)
  PROVE  FlakeLockIInv'
<1>1. /\ phase = "eval" /\ locating # <<>> /\ key = Last(locating)
      /\ key \notin DOMAIN sources /\ lock.root \in DOMAIN sources /\ lock.root \in DOMAIN lock.nodes
      /\ OnceEach(locating) /\ forcing # <<>>
      /\ lock' = lock /\ values' = values /\ given' = given /\ forcing' = forcing
  BY LookingIs
<1>2. sources' = With(sources, key, place) /\ locating' = Front(locating)
  BY DEF Located
<1>3. DOMAIN sources' = DOMAIN sources \cup {key} /\ sources'[key] = place
      /\ \A k \in DOMAIN sources : sources'[k] = sources[k]
  BY <1>1, <1>2 DEF With
<1>4. Phases'
  BY <1>1, <1>3 DEF FlakeLockIInv, Phases
<1>5. /\ OnceEach(locating') /\ Range(locating') = Range(locating) \ {key}
      /\ locating' # <<>> => locating'[1] = locating[1] /\ locating[1] # key
      /\ locating' = <<>> => locating[1] = key
  BY <1>1, <1>2, OnceFront
<1>6. OnceEach(fetched') /\ Range(fetched') \subseteq Range(fetched) \cup {key}
  <2>1. OnceEach(fetched) /\ key \notin Range(fetched)
    BY <1>1 DEF FlakeLockIInv, Places
  <2>2. CASE fetched' = fetched
    BY <2>1, <2>2
  <2>3. CASE fetched' = Append(fetched, key)
    <3>1. OnceEach(Append(fetched, key)) /\ Range(Append(fetched, key)) = Range(fetched) \cup {key}
      BY <2>1, OnceAppend
    <3>. QED BY <2>3, <3>1
  <2>. QED BY <2>2, <2>3
<1>7. InParentsSource'
  <2>1. InParentsSource
    BY DEF FlakeLockIInv, Places
  <2>2. ASSUME NEW k \in DOMAIN sources', k # lock.root, ParentOf(lock, k) # None
        PROVE  ParentOf(lock, k) \in DOMAIN sources' /\ sources'[k].tree = sources'[ParentOf(lock, k)].tree
    <3>1. CASE k = key
      BY <3>1, <2>2, <1>3
    <3>2. CASE k # key
      BY <3>2, <2>1, <2>2, <1>3 DEF InParentsSource
    <3>. QED BY <3>1, <3>2
  <2>. QED BY <2>2, <1>1 DEF InParentsSource
<1>8. Places'
  BY <1>1, <1>3, <1>5, <1>6, <1>7 DEF FlakeLockIInv, Places
<1>9. Builds'
  <2>1. DOMAIN values \ DOMAIN sources = {locating[1]} /\ locating[1] = Last(forcing)
    BY <1>1 DEF FlakeLockIInv, Builds
  <2>2. locating' = <<>> => DOMAIN values' \subseteq DOMAIN sources'
    BY <2>1, <1>1, <1>3, <1>5
  <2>3. locating' # <<>> => DOMAIN values' \ DOMAIN sources' = {locating'[1]} /\ forcing' # <<>> /\ locating'[1] = Last(forcing')
    BY <2>1, <1>1, <1>3, <1>5
  <2>. QED BY <2>2, <2>3, <1>1 DEF FlakeLockIInv, Builds
<1>. QED BY <1>4, <1>8, <1>9 DEF FlakeLockIInv

LEMMA GoUpKeeps ==
  ASSUME FlakeLockIInv, NEW key, NEW up, GoUp(key, up)
  PROVE  FlakeLockIInv'
<1>1. Looking(key) /\ up \notin DOMAIN sources /\ up \notin Range(locating) /\ locating' = Append(locating, up)
      /\ phase' = phase /\ sources' = sources /\ fetched' = fetched
  BY DEF GoUp
<1>2. /\ locating # <<>> /\ OnceEach(locating) /\ forcing # <<>>
      /\ lock' = lock /\ values' = values /\ given' = given /\ forcing' = forcing /\ phase = "eval"
  BY <1>1, LookingIs
<1>3. OnceEach(locating') /\ Range(locating') = Range(locating) \cup {up}
  BY <1>1, <1>2, OnceAppend
<1>4. locating' # <<>> /\ locating'[1] = locating[1]
  <2>1. IsSeq(locating) /\ Len(locating) \in Nat /\ Len(locating) # 0
    BY <1>2, SeqParts DEF OnceEach
  <2>2. Append(locating, up) # <<>> /\ \A i \in 1..Len(locating) : Append(locating, up)[i] = locating[i]
    BY <2>1, AppendIs
  <2>. QED BY <1>1, <2>1, <2>2
<1>5. Phases'
  BY <1>1, <1>2 DEF FlakeLockIInv, Phases
<1>6. Places'
  BY <1>1, <1>2, <1>3 DEF FlakeLockIInv, Places, InParentsSource
<1>7. Builds'
  BY <1>1, <1>2, <1>4 DEF FlakeLockIInv, Builds
<1>. QED BY <1>5, <1>6, <1>7 DEF FlakeLockIInv

\* A failure ends the evaluation where it stands.
LEMMA FailKeeps ==
  ASSUME FlakeLockIInv, Fail, UNCHANGED <<lock, sources, values, given, forcing, locating, fetched>>
  PROVE  FlakeLockIInv'
BY DEF FlakeLockIInv, Fail, Phases, Places, Builds, InParentsSource

\* Nodes are built once they are found.
LEMMA BuildKeepsLock ==
  ASSUME FlakeLockIInv, NEW key, BuildEntry(key), key \notin DOMAIN values, phase = "eval", locating = <<>>,
         UNCHANGED <<lock, sources, given, fetched>>
  PROVE  FlakeLockIInv'
<1>1. /\ values' = With(values, key, "forced") /\ forcing' = Append(forcing, key)
      /\ locating' = ToLocate(key) /\ phase' = phase
      /\ lock' = lock /\ sources' = sources /\ given' = given /\ fetched' = fetched
  BY DEF BuildEntry
<1>2. DOMAIN values' = DOMAIN values \cup {key} /\ values'[key] = "forced" /\ \A k \in DOMAIN values : values'[k] = values[k]
  BY <1>1 DEF With
<1>3. OnceEach(forcing) /\ key \notin Range(forcing) /\ Range(forcing) = {k \in DOMAIN values : values[k] = "forced"}
  BY DEF FlakeLockIInv, Builds
<1>4. OnceEach(forcing') /\ Range(forcing') = Range(forcing) \cup {key} /\ Last(forcing') = key
  BY <1>1, <1>3, OnceAppend
<1>5. DOMAIN values \subseteq DOMAIN sources /\ DOMAIN given \subseteq DOMAIN values
  BY DEF FlakeLockIInv, Builds
<1>6. Range(forcing') = {k \in DOMAIN values' : values'[k] = "forced"}
  BY <1>2, <1>3, <1>4
<1>7. Phases'
  BY <1>1 DEF FlakeLockIInv, Phases
<1>8. forcing' # <<>>
  <2>1. IsSeq(forcing)
    BY <1>3 DEF OnceEach
  <2>. QED BY <1>1, <2>1, AppendIs
<1>9. CASE key \in DOMAIN sources
  <2>1. locating' = <<>>
    BY <1>1, <1>9 DEF ToLocate
  <2>2. Places'
    BY <1>1, <2>1, NothingIn DEF FlakeLockIInv, Places, InParentsSource
  <2>3. Builds'
    BY <1>1, <1>2, <1>4, <1>5, <1>6, <1>9, <2>1 DEF Builds
  <2>. QED BY <1>7, <2>2, <2>3 DEF FlakeLockIInv
<1>10. CASE key \notin DOMAIN sources
  <2>1. locating' = <<key>>
    BY <1>1, <1>10 DEF ToLocate
  <2>2. OnceEach(locating') /\ Range(locating') = {key} /\ locating'[1] = key /\ locating' # <<>>
    BY <2>1, OneIn
  <2>3. Places'
    BY <1>1, <1>10, <2>2 DEF FlakeLockIInv, Places, InParentsSource
  <2>4. DOMAIN values' \ DOMAIN sources' = {key}
    BY <1>1, <1>2, <1>5, <1>10
  <2>5. Builds'
    BY <1>1, <1>2, <1>4, <1>5, <1>6, <1>8, <2>2, <2>4 DEF Builds
  <2>. QED BY <1>7, <2>3, <2>5 DEF FlakeLockIInv
<1>. QED BY <1>9, <1>10

LEMMA ForceKeepsLock ==
  ASSUME FlakeLockIInv, NEW key, ForceEntry(key), phase = "eval", locating = <<>>,
         UNCHANGED <<lock, sources, given, fetched>>
  PROVE  FlakeLockIInv'
<1>1. CASE key \notin DOMAIN values
  BY <1>1, BuildKeepsLock DEF ForceEntry
<1>2. CASE key \in DOMAIN values /\ values[key] = "forced"
  BY <1>2, FailKeeps DEF ForceEntry
<1>3. CASE key \in DOMAIN values /\ values[key] # "forced"
  BY <1>3 DEF ForceEntry, FlakeLockIInv, Phases, Places, Builds, InParentsSource, NothingYet
<1>. QED BY <1>1, <1>2, <1>3

LEMMA ReturnsKeeps ==
  ASSUME FlakeLockIInv, Returns, phase = "eval", locating = <<>>, forcing # <<>>,
         UNCHANGED <<phase, lock, sources, given, locating, fetched>>
  PROVE  FlakeLockIInv'
<1>. DEFINE key == Last(forcing)
<1>1. values' = [values EXCEPT ![key] = "built"] /\ forcing' = Front(forcing)
  BY DEF Returns
<1>2. OnceEach(forcing) /\ Range(forcing) = {k \in DOMAIN values : values[k] = "forced"}
  BY DEF FlakeLockIInv, Builds
<1>3. OnceEach(forcing') /\ Range(forcing') = Range(forcing) \ {key} /\ key \in Range(forcing)
  BY <1>1, <1>2, OnceFront
<1>. HIDE DEF key
<1>4. DOMAIN values' = DOMAIN values /\ values'[key] = "built" /\ \A k \in DOMAIN values : k # key => values'[k] = values[k]
  BY <1>1, <1>2, <1>3
<1>5. Range(forcing') = {k \in DOMAIN values' : values'[k] = "forced"}
  BY <1>2, <1>3, <1>4
<1>6. Builds'
  BY <1>3, <1>4, <1>5 DEF FlakeLockIInv, Builds
<1>7. Phases' /\ Places'
  BY DEF FlakeLockIInv, Phases, Places, InParentsSource
<1>. QED BY <1>6, <1>7 DEF FlakeLockIInv

LEMMA ApplyOutputsKeeps == FlakeLockIInv /\ ApplyOutputs => FlakeLockIInv'
<1>. SUFFICES ASSUME FlakeLockIInv, ApplyOutputs PROVE FlakeLockIInv'
  OBVIOUS
<1>. DEFINE key == Last(forcing)
            args == Inputs(lock, key)
<1>1. /\ phase = "eval" /\ forcing # <<>> /\ locating = <<>>
      /\ UNCHANGED <<lock, sources, locating, fetched>>
  BY DEF ApplyOutputs
<1>2. CASE given' = With(given, key, args) /\ UNCHANGED <<phase, values, forcing>>
  <2>1. DOMAIN given' = DOMAIN given \cup {key}
    BY <1>2 DEF With
  <2>2. key \in DOMAIN values
    <3>1. OnceEach(forcing) /\ Range(forcing) = {k \in DOMAIN values : values[k] = "forced"}
      BY DEF FlakeLockIInv, Builds
    <3>2. key \in Range(forcing)
      BY <1>1, <3>1, OnceFront
    <3>. QED BY <3>1, <3>2
  <2>3. Builds'
    BY <1>1, <1>2, <2>1, <2>2 DEF FlakeLockIInv, Builds
  <2>4. Phases' /\ Places'
    BY <1>1, <1>2 DEF FlakeLockIInv, Phases, Places, InParentsSource
  <2>. QED BY <2>3, <2>4 DEF FlakeLockIInv
<1>3. CASE Fail /\ UNCHANGED <<given, values, forcing>>
  BY <1>1, <1>3, FailKeeps
<1>4. CASE Returns /\ UNCHANGED <<phase, given>>
  BY <1>1, <1>4, ReturnsKeeps
<1>. QED BY <1>2, <1>3, <1>4 DEF ApplyOutputs

\* No node is looked for while none is built.
LEMMA RestsBetween ==
  ASSUME FlakeLockIInv, forcing = <<>>
  PROVE  locating = <<>>
BY DEF FlakeLockIInv, Builds

LEMMA LocateKeeps ==
  ASSUME FlakeLockIInv, NEW key, NEW up, up = ParentOf(lock, key),
         FetchNode(key) \/ NotLocated(key) \/ FindBelow(key, up) \/ GoUp(key, up)
  PROVE  FlakeLockIInv'
<1>1. CASE FetchNode(key)
  <2>1. Looking(key) /\ key \in DOMAIN lock.nodes /\ ParentOf(lock, key) = None /\ Located(key, [tree |-> key, dir |-> <<>>])
        /\ fetched' = Append(fetched, key) /\ phase' = phase
    BY <1>1 DEF FetchNode, IsLocked
  <2>. QED BY <2>1, LocatedKeeps
<1>2. CASE NotLocated(key)
  <2>1. Fail /\ UNCHANGED <<lock, sources, values, given, forcing, locating, fetched>>
    BY <1>2 DEF NotLocated, Looking
  <2>. QED BY <2>1, FailKeeps
<1>3. CASE FindBelow(key, up)
  <2>1. Looking(key) /\ key \in DOMAIN lock.nodes /\ up \in DOMAIN sources /\ Located(key, Under(sources[up], key))
        /\ fetched' = fetched /\ phase' = phase
    BY <1>3 DEF FindBelow, IsLocked
  <2>2. Under(sources[up], key).tree = sources[up].tree
    BY DEF Under
  <2>. QED BY <2>1, <2>2, LocatedKeeps
<1>4. CASE GoUp(key, up)
  BY <1>4, GoUpKeeps
<1>. QED BY <1>1, <1>2, <1>3, <1>4

LEMMA FlakeLockImplied == FlakeLockIInv => FlakeLockInv
<1>. SUFFICES ASSUME FlakeLockIInv PROVE FlakeLockInv
  OBVIOUS
<1>1. OnceEach(locating) /\ (locating = <<>> => DOMAIN values \subseteq DOMAIN sources)
      /\ (locating # <<>> => DOMAIN values \ DOMAIN sources = {locating[1]} /\ forcing # <<>> /\ locating[1] = Last(forcing))
  BY DEF FlakeLockIInv, Places, Builds
<1>2. DOMAIN values \ DOMAIN sources = {locating[i] : i \in DOMAIN locating \cap {1}}
  <2>1. Len(locating) \in Nat /\ DOMAIN locating = 1..Len(locating) /\ (locating = <<>> <=> Len(locating) = 0)
    BY <1>1, SeqParts DEF OnceEach
  <2>2. CASE locating = <<>>
    <3>1. DOMAIN locating = {}
      BY <2>1, <2>2
    <3>. QED BY <3>1, <2>2, <1>1
  <2>3. CASE locating # <<>>
    <3>1. 1 \in DOMAIN locating
      BY <2>1, <2>3
    <3>. QED BY <3>1, <2>3, <1>1
  <2>. QED BY <2>2, <2>3
<1>3. FlakeLockTypeOK
  BY <1>1, <1>2 DEF FlakeLockIInv, Phases, Places, Builds, FlakeLockTypeOK, OnceEach
<1>4. FetchedOnce /\ InParentsSource
  BY DEF FlakeLockIInv, Places, FetchedOnce, OnceEach
<1>. QED BY <1>3, <1>4 DEF FlakeLockInv

\* Whatever flake.nix declares and the lock file holds: no node is fetched
\* twice, the root not again, a relative input is read from its parent's
\* source, and a node is built once, after it was found (flake/mod.rs,
\* Flakes::locate, value and build).
THEOREM InputsAreFetchedOnce == FlakeLockSpec => []FlakeLockInv
<1>1. FlakeLockInit => FlakeLockIInv
  BY FlakeLockInitially
<1>2. FlakeLockIInv /\ [FlakeLockNext]_flakeVars => FlakeLockIInv'
  <2>. SUFFICES ASSUME FlakeLockIInv, [FlakeLockNext]_flakeVars PROVE FlakeLockIInv'
    OBVIOUS
  <2>1. CASE Load
    BY <2>1, LoadKeeps
  <2>2. CASE ReadLock
    BY <2>2, ReadLockKeeps
  <2>3. CASE Check
    BY <2>3, CheckKeeps
  <2>4. CASE \E key \in Range(locating) :
               \/ FetchNode(key) \/ NotLocated(key)
               \/ \E up \in {ParentOf(lock, key)} : FindBelow(key, up) \/ GoUp(key, up)
    BY <2>4, LocateKeeps
  <2>5. CASE ForceRoot
    BY <2>5, ForceKeepsLock, RestsBetween DEF ForceRoot
  <2>6. CASE ApplyOutputs
    BY <2>6, ApplyOutputsKeeps
  <2>7. CASE Use
    BY <2>7, ForceKeepsLock DEF Use
  <2>8. CASE Built
    <3>1. phase = "eval" /\ forcing # <<>> /\ locating = <<>> /\ UNCHANGED <<lock, sources, given, locating, fetched>>
      BY <2>8 DEF Built
    <3>2. CASE Returns /\ UNCHANGED phase
      BY <3>1, <3>2, ReturnsKeeps
    <3>3. CASE Fail /\ UNCHANGED <<values, forcing>>
      BY <3>1, <3>3, FailKeeps
    <3>. QED BY <2>8, <3>2, <3>3 DEF Built
  <2>9. CASE UseLater
    BY <2>9, ForceKeepsLock, RestsBetween DEF UseLater
  <2>10. CASE Finish
    BY <2>10 DEF Finish, FlakeLockIInv, Phases, Places, Builds, InParentsSource
  <2>11. CASE UNCHANGED flakeVars
    BY <2>11 DEF flakeVars, FlakeLockIInv, Phases, Places, Builds, InParentsSource, NothingYet
  <2>. QED BY <2>1, <2>2, <2>3, <2>4, <2>5, <2>6, <2>7, <2>8, <2>9, <2>10, <2>11 DEF FlakeLockNext
<1>3. FlakeLockIInv => FlakeLockInv
  BY FlakeLockImplied
<1>. QED BY <1>1, <1>2, <1>3, PTL DEF FlakeLockSpec
=============================================================================
