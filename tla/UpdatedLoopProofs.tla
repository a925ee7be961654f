------------------------- MODULE UpdatedLoopProofs -------------------------
(***************************************************************************)
(* For every interval, jitter, delay and number of clients: the loop never *)
(* waits past the deadline of the trial on record.                         *)
(***************************************************************************)
EXTENDS UpdatedLoop, FiniteSetTheorems, TLAPS

IInv == TypeOK /\ NeverSleepsPastDeadline

\* wait_duration returns a duration that is bounded by the base and by what
\* is left of a trial's deadline.
LEMMA ClampedBounds ==
  ASSUME NEW base \in Nat, NEW t \in BOOLEAN, NEW l \in Nat
  PROVE  /\ Clamped(base, t, l) \in Nat
         /\ Clamped(base, t, l) <= base
         /\ t => Clamped(base, t, l) <= l
BY DEF Clamped

\* interval() returns a duration.
LEMMA IntervalsNat == Intervals \subseteq Nat
BY LoopAssumption DEF Intervals

\* However a cycle ends, a deadline is left that can be waited for.
LEMMA DeadlineType ==
  ASSUME TypeOK, NEW end, LeavesDeadline(end)
  PROVE  timed' \in BOOLEAN /\ left' \in Nat
<1>1. 0..MaxTrial \subseteq Nat
  BY LoopAssumption
<1>2. CASE Clears
  BY <1>2 DEF Clears
<1>3. CASE Stores
  BY <1>1, <1>2, <1>3 DEF Stores
<1>4. CASE Keeps
  BY <1>4 DEF Keeps, deadline, TypeOK
<1>5. Stores \/ Clears \/ Keeps
  BY Zenon DEF LeavesDeadline
<1>. QED BY <1>2, <1>3, <1>4, <1>5

\* The daemon's exit leaves nothing but the clients' fates.
LEMMA ExitType ==
  ASSUME TypeOK, NEW answered, Exit(answered)
  PROVE  /\ phase' = "down" /\ wait' = 0
         /\ queue' \in Seq(Clients) /\ backlog' \in Seq(Clients)
         /\ reading' = NoClient /\ patience' = 0
         /\ request' = request /\ fate' \in [Clients -> Fates]
BY DEF Exit, TypeOK, Fates

\* The initial states.
LEMMA InitIInv == Init => IInv
<1>1. 0..MaxTrial \subseteq Nat
  BY LoopAssumption
<1>2. SUFFICES ASSUME Init PROVE IInv
  OBVIOUS
<1>3. request \in [Clients -> Kinds] /\ fate \in [Clients -> Fates]
  BY <1>2 DEF Init, Kinds, Commands, Fates
<1>4. queue \in Seq(Clients) /\ backlog \in Seq(Clients)
  BY <1>2 DEF Init
<1>. QED BY <1>1, <1>2, <1>3, <1>4 DEF Init, IInv, TypeOK, NeverSleepsPastDeadline

\* The listener thread touches neither the wait nor the deadline.
LEMMA ListenIInv ==
  ASSUME IInv, Listen \/ \E c \in Clients, kind \in Kinds : Connect(c, kind)
  PROVE  IInv'
<1>. USE DEF IInv, TypeOK, NeverSleepsPastDeadline, loop, deadline, clients, Fates
<1>1. ASSUME NEW c \in Clients, NEW kind \in Kinds, Connect(c, kind) PROVE IInv'
  BY <1>1 DEF Connect
<1>2. CASE Accept
  BY <1>2, LoopAssumption DEF Accept
<1>3. CASE HandOver
  BY <1>3 DEF HandOver
<1>4. CASE Refuse
  BY <1>4 DEF Refuse, Done
<1>5. CASE GiveUp
  BY <1>5 DEF GiveUp, Silent, Done
<1>. QED BY <1>1, <1>2, <1>3, <1>4, <1>5 DEF Listen

\* Starting a cycle: the loop is not waiting any more.
LEMMA BeginIInv ==
  ASSUME IInv, NEW c \in Clients \cup {NoClient},
         NEW t \in {"scheduled", "manual", "canary"}, BeginCycle(t, c),
         queue' \in Seq(Clients)
  PROVE  IInv'
BY DEF IInv, TypeOK, NeverSleepsPastDeadline, BeginCycle, Lapsed, deadline, listener, clients

\* Every step keeps the invariant: each way back to waiting clamps the wait
\* to the deadline that is then on record, and time takes from both alike.
LEMMA Inductive == IInv /\ [Next]_vars => IInv'
<1>. SUFFICES ASSUME IInv, [Next]_vars PROVE IInv'
  OBVIOUS
<1>1. CASE Listen \/ \E c \in Clients, kind \in Kinds : Connect(c, kind)
  BY <1>1, ListenIInv
<1>2. CASE Timeout
  <2>1. queue' \in Seq(Clients)
    BY <1>2 DEF Timeout, IInv, TypeOK
  <2>. QED BY <1>2, <2>1, BeginIInv DEF Timeout
<1>3. CASE Serve
  <2>1. Head(queue) \in Clients /\ queue' \in Seq(Clients)
    BY <1>3 DEF Serve, IInv, TypeOK
  <2>2. TriggerOf(request[Head(queue)]) \in {"scheduled", "manual", "canary"}
    BY DEF TriggerOf
  <2>. QED BY <1>3, <2>1, <2>2, BeginIInv DEF Serve
<1>4. CASE Status
  <2>1. PICK i \in Intervals : wait' = Clamped(i, timed, left)
    BY <1>4 DEF Status
  <2>2. wait' \in Nat /\ (timed => wait' <= left)
    BY <2>1, IntervalsNat, ClampedBounds DEF IInv, TypeOK
  <2>3. queue' \in Seq(Clients) /\ fate' \in [Clients -> Fates]
    BY <1>4 DEF Status, Done, IInv, TypeOK, Fates
  <2>. QED BY <1>4, <2>2, <2>3
           DEF Status, Done, IInv, TypeOK, NeverSleepsPastDeadline, deadline, listener
<1>5. CASE FinishActivated
  <2>1. timed' \in BOOLEAN /\ left' \in Nat
    BY <1>5, DeadlineType DEF FinishActivated, IInv
  <2>2. /\ phase' = "down" /\ wait' = 0
        /\ queue' \in Seq(Clients) /\ backlog' \in Seq(Clients)
        /\ reading' = NoClient /\ patience' = 0
        /\ request' = request /\ fate' \in [Clients -> Fates]
    BY <1>5, ExitType DEF FinishActivated, IInv
  <2>. QED BY <1>5, <2>1, <2>2
           DEF FinishActivated, EndCycle, IInv, TypeOK, NeverSleepsPastDeadline
<1>6. ASSUME NEW end \in Ends, Finish(end) PROVE IInv'
  <2>1. timed' \in BOOLEAN /\ left' \in Nat
    BY <1>6, DeadlineType DEF Finish, IInv
  <2>2. PICK i \in Intervals : wait' = Clamped(i, timed', left')
    BY <1>6 DEF Finish
  <2>3. wait' \in Nat /\ (timed' => wait' <= left')
    BY <2>1, <2>2, IntervalsNat, ClampedBounds
  <2>4. request' \in [Clients -> Kinds] /\ fate' \in [Clients -> Fates]
    BY <1>6 DEF Finish, Reply, Done, clients, IInv, TypeOK, Fates
  <2>. QED BY <1>6, <2>1, <2>3, <2>4
           DEF Finish, EndCycle, IInv, TypeOK, NeverSleepsPastDeadline, listener
<1>7. CASE Tick
  <2>1. fate' \in [Clients -> Fates]
    BY <1>7 DEF Tick, Fates
  <2>. QED BY <1>7, <2>1 DEF Tick, Idle, Less, IInv, TypeOK, NeverSleepsPastDeadline
<1>8. CASE Crash
  <2>1. timed' \in BOOLEAN /\ left' \in Nat
    BY <1>8, DeadlineType DEF Crash, IInv, TypeOK, deadline
  <2>2. /\ phase' = "down" /\ wait' = 0
        /\ queue' \in Seq(Clients) /\ backlog' \in Seq(Clients)
        /\ reading' = NoClient /\ patience' = 0
        /\ request' = request /\ fate' \in [Clients -> Fates]
    BY <1>8, ExitType DEF Crash, IInv
  <2>. QED BY <1>8, <2>1, <2>2
           DEF Crash, EndCycle, IInv, TypeOK, NeverSleepsPastDeadline
<1>9. CASE Restart
  <2>1. wait' \in Nat /\ (timed => wait' <= left)
    BY <1>9, LoopAssumption, ClampedBounds DEF Restart, IInv, TypeOK
  <2>. QED BY <1>9, <2>1
           DEF Restart, IInv, TypeOK, NeverSleepsPastDeadline, deadline, listener, clients
<1>10. CASE UNCHANGED vars
  BY <1>10 DEF vars, loop, deadline, listener, clients, IInv, TypeOK, NeverSleepsPastDeadline
<1>. QED BY <1>1, <1>2, <1>3, <1>4, <1>5, <1>6, <1>7, <1>8, <1>9, <1>10 DEF Next, Cycle

\* The loop's state keeps its type whatever the clients ask for.
THEOREM LoopTypeCorrect == Spec => []TypeOK
BY InitIInv, Inductive, PTL DEF Spec, IInv

\* The loop wakes at or before the active trial's deadline, for every
\* configuration and every sequence of requests, cycles and crashes.
THEOREM WakesForDeadline == Spec => []NeverSleepsPastDeadline
BY InitIInv, Inductive, PTL DEF Spec, IInv

-----------------------------------------------------------------------------
(* Every open connection is in one place.                                  *)

Distinct(s) == \A i, j \in 1..Len(s) : s[i] = s[j] => i = j

\* A sequence without repetitions is as long as its set is large.
LEMMA DistinctCardinality ==
  ASSUME NEW S, NEW s \in Seq(S), Distinct(s)
  PROVE  IsFiniteSet(ToSet(s)) /\ Cardinality(ToSet(s)) = Len(s)
<1>1. s \in Bijection(1..Len(s), ToSet(s))
  BY DEF Bijection, Injection, Surjection, IsInjective, ToSet, Distinct
<1>2. Len(s) \in Nat /\ IsFiniteSet(1..Len(s)) /\ Cardinality(1..Len(s)) = Len(s)
  <2>1. \A n \in Nat : IsFiniteSet(1..n) /\ Cardinality(1..n) = n
    <3>. TAKE n \in Nat
    <3>1. IsFiniteSet(1..n) /\ Cardinality(1..n) = IF 1 > n THEN 0 ELSE n - 1 + 1
      BY FS_Interval
    <3>. QED BY <3>1
  <2>. QED BY <2>1
<1>. QED BY <1>1, <1>2, FS_Bijection DEF ExistsBijection

LEMMA AppendDistinct ==
  ASSUME NEW S, NEW s \in Seq(S), NEW e \in S
  PROVE  /\ ToSet(Append(s, e)) = ToSet(s) \cup {e}
         /\ Distinct(s) /\ e \notin ToSet(s) => Distinct(Append(s, e))
<1>1. /\ Append(s, e) \in Seq(S) /\ Len(Append(s, e)) = Len(s) + 1
      /\ \A i \in 1..Len(s) : Append(s, e)[i] = s[i]
      /\ Append(s, e)[Len(s) + 1] = e
      /\ 1..(Len(s) + 1) = (1..Len(s)) \cup {Len(s) + 1} /\ Len(s) \in Nat
  OBVIOUS
<1>2. ToSet(Append(s, e)) = ToSet(s) \cup {e}
  BY <1>1 DEF ToSet
<1>3. ASSUME Distinct(s), e \notin ToSet(s) PROVE Distinct(Append(s, e))
  BY <1>1, <1>3 DEF Distinct, ToSet
<1>. QED BY <1>2, <1>3

LEMMA TailDistinct ==
  ASSUME NEW S, NEW s \in Seq(S), s # <<>>, Distinct(s)
  PROVE  /\ Head(s) \in ToSet(s) /\ ToSet(Tail(s)) = ToSet(s) \ {Head(s)}
         /\ Distinct(Tail(s))
<1>1. /\ Tail(s) \in Seq(S) /\ Len(Tail(s)) = Len(s) - 1 /\ Len(s) \in Nat \ {0}
      /\ \A i \in 1..Len(Tail(s)) : Tail(s)[i] = s[i + 1]
      /\ Head(s) = s[1]
  OBVIOUS
<1>2. Head(s) \in ToSet(s)
  BY <1>1 DEF ToSet
<1>3. ToSet(Tail(s)) \subseteq ToSet(s) \ {Head(s)}
  BY <1>1 DEF ToSet, Distinct
<1>4. ASSUME NEW e \in ToSet(s), e # Head(s) PROVE e \in ToSet(Tail(s))
  <2>1. PICK i \in 1..Len(s) : e = s[i]
    BY <1>1 DEF ToSet
  <2>2. i # 1 /\ i - 1 \in 1..Len(Tail(s)) /\ e = Tail(s)[i - 1]
    BY <1>1, <1>4, <2>1
  <2>3. DOMAIN Tail(s) = 1..Len(Tail(s))
    BY <1>1
  <2>. QED BY <2>2, <2>3 DEF ToSet
<1>5. Distinct(Tail(s))
  BY <1>1 DEF Distinct
<1>. QED BY <1>2, <1>3, <1>4, <1>5

LEMMA NobodyWaits == ToSet(<<>>) = {} /\ Distinct(<<>>)
BY DEF ToSet, Distinct

\* The places do not overlap, and the pending clients are the ones in them.
Apart ==
  /\ Distinct(queue) /\ Distinct(backlog)
  /\ ToSet(queue) \cap ToSet(backlog) = {}
  /\ serving \notin ToSet(queue) \cup ToSet(backlog)
  /\ reading \notin ToSet(queue) \cup ToSet(backlog)
  /\ serving # NoClient => serving # reading
  /\ phase # "cycle" => serving = NoClient
  /\ Pending = Handed \cup ({reading} \ {NoClient}) \cup ToSet(backlog)

LEMMA DisjointCardinality ==
  ASSUME NEW A, NEW B, IsFiniteSet(A), IsFiniteSet(B), A \cap B = {}
  PROVE  IsFiniteSet(A \cup B) /\ Cardinality(A \cup B) = Cardinality(A) + Cardinality(B)
<1>1. Cardinality(A) \in Nat /\ Cardinality(B) \in Nat
  BY FS_CardinalityType
<1>2. Cardinality(A \cap B) = 0
  BY FS_EmptySet
<1>3. /\ IsFiniteSet(A \cup B)
      /\ Cardinality(A \cup B) = Cardinality(A) + Cardinality(B) - Cardinality(A \cap B)
  BY FS_Union
<1>. QED BY <1>1, <1>2, <1>3

LEMMA ApartCounts == TypeOK /\ Apart => EachStreamOnce
<1>. SUFFICES ASSUME TypeOK, Apart PROVE EachStreamOnce
  OBVIOUS
<1>. DEFINE S == {serving} \ {NoClient}
            R == {reading} \ {NoClient}
<1>1. /\ IsFiniteSet(ToSet(queue)) /\ Cardinality(ToSet(queue)) = Len(queue)
      /\ IsFiniteSet(ToSet(backlog)) /\ Cardinality(ToSet(backlog)) = Len(backlog)
      /\ Len(queue) \in Nat /\ Len(backlog) \in Nat
  BY DistinctCardinality DEF TypeOK, Apart
<1>2. IsFiniteSet(S) /\ IsFiniteSet(R) /\ Cardinality(S) \in Nat /\ Cardinality(R) \in Nat
  BY FS_Singleton, FS_RemoveElement, FS_CardinalityType
<1>4. IsFiniteSet(ToSet(queue) \cup S) /\ Cardinality(ToSet(queue) \cup S) = Len(queue) + Cardinality(S)
  <2>1. ToSet(queue) \cap S = {}
    BY DEF Apart
  <2>. HIDE DEF S
  <2>. QED BY <1>1, <1>2, <2>1, DisjointCardinality
<1>5. /\ IsFiniteSet(ToSet(queue) \cup S \cup R)
      /\ Cardinality(ToSet(queue) \cup S \cup R) = Len(queue) + Cardinality(S) + Cardinality(R)
  <2>1. (ToSet(queue) \cup S) \cap R = {}
    BY DEF Apart
  <2>2. Cardinality(ToSet(queue) \cup S \cup R) = Cardinality(ToSet(queue) \cup S) + Cardinality(R)
    BY <1>2, <1>4, <2>1, DisjointCardinality
  <2>3. IsFiniteSet(ToSet(queue) \cup S \cup R)
    BY <1>2, <1>4, <2>1, DisjointCardinality
  <2>. HIDE DEF S, R
  <2>. QED BY <1>1, <1>2, <1>4, <2>2, <2>3
<1>6. Cardinality(ToSet(queue) \cup S \cup R \cup ToSet(backlog))
        = Len(queue) + Cardinality(S) + Cardinality(R) + Len(backlog)
  <2>1. (ToSet(queue) \cup S \cup R) \cap ToSet(backlog) = {}
    BY DEF Apart
  <2>2. Cardinality(ToSet(queue) \cup S \cup R \cup ToSet(backlog))
          = Cardinality(ToSet(queue) \cup S \cup R) + Cardinality(ToSet(backlog))
    BY <1>1, <1>5, <2>1, DisjointCardinality
  <2>. HIDE DEF S, R
  <2>. QED BY <1>1, <1>2, <1>5, <2>2
<1>7. Pending = ToSet(queue) \cup S \cup R \cup ToSet(backlog)
  BY DEF Apart, Handed
<1>8. Cardinality(Pending) = Len(queue) + Len(backlog) + Cardinality(S) + Cardinality(R)
  <2>. HIDE DEF S, R
  <2>. QED BY <1>1, <1>2, <1>6, <1>7
<1>. QED BY <1>8 DEF EachStreamOnce, Apart

\* Whoever was open is answered or lost when the process is gone.
LEMMA ExitApart ==
  ASSUME TypeOK, NEW answered, Exit(answered), serving' = NoClient
  PROVE  Apart'
<1>1. Pending' = {}
  BY DEF Exit, Pending
<1>2. queue' = <<>> /\ backlog' = <<>> /\ reading' = NoClient /\ serving' = NoClient
  BY DEF Exit
<1>3. ToSet(queue') = {} /\ ToSet(backlog') = {} /\ Distinct(queue') /\ Distinct(backlog')
  BY <1>2, NobodyWaits
<1>4. Handed' = {}
  BY <1>2, <1>3 DEF Handed
<1>. QED BY <1>1, <1>2, <1>3, <1>4 DEF Apart

\* A client goes from one place to the next.
LEMMA ListenApart ==
  ASSUME TypeOK, Apart, Listen \/ \E c \in Clients, kind \in Kinds : Connect(c, kind)
  PROVE  Apart'
<1>. USE LoopAssumption DEF loop, deadline, clients
<1>1. ASSUME NEW c \in Clients, NEW kind \in Kinds, Connect(c, kind) PROVE Apart'
  <2>1. c \notin Pending /\ Pending' = Pending \cup {c}
    BY <1>1 DEF Connect, Pending, TypeOK
  <2>2. c \notin ToSet(queue) \cup ToSet(backlog) /\ c # serving /\ c # reading
    BY <2>1 DEF Apart, Handed
  <2>3. /\ ToSet(backlog') = ToSet(backlog) \cup {c} /\ Distinct(backlog')
        /\ UNCHANGED <<queue, serving, reading, phase>>
    BY <1>1, <2>2, AppendDistinct DEF Connect, TypeOK, Apart
  <2>4. Handed' = Handed
    BY <2>3 DEF Handed
  <2>. QED BY <2>1, <2>2, <2>3, <2>4 DEF Apart
<1>2. CASE Accept
  <2>1. /\ reading = NoClient /\ reading' = Head(backlog) /\ Head(backlog) \in ToSet(backlog)
        /\ ToSet(backlog') = ToSet(backlog) \ {Head(backlog)} /\ Distinct(backlog')
        /\ Head(backlog) \in Clients /\ UNCHANGED <<queue, serving, phase, fate>>
    BY <1>2, TailDistinct DEF Accept, TypeOK, Apart
  <2>2. Handed' = Handed /\ Pending' = Pending
    BY <2>1 DEF Handed, Pending
  <2>. QED BY <2>1, <2>2 DEF Apart
<1>3. CASE HandOver
  <2>1. /\ reading \in Clients /\ reading' = NoClient
        /\ ToSet(queue') = ToSet(queue) \cup {reading} /\ Distinct(queue')
        /\ UNCHANGED <<backlog, serving, phase, fate>>
    BY <1>3, AppendDistinct DEF HandOver, TypeOK, Apart
  <2>2. Handed' = Handed \cup {reading} /\ Pending' = Pending
    BY <2>1 DEF Handed, Pending
  <2>3. NoClient \notin ToSet(queue') \cup ToSet(backlog')
    <3>1. NoClient \notin ToSet(queue) \cup ToSet(backlog)
      BY DEF TypeOK, ToSet
    <3>. QED BY <2>1, <3>1
  <2>. QED BY <2>1, <2>2, <2>3 DEF Apart
<1>4. CASE Refuse \/ GiveUp
  <2>1. /\ reading \in Clients /\ reading' = NoClient /\ Pending' = Pending \ {reading}
        /\ UNCHANGED <<queue, backlog, serving, phase>>
    BY <1>4 DEF Refuse, GiveUp, Silent, Done, TypeOK, Pending
  <2>2. Handed' = Handed
    BY <2>1 DEF Handed
  <2>3. NoClient \notin ToSet(queue) \cup ToSet(backlog)
    BY DEF TypeOK, ToSet
  <2>4. reading \notin Handed \cup ToSet(backlog) /\ reading # serving
    BY <2>1 DEF Handed, Apart
  <2>5. Pending' = Handed \cup ToSet(backlog)
    BY <2>1, <2>4 DEF Apart
  <2>. QED BY <2>1, <2>2, <2>3, <2>4, <2>5 DEF Apart
<1>. QED BY <1>1, <1>2, <1>3, <1>4 DEF Listen

LEMMA ApartInductive == TypeOK /\ Apart /\ [Next]_vars => Apart'
<1>. SUFFICES ASSUME TypeOK, Apart, [Next]_vars PROVE Apart'
  OBVIOUS
<1>. USE LoopAssumption DEF deadline, listener, clients
<1>1. CASE Listen \/ \E c \in Clients, kind \in Kinds : Connect(c, kind)
  BY <1>1, ListenApart
<1>2. CASE Timeout
  <2>1. UNCHANGED <<queue, backlog, reading, serving, fate>> /\ serving = NoClient
    BY <1>2 DEF Timeout, BeginCycle, Apart
  <2>2. Handed' = Handed /\ Pending' = Pending
    BY <2>1 DEF Handed, Pending
  <2>. QED BY <2>1, <2>2 DEF Apart
<1>3. CASE Serve
  <2>1. /\ serving = NoClient /\ serving' = Head(queue) /\ phase' = "cycle"
        /\ Head(queue) \in ToSet(queue) /\ Head(queue) \in Clients
        /\ ToSet(queue') = ToSet(queue) \ {Head(queue)} /\ Distinct(queue')
        /\ UNCHANGED <<backlog, reading, fate>>
    BY <1>3, TailDistinct DEF Serve, BeginCycle, TypeOK, Apart
  <2>2. Handed' = Handed /\ Pending' = Pending
    BY <2>1 DEF Handed, Pending
  <2>. QED BY <2>1, <2>2 DEF Apart
<1>4. CASE Status
  <2>1. /\ Head(queue) \in ToSet(queue) /\ Head(queue) \in Clients
        /\ ToSet(queue') = ToSet(queue) \ {Head(queue)} /\ Distinct(queue')
        /\ Pending' = Pending \ {Head(queue)}
        /\ UNCHANGED <<backlog, reading, phase, serving>>
    BY <1>4, TailDistinct DEF Status, Done, Pending, TypeOK, Apart
  <2>2. Handed' = Handed \ {Head(queue)}
    BY <2>1 DEF Handed, Apart
  <2>. QED BY <2>1, <2>2 DEF Apart
<1>5. CASE FinishActivated
  BY <1>5, ExitApart DEF FinishActivated, EndCycle
<1>6. ASSUME NEW end \in Ends, Finish(end) PROVE Apart'
  <2>1. serving' = NoClient /\ Pending' = Pending \ {serving} /\ UNCHANGED <<queue, backlog, reading>>
    BY <1>6 DEF Finish, EndCycle, Reply, Done, Pending, TypeOK
  <2>2. Handed' = Handed \ {serving}
    BY <2>1 DEF Handed, Apart
  <2>3. NoClient \notin ToSet(queue) \cup ToSet(backlog)
    BY DEF TypeOK, ToSet
  <2>. QED BY <2>1, <2>2, <2>3 DEF Apart
<1>7. CASE Tick
  <2>1. UNCHANGED <<queue, backlog, reading, phase, serving>> /\ Pending' = Pending
    BY <1>7 DEF Tick, Pending
  <2>2. Handed' = Handed
    BY <2>1 DEF Handed
  <2>. QED BY <2>1, <2>2 DEF Apart
<1>8. CASE Crash
  BY <1>8, ExitApart DEF Crash, EndCycle
<1>9. CASE Restart \/ UNCHANGED vars
  <2>1. UNCHANGED <<queue, backlog, reading, serving, fate>> /\ (phase' # "cycle" => serving = NoClient)
    BY <1>9 DEF Restart, vars, loop, Apart
  <2>2. Handed' = Handed /\ Pending' = Pending
    BY <2>1 DEF Handed, Pending
  <2>. QED BY <2>1, <2>2 DEF Apart
<1>. QED BY <1>1, <1>2, <1>3, <1>4, <1>5, <1>6, <1>7, <1>8, <1>9 DEF Next, Cycle

\* control::listen and main::run hand each stream on exactly once: whoever waits
\* for an answer is in one place of the daemon, whatever the number of clients,
\* and nobody is in two.
THEOREM StreamsInOnePlace == Spec => []EachStreamOnce
<1>1. Init => Apart
  <2>. SUFFICES ASSUME Init PROVE Apart
    OBVIOUS
  <2>1. Handed = {} /\ Pending = {}
    BY NobodyWaits DEF Init, Handed, Pending
  <2>. QED BY <2>1, NobodyWaits DEF Init, Apart
<1>2. Spec => [](TypeOK /\ Apart)
  BY <1>1, LoopTypeCorrect, ApartInductive, PTL DEF Spec
<1>. QED BY <1>2, ApartCounts, PTL

=============================================================================
