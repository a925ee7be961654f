-------------------------- MODULE DashboardProofs --------------------------
(***************************************************************************)
(* For any number of hosts, commits, requests, changes and outages: the    *)
(* mirror follows the keys it was told of, a page as new as the mirror is  *)
(* whole, and a request is served what the mirror had while it lasted.     *)
(*                                                                         *)
(* The caches compare versions only, so the argument is about versions: no *)
(* cache and no request is ever ahead of the mirror, and what carries the  *)
(* mirror's own version was derived from the mirror as it is.              *)
(*                                                                         *)
(* For any repository and any deployed commits, the timeline tells who     *)
(* descends from whom: the nearest shown ancestors keep the ancestry, the  *)
(* stack holds what has all its children placed, and every edge is in a    *)
(* lane until its parent's row.                                            *)
(***************************************************************************)
EXTENDS DashboardPage, Timeline, FiniteSetTheorems, SequenceTheorems, WellFoundedInduction, TLAPS

\* Versions come from changes that were told and from loads.
Counted == version + Len(events) <= 1 + sets + loads

\* Only an open watch has events to tell.
NothingPending == conn # "watching" => events = <<>>

MirrorInv == MirrorTypeOK /\ Counted /\ NothingPending /\ MirrorTracks

\* Derived from the mirror, if it is as new as the mirror.
OfMirror(hosts, v) == v <= version /\ (v = version => hosts = mirror)

Lists(metadata) ==
  metadata.version <= version
    /\ (metadata.version = version => metadata.wanted = Reported(mirror))

RequestInv(r) ==
  /\ at[r] # "idle" => /\ 1 <= asked[r].version
                       /\ OfMirror(asked[r].hosts, asked[r].version)
  /\ at[r] = "commits" => /\ asked[r].version <= again[r].version
                          /\ OfMirror(again[r].hosts, again[r].version)
  /\ at[r] = "page" => asked[r].version <= got[r].version /\ Lists(got[r])

CacheInv ==
  /\ Lists(commits)
  /\ OfMirror(html.hosts, html.version)
  /\ CurrentPageWhole

IInv == MirrorInv /\ TypeOK /\ CacheInv /\ \A r \in Requests : RequestInv(r)

-----------------------------------------------------------------------------
(* The mirror.                                                             *)

LEMMA MirrorInitInv == MirrorInit => MirrorInv
BY MirrorAssumption
   DEF MirrorInit, MirrorInv, MirrorTypeOK, Counted, NothingPending, MirrorTracks, Pending, Values, Event

\* An event is appended for the key that changed, and for no other.
LEMMA SetInv ==
  ASSUME MirrorInv, NEW k \in Keys, NEW v \in Values, Set(k, v)
  PROVE  MirrorInv'
<1>. USE MirrorAssumption DEF MirrorInv
<1>. DEFINE e == [key |-> k, value |-> v]
<1>1. etcd' \in [Keys -> Values] /\ etcd' = [etcd EXCEPT ![k] = v] /\ e \in Event
  BY DEF Set, MirrorTypeOK, Event
<1>2. CASE conn = "watching"
  <2>1. events' = Append(events, e) /\ missed' = missed \ {k}
    BY <1>2 DEF Set
  <2>2. /\ Len(events') = Len(events) + 1 /\ events' \in Seq(Event)
        /\ \A i \in 1..Len(events) : events'[i] = events[i]
        /\ events'[Len(events) + 1] = e
        /\ Len(events) \in Nat
        /\ DOMAIN events = 1..Len(events) /\ DOMAIN events' = 1..(Len(events) + 1)
    BY <1>1, <2>1 DEF MirrorTypeOK
  <2>3. MirrorTypeOK'
    <3>1. sets' \in 0..MaxSets /\ missed' \in SUBSET Keys
      BY <2>1 DEF Set, MirrorTypeOK
    <3>2. UNCHANGED <<conn, mirror, version, loads>>
      BY DEF Set
    <3>. QED BY <1>1, <2>2, <3>1, <3>2 DEF MirrorTypeOK
  <2>4. Counted' /\ NothingPending'
    BY <1>2, <2>2 DEF Set, Counted, NothingPending, MirrorTypeOK
  <2>5. MirrorTracks'
    <3>1. SUFFICES ASSUME NEW q \in Keys \ missed'
                   PROVE  /\ Pending(q)' = {} => mirror'[q] = etcd'[q]
                          /\ \A i \in Pending(q)' :
                               (\A j \in Pending(q)' : j <= i) => events'[i].value = etcd'[q]
      BY DEF MirrorTracks
    <3>2. CASE q = k
      <4>1. Len(events) + 1 \in Pending(k)'
        BY <2>2 DEF Pending
      <4>2. \A i \in Pending(k)' : i <= Len(events) + 1
        BY <2>2 DEF Pending
      <4>3. ASSUME NEW i \in Pending(k)', \A j \in Pending(k)' : j <= i
            PROVE  i = Len(events) + 1
        <5>1. i <= Len(events) + 1 /\ Len(events) + 1 <= i
          BY <4>1, <4>2, <4>3
        <5>2. i \in Int /\ Len(events) + 1 \in Int
          BY <2>2, <4>3 DEF Pending
        <5>. QED BY <5>1, <5>2
      <4>4. etcd'[k] = v
        BY <1>1 DEF MirrorTypeOK
      <4>. QED BY <2>2, <3>2, <4>1, <4>3, <4>4
    <3>3. CASE q # k
      <4>1. Pending(q)' = Pending(q)
        BY <2>2, <3>3 DEF Pending
      <4>2. q \in Keys \ missed /\ etcd'[q] = etcd[q] /\ mirror' = mirror
        BY <1>1, <2>1, <3>1, <3>3 DEF Set, MirrorTypeOK
      <4>3. \A i \in Pending(q) : events'[i] = events[i]
        BY <2>2 DEF Pending
      <4>. QED BY <4>1, <4>2, <4>3 DEF MirrorTracks
    <3>. QED BY <3>2, <3>3
  <2>. QED BY <2>3, <2>4, <2>5
<1>3. CASE conn # "watching"
  <2>1. events' = events /\ missed' = missed \cup {k}
    BY <1>3 DEF Set
  <2>2. MirrorTypeOK'
    BY <1>1, <2>1 DEF Set, MirrorTypeOK
  <2>3. Counted' /\ NothingPending'
    BY <1>3, <2>1 DEF Set, Counted, NothingPending, MirrorTypeOK
  <2>4. MirrorTracks'
    BY <1>1, <2>1 DEF Set, MirrorTracks, Pending, MirrorTypeOK
  <2>. QED BY <2>2, <2>3, <2>4
<1>. QED BY <1>2, <1>3

\* Handling an event moves every position down by one.
LEMMA DeliverInv ==
  ASSUME MirrorInv, Deliver
  PROVE  MirrorInv'
<1>. USE MirrorAssumption DEF MirrorInv
<1>. DEFINE e == Head(events)
<1>1. /\ events \in Seq(Event) /\ events # <<>> /\ events' = Tail(events)
      /\ mirror' = [mirror EXCEPT ![e.key] = e.value]
      /\ etcd' = etcd /\ missed' = missed /\ version' = version + 1
  BY DEF Deliver, Install, MirrorTypeOK
<1>2. /\ e = events[1] /\ e \in Event
      /\ Len(events) \in Nat /\ Len(events) >= 1 /\ Len(events') = Len(events) - 1
      /\ events' \in Seq(Event)
      /\ DOMAIN events = 1..Len(events) /\ DOMAIN events' = 1..(Len(events) - 1)
      /\ \A i \in DOMAIN events' : events'[i] = events[i + 1]
  BY <1>1
<1>3. e.key \in Keys /\ e.value \in Values
  BY <1>2 DEF Event
<1>4. Counted'
  BY <1>1, <1>2 DEF Deliver, Counted, MirrorTypeOK
<1>5. MirrorTypeOK'
  <2>1. version' \in 1..1 + MaxSets + MaxLoads
    BY <1>1, <1>2 DEF MirrorTypeOK, Counted, Deliver
  <2>. QED BY <1>1, <1>2, <1>3, <2>1 DEF MirrorTypeOK, Deliver
<1>6. NothingPending'
  BY DEF Deliver, NothingPending
<1>7. MirrorTracks'
  <2>1. SUFFICES ASSUME NEW q \in Keys \ missed
                 PROVE  /\ Pending(q)' = {} => mirror'[q] = etcd[q]
                        /\ \A i \in Pending(q)' :
                             (\A j \in Pending(q)' : j <= i) => events'[i].value = etcd[q]
    BY <1>1 DEF MirrorTracks
  <2>2. \A i \in DOMAIN events' : i \in Pending(q)' <=> i + 1 \in Pending(q)
    BY <1>2 DEF Pending
  <2>3. \A i \in Pending(q) : i = 1 \/ i - 1 \in Pending(q)'
    BY <1>2 DEF Pending
  <2>4. 1 \in Pending(q) <=> e.key = q
    BY <1>2 DEF Pending
  <2>5. Pending(q)' = {} => mirror'[q] = etcd[q]
    <3>1. SUFFICES ASSUME Pending(q)' = {} PROVE mirror'[q] = etcd[q]
      OBVIOUS
    <3>2. Pending(q) \subseteq {1}
      BY <2>3, <3>1
    <3>3. CASE e.key = q
      <4>1. Pending(q) = {1}
        BY <2>4, <3>2, <3>3
      <4>2. events[1].value = etcd[q]
        BY <4>1 DEF MirrorTracks
      <4>. QED BY <1>1, <1>2, <3>3, <4>2 DEF MirrorTypeOK
    <3>4. CASE e.key # q
      <4>1. Pending(q) = {}
        BY <2>4, <3>2, <3>4
      <4>2. mirror[q] = etcd[q]
        BY <4>1 DEF MirrorTracks
      <4>. QED BY <1>1, <3>4, <4>2 DEF MirrorTypeOK
    <3>. QED BY <3>3, <3>4
  <2>6. ASSUME NEW i \in Pending(q)', \A j \in Pending(q)' : j <= i
        PROVE  events'[i].value = etcd[q]
    <3>1. i \in DOMAIN events' /\ i \in Nat /\ i >= 1
      BY <1>2 DEF Pending
    <3>2. i + 1 \in Pending(q)
      BY <2>2, <3>1
    <3>3. \A j \in Pending(q) : j <= i + 1
      <4>1. SUFFICES ASSUME NEW j \in Pending(q) PROVE j <= i + 1
        OBVIOUS
      <4>2. j \in Nat
        BY <1>2 DEF Pending
      <4>3. CASE j = 1
        BY <3>1, <4>3
      <4>4. CASE j - 1 \in Pending(q)'
        BY <2>6, <3>1, <4>2, <4>4
      <4>. QED BY <2>3, <4>3, <4>4
    <3>4. events[i + 1].value = etcd[q]
      BY <3>2, <3>3 DEF MirrorTracks
    <3>. QED BY <1>2, <3>1, <3>4
  <2>. QED BY <2>5, <2>6
<1>. QED BY <1>4, <1>5, <1>6, <1>7

\* What breaks is recorded as missed, what is loaded is not missed any more.
LEMMA WatcherInv ==
  ASSUME MirrorInv, OpenWatch \/ Reload \/ Faults
  PROVE  MirrorInv'
<1>. USE MirrorAssumption DEF MirrorInv
<1>1. CASE OpenWatch
  BY <1>1 DEF OpenWatch, MirrorTypeOK, Counted, NothingPending, MirrorTracks, Pending
<1>2. CASE Reload
  <2>1. /\ mirror' = etcd /\ etcd' = etcd /\ version' = version + 1 /\ missed' = {}
        /\ conn = "pause" /\ conn' = "open" /\ events' = events /\ events = <<>>
        /\ sets' = sets /\ loads' = loads + 1 /\ loads < MaxLoads
    BY <1>2 DEF Reload, Load, NothingPending
  <2>2. MirrorTypeOK' /\ Counted'
    BY <2>1 DEF MirrorTypeOK, Counted
  <2>3. NothingPending' /\ MirrorTracks'
    BY <2>1 DEF NothingPending, MirrorTracks, Pending
  <2>. QED BY <2>2, <2>3
<1>3. CASE WatchEnds
  <2>1. /\ conn' = "pause" /\ events' = <<>>
        /\ missed' = missed \cup {events[i].key : i \in DOMAIN events}
        /\ UNCHANGED <<etcd, mirror, version, sets, loads>>
    BY <1>3 DEF WatchEnds
  <2>2. \A i \in DOMAIN events : events[i].key \in Keys
    <3>1. events \in Seq(Event)
      BY DEF MirrorTypeOK
    <3>2. \A i \in DOMAIN events : events[i] \in Event
      BY <3>1
    <3>. QED BY <3>2 DEF Event
  <2>3. MirrorTypeOK'
    BY <2>1, <2>2 DEF MirrorTypeOK
  <2>4. Counted' /\ NothingPending'
    BY <2>1 DEF MirrorTypeOK, Counted, NothingPending
  <2>5. \A q \in Keys \ missed' : Pending(q) = {} /\ q \in Keys \ missed
    BY <2>1 DEF Pending
  <2>6. MirrorTracks'
    BY <2>1, <2>5 DEF MirrorTracks, Pending
  <2>. QED BY <2>3, <2>4, <2>6
<1>4. CASE ReloadFails
  BY <1>4 DEF ReloadFails, MirrorTypeOK, Counted, NothingPending, MirrorTracks, Pending
<1>. QED BY <1>1, <1>2, <1>3, <1>4 DEF Faults

LEMMA MirrorNextInv ==
  ASSUME MirrorInv, MirrorNext
  PROVE  MirrorInv'
BY SetInv, DeliverInv, WatcherInv DEF MirrorNext, Hosts, Watcher

\* A version is never given to two contents, nor taken back.
LEMMA VersionMoves ==
  ASSUME MirrorInv, MirrorNext
  PROVE  version' > version \/ (version' = version /\ mirror' = mirror)
<1>1. version \in Nat
  BY MirrorAssumption DEF MirrorInv, MirrorTypeOK
<1>2. CASE Hosts
  BY <1>2 DEF Hosts, Set
<1>3. CASE Deliver \/ Reload
  BY <1>1, <1>3 DEF Deliver, Reload, Load
<1>4. CASE OpenWatch \/ Faults
  BY <1>4 DEF OpenWatch, Faults, WatchEnds, ReloadFails
<1>. QED BY <1>2, <1>3, <1>4 DEF MirrorNext, Watcher

-----------------------------------------------------------------------------
(* The caches and the requests.                                            *)

LEMMA VersionsInt == Versions \subseteq Nat /\ 0 \in Versions
BY MirrorAssumption DEF Versions

LEMMA NothingType ==
  NothingAsked \in HostStates /\ NoMetadata \in Metadata /\ NoPage \in Page
BY VersionsInt, CountAssumption
   DEF NothingAsked, NoMetadata, NoPage, HostStates, Metadata, Page, Values

LEMMA InitIInv == Init => IInv
<1>. SUFFICES ASSUME Init PROVE IInv
  OBVIOUS
<1>1. MirrorInv /\ version = 1
  BY MirrorInitInv DEF Init, MirrorInit
<1>3. TypeOK
  BY <1>1, NothingType DEF Init, TypeOK, MirrorInv, NoMetadata
<1>4. CacheInv
  BY <1>1 DEF Init, CacheInv, Lists, OfMirror, CurrentPageWhole, NoMetadata, NoPage
<1>5. \A r \in Requests : RequestInv(r)
  BY DEF Init, RequestInv
<1>. QED BY <1>1, <1>3, <1>4, <1>5 DEF IInv

\* The mirror moves on: what is not as new as it is need not match it.
LEMMA MirrorStepIInv ==
  ASSUME IInv, MirrorNext, UNCHANGED pageVars
  PROVE  IInv'
<1>1. MirrorInv'
  BY MirrorNextInv DEF IInv
<1>2. version' > version \/ (version' = version /\ mirror' = mirror)
  BY VersionMoves DEF IInv
<1>3. version \in Nat /\ version' \in Nat
  BY <1>1, MirrorAssumption DEF IInv, MirrorInv, MirrorTypeOK
<1>4. UNCHANGED <<clone, commits, due, html, at, asked, again, got>>
  BY DEF pageVars, requestVars
<1>5. TypeOK'
  BY <1>1, <1>4 DEF IInv, TypeOK, MirrorInv
<1>6. /\ commits.version \in Nat /\ html.version \in Nat
      /\ \A r \in Requests : asked[r].version \in Nat /\ again[r].version \in Nat /\ got[r].version \in Nat
  BY VersionsInt DEF IInv, TypeOK, Metadata, Page, HostStates
<1>7. CacheInv'
  BY <1>2, <1>3, <1>4, <1>6 DEF IInv, CacheInv, Lists, OfMirror, CurrentPageWhole, Reported
<1>8. ASSUME NEW r \in Requests PROVE RequestInv(r)'
  BY <1>2, <1>3, <1>4, <1>6 DEF IInv, RequestInv, Lists, OfMirror, Reported
<1>. QED BY <1>1, <1>5, <1>7, <1>8 DEF IInv

\* The clone moves on, or the metadata's time is up.
LEMMA WorldIInv ==
  ASSUME IInv, Fetch \/ Age
  PROVE  IInv'
<1>1. /\ clone' \in SUBSET Commits /\ clone \subseteq clone' /\ due' \in BOOLEAN
      /\ UNCHANGED <<mirrorVars, commits, html, requestVars>>
  BY DEF Fetch, Fetched, Age, IInv, TypeOK
<1>. QED
  BY <1>1 DEF IInv, MirrorInv, MirrorTypeOK, Counted, NothingPending, MirrorTracks, Pending,
     TypeOK, CacheInv, RequestInv, Lists, OfMirror, CurrentPageWhole, Reported, mirrorVars, requestVars

\* A step of a request that leaves the mirror alone preserves what is said of it.
LEMMA MirrorKept ==
  ASSUME MirrorInv, UNCHANGED mirrorVars
  PROVE  MirrorInv' /\ MirrorTypeOK'
BY DEF MirrorInv, MirrorTypeOK, Counted, NothingPending, MirrorTracks, Pending, mirrorVars

LEMMA AskIInv ==
  ASSUME IInv, NEW r \in Requests, Ask(r)
  PROVE  IInv'
<1>1. MirrorInv' /\ MirrorTypeOK'
  BY MirrorKept DEF IInv, Ask
<1>2. version \in Versions /\ version >= 1 /\ mirror \in [Keys -> Values] /\ version \in Nat
  BY MirrorAssumption DEF IInv, MirrorInv, MirrorTypeOK, Versions
<1>3. UNCHANGED <<mirror, version, clone, commits, due, html, again, got>>
  BY DEF Ask, State, mirrorVars
<1>4. TypeOK'
  BY <1>1, <1>2, <1>3 DEF IInv, TypeOK, Ask, State, HostStates
<1>5. CacheInv'
  BY <1>3 DEF IInv, CacheInv, Lists, OfMirror, CurrentPageWhole, Reported
<1>6. ASSUME NEW q \in Requests PROVE RequestInv(q)'
  <2>1. CASE q = r
    BY <1>2, <1>3, <2>1 DEF IInv, TypeOK, Ask, State, RequestInv, OfMirror
  <2>2. CASE q # r
    BY <1>3, <2>2 DEF IInv, TypeOK, Ask, RequestInv, Lists, OfMirror, Reported
  <2>. QED BY <2>1, <2>2
<1>. QED BY <1>1, <1>4, <1>5, <1>6 DEF IInv

LEMMA AskAgainIInv ==
  ASSUME IInv, NEW r \in Requests, AskAgain(r)
  PROVE  IInv'
<1>1. MirrorInv' /\ MirrorTypeOK'
  BY MirrorKept DEF IInv, AskAgain
<1>2. version \in Versions /\ version >= 1 /\ mirror \in [Keys -> Values] /\ version \in Nat
  BY MirrorAssumption DEF IInv, MirrorInv, MirrorTypeOK, Versions
<1>3. /\ UNCHANGED <<mirror, version, clone, commits, due, html, asked, got>>
      /\ at[r] = "states" /\ at' = [at EXCEPT ![r] = "commits"]
      /\ again' = [again EXCEPT ![r] = [version |-> version, hosts |-> mirror]]
  BY DEF AskAgain, State, mirrorVars
<1>4. TypeOK'
  BY <1>1, <1>2, <1>3 DEF IInv, TypeOK, HostStates
<1>5. CacheInv'
  BY <1>3 DEF IInv, CacheInv, Lists, OfMirror, CurrentPageWhole, Reported
<1>6. ASSUME NEW q \in Requests PROVE RequestInv(q)'
  <2>1. CASE q = r
    BY <1>2, <1>3, <2>1 DEF IInv, TypeOK, RequestInv, OfMirror
  <2>2. CASE q # r
    BY <1>3, <2>2 DEF IInv, TypeOK, RequestInv, Lists, OfMirror, Reported
  <2>. QED BY <2>1, <2>2
<1>. QED BY <1>1, <1>4, <1>5, <1>6 DEF IInv

LEMMA UseCommitsIInv ==
  ASSUME IInv, NEW r \in Requests, UseCommits(r)
  PROVE  IInv'
<1>1. MirrorInv' /\ MirrorTypeOK'
  BY MirrorKept DEF IInv, UseCommits
<1>2. /\ UNCHANGED <<mirror, version, clone, commits, due, html, asked>>
      /\ at[r] = "commits" /\ commits.version >= again[r].version
      /\ at' = [at EXCEPT ![r] = "page"] /\ got' = [got EXCEPT ![r] = commits]
      /\ again' = [again EXCEPT ![r] = NothingAsked]
  BY DEF UseCommits, CommitsValid, Take, mirrorVars
<1>3. commits.version \in Nat /\ asked[r].version \in Nat /\ again[r].version \in Nat
  BY VersionsInt DEF IInv, TypeOK, Metadata, HostStates
<1>4. TypeOK'
  BY <1>1, <1>2, NothingType DEF IInv, TypeOK
<1>5. CacheInv'
  BY <1>2 DEF IInv, CacheInv, Lists, OfMirror, CurrentPageWhole, Reported
<1>6. ASSUME NEW q \in Requests PROVE RequestInv(q)'
  <2>1. CASE q = r
    BY <1>2, <1>3, <2>1 DEF IInv, TypeOK, CacheInv, RequestInv, OfMirror, Lists, Reported
  <2>2. CASE q # r
    BY <1>2, <2>2 DEF IInv, TypeOK, RequestInv, Lists, OfMirror, Reported
  <2>. QED BY <2>1, <2>2
<1>. QED BY <1>1, <1>4, <1>5, <1>6 DEF IInv

\* What a request looks up is as old as what it asked for.
LEMMA RefreshCommitsIInv ==
  ASSUME IInv, NEW r \in Requests, RefreshCommits(r)
  PROVE  IInv'
<1>. DEFINE wanted == Reported(again[r].hosts)
            m == [version |-> again[r].version, wanted |-> wanted, found |-> wanted \cap clone']
<1>1. MirrorInv' /\ MirrorTypeOK'
  BY MirrorKept DEF IInv, RefreshCommits
<1>2. /\ UNCHANGED <<mirror, version, html, asked>>
      /\ at[r] = "commits" /\ commits' = m /\ due' = FALSE
      /\ clone' \in SUBSET Commits
      /\ at' = [at EXCEPT ![r] = "page"] /\ got' = [got EXCEPT ![r] = m]
      /\ again' = [again EXCEPT ![r] = NothingAsked]
  BY DEF RefreshCommits, Take, Lookup, mirrorVars, Fetched, IInv, TypeOK
<1>3. again[r].version \in Versions /\ again[r].hosts \in [Keys -> Values]
  BY DEF IInv, TypeOK, HostStates
<1>4. wanted \in SUBSET Commits
  BY <1>3 DEF Reported, Values
<1>5. m \in Metadata /\ m.found \subseteq clone'
  BY <1>2, <1>3, <1>4 DEF Metadata
<1>6. TypeOK'
  BY <1>1, <1>2, <1>5, NothingType DEF IInv, TypeOK
<1>7. m.version = again[r].version /\ m.wanted = Reported(again[r].hosts) /\ again[r].version \in Nat
  BY <1>3, VersionsInt
<1>8. OfMirror(again[r].hosts, again[r].version) /\ asked[r].version <= again[r].version
  BY <1>2 DEF IInv, RequestInv
<1>9. Lists(m)
  BY <1>7, <1>8 DEF Lists, OfMirror
<1>10. /\ commits'.version <= version'
       /\ commits'.version = version' => commits'.wanted = Reported(mirror)'
  BY <1>2, <1>9 DEF Lists, Reported
<1>11. CacheInv'
  BY <1>2, <1>10 DEF IInv, CacheInv, Lists, OfMirror, CurrentPageWhole, Reported
<1>12. ASSUME NEW q \in Requests PROVE RequestInv(q)'
  <2>1. CASE q = r
    <3>1. at'[r] = "page" /\ got'[r] = m /\ asked'[r] = asked[r]
      BY <1>2 DEF IInv, TypeOK
    <3>2. asked'[r].version <= got'[r].version
      BY <1>7, <1>8, <3>1
    <3>3. Lists(got[r])'
      BY <1>10, <1>2, <3>1 DEF Lists, Reported
    <3>. QED
      BY <1>2, <1>7, <2>1, <3>1, <3>2, <3>3 DEF IInv, RequestInv, OfMirror
  <2>2. CASE q # r
    BY <1>2, <2>2 DEF IInv, TypeOK, RequestInv, Lists, OfMirror, Reported
  <2>. QED BY <2>1, <2>2
<1>. QED BY <1>1, <1>6, <1>11, <1>12 DEF IInv

\* A request that is over is bound to nothing.
LEMMA LeaveRequests ==
  ASSUME IInv, NEW r \in Requests, Leave(r), UNCHANGED <<mirror, version>>
  PROVE  /\ \A q \in Requests : RequestInv(q)'
         /\ at' \in [Requests -> {"idle", "states", "commits", "page"}]
         /\ asked' \in [Requests -> HostStates] /\ again' \in [Requests -> HostStates]
         /\ got' \in [Requests -> Metadata]
<1>2. ASSUME NEW q \in Requests PROVE RequestInv(q)'
  <2>1. CASE q = r
    BY <2>1 DEF IInv, TypeOK, RequestInv, Leave
  <2>2. CASE q # r
    BY <2>2 DEF IInv, TypeOK, RequestInv, Leave, Lists, OfMirror, Reported
  <2>. QED BY <2>1, <2>2
<1>. QED BY <1>2, NothingType DEF IInv, TypeOK, Leave

LEMMA LeaveIInv ==
  ASSUME IInv, NEW r \in Requests, RefreshFails(r) \/ HangUp(r)
  PROVE  IInv'
<1>1. /\ UNCHANGED mirrorVars /\ UNCHANGED <<commits, due, html>>
      /\ Leave(r) /\ clone' \in SUBSET Commits /\ clone \subseteq clone'
  BY DEF RefreshFails, HangUp, Fetched, IInv, TypeOK
<1>2. UNCHANGED <<mirror, version>>
  BY <1>1 DEF mirrorVars
<1>3. MirrorInv' /\ MirrorTypeOK'
  BY <1>1, MirrorKept DEF IInv
<1>4. TypeOK'
  BY <1>1, <1>2, <1>3, LeaveRequests DEF IInv, TypeOK
<1>5. CacheInv'
  BY <1>1, <1>2 DEF IInv, CacheInv, Lists, OfMirror, CurrentPageWhole, Reported
<1>. QED BY <1>2, <1>1, <1>3, <1>4, <1>5, LeaveRequests DEF IInv

\* A page that is served again is as new as the request is, and not newer
\* than the mirror; a page that is drawn is as old as the request.
LEMMA PageIInv ==
  ASSUME IInv, NEW r \in Requests, NEW n \in Counts, UsePage(r, n) \/ DrawPage(r, n)
  PROVE  IInv' /\ asked[r].version <= html'.version /\ html'.version <= version
<1>1. /\ UNCHANGED mirrorVars /\ UNCHANGED <<clone, commits, due>>
      /\ at[r] = "page" /\ Leave(r)
  BY DEF UsePage, DrawPage
<1>2. UNCHANGED <<mirror, version>>
  BY <1>1 DEF mirrorVars
<1>3. MirrorInv' /\ MirrorTypeOK'
  BY <1>1, MirrorKept DEF IInv
<1>4. /\ asked[r] \in HostStates /\ got[r] \in Metadata /\ html \in Page
      /\ asked[r].version \in Nat /\ got[r].version \in Nat /\ html.version \in Nat
      /\ version \in Nat
  <2>1. /\ asked[r] \in HostStates /\ got[r] \in Metadata /\ html \in Page
    BY DEF IInv, TypeOK
  <2>2. version \in Nat
    BY MirrorAssumption DEF IInv, MirrorInv, MirrorTypeOK
  <2>. QED BY <2>1, <2>2, VersionsInt DEF HostStates, Metadata, Page
<1>5. /\ asked[r].version <= got[r].version
      /\ OfMirror(asked[r].hosts, asked[r].version) /\ Lists(got[r])
  BY <1>1 DEF IInv, RequestInv
<1>6. /\ html' \in Page /\ html'.version \in Nat /\ asked[r].version <= html'.version
      /\ OfMirror(html.hosts, html.version)' /\ CurrentPageWhole'
  <2>1. CASE UsePage(r, n)
    <3>1. html' = html /\ html.version >= asked[r].version
      BY <2>1 DEF UsePage, PageValid
    <3>. QED BY <1>2, <1>4, <3>1 DEF IInv, CacheInv, OfMirror, CurrentPageWhole, Reported
  <2>2. CASE DrawPage(r, n)
    <3>1. html' = [version |-> asked[r].version, count |-> n, hosts |-> asked[r].hosts,
                   wanted |-> got[r].wanted, found |-> got[r].found]
      BY <2>2 DEF DrawPage
    <3>2. html' \in Page
      BY <1>4, <3>1 DEF Page, HostStates, Metadata
    <3>3. asked[r].version = version => got[r].version = version
      BY <1>4, <1>5 DEF Lists
    <3>4. html'.version = version' => html'.hosts = mirror' /\ html'.wanted = Reported(mirror)
      BY <1>2, <1>5, <3>1, <3>3 DEF OfMirror, Lists
    <3>. QED BY <1>2, <1>4, <1>5, <3>1, <3>2, <3>4 DEF OfMirror, CurrentPageWhole, Reported
  <2>. QED BY <2>1, <2>2
<1>7. html'.version <= version
  BY <1>2, <1>6 DEF OfMirror
<1>9. TypeOK'
  BY <1>1, <1>2, <1>3, <1>6, LeaveRequests DEF IInv, TypeOK
<1>10. CacheInv'
  BY <1>1, <1>2, <1>6 DEF IInv, CacheInv, Lists, Reported
<1>. QED BY <1>2, <1>1, <1>3, <1>6, <1>7, <1>9, <1>10, LeaveRequests DEF IInv

-----------------------------------------------------------------------------
(* The theorems.                                                           *)

LEMMA NextIInv == IInv /\ [Next]_vars => IInv'
<1>. SUFFICES ASSUME IInv, [Next]_vars PROVE IInv'
  OBVIOUS
<1>1. ASSUME NEW r \in Requests, Step(r) PROVE IInv'
  BY <1>1, AskIInv, AskAgainIInv, UseCommitsIInv, RefreshCommitsIInv, LeaveIInv, PageIInv DEF Step
<1>2. CASE MirrorNext /\ UNCHANGED pageVars
  BY <1>2, MirrorStepIInv
<1>3. CASE Fetch \/ Age
  BY <1>3, WorldIInv
<1>4. CASE UNCHANGED vars
  BY <1>4 DEF vars, mirrorVars, pageVars, requestVars, IInv, MirrorInv, MirrorTypeOK, Counted,
     NothingPending, MirrorTracks, Pending, TypeOK, CacheInv, RequestInv, Lists, OfMirror,
     CurrentPageWhole, Reported
<1>. QED BY <1>1, <1>2, <1>3, <1>4 DEF Next

THEOREM IInvHolds == Spec => []IInv
BY InitIInv, NextIInv, PTL DEF Spec

\* Every variable keeps its type; versions stay within what the bounds allow.
THEOREM DashboardTypeCorrect == Spec => []TypeOK
BY IInvHolds, PTL DEF IInv

\* Every key whose last change was told is what etcd holds, or will be once
\* the pending events are handled (etcd.rs).
THEOREM MirrorFollows == Spec => []MirrorTracks
<1>1. IInv => MirrorTracks
  BY DEF IInv, MirrorInv
<1>. QED BY <1>1, IInvHolds, PTL

\* A change of the mirror is a new version (etcd.rs).
THEOREM VersionsTell == Spec => VersionTellsChange
<1>1. IInv /\ [Next]_vars => [mirror' # mirror => version' > version]_mirrorVars
  <2>. SUFFICES ASSUME IInv, [Next]_vars, mirror' # mirror PROVE version' > version
    BY DEF mirrorVars
  <2>1. CASE MirrorNext
    BY <2>1, VersionMoves DEF IInv
  <2>2. CASE UNCHANGED mirrorVars
    BY <2>2 DEF mirrorVars
  <2>3. MirrorNext \/ UNCHANGED mirrorVars
    BY DEF Next, vars, Fetch, Age, Step, Ask, AskAgain, UseCommits, RefreshCommits, RefreshFails, UsePage,
       DrawPage, HangUp
  <2>. QED BY <2>1, <2>2, <2>3
<1>. QED BY <1>1, IInvHolds, PTL DEF Spec, VersionTellsChange

\* A page with the mirror's version shows the mirror (web.rs).
THEOREM CurrentPageIsWhole == Spec => []CurrentPageWhole
<1>1. IInv => CurrentPageWhole
  BY DEF IInv, CacheInv
<1>. QED BY <1>1, IInvHolds, PTL

\* A request is served host states the mirror had while it lasted (web.rs).
THEOREM RequestsServedInWindow == Spec => ServedInWindow
<1>1. ASSUME IInv, [Next]_vars
      PROVE  [\A r \in Requests, n \in Counts :
                UsePage(r, n) \/ DrawPage(r, n) =>
                  asked[r].version <= html'.version /\ html'.version <= version]_vars
  BY <1>1, PageIInv
<1>. QED BY <1>1, IInvHolds, PTL DEF Spec, ServedInWindow

-----------------------------------------------------------------------------
(* Timeline: least and greatest numbers.                                   *)

LEMMA LeastExists ==
  ASSUME NEW T \in SUBSET Nat, T # {}
  PROVE  \E t \in T : \A u \in T : t <= u
<1>1. PICK t \in T : \A u \in T : <<u, t>> \notin OpToRel(<, Nat)
  BY WFMin, NatLessThanWellFounded, Zenon
<1>2. \A u \in T : ~ (u < t)
  BY <1>1 DEF OpToRel
<1>. QED BY <1>2

LEMMA GreatestExists ==
  ASSUME NEW n \in Nat, NEW T \in SUBSET (0..n), T # {}
  PROVE  \E t \in T : \A u \in T : u <= t
<1>. DEFINE ups == {n - t : t \in T}
<1>1. ups \in SUBSET Nat /\ ups # {}
  <2>1. \A t \in T : n - t \in Nat
    OBVIOUS
  <2>. QED BY <2>1
<1>2. PICK u \in ups : \A v \in ups : u <= v
  BY <1>1, LeastExists
<1>3. PICK t \in T : u = n - t
  BY <1>2
<1>4. ASSUME NEW w \in T PROVE w <= t
  <2>1. u <= n - w
    BY <1>2
  <2>. QED BY <1>3, <2>1
<1>. QED BY <1>4

LEMMA MinIs ==
  ASSUME NEW T \in SUBSET Nat, T # {}
  PROVE  Min(T) \in T /\ \A u \in T : Min(T) <= u
BY LeastExists, Zenon DEF Min

LEMMA MaxIs ==
  ASSUME NEW n \in Nat, NEW T \in SUBSET (0..n), T # {}
  PROVE  Max(T) \in T /\ \A u \in T : u <= Max(T)
<1>1. \E t \in T : \A u \in T : t >= u
  <2>1. PICK t \in T : \A u \in T : u <= t
    BY GreatestExists
  <2>. QED BY <2>1
<1>. QED BY <1>1, Zenon DEF Max

-----------------------------------------------------------------------------
(* Timeline: what leads down leads somewhere.                              *)

Downwards(S, next) ==
  next \in [S -> SUBSET S] /\ \A c \in S : \A d \in next[c] : d < c

LEMMA ReachedIs ==
  ASSUME NEW m \in Nat, NEW S \in SUBSET (0..m), NEW next, Downwards(S, next)
  PROVE  Reached(next) = [c \in S |-> {c} \cup UNION {Reached(next)[d] : d \in next[c]}]
<1>. DEFINE To(n) == {c \in S : c < n}
            Good(f, n) == f = [c \in To(n) |-> {c} \cup UNION {f[d] : d \in next[c]}]
            bad == {n \in Nat : ~ \E f : Good(f, n)}
<1>1. \A c \in S : next[c] \subseteq S /\ c \in Nat /\ \A d \in next[c] : d < c /\ d \in Nat
  BY DEF Downwards
<1>2. bad = {}
  <2>. SUFFICES ASSUME bad # {} PROVE FALSE
    OBVIOUS
  <2>1. PICK n \in bad : \A k \in bad : n <= k
    BY LeastExists
  <2>2. n \in Nat /\ ~ \E f : Good(f, n)
    BY <2>1
  <2>3. CASE n = 0
    <3>1. \A c \in S : ~ (c < n)
      BY <2>3, <1>1
    <3>0. To(n) = {}
      BY <3>1
    <3>2. Good([c \in {} |-> {}], n)
      BY <3>0
    <3>. QED BY <2>2, <3>2
  <2>4. CASE n # 0
    <3>1. n - 1 \in Nat /\ ~ (n <= n - 1)
      BY <2>2, <2>4
    <3>2. n - 1 \notin bad
      BY <2>1, <3>1
    <3>3. PICK f : Good(f, n - 1)
      BY <3>1, <3>2
    <3>. DEFINE down(c) == {c} \cup UNION {f[d] : d \in next[c]}
                g == [c \in To(n) |-> IF c < n - 1 THEN f[c] ELSE down(c)]
    <3>4. \A c \in To(n - 1) : c \in To(n) /\ f[c] = down(c) /\ g[c] = f[c]
      BY <3>1, <3>3, <1>1
    <3>5. \A c \in To(n) : g[c] = down(c)
      <4>. SUFFICES ASSUME NEW c \in To(n) PROVE g[c] = down(c)
        OBVIOUS
      <4>1. CASE c < n - 1
        BY <4>1, <3>4
      <4>2. CASE ~ (c < n - 1)
        BY <4>2
      <4>. QED BY <4>1, <4>2
    <3>6. \A c \in To(n) : \A d \in next[c] : d \in To(n - 1)
      <4>. SUFFICES ASSUME NEW c \in S, c < n, NEW d \in next[c] PROVE d \in S /\ d < n - 1
        OBVIOUS
      <4>1. d \in S /\ d \in Nat /\ c \in Nat /\ d < c
        BY <1>1
      <4>2. n \in Nat
        BY <2>2
      <4>. QED BY <4>1, <4>2
    <3>7. \A c \in To(n) : {g[d] : d \in next[c]} = {f[d] : d \in next[c]}
      BY <3>4, <3>6
    <3>8. DOMAIN g = To(n) /\ \A c \in To(n) : g[c] = {c} \cup UNION {g[d] : d \in next[c]}
      BY <3>5, <3>7
    <3>. HIDE DEF g
    <3>9. g = [c \in To(n) |-> g[c]]
      BY DEF g
    <3>10. Good(g, n)
      BY <3>8, <3>9
    <3>. QED BY <2>2, <3>10
  <2>. QED BY <2>3, <2>4
<1>3. PICK f : Good(f, m + 1)
  <2>1. m + 1 \in Nat
    OBVIOUS
  <2>2. m + 1 \notin bad
    BY <1>2
  <2>. HIDE DEF Good
  <2>. QED BY <2>1, <2>2
<1>4. To(m + 1) = S
  <2>1. \A c \in S : c < m + 1
    <3>1. \A c \in S : c \in 0..m
      OBVIOUS
    <3>. QED BY <3>1
  <2>. QED BY <2>1
<1>5. \E h : h = [c \in S |-> {c} \cup UNION {h[d] : d \in next[c]}]
  BY <1>3, <1>4
<1>6. DOMAIN next = S
  BY DEF Downwards
<1>7. Reached(next) = CHOOSE h : h = [c \in S |-> {c} \cup UNION {h[d] : d \in next[c]}]
  BY <1>6 DEF Reached
<1>. DEFINE Is(h) == h = [c \in S |-> {c} \cup UNION {h[d] : d \in next[c]}]
<1>8. (\E h : Is(h)) /\ Reached(next) = CHOOSE h : Is(h)
  BY <1>5, <1>7
<1>. HIDE DEF Is
<1>9. Is(Reached(next))
  BY <1>8, Zenon
<1>. QED BY <1>9 DEF Is

LEMMA ReachedParts ==
  ASSUME NEW m \in Nat, NEW S \in SUBSET (0..m), NEW next, Downwards(S, next)
  PROVE  /\ DOMAIN Reached(next) = S
         /\ \A c \in S : /\ c \in Reached(next)[c] /\ Reached(next)[c] \subseteq S
                         /\ \A b \in Reached(next)[c] : b <= c
                         /\ \A b \in Reached(next)[c] : b # c => \E d \in next[c] : b \in Reached(next)[d]
                         /\ \A b \in Reached(next)[c] : Reached(next)[b] \subseteq Reached(next)[c]
                         /\ next[c] \subseteq Reached(next)[c]
<1>. DEFINE R == Reached(next)
<1>1. R = [c \in S |-> {c} \cup UNION {R[d] : d \in next[c]}]
  BY ReachedIs
<1>. HIDE DEF R
<1>2. \A c \in S : next[c] \subseteq S /\ c \in Nat /\ \A d \in next[c] : d < c /\ d \in Nat /\ d \in S
  BY DEF Downwards
<1>3. \A c \in S : R[c] = {c} \cup UNION {R[d] : d \in next[c]}
  BY <1>1
<1>4. \A c \in S : c \in R[c] /\ \A b \in R[c] : b = c \/ \E d \in next[c] : b \in R[d]
  BY <1>3
<1>5. \A c \in S : \A d \in next[c] : R[d] \subseteq R[c] /\ d \in R[c]
  BY <1>2, <1>3, <1>4
<1>6. \A c \in S : R[c] \subseteq S /\ \A b \in R[c] : b <= c
  <2>. DEFINE bad == {c \in S : ~ (R[c] \subseteq S /\ \A b \in R[c] : b <= c)}
  <2>. SUFFICES ASSUME bad # {} PROVE FALSE
    OBVIOUS
  <2>1. bad \in SUBSET Nat
    BY <1>2
  <2>2. PICK c \in bad : \A k \in bad : c <= k
    BY <2>1, LeastExists
  <2>3. \A d \in next[c] : d \in S /\ d \notin bad /\ d < c /\ c \in Nat /\ d \in Nat
    BY <1>2, <2>2
  <2>4. \A d \in next[c] : R[d] \subseteq S /\ \A b \in R[d] : b <= d
    BY <2>3
  <2>5. ASSUME NEW b \in R[c] PROVE b \in S /\ b <= c
    <3>1. CASE b = c
      BY <3>1, <1>2
    <3>2. CASE b # c
      <4>1. PICK d \in next[c] : b \in R[d]
        BY <3>2, <1>4
      <4>2. b \in S /\ b <= d /\ d < c /\ c \in Nat /\ d \in Nat
        BY <4>1, <2>3, <2>4
      <4>. QED BY <4>2, <1>2
    <3>. QED BY <3>1, <3>2
  <2>. QED BY <2>2, <2>5
<1>7. \A c \in S : \A b \in R[c] : R[b] \subseteq R[c]
  <2>. DEFINE bad == {c \in S : ~ \A b \in R[c] : R[b] \subseteq R[c]}
  <2>. SUFFICES ASSUME bad # {} PROVE FALSE
    OBVIOUS
  <2>1. bad \in SUBSET Nat
    BY <1>2
  <2>2. PICK c \in bad : \A k \in bad : c <= k
    BY <2>1, LeastExists
  <2>3. \A d \in next[c] : d \in S /\ d \notin bad
    <3>1. \A d \in next[c] : d \in S /\ d < c /\ c \in Nat /\ d \in Nat
      BY <1>2, <2>2
    <3>. HIDE DEF bad
    <3>. QED BY <2>2, <3>1
  <2>4. ASSUME NEW b \in R[c] PROVE R[b] \subseteq R[c]
    <3>1. CASE b # c
      <4>1. PICK d \in next[c] : b \in R[d]
        BY <3>1, <1>4
      <4>2. R[b] \subseteq R[d]
        BY <4>1, <2>3
      <4>. QED BY <4>1, <4>2, <1>5
    <3>. QED BY <3>1
  <2>. QED BY <2>2, <2>4
<1>. QED BY <1>1, <1>4, <1>5, <1>6, <1>7 DEF R

-----------------------------------------------------------------------------
(* Timeline: sorting.                                                      *)

Keys2(S, key) ==
  /\ DOMAIN key = S
  /\ \A x \in S : key[x][1] \in Int /\ key[x][2] \in Int
  /\ \A x, y \in S : key[x][1] = key[y][1] /\ key[x][2] = key[y][2] => x = y

LEMMA SortedIs ==
  ASSUME NEW S, IsFiniteSet(S), NEW key, Keys2(S, key)
  PROVE  /\ Cardinality(S) \in Nat /\ DOMAIN Sorted(key) = 1..Cardinality(S)
         /\ Sorted(key) = [i \in 1..Cardinality(S) |-> Sorted(key)[i]]
         /\ IsInjective(Sorted(key)) /\ Range(Sorted(key)) = S
<1>. DEFINE n == Cardinality(S)
            before(x) == {y \in S : Before(key[y], key[x])}
            rank == [x \in S |-> Cardinality(before(x))]
            s == Sorted(key)
<1>0. n \in Nat
  BY FS_CardinalityType
<1>1. \A x \in S : /\ before(x) \subseteq S \ {x}
                   /\ IsFiniteSet(before(x)) /\ rank[x] \in 0..n - 1
  <2>. SUFFICES ASSUME NEW x \in S
                PROVE  before(x) \subseteq S \ {x} /\ IsFiniteSet(before(x)) /\ rank[x] \in 0..n - 1
    OBVIOUS
  <2>1. before(x) \subseteq S \ {x}
    BY DEF Before, Keys2
  <2>2. IsFiniteSet(S \ {x}) /\ Cardinality(S \ {x}) = n - 1
    BY FS_RemoveElement
  <2>. HIDE DEF before
  <2>3. IsFiniteSet(before(x)) /\ Cardinality(before(x)) <= n - 1
    BY <2>1, <2>2, FS_Subset
  <2>4. Cardinality(before(x)) \in Nat
    BY <2>3, FS_CardinalityType
  <2>. QED BY <2>1, <2>3, <2>4, <1>0
<1>2. \A x, y \in S : Before(key[x], key[y]) => rank[x] # rank[y]
  <2>. SUFFICES ASSUME NEW x \in S, NEW y \in S, Before(key[x], key[y]) PROVE rank[x] # rank[y]
    OBVIOUS
  <2>1. before(x) \subseteq before(y) /\ x \in before(y) /\ x \notin before(x)
    BY DEF Before, Keys2
  <2>. HIDE DEF before
  <2>2. Cardinality(before(x)) # Cardinality(before(y))
    BY <2>1, <1>1, FS_Subset
  <2>. QED BY <2>2
<1>3. \A x, y \in S : x # y => Before(key[x], key[y]) \/ Before(key[y], key[x])
  BY DEF Before, Keys2
<1>4. rank \in Injection(S, 0..n - 1)
  <2>1. rank \in [S -> 0..n - 1]
    BY <1>1
  <2>2. \A x, y \in S : rank[x] = rank[y] => x = y
    BY <1>2, <1>3
  <2>. HIDE DEF rank
  <2>. QED BY <2>1, <2>2 DEF Injection, IsInjective
<1>5. \A k \in 0..n - 1 : \E x \in S : rank[x] = k
  <2>1. IsFiniteSet(0..n - 1) /\ Cardinality(0..n - 1) = n
    BY <1>0, FS_Interval
  <2>. HIDE DEF rank
  <2>2. rank \in Surjection(S, 0..n - 1)
    BY <1>4, <2>1, FS_Injection
  <2>. QED BY <2>2 DEF Surjection
<1>6. s = [i \in 1..n |-> CHOOSE x \in S : Cardinality(before(x)) = i - 1]
  BY DEF Sorted, Keys2
<1>11. \A x \in S : rank[x] = Cardinality(before(x))
  OBVIOUS
<1>. HIDE DEF rank, before, s
<1>7. \A i \in 1..n : s[i] \in S /\ rank[s[i]] = i - 1
  <2>. SUFFICES ASSUME NEW i \in 1..n PROVE s[i] \in S /\ rank[s[i]] = i - 1
    OBVIOUS
  <2>1. i - 1 \in 0..n - 1
    BY <1>0
  <2>2. \E x \in S : Cardinality(before(x)) = i - 1
    BY <1>5, <1>11, <2>1
  <2>3. s[i] = CHOOSE x \in S : Cardinality(before(x)) = i - 1
    BY <1>6
  <2>4. s[i] \in S /\ Cardinality(before(s[i])) = i - 1
    BY <2>2, <2>3, Zenon
  <2>. QED BY <2>4, <1>11
<1>8. DOMAIN s = 1..n
  BY <1>6
<1>9. IsInjective(s)
  <2>. SUFFICES ASSUME NEW i \in 1..n, NEW j \in 1..n, s[i] = s[j] PROVE i = j
    BY <1>8 DEF IsInjective
  <2>1. i - 1 = j - 1
    BY <1>7
  <2>. QED BY <2>1, <1>0
<1>10. Range(s) = S
  <2>1. ASSUME NEW x \in S PROVE \E i \in 1..n : s[i] = x
    <3>1. rank[x] \in 0..n - 1
      BY <1>1
    <3>2. rank[x] + 1 \in 1..n /\ (rank[x] + 1) - 1 = rank[x]
      BY <3>1, <1>0
    <3>3. rank[s[rank[x] + 1]] = rank[x] /\ s[rank[x] + 1] \in S
      BY <1>7, <3>2
    <3>4. \A y, z \in S : rank[y] = rank[z] => y = z
      BY <1>4 DEF Injection, IsInjective
    <3>. QED BY <3>2, <3>3, <3>4
  <2>. QED BY <1>7, <1>8, <2>1 DEF Range
<1>12. s = [i \in 1..n |-> s[i]]
  BY <1>6, <1>8
<1>. QED BY <1>0, <1>8, <1>9, <1>10, <1>12 DEF s

-----------------------------------------------------------------------------
(* Timeline: the repository's graph and what is shown of it.               *)

GraphOK ==
  /\ \A c \in Repo : DOMAIN parentsOf[c] \in SUBSET Nat /\ Range(parentsOf[c]) \subseteq 1..(c - 1)
  /\ tipIs \in Repo /\ skew \in 0..(Size - 1) /\ deployed \in SUBSET (1..(Size + 1))

LEMMA RepoIs == Size \in Nat /\ Repo \in SUBSET (0..Size) /\ \A c \in Repo : c \in Nat /\ c # 0
BY TimelineAssumption DEF Repo

LEMMA UpParts ==
  ASSUME GraphOK
  PROVE  \A c \in Repo : /\ c \in Up[c] /\ Up[c] \subseteq Repo
                         /\ \A b \in Up[c] : b <= c
                         /\ \A b \in Up[c] : b # c => \E i \in DOMAIN parentsOf[c] : b \in Up[parentsOf[c][i]]
                         /\ \A b \in Up[c] : Up[b] \subseteq Up[c]
<1>. DEFINE next == [c \in Repo |-> Range(parentsOf[c])]
<1>1. \A c \in Repo : Range(parentsOf[c]) \subseteq Repo /\ \A d \in Range(parentsOf[c]) : d < c
  <2>. SUFFICES ASSUME NEW c \in Repo, NEW d \in Range(parentsOf[c]) PROVE d \in Repo /\ d < c
    OBVIOUS
  <2>1. d \in 1..(c - 1)
    BY DEF GraphOK
  <2>. QED BY <2>1, TimelineAssumption DEF Repo
<1>2. Downwards(Repo, next)
  BY <1>1 DEF Downwards
<1>3. Up = Reached(next)
  BY DEF Up
<1>4. \A c \in Repo : \A d \in next[c] : \E i \in DOMAIN parentsOf[c] : d = parentsOf[c][i]
  BY DEF Range
<1>. HIDE DEF next
<1>. DEFINE R == Reached(next)
<1>5. \A c \in Repo : /\ c \in R[c] /\ R[c] \subseteq Repo
                      /\ \A b \in R[c] : b <= c
                      /\ \A b \in R[c] : b # c => \E d \in next[c] : b \in R[d]
                      /\ \A b \in R[c] : R[b] \subseteq R[c]
  <2>1. Size \in Nat /\ Repo \in SUBSET (0..Size)
    BY RepoIs
  <2>. HIDE DEF Downwards
  <2>. QED BY <1>2, <2>1, ReachedParts
<1>6. Up = R
  BY <1>3
<1>. HIDE DEF R
<1>. QED BY <1>4, <1>5, <1>6

LEMMA InitialIs ==
  ASSUME GraphOK
  PROVE  Initial \in Up[tipIs]
<1>1. \A c \in Up[tipIs] : Time(c) \in Nat
  <2>1. \A c \in Up[tipIs] : c \in Nat
    BY UpParts, RepoIs DEF GraphOK
  <2>2. skew \in Nat
    BY RepoIs DEF GraphOK
  <2>. QED BY <2>1, <2>2 DEF Time
<1>2. tipIs \in Up[tipIs]
  BY UpParts DEF GraphOK
<1>. DEFINE times == {Time(c) : c \in Up[tipIs]}
<1>3. times \in SUBSET Nat /\ times # {}
  BY <1>1, <1>2
<1>4. PICK t \in times : \A u \in times : t <= u
  BY <1>3, LeastExists
<1>5. \E c \in Up[tipIs] : \A d \in Up[tipIs] : Time(c) <= Time(d)
  BY <1>4
<1>. QED BY <1>5, Zenon DEF Initial

LEMMA MergeBaseIs ==
  ASSUME GraphOK, NEW c \in Repo
  PROVE  /\ MergeBases(c) \subseteq Up[c] \cap Up[tipIs]
         /\ Up[c] \cap Up[tipIs] # {} => MergeBases(c) # {}
<1>. DEFINE common == Up[c] \cap Up[tipIs]
            best == {b \in common : \A d \in common : b \in Up[d] => d = b}
<1>1. MergeBases(c) = IF best = {} THEN {} ELSE {CHOOSE b \in best : TRUE}
  BY DEF MergeBases
<1>2. ASSUME common # {} PROVE best # {}
  <2>1. common \in SUBSET (0..Size) /\ common \in SUBSET Repo
    BY UpParts, RepoIs
  <2>2. PICK b \in common : \A u \in common : u <= b
    BY <2>1, <1>2, RepoIs, GreatestExists
  <2>3. \A d \in common : b \in Up[d] => d = b
    <3>. SUFFICES ASSUME NEW d \in common, b \in Up[d] PROVE d = b
      OBVIOUS
    <3>1. d \in Nat /\ b \in Nat /\ d \in Repo
      BY <2>1, RepoIs
    <3>2. b <= d /\ d <= b
      BY <2>2, <3>1, UpParts
    <3>. QED BY <3>1, <3>2
  <2>. QED BY <2>2, <2>3
<1>3. best \subseteq common
  OBVIOUS
<1>. HIDE DEF best
<1>4. best # {} => (CHOOSE b \in best : TRUE) \in best
  OBVIOUS
<1>. QED BY <1>1, <1>2, <1>3, <1>4

LEMMA ShownIs ==
  ASSUME GraphOK
  PROVE  /\ Shown \in SUBSET (1..(Size + 1)) /\ deployed \subseteq Shown /\ tipIs \in Shown
         /\ \A a \in deployed \cap Repo : Up[a] \cap Up[tipIs] # {} => \E b \in Shown : b \in Up[a] /\ b \in Up[tipIs]
<1>. DEFINE seen == deployed \cup {tipIs, Initial}
<1>1. Shown = seen \cup UNION {MergeBases(c) : c \in seen \cap Repo}
  BY DEF Shown
<1>2. Repo \subseteq 1..(Size + 1)
  BY RepoIs DEF Repo
<1>3. seen \subseteq 1..(Size + 1)
  BY <1>2, InitialIs, UpParts DEF GraphOK
<1>. HIDE DEF seen
<1>4. \A c \in seen \cap Repo : MergeBases(c) \subseteq 1..(Size + 1) /\ MergeBases(c) \subseteq Shown
  <2>. SUFFICES ASSUME NEW c \in seen \cap Repo PROVE MergeBases(c) \subseteq 1..(Size + 1) /\ MergeBases(c) \subseteq Shown
    OBVIOUS
  <2>1. MergeBases(c) \subseteq Up[c] /\ Up[c] \subseteq Repo
    BY MergeBaseIs, UpParts
  <2>2. MergeBases(c) \subseteq 1..(Size + 1)
    BY <1>2, <2>1
  <2>3. MergeBases(c) \subseteq Shown
    BY <1>1
  <2>. QED BY <2>2, <2>3
<1>5. deployed \subseteq seen /\ tipIs \in seen
  BY DEF seen
<1>6. ASSUME NEW a \in deployed \cap Repo, Up[a] \cap Up[tipIs] # {}
      PROVE  \E b \in Shown : b \in Up[a] /\ b \in Up[tipIs]
  BY <1>4, <1>5, <1>6, MergeBaseIs
<1>. QED BY <1>1, <1>3, <1>4, <1>5, <1>6

-----------------------------------------------------------------------------
(* Timeline: the edges.                                                    *)

\* Each shown commit's edges lead to the nearest shown ancestors.
EdgesOK(es) ==
  /\ DOMAIN es \in SUBSET (1..(Size + 1))
  /\ \A c \in DOMAIN es :
       /\ es[c] \in Seq([target : Repo \cap DOMAIN es, elided : BOOLEAN])
       /\ \A i, j \in DOMAIN es[c] : es[c][i].target = es[c][j].target => i = j
       /\ \A i \in DOMAIN es[c] : es[c][i].target < c
       /\ EdgeTargets(es, c) = IF c \in Repo THEN Nearest(c, DOMAIN es \cap Repo) ELSE {}

LEMMA NearestIs ==
  ASSUME GraphOK, NEW c \in Repo, NEW shown \in SUBSET Repo
  PROVE  /\ Nearest(c, shown) \in SUBSET shown
         /\ \A b \in Nearest(c, shown) : b \in Up[c] /\ b < c
         /\ \A b \in Nearest(c, shown) : Via(c, b) \in Nat
<1>1. \A b \in Nearest(c, shown) : b \in shown /\ b \in Up[c] /\ b # c
  BY DEF Nearest
<1>2. \A b \in Nearest(c, shown) : b < c
  <2>. SUFFICES ASSUME NEW b \in Nearest(c, shown) PROVE b < c
    OBVIOUS
  <2>1. b <= c /\ b # c /\ b \in Nat /\ c \in Nat
    BY <1>1, UpParts, RepoIs
  <2>. QED BY <2>1
<1>3. \A b \in Nearest(c, shown) : Via(c, b) \in Nat
  <2>. SUFFICES ASSUME NEW b \in Nearest(c, shown) PROVE Via(c, b) \in Nat
    OBVIOUS
  <2>. DEFINE through == {i \in DOMAIN parentsOf[c] : b \in Up[parentsOf[c][i]]}
  <2>1. through # {}
    BY <1>1, UpParts
  <2>2. through \in SUBSET Nat
    BY DEF GraphOK
  <2>. HIDE DEF through
  <2>3. Min(through) \in through
    BY <2>1, <2>2, MinIs
  <2>. QED BY <2>2, <2>3 DEF Via, through
<1>. QED BY <1>1, <1>2, <1>3

LEMMA GraphParentsAre ==
  ASSUME GraphOK, NEW c \in Repo, NEW shown \in SUBSET Repo
  PROVE  LET s == GraphParents(c, shown) IN
         /\ s \in Seq([target : shown, elided : BOOLEAN])
         /\ \A i, j \in DOMAIN s : s[i].target = s[j].target => i = j
         /\ \A i \in DOMAIN s : s[i].target < c
         /\ {s[i].target : i \in DOMAIN s} = Nearest(c, shown)
<1>. DEFINE N == Nearest(c, shown)
            key == [b \in N |-> <<Via(c, b), b>>]
            ranked == Sorted(key)
            s == GraphParents(c, shown)
<1>1. N \in SUBSET shown /\ N \in SUBSET (0..Size) /\ (\A b \in N : b < c /\ Via(c, b) \in Int /\ b \in Int)
  <2>1. N \in SUBSET shown /\ \A b \in N : b < c /\ Via(c, b) \in Nat
    BY NearestIs
  <2>. HIDE DEF N
  <2>2. N \in SUBSET Repo
    BY <2>1
  <2>3. N \in SUBSET (0..Size) /\ \A b \in N : b \in Int
    BY <2>2, RepoIs
  <2>. QED BY <2>1, <2>3
<1>2. IsFiniteSet(N)
  <2>1. IsFiniteSet(0..Size)
    BY RepoIs, FS_Interval
  <2>. HIDE DEF N
  <2>. QED BY <1>1, <2>1, FS_Subset
<1>3. Keys2(N, key)
  <2>. HIDE DEF N
  <2>. QED BY <1>1 DEF Keys2
<1>4. s = [i \in DOMAIN ranked |-> [target |-> ranked[i], elided |-> ranked[i] \notin Range(parentsOf[c])]]
  BY DEF GraphParents
<1>. HIDE DEF N, key, s
<1>5. Cardinality(N) \in Nat /\ DOMAIN ranked = 1..Cardinality(N) /\ IsInjective(ranked) /\ Range(ranked) = N
  BY <1>2, <1>3, SortedIs
<1>. HIDE DEF ranked
<1>6. \A i \in DOMAIN ranked : ranked[i] \in N
  BY <1>5 DEF Range
<1>7. DOMAIN s = 1..Cardinality(N) /\ \A i \in DOMAIN s : s[i] \in [target : shown, elided : BOOLEAN] /\ s[i].target = ranked[i]
  BY <1>1, <1>4, <1>5, <1>6
<1>8. s \in Seq([target : shown, elided : BOOLEAN])
  <2>1. s = [i \in 1..Cardinality(N) |-> s[i]]
    BY <1>4, <1>5
  <2>. DEFINE T == [target : shown, elided : BOOLEAN]
  <2>2. \A i \in 1..Cardinality(N) : s[i] \in T
    BY <1>7
  <2>. HIDE DEF T
  <2>3. s \in [1..Cardinality(N) -> T]
    BY <2>1, <2>2
  <2>4. s \in Seq(T)
    BY <2>3, <1>5
  <2>. QED BY <2>4 DEF T
<1>9. \A i, j \in DOMAIN s : s[i].target = s[j].target => i = j
  BY <1>5, <1>7 DEF IsInjective
<1>10. \A i \in DOMAIN s : s[i].target < c
  BY <1>1, <1>5, <1>6, <1>7
<1>11. {s[i].target : i \in DOMAIN s} = N
  <2>1. \A i \in DOMAIN s : s[i].target \in N
    BY <1>5, <1>6, <1>7
  <2>2. \A b \in N : \E i \in DOMAIN s : s[i].target = b
    BY <1>5, <1>7 DEF Range
  <2>. QED BY <2>1, <2>2
<1>. QED BY <1>8, <1>9, <1>10, <1>11 DEF s, N

LEMMA EdgesAreOK ==
  ASSUME GraphOK
  PROVE  DOMAIN Edges(Shown) = Shown /\ EdgesOK(Edges(Shown))
<1>. DEFINE es == Edges(Shown)
            T == [target : Repo \cap Shown, elided : BOOLEAN]
<1>1. DOMAIN es = Shown /\ Shown \in SUBSET (1..(Size + 1)) /\ \A c \in Shown : es[c] = IF c \in Repo THEN GraphParents(c, Shown \cap Repo) ELSE <<>>
  BY ShownIs DEF Edges
<1>. HIDE DEF es
<1>2. ASSUME NEW c \in Shown
      PROVE  /\ es[c] \in Seq([target : Repo \cap Shown, elided : BOOLEAN])
             /\ \A i, j \in DOMAIN es[c] : es[c][i].target = es[c][j].target => i = j
             /\ \A i \in DOMAIN es[c] : es[c][i].target < c
             /\ EdgeTargets(es, c) = IF c \in Repo THEN Nearest(c, Shown \cap Repo) ELSE {}
  <2>1. CASE c \in Repo
    <3>1. es[c] = GraphParents(c, Shown \cap Repo) /\ Shown \cap Repo \in SUBSET Repo /\ Shown \cap Repo = Repo \cap Shown
      BY <1>1, <2>1
    <3>. DEFINE shown == Shown \cap Repo
                s == GraphParents(c, shown)
    <3>2. shown \in SUBSET Repo /\ Repo \cap Shown = shown
      OBVIOUS
    <3>3. /\ s \in Seq([target : shown, elided : BOOLEAN])
          /\ \A i, j \in DOMAIN s : s[i].target = s[j].target => i = j
          /\ \A i \in DOMAIN s : s[i].target < c
          /\ {s[i].target : i \in DOMAIN s} = Nearest(c, shown)
      <4>. HIDE DEF shown
      <4>. QED BY <2>1, <3>2, GraphParentsAre
    <3>4. es[c] = s
      BY <3>1
    <3>. HIDE DEF s
    <3>5. es[c] \in Seq([target : Repo \cap Shown, elided : BOOLEAN])
      BY <3>2, <3>3, <3>4
    <3>6. /\ \A i, j \in DOMAIN es[c] : es[c][i].target = es[c][j].target => i = j
          /\ \A i \in DOMAIN es[c] : es[c][i].target < c
      BY <3>3, <3>4
    <3>7. EdgeTargets(es, c) = Nearest(c, shown)
      BY <3>3, <3>4 DEF EdgeTargets
    <3>. QED BY <2>1, <3>5, <3>6, <3>7
  <2>2. CASE c \notin Repo
    <3>1. es[c] = <<>> /\ DOMAIN es[c] = {}
      BY <1>1, <2>2
    <3>. QED BY <2>2, <3>1 DEF EdgeTargets
  <2>. QED BY <2>1, <2>2
<1>3. EdgesOK(es)
  BY <1>1, <1>2 DEF EdgesOK
<1>. QED BY <1>1, <1>3 DEF es

-----------------------------------------------------------------------------
(* Timeline: what is shown descends from one another as in the repository. *)

EdgesDown == [c \in DOMAIN edges |-> EdgeTargets(edges, c)]

LEMMA EdgesLeadDown ==
  ASSUME EdgesOK(edges)
  PROVE  /\ DOMAIN edges \in SUBSET (0..(Size + 1)) /\ Size + 1 \in Nat
         /\ Downwards(DOMAIN edges, EdgesDown)
         /\ \A c \in DOMAIN edges : \A d \in EdgesDown[c] : d \in Repo /\ d \in DOMAIN edges /\ d < c
<1>1. ASSUME NEW c \in DOMAIN edges, NEW d \in EdgeTargets(edges, c) PROVE d \in Repo /\ d \in DOMAIN edges /\ d < c
  <2>1. PICK i \in DOMAIN edges[c] : d = edges[c][i].target
    BY DEF EdgeTargets
  <2>. DEFINE T == [target : Repo \cap DOMAIN edges, elided : BOOLEAN]
  <2>2. edges[c] \in Seq(T) /\ edges[c][i].target < c
    BY DEF EdgesOK
  <2>. HIDE DEF T
  <2>3. edges[c][i] \in T
    BY <2>2
  <2>. QED BY <2>1, <2>2, <2>3 DEF T
<1>2. EdgesDown \in [DOMAIN edges -> SUBSET DOMAIN edges]
  BY <1>1 DEF EdgesDown
<1>3. \A c \in DOMAIN edges : EdgesDown[c] = EdgeTargets(edges, c)
  BY DEF EdgesDown
<1>4. DOMAIN edges \in SUBSET (0..(Size + 1)) /\ Size + 1 \in Nat
  BY RepoIs DEF EdgesOK
<1>. QED BY <1>1, <1>2, <1>3, <1>4 DEF Downwards

Reaches(a, b) == b \in Drawn[a]

LEMMA ReachesIs ==
  ASSUME EdgesOK(edges)
  PROVE  \A a \in DOMAIN edges :
           /\ Reaches(a, a)
           /\ \A b : Reaches(a, b) /\ b # a => \E d \in EdgeTargets(edges, a) : Reaches(d, b)
           /\ \A d \in EdgeTargets(edges, a) : \A b : Reaches(d, b) => Reaches(a, b)
<1>. DEFINE R == Reached(EdgesDown)
<1>1. \A a, b : Reaches(a, b) <=> b \in R[a]
  BY DEF Reaches, Drawn, EdgesDown
<1>2. \A c \in DOMAIN edges : EdgesDown[c] = EdgeTargets(edges, c)
  BY DEF EdgesDown
<1>3. \A c \in DOMAIN edges : /\ c \in R[c]
                              /\ \A b \in R[c] : b # c => \E d \in EdgesDown[c] : b \in R[d]
                              /\ \A b \in R[c] : R[b] \subseteq R[c]
                              /\ EdgesDown[c] \subseteq R[c]
  <2>. DEFINE S == DOMAIN edges
              m == Size + 1
  <2>1. S \in SUBSET (0..m) /\ m \in Nat /\ Downwards(S, EdgesDown)
    BY EdgesLeadDown
  <2>. HIDE DEF S, m
  <2>2. \A c \in S : /\ c \in R[c]
                     /\ \A b \in R[c] : b # c => \E d \in EdgesDown[c] : b \in R[d]
                     /\ \A b \in R[c] : R[b] \subseteq R[c]
                     /\ EdgesDown[c] \subseteq R[c]
    BY <2>1, ReachedParts
  <2>. QED BY <2>2 DEF S
<1>. HIDE DEF R
<1>. SUFFICES ASSUME NEW a \in DOMAIN edges
              PROVE  /\ Reaches(a, a)
                     /\ \A b : Reaches(a, b) /\ b # a => \E d \in EdgeTargets(edges, a) : Reaches(d, b)
                     /\ \A d \in EdgeTargets(edges, a) : \A b : Reaches(d, b) => Reaches(a, b)
  OBVIOUS
<1>4. Reaches(a, a)
  BY <1>1, <1>3
<1>5. ASSUME NEW b, Reaches(a, b), b # a PROVE \E d \in EdgeTargets(edges, a) : Reaches(d, b)
  <2>1. b \in R[a]
    BY <1>1, <1>5
  <2>2. PICK d \in EdgesDown[a] : b \in R[d]
    BY <1>3, <1>5, <2>1
  <2>. QED BY <1>1, <1>2, <2>2
<1>6. ASSUME NEW d \in EdgeTargets(edges, a), NEW b, Reaches(d, b) PROVE Reaches(a, b)
  <2>1. b \in R[d] /\ d \in EdgesDown[a]
    BY <1>1, <1>2, <1>6
  <2>2. EdgesDown[a] \subseteq R[a] /\ \A c \in R[a] : R[c] \subseteq R[a]
    BY <1>3
  <2>3. d \in R[a]
    BY <2>1, <2>2
  <2>4. R[d] \subseteq R[a]
    BY <2>2, <2>3, Zenon
  <2>. QED BY <1>1, <2>1, <2>4
<1>. QED BY <1>4, <1>5, <1>6

LEMMA OnlyAncestors ==
  ASSUME GraphOK, EdgesOK(edges)
  PROVE  \A a \in DOMAIN edges \cap Repo : \A b : Reaches(a, b) => b \in Up[a]
<1>. DEFINE bad == {a \in DOMAIN edges \cap Repo : ~ \A b : Reaches(a, b) => b \in Up[a]}
<1>. SUFFICES ASSUME bad # {} PROVE FALSE
  OBVIOUS
<1>1. bad \in SUBSET Nat
  BY RepoIs
<1>2. PICK a \in bad : \A k \in bad : a <= k
  BY <1>1, LeastExists
<1>3. \A d \in EdgeTargets(edges, a) : d \in Up[a] /\ d < a /\ d \in DOMAIN edges \cap Repo
  <2>1. EdgeTargets(edges, a) = Nearest(a, DOMAIN edges \cap Repo)
    BY DEF EdgesOK
  <2>2. DOMAIN edges \cap Repo \in SUBSET Repo /\ a \in Repo
    OBVIOUS
  <2>. QED BY <2>1, <2>2, NearestIs
<1>4. \A d \in EdgeTargets(edges, a) : d \notin bad
  <2>. HIDE DEF bad
  <2>0. a \in Nat /\ \A d \in EdgeTargets(edges, a) : d \in Nat
    BY <1>3, <1>2, <1>1, RepoIs
  <2>1. \A d \in EdgeTargets(edges, a) : ~ (a <= d)
    BY <1>3, <2>0
  <2>. QED BY <1>2, <2>1
<1>5. ASSUME NEW b, Reaches(a, b) PROVE b \in Up[a]
  <2>1. CASE b = a
    BY <2>1, UpParts
  <2>2. CASE b # a
    <3>1. PICK d \in EdgeTargets(edges, a) : Reaches(d, b)
      BY <2>2, <1>5, ReachesIs
    <3>2. b \in Up[d]
      BY <3>1, <1>3, <1>4
    <3>. QED BY <3>1, <3>2, <1>3, UpParts
  <2>. QED BY <2>1, <2>2
<1>. QED BY <1>5

LEMMA AllAncestors ==
  ASSUME GraphOK, EdgesOK(edges)
  PROVE  \A a, b \in DOMAIN edges \cap Repo : b \in Up[a] => Reaches(a, b)
<1>. DEFINE shown == DOMAIN edges \cap Repo
            bad == {a \in shown : ~ \A b \in shown : b \in Up[a] => Reaches(a, b)}
<1>. SUFFICES ASSUME bad # {} PROVE FALSE
  OBVIOUS
<1>1. bad \in SUBSET Nat /\ shown \in SUBSET Repo /\ shown \in SUBSET (0..Size) /\ \A c \in shown : c \in Nat
  BY RepoIs
<1>2. PICK a \in bad : \A k \in bad : a <= k
  BY <1>1, LeastExists
<1>3. PICK b \in shown : b \in Up[a] /\ ~ Reaches(a, b)
  BY <1>2
<1>4. a \in shown /\ a \in DOMAIN edges
  BY <1>2
<1>5. b # a
  BY <1>3, <1>4, ReachesIs
<1>. DEFINE through == {x \in (Up[a] \cap shown) \ {a} : b \in Up[x]}
<1>6. b \in through /\ through \in SUBSET (0..Size)
  BY <1>1, <1>3, <1>5, UpParts
<1>7. PICK x \in through : \A y \in through : y <= x
  BY <1>6, RepoIs, GreatestExists
<1>8. x \in Nearest(a, shown)
  <2>1. ASSUME NEW y \in ((Up[a] \cap shown) \ {a}) \ {x}, x \in Up[y] PROVE FALSE
    <3>1. y \in through
      BY <1>1, <1>7, <2>1, UpParts
    <3>2. y <= x /\ x <= y /\ x \in Nat /\ y \in Nat
      BY <1>1, <1>7, <2>1, <3>1, UpParts
    <3>. QED BY <3>2
  <2>. QED BY <1>7, <2>1 DEF Nearest
<1>9. x \in EdgeTargets(edges, a) /\ x < a
  <2>1. a \in Repo /\ shown \in SUBSET Repo
    BY <1>1, <1>4
  <2>2. EdgeTargets(edges, a) = Nearest(a, shown)
    BY <1>4, <2>1 DEF EdgesOK
  <2>. HIDE DEF shown
  <2>3. \A d \in Nearest(a, shown) : d < a
    BY <2>1, NearestIs
  <2>. QED BY <1>8, <2>2, <2>3
<1>10. x \in shown /\ x \notin bad
  <2>. HIDE DEF bad
  <2>. QED BY <1>1, <1>2, <1>4, <1>7, <1>9
<1>11. Reaches(x, b)
  BY <1>3, <1>7, <1>10
<1>. QED BY <1>3, <1>4, <1>9, <1>11, ReachesIs

\* What is shown: what was deployed, the tip, and where they come together.
ShownOK(shown) ==
  /\ deployed \subseteq shown /\ tipIs \in shown
  /\ \A a \in deployed \cap Repo : Up[a] \cap Up[tipIs] # {} => \E b \in shown : b \in Up[a] /\ b \in Up[tipIs]

LEMMA AncestryHolds ==
  ASSUME GraphOK, EdgesOK(edges), ShownOK(DOMAIN edges)
  PROVE  AncestryIsKept
<1>1. \A a, b \in DOMAIN edges \cap Repo : Reaches(a, b) <=> b \in Up[a]
  BY OnlyAncestors, AllAncestors
<1>2. ASSUME NEW a \in deployed \cap Repo, Up[a] \cap Up[tipIs] # {}
      PROVE  (DOMAIN edges \cap Repo) \cap Drawn[a] \cap Drawn[tipIs] # {}
  <2>1. PICK b \in DOMAIN edges : b \in Up[a] /\ b \in Up[tipIs]
    BY <1>2 DEF ShownOK
  <2>2. a \in DOMAIN edges \cap Repo /\ tipIs \in DOMAIN edges \cap Repo
    BY DEF ShownOK, GraphOK
  <2>3. b \in DOMAIN edges \cap Repo
    BY <2>1, <2>2, UpParts
  <2>. QED BY <1>1, <2>1, <2>2, <2>3 DEF Reaches
<1>. QED BY <1>1, <1>2 DEF AncestryIsKept, Reaches

-----------------------------------------------------------------------------
(* Timeline: sequences without repetition.                                 *)

LEMMA AppendToRange ==
  ASSUME NEW S, NEW s \in Seq(S), NEW x \in S
  PROVE  /\ Append(s, x) \in Seq(S) /\ Len(Append(s, x)) = Len(s) + 1 /\ DOMAIN Append(s, x) = 1..(Len(s) + 1)
         /\ Append(s, x)[Len(s) + 1] = x /\ \A i \in DOMAIN s : Append(s, x)[i] = s[i]
         /\ Range(Append(s, x)) = Range(s) \cup {x}
         /\ IsInjective(s) /\ x \notin Range(s) => IsInjective(Append(s, x))
<1>. DEFINE t == Append(s, x)
<1>1. /\ t \in Seq(S) /\ Len(t) = Len(s) + 1 /\ DOMAIN t = 1..(Len(s) + 1)
      /\ t[Len(s) + 1] = x /\ (\A i \in DOMAIN s : t[i] = s[i])
      /\ Len(s) \in Nat /\ DOMAIN s = 1..Len(s)
  OBVIOUS
<1>. HIDE DEF t
<1>2. \A i \in DOMAIN t : i = Len(s) + 1 \/ i \in DOMAIN s
  BY <1>1
<1>3. DOMAIN s \subseteq DOMAIN t /\ Len(s) + 1 \in DOMAIN t
  BY <1>1
<1>4. Range(t) = Range(s) \cup {x}
  BY <1>1, <1>2, <1>3 DEF Range
<1>5. IsInjective(s) /\ x \notin Range(s) => IsInjective(t)
  <2>. SUFFICES ASSUME IsInjective(s), x \notin Range(s), NEW i \in DOMAIN t, NEW j \in DOMAIN t, t[i] = t[j]
                PROVE  i = j
    BY DEF IsInjective
  <2>1. \A k \in DOMAIN s : t[k] # x
    BY <1>1 DEF Range
  <2>2. CASE i \in DOMAIN s /\ j \in DOMAIN s
    BY <1>1, <2>2 DEF IsInjective
  <2>. QED BY <1>1, <1>2, <2>1, <2>2
<1>. QED BY <1>1, <1>4, <1>5 DEF t

LEMMA FrontAndLast ==
  ASSUME NEW S, NEW s \in Seq(S), s # <<>>
  PROVE  /\ Last(s) \in S /\ Last(s) \in Range(s) /\ Front(s) \in Seq(S)
         /\ IsInjective(s) => IsInjective(Front(s)) /\ Range(Front(s)) = Range(s) \ {Last(s)}
<1>. DEFINE n == Len(s)
            t == Front(s)
<1>1. n \in Nat \ {0} /\ DOMAIN s = 1..n
  BY EmptySeq
<1>2. Last(s) = s[n]
  BY DEF Last
<1>3. t = [i \in 1..(n - 1) |-> s[i]]
  BY <1>1 DEF Front
<1>4. n \in DOMAIN s
  BY <1>1
<1>5. t \in Seq(S)
  <2>1. n - 1 \in Nat /\ \A i \in 1..(n - 1) : s[i] \in S
    BY <1>1
  <2>2. t \in [1..(n - 1) -> S]
    BY <1>3, <2>1
  <2>. HIDE DEF t, n
  <2>. QED BY <2>1, <2>2
<1>6. DOMAIN t = 1..(n - 1) /\ \A i \in 1..(n - 1) : t[i] = s[i]
  BY <1>3
<1>. HIDE DEF t
<1>7. \A i \in DOMAIN s : i = n \/ i \in DOMAIN t
  BY <1>1, <1>6
<1>8. \A i \in DOMAIN t : i \in DOMAIN s /\ i # n
  BY <1>1, <1>6
<1>. HIDE DEF n
<1>9. ASSUME IsInjective(s) PROVE IsInjective(t) /\ Range(t) = Range(s) \ {Last(s)}
  <2>1. IsInjective(t)
    BY <1>6, <1>8, <1>9 DEF IsInjective
  <2>2. Range(t) \subseteq Range(s)
    BY <1>6, <1>8 DEF Range
  <2>3. s[n] \notin Range(t)
    BY <1>4, <1>6, <1>8, <1>9 DEF Range, IsInjective
  <2>4. Range(s) \subseteq Range(t) \cup {s[n]}
    BY <1>6, <1>7 DEF Range
  <2>. QED BY <1>2, <2>1, <2>2, <2>3, <2>4
<1>10. s[n] \in S /\ s[n] \in Range(s)
  BY <1>4 DEF Range
<1>. QED BY <1>2, <1>5, <1>9, <1>10 DEF t

LEMMA ConcatIs ==
  ASSUME NEW S, NEW s \in Seq(S), NEW t \in Seq(S), IsInjective(s), IsInjective(t), Range(s) \cap Range(t) = {}
  PROVE  s \o t \in Seq(S) /\ IsInjective(s \o t) /\ Range(s \o t) = Range(s) \cup Range(t)
<1>. DEFINE u == s \o t
            m == Len(s)
            n == Len(t)
<1>1. /\ m \in Nat /\ n \in Nat /\ DOMAIN s = 1..m /\ DOMAIN t = 1..n
      /\ u \in Seq(S) /\ DOMAIN u = 1..(m + n) /\ \A i \in 1..(m + n) : u[i] = IF i <= m THEN s[i] ELSE t[i - m]
  OBVIOUS
<1>. HIDE DEF u, m, n
<1>2. \A i \in DOMAIN u : \/ i \in DOMAIN s /\ u[i] = s[i]
                          \/ i \notin DOMAIN s /\ i - m \in DOMAIN t /\ u[i] = t[i - m]
  BY <1>1
<1>3. \A i \in DOMAIN s : i \in DOMAIN u /\ u[i] = s[i]
  BY <1>1
<1>4. \A i \in DOMAIN t : i + m \in DOMAIN u /\ u[i + m] = t[i]
  BY <1>1
<1>5. Range(u) = Range(s) \cup Range(t)
  <2>1. Range(u) \subseteq Range(s) \cup Range(t)
    BY <1>2 DEF Range
  <2>2. Range(s) \subseteq Range(u)
    BY <1>3 DEF Range
  <2>3. Range(t) \subseteq Range(u)
    BY <1>4 DEF Range
  <2>. QED BY <2>1, <2>2, <2>3
<1>6. IsInjective(u)
  <2>. SUFFICES ASSUME NEW i \in DOMAIN u, NEW j \in DOMAIN u, u[i] = u[j] PROVE i = j
    BY DEF IsInjective
  <2>1. CASE i \in DOMAIN s /\ j \in DOMAIN s
    BY <1>3, <2>1 DEF IsInjective
  <2>2. CASE i \notin DOMAIN s /\ j \notin DOMAIN s
    <3>1. t[i - m] = t[j - m] /\ i - m \in DOMAIN t /\ j - m \in DOMAIN t
      BY <1>2, <2>2
    <3>2. i - m = j - m
      BY <3>1 DEF IsInjective
    <3>. QED BY <1>1, <3>2
  <2>3. \A k \in DOMAIN u : k \in DOMAIN s => u[k] \in Range(s)
    BY <1>3 DEF Range
  <2>4. \A k \in DOMAIN u : k \notin DOMAIN s => u[k] \in Range(t)
    BY <1>2 DEF Range
  <2>. QED BY <2>1, <2>2, <2>3, <2>4
<1>. QED BY <1>1, <1>5, <1>6 DEF u

-----------------------------------------------------------------------------
(* Timeline: what comes next.                                              *)

LEMMA HeadsAre ==
  ASSUME NEW es, EdgesOK(es), skew \in 0..(Size - 1)
  PROVE  /\ Heads(es) \in Seq(Nat) /\ IsInjective(Heads(es))
         /\ Range(Heads(es)) = {h \in DOMAIN es : Released(es, {}, h)}
<1>. DEFINE H == {h \in DOMAIN es : Released(es, {}, h)}
            key == [c \in H |-> IF c \in Repo THEN <<0, Time(c)>> ELSE <<1, -c>>]
            s == Sorted(key)
<1>1. H \in SUBSET (1..(Size + 1)) /\ IsFiniteSet(1..(Size + 1)) /\ \A c \in H : c \in Nat
  <2>1. IsFiniteSet(1..(Size + 1))
    BY RepoIs, FS_Interval
  <2>. QED BY <2>1 DEF EdgesOK
<1>2. \A c \in Nat : Time(c) \in Nat
  BY RepoIs DEF Time
<1>3. \A c, d \in Nat : Time(c) = Time(d) => c = d
  BY RepoIs DEF Time
<1>. HIDE DEF H
<1>4. IsFiniteSet(H)
  BY <1>1, FS_Subset
<1>5. Keys2(H, key)
  <2>1. \A c \in H : key[c][1] \in Int /\ key[c][2] \in Int
    BY <1>1, <1>2
  <2>2. ASSUME NEW c \in H, NEW d \in H, key[c][1] = key[d][1], key[c][2] = key[d][2] PROVE c = d
    <3>1. CASE c \in Repo /\ d \in Repo
      BY <1>1, <1>3, <2>2, <3>1
    <3>2. CASE c \notin Repo /\ d \notin Repo
      BY <1>1, <2>2, <3>2
    <3>3. CASE c \in Repo /\ d \notin Repo
      BY <2>2, <3>3
    <3>4. CASE c \notin Repo /\ d \in Repo
      BY <2>2, <3>4
    <3>. QED BY <3>1, <3>2, <3>3, <3>4
  <2>. QED BY <2>1, <2>2 DEF Keys2
<1>6. Heads(es) = s
  BY DEF Heads, H
<1>. HIDE DEF key
<1>7. Cardinality(H) \in Nat /\ DOMAIN s = 1..Cardinality(H) /\ IsInjective(s) /\ Range(s) = H
  BY <1>4, <1>5, SortedIs
<1>8. s = [i \in 1..Cardinality(H) |-> s[i]]
  BY <1>4, <1>5, SortedIs
<1>. HIDE DEF s
<1>9. \A i \in 1..Cardinality(H) : s[i] \in Nat
  BY <1>1, <1>7 DEF Range
<1>10. s \in [1..Cardinality(H) -> Nat]
  BY <1>8, <1>9
<1>11. s \in Seq(Nat)
  BY <1>7, <1>10
<1>. QED BY <1>6, <1>7, <1>11 DEF H

LEMMA FreedAre ==
  ASSUME EdgesOK(edges), NEW c \in DOMAIN edges, NEW placed
  PROVE  /\ Freed(c, placed) \in Seq(Nat) /\ IsInjective(Freed(c, placed))
         /\ Range(Freed(c, placed)) = {p \in EdgeTargets(edges, c) : Released(edges, placed, p)}
<1>. DEFINE D == DOMAIN edges[c]
            ready == {i \in D : Released(edges, placed, edges[c][i].target)}
            key == [i \in ready |-> <<-i, 0>>]
            order == Sorted(key)
            s == Freed(c, placed)
<1>1. D = 1..Len(edges[c]) /\ Len(edges[c]) \in Nat /\ \A i \in D : edges[c][i].target \in Nat
  <2>. DEFINE T == [target : Repo \cap DOMAIN edges, elided : BOOLEAN]
  <2>1. edges[c] \in Seq(T)
    BY DEF EdgesOK
  <2>. HIDE DEF T
  <2>2. D = 1..Len(edges[c]) /\ Len(edges[c]) \in Nat /\ \A i \in D : edges[c][i] \in T
    BY <2>1
  <2>3. \A e \in T : e.target \in Nat
    BY RepoIs DEF T
  <2>. QED BY <2>2, <2>3
<1>2. \A i, j \in D : edges[c][i].target = edges[c][j].target => i = j
  BY DEF EdgesOK
<1>3. ready \in SUBSET D /\ \A i \in ready : i \in Nat
  BY <1>1
<1>4. EdgeTargets(edges, c) = {edges[c][i].target : i \in D}
  BY DEF EdgeTargets
<1>5. s = [j \in DOMAIN order |-> edges[c][order[j]].target]
  BY DEF Freed
<1>8. \A i \in D : i \in ready <=> Released(edges, placed, edges[c][i].target)
  OBVIOUS
<1>. HIDE DEF D, s, ready
<1>6. IsFiniteSet(ready)
  <2>1. IsFiniteSet(1..Len(edges[c]))
    BY <1>1, FS_Interval
  <2>. QED BY <1>1, <1>3, <2>1, FS_Subset
<1>7. Keys2(ready, key)
  BY <1>3 DEF Keys2
<1>. HIDE DEF key
<1>9. /\ Cardinality(ready) \in Nat /\ DOMAIN order = 1..Cardinality(ready)
      /\ IsInjective(order) /\ Range(order) = ready
  BY <1>6, <1>7, SortedIs
<1>. HIDE DEF order
<1>10. \A j \in DOMAIN order : order[j] \in ready
  BY <1>9 DEF Range
<1>11. \A i \in ready : \E j \in DOMAIN order : order[j] = i
  BY <1>9 DEF Range
<1>12. DOMAIN s = DOMAIN order /\ \A j \in DOMAIN order : s[j] = edges[c][order[j]].target
  BY <1>5
<1>13. s \in Seq(Nat)
  <2>1. \A j \in DOMAIN order : edges[c][order[j]].target \in Nat
    BY <1>1, <1>3, <1>10
  <2>2. s \in [1..Cardinality(ready) -> Nat]
    BY <1>5, <1>9, <2>1
  <2>. QED BY <1>9, <2>2
<1>14. IsInjective(s)
  <2>. SUFFICES ASSUME NEW i \in DOMAIN s, NEW j \in DOMAIN s, s[i] = s[j] PROVE i = j
    BY DEF IsInjective
  <2>1. order[i] = order[j]
    BY <1>2, <1>3, <1>10, <1>12
  <2>. QED BY <1>9, <1>12, <2>1 DEF IsInjective
<1>15. Range(s) = {p \in EdgeTargets(edges, c) : Released(edges, placed, p)}
  <2>1. ASSUME NEW p \in Range(s) PROVE p \in EdgeTargets(edges, c) /\ Released(edges, placed, p)
    <3>1. PICK j \in DOMAIN order : p = edges[c][order[j]].target
      BY <1>12 DEF Range
    <3>. QED BY <1>3, <1>4, <1>8, <1>10, <3>1
  <2>2. ASSUME NEW p \in EdgeTargets(edges, c), Released(edges, placed, p) PROVE p \in Range(s)
    <3>1. PICK i \in D : p = edges[c][i].target
      BY <1>4
    <3>2. PICK j \in DOMAIN order : order[j] = i
      BY <1>8, <1>11, <2>2, <3>1
    <3>. QED BY <1>12, <3>1, <3>2 DEF Range
  <2>. QED BY <2>1, <2>2
<1>. QED BY <1>13, <1>14, <1>15 DEF s

-----------------------------------------------------------------------------
(* Timeline: the order of the rows.                                        *)

\* The stack holds the commits that could be placed and are not; what is placed
\* came after its children.
Placing ==
  /\ stack \in Seq(Nat) /\ rowOrder \in Seq(Nat) /\ IsInjective(stack) /\ IsInjective(rowOrder)
  /\ Range(rowOrder) \subseteq DOMAIN edges /\ Range(stack) \subseteq DOMAIN edges
  /\ Range(stack) \cap Range(rowOrder) = {}
  /\ \A p \in DOMAIN edges : p \in Range(rowOrder) \cup Range(stack) <=> Released(edges, Range(rowOrder), p)
  /\ \A i \in DOMAIN rowOrder : \A c \in DOMAIN edges :
       rowOrder[i] \in EdgeTargets(edges, c) => \E h \in DOMAIN rowOrder : rowOrder[h] = c /\ h < i

LEMMA TargetsAre ==
  ASSUME EdgesOK(edges)
  PROVE  \A c \in DOMAIN edges : /\ c \in Nat /\ c <= Size + 1
                                 /\ \A d \in EdgeTargets(edges, c) : d \in Repo /\ d \in DOMAIN edges /\ d < c
<1>1. \A c \in DOMAIN edges : EdgesDown[c] = EdgeTargets(edges, c)
  BY DEF EdgesDown
<1>2. \A c \in DOMAIN edges : \A d \in EdgesDown[c] : d \in Repo /\ d \in DOMAIN edges /\ d < c
  BY EdgesLeadDown
<1>3. \A c \in DOMAIN edges : c \in Nat /\ c <= Size + 1
  BY RepoIs DEF EdgesOK
<1>. QED BY <1>1, <1>2, <1>3

LEMMA PlacingStarts ==
  ASSUME GraphOK, phase = "ask", rowOrder = <<>>, Arrange
  PROVE  Placing'
<1>. DEFINE es == Edges(Shown)
<1>1. edges' = es /\ stack' = Heads(es) /\ rowOrder' = <<>>
  BY DEF Arrange
<1>2. EdgesOK(es)
  BY EdgesAreOK
<1>. HIDE DEF es
<1>3. Heads(es) \in Seq(Nat) /\ IsInjective(Heads(es)) /\ Range(Heads(es)) = {h \in DOMAIN es : Released(es, {}, h)}
  BY <1>2, HeadsAre DEF GraphOK
<1>4. /\ rowOrder' \in Seq(Nat) /\ DOMAIN rowOrder' = {} /\ Range(rowOrder') = {} /\ IsInjective(rowOrder')
  BY <1>1 DEF Range, IsInjective
<1>. QED BY <1>1, <1>3, <1>4 DEF Placing

LEMMA PlacingGoesOn ==
  ASSUME EdgesOK(edges), Placing, PlaceNext
  PROVE  Placing'
<1>. DEFINE c == Last(stack)
            placed == Range(rowOrder)
            F == Freed(c, placed \cup {c})
            before == Front(stack)
<1>0. EdgesOK(edges) /\ stack # <<>> /\ edges' = edges /\ rowOrder' = Append(rowOrder, c) /\ stack' = before \o F
  BY DEF PlaceNext
<1>1. /\ stack \in Seq(Nat) /\ rowOrder \in Seq(Nat) /\ IsInjective(stack) /\ IsInjective(rowOrder)
      /\ placed \subseteq DOMAIN edges /\ Range(stack) \subseteq DOMAIN edges
      /\ Range(stack) \cap placed = {}
      /\ \A p \in DOMAIN edges : p \in placed \cup Range(stack) <=> Released(edges, placed, p)
      /\ \A i \in DOMAIN rowOrder : \A d \in DOMAIN edges :
           rowOrder[i] \in EdgeTargets(edges, d) => \E h \in DOMAIN rowOrder : rowOrder[h] = d /\ h < i
  BY DEF Placing
<1>2. /\ c \in Nat /\ c \in Range(stack) /\ before \in Seq(Nat)
      /\ IsInjective(before) /\ Range(before) = Range(stack) \ {c}
  BY <1>0, <1>1, FrontAndLast
<1>3. c \in DOMAIN edges /\ c \notin placed
  BY <1>1, <1>2
<1>4. F \in Seq(Nat) /\ IsInjective(F) /\ Range(F) = {p \in EdgeTargets(edges, c) : Released(edges, placed \cup {c}, p)}
  BY <1>3, FreedAre
<1>. HIDE DEF F, before, c
<1>5. \A p \in Range(F) : p \in DOMAIN edges /\ p # c /\ p \in EdgeTargets(edges, c) /\ Released(edges, placed \cup {c}, p)
  BY <1>3, <1>4, TargetsAre
<1>6. \A p \in Range(F) : p \notin placed /\ p \notin Range(stack)
  <2>. SUFFICES ASSUME NEW p \in Range(F), p \in placed \cup Range(stack) PROVE FALSE
    OBVIOUS
  <2>1. Released(edges, placed, p) /\ p \in EdgeTargets(edges, c)
    BY <1>1, <1>5
  <2>. QED BY <1>3, <2>1 DEF Released
<1>. HIDE DEF placed
<1>7. /\ rowOrder' \in Seq(Nat) /\ IsInjective(rowOrder') /\ Range(rowOrder') = placed \cup {c}
      /\ DOMAIN rowOrder' = 1..(Len(rowOrder) + 1)
      /\ rowOrder'[Len(rowOrder) + 1] = c /\ \A i \in DOMAIN rowOrder : rowOrder'[i] = rowOrder[i]
  BY <1>0, <1>1, <1>2, <1>3, AppendToRange DEF placed
<1>8. stack' \in Seq(Nat) /\ IsInjective(stack') /\ Range(stack') = (Range(stack) \ {c}) \cup Range(F)
  <2>1. Range(before) \cap Range(F) = {}
    BY <1>2, <1>6
  <2>2. before \in Seq(Nat) /\ IsInjective(before) /\ F \in Seq(Nat) /\ IsInjective(F)
    BY <1>2, <1>4
  <2>3. before \o F \in Seq(Nat) /\ IsInjective(before \o F) /\ Range(before \o F) = Range(before) \cup Range(F)
    BY <2>1, <2>2, ConcatIs
  <2>. QED BY <1>0, <1>2, <2>3
<1>9. /\ Range(rowOrder') \subseteq DOMAIN edges /\ Range(stack') \subseteq DOMAIN edges
      /\ Range(stack') \cap Range(rowOrder') = {}
  BY <1>1, <1>3, <1>5, <1>6, <1>7, <1>8
<1>10. ASSUME NEW p \in DOMAIN edges
       PROVE  p \in Range(rowOrder') \cup Range(stack') <=> Released(edges, placed \cup {c}, p)
  <2>1. Released(edges, placed, p) => Released(edges, placed \cup {c}, p)
    BY DEF Released
  <2>2. Released(edges, placed \cup {c}, p) => Released(edges, placed, p) \/ p \in EdgeTargets(edges, c)
    BY DEF Released
  <2>3. p \in Range(rowOrder') \cup Range(stack') <=> p \in placed \cup Range(stack) \/ p \in Range(F)
    BY <1>2, <1>7, <1>8
  <2>4. p \in Range(F) <=> p \in EdgeTargets(edges, c) /\ Released(edges, placed \cup {c}, p)
    BY <1>4
  <2>. QED BY <1>1, <2>1, <2>2, <2>3, <2>4
<1>11. ASSUME NEW i \in DOMAIN rowOrder', NEW d \in DOMAIN edges, rowOrder'[i] \in EdgeTargets(edges, d)
       PROVE  \E h \in DOMAIN rowOrder' : rowOrder'[h] = d /\ h < i
  <2>0. DOMAIN rowOrder = 1..Len(rowOrder) /\ Len(rowOrder) \in Nat
    BY <1>1
  <2>1. \A h \in DOMAIN rowOrder : h \in DOMAIN rowOrder' /\ rowOrder'[h] = rowOrder[h] /\ h < Len(rowOrder) + 1
    BY <1>7, <2>0
  <2>2. CASE i \in DOMAIN rowOrder
    BY <1>1, <1>11, <2>1, <2>2
  <2>3. CASE i = Len(rowOrder) + 1
    <3>1. c \in EdgeTargets(edges, d) /\ Released(edges, placed, c)
      BY <1>1, <1>2, <1>3, <1>7, <1>11, <2>3
    <3>2. d \in placed
      BY <3>1 DEF Released
    <3>3. PICK h \in DOMAIN rowOrder : rowOrder[h] = d
      BY <3>2 DEF placed, Range
    <3>. QED BY <2>1, <2>3, <3>3
  <2>. QED BY <1>7, <2>0, <2>2, <2>3
<1>12. \A p \in DOMAIN edges' : p \in Range(rowOrder') \cup Range(stack') <=> Released(edges', Range(rowOrder'), p)
  BY <1>0, <1>7, <1>10
<1>13. \A i \in DOMAIN rowOrder' : \A d \in DOMAIN edges' :
         rowOrder'[i] \in EdgeTargets(edges', d) => \E h \in DOMAIN rowOrder' : rowOrder'[h] = d /\ h < i
  BY <1>0, <1>11
<1>. QED BY <1>0, <1>7, <1>8, <1>9, <1>12, <1>13 DEF Placing

LEMMA AllArePlaced ==
  ASSUME EdgesOK(edges), Placing, stack = <<>>
  PROVE  Range(rowOrder) = DOMAIN edges
<1>. DEFINE left == DOMAIN edges \ Range(rowOrder)
<1>. SUFFICES ASSUME left # {} PROVE FALSE
  BY DEF Placing
<1>1. left \in SUBSET (0..(Size + 1)) /\ Size + 1 \in Nat
  BY RepoIs DEF EdgesOK
<1>2. PICK p \in left : \A u \in left : u <= p
  BY <1>1, GreatestExists
<1>3. ASSUME NEW c \in DOMAIN edges, p \in EdgeTargets(edges, c) PROVE c \in Range(rowOrder)
  <2>1. p < c /\ p \in Nat /\ c \in Nat
    BY <1>2, <1>3, TargetsAre
  <2>2. ~ (c <= p)
    BY <2>1
  <2>. QED BY <1>2, <2>2
<1>4. Released(edges, Range(rowOrder), p)
  BY <1>3 DEF Released
<1>5. Range(stack) = {}
  BY DEF Range
<1>. QED BY <1>2, <1>4, <1>5 DEF Placing

LEMMA ParentsAreBelow ==
  ASSUME EdgesOK(edges), Placing, phase \in {"row", "lead", "done"} => stack = <<>>
  PROVE  ParentsBelow
<1>1. ASSUME NEW i \in DOMAIN rowOrder, NEW j \in DOMAIN rowOrder, rowOrder[j] \in EdgeTargets(edges, rowOrder[i])
      PROVE  i < j
  <2>1. rowOrder[i] \in DOMAIN edges
    BY DEF Placing, Range
  <2>2. PICK h \in DOMAIN rowOrder : rowOrder[h] = rowOrder[i] /\ h < j
    BY <1>1, <2>1 DEF Placing
  <2>3. h = i
    BY <2>2 DEF Placing, IsInjective
  <2>. QED BY <2>2, <2>3
<1>. QED BY <1>1, AllArePlaced DEF ParentsBelow, Placing

-----------------------------------------------------------------------------
(* Timeline: lanes.                                                        *)

LaneEdge == [target : Nat, elided : BOOLEAN]

LEMMA PutEdgeIs ==
  ASSUME NEW ls \in Seq(LaneEdge), NEW lane \in 1..(Len(ls) + 1), NEW edge \in LaneEdge
  PROVE  /\ PutEdge(ls, lane, edge) \in Seq(LaneEdge)
         /\ DOMAIN PutEdge(ls, lane, edge) = DOMAIN ls \cup {lane}
         /\ PutEdge(ls, lane, edge)[lane] = edge
         /\ \A i \in DOMAIN ls : i # lane => PutEdge(ls, lane, edge)[i] = ls[i]
<1>. DEFINE T == LaneEdge
<1>. HIDE DEF T
<1>0. ls \in Seq(T) /\ edge \in T /\ lane \in Nat /\ Len(ls) \in Nat /\ DOMAIN ls = 1..Len(ls)
  BY DEF T
<1>1. CASE lane > Len(ls)
  <2>1. lane = Len(ls) + 1 /\ PutEdge(ls, lane, edge) = Append(ls, edge)
    BY <1>0, <1>1 DEF PutEdge
  <2>2. /\ Append(ls, edge) \in Seq(T) /\ DOMAIN Append(ls, edge) = 1..(Len(ls) + 1)
        /\ Append(ls, edge)[Len(ls) + 1] = edge /\ \A i \in DOMAIN ls : Append(ls, edge)[i] = ls[i]
    BY <1>0
  <2>3. 1..(Len(ls) + 1) = DOMAIN ls \cup {lane}
    BY <1>0, <2>1
  <2>. QED BY <2>1, <2>2, <2>3 DEF T
<1>2. CASE ~ (lane > Len(ls))
  <2>1. lane \in DOMAIN ls /\ PutEdge(ls, lane, edge) = [ls EXCEPT ![lane] = edge]
    BY <1>0, <1>2 DEF PutEdge
  <2>2. [ls EXCEPT ![lane] = edge] \in Seq(T)
    BY <1>0, <2>1
  <2>. QED BY <1>0, <2>1, <2>2 DEF T
<1>. QED BY <1>1, <1>2

LEMMA FreeLaneIs ==
  ASSUME NEW ls \in Seq(LaneEdge), NEW avoid
  PROVE  /\ FreeLane(ls, avoid) \in 1..(Len(ls) + 1)
         /\ FreeLane(ls, avoid) \in DOMAIN ls => ls[FreeLane(ls, avoid)] = NoEdge
<1>. DEFINE free == {i \in DOMAIN ls : ls[i] = NoEdge /\ i \notin avoid}
<1>1. FreeLane(ls, avoid) = IF free = {} THEN Len(ls) + 1 ELSE Min(free)
  BY DEF FreeLane
<1>2. free \in SUBSET Nat /\ free \subseteq DOMAIN ls /\ \A i \in free : ls[i] = NoEdge
  OBVIOUS
<1>. HIDE DEF free
<1>3. free # {} => Min(free) \in free
  BY <1>2, MinIs
<1>4. DOMAIN ls = 1..Len(ls) /\ Len(ls) \in Nat
  OBVIOUS
<1>. DEFINE lane == FreeLane(ls, avoid)
<1>5. CASE free = {}
  <2>1. lane = Len(ls) + 1
    BY <1>1, <1>5
  <2>. HIDE DEF lane
  <2>2. lane \in 1..(Len(ls) + 1) /\ lane \notin DOMAIN ls
    BY <1>4, <2>1
  <2>. QED BY <2>2 DEF lane
<1>6. CASE free # {}
  <2>1. lane \in free
    BY <1>1, <1>3, <1>6
  <2>. HIDE DEF lane
  <2>2. lane \in DOMAIN ls /\ ls[lane] = NoEdge
    BY <1>2, <2>1
  <2>3. lane \in 1..(Len(ls) + 1)
    BY <1>4, <2>2
  <2>. QED BY <2>2, <2>3 DEF lane
<1>. QED BY <1>5, <1>6

LEMMA TrimmedIs ==
  ASSUME NEW ls \in Seq(LaneEdge)
  PROVE  /\ Trimmed(ls) \in Seq(LaneEdge) /\ DOMAIN Trimmed(ls) \subseteq DOMAIN ls
         /\ \A i \in DOMAIN Trimmed(ls) : Trimmed(ls)[i] = ls[i]
         /\ \A i \in DOMAIN ls : ls[i] # NoEdge => i \in DOMAIN Trimmed(ls)
         /\ (\A i \in DOMAIN ls : ls[i] = NoEdge) => Trimmed(ls) = <<>>
<1>. DEFINE used == {i \in DOMAIN ls : ls[i] # NoEdge}
<1>1. Trimmed(ls) = IF used = {} THEN <<>> ELSE SubSeq(ls, 1, Max(used))
  BY DEF Trimmed
<1>2. DOMAIN ls = 1..Len(ls) /\ Len(ls) \in Nat
  OBVIOUS
<1>3. used \in SUBSET (0..Len(ls)) /\ used \subseteq DOMAIN ls
  BY <1>2
<1>4. \A i \in DOMAIN ls : i \in used <=> ls[i] # NoEdge
  OBVIOUS
<1>. HIDE DEF used
<1>5. CASE used = {}
  <2>1. Trimmed(ls) = <<>> /\ DOMAIN <<>> = {} /\ <<>> \in Seq(LaneEdge)
    BY <1>1, <1>5
  <2>. QED BY <1>4, <1>5, <2>1
<1>6. CASE used # {}
  <2>. DEFINE m == Max(used)
              t == SubSeq(ls, 1, m)
              T == LaneEdge
  <2>1. m \in used /\ \A u \in used : u <= m
    BY <1>2, <1>3, <1>6, MaxIs
  <2>2. m \in Nat /\ 1 <= m /\ m <= Len(ls)
    BY <1>2, <1>3, <2>1
  <2>. HIDE DEF m, T
  <2>3. t = [i \in 1..m |-> ls[i]]
    BY <2>2
  <2>4. ls \in Seq(T)
    BY DEF T
  <2>5. \A i \in 1..m : i \in DOMAIN ls /\ ls[i] \in T
    BY <1>2, <2>2, <2>4
  <2>6. t \in [1..m -> T]
    BY <2>3, <2>5
  <2>. HIDE DEF t
  <2>7. t \in Seq(T) /\ DOMAIN t = 1..m
    BY <2>2, <2>6
  <2>8. \A i \in DOMAIN ls : ls[i] # NoEdge => i \in 1..m
    BY <1>2, <1>4, <2>1, <2>2
  <2>9. Trimmed(ls) = t
    BY <1>1, <1>6 DEF m, t
  <2>10. \A i \in 1..m : t[i] = ls[i]
    BY <2>3
  <2>11. ~ \A i \in DOMAIN ls : ls[i] = NoEdge
    BY <1>3, <1>4, <2>1
  <2>. QED BY <2>5, <2>7, <2>8, <2>9, <2>10, <2>11 DEF T
<1>. QED BY <1>5, <1>6

-----------------------------------------------------------------------------
(* Timeline: what is drawn.                                                *)

Heights == {"top", "middle", "bottom"}

Segment ==
  [lane : Nat, from : Heights, to : Heights, elided : BOOLEAN]
    \cup [across : Nat \X Nat, lane : Nat, elided : BOOLEAN]

DrawnRow == [column : Nat, ends : SUBSET Nat, segments : SUBSET Segment]

\* From the node in row i the lane goes down, through every row to row j.
Goes(rs, i, j, lane, elided) ==
  /\ rs[i].column = lane \/ Horizontal(rs[i].column, lane, lane, elided) \in rs[i].segments
  /\ \E from \in {"top", "middle"} : Vertical(lane, from, "bottom", elided) \in rs[i].segments
  /\ \A m \in (i + 1)..j : Vertical(lane, "top", "bottom", elided) \in rs[m].segments

Ends(rs, j, lane, elided) ==
  /\ Vertical(lane, "top", "middle", elided) \in rs[j].segments
  /\ rs[j].column = lane \/ Horizontal(lane, rs[j].column, lane, elided) \in rs[j].segments

\* The edge is on its way down in a lane, or has arrived.
OnItsWay(rs, ls, i, edge) ==
  \E lane \in DOMAIN ls : ls[lane] = edge /\ Goes(rs, i, Len(rs), lane, edge.elided)

Arrived(order, rs, i, edge) ==
  \E j \in DOMAIN rs : /\ order[j] = edge.target
                       /\ \E lane \in Nat : Goes(rs, i, j - 1, lane, edge.elided) /\ Ends(rs, j, lane, edge.elided)

\* Rows keep their node and their segments.
Keeps(rs, more) ==
  /\ DOMAIN rs \subseteq DOMAIN more
  /\ \A i \in DOMAIN rs : more[i].column = rs[i].column /\ rs[i].segments \subseteq more[i].segments

LEMMA StillGoes ==
  ASSUME NEW rs \in Seq(DrawnRow), NEW more, Keeps(rs, more), NEW i \in DOMAIN rs, NEW j \in Int, j <= Len(rs),
         NEW lane, NEW elided, Goes(rs, i, j, lane, elided)
  PROVE  Goes(more, i, j, lane, elided)
<1>1. \A m \in (i + 1)..j : m \in DOMAIN rs
  <2>1. DOMAIN rs = 1..Len(rs) /\ Len(rs) \in Nat
    OBVIOUS
  <2>. QED BY <2>1
<1>2. \A m \in DOMAIN rs : more[m].column = rs[m].column /\ rs[m].segments \subseteq more[m].segments
  BY DEF Keeps
<1>. QED BY <1>1, <1>2 DEF Goes

LEMMA StillArrived ==
  ASSUME NEW rs \in Seq(DrawnRow), NEW more, Keeps(rs, more), NEW i \in DOMAIN rs, NEW order, NEW edge,
         Arrived(order, rs, i, edge)
  PROVE  Arrived(order, more, i, edge)
<1>1. PICK j \in DOMAIN rs : /\ order[j] = edge.target
                             /\ \E lane \in Nat : Goes(rs, i, j - 1, lane, edge.elided) /\ Ends(rs, j, lane, edge.elided)
  BY DEF Arrived
<1>2. PICK lane \in Nat : Goes(rs, i, j - 1, lane, edge.elided) /\ Ends(rs, j, lane, edge.elided)
  BY <1>1
<1>3. j - 1 \in Int /\ j - 1 <= Len(rs)
  <2>1. DOMAIN rs = 1..Len(rs) /\ Len(rs) \in Nat
    OBVIOUS
  <2>. QED BY <2>1
<1>4. Goes(more, i, j - 1, lane, edge.elided)
  BY <1>2, <1>3, StillGoes
<1>5. Ends(more, j, lane, edge.elided)
  BY <1>2 DEF Ends, Keeps
<1>6. j \in DOMAIN more
  BY DEF Keeps
<1>. QED BY <1>1, <1>4, <1>5, <1>6 DEF Arrived

LEMMA SegmentsAre ==
  /\ \A lane \in Nat, elided \in BOOLEAN : \A from, to \in Heights : Vertical(lane, from, to, elided) \in Segment
  /\ \A from, to, lane \in Nat, elided \in BOOLEAN : Across(from, to, lane, elided) \in SUBSET Segment
  /\ "top" \in Heights /\ "middle" \in Heights /\ "bottom" \in Heights
  /\ \A from, to, lane, elided : from # to => Horizontal(from, to, lane, elided) \in Across(from, to, lane, elided)
<1>. DEFINE V == [lane : Nat, from : Heights, to : Heights, elided : BOOLEAN]
            H == [across : Nat \X Nat, lane : Nat, elided : BOOLEAN]
<1>1. \A lane \in Nat, elided \in BOOLEAN : \A from, to \in Heights : Vertical(lane, from, to, elided) \in V
  BY DEF Vertical
<1>2. \A from, to, lane \in Nat, elided \in BOOLEAN : Horizontal(from, to, lane, elided) \in H
  BY DEF Horizontal
<1>3. V \subseteq Segment /\ H \subseteq Segment
  BY DEF Segment
<1>. HIDE DEF V, H
<1>4. \A from, to, lane \in Nat, elided \in BOOLEAN : Across(from, to, lane, elided) \in SUBSET Segment
  BY <1>2, <1>3 DEF Across
<1>5. \A from, to, lane, elided : from # to => Horizontal(from, to, lane, elided) \in Across(from, to, lane, elided)
  BY DEF Across
<1>6. "top" \in Heights /\ "middle" \in Heights /\ "bottom" \in Heights
  BY DEF Heights
<1>. QED BY <1>1, <1>3, <1>4, <1>5, <1>6

LEMMA AboveIs ==
  ASSUME lanes \in Seq(LaneEdge), NEW incoming, NEW column \in Nat
  PROVE  /\ Above(incoming, column) \in SUBSET Segment
         /\ \A i \in DOMAIN lanes : lanes[i] # NoEdge /\ i \in incoming =>
              /\ Vertical(i, "top", "middle", lanes[i].elided) \in Above(incoming, column)
              /\ column = i \/ Horizontal(i, column, i, lanes[i].elided) \in Above(incoming, column)
         /\ \A i \in DOMAIN lanes : lanes[i] # NoEdge /\ i \notin incoming =>
              Vertical(i, "top", "bottom", lanes[i].elided) \in Above(incoming, column)
<1>. DEFINE used == {j \in DOMAIN lanes : lanes[j] # NoEdge}
            of(i) == IF i \in incoming
                     THEN {Vertical(i, "top", "middle", lanes[i].elided)} \cup Across(i, column, i, lanes[i].elided)
                     ELSE {Vertical(i, "top", "bottom", lanes[i].elided)}
<1>1. Above(incoming, column) = UNION {of(i) : i \in used}
  BY DEF Above
<1>2. \A i \in used : i \in Nat /\ lanes[i].elided \in BOOLEAN
  <2>1. \A i \in DOMAIN lanes : i \in Nat /\ lanes[i] \in LaneEdge
    OBVIOUS
  <2>2. \A e \in LaneEdge : e.elided \in BOOLEAN
    BY DEF LaneEdge
  <2>. QED BY <2>1, <2>2
<1>3. \A i \in used : of(i) \in SUBSET Segment
  <2>. SUFFICES ASSUME NEW i \in used PROVE of(i) \in SUBSET Segment
    OBVIOUS
  <2>1. /\ Vertical(i, "top", "middle", lanes[i].elided) \in Segment
        /\ Vertical(i, "top", "bottom", lanes[i].elided) \in Segment
        /\ Across(i, column, i, lanes[i].elided) \in SUBSET Segment
    BY <1>2, SegmentsAre
  <2>. QED BY <2>1
<1>4. \A i \in used : of(i) \subseteq Above(incoming, column)
  BY <1>1
<1>5. ASSUME NEW i \in used, i \in incoming
      PROVE  /\ Vertical(i, "top", "middle", lanes[i].elided) \in Above(incoming, column)
             /\ column = i \/ Horizontal(i, column, i, lanes[i].elided) \in Above(incoming, column)
  <2>1. Vertical(i, "top", "middle", lanes[i].elided) \in of(i)
    BY <1>5
  <2>2. i # column => Horizontal(i, column, i, lanes[i].elided) \in of(i)
    BY <1>5, SegmentsAre
  <2>. HIDE DEF of
  <2>. QED BY <1>4, <2>1, <2>2
<1>6. ASSUME NEW i \in used, i \notin incoming
      PROVE  Vertical(i, "top", "bottom", lanes[i].elided) \in Above(incoming, column)
  <2>1. Vertical(i, "top", "bottom", lanes[i].elided) \in of(i)
    BY <1>6
  <2>. HIDE DEF of
  <2>. QED BY <1>4, <2>1
<1>7. Above(incoming, column) \in SUBSET Segment
  <2>. HIDE DEF of
  <2>. QED BY <1>1, <1>3
<1>. QED BY <1>5, <1>6, <1>7

\* What is drawn so far: the edges of every row have arrived or are on their
\* way, every lane leads to a row that is not drawn, and the lanes go on below
\* the row that is being drawn.
Drawing ==
  /\ rows \in Seq(DrawnRow) /\ lanes \in Seq(LaneEdge) /\ Len(rows) <= Len(rowOrder)
  /\ \A l \in DOMAIN lanes : lanes[l] # NoEdge =>
       \E j \in DOMAIN rowOrder : j > Len(rows) /\ rowOrder[j] = lanes[l].target
  /\ \A i \in DOMAIN rows : \A k \in DOMAIN edges[rowOrder[i]] :
       (phase = "lead" /\ i = Len(rows) => k <= led) =>
         \/ OnItsWay(rows, lanes, i, edges[rowOrder[i]][k])
         \/ Arrived(rowOrder, rows, i, edges[rowOrder[i]][k])
  /\ phase = "lead" =>
       /\ Len(rows) \in DOMAIN rows /\ led \in Nat
       /\ \A l \in DOMAIN lanes : lanes[l] # NoEdge =>
            \E from \in {"top", "middle"} : Vertical(l, from, "bottom", lanes[l].elided) \in rows[Len(rows)].segments
       /\ led = 0 => rows[Len(rows)].column \in DOMAIN lanes /\ lanes[rows[Len(rows)].column] = NoEdge
  /\ phase = "done" => lanes = <<>> /\ Len(rows) = Len(rowOrder)

LEMMA NoEdgeIs == NoEdge \in LaneEdge /\ NoEdge.target = 0
BY DEF NoEdge, LaneEdge

LEMMA RowBegins ==
  ASSUME EdgesOK(edges), Placing, Drawing, BeginRow
  PROVE  Drawing'
<1>. DEFINE n == Len(rows)
            incoming == {i \in DOMAIN lanes : lanes[i].target = rowOrder[n + 1]}
            column == IF incoming = {} THEN FreeLane(lanes, {}) ELSE Min(incoming)
            freed == [i \in DOMAIN lanes |-> IF i \in incoming THEN NoEdge ELSE lanes[i]]
            row == [column |-> column, ends |-> incoming, segments |-> Above(incoming, column)]
<1>1. /\ phase = "row" /\ n < Len(rowOrder)
      /\ rows' = Append(rows, row) /\ lanes' = PutEdge(freed, column, NoEdge)
      /\ led' = 0 /\ phase' = "lead" /\ edges' = edges /\ rowOrder' = rowOrder
  BY DEF BeginRow
<1>2. /\ rows \in Seq(DrawnRow) /\ lanes \in Seq(LaneEdge) /\ n \in Nat /\ DOMAIN rows = 1..n
      /\ DOMAIN lanes = 1..Len(lanes) /\ Len(lanes) \in Nat
      /\ rowOrder \in Seq(Nat) /\ Len(rowOrder) \in Nat /\ DOMAIN rowOrder = 1..Len(rowOrder)
  BY DEF Drawing, Placing
<1>3. n + 1 \in DOMAIN rowOrder /\ rowOrder[n + 1] # 0
  <2>1. n + 1 \in DOMAIN rowOrder
    BY <1>1, <1>2
  <2>2. rowOrder[n + 1] \in DOMAIN edges
    BY <2>1 DEF Placing, Range
  <2>. QED BY <2>1, <2>2 DEF EdgesOK
<1>4. \A i \in incoming : i \in DOMAIN lanes /\ i \in Nat /\ lanes[i].target = rowOrder[n + 1] /\ lanes[i] # NoEdge
  BY <1>2, <1>3, NoEdgeIs
<1>5. \A i \in DOMAIN lanes : i \notin incoming => lanes[i].target # rowOrder[n + 1]
  OBVIOUS
<1>6. incoming \in SUBSET Nat
  BY <1>2
<1>. HIDE DEF incoming
<1>7. column \in 1..(Len(lanes) + 1) /\ (column \in DOMAIN lanes => column \in incoming \/ lanes[column] = NoEdge)
  <2>1. CASE incoming = {}
    <3>1. column = FreeLane(lanes, {})
      BY <2>1
    <3>. QED BY <1>2, <3>1, FreeLaneIs
  <2>2. CASE incoming # {}
    <3>1. column \in incoming
      BY <1>6, <2>2, MinIs
    <3>. HIDE DEF column
    <3>. QED BY <1>2, <1>4, <3>1
  <2>. QED BY <2>1, <2>2
<1>8. column \in Nat
  <2>. HIDE DEF column
  <2>. QED BY <1>2, <1>7
<1>. HIDE DEF column
<1>9. freed \in Seq(LaneEdge) /\ Len(freed) = Len(lanes) /\ DOMAIN freed = DOMAIN lanes
      /\ \A i \in DOMAIN lanes : freed[i] = IF i \in incoming THEN NoEdge ELSE lanes[i]
  <2>. DEFINE T == LaneEdge
  <2>1. NoEdge \in T /\ lanes \in Seq(T)
    BY <1>2, NoEdgeIs
  <2>. HIDE DEF T
  <2>2. freed \in [1..Len(lanes) -> T]
    BY <1>2, <2>1
  <2>. HIDE DEF freed
  <2>3. freed \in Seq(T) /\ Len(freed) = Len(lanes)
    BY <1>2, <2>2
  <2>. QED BY <2>3 DEF T, freed
<1>. HIDE DEF freed
<1>10. /\ lanes' \in Seq(LaneEdge) /\ DOMAIN lanes' = DOMAIN lanes \cup {column} /\ lanes'[column] = NoEdge
       /\ \A i \in DOMAIN lanes : i # column => lanes'[i] = IF i \in incoming THEN NoEdge ELSE lanes[i]
  <2>1. column \in 1..(Len(freed) + 1)
    BY <1>7, <1>9
  <2>. DEFINE t == PutEdge(freed, column, NoEdge)
  <2>2. /\ t \in Seq(LaneEdge) /\ DOMAIN t = DOMAIN freed \cup {column} /\ t[column] = NoEdge
        /\ \A i \in DOMAIN freed : i # column => t[i] = freed[i]
    <3>1. freed \in Seq(LaneEdge) /\ column \in 1..(Len(freed) + 1) /\ NoEdge \in LaneEdge
      BY <1>9, <2>1, NoEdgeIs
    <3>. QED BY <3>1, PutEdgeIs
  <2>3. lanes' = t
    BY <1>1
  <2>. HIDE DEF t
  <2>. QED BY <1>9, <2>2, <2>3
<1>11. \A i \in DOMAIN lanes' : lanes'[i] # NoEdge => i \in DOMAIN lanes /\ i \notin incoming /\ lanes'[i] = lanes[i]
  BY <1>10
<1>12. \A i \in DOMAIN lanes : lanes[i] # NoEdge /\ i \notin incoming => i \in DOMAIN lanes' /\ lanes'[i] = lanes[i]
  BY <1>7, <1>10
<1>13. /\ Above(incoming, column) \in SUBSET Segment
       /\ \A i \in DOMAIN lanes : lanes[i] # NoEdge /\ i \in incoming =>
            /\ Vertical(i, "top", "middle", lanes[i].elided) \in Above(incoming, column)
            /\ column = i \/ Horizontal(i, column, i, lanes[i].elided) \in Above(incoming, column)
       /\ \A i \in DOMAIN lanes : lanes[i] # NoEdge /\ i \notin incoming =>
            Vertical(i, "top", "bottom", lanes[i].elided) \in Above(incoming, column)
  BY <1>2, <1>8, AboveIs
<1>14. row \in DrawnRow /\ row.column = column /\ row.segments = Above(incoming, column)
  BY <1>6, <1>8, <1>13 DEF DrawnRow
<1>. HIDE DEF row
<1>15. /\ rows' \in Seq(DrawnRow) /\ Len(rows') = n + 1 /\ DOMAIN rows' = 1..(n + 1)
       /\ rows'[n + 1] = row /\ \A i \in DOMAIN rows : rows'[i] = rows[i]
  <2>. DEFINE T == DrawnRow
  <2>1. rows \in Seq(T) /\ row \in T
    BY <1>2, <1>14
  <2>. HIDE DEF T
  <2>2. /\ Append(rows, row) \in Seq(T) /\ Len(Append(rows, row)) = n + 1 /\ DOMAIN Append(rows, row) = 1..(n + 1)
        /\ Append(rows, row)[n + 1] = row /\ \A i \in DOMAIN rows : Append(rows, row)[i] = rows[i]
    BY <2>1
  <2>. QED BY <1>1, <2>2 DEF T
<1>16. Keeps(rows, rows')
  BY <1>2, <1>15 DEF Keeps
<1>17. ASSUME NEW l \in DOMAIN lanes', lanes'[l] # NoEdge
       PROVE  \E j \in DOMAIN rowOrder : j > n + 1 /\ rowOrder[j] = lanes'[l].target
  <2>1. l \in DOMAIN lanes /\ l \notin incoming /\ lanes'[l] = lanes[l] /\ lanes[l] # NoEdge
    BY <1>11, <1>17
  <2>2. PICK j \in DOMAIN rowOrder : j > n /\ rowOrder[j] = lanes[l].target
    BY <2>1 DEF Drawing
  <2>3. j # n + 1
    BY <1>5, <2>1, <2>2
  <2>. QED BY <1>2, <2>1, <2>2, <2>3
<1>18. ASSUME NEW i \in DOMAIN rows, NEW edge, OnItsWay(rows, lanes, i, edge), edge # NoEdge
       PROVE  OnItsWay(rows', lanes', i, edge) \/ Arrived(rowOrder, rows', i, edge)
  <2>1. PICK l \in DOMAIN lanes : lanes[l] = edge /\ Goes(rows, i, n, l, edge.elided)
    BY <1>18 DEF OnItsWay
  <2>2. Goes(rows', i, n, l, edge.elided)
    <3>1. n \in Int /\ n <= Len(rows)
      BY <1>2
    <3>. HIDE DEF n
    <3>. QED BY <1>2, <1>16, <2>1, <3>1, StillGoes
  <2>3. CASE l \in incoming
    <3>1. rowOrder[n + 1] = edge.target /\ n + 1 \in DOMAIN rows' /\ (n + 1) - 1 = n /\ l \in Nat
      BY <1>2, <1>4, <1>15, <2>1, <2>3
    <3>2. Ends(rows', n + 1, l, edge.elided)
      BY <1>4, <1>13, <1>14, <1>15, <2>1, <2>3 DEF Ends
    <3>. QED BY <2>2, <3>1, <3>2 DEF Arrived
  <2>4. CASE l \notin incoming
    <3>1. l \in DOMAIN lanes' /\ lanes'[l] = edge
      BY <1>12, <1>18, <2>1, <2>4
    <3>2. Vertical(l, "top", "bottom", edge.elided) \in rows'[n + 1].segments
      BY <1>13, <1>14, <1>15, <1>18, <2>1, <2>4
    <3>3. i \in 1..n
      BY <1>2
    <3>4. \A m \in (i + 1)..(n + 1) : m = n + 1 \/ m \in (i + 1)..n
      BY <1>2, <3>3
    <3>5. Goes(rows', i, n + 1, l, edge.elided)
      BY <2>2, <3>2, <3>4 DEF Goes
    <3>. QED BY <1>15, <3>1, <3>5 DEF OnItsWay
  <2>. QED BY <2>3, <2>4
<1>19. ASSUME NEW i \in DOMAIN rows', NEW k \in DOMAIN edges[rowOrder[i]], i = n + 1 => k <= 0
       PROVE  \/ OnItsWay(rows', lanes', i, edges[rowOrder[i]][k])
              \/ Arrived(rowOrder, rows', i, edges[rowOrder[i]][k])
  <2>. DEFINE edge == edges[rowOrder[i]][k]
              T == [target : Repo \cap DOMAIN edges, elided : BOOLEAN]
  <2>1. rowOrder[i] \in DOMAIN edges
    <3>1. i \in DOMAIN rowOrder
      BY <1>1, <1>2, <1>15
    <3>. QED BY <3>1 DEF Placing, Range
  <2>2. edges[rowOrder[i]] \in Seq(T)
    BY <2>1 DEF EdgesOK
  <2>. HIDE DEF T
  <2>3. k \in Nat /\ k > 0 /\ edges[rowOrder[i]][k] \in T
    BY <2>2
  <2>4. i \in DOMAIN rows
    BY <1>2, <1>15, <1>19, <2>3
  <2>5. edge # NoEdge
    <3>1. edge.target # 0
      BY <2>3, RepoIs DEF T
    <3>. QED BY <3>1, NoEdgeIs
  <2>6. OnItsWay(rows, lanes, i, edge) \/ Arrived(rowOrder, rows, i, edge)
    BY <1>1, <2>4 DEF Drawing
  <2>. HIDE DEF edge
  <2>7. Arrived(rowOrder, rows, i, edge) => Arrived(rowOrder, rows', i, edge)
    BY <1>2, <1>16, <2>4, StillArrived
  <2>8. OnItsWay(rows', lanes', i, edge) \/ Arrived(rowOrder, rows', i, edge)
    BY <1>18, <2>4, <2>5, <2>6, <2>7
  <2>. QED BY <2>8 DEF edge
<1>20. ASSUME NEW l \in DOMAIN lanes', lanes'[l] # NoEdge
       PROVE  \E from \in {"top", "middle"} : Vertical(l, from, "bottom", lanes'[l].elided) \in rows'[n + 1].segments
  BY <1>11, <1>13, <1>14, <1>15, <1>20
<1>21. Len(rows') \in DOMAIN rows' /\ rows'[n + 1].column \in DOMAIN lanes' /\ lanes'[rows'[n + 1].column] = NoEdge
  BY <1>2, <1>10, <1>14, <1>15
<1>22. Len(rows') <= Len(rowOrder')
  BY <1>1, <1>2, <1>15
<1>. QED BY <1>1, <1>10, <1>15, <1>17, <1>19, <1>20, <1>21, <1>22 DEF Drawing

LEMMA EdgeIsLed ==
  ASSUME EdgesOK(edges), Placing, stack = <<>>, Drawing, LeadEdge
  PROVE  Drawing'
<1>. DEFINE n == Len(rows)
            c == rowOrder[n]
            parents == edges[c]
            edge == parents[led + 1]
            column == rows[n].column
            shared == Shared(lanes, edge)
            lane == IF shared # {} THEN Min(shared) ELSE IF led = 0 THEN column ELSE FreeLane(lanes, rows[n].ends)
            down == IF shared # {} THEN {} ELSE {Vertical(lane, "middle", "bottom", edge.elided)}
            new == down \cup Across(column, lane, lane, edge.elided)
<1>1. /\ phase = "lead" /\ phase' = "lead" /\ led < Len(parents) /\ led' = led + 1
      /\ lanes' = IF shared # {} THEN lanes ELSE PutEdge(lanes, lane, edge)
      /\ rows' = [rows EXCEPT ![n].segments = @ \cup down \cup Across(column, lane, lane, edge.elided)]
      /\ edges' = edges /\ rowOrder' = rowOrder
  BY DEF LeadEdge, Last
<1>2. /\ rows \in Seq(DrawnRow) /\ lanes \in Seq(LaneEdge) /\ n \in Nat /\ DOMAIN rows = 1..n /\ n \in DOMAIN rows
      /\ DOMAIN lanes = 1..Len(lanes) /\ Len(lanes) \in Nat /\ led \in Nat /\ n <= Len(rowOrder)
      /\ rowOrder \in Seq(Nat) /\ Len(rowOrder) \in Nat /\ DOMAIN rowOrder = 1..Len(rowOrder)
  BY <1>1 DEF Drawing, Placing
<1>3. c \in DOMAIN edges /\ n \in DOMAIN rowOrder
  <2>1. n \in DOMAIN rowOrder
    BY <1>2
  <2>. QED BY <2>1 DEF Placing, Range
<1>4. /\ led + 1 \in DOMAIN parents /\ edge \in LaneEdge /\ edge # NoEdge /\ edge.elided \in BOOLEAN
      /\ \E j \in DOMAIN rowOrder : j > n /\ rowOrder[j] = edge.target
  <2>. DEFINE T == [target : Repo \cap DOMAIN edges, elided : BOOLEAN]
  <2>1. parents \in Seq(T)
    BY <1>3 DEF EdgesOK
  <2>. HIDE DEF T, c
  <2>2. led + 1 \in DOMAIN parents /\ edge \in T
    BY <1>1, <1>2, <2>1
  <2>3. T \subseteq LaneEdge /\ \A e \in T : e.target \in DOMAIN edges /\ e.target # 0 /\ e.elided \in BOOLEAN
    BY RepoIs DEF T, LaneEdge
  <2>4. edge.target \in EdgeTargets(edges, c)
    BY <2>2 DEF EdgeTargets
  <2>. HIDE DEF edge
  <2>5. Range(rowOrder) = DOMAIN edges
    BY AllArePlaced
  <2>6. PICK j \in DOMAIN rowOrder : rowOrder[j] = edge.target
    BY <2>2, <2>3, <2>5 DEF Range
  <2>7. PICK h \in DOMAIN rowOrder : rowOrder[h] = c /\ h < j
    BY <1>3, <2>4, <2>6 DEF Placing
  <2>8. h = n
    BY <1>3, <2>7 DEF c, Placing, IsInjective
  <2>9. j > n
    BY <1>2, <2>7, <2>8
  <2>. QED BY <2>2, <2>3, <2>6, <2>9, NoEdgeIs
<1>5. column \in Nat /\ rows[n] \in DrawnRow
  <2>1. rows[n] \in DrawnRow
    BY <1>2
  <2>2. \A r \in DrawnRow : r.column \in Nat
    BY DEF DrawnRow
  <2>. QED BY <2>1, <2>2
<1>6. /\ led = 0 => column \in DOMAIN lanes /\ lanes[column] = NoEdge
      /\ \A l \in DOMAIN lanes : lanes[l] # NoEdge =>
           \E from \in {"top", "middle"} : Vertical(l, from, "bottom", lanes[l].elided) \in rows[n].segments
  BY <1>1 DEF Drawing
<1>. HIDE DEF edge, parents, column, c
<1>7. /\ lane \in Nat /\ lanes' \in Seq(LaneEdge) /\ lane \in DOMAIN lanes' /\ lanes'[lane] = edge
      /\ \A l \in DOMAIN lanes : lanes[l] # NoEdge => l \in DOMAIN lanes' /\ lanes'[l] = lanes[l]
      /\ \A l \in DOMAIN lanes' : l = lane \/ (l \in DOMAIN lanes /\ lanes[l] = lanes'[l])
      /\ \E from \in {"top", "middle"} : Vertical(lane, from, "bottom", edge.elided) \in rows[n].segments \cup down
      /\ down \in SUBSET Segment
  <2>1. CASE shared # {}
    <3>1. shared \in SUBSET Nat /\ \A l \in shared : l \in DOMAIN lanes /\ lanes[l] = edge
      BY <1>2 DEF Shared
    <3>2. lane \in shared
      BY <2>1, <3>1, MinIs
    <3>3. lane \in DOMAIN lanes /\ lane \in Nat /\ lanes[lane] = edge /\ lanes' = lanes /\ down = {}
      BY <1>1, <2>1, <3>1, <3>2
    <3>. HIDE DEF lane, down
    <3>4. \E from \in {"top", "middle"} : Vertical(lane, from, "bottom", edge.elided) \in rows[n].segments
      BY <1>4, <1>6, <3>3
    <3>. QED BY <1>2, <3>3, <3>4
  <2>2. CASE shared = {}
    <3>1. lane \in 1..(Len(lanes) + 1) /\ (lane \in DOMAIN lanes => lanes[lane] = NoEdge)
      <4>1. CASE led = 0
        <5>1. lane = column
          BY <2>2, <4>1
        <5>. QED BY <1>2, <1>6, <4>1, <5>1
      <4>2. CASE led # 0
        <5>1. lane = FreeLane(lanes, rows[n].ends)
          BY <2>2, <4>2
        <5>. HIDE DEF lane
        <5>2. /\ FreeLane(lanes, rows[n].ends) \in 1..(Len(lanes) + 1)
              /\ FreeLane(lanes, rows[n].ends) \in DOMAIN lanes => lanes[FreeLane(lanes, rows[n].ends)] = NoEdge
          BY <1>2, FreeLaneIs
        <5>. QED BY <5>1, <5>2
      <4>. QED BY <4>1, <4>2
    <3>2. lanes' = PutEdge(lanes, lane, edge) /\ down = {Vertical(lane, "middle", "bottom", edge.elided)}
      BY <1>1, <2>2
    <3>. HIDE DEF lane, down
    <3>3. /\ lanes' \in Seq(LaneEdge) /\ DOMAIN lanes' = DOMAIN lanes \cup {lane} /\ lanes'[lane] = edge
          /\ \A l \in DOMAIN lanes : l # lane => lanes'[l] = lanes[l]
      <4>. DEFINE t == PutEdge(lanes, lane, edge)
      <4>1. lanes \in Seq(LaneEdge) /\ lane \in 1..(Len(lanes) + 1) /\ edge \in LaneEdge
        BY <1>2, <1>4, <3>1
      <4>2. /\ t \in Seq(LaneEdge) /\ DOMAIN t = DOMAIN lanes \cup {lane} /\ t[lane] = edge
            /\ \A l \in DOMAIN lanes : l # lane => t[l] = lanes[l]
        BY <4>1, PutEdgeIs
      <4>3. lanes' = t
        BY <3>2
      <4>. HIDE DEF t
      <4>. QED BY <4>2, <4>3
    <3>4. lane \in Nat
      BY <1>2, <3>1
    <3>5. down \in SUBSET Segment
      BY <1>4, <3>2, <3>4, SegmentsAre
    <3>6. \A l \in DOMAIN lanes : lanes[l] # NoEdge => l \in DOMAIN lanes' /\ lanes'[l] = lanes[l]
      BY <3>1, <3>3
    <3>7. \A l \in DOMAIN lanes' : l = lane \/ (l \in DOMAIN lanes /\ lanes[l] = lanes'[l])
      BY <3>3
    <3>8. Vertical(lane, "middle", "bottom", edge.elided) \in rows[n].segments \cup down
      BY <3>2
    <3>. QED BY <3>3, <3>4, <3>5, <3>6, <3>7, <3>8
  <2>. QED BY <2>1, <2>2
<1>. HIDE DEF lane, down
<1>8. new \in SUBSET Segment /\ down \subseteq new
      /\ (column # lane => Horizontal(column, lane, lane, edge.elided) \in new)
  <2>1. Across(column, lane, lane, edge.elided) \in SUBSET Segment
    BY <1>4, <1>5, <1>7, SegmentsAre
  <2>2. column # lane => Horizontal(column, lane, lane, edge.elided) \in Across(column, lane, lane, edge.elided)
    BY SegmentsAre
  <2>. QED BY <1>7, <2>1, <2>2
<1>9. /\ rows' \in Seq(DrawnRow) /\ Len(rows') = n /\ DOMAIN rows' = DOMAIN rows
      /\ rows'[n].column = column /\ rows'[n].segments = rows[n].segments \cup new
      /\ \A i \in DOMAIN rows : i # n => rows'[i] = rows[i]
  <2>. DEFINE row == [rows[n] EXCEPT !.segments = @ \cup new]
              T == DrawnRow
  <2>1. rows' = [rows EXCEPT ![n] = row]
    BY <1>1, <1>2
  <2>. HIDE DEF new
  <2>2. row \in T /\ row.column = column /\ row.segments = rows[n].segments \cup new
    BY <1>5, <1>8 DEF DrawnRow, column
  <2>3. rows \in Seq(T)
    BY <1>2
  <2>. HIDE DEF row, T
  <2>4. rows' \in Seq(T) /\ Len(rows') = n /\ DOMAIN rows' = DOMAIN rows
    BY <1>2, <2>1, <2>2, <2>3
  <2>5. rows'[n] = row /\ \A i \in DOMAIN rows : i # n => rows'[i] = rows[i]
    BY <1>2, <2>1
  <2>. QED BY <2>2, <2>4, <2>5 DEF T
<1>. HIDE DEF new
<1>10. Keeps(rows, rows')
  BY <1>9 DEF Keeps, column
<1>11. Goes(rows', n, n, lane, edge.elided)
  <2>1. \E from \in {"top", "middle"} : Vertical(lane, from, "bottom", edge.elided) \in rows'[n].segments
    BY <1>7, <1>8, <1>9
  <2>2. (n + 1)..n = {}
    BY <1>2
  <2>. QED BY <1>8, <1>9, <2>1, <2>2 DEF Goes
<1>12. ASSUME NEW i \in DOMAIN rows, NEW e, e # NoEdge,
              OnItsWay(rows, lanes, i, e) \/ Arrived(rowOrder, rows, i, e)
       PROVE  OnItsWay(rows', lanes', i, e) \/ Arrived(rowOrder, rows', i, e)
  <2>1. CASE Arrived(rowOrder, rows, i, e)
    BY <1>2, <1>10, <2>1, StillArrived
  <2>2. CASE OnItsWay(rows, lanes, i, e)
    <3>1. PICK l \in DOMAIN lanes : lanes[l] = e /\ Goes(rows, i, n, l, e.elided)
      BY <2>2 DEF OnItsWay
    <3>2. Goes(rows', i, n, l, e.elided)
      <4>1. n \in Int /\ n <= Len(rows)
        BY <1>2
      <4>. HIDE DEF n
      <4>. QED BY <1>2, <1>10, <3>1, <4>1, StillGoes
    <3>. QED BY <1>7, <1>9, <1>12, <3>1, <3>2 DEF OnItsWay
  <2>. QED BY <1>12, <2>1, <2>2
<1>13. OnItsWay(rows', lanes', n, edge)
  BY <1>7, <1>9, <1>11 DEF OnItsWay
<1>14. ASSUME NEW i \in DOMAIN rows', NEW k \in DOMAIN edges[rowOrder[i]], i = n => k <= led + 1
       PROVE  \/ OnItsWay(rows', lanes', i, edges[rowOrder[i]][k])
              \/ Arrived(rowOrder, rows', i, edges[rowOrder[i]][k])
  <2>. DEFINE e == edges[rowOrder[i]][k]
              T == [target : Repo \cap DOMAIN edges, elided : BOOLEAN]
  <2>1. i \in DOMAIN rows /\ rowOrder[i] \in DOMAIN edges
    <3>1. i \in DOMAIN rowOrder
      BY <1>2, <1>9
    <3>. QED BY <1>9, <3>1 DEF Placing, Range
  <2>2. edges[rowOrder[i]] \in Seq(T)
    BY <2>1 DEF EdgesOK
  <2>. HIDE DEF T
  <2>3. k \in Nat /\ e \in T
    BY <2>2
  <2>4. e # NoEdge
    <3>1. e.target # 0
      BY <2>3, RepoIs DEF T
    <3>. QED BY <3>1, NoEdgeIs
  <2>5. CASE i = n /\ k = led + 1
    <3>1. e = edge
      BY <2>5 DEF edge, parents, c
    <3>. QED BY <1>13, <2>5, <3>1
  <2>6. CASE i # n \/ k <= led
    <3>1. OnItsWay(rows, lanes, i, e) \/ Arrived(rowOrder, rows, i, e)
      BY <1>1, <2>1, <2>6 DEF Drawing
    <3>. HIDE DEF e
    <3>2. OnItsWay(rows', lanes', i, e) \/ Arrived(rowOrder, rows', i, e)
      BY <1>12, <2>1, <2>4, <3>1
    <3>. QED BY <3>2 DEF e
  <2>. QED BY <1>2, <1>14, <2>3, <2>5, <2>6
<1>15. ASSUME NEW l \in DOMAIN lanes', lanes'[l] # NoEdge
       PROVE  \E j \in DOMAIN rowOrder : j > n /\ rowOrder[j] = lanes'[l].target
  <2>1. CASE l = lane
    BY <1>4, <1>7, <2>1
  <2>2. CASE l # lane
    BY <1>7, <1>15, <2>2 DEF Drawing
  <2>. QED BY <2>1, <2>2
<1>16. ASSUME NEW l \in DOMAIN lanes', lanes'[l] # NoEdge
       PROVE  \E from \in {"top", "middle"} : Vertical(l, from, "bottom", lanes'[l].elided) \in rows'[n].segments
  <2>1. CASE l = lane
    BY <1>7, <1>8, <1>9, <2>1
  <2>2. CASE l # lane
    BY <1>6, <1>7, <1>9, <1>16, <2>2
  <2>. QED BY <2>1, <2>2
<1>17. led' \in Nat /\ led' # 0
  BY <1>1, <1>2
<1>18. Len(rows') <= Len(rowOrder') /\ Len(rows') \in DOMAIN rows'
  BY <1>1, <1>2, <1>9
<1>. QED BY <1>1, <1>7, <1>9, <1>14, <1>15, <1>16, <1>17, <1>18 DEF Drawing

LEMMA RowEnds ==
  ASSUME EdgesOK(edges), Placing, Drawing, EndRow
  PROVE  Drawing'
<1>. DEFINE n == Len(rows)
<1>1. /\ phase = "lead" /\ led = Len(edges[rowOrder[n]]) /\ lanes' = Trimmed(lanes)
      /\ phase' = (IF n = Len(rowOrder) THEN "done" ELSE "row")
      /\ rows' = rows /\ edges' = edges /\ rowOrder' = rowOrder
  BY DEF EndRow
<1>2. /\ rows \in Seq(DrawnRow) /\ lanes \in Seq(LaneEdge) /\ n \in Nat /\ DOMAIN rows = 1..n
      /\ rowOrder \in Seq(Nat) /\ Len(rowOrder) \in Nat /\ DOMAIN rowOrder = 1..Len(rowOrder) /\ n <= Len(rowOrder)
  BY DEF Drawing, Placing
<1>3. /\ lanes' \in Seq(LaneEdge) /\ DOMAIN lanes' \subseteq DOMAIN lanes
      /\ \A l \in DOMAIN lanes' : lanes'[l] = lanes[l]
      /\ \A l \in DOMAIN lanes : lanes[l] # NoEdge => l \in DOMAIN lanes'
      /\ (\A l \in DOMAIN lanes : lanes[l] = NoEdge) => lanes' = <<>>
  BY <1>1, <1>2, TrimmedIs
<1>4. \A l \in DOMAIN lanes' : lanes'[l] # NoEdge => \E j \in DOMAIN rowOrder : j > n /\ rowOrder[j] = lanes'[l].target
  BY <1>3 DEF Drawing
<1>5. ASSUME NEW i \in DOMAIN rows, NEW k \in DOMAIN edges[rowOrder[i]]
      PROVE  \/ OnItsWay(rows, lanes', i, edges[rowOrder[i]][k])
             \/ Arrived(rowOrder, rows, i, edges[rowOrder[i]][k])
  <2>. DEFINE e == edges[rowOrder[i]][k]
              T == [target : Repo \cap DOMAIN edges, elided : BOOLEAN]
  <2>1. rowOrder[i] \in DOMAIN edges
    <3>1. i \in DOMAIN rowOrder
      BY <1>2
    <3>. QED BY <3>1 DEF Placing, Range
  <2>2. edges[rowOrder[i]] \in Seq(T)
    BY <2>1 DEF EdgesOK
  <2>. HIDE DEF T
  <2>3. k <= Len(edges[rowOrder[i]]) /\ e \in T
    BY <2>2
  <2>4. e # NoEdge
    <3>1. e.target # 0
      BY <2>3, RepoIs DEF T
    <3>. QED BY <3>1, NoEdgeIs
  <2>5. OnItsWay(rows, lanes, i, e) \/ Arrived(rowOrder, rows, i, e)
    BY <1>1, <2>3 DEF Drawing
  <2>. HIDE DEF e
  <2>6. OnItsWay(rows, lanes, i, e) => OnItsWay(rows, lanes', i, e)
    BY <1>3, <2>4 DEF OnItsWay
  <2>7. OnItsWay(rows, lanes', i, e) \/ Arrived(rowOrder, rows, i, e)
    BY <2>5, <2>6
  <2>. QED BY <2>7 DEF e
<1>6. ASSUME n = Len(rowOrder) PROVE lanes' = <<>>
  <2>1. ASSUME NEW l \in DOMAIN lanes, lanes[l] # NoEdge PROVE FALSE
    <3>1. PICK j \in DOMAIN rowOrder : j > n
      BY <2>1 DEF Drawing
    <3>. QED BY <1>2, <1>6, <3>1
  <2>. QED BY <1>3, <2>1
<1>7. phase' # "lead" /\ (phase' = "done" => n = Len(rowOrder))
  BY <1>1
<1>. QED BY <1>1, <1>2, <1>3, <1>4, <1>5, <1>6, <1>7 DEF Drawing

LEMMA EdgesAreConnected ==
  ASSUME Placing, Drawing
  PROVE  EdgesConnect
<1>. SUFFICES ASSUME phase = "done" PROVE EdgesConnect
  BY DEF EdgesConnect
<1>1. lanes = <<>> /\ DOMAIN lanes = {} /\ DOMAIN rows = DOMAIN rowOrder
  BY DEF Drawing, Placing
<1>2. ASSUME NEW i \in DOMAIN rowOrder, NEW j \in DOMAIN rowOrder, NEW k \in DOMAIN edges[rowOrder[i]],
             edges[rowOrder[i]][k].target = rowOrder[j]
      PROVE  LET edge == edges[rowOrder[i]][k] IN
             \E lane \in {s.lane : s \in rows[i].segments} :
               /\ Leaves(i, lane, edge.elided) /\ Arrives(j, lane, edge.elided)
               /\ \A m \in (i + 1)..(j - 1) : Vertical(lane, "top", "bottom", edge.elided) \in rows[m].segments
  <2>. DEFINE edge == edges[rowOrder[i]][k]
  <2>1. OnItsWay(rows, lanes, i, edge) \/ Arrived(rowOrder, rows, i, edge)
    BY <1>1 DEF Drawing
  <2>. HIDE DEF edge
  <2>2. Arrived(rowOrder, rows, i, edge)
    BY <1>1, <2>1 DEF OnItsWay
  <2>3. PICK h \in DOMAIN rows : /\ rowOrder[h] = edge.target
                                 /\ \E lane \in Nat : Goes(rows, i, h - 1, lane, edge.elided) /\ Ends(rows, h, lane, edge.elided)
    BY <2>2 DEF Arrived
  <2>4. h = j
    BY <1>1, <1>2, <2>3 DEF edge, Placing, IsInjective
  <2>5. PICK lane \in Nat : Goes(rows, i, j - 1, lane, edge.elided) /\ Ends(rows, j, lane, edge.elided)
    BY <2>3, <2>4
  <2>6. Leaves(i, lane, edge.elided) /\ Arrives(j, lane, edge.elided)
    BY <2>5 DEF Goes, Ends, Leaves, Arrives
  <2>7. PICK from \in {"top", "middle"} : Vertical(lane, from, "bottom", edge.elided) \in rows[i].segments
    BY <2>5 DEF Goes
  <2>8. Vertical(lane, from, "bottom", edge.elided).lane = lane
    BY DEF Vertical
  <2>9. \A m \in (i + 1)..(j - 1) : Vertical(lane, "top", "bottom", edge.elided) \in rows[m].segments
    BY <2>5 DEF Goes
  <2>10. lane \in {s.lane : s \in rows[i].segments}
    BY <2>7, <2>8
  <2>. QED BY <2>6, <2>9, <2>10 DEF edge
<1>. QED BY <1>1, <1>2 DEF EdgesConnect

-----------------------------------------------------------------------------
(* Timeline: the theorem.                                                  *)

TimelineIInv ==
  /\ GraphOK
  /\ phase = "ask" => rowOrder = <<>>
  /\ phase \in {"ask", "place"} => lanes = <<>> /\ rows = <<>>
  /\ phase # "ask" => EdgesOK(edges) /\ ShownOK(DOMAIN edges) /\ Placing /\ Drawing
  /\ phase \in {"row", "lead", "done"} => stack = <<>>

LEMMA TimelineStarts == TimelineInit => TimelineIInv
<1>. SUFFICES ASSUME TimelineInit PROVE TimelineIInv
  OBVIOUS
<1>1. ASSUME NEW c \in Repo PROVE DOMAIN parentsOf[c] \in SUBSET Nat /\ Range(parentsOf[c]) \subseteq 1..(c - 1)
  <2>1. parentsOf[c] \in ParentLists(c)
    BY DEF TimelineInit
  <2>2. PICK n \in 0..MaxParents : parentsOf[c] \in [1..n -> 1..(c - 1)]
    BY <2>1 DEF ParentLists
  <2>. QED BY <2>2 DEF Range
<1>2. tipIs \in Repo /\ skew \in 0..(Size - 1) /\ deployed \in SUBSET (1..(Size + 1))
  BY DEF TimelineInit
<1>3. phase = "ask" /\ rowOrder = <<>> /\ lanes = <<>> /\ rows = <<>>
  BY DEF TimelineInit
<1>. QED BY <1>1, <1>2, <1>3 DEF TimelineIInv, GraphOK

\* The repository and what was deployed stay, and so does what depends on them.
LEMMA GraphStays ==
  ASSUME UNCHANGED <<parentsOf, tipIs, skew, deployed>>
  PROVE  /\ GraphOK => GraphOK'
         /\ \A es : EdgesOK(es) /\ edges' = es => EdgesOK(edges)'
         /\ \A shown : ShownOK(shown) /\ DOMAIN edges' = shown => ShownOK(DOMAIN edges)'
<1>1. Up' = Up
  BY DEF Up
<1>2. GraphOK => GraphOK'
  BY DEF GraphOK
<1>3. ASSUME NEW es, EdgesOK(es), edges' = es PROVE EdgesOK(edges)'
  <2>1. \A c : EdgeTargets(edges, c)' = EdgeTargets(es, c)
    BY <1>3 DEF EdgeTargets
  <2>2. \A c : Nearest(c, DOMAIN edges \cap Repo)' = Nearest(c, DOMAIN es \cap Repo)
    BY <1>1, <1>3 DEF Nearest
  <2>. QED BY <1>3, <2>1, <2>2 DEF EdgesOK
<1>4. ASSUME NEW shown, ShownOK(shown), DOMAIN edges' = shown PROVE ShownOK(DOMAIN edges)'
  BY <1>1, <1>4 DEF ShownOK
<1>. QED BY <1>2, <1>3, <1>4

LEMMA TimelineGoesOn == TimelineIInv /\ [TimelineNext]_timelineVars => TimelineIInv'
<1>. SUFFICES ASSUME TimelineIInv, [TimelineNext]_timelineVars PROVE TimelineIInv'
  OBVIOUS
<1>0. GraphOK
  BY DEF TimelineIInv
<1>1. CASE Arrange
  <2>. DEFINE es == Edges(Shown)
  <2>1. /\ phase = "ask" /\ phase' = "place" /\ edges' = es /\ rowOrder = <<>> /\ rowOrder' = <<>>
        /\ lanes' = <<>> /\ rows' = <<>>
    BY <1>1 DEF TimelineIInv, Arrange
  <2>2. UNCHANGED <<parentsOf, tipIs, skew, deployed>>
    BY <1>1 DEF Arrange
  <2>3. DOMAIN es = Shown /\ EdgesOK(es)
    BY <1>0, EdgesAreOK
  <2>4. ShownOK(DOMAIN es)
    BY <1>0, <2>3, ShownIs DEF ShownOK
  <2>5. Placing'
    BY <1>0, <1>1, <2>1, PlacingStarts
  <2>. HIDE DEF es
  <2>6. GraphOK' /\ EdgesOK(edges)' /\ ShownOK(DOMAIN edges)'
    BY <1>0, <2>1, <2>2, <2>3, <2>4, GraphStays
  <2>7. Drawing'
    BY <2>1 DEF Drawing
  <2>. QED BY <2>1, <2>5, <2>6, <2>7 DEF TimelineIInv
<1>2. CASE PlaceNext
  <2>1. /\ phase = "place" /\ phase' \in {"place", "row"} /\ (phase' = "row" => stack' = <<>>)
        /\ edges' = edges /\ lanes' = <<>> /\ rows' = <<>>
    BY <1>2 DEF TimelineIInv, PlaceNext
  <2>2. UNCHANGED <<parentsOf, tipIs, skew, deployed>>
    BY <1>2 DEF PlaceNext
  <2>3. EdgesOK(edges) /\ ShownOK(DOMAIN edges) /\ Placing
    BY <2>1 DEF TimelineIInv
  <2>4. Placing'
    BY <1>2, <2>3, PlacingGoesOn
  <2>5. GraphOK' /\ EdgesOK(edges)' /\ ShownOK(DOMAIN edges)'
    BY <1>0, <2>1, <2>2, <2>3, GraphStays
  <2>6. Drawing'
    BY <2>1, <2>4 DEF Drawing, Placing
  <2>. QED BY <2>1, <2>4, <2>5, <2>6 DEF TimelineIInv
<1>3. CASE BeginRow \/ LeadEdge \/ EndRow
  <2>1. /\ phase \in {"row", "lead"} /\ phase' \in {"row", "lead", "done"}
        /\ edges' = edges /\ stack' = stack /\ rowOrder' = rowOrder
    BY <1>3 DEF BeginRow, LeadEdge, EndRow
  <2>2. UNCHANGED <<parentsOf, tipIs, skew, deployed>>
    BY <1>3 DEF BeginRow, LeadEdge, EndRow
  <2>3. EdgesOK(edges) /\ ShownOK(DOMAIN edges) /\ Placing /\ Drawing /\ stack = <<>>
    BY <2>1 DEF TimelineIInv
  <2>4. Drawing'
    BY <1>3, <2>3, RowBegins, EdgeIsLed, RowEnds
  <2>5. GraphOK' /\ EdgesOK(edges)' /\ ShownOK(DOMAIN edges)'
    BY <1>0, <2>1, <2>2, <2>3, GraphStays
  <2>6. Placing'
    BY <2>1, <2>3 DEF Placing
  <2>. QED BY <2>1, <2>3, <2>4, <2>5, <2>6 DEF TimelineIInv
<1>4. CASE UNCHANGED timelineVars
  <2>1. /\ UNCHANGED <<parentsOf, tipIs, skew, deployed>> /\ phase' = phase /\ edges' = edges /\ stack' = stack
        /\ rowOrder' = rowOrder /\ lanes' = lanes /\ rows' = rows /\ led' = led
    BY <1>4 DEF timelineVars
  <2>2. GraphOK'
    BY <1>0, <2>1, GraphStays
  <2>3. ASSUME phase # "ask" PROVE EdgesOK(edges)' /\ ShownOK(DOMAIN edges)' /\ Placing' /\ Drawing'
    <3>1. EdgesOK(edges) /\ ShownOK(DOMAIN edges) /\ Placing /\ Drawing
      BY <2>3 DEF TimelineIInv
    <3>2. EdgesOK(edges)' /\ ShownOK(DOMAIN edges)'
      BY <2>1, <3>1, GraphStays
    <3>3. Placing' /\ Drawing'
      BY <2>1, <3>1 DEF Placing, Drawing
    <3>. QED BY <3>2, <3>3
  <2>. QED BY <2>1, <2>2, <2>3 DEF TimelineIInv
<1>. QED BY <1>1, <1>2, <1>3, <1>4 DEF TimelineNext

LEMMA TimelineShows == TimelineIInv => TimelineInv
<1>. SUFFICES ASSUME TimelineIInv PROVE TimelineInv
  OBVIOUS
<1>1. CASE phase = "ask"
  <2>1. rowOrder = <<>> /\ DOMAIN rowOrder = {}
    BY <1>1 DEF TimelineIInv
  <2>2. ParentsBelow
    BY <1>1, <2>1 DEF ParentsBelow, IsInjective
  <2>. QED BY <1>1, <2>2 DEF TimelineInv, AncestryIsKept, EdgesConnect
<1>2. CASE phase # "ask"
  <2>1. /\ GraphOK /\ EdgesOK(edges) /\ ShownOK(DOMAIN edges) /\ Placing /\ Drawing
        /\ phase \in {"row", "lead", "done"} => stack = <<>>
    BY <1>2 DEF TimelineIInv
  <2>. QED BY <2>1, AncestryHolds, ParentsAreBelow, EdgesAreConnected DEF TimelineInv
<1>. QED BY <1>1, <1>2

\* The timeline tells who descends from whom, whatever the repository's history,
\* the neighbours whose clocks are swapped, the main tip and the deployed commits:
\* in its edges, in the order of its rows and in the lanes that lead from row to
\* row (graph_parents, topo_order, layout).
THEOREM TimelineIsTrue == TimelineSpec => []TimelineInv
<1>1. TimelineInit => TimelineIInv
  BY TimelineStarts
<1>2. TimelineIInv /\ [TimelineNext]_timelineVars => TimelineIInv'
  BY TimelineGoesOn
<1>3. TimelineIInv => TimelineInv
  BY TimelineShows
<1>. QED BY <1>1, <1>2, <1>3, PTL DEF TimelineSpec
=============================================================================
