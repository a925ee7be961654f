----------------------------- MODULE ToolsProofs -----------------------------
(***************************************************************************)
(* What ogygia-irisd keeps of its peers, what `ogygia iris push` tells     *)
(* ogygia-irisd, what `ogygia nebula rekey` leaves in the flake, and what  *)
(* `ogygia status` reports.                                                *)
(*                                                                         *)
(* The blooms: for any number of peers and requests and any ttl, maximum   *)
(* age and timeout in the order the configuration needs, answers are in    *)
(* date, a peer is asked once per ttl, and the eviction task wakes in time.*)
(*                                                                         *)
(* The push: for any store, references and number of builds, collections   *)
(* and pushes, a push that succeeds left nothing of what it listed behind, *)
(* and the key signs only what was built here.                             *)
(*                                                                         *)
(* The rekey: for any machines, keys, groups and validities and any number *)
(* of edits, failures and interruptions, a run that ends leaves every      *)
(* certificate current, and one that is stopped takes none away.           *)
(*                                                                         *)
(* The report: for any fleet and any domain, whatever of its name each     *)
(* host goes by, every host has one row and its own label.                 *)
(***************************************************************************)
EXTENDS PeerBloom, IrisPush, NebulaKeys, FleetStatus, TLAPS, WellFoundedInduction,
        FiniteSetTheorems, SequenceTheorems

\* What the locks and the order of the stages give: only a running request has
\* tasks, one of them fetches an entry, its attempt is younger than the timeout,
\* and an entry without a filter has nothing to be fresh by.
Working == \A r \in Requests, p \in Peers : at[r] # "run" => task[r][p] = "off"

FetchedAlone ==
  \A r, s \in Requests, p \in Peers :
    task[r][p] = "fetch" /\ task[s][p] = "fetch" /\ ent[r][p] = ent[s][p] => r = s

Attempted == \A k \in Keys : Fetching(k) \/ refresh[k] => tried[k] <= Timeout

Contents ==
  \A k \in Keys : /\ bloom[k] => tried[k] # Never /\ ~Fetching(k)
                  /\ ~bloom[k] => Expired(k)

IInv == TypeOK /\ Working /\ FetchedAlone /\ Attempted /\ Contents /\ WakesInTime

-----------------------------------------------------------------------------
(* Keys, and the moment next_eviction_time chooses.                        *)

LEMMA KeyParts ==
  /\ \A k \in Keys : k[1] \in Peers /\ k[2] \in Gens /\ k = <<k[1], k[2]>>
  /\ \A p \in Peers, g \in Gens : <<p, g>> \in Keys
BY DEF Keys

\* A set of numbers that is not empty has a least one.
LEMMA LeastExists ==
  ASSUME NEW T \in SUBSET Nat, T # {}
  PROVE  \E t \in T : \A u \in T : t <= u
<1>1. PICK t \in T : \A u \in T : <<u, t>> \notin OpToRel(<, Nat)
  BY WFMin, NatLessThanWellFounded, Zenon
<1>2. \A u \in T : ~ (u < t)
  BY <1>1 DEF OpToRel
<1>. QED BY <1>2

LEMMA EarliestIsLeast ==
  ASSUME NEW T \in SUBSET Nat
  PROVE  /\ T = {} => Earliest(T) = MaxAge
         /\ T # {} => Earliest(T) \in T
         /\ \A u \in T : Earliest(T) <= u
BY LeastExists, Zenon DEF Earliest

LEMMA DeadlineRange ==
  ASSUME TypeOK, NEW k \in Keys
  PROVE  /\ Deadline(k) \in 0..MaxAge
         /\ MaxAge - age[k] <= Deadline(k)
         /\ Ttl - tried[k] <= Deadline(k)
BY PeerAssumption DEF TypeOK, Deadline, Never

-----------------------------------------------------------------------------
(* Requests.                                                               *)

NoNewFetch ==
  \A r \in Requests, p \in Peers :
    task'[r][p] = "fetch" => task[r][p] = "fetch" /\ ent'[r][p] = ent[r][p]

LEMMA FewerFetches ==
  ASSUME NoNewFetch
  PROVE  /\ \A k \in Keys : Fetching(k)' => Fetching(k)
         /\ FetchedAlone => FetchedAlone'
<1>1. \A k \in Keys : Fetching(k)' => Fetching(k)
  BY KeyParts DEF NoNewFetch, Fetching
<1>2. FetchedAlone => FetchedAlone'
  BY DEF NoNewFetch, FetchedAlone
<1>. QED BY <1>1, <1>2

\* Whoever only reads the map and the entries, and fetches nothing.
LEMMA ReadOnly ==
  ASSUME IInv, NoNewFetch, TypeOK', Working',
         UNCHANGED <<cached, entries, refresh, eviction>>
  PROVE  IInv'
<1>. USE FewerFetches DEF entries, eviction
<1>1. FetchedAlone'
  BY DEF IInv
<1>2. Attempted'
  BY DEF IInv, Attempted
<1>3. Contents'
  BY DEF IInv, Contents, Expired
<1>4. WakesInTime'
  BY DEF IInv, WakesInTime, Cached, Deadline
<1>. QED BY <1>1, <1>2, <1>3, <1>4 DEF IInv

LEMMA AskIInv == ASSUME IInv, NEW r \in Requests, Ask(r) PROVE IInv'
<1>. USE DEF Ask, entries, eviction
<1>1. NoNewFetch
  BY DEF NoNewFetch
<1>2. TypeOK'
  BY DEF IInv, TypeOK
<1>3. Working'
  BY DEF IInv, TypeOK, Working
<1>. QED BY <1>1, <1>2, <1>3, ReadOnly

LEMMA DoneIInv == ASSUME IInv, NEW r \in Requests, Done(r) PROVE IInv'
<1>. USE DEF Done, entries, eviction
<1>1. NoNewFetch
  BY DEF NoNewFetch
<1>2. TypeOK'
  BY DEF IInv, TypeOK
<1>3. Working'
  BY DEF IInv, TypeOK, Working
<1>. QED BY <1>1, <1>2, <1>3, ReadOnly

LEMMA HangUpIInv == ASSUME IInv, NEW r \in Requests, HangUp(r) PROVE IInv'
<1>. USE DEF HangUp, entries, eviction
<1>1. \A s \in Requests, p \in Peers :
        /\ task'[s][p] = IF s = r THEN "off" ELSE task[s][p]
        /\ ent'[s][p] = IF s = r THEN NoGen ELSE ent[s][p]
  BY DEF IInv, TypeOK
<1>2. NoNewFetch
  BY <1>1 DEF NoNewFetch
<1>3. TypeOK'
  BY <1>1 DEF IInv, TypeOK, Tasks
<1>4. Working'
  BY <1>1 DEF IInv, TypeOK, Working
<1>. QED BY <1>2, <1>3, <1>4, ReadOnly

\* What Run makes of a request that was not running.
LEMMA RunStarts ==
  ASSUME IInv, NEW r \in Requests, NEW found \in [Peers -> Gens], at[r] # "run", Run(r, found)
  PROVE  /\ \A s \in Requests, p \in Peers :
              /\ task'[s][p] = IF s = r THEN "check" ELSE task[s][p]
              /\ ent'[s][p] = IF s = r THEN found[p] ELSE ent[s][p]
         /\ at' \in [Requests -> {"idle", "want", "create", "run"}]
         /\ task' \in [Requests -> [Peers -> Tasks]]
         /\ ent' \in [Requests -> [Peers -> Gens \cup {NoGen}]]
         /\ \A s \in Requests, p \in Peers : task'[s][p] # "off" => ent'[s][p] \in Gens
         /\ NoNewFetch
         /\ Working'
<1>. USE DEF Run, IInv, TypeOK
<1>1. \A s \in Requests, p \in Peers :
        /\ task'[s][p] = IF s = r THEN "check" ELSE task[s][p]
        /\ ent'[s][p] = IF s = r THEN found[p] ELSE ent[s][p]
  OBVIOUS
<1>2. /\ at' \in [Requests -> {"idle", "want", "create", "run"}]
      /\ task' \in [Requests -> [Peers -> Tasks]]
      /\ ent' \in [Requests -> [Peers -> Gens \cup {NoGen}]]
  BY DEF Tasks
<1>3. \A s \in Requests, p \in Peers : task'[s][p] # "off" => ent'[s][p] \in Gens
  BY <1>1
<1>4. NoNewFetch
  BY <1>1 DEF NoNewFetch
<1>5. Working'
  BY <1>1 DEF Working
<1>. QED BY <1>1, <1>2, <1>3, <1>4, <1>5

LEMMA GetEntriesIInv == ASSUME IInv, NEW r \in Requests, GetEntries(r) PROVE IInv'
<1>1. CASE NoGen \in {cached[p] : p \in Peers}
  <2>1. /\ at[r] = "want" /\ at' = [at EXCEPT ![r] = "create"]
        /\ ent' = [ent EXCEPT ![r] = cached]
        /\ UNCHANGED <<cached, entries, refresh, eviction, task>>
    BY <1>1 DEF GetEntries
  <2>2. \A p \in Peers : task[r][p] = "off"
    BY <2>1 DEF IInv, Working
  <2>3. NoNewFetch
    BY <2>1, <2>2 DEF NoNewFetch, IInv, TypeOK
  <2>4. TypeOK'
    BY <2>1, <2>2 DEF IInv, TypeOK, entries, eviction
  <2>5. Working'
    BY <2>1 DEF IInv, TypeOK, Working
  <2>. QED BY <2>1, <2>3, <2>4, <2>5, ReadOnly
<1>2. CASE NoGen \notin {cached[p] : p \in Peers}
  <2>1. /\ at[r] = "want" /\ Run(r, cached)
        /\ UNCHANGED <<cached, entries, refresh, eviction>>
    BY <1>2 DEF GetEntries
  <2>2. cached \in [Peers -> Gens]
    BY <1>2 DEF IInv, TypeOK
  <2>3. /\ NoNewFetch /\ Working'
        /\ at' \in [Requests -> {"idle", "want", "create", "run"}]
        /\ task' \in [Requests -> [Peers -> Tasks]]
        /\ ent' \in [Requests -> [Peers -> Gens \cup {NoGen}]]
        /\ \A s \in Requests, p \in Peers : task'[s][p] # "off" => ent'[s][p] \in Gens
    BY <2>1, <2>2, RunStarts
  <2>4. TypeOK'
    BY <2>1, <2>3 DEF IInv, TypeOK, entries, eviction
  <2>. QED BY <2>1, <2>3, <2>4, ReadOnly
<1>. QED BY <1>1, <1>2

\* What Blank leaves of entries nobody fetches.
LEMMA BlankEntries ==
  ASSUME TypeOK, NEW keys \in SUBSET Keys, Blank(keys)
  PROVE  /\ bloom' \in [Keys -> BOOLEAN] /\ age' \in [Keys -> 0..MaxAge]
         /\ tried' \in [Keys -> 0..Never]
         /\ \A k \in keys : ~bloom'[k] /\ age'[k] = MaxAge /\ tried'[k] = Never
         /\ \A k \in Keys \ keys : bloom'[k] = bloom[k] /\ age'[k] = age[k] /\ tried'[k] = tried[k]
<1>. USE DEF Blank
<1>1. bloom' \in [Keys -> BOOLEAN]
  OBVIOUS
<1>2. age' \in [Keys -> 0..MaxAge]
  BY PeerAssumption DEF TypeOK
<1>3. tried' \in [Keys -> 0..Never]
  BY PeerAssumption DEF TypeOK, Never
<1>4. \A k \in keys : ~bloom'[k] /\ age'[k] = MaxAge /\ tried'[k] = Never
  OBVIOUS
<1>5. \A k \in Keys \ keys : bloom'[k] = bloom[k] /\ age'[k] = age[k] /\ tried'[k] = tried[k]
  BY DEF TypeOK
<1>. QED BY <1>1, <1>2, <1>3, <1>4, <1>5

LEMMA BlankContents ==
  ASSUME IInv, NEW keys \in SUBSET Keys, Blank(keys), UNCHANGED refresh, NoNewFetch,
         \A k \in keys : ~Fetching(k) /\ ~refresh[k]
  PROVE  Attempted' /\ Contents'
<1>1. \A k \in Keys : Fetching(k)' => Fetching(k) /\ k \notin keys
  BY FewerFetches
<1>2. TypeOK
  BY DEF IInv
<1>3. Attempted'
  BY <1>1, <1>2, BlankEntries DEF IInv, Attempted
<1>4. Contents'
  BY <1>1, <1>2, BlankEntries, PeerAssumption DEF IInv, TypeOK, Contents, Expired
<1>. QED BY <1>3, <1>4

LEMMA CreateEntriesIInv == ASSUME IInv, NEW r \in Requests, CreateEntries(r) PROVE IInv'
<1>. DEFINE made == {p \in Peers : ent[r][p] = NoGen /\ cached[p] = NoGen}
            new == [p \in Peers |-> IF p \in made THEN CHOOSE g \in Unused(p) : TRUE ELSE cached[p]]
            found == [p \in Peers |-> IF ent[r][p] = NoGen THEN new[p] ELSE ent[r][p]]
            keys == {k \in Keys : k[1] \in made /\ new[k[1]] = k[2]}
<1>1. /\ at[r] = "create" /\ evictor # "scan" /\ cached' = new /\ Run(r, found) /\ Blank(keys)
      /\ UNCHANGED <<refresh, evictor, left>>
  BY DEF CreateEntries, eviction
<1>2. \A p \in made : new[p] \in Unused(p)
  BY DEF CreateEntries
<1>3. new \in [Peers -> Gens \cup {NoGen}] /\ found \in [Peers -> Gens]
  <2>1. \A p \in Peers : new[p] \in Gens \cup {NoGen}
    BY <1>2 DEF IInv, TypeOK, Unused
  <2>2. \A p \in Peers : found[p] \in Gens
    <3>. TAKE p \in Peers
    <3>1. CASE p \in made
      BY <1>2, <3>1 DEF Unused
    <3>2. CASE ent[r][p] = NoGen /\ cached[p] # NoGen
      BY <3>2 DEF IInv, TypeOK
    <3>3. CASE ent[r][p] # NoGen
      BY <3>3 DEF IInv, TypeOK
    <3>. QED BY <3>1, <3>2, <3>3
  <2>. QED BY <2>1, <2>2
<1>4. \A k \in keys : ~Fetching(k) /\ ~refresh[k]
  <2>. TAKE k \in keys
  <2>1. k[2] \in Unused(k[1]) /\ k = <<k[1], k[2]>>
    BY <1>2, KeyParts
  <2>. QED BY <2>1 DEF Unused, Fetching
<1>. HIDE DEF keys, new, found
<1>5. /\ NoNewFetch /\ Working'
      /\ at' \in [Requests -> {"idle", "want", "create", "run"}]
      /\ task' \in [Requests -> [Peers -> Tasks]]
      /\ ent' \in [Requests -> [Peers -> Gens \cup {NoGen}]]
      /\ \A s \in Requests, p \in Peers : task'[s][p] # "off" => ent'[s][p] \in Gens
  BY <1>1, <1>3, RunStarts
<1>6. keys \in SUBSET Keys
  BY DEF keys
<1>7. Attempted' /\ Contents'
  BY <1>1, <1>4, <1>5, <1>6, BlankContents
<1>8. TypeOK'
  BY <1>1, <1>3, <1>5, <1>6, BlankEntries DEF IInv, TypeOK
<1>9. FetchedAlone'
  BY <1>5, FewerFetches DEF IInv
<1>10. WakesInTime'
  <2>. SUFFICES ASSUME evictor' = "sleep", NEW k \in Keys, cached'[k[1]] = k[2], bloom'[k]
                PROVE  left' <= Deadline(k)'
    BY DEF WakesInTime, Cached
  <2>1. k \notin keys
    BY <1>1, <1>6, BlankEntries DEF IInv
  <2>2. cached[k[1]] = k[2]
    BY <1>1, <2>1, KeyParts DEF keys, new
  <2>3. bloom[k] /\ age'[k] = age[k] /\ tried'[k] = tried[k]
    BY <1>1, <1>6, <2>1, BlankEntries DEF IInv
  <2>. QED BY <1>1, <2>2, <2>3 DEF IInv, WakesInTime, Cached, Deadline
<1>. QED BY <1>5, <1>7, <1>8, <1>9, <1>10 DEF IInv

-----------------------------------------------------------------------------
(* The task of one peer.                                                   *)

LEMMA StepShape ==
  ASSUME IInv, NEW r \in Requests, NEW p \in Peers, NEW stage \in {"off", "fetch"},
         task[r][p] # "off", Step(r, p, stage)
  PROVE  /\ \A s \in Requests, q \in Peers :
              /\ task'[s][q] = IF s = r /\ q = p THEN stage ELSE task[s][q]
              /\ ent'[s][q] = IF s = r /\ q = p /\ stage = "off" THEN NoGen ELSE ent[s][q]
         /\ at' \in [Requests -> {"idle", "want", "create", "run"}]
         /\ task' \in [Requests -> [Peers -> Tasks]]
         /\ ent' \in [Requests -> [Peers -> Gens \cup {NoGen}]]
         /\ \A s \in Requests, q \in Peers : task'[s][q] # "off" => ent'[s][q] \in Gens
         /\ Working'
<1>. USE DEF Step, IInv, TypeOK
<1>1. \A s \in Requests, q \in Peers : task'[s][q] = IF s = r /\ q = p THEN stage ELSE task[s][q]
  OBVIOUS
<1>2. \A s \in Requests, q \in Peers :
        ent'[s][q] = IF s = r /\ q = p /\ stage = "off" THEN NoGen ELSE ent[s][q]
  OBVIOUS
<1>3. task' \in [Requests -> [Peers -> Tasks]]
  BY DEF Tasks
<1>4. ent' \in [Requests -> [Peers -> Gens \cup {NoGen}]]
  OBVIOUS
<1>5. \A s \in Requests, q \in Peers : task'[s][q] # "off" => ent'[s][q] \in Gens
  BY <1>1, <1>2
<1>6. Working'
  BY <1>1 DEF Working
<1>. QED BY <1>1, <1>2, <1>3, <1>4, <1>5, <1>6

LEMMA AnswerShape ==
  ASSUME IInv, NEW r \in Requests, NEW p \in Peers, task[r][p] # "off", Answer(r, p)
  PROVE  /\ NoNewFetch /\ Working'
         /\ at' \in [Requests -> {"idle", "want", "create", "run"}]
         /\ task' \in [Requests -> [Peers -> Tasks]]
         /\ ent' \in [Requests -> [Peers -> Gens \cup {NoGen}]]
         /\ \A s \in Requests, q \in Peers : task'[s][q] # "off" => ent'[s][q] \in Gens
         /\ \A s \in Requests, q \in Peers : task'[s][q] # "off" =>
              (s # r \/ q # p) /\ task'[s][q] = task[s][q] /\ ent'[s][q] = ent[s][q]
BY StepShape DEF Answer, NoNewFetch

\* The entry a task works on.
LEMMA EntryKey ==
  ASSUME TypeOK, NEW r \in Requests, NEW p \in Peers, task[r][p] # "off"
  PROVE  /\ <<p, ent[r][p]>> \in Keys
         /\ task[r][p] = "fetch" => Fetching(<<p, ent[r][p]>>)
BY DEF TypeOK, Keys, Fetching

LEMMA ServeCachedIInv ==
  ASSUME IInv, NEW r \in Requests, NEW p \in Peers, ServeCached(r, p) PROVE IInv'
<1>1. task[r][p] # "off" /\ Answer(r, p) /\ UNCHANGED <<cached, entries, refresh, eviction>>
  BY DEF ServeCached
<1>2. TypeOK'
  BY <1>1, AnswerShape DEF IInv, TypeOK, entries, eviction
<1>. QED BY <1>1, <1>2, AnswerShape, ReadOnly

LEMMA ServeStaleIInv ==
  ASSUME IInv, NEW r \in Requests, NEW p \in Peers, ServeStale(r, p) PROVE IInv'
<1>. DEFINE key == <<p, ent[r][p]>>
<1>1. /\ task[r][p] = "check" /\ Answer(r, p) /\ ~Expired(key) /\ ~Fetching(key)
      /\ tried' = [tried EXCEPT ![key] = 0]
      /\ refresh' = [refresh EXCEPT ![key] = TRUE]
      /\ UNCHANGED <<cached, bloom, age, evictor, left>>
  BY DEF ServeStale, eviction
<1>2. key \in Keys
  BY <1>1, EntryKey DEF IInv
<1>. HIDE DEF key
<1>3. NoNewFetch
  BY <1>1, AnswerShape
<1>4. /\ \A k \in Keys : tried'[k] = IF k = key THEN 0 ELSE tried[k]
      /\ \A k \in Keys \ {key} : refresh'[k] = refresh[k]
  BY <1>1, <1>2 DEF IInv, TypeOK
<1>5. TypeOK'
  <2>1. tried' \in [Keys -> 0..Never] /\ refresh' \in [Keys -> BOOLEAN]
    BY <1>1, <1>2, PeerAssumption DEF IInv, TypeOK, Never
  <2>. QED BY <1>1, <2>1, AnswerShape DEF IInv, TypeOK
<1>6. Attempted'
  BY <1>3, <1>4, FewerFetches, PeerAssumption DEF IInv, Attempted
<1>7. Contents'
  BY <1>1, <1>3, <1>4, FewerFetches, PeerAssumption DEF IInv, Contents, Expired, Never
<1>8. WakesInTime'
  <2>. SUFFICES ASSUME evictor' = "sleep", NEW k \in Cached', bloom'[k]
                PROVE  left' <= Deadline(k)'
    BY DEF WakesInTime
  <2>1. k \in Keys /\ left <= Deadline(k)
    BY <1>1 DEF IInv, WakesInTime, Cached
  <2>2. Deadline(k) <= Deadline(k)' /\ Deadline(k)' \in Int
    BY <1>1, <1>4, <2>1, PeerAssumption DEF IInv, TypeOK, Deadline, Never
  <2>. QED BY <1>1, <2>1, <2>2, DeadlineRange DEF IInv, TypeOK
<1>. QED BY <1>1, <1>3, <1>5, <1>6, <1>7, <1>8, AnswerShape, FewerFetches DEF IInv

\* A filter is discarded only when it has expired.
LEMMA DiscardShape ==
  ASSUME IInv, NEW key \in Keys, Discard(key)
  PROVE  /\ bloom' \in [Keys -> BOOLEAN]
         /\ \A k \in Keys : bloom'[k] = (k # key /\ bloom[k])
BY DEF Discard, IInv, TypeOK

LEMMA GoWithoutIInv ==
  ASSUME IInv, NEW r \in Requests, NEW p \in Peers, GoWithout(r, p) PROVE IInv'
<1>. DEFINE key == <<p, ent[r][p]>>
<1>1. /\ task[r][p] = "check" /\ Answer(r, p) /\ Expired(key) /\ Discard(key)
      /\ UNCHANGED <<cached, age, tried, refresh, evictor, left>>
  BY DEF GoWithout, HoldsOff, eviction
<1>2. key \in Keys
  BY <1>1, EntryKey DEF IInv
<1>. HIDE DEF key
<1>3. NoNewFetch
  BY <1>1, AnswerShape
<1>4. TypeOK'
  BY <1>1, <1>2, AnswerShape, DiscardShape DEF IInv, TypeOK
<1>5. Attempted'
  BY <1>1, <1>3, FewerFetches DEF IInv, Attempted
<1>6. Contents'
  BY <1>1, <1>2, <1>3, FewerFetches, DiscardShape DEF IInv, Contents, Expired
<1>7. WakesInTime'
  BY <1>1, <1>2, DiscardShape DEF IInv, WakesInTime, Cached, Deadline
<1>. QED BY <1>1, <1>3, <1>4, <1>5, <1>6, <1>7, AnswerShape, FewerFetches DEF IInv

LEMMA StartFetchIInv ==
  ASSUME IInv, NEW r \in Requests, NEW p \in Peers, StartFetch(r, p) PROVE IInv'
<1>. DEFINE key == <<p, ent[r][p]>>
<1>1. /\ task[r][p] = "check" /\ Step(r, p, "fetch") /\ Expired(key) /\ ~Fetching(key) /\ Discard(key)
      /\ tried' = [tried EXCEPT ![key] = 0]
      /\ UNCHANGED <<cached, age, refresh, evictor, left>>
  BY DEF StartFetch, eviction
<1>2. key \in Keys
  BY <1>1, EntryKey DEF IInv
<1>3. \A s \in Requests, q \in Peers :
        /\ task'[s][q] = IF s = r /\ q = p THEN "fetch" ELSE task[s][q]
        /\ ent'[s][q] = ent[s][q]
  BY <1>1, StepShape
<1>4. \A k \in Keys : Fetching(k)' => Fetching(k) \/ k = key
  BY <1>3, KeyParts DEF Fetching
<1>5. FetchedAlone'
  BY <1>1, <1>3 DEF IInv, FetchedAlone, Fetching
<1>. HIDE DEF key
<1>6. \A k \in Keys : tried'[k] = IF k = key THEN 0 ELSE tried[k]
  BY <1>1, <1>2 DEF IInv, TypeOK
<1>7. TypeOK'
  <2>1. tried' \in [Keys -> 0..Never]
    BY <1>1, <1>2, PeerAssumption DEF IInv, TypeOK, Never
  <2>2. /\ at' \in [Requests -> {"idle", "want", "create", "run"}]
        /\ task' \in [Requests -> [Peers -> Tasks]]
        /\ ent' \in [Requests -> [Peers -> Gens \cup {NoGen}]]
        /\ \A s \in Requests, q \in Peers : task'[s][q] # "off" => ent'[s][q] \in Gens
    BY <1>1, StepShape
  <2>. QED BY <1>1, <1>2, <2>1, <2>2, DiscardShape DEF IInv, TypeOK
<1>8. Attempted'
  BY <1>1, <1>4, <1>6, PeerAssumption DEF IInv, Attempted
<1>9. Contents'
  BY <1>1, <1>2, <1>4, <1>6, DiscardShape, PeerAssumption DEF IInv, Contents, Expired, Never
<1>10. WakesInTime'
  <2>. SUFFICES ASSUME evictor' = "sleep", NEW k \in Cached', bloom'[k]
                PROVE  left' <= Deadline(k)'
    BY DEF WakesInTime
  <2>1. k \in Cached /\ bloom[k] /\ k # key
    BY <1>1, <1>2, DiscardShape DEF Cached
  <2>2. Deadline(k)' = Deadline(k)
    BY <1>1, <1>6, <2>1 DEF Cached, Deadline
  <2>. QED BY <1>1, <2>1, <2>2 DEF IInv, WakesInTime
<1>11. Working'
  BY <1>1, StepShape
<1>. QED BY <1>5, <1>7, <1>8, <1>9, <1>10, <1>11 DEF IInv

\* A filter that was got is the youngest there can be.
LEMMA StoreShape ==
  ASSUME IInv, NEW key \in Keys, Store(key) \/ UNCHANGED entries
  PROVE  /\ bloom' \in [Keys -> BOOLEAN] /\ age' \in [Keys -> 0..MaxAge] /\ tried' = tried
         /\ \A k \in Keys \ {key} : bloom'[k] = bloom[k] /\ age'[k] = age[k]
         /\ \/ bloom'[key] /\ age'[key] = 0
            \/ bloom'[key] = bloom[key] /\ age'[key] = age[key]
<1>1. CASE Store(key)
  BY <1>1, PeerAssumption DEF Store, IInv, TypeOK
<1>2. CASE UNCHANGED entries
  BY <1>2 DEF entries, IInv, TypeOK
<1>. QED BY <1>1, <1>2

LEMMA StoreIInv ==
  ASSUME IInv, NEW key \in Keys, Store(key) \/ UNCHANGED entries,
         tried[key] # Never, NoNewFetch, ~Fetching(key)', TypeOK', Working',
         \A k \in Keys : refresh'[k] => refresh[k],
         UNCHANGED <<cached, evictor, left>>
  PROVE  IInv'
<1>1. Attempted'
  BY StoreShape, FewerFetches DEF IInv, Attempted
<1>2. Contents'
  BY StoreShape, FewerFetches, PeerAssumption DEF IInv, TypeOK, Contents, Expired
<1>3. WakesInTime'
  <2>. SUFFICES ASSUME evictor' = "sleep", NEW k \in Cached', bloom'[k]
                PROVE  left' <= Deadline(k)'
    BY DEF WakesInTime
  <2>1. k \in Cached /\ k \in Keys
    BY DEF Cached
  <2>2. CASE bloom[k] /\ age'[k] = age[k]
    <3>1. Deadline(k)' = Deadline(k)
      BY <2>2, StoreShape DEF Deadline
    <3>. QED BY <2>1, <2>2, <3>1 DEF IInv, WakesInTime
  <2>3. CASE age'[k] = 0
    BY <2>1, <2>3, StoreShape, PeerAssumption DEF IInv, TypeOK, Deadline, Never
  <2>. QED BY <2>1, <2>2, <2>3, StoreShape
<1>. QED BY <1>1, <1>2, <1>3, FewerFetches DEF IInv

LEMMA EndFetchIInv ==
  ASSUME IInv, NEW r \in Requests, NEW p \in Peers, EndFetch(r, p) PROVE IInv'
<1>0. PICK key \in Keys : key = <<p, ent[r][p]>>
  BY EntryKey DEF EndFetch, IInv
<1>1. /\ task[r][p] = "fetch" /\ Answer(r, p) /\ (Store(key) \/ UNCHANGED entries)
      /\ UNCHANGED <<cached, refresh, evictor, left>>
  BY <1>0 DEF EndFetch, eviction
<1>2. Fetching(key)
  BY <1>0, <1>1, EntryKey DEF IInv
<1>3. ~Fetching(key)'
  <2>. SUFFICES ASSUME NEW s \in Requests, task'[s][p] = "fetch", ent'[s][p] = ent[r][p]
                PROVE  FALSE
    BY <1>0 DEF Fetching
  <2>1. s # r /\ task[s][p] = "fetch" /\ ent[s][p] = ent[r][p]
    BY <1>1, AnswerShape
  <2>. QED BY <1>1, <2>1 DEF IInv, FetchedAlone
<1>4. tried[key] # Never
  BY <1>2, PeerAssumption DEF IInv, TypeOK, Attempted, Never
<1>5. TypeOK'
  BY <1>1, <1>2, AnswerShape, StoreShape DEF IInv, TypeOK
<1>. QED BY <1>1, <1>2, <1>3, <1>4, <1>5, AnswerShape, StoreIInv

LEMMA EndRefreshIInv == ASSUME IInv, NEW key \in Keys, EndRefresh(key) PROVE IInv'
<1>1. /\ refresh[key] /\ ~Fetching(key) /\ (Store(key) \/ UNCHANGED entries)
      /\ refresh' = [refresh EXCEPT ![key] = FALSE]
      /\ UNCHANGED <<cached, evictor, left, at, task, ent>>
  BY DEF EndRefresh, eviction, requests
<1>2. NoNewFetch
  BY <1>1 DEF NoNewFetch
<1>3. tried[key] # Never
  BY <1>1, PeerAssumption DEF IInv, TypeOK, Attempted, Never
<1>4. TypeOK'
  BY <1>1, StoreShape DEF IInv, TypeOK
<1>5. Working'
  BY <1>1 DEF IInv, Working
<1>6. \A k \in Keys : refresh'[k] => refresh[k]
  BY <1>1 DEF IInv, TypeOK
<1>7. ~Fetching(key)'
  BY <1>1 DEF Fetching
<1>. QED BY <1>1, <1>2, <1>3, <1>4, <1>5, <1>6, <1>7, StoreIInv

-----------------------------------------------------------------------------
(* Eviction and time.                                                      *)

LEMMA BeginScanIInv == ASSUME IInv, BeginScan PROVE IInv'
<1>. USE DEF BeginScan, entries, requests
<1>1. NoNewFetch
  BY DEF NoNewFetch
<1>2. TypeOK'
  BY DEF IInv, TypeOK
<1>3. Working'
  BY DEF IInv, Working
<1>4. Attempted'
  BY <1>1, FewerFetches DEF IInv, Attempted
<1>5. Contents'
  BY <1>1, FewerFetches DEF IInv, Contents, Expired
<1>6. WakesInTime'
  BY DEF WakesInTime
<1>. QED BY <1>1, <1>2, <1>3, <1>4, <1>5, <1>6, FewerFetches DEF IInv

\* What next_eviction_time answers.
LEMMA ScanResult ==
  ASSUME TypeOK, EndScan
  PROVE  /\ left' \in 0..MaxAge
         /\ \A k \in Cached : tried[k] # Never => left' <= Deadline(k)
         /\ left' = MaxAge \/ \E k \in Cached : tried[k] # Never /\ left' = Deadline(k)
<1>. DEFINE times == {Deadline(k) : k \in {c \in Cached : tried[c] # Never}}
<1>1. times \in SUBSET Nat /\ \A t \in times : t <= MaxAge
  BY DeadlineRange, PeerAssumption DEF Cached
<1>2. left' = Earliest(times)
  BY DEF EndScan
<1>3. \A k \in Cached : tried[k] # Never => Deadline(k) \in times
  OBVIOUS
<1>4. \A t \in times : \E k \in Cached : tried[k] # Never /\ t = Deadline(k)
  OBVIOUS
<1>. HIDE DEF times
<1>5. CASE times = {}
  BY <1>2, <1>3, <1>5, EarliestIsLeast, PeerAssumption
<1>6. CASE times # {}
  <2>1. left' \in times /\ \A u \in times : left' <= u
    BY <1>1, <1>2, <1>6, EarliestIsLeast
  <2>2. left' \in 0..MaxAge
    BY <1>1, <2>1, PeerAssumption
  <2>3. \A k \in Cached : tried[k] # Never => left' <= Deadline(k)
    BY <1>3, <2>1, Zenon
  <2>4. \E k \in Cached : tried[k] # Never /\ left' = Deadline(k)
    BY <1>4, <2>1, Zenon
  <2>. QED BY <2>2, <2>3, <2>4, Zenon
<1>. QED BY <1>5, <1>6

LEMMA EndScanIInv == ASSUME IInv, EndScan PROVE IInv'
<1>1. evictor' = "sleep" /\ UNCHANGED <<cached, bloom, age, tried, refresh, at, task, ent>>
  BY DEF EndScan, entries, requests
<1>2. NoNewFetch
  BY <1>1 DEF NoNewFetch
<1>3. TypeOK'
  BY <1>1, ScanResult DEF IInv, TypeOK
<1>4. Working'
  BY <1>1 DEF IInv, Working
<1>5. Attempted'
  BY <1>1, <1>2, FewerFetches DEF IInv, Attempted
<1>6. Contents'
  BY <1>1, <1>2, FewerFetches DEF IInv, Contents, Expired
<1>7. WakesInTime'
  BY <1>1, ScanResult DEF IInv, Contents, WakesInTime, Cached, Deadline
<1>. QED BY <1>2, <1>3, <1>4, <1>5, <1>6, <1>7, FewerFetches DEF IInv

LEMMA EvictIInv == ASSUME IInv, Evict PROVE IInv'
<1>. DEFINE dropped == {k \in Cached : ~Kept(k)}
<1>1. /\ evictor' = "awake" /\ Blank(dropped)
      /\ cached' = [p \in Peers |-> IF <<p, cached[p]>> \in dropped THEN NoGen ELSE cached[p]]
      /\ UNCHANGED <<refresh, left, at, task, ent>>
  BY DEF Evict, requests
<1>2. dropped \in SUBSET Keys
  BY DEF Cached
<1>3. \A k \in dropped : ~Fetching(k) /\ ~refresh[k]
  BY PeerAssumption DEF IInv, TypeOK, Attempted, Kept, Recent, Cached
<1>. HIDE DEF dropped
<1>4. NoNewFetch
  BY <1>1 DEF NoNewFetch
<1>5. Attempted' /\ Contents'
  BY <1>1, <1>2, <1>3, <1>4, BlankContents
<1>6. TypeOK'
  BY <1>1, <1>2, BlankEntries DEF IInv, TypeOK
<1>7. Working' /\ WakesInTime'
  BY <1>1 DEF IInv, Working, WakesInTime
<1>. QED BY <1>4, <1>5, <1>6, <1>7, FewerFetches DEF IInv

LEMMA TickIInv == ASSUME IInv, Tick PROVE IInv'
<1>1. /\ \A k \in Keys : Fetching(k) \/ refresh[k] => tried[k] < Timeout
      /\ \A k \in Keys : age'[k] = IF Expired(k) THEN MaxAge ELSE age[k] + 1
      /\ \A k \in Keys : tried'[k] = IF Recent(k) THEN tried[k] + 1 ELSE tried[k]
      /\ left' = IF evictor = "sleep" THEN left - 1 ELSE left
      /\ evictor = "sleep" => left > 0
      /\ UNCHANGED <<cached, bloom, refresh, evictor, at, task, ent>>
  BY DEF Tick, requests
<1>2. NoNewFetch
  BY <1>1 DEF NoNewFetch
<1>3. TypeOK'
  <2>1. age' \in [Keys -> 0..MaxAge]
    BY PeerAssumption DEF Tick, IInv, TypeOK, Expired
  <2>2. tried' \in [Keys -> 0..Never]
    BY PeerAssumption DEF Tick, IInv, TypeOK, Recent, Never
  <2>3. left' \in 0..MaxAge
    BY <1>1, PeerAssumption DEF IInv, TypeOK
  <2>. QED BY <1>1, <2>1, <2>2, <2>3 DEF IInv, TypeOK
<1>4. Working'
  BY <1>1 DEF IInv, Working
<1>5. Attempted'
  BY <1>1, <1>2, FewerFetches, PeerAssumption DEF IInv, TypeOK, Attempted, Never
<1>6. Contents'
  BY <1>1, <1>2, FewerFetches, PeerAssumption DEF IInv, TypeOK, Contents, Expired, Recent, Never
<1>7. WakesInTime'
  <2>. SUFFICES ASSUME evictor' = "sleep", NEW k \in Cached', bloom'[k]
                PROVE  left' <= Deadline(k)'
    BY DEF WakesInTime
  <2>1. k \in Keys /\ left <= Deadline(k)
    BY <1>1 DEF IInv, WakesInTime, Cached
  <2>2. Deadline(k) - 1 <= Deadline(k)' /\ Deadline(k)' \in Int
    BY <1>1, <2>1, PeerAssumption DEF IInv, TypeOK, Deadline, Expired, Recent, Never
  <2>3. left > 0 /\ left' = left - 1
    BY <1>1
  <2>. QED BY <2>1, <2>2, <2>3, DeadlineRange, PeerAssumption DEF IInv, TypeOK
<1>. QED BY <1>2, <1>3, <1>4, <1>5, <1>6, <1>7, FewerFetches DEF IInv

-----------------------------------------------------------------------------
(* Theorems.                                                               *)

LEMMA InitIInv == Init => IInv
<1>. SUFFICES ASSUME Init PROVE IInv
  OBVIOUS
<1>. USE DEF Init
<1>1. TypeOK
  BY PeerAssumption DEF TypeOK, Tasks, Never
<1>2. \A k \in Keys : ~Fetching(k)
  BY KeyParts DEF Fetching
<1>3. Working /\ FetchedAlone /\ Attempted
  BY <1>2 DEF Working, FetchedAlone, Attempted
<1>4. Contents /\ WakesInTime
  BY <1>2, PeerAssumption DEF Contents, Expired, WakesInTime
<1>. QED BY <1>1, <1>3, <1>4 DEF IInv

LEMMA StutterIInv == ASSUME IInv, UNCHANGED vars PROVE IInv'
<1>. USE DEF vars, entries, eviction, requests
<1>1. NoNewFetch
  BY DEF NoNewFetch
<1>2. TypeOK'
  BY DEF IInv, TypeOK
<1>3. Working'
  BY DEF IInv, Working
<1>. QED BY <1>1, <1>2, <1>3, ReadOnly

LEMMA NextIInv == IInv /\ [Next]_vars => IInv'
<1>. SUFFICES ASSUME IInv, [Next]_vars PROVE IInv'
  OBVIOUS
<1>1. CASE \E r \in Requests : Ask(r) \/ Request(r) \/ HangUp(r)
  BY <1>1, AskIInv, GetEntriesIInv, CreateEntriesIInv, DoneIInv, HangUpIInv DEF Request
<1>2. CASE \E r \in Requests, p \in Peers : Task(r, p)
  BY <1>2, ServeCachedIInv, ServeStaleIInv, GoWithoutIInv, StartFetchIInv, EndFetchIInv DEF Task
<1>3. CASE \E k \in Keys : EndRefresh(k)
  BY <1>3, EndRefreshIInv
<1>4. CASE Eviction
  BY <1>4, BeginScanIInv, EndScanIInv, EvictIInv DEF Eviction
<1>5. CASE Tick
  BY <1>5, TickIInv
<1>6. CASE UNCHANGED vars
  BY <1>6, StutterIInv
<1>. QED BY <1>1, <1>2, <1>3, <1>4, <1>5, <1>6 DEF Next

\* What every step of requests, refreshes, eviction and time preserves.
THEOREM PeersInductive == Spec => []IInv
BY InitIInv, NextIInv, PTL DEF Spec

\* The peers' filters keep their types.
THEOREM FiltersTypeCorrect == Spec => []TypeOK
<1>1. IInv => TypeOK
  BY DEF IInv
<1>. QED BY <1>1, PeersInductive, PTL

\* The eviction task never sleeps past the deadline of a filter in the map.
THEOREM WakesForFilters == Spec => []WakesInTime
<1>1. IInv => WakesInTime
  BY DEF IInv
<1>. QED BY <1>1, PeersInductive, PTL

\* A step of another part of the program answers nobody.
LEMMA WhoAnswers ==
  ASSUME IInv, [Next]_vars, NEW r \in Requests, NEW p \in Peers, Answers(r, p)
  PROVE  ServeCached(r, p) \/ ServeStale(r, p) \/ GoWithout(r, p) \/ EndFetch(r, p)
<1>. USE DEF Answers
<1>1. CASE \E s \in Requests : GetEntries(s) \/ CreateEntries(s)
  <2>1. PICK s \in Requests : GetEntries(s) \/ CreateEntries(s)
    BY <1>1
  <2>2. task' = task \/ task' = [task EXCEPT ![s] = [q \in Peers |-> "check"]]
    BY <2>1, Zenon DEF GetEntries, CreateEntries, Run
  <2>3. task'[r][p] = task[r][p] \/ task'[r][p] = "check"
    BY <2>2 DEF IInv, TypeOK
  <2>. QED BY <2>3
<1>2. CASE \E s \in Requests : Ask(s) \/ Done(s) \/ HangUp(s)
  BY <1>2 DEF Ask, Done, HangUp, IInv, TypeOK
<1>3. CASE \E s \in Requests, q \in Peers : Task(s, q)
  <2>1. PICK s \in Requests, q \in Peers : Task(s, q)
    BY <1>3
  <2>2. \E stage \in {"off", "fetch"} : Step(s, q, stage) /\ (stage = "fetch" <=> StartFetch(s, q))
    BY <2>1 DEF Task, ServeCached, ServeStale, GoWithout, StartFetch, EndFetch, Answer, Step
  <2>3. task[s][q] # "off"
    BY <2>1 DEF Task, ServeCached, ServeStale, GoWithout, StartFetch, EndFetch
  <2>4. s = r /\ q = p /\ ~StartFetch(s, q)
    BY <2>2, <2>3, StepShape
  <2>. QED BY <2>1, <2>4 DEF Task
<1>4. CASE (\E k \in Keys : EndRefresh(k)) \/ Eviction \/ Tick \/ UNCHANGED vars
  BY <1>4 DEF EndRefresh, Eviction, BeginScan, EndScan, Evict, Tick, vars, requests
<1>. QED BY <1>1, <1>2, <1>3, <1>4 DEF Next, Request

LEMMA AnswersInDateStep ==
  ASSUME IInv, [Next]_vars, NEW r \in Requests, NEW p \in Peers, Answers(r, p),
         NEW k \in Keys, k = <<p, ent[r][p]>>
  PROVE  /\ bloom'[k] => age'[k] < MaxAge
         /\ ~bloom'[k] => tried'[k] < Ttl
<1>. USE PeerAssumption DEF Expired, Recent, Fresh
<1>1. CASE ServeCached(r, p)
  BY <1>1 DEF ServeCached, Usable, entries, IInv, TypeOK, Contents
<1>2. CASE ServeStale(r, p)
  BY <1>2 DEF ServeStale, IInv, TypeOK
<1>3. CASE GoWithout(r, p)
  BY <1>3, DiscardShape DEF GoWithout, HoldsOff
<1>4. CASE EndFetch(r, p)
  <2>1. Fetching(k) /\ (Store(k) \/ UNCHANGED entries)
    BY <1>4, EntryKey DEF EndFetch, IInv
  <2>2. ~bloom[k] /\ tried[k] < Ttl
    BY <2>1 DEF IInv, TypeOK, Contents, Attempted, Never
  <2>. QED BY <2>1, <2>2, StoreShape
<1>. QED BY <1>1, <1>2, <1>3, <1>4, WhoAnswers

\* No lookup_stream answers from a filter that is older than the maximum age.
LEMMA AnswersStayInDate == IInv /\ [Next]_vars => [AnswersInDate]_vars
<1>1. ASSUME IInv, [Next]_vars, NEW r \in Requests, NEW p \in Peers, Answers(r, p)
      PROVE  bloom'[<<p, ent[r][p]>>] => age'[<<p, ent[r][p]>>] < MaxAge
  BY <1>1, EntryKey, AnswersInDateStep DEF Answers, IInv
<1>. QED BY <1>1 DEF AnswersInDate

\* None does without a filter unless its peer was asked within the ttl.
LEMMA BlindWithinTtl == IInv /\ [Next]_vars => [BlindOnlyBriefly]_vars
<1>1. ASSUME IInv, [Next]_vars, NEW r \in Requests, NEW p \in Peers, Answers(r, p)
      PROVE  ~bloom'[<<p, ent[r][p]>>] => tried'[<<p, ent[r][p]>>] < Ttl
  BY <1>1, EntryKey, AnswersInDateStep DEF Answers, IInv
<1>. QED BY <1>1 DEF BlindOnlyBriefly

\* Between two attempts of an entry there is the ttl, whoever makes them.
LEMMA AskedOncePerTtl == IInv /\ [Next]_vars => [AttemptsApart]_vars
<1>1. ASSUME IInv, [Next]_vars, NEW k \in Cached, tried'[k] = 0, tried[k] # 0
      PROVE  ~Recent(k) /\ ~refresh[k]
  <2>. USE PeerAssumption DEF Recent, IInv, TypeOK
  <2>1. k \in Keys
    BY DEF Cached
  <2>2. ~Recent(k) => ~refresh[k]
    BY <1>1, <2>1 DEF Attempted
  <2>3. CASE \E r \in Requests, p \in Peers : ServeStale(r, p) \/ StartFetch(r, p)
    <3>1. PICK r \in Requests, p \in Peers : ServeStale(r, p) \/ StartFetch(r, p)
      BY <2>3
    <3>2. k = <<p, ent[r][p]>>
      BY <1>1, <2>1, <3>1 DEF ServeStale, StartFetch, Step
    <3>. QED BY <2>2, <3>1, <3>2 DEF ServeStale, StartFetch, Usable, HoldsOff, Expired
  <2>4. CASE (\E r \in Requests : CreateEntries(r)) \/ Evict
    <3>1. PICK keys \in SUBSET Keys : Blank(keys)
      BY <2>4 DEF CreateEntries, Evict, Cached
    <3>2. tried'[k] = IF k \in keys THEN Never ELSE tried[k]
      BY <2>1, <3>1 DEF Blank
    <3>. QED BY <1>1, <3>2 DEF Never
  <2>5. CASE Tick
    BY <1>1, <2>1, <2>5, PeerAssumption DEF Tick, IInv, TypeOK, Never
  <2>6. CASE UNCHANGED tried
    BY <1>1, <2>6
  <2>7. (\E r \in Requests, p \in Peers : ServeStale(r, p) \/ StartFetch(r, p))
        \/ (\E r \in Requests : CreateEntries(r)) \/ Evict \/ Tick \/ UNCHANGED tried
    BY <1>1, Zenon DEF Next, Request, Task, Eviction, Ask, Done, HangUp, GetEntries, ServeCached,
       GoWithout, EndFetch, EndRefresh, BeginScan, EndScan, Store, entries, vars
  <2>. QED BY <2>3, <2>4, <2>5, <2>6, <2>7
<1>. QED BY <1>1 DEF AttemptsApart

\* What the eviction task wakes for at once is there to be dropped.
LEMMA EvictionTaskRests == IInv /\ [Next]_vars => [EvictionRests]_vars
<1>1. ASSUME IInv, EndScan, left' = 0
      PROVE  \E k \in Cached : ~Kept(k)
  <2>1. PICK k \in Cached : left' = Deadline(k)
    BY <1>1, ScanResult, PeerAssumption DEF IInv
  <2>2. age[k] = MaxAge /\ tried[k] >= Ttl
    <3>1. k \in Keys /\ age[k] \in 0..MaxAge /\ tried[k] \in 0..Never
      BY <1>1 DEF IInv, TypeOK, Cached
    <3>. QED BY <1>1, <2>1, <3>1, PeerAssumption DEF Deadline, Never
  <2>3. ~Fetching(k)
    BY <1>1 DEF EndScan
  <2>4. tried[k] \in Int
    BY <1>1 DEF IInv, TypeOK, Cached, Never
  <2>5. ~Kept(k)
    BY <2>2, <2>3, <2>4, PeerAssumption DEF Kept, Expired, Recent
  <2>. QED BY <2>5
<1>. QED BY <1>1 DEF EvictionRests

\* Lookups answer in date, go without a filter only within the ttl, and ask a
\* peer once in it.
THEOREM LookupsStayInTurn == Spec => LookupsInTurn
<1>1. IInv /\ [Next]_vars => [AnswersInDate /\ BlindOnlyBriefly /\ AttemptsApart]_vars
  BY AnswersStayInDate, BlindWithinTtl, AskedOncePerTtl
<1>. QED BY <1>1, PeersInductive, PTL DEF Spec, LookupsInTurn

\* The eviction task wakes for every filter in time, and never for nothing.
THEOREM EvictionStaysInTime == Spec => EvictionKeepsTime
<1>1. IInv /\ [Next]_vars /\ IInv' => [WakesInTime' /\ EvictionRests]_vars
  BY EvictionTaskRests DEF IInv
<1>. QED BY <1>1, PeersInductive, PTL DEF Spec, EvictionKeepsTime

-----------------------------------------------------------------------------
(* The push: it finds, signs and announces everything it listed.           *)

UnderWay == push.at \in {"query", "sign", "rescan"}

\* A path is registered after what it refers to and collected before it.
RefsComplete == \A p \in DOMAIN db : RefsOf[p] \subseteq DOMAIN db

\* The build's result link keeps what a push works on.
Linked == UnderWay => /\ ClosureOf(push.inputs) \subseteq DOMAIN db
                      /\ push.listed \subseteq ClosureOf(push.inputs)

Signed(p) == PushKey \in db[p].sigs

\* Where each listed path that was built here is, stage by stage: still to query,
\* to be signed, signed, and at last advertised, unless an error was counted.
Accounted ==
  UnderWay =>
    /\ push.todo \subseteq push.listed /\ push.toSign \subseteq push.listed
    /\ push.left \subseteq push.toSign
    /\ \A p \in push.toSign : db[p].ultimate
    /\ \A p \in push.listed \ push.todo : db[p].ultimate => p \in push.toSign \/ Signed(p)
    /\ push.at # "query" => push.todo = {}
    /\ push.at = "sign" => \A p \in push.toSign \ push.left : Signed(p)
    /\ push.at = "rescan" => /\ \A p \in push.toSign : Signed(p)
                             /\ push.errors > 0 \/ push.toSign \ push.left \subseteq advertised

PushIInv == PushTypeOK /\ OnlyOwnBuildsAreSigned /\ RefsComplete /\ Linked /\ Accounted

\* A closure holds what it is the closure of, and is within every set that holds
\* that and is closed under references.
LEMMA ClosureIsLeast ==
  ASSUME NEW paths \in SUBSET StorePaths
  PROVE  /\ paths \subseteq ClosureOf(paths) /\ ClosureOf(paths) \subseteq StorePaths
         /\ \A S \in SUBSET StorePaths :
              paths \subseteq S /\ (\A q \in S : RefsOf[q] \subseteq S) => ClosureOf(paths) \subseteq S
BY DEF ClosureOf

\* The rows, one by one.
LEMMA DbType ==
  ASSUME PushTypeOK
  PROVE  /\ DOMAIN db \subseteq StorePaths /\ db = [p \in DOMAIN db |-> db[p]]
         /\ \A p \in DOMAIN db : db[p] \in Row
BY DEF PushTypeOK

LEMMA DbIsType ==
  ASSUME NEW S \in SUBSET StorePaths, NEW f \in [S -> Row]
  PROVE  f \in UNION {[paths -> Row] : paths \in SUBSET StorePaths}
OBVIOUS

LEMMA PushInitIInv == PushInit => PushIInv
<1>. SUFFICES ASSUME PushInit PROVE PushIInv
  OBVIOUS
<1>1. db \in [{} -> Row] /\ DOMAIN db = {}
  BY DEF PushInit
<1>2. db \in UNION {[paths -> Row] : paths \in SUBSET StorePaths}
  BY <1>1, DbIsType
<1>. QED
  BY <1>1, <1>2, IrisPushAssumption
     DEF PushInit, PushIInv, PushTypeOK, OnlyOwnBuildsAreSigned, RefsComplete, Linked, Accounted,
         UnderWay, NoPush

-----------------------------------------------------------------------------
(* The database changes beside the push.                                   *)

\* What is there stays as it is when a path is registered.
LEMMA RegisterIInv ==
  ASSUME PushIInv, NEW p \in StorePaths, Build(p) \/ Substitute(p) PROVE PushIInv'
<1>1. PICK row \in Row : Register(p, row) /\ PushKey \notin row.sigs
  <2>1. CASE Build(p)
    <3>1. PICK b \in BOOLEAN : Register(p, [ultimate |-> TRUE, ca |-> b, sigs |-> {}])
      BY <2>1 DEF Build
    <3>2. [ultimate |-> TRUE, ca |-> b, sigs |-> {}] \in Row
      BY DEF Row
    <3>. QED BY <3>1, <3>2
  <2>2. CASE Substitute(p)
    <3>1. [ultimate |-> FALSE, ca |-> FALSE, sigs |-> {CacheKey}] \in Row
      BY DEF Row
    <3>. QED BY <2>2, <3>1, IrisPushAssumption DEF Substitute
  <2>. QED BY <2>1, <2>2
<1>2. /\ p \notin DOMAIN db /\ RefsOf[p] \subseteq DOMAIN db /\ UNCHANGED <<irisd, push>>
      /\ DOMAIN db' = DOMAIN db \cup {p} /\ db'[p] = row
      /\ \A q \in DOMAIN db : db'[q] = db[q]
      /\ advertised \subseteq advertised' /\ advertised' \subseteq StorePaths
  BY <1>1 DEF Register, Build, Substitute, PushIInv, PushTypeOK
<1>3. db' \in [DOMAIN db \cup {p} -> Row] /\ DOMAIN db \cup {p} \subseteq StorePaths
  BY <1>1, DbType DEF Register, PushIInv
<1>4. storeSteps' \in 0..MaxStore
  BY <1>1, IrisPushAssumption DEF Register, StoreStep, PushIInv, PushTypeOK
<1>5. PushTypeOK'
  BY <1>2, <1>3, <1>4, DbIsType DEF PushIInv, PushTypeOK
<1>6. OnlyOwnBuildsAreSigned' /\ RefsComplete'
  BY <1>1, <1>2 DEF PushIInv, OnlyOwnBuildsAreSigned, RefsComplete
<1>7. Linked'
  BY <1>2 DEF PushIInv, Linked, UnderWay, ClosureOf
<1>8. Accounted'
  BY <1>2 DEF PushIInv, Linked, Accounted, UnderWay, Signed
<1>. QED BY <1>5, <1>6, <1>7, <1>8 DEF PushIInv

\* Nothing that somebody refers to is collected, nor what is rooted.
LEMMA CollectIInv ==
  ASSUME PushIInv, NEW p \in StorePaths, CollectGarbage(p) PROVE PushIInv'
<1>1. /\ p \in DOMAIN db \ Rooted /\ \A q \in DOMAIN db \ {p} : p \notin RefsOf[q]
      /\ UNCHANGED <<advertised, irisd, push>>
      /\ DOMAIN db' = DOMAIN db \ {p} /\ \A q \in DOMAIN db \ {p} : db'[q] = db[q]
  BY DEF CollectGarbage
<1>2. db' \in [DOMAIN db \ {p} -> Row] /\ DOMAIN db \ {p} \subseteq StorePaths
  BY DbType DEF CollectGarbage, PushIInv
<1>3. storeSteps' \in 0..MaxStore
  BY IrisPushAssumption DEF CollectGarbage, StoreStep, PushIInv, PushTypeOK
<1>4. PushTypeOK'
  BY <1>1, <1>2, <1>3, DbIsType DEF PushIInv, PushTypeOK
<1>5. OnlyOwnBuildsAreSigned' /\ RefsComplete'
  BY <1>1 DEF PushIInv, OnlyOwnBuildsAreSigned, RefsComplete
<1>6. UnderWay => Rooted = ClosureOf(push.inputs)
  BY DEF UnderWay, Rooted
<1>7. Linked' /\ (UnderWay => push.listed \subseteq DOMAIN db')
  BY <1>1, <1>6 DEF PushIInv, Linked, UnderWay, ClosureOf
<1>8. Accounted'
  BY <1>1, <1>7 DEF PushIInv, Accounted, UnderWay, Signed
<1>. QED BY <1>4, <1>5, <1>7, <1>8 DEF PushIInv

\* irisd forgets what it advertised, and the push that waits for it fails.
LEMMA RestartIInv == ASSUME PushIInv, RestartIrisd PROVE PushIInv'
<1>1. PushTypeOK'
  BY IrisPushAssumption DEF RestartIrisd, StoreStep, ServeableHashes, PushIInv, PushTypeOK, NoPush
<1>2. OnlyOwnBuildsAreSigned' /\ RefsComplete'
  BY DEF RestartIrisd, PushIInv, OnlyOwnBuildsAreSigned, RefsComplete
<1>3. CASE push.at = "rescan"
  <2>1. ~UnderWay'
    BY <1>3 DEF RestartIrisd, NoPush, UnderWay
  <2>. QED BY <1>1, <1>2, <2>1 DEF PushIInv, Linked, Accounted
<1>4. CASE push.at # "rescan"
  <2>1. Linked' /\ Accounted'
    BY <1>4 DEF RestartIrisd, PushIInv, Linked, Accounted, UnderWay, ClosureOf, Signed
  <2>. QED BY <1>1, <1>2, <2>1 DEF PushIInv
<1>. QED BY <1>3, <1>4

-----------------------------------------------------------------------------
(* The push's own steps.                                                   *)

\* It starts with a closure the database has, since the inputs are there.
LEMMA StartIInv ==
  ASSUME PushIInv, NEW inputs \in SUBSET StorePaths, StartPush(inputs) PROVE PushIInv'
<1>1. PICK paths \in {inputs, ClosureOf(inputs)} :
        push' = [at |-> "query", inputs |-> inputs, todo |-> paths, listed |-> paths,
                 toSign |-> {}, left |-> {}, errors |-> 0]
  BY DEF StartPush
<1>2. UNCHANGED <<db, advertised, irisd, storeSteps>> /\ inputs \subseteq DOMAIN db
  BY DEF StartPush
<1>3. paths \subseteq ClosureOf(inputs) /\ ClosureOf(inputs) \subseteq StorePaths
  BY ClosureIsLeast
<1>4. ClosureOf(inputs) \subseteq DOMAIN db
  <2>1. DOMAIN db \in SUBSET StorePaths /\ \A q \in DOMAIN db : RefsOf[q] \subseteq DOMAIN db
    BY DbType DEF PushIInv, RefsComplete
  <2>. QED BY <1>2, <2>1, ClosureIsLeast
<1>5. ClosureOf(inputs)' = ClosureOf(inputs)
  BY DEF ClosureOf
<1>6. PushTypeOK'
  BY <1>1, <1>2, <1>3 DEF PushIInv, PushTypeOK, Runs
<1>7. OnlyOwnBuildsAreSigned' /\ RefsComplete'
  BY <1>2 DEF PushIInv, OnlyOwnBuildsAreSigned, RefsComplete
<1>8. Linked' /\ Accounted'
  BY <1>1, <1>2, <1>3, <1>4, <1>5 DEF Linked, Accounted, UnderWay, ClosureOf
<1>. QED BY <1>6, <1>7, <1>8 DEF PushIInv

\* A run under way has all the fields of one.
LEMMA RunType ==
  ASSUME PushTypeOK, push.at # "none"
  PROVE  push \in Runs
BY DEF PushTypeOK, NoPush

\* A query, which either keeps the path for signing or needs not.
LEMMA QueryIInv ==
  ASSUME PushIInv, NEW p \in StorePaths, Query(p) PROVE PushIInv'
<1>1. push \in Runs /\ push.at = "query" /\ p \in push.todo
  BY RunType DEF Query, PushIInv
<1>2. /\ push'.at = "query" /\ push'.inputs = push.inputs /\ push'.listed = push.listed
      /\ push'.todo = push.todo \ {p} /\ push'.left = push.left /\ push'.errors = push.errors
      /\ push'.toSign = IF Wanted(p) THEN push.toSign \cup {p} ELSE push.toSign
      /\ UNCHANGED <<db, advertised, irisd, storeSteps>>
  BY <1>1 DEF Query, Runs
<1>3. push' \in Runs
  BY <1>1 DEF Query, Runs
<1>4. PushTypeOK'
  BY <1>2, <1>3 DEF PushIInv, PushTypeOK
<1>5. OnlyOwnBuildsAreSigned' /\ RefsComplete' /\ Linked'
  BY <1>1, <1>2 DEF PushIInv, OnlyOwnBuildsAreSigned, RefsComplete, Linked, UnderWay, ClosureOf
<1>6. Accounted'
  BY <1>1, <1>2 DEF PushIInv, Accounted, UnderWay, Signed, Wanted, IsUltimate, SignedWith
<1>. QED BY <1>4, <1>5, <1>6 DEF PushIInv

\* nix store sign adds a signature of the key to a path that was built here.
LEMMA SignIInv ==
  ASSUME PushIInv, NEW p \in StorePaths, SignPath(p) PROVE PushIInv'
<1>1. /\ push \in Runs /\ push.at = "sign" /\ p \in push.left /\ p \in DOMAIN db
      /\ push.toSign \subseteq DOMAIN db /\ push.listed \subseteq DOMAIN db
  BY RunType DEF SignPath, PushIInv, Linked, Accounted, UnderWay
<1>2. /\ push'.at = "sign" /\ push'.inputs = push.inputs /\ push'.listed = push.listed
      /\ push'.todo = push.todo /\ push'.toSign = push.toSign
      /\ push'.left = push.left \ {p} /\ push'.errors = push.errors
      /\ UNCHANGED <<advertised, irisd, storeSteps>>
  BY <1>1 DEF SignPath, Runs
<1>3. push' \in Runs
  BY <1>1 DEF SignPath, Runs
<1>4. /\ DOMAIN db' = DOMAIN db /\ \A q \in DOMAIN db \ {p} : db'[q] = db[q]
      /\ db'[p].ultimate = db[p].ultimate /\ db'[p].sigs = db[p].sigs \cup {PushKey}
      /\ db'[p] \in Row
  BY <1>1, DbType DEF SignPath, PushIInv, Row
<1>5. db' \in [DOMAIN db -> Row] /\ DOMAIN db \subseteq StorePaths
  BY <1>4, DbType DEF SignPath, PushIInv
<1>6. PushTypeOK'
  BY <1>2, <1>3, <1>5, DbIsType DEF PushIInv, PushTypeOK
<1>7. db[p].ultimate
  BY <1>1 DEF PushIInv, Accounted, UnderWay
<1>8. OnlyOwnBuildsAreSigned' /\ RefsComplete'
  BY <1>4, <1>7 DEF PushIInv, OnlyOwnBuildsAreSigned, RefsComplete
<1>9. Linked'
  BY <1>1, <1>2, <1>4 DEF PushIInv, Linked, UnderWay, ClosureOf
<1>10. \A q \in DOMAIN db : (Signed(q) \/ q = p) <=> Signed(q)'
  BY <1>4 DEF Signed
<1>11. Accounted'
  BY <1>1, <1>2, <1>4, <1>10 DEF PushIInv, Accounted, UnderWay, Signed
<1>. QED BY <1>6, <1>8, <1>9, <1>11 DEF PushIInv

\* irisd advertises what it finds serveable, or counts an error.
LEMMA RescanIInv ==
  ASSUME PushIInv, NEW p \in StorePaths, Rescan(p) PROVE PushIInv'
<1>1. push \in Runs /\ push.at = "rescan" /\ p \in push.left
  BY RunType DEF Rescan, PushIInv
<1>2. /\ push'.at = "rescan" /\ push'.inputs = push.inputs /\ push'.listed = push.listed
      /\ push'.todo = push.todo /\ push'.toSign = push.toSign /\ push'.left = push.left \ {p}
      /\ \/ push'.errors = push.errors /\ advertised' = advertised \cup {p}
         \/ push'.errors = push.errors + 1 /\ advertised' = advertised
      /\ UNCHANGED <<db, irisd, storeSteps>>
  BY <1>1 DEF Rescan, Runs
<1>3. push.errors \in Nat /\ push.errors + 1 \in Nat
  BY <1>1 DEF Runs
<1>4. push' \in Runs
  <2>1. CASE push' = [push EXCEPT !.left = @ \ {p}]
    BY <1>1, <2>1 DEF Runs
  <2>2. CASE push' = [push EXCEPT !.left = @ \ {p}, !.errors = @ + 1]
    BY <1>1, <1>3, <2>2 DEF Runs
  <2>. QED BY <2>1, <2>2 DEF Rescan
<1>5. PushTypeOK'
  BY <1>2, <1>4 DEF PushIInv, PushTypeOK
<1>6. OnlyOwnBuildsAreSigned' /\ RefsComplete' /\ Linked'
  BY <1>1, <1>2 DEF PushIInv, OnlyOwnBuildsAreSigned, RefsComplete, Linked, UnderWay, ClosureOf
<1>7. Accounted'
  BY <1>1, <1>2, <1>3 DEF PushIInv, Accounted, UnderWay, Signed
<1>. QED BY <1>5, <1>6, <1>7 DEF PushIInv

\* The steps between the stages, and the end.
LEMMA StageIInv ==
  ASSUME PushIInv, Queried \/ AskRescan \/ PushEnds \/ PushFails PROVE PushIInv'
<1>1. push \in Runs /\ UNCHANGED <<db, advertised, irisd, storeSteps>> /\ UnderWay
  BY RunType DEF Queried, AskRescan, PushEnds, PushFails, PushIInv, UnderWay
<1>2. OnlyOwnBuildsAreSigned' /\ RefsComplete'
  BY <1>1 DEF PushIInv, OnlyOwnBuildsAreSigned, RefsComplete
<1>3. PushTypeOK'
  <2>1. push' \in Runs \cup {NoPush}
    BY <1>1 DEF Queried, AskRescan, PushEnds, PushFails, Runs
  <2>. QED BY <1>1, <2>1 DEF PushIInv, PushTypeOK
<1>4. CASE ~UnderWay'
  BY <1>2, <1>3, <1>4 DEF PushIInv, Linked, Accounted
<1>5. CASE Queried /\ push'.at = "sign"
  <2>1. /\ push.at = "query" /\ push.todo = {} /\ push' = [push EXCEPT !.at = "sign", !.left = push.toSign]
    BY <1>1, <1>5 DEF Queried, Runs
  <2>2. /\ push'.inputs = push.inputs /\ push'.listed = push.listed /\ push'.todo = {}
        /\ push'.toSign = push.toSign /\ push'.left = push.toSign
    BY <1>1, <2>1 DEF Runs
  <2>3. Linked' /\ Accounted'
    BY <1>1, <1>5, <2>1, <2>2 DEF PushIInv, Linked, Accounted, UnderWay, ClosureOf, Signed
  <2>. QED BY <1>2, <1>3, <2>3 DEF PushIInv
<1>6. CASE AskRescan
  <2>1. /\ push.at = "sign" /\ push.left = {} /\ push'.at = "rescan"
        /\ push'.inputs = push.inputs /\ push'.listed = push.listed /\ push'.todo = push.todo
        /\ push'.toSign = push.toSign /\ push'.left = push.toSign
    BY <1>1, <1>6 DEF AskRescan, Runs
  <2>2. Linked' /\ Accounted'
    BY <1>1, <2>1 DEF PushIInv, Linked, Accounted, UnderWay, ClosureOf, Signed
  <2>. QED BY <1>2, <1>3, <2>2 DEF PushIInv
<1>7. Queried \/ AskRescan \/ ~UnderWay'
  BY <1>1 DEF PushEnds, PushFails, Runs, NoPush, UnderWay
<1>8. Queried => push'.at \in {"sign", "succeeded"}
  BY <1>1 DEF Queried, Runs
<1>. QED BY <1>4, <1>5, <1>6, <1>7, <1>8 DEF UnderWay

LEMMA PushInductive == PushIInv /\ [PushNext]_pushVars => PushIInv'
<1>. SUFFICES ASSUME PushIInv, [PushNext]_pushVars PROVE PushIInv'
  OBVIOUS
<1>1. CASE UNCHANGED pushVars
  BY <1>1 DEF pushVars, PushIInv, PushTypeOK, OnlyOwnBuildsAreSigned, RefsComplete, Linked, Accounted,
              UnderWay, ClosureOf, Signed
<1>. QED
  BY <1>1, RegisterIInv, CollectIInv, RestartIInv, StartIInv, QueryIInv, SignIInv, RescanIInv,
     StageIInv DEF PushNext

\* What a push knows when it ends.
LEMMA PushCompletes ==
  ASSUME PushIInv, PushNext PROVE PushIsComplete
<1>. SUFFICES ASSUME push.at # "succeeded", push'.at = "succeeded"
              PROVE  /\ \A p \in push.listed : db[p].ultimate => PushKey \in db[p].sigs
                     /\ push.toSign \subseteq advertised
  BY DEF PushIsComplete
<1>1. CASE Queried
  BY <1>1 DEF Queried, PushIInv, Accounted, UnderWay, Signed
<1>2. CASE PushEnds
  <2>1. push.errors = 0 /\ push.at = "rescan" /\ push.left = {}
    <3>1. push \in Runs
      BY <1>2, RunType DEF PushEnds, PushIInv
    <3>. QED BY <1>2, <3>1 DEF PushEnds, NoPush, Runs
  <2>. QED BY <2>1 DEF PushIInv, Accounted, UnderWay, Signed
<1>3. Queried \/ PushEnds
  <2>1. push \in Runs \cup {NoPush}
    BY DEF PushIInv, PushTypeOK
  <2>2. ASSUME NEW p \in StorePaths PROVE ~Build(p) /\ ~Substitute(p) /\ ~CollectGarbage(p)
    BY DEF Build, Substitute, Register, CollectGarbage
  <2>3. ASSUME NEW p \in StorePaths PROVE ~Query(p) /\ ~SignPath(p) /\ ~Rescan(p)
    BY <2>1 DEF Query, SignPath, Rescan, Runs, NoPush
  <2>4. ASSUME NEW inputs \in SUBSET StorePaths PROVE ~StartPush(inputs)
    BY DEF StartPush
  <2>5. ~RestartIrisd /\ ~PushFails
    BY DEF RestartIrisd, PushFails, NoPush
  <2>6. ~AskRescan
    BY <2>1 DEF AskRescan, Runs, NoPush
  <2>. QED BY <2>2, <2>3, <2>4, <2>5, <2>6 DEF PushNext
<1>. QED BY <1>1, <1>2, <1>3

\* `iris push` exits with success only when every listed path that was built here
\* carries the key's signature and the daemon advertises what this push signed; it
\* never signs what came from a cache.
THEOREM PushKeepsItsWord == PushSpec => PushIsSound
<1>1. PushIInv /\ [PushNext]_pushVars => [PushIsComplete]_pushVars
  BY PushCompletes
<1>2. PushIInv => OnlyOwnBuildsAreSigned
  BY DEF PushIInv
<1>. QED BY <1>1, <1>2, PushInitIInv, PushInductive, PTL DEF PushSpec, PushIsSound

-----------------------------------------------------------------------------
(* `ogygia nebula rekey`: everything is current when it ends.              *)

\* A run, whatever it announced.
RekeyRun(deltas) ==
  [at : {"evaluate", "sign", "rename", "prune"}, args : Arguments, todo : SUBSET Machines,
   onDisk : SUBSET CertFiles, now : {today}, keep : SUBSET HostSpecs, deltas : {deltas},
   job : Certs \cup {Nothing}, since : 0..disturbed]

KeysTyped ==
  /\ ca \in 0..MaxCas /\ options \in [Machines -> Options] /\ certDir \subseteq CertFiles
  /\ today \in Nat /\ disturbed \in Nat
  /\ rekey = Idle \/ rekey \in RekeyRun(rekey.deltas)
  /\ finished # Nothing => finished.args \in Arguments

\* No certificate is signed before there is a CA, and every signature is of a CA there was.
SignedByACa ==
  /\ \A file \in certDir : IsSigned(file) \/ ~file.temp => file.spec.ca \in 1..ca
  /\ rekey # Idle /\ rekey.at \in {"sign", "rename"} => rekey.job \in Certs /\ rekey.job.spec.ca = ca
  /\ rekey # Idle /\ rekey.at = "rename" => ca # 0

\* A run during which nobody edited, damaged or interrupted anything.
Undisturbed == rekey # Idle /\ rekey.since = disturbed

LookedAt == Targets(rekey.args) \ rekey.todo

LastsAWhile(file) ==
  ~IsSigned(file) \/ 3 * (file.cert.notAfter - today) > 2 * options[file.spec.host].validity

UpToDate(m) ==
  Filed(certDir, SpecOf(m)) # {} /\ \A file \in Filed(certDir, SpecOf(m)) : LastsAWhile(file)

\* The machine whose certificate is being made.
Signing == IF rekey.at \in {"sign", "rename"} THEN {rekey.job.spec.host} ELSE {}

\* How far an undisturbed run is: what it read is what it still has to look at, and what
\* it looked at is up to date.
RunsTrue ==
  Undisturbed =>
    /\ rekey.todo \subseteq Targets(rekey.args)
    /\ rekey.keep = {SpecOf(m) : m \in {n \in LookedAt : HasSpec(n)}}
    /\ \A m \in rekey.todo : {f \in Filed(certDir, SpecOf(m)) : IsSigned(f)} = Filed(rekey.onDisk, SpecOf(m))
    /\ ~rekey.args.dryRun => \A m \in LookedAt \ Signing : HasSpec(m) => UpToDate(m)
    /\ rekey.at \in {"sign", "rename"} =>
         /\ ~rekey.args.dryRun
         /\ \E m \in LookedAt : HasSpec(m) /\ rekey.job = Cert(SpecOf(m), options[m].validity)
    /\ rekey.at = "prune" => rekey.todo = {} /\ rekey.args.host = Nothing /\ ~rekey.args.dryRun
    /\ rekey.args.dryRun => rekey.onDisk = ReadCertDir

\* What a run over the present directory would announce, and what one under way still will.
DeltasOf(run, hosts) ==
  {Delta(run, SpecOf(m), options[m].validity) : m \in {n \in hosts : DueIn(run, n)}}

Plan(args) == DeltasOf([args |-> args, onDisk |-> ReadCertDir, now |-> today], Targets(args))

Announces == rekey.deltas \cup DeltasOf(rekey, rekey.todo)

\* A dry run that ended said what a run would do; the run that follows it is doing that.
DryRunSays ==
  /\ Undisturbed /\ rekey.args.dryRun => Announces = Plan(rekey.args)
  /\ rekey # Idle /\ finished # Nothing =>
       /\ finished.args.dryRun /\ finished.args = [rekey.args EXCEPT !.dryRun = TRUE]
       /\ Undisturbed /\ finished.deltas = Announces
  /\ rekey = Idle /\ finished # Nothing /\ finished.args.dryRun => finished.deltas = Plan(finished.args)

KeysIInv == KeysTyped /\ SignedByACa /\ RunsTrue /\ DryRunSays /\ RekeyBringsUpToDate

\* What every step may rely on of the records.
LEMMA RunFields ==
  ASSUME KeysTyped, rekey # Idle
  PROVE  /\ rekey \in RekeyRun(rekey.deltas) /\ rekey.at \in {"evaluate", "sign", "rename", "prune"}
         /\ rekey.args \in Arguments /\ rekey.todo \subseteq Machines /\ rekey.onDisk \subseteq CertFiles
         /\ rekey.now = today /\ rekey.since \in 0..disturbed /\ rekey.at # "idle"
BY DEF KeysTyped, RekeyRun

LEMMA SpecFields ==
  ASSUME KeysTyped, NEW m \in Machines
  PROVE  /\ SpecOf(m).host = m /\ SpecOf(m).ca = ca /\ options[m] \in Options
         /\ options[m].validity \in Nat \ {0} /\ options[m].groups \in Groups
BY NebulaKeysAssumption DEF KeysTyped, SpecOf, Options

\* What a run announces goes by what it read, the day and --force.
LEMMA DeltasSame ==
  ASSUME NEW r, NEW s, r.onDisk = s.onDisk, r.now = s.now, r.args.force = s.args.force, NEW hosts
  PROVE  DeltasOf(r, hosts) = DeltasOf(s, hosts)
<1>1. \A spec, validity : Delta(r, spec, validity) = Delta(s, spec, validity)
  BY DEF Delta
<1>2. \A m : DueIn(r, m) <=> DueIn(s, m)
  BY DEF DueIn, Due
<1>. QED BY <1>1, <1>2 DEF DeltasOf

LEMMA ArgumentHosts ==
  ASSUME NEW args \in Arguments PROVE Targets(args) \subseteq Machines
BY DEF Arguments, Targets

\* What a run makes of a machine does not change while its options, its file and what
\* the run read stay as they are.
LEMMA ElementFrame ==
  ASSUME UNCHANGED <<ca, options>>, NEW m \in Machines,
         rekey'.onDisk = rekey.onDisk, rekey'.now = rekey.now, rekey'.args = rekey.args,
         (Filed(certDir, SpecOf(m)) = {})' <=> Filed(certDir, SpecOf(m)) = {}
  PROVE  /\ Delta(rekey, SpecOf(m), options[m].validity)' = Delta(rekey, SpecOf(m), options[m].validity)
         /\ DueIn(rekey, m)' <=> DueIn(rekey, m)
<1>1. SpecOf(m)' = SpecOf(m) /\ HasSpec(m)' = HasSpec(m)
  BY DEF SpecOf, HasSpec
<1>2. Delta(rekey, SpecOf(m), options[m].validity)' = Delta(rekey, SpecOf(m), options[m].validity)
  BY <1>1 DEF Delta
<1>3. Due(rekey, SpecOf(m), options[m].validity)' <=> Due(rekey, SpecOf(m), options[m].validity)
  BY <1>1 DEF Due
<1>. QED BY <1>1, <1>2, <1>3 DEF DueIn

LEMMA PlanFrame ==
  ASSUME UNCHANGED <<ca, options, certDir, today>>, NEW args \in Arguments
  PROVE  Plan(args)' = Plan(args)
<1>. DEFINE run == [args |-> args, onDisk |-> ReadCertDir, now |-> today]
<1>1. run' = run
  BY DEF ReadCertDir
<1>2. ASSUME NEW m
      PROVE  /\ Delta(run, SpecOf(m), options[m].validity)' = Delta(run, SpecOf(m), options[m].validity)
             /\ DueIn(run, m)' <=> DueIn(run, m)
  BY <1>1 DEF Delta, DueIn, Due, SpecOf, HasSpec
<1>. QED BY <1>2, Zenon DEF Plan, DeltasOf

\* Nothing that matters here changes.
LEMMA KeysFrame ==
  ASSUME KeysIInv, UNCHANGED <<ca, options, certDir, today, rekey, disturbed, finished>>
  PROVE  KeysIInv'
<1>. USE DEF HasSpec, SpecOf, Filed, IsSigned
<1>1. KeysTyped' /\ SignedByACa'
  BY DEF KeysIInv, KeysTyped, RekeyRun, SignedByACa
<1>2. RunsTrue'
  BY DEF KeysIInv, RunsTrue, Undisturbed, LookedAt, Targets, Signing, UpToDate, LastsAWhile, Cert, ReadCertDir
<1>3. DryRunSays'
  <2>1. ASSUME rekey # Idle PROVE Announces' = Announces /\ Plan(rekey.args)' = Plan(rekey.args)
    <3>1. rekey.todo \subseteq Machines /\ rekey.args \in Arguments
      BY <2>1, RunFields DEF KeysIInv
    <3>2. \A m \in Machines :
            /\ Delta(rekey, SpecOf(m), options[m].validity)' = Delta(rekey, SpecOf(m), options[m].validity)
            /\ DueIn(rekey, m)' <=> DueIn(rekey, m)
      BY ElementFrame
    <3>3. DeltasOf(rekey, rekey.todo)' = DeltasOf(rekey, rekey.todo)
      BY <3>1, <3>2, Zenon DEF DeltasOf
    <3>. QED BY <3>1, <3>3, PlanFrame DEF Announces
  <2>2. finished # Nothing => Plan(finished.args)' = Plan(finished.args)
    BY PlanFrame DEF KeysIInv, KeysTyped
  <2>. QED BY <2>1, <2>2 DEF KeysIInv, DryRunSays, Undisturbed
<1>4. RekeyBringsUpToDate'
  BY DEF KeysIInv, RekeyBringsUpToDate
<1>. QED BY <1>1, <1>2, <1>3, <1>4 DEF KeysIInv

\* A disturbance leaves nothing to say of the run.
LEMMA DisturbedIInv ==
  ASSUME KeysIInv, Disturbs, KeysTyped', SignedByACa', rekey' \in {rekey, Idle}
  PROVE  KeysIInv'
<1>1. finished' = Nothing /\ disturbed' = disturbed + 1 /\ disturbed \in Nat
  BY DEF Disturbs, KeysIInv, KeysTyped
<1>2. ~Undisturbed'
  <2>1. CASE rekey' = Idle
    BY <2>1 DEF Undisturbed
  <2>2. CASE rekey' = rekey /\ rekey # Idle
    BY <1>1, <2>2, RunFields DEF Undisturbed, KeysIInv
  <2>. QED BY <2>1, <2>2
<1>. QED BY <1>1, <1>2 DEF KeysIInv, RunsTrue, DryRunSays, RekeyBringsUpToDate

LEMMA KeysInitIInv == NebulaKeysInit => KeysIInv
<1>. SUFFICES ASSUME NebulaKeysInit PROVE KeysIInv
  OBVIOUS
<1>1. KeysTyped
  BY NebulaKeysAssumption DEF NebulaKeysInit, KeysTyped, Options
<1>. QED
  BY <1>1 DEF NebulaKeysInit, KeysIInv, SignedByACa, RunsTrue, Undisturbed, DryRunSays, RekeyBringsUpToDate

-----------------------------------------------------------------------------
\* A new CA: before there is one no file is signed, so nothing was left behind.
LEMMA CreateIInv ==
  ASSUME KeysIInv, NEW forced \in BOOLEAN, Create(forced) PROVE KeysIInv'
<1>1. rekey = Idle /\ ca' = ca + 1 /\ UNCHANGED <<options, certDir, today, rekey>>
  BY DEF Create
<1>2. disturbed' \in Nat
  BY DEF Create, Disturbs, KeysIInv, KeysTyped
<1>3. KeysTyped'
  BY <1>1, <1>2, NebulaKeysAssumption DEF Create, Disturbs, KeysIInv, KeysTyped
<1>4. SignedByACa'
  BY <1>1 DEF KeysIInv, KeysTyped, SignedByACa, IsSigned
<1>5. CASE forced
  BY <1>1, <1>3, <1>4, <1>5, DisturbedIInv DEF Create
<1>6. CASE ~forced
  <2>1. ca = 0 /\ UNCHANGED <<disturbed, finished>>
    BY <1>6 DEF Create
  <2>2. \A file \in certDir : ~IsSigned(file) /\ file.temp
    BY <2>1 DEF KeysIInv, SignedByACa, KeysTyped, CertFiles
  <2>3. ReadCertDir = {} /\ ReadCertDir' = {} /\ \A m \in Machines : Filed(certDir, SpecOf(m)) = {}
    BY <1>1, <2>2 DEF ReadCertDir, Filed, IsSigned
  <2>4. \A m \in Machines : (Filed(certDir, SpecOf(m)) = {})'
    BY <1>1, <2>2 DEF Filed
  <2>5. RunsTrue'
    BY <1>1 DEF RunsTrue, Undisturbed
  <2>6. DryRunSays'
    <3>. SUFFICES ASSUME finished # Nothing, finished.args.dryRun
                  PROVE  Plan(finished.args)' = Plan(finished.args)
      BY <1>1, <2>1 DEF KeysIInv, DryRunSays, Undisturbed
    <3>. DEFINE run == [args |-> finished.args, onDisk |-> ReadCertDir, now |-> today]
    <3>1. run' = run
      BY <1>1, <2>1, <2>3
    <3>2. \A m \in Machines : DueIn(run, m) <=> HasSpec(m)
      BY <2>3 DEF DueIn, Due
    <3>3. \A m \in Machines : DueIn(run, m)' <=> HasSpec(m)
      BY <1>1, <2>4 DEF DueIn, Due, HasSpec
    <3>4. \A m \in Machines : Previous(run.onDisk, SpecOf(m)) = {}
      BY <2>3 DEF Previous, Filed
    <3>5. \A m \in Machines : (Previous(run.onDisk, SpecOf(m)) = {})'
      BY <2>3 DEF Previous, Filed
    <3>6. \A m \in Machines :
            Delta(run, SpecOf(m), options[m].validity)' = Delta(run, SpecOf(m), options[m].validity)
      BY <1>1, <3>4, <3>5 DEF Delta, SpecOf
    <3>7. Targets(finished.args) \subseteq Machines /\ Targets(finished.args)' = Targets(finished.args)
      BY <2>1 DEF KeysIInv, KeysTyped, Targets, Arguments
    <3>. QED BY <3>2, <3>3, <3>6, <3>7, Zenon DEF Plan, DeltasOf
  <2>7. RekeyBringsUpToDate'
    <3>. SUFFICES ASSUME finished # Nothing, finished.args.host = Nothing, ~finished.args.dryRun
                  PROVE  /\ \A m \in Machines : ~HasSpec(m)'
                         /\ certDir = {}
      BY <1>1, <2>1 DEF RekeyBringsUpToDate
    <3>1. /\ {file.spec : file \in certDir} = {SpecOf(m) : m \in {n \in Machines : HasSpec(n)}}
          /\ \A file \in certDir : ~file.temp
      BY <1>1 DEF KeysIInv, RekeyBringsUpToDate
    <3>2. certDir = {}
      BY <2>2, <3>1
    <3>. QED BY <1>1, <3>1, <3>2 DEF HasSpec
  <2>. QED BY <1>3, <1>4, <2>5, <2>6, <2>7 DEF KeysIInv
<1>. QED BY <1>5, <1>6

\* The edits, and whatever interrupts or damages.
LEMMA DisturbancesIInv ==
  ASSUME KeysIInv,
         \/ LoseConnection \/ SignFails \/ Aborts
         \/ \E m \in Machines : Edit(m) \/ \E forced \in BOOLEAN : Keygen(m, forced) /\ forced
         \/ \E file \in certDir : Corrupt(file)
  PROVE  KeysIInv'
<1>0. KeysTyped /\ SignedByACa
  BY DEF KeysIInv
<1>1. disturbed' = disturbed + 1 /\ disturbed' \in Nat /\ finished' = Nothing /\ Disturbs
  BY <1>0 DEF LoseConnection, SignFails, Aborts, Edit, Keygen, Corrupt, Disturbs, KeysTyped
<1>2. /\ UNCHANGED <<ca, today>> /\ options' \in [Machines -> Options]
      /\ rekey' \in {rekey, Idle}
  <2>1. ASSUME NEW m \in Machines, Edit(m)
        PROVE  options' \in [Machines -> Options] /\ rekey' = rekey /\ UNCHANGED <<ca, today>>
    BY <1>0, <2>1 DEF Edit, KeysTyped, Disturbs
  <2>. QED BY <1>0, <2>1 DEF LoseConnection, SignFails, Aborts, Keygen, Corrupt, world, KeysTyped
<1>3. \A file \in certDir' :
        file \in CertFiles /\ (IsSigned(file) \/ ~file.temp => file.spec.ca \in 1..ca)
  <2>1. CASE SignFails
    <3>1. rekey.job \in Certs
      BY <1>0, <2>1 DEF SignFails, SignedByACa, Idle
    <3>2. Temp(Nothing) \in CertFiles /\ Temp(Nothing).temp /\ ~IsSigned(Temp(Nothing))
      BY <3>1 DEF Temp, CertFiles, Certs, IsSigned
    <3>. QED BY <1>0, <2>1, <3>2 DEF SignFails, SignedByACa, KeysTyped
  <2>2. ASSUME NEW file \in certDir, Corrupt(file)
        PROVE  \A other \in certDir' :
                 other \in CertFiles /\ (IsSigned(other) \/ ~other.temp => other.spec.ca \in 1..ca)
    <3>1. [file EXCEPT !.cert = Nothing] \in CertFiles /\ [file EXCEPT !.cert = Nothing].spec = file.spec
      BY <1>0 DEF CertFiles, KeysTyped
    <3>2. file.spec.ca \in 1..ca
      BY <1>0, <2>2 DEF Corrupt, SignedByACa
    <3>. QED BY <1>0, <2>2, <3>1, <3>2 DEF Corrupt, SignedByACa, KeysTyped, IsSigned
  <2>3. CASE certDir' = certDir
    BY <1>0, <2>3 DEF SignedByACa, KeysTyped
  <2>. QED BY <2>1, <2>2, <2>3 DEF LoseConnection, Aborts, Edit, Keygen
<1>4. SignedByACa'
  <2>1. \A file \in certDir' : (IsSigned(file) \/ ~file.temp)' => file.spec.ca \in 1..ca'
    BY <1>2, <1>3 DEF IsSigned
  <2>2. CASE rekey' = Idle
    BY <2>1, <2>2 DEF SignedByACa, IsSigned
  <2>3. CASE rekey' = rekey
    BY <1>0, <1>2, <2>1, <2>3 DEF SignedByACa, IsSigned
  <2>. QED BY <1>2, <2>2, <2>3
<1>5. rekey' = Idle \/ rekey' \in RekeyRun(rekey.deltas)'
  BY <1>0, <1>1, <1>2 DEF RekeyRun, KeysTyped, Disturbs
<1>6. KeysTyped'
  BY <1>0, <1>1, <1>2, <1>3, <1>5 DEF KeysTyped
<1>. QED BY <1>1, <1>2, <1>4, <1>6, DisturbedIInv

LEMMA NextDayIInv == ASSUME KeysIInv, NextDay PROVE KeysIInv'
<1>1. /\ rekey = Idle /\ UNCHANGED <<ca, options, certDir, rekey, disturbed>>
      /\ today' = today + 1 /\ finished' = Nothing
  BY DEF NextDay
<1>2. KeysTyped' /\ SignedByACa'
  BY <1>1 DEF KeysIInv, KeysTyped, SignedByACa, IsSigned
<1>. QED BY <1>1, <1>2 DEF KeysIInv, RunsTrue, Undisturbed, DryRunSays, RekeyBringsUpToDate

-----------------------------------------------------------------------------
\* A run starts: what it read is what is there, and it has everything to announce.
LEMMA StartRekeyIInv ==
  ASSUME KeysIInv, NEW args \in Arguments, StartRekey(args) PROVE KeysIInv'
<1>1. /\ rekey = Idle /\ UNCHANGED <<ca, options, certDir, today, disturbed>>
      /\ rekey' = [at |-> "evaluate", args |-> args, todo |-> Targets(args), onDisk |-> ReadCertDir,
                   now |-> today, keep |-> {}, deltas |-> {}, job |-> Nothing, since |-> disturbed]
      /\ finished' # Nothing =>
           /\ finished' = finished /\ finished.args.dryRun
           /\ finished.args = [args EXCEPT !.dryRun = TRUE]
  BY DEF StartRekey, world
<1>2. rekey' # Idle
  BY <1>1 DEF Idle
<1>3. Targets(args) \subseteq Machines
  BY ArgumentHosts
<1>4. KeysTyped'
  BY <1>1, <1>3 DEF KeysIInv, KeysTyped, RekeyRun, ReadCertDir
<1>5. SignedByACa'
  BY <1>1 DEF KeysIInv, SignedByACa, IsSigned
<1>6. RunsTrue'
  BY <1>1 DEF RunsTrue, LookedAt, Targets, ReadCertDir, Filed, IsSigned, Signing
<1>7. Announces' = Plan(args)
  <2>. DEFINE run == [args |-> args, onDisk |-> ReadCertDir, now |-> today]
  <2>1. \A m \in Machines :
          /\ Delta(rekey, SpecOf(m), options[m].validity)' = Delta(run, SpecOf(m), options[m].validity)
          /\ DueIn(rekey, m)' <=> DueIn(run, m)
    BY <1>1 DEF Delta, DueIn, Due, SpecOf, HasSpec
  <2>2. DeltasOf(rekey, rekey.todo)' = DeltasOf(run, Targets(args))
    <3>1. rekey'.todo = Targets(args)
      BY <1>1
    <3>. QED BY <1>3, <2>1, <3>1, Zenon DEF DeltasOf
  <2>. QED BY <1>1, <2>2 DEF Announces, Plan
<1>8. Plan(args)' = Plan(args) /\ Undisturbed'
  BY <1>1, <1>2, PlanFrame DEF Undisturbed
<1>9. finished' # Nothing => finished.deltas = Plan(args)
  <2>. SUFFICES ASSUME finished' # Nothing PROVE finished.deltas = Plan(args)
    OBVIOUS
  <2>1. finished # Nothing /\ finished.deltas = Plan(finished.args)
    BY <1>1 DEF KeysIInv, DryRunSays
  <2>2. finished.args.host = args.host /\ finished.args.force = args.force
    BY <1>1 DEF Arguments
  <2>3. Targets(finished.args) = Targets(args)
    BY <2>2 DEF Targets
  <2>4. Plan(finished.args) = Plan(args)
    BY <2>2, <2>3, DeltasSame DEF Plan
  <2>. QED BY <2>1, <2>4
<1>10. DryRunSays'
  BY <1>1, <1>2, <1>7, <1>8, <1>9 DEF DryRunSays
<1>11. RekeyBringsUpToDate'
  BY <1>2 DEF RekeyBringsUpToDate
<1>. QED BY <1>4, <1>5, <1>6, <1>10, <1>11 DEF KeysIInv

\* One machine is looked at: skipped, kept, announced, or sent to be signed.
LEMMA EvaluateShape ==
  ASSUME KeysIInv, NEW m \in Machines, Evaluate(m)
  PROVE  /\ rekey # Idle /\ rekey.at = "evaluate" /\ m \in rekey.todo
         /\ UNCHANGED <<ca, options, certDir, today, disturbed, finished>>
         /\ rekey' \in RekeyRun(rekey.deltas)' /\ rekey' # Idle
         /\ rekey'.args = rekey.args /\ rekey'.onDisk = rekey.onDisk /\ rekey'.now = rekey.now
         /\ rekey'.since = rekey.since /\ rekey'.todo = rekey.todo \ {m}
         /\ rekey'.keep = IF HasSpec(m) THEN rekey.keep \cup {SpecOf(m)} ELSE rekey.keep
         /\ rekey'.deltas = IF DueIn(rekey, m)
                            THEN rekey.deltas \cup {Delta(rekey, SpecOf(m), options[m].validity)}
                            ELSE rekey.deltas
         /\ IF DueIn(rekey, m) /\ ~rekey.args.dryRun
            THEN rekey'.at = "sign" /\ rekey'.job = Cert(SpecOf(m), options[m].validity)
            ELSE rekey'.at = "evaluate"
<1>. DEFINE delta == Delta(rekey, SpecOf(m), options[m].validity)
<1>. DEFINE job == Cert(SpecOf(m), options[m].validity)
<1>. DEFINE Same(run) == /\ run.args = rekey.args /\ run.onDisk = rekey.onDisk /\ run.now = rekey.now
                        /\ run.since = rekey.since /\ run.todo = rekey.todo \ {m}
<1>1. /\ rekey # Idle /\ rekey.at = "evaluate" /\ m \in rekey.todo
      /\ UNCHANGED <<ca, options, certDir, today, disturbed, finished>>
  BY DEF Evaluate, world, Idle
<1>2. rekey \in RekeyRun(rekey.deltas)
  BY <1>1, RunFields DEF KeysIInv
<1>3. SpecOf(m) \in HostSpecs /\ job \in Certs
  <2>1. options[m] \in Options /\ options[m].validity \in Nat /\ ca \in 0..MaxCas /\ today \in Nat
    BY SpecFields DEF KeysIInv, KeysTyped
  <2>2. SpecOf(m) \in HostSpecs
    BY <2>1 DEF SpecOf, HostSpecs, Options
  <2>3. today + options[m].validity \in Nat /\ SpecOf(m).host = m
    BY <2>1 DEF SpecOf
  <2>. QED BY <2>2, <2>3 DEF Cert, Certs
<1>4. DueIn(rekey, m) => HasSpec(m)
  BY DEF DueIn
<1>. HIDE DEF delta, job
<1>5. /\ Skipped(m) \in RekeyRun(rekey.deltas) /\ Same(Skipped(m))
      /\ Skipped(m).keep = rekey.keep /\ Skipped(m).deltas = rekey.deltas /\ Skipped(m).at = "evaluate"
  BY <1>1, <1>2 DEF Skipped, RekeyRun
<1>6. /\ KeptSpec(m) \in RekeyRun(rekey.deltas) /\ Same(KeptSpec(m))
      /\ KeptSpec(m).keep = rekey.keep \cup {SpecOf(m)} /\ KeptSpec(m).deltas = rekey.deltas
      /\ KeptSpec(m).at = "evaluate"
  BY <1>3, <1>5 DEF KeptSpec, RekeyRun
<1>7. /\ Told(m) \in RekeyRun(rekey.deltas \cup {delta}) /\ Same(Told(m))
      /\ Told(m).keep = rekey.keep \cup {SpecOf(m)} /\ Told(m).deltas = rekey.deltas \cup {delta}
      /\ Told(m).at = "evaluate"
  <2>1. Told(m) = [KeptSpec(m) EXCEPT !.deltas = @ \cup {delta}]
    BY DEF Told, delta
  <2>. QED BY <1>6, <2>1 DEF RekeyRun
<1>. DEFINE signs == [Told(m) EXCEPT !.at = "sign", !.job = job]
<1>8. /\ signs \in RekeyRun(rekey.deltas \cup {delta}) /\ Same(signs)
      /\ signs.keep = rekey.keep \cup {SpecOf(m)} /\ signs.deltas = rekey.deltas \cup {delta}
      /\ signs.at = "sign" /\ signs.job = job
  BY <1>3, <1>7 DEF RekeyRun
<1>9. \A deltas : RekeyRun(deltas)' = RekeyRun(deltas)
  BY <1>1 DEF RekeyRun
<1>10. \A deltas : \A run \in RekeyRun(deltas) : run # Idle
  BY DEF RekeyRun, Idle
<1>11. rekey' = IF ~HasSpec(m) THEN Skipped(m) ELSE IF ~DueIn(rekey, m) THEN KeptSpec(m)
                ELSE IF rekey.args.dryRun THEN Told(m) ELSE signs
  BY <1>4 DEF Evaluate, job
<1>. HIDE DEF signs
<1>12. rekey' \in RekeyRun(rekey'.deltas) /\ rekey' # Idle /\ Same(rekey')
  BY <1>5, <1>6, <1>7, <1>8, <1>10, <1>11
<1>13. rekey' \in RekeyRun(rekey.deltas)'
  BY <1>1, <1>12 DEF RekeyRun
<1>. QED BY <1>1, <1>4, <1>5, <1>6, <1>7, <1>8, <1>11, <1>12, <1>13 DEF delta, job

\* A machine that is up to date when it is looked at is so by the file's name and the
\* certificate that was read; every other machine waits its turn unchanged.
LEMMA EvaluateIInv ==
  ASSUME KeysIInv, NEW m \in Machines, Evaluate(m) PROVE KeysIInv'
<1>1. /\ rekey # Idle /\ rekey.at = "evaluate" /\ m \in rekey.todo
      /\ UNCHANGED <<ca, options, certDir, today, disturbed, finished>>
      /\ rekey' \in RekeyRun(rekey.deltas)' /\ rekey' # Idle
      /\ rekey'.args = rekey.args /\ rekey'.onDisk = rekey.onDisk /\ rekey'.now = rekey.now
      /\ rekey'.since = rekey.since /\ rekey'.todo = rekey.todo \ {m}
  BY EvaluateShape
<1>2. /\ rekey'.keep = IF HasSpec(m) THEN rekey.keep \cup {SpecOf(m)} ELSE rekey.keep
      /\ rekey'.deltas = IF DueIn(rekey, m)
                         THEN rekey.deltas \cup {Delta(rekey, SpecOf(m), options[m].validity)}
                         ELSE rekey.deltas
      /\ IF DueIn(rekey, m) /\ ~rekey.args.dryRun
         THEN rekey'.at = "sign" /\ rekey'.job = Cert(SpecOf(m), options[m].validity)
         ELSE rekey'.at = "evaluate"
  BY EvaluateShape
<1>3. rekey.todo \subseteq Machines /\ rekey.now = today /\ rekey.args \in Arguments
  BY <1>1, RunFields DEF KeysIInv
<1>4. SpecOf(m).host = m /\ SpecOf(m).ca = ca /\ options[m].validity \in Nat \ {0} /\ today \in Nat
  BY SpecFields DEF KeysIInv, KeysTyped
<1>5. KeysTyped'
  BY <1>1 DEF KeysIInv, KeysTyped
<1>6. SignedByACa'
  <2>1. rekey'.at = "sign" => rekey'.job \in Certs /\ rekey'.job.spec.ca = ca
    <3>. SUFFICES ASSUME rekey'.at = "sign" PROVE rekey'.job \in Certs /\ rekey'.job.spec.ca = ca
      OBVIOUS
    <3>1. rekey'.job = Cert(SpecOf(m), options[m].validity)
      BY <1>2
    <3>2. Cert(SpecOf(m), options[m].validity).spec = SpecOf(m)
      BY DEF Cert
    <3>3. options[m] \in Options /\ ca \in 0..MaxCas
      BY SpecFields DEF KeysIInv, KeysTyped
    <3>4. SpecOf(m) \in HostSpecs
      BY <3>3 DEF SpecOf, HostSpecs, Options
    <3>. QED BY <1>4, <3>1, <3>2, <3>4 DEF Cert, Certs
  <2>2. rekey'.at # "rename"
    BY <1>2
  <2>. QED BY <1>1, <2>1, <2>2 DEF KeysIInv, SignedByACa, IsSigned
<1>7. \A n \in Machines : SpecOf(n)' = SpecOf(n) /\ HasSpec(n)' = HasSpec(n) /\ UpToDate(n)' = UpToDate(n)
  BY <1>1 DEF SpecOf, HasSpec, UpToDate, Filed, LastsAWhile, IsSigned
<1>8. ASSUME Undisturbed', HasSpec(m), ~DueIn(rekey, m) PROVE UpToDate(m)
  <2>1. Undisturbed
    BY <1>1, <1>8 DEF Undisturbed
  <2>2. {f \in Filed(certDir, SpecOf(m)) : IsSigned(f)} = Filed(rekey.onDisk, SpecOf(m))
    BY <1>1, <2>1 DEF KeysIInv, RunsTrue
  <2>3. /\ Filed(certDir, SpecOf(m)) # {}
        /\ \A file \in Filed(rekey.onDisk, SpecOf(m)) :
             ~PastRenewal(file.cert, rekey.now, options[m].validity)
    BY <1>8 DEF DueIn, Due
  <2>4. ASSUME NEW file \in Filed(certDir, SpecOf(m)), IsSigned(file)
        PROVE  3 * (file.cert.notAfter - today) > 2 * options[file.spec.host].validity
    <3>1. ~PastRenewal(file.cert, today, options[m].validity)
      BY <1>3, <2>2, <2>3, <2>4
    <3>2. file.cert.notAfter \in Nat /\ file.spec.host = m
      <4>1. file \in certDir /\ file.spec = SpecOf(m)
        BY DEF Filed
      <4>2. file \in CertFiles
        BY <4>1 DEF KeysIInv, KeysTyped
      <4>. QED BY <1>4, <2>4, <4>1, <4>2 DEF CertFiles, Certs, IsSigned
    <3>. QED BY <1>4, <3>1, <3>2 DEF PastRenewal
  <2>. QED BY <2>3, <2>4 DEF UpToDate, LastsAWhile
<1>9. RunsTrue'
  <2>. SUFFICES ASSUME Undisturbed' PROVE RunsTrue'
    BY DEF RunsTrue
  <2>1. Undisturbed
    BY <1>1 DEF Undisturbed
  <2>2. m \in Targets(rekey.args) /\ Targets(rekey.args)' = Targets(rekey.args)
    BY <1>1, <2>1 DEF KeysIInv, RunsTrue, Targets
  <2>3. LookedAt' = LookedAt \cup {m} /\ m \notin LookedAt /\ Signing = {} /\ LookedAt \subseteq Machines
    BY <1>1, <1>3, <2>2, ArgumentHosts DEF LookedAt, Signing
  <2>4. rekey'.todo \subseteq Targets(rekey.args)
    BY <1>1, <2>1 DEF KeysIInv, RunsTrue
  <2>5. rekey'.keep = {SpecOf(n)' : n \in {k \in LookedAt' : HasSpec(k)'}}
    <3>1. rekey.keep = {SpecOf(n) : n \in {k \in LookedAt : HasSpec(k)}}
      BY <2>1 DEF KeysIInv, RunsTrue
    <3>. QED BY <1>2, <1>7, <2>3, <3>1
  <2>6. \A n \in rekey'.todo :
          {f \in Filed(certDir, SpecOf(n))' : IsSigned(f)'} = Filed(rekey.onDisk, SpecOf(n))'
    BY <1>1, <1>3, <1>7, <2>1 DEF KeysIInv, RunsTrue, Filed, IsSigned
  <2>7. ~rekey.args.dryRun => \A n \in LookedAt' \ Signing' : HasSpec(n)' => UpToDate(n)'
    <3>. SUFFICES ASSUME ~rekey.args.dryRun, NEW n \in LookedAt', n \notin Signing', HasSpec(n)
                  PROVE  UpToDate(n)
      BY <1>3, <1>7, <2>3
    <3>1. CASE n # m
      BY <2>1, <2>3, <3>1 DEF KeysIInv, RunsTrue
    <3>2. CASE n = m /\ DueIn(rekey, m)
      <4>1. rekey'.at = "sign" /\ rekey'.job.spec = SpecOf(m)
        BY <1>2, <3>2 DEF Cert
      <4>. QED BY <1>4, <3>2, <4>1 DEF Signing
    <3>3. CASE n = m /\ ~DueIn(rekey, m)
      BY <1>8, <3>3
    <3>. QED BY <3>1, <3>2, <3>3
  <2>8. rekey'.at \in {"sign", "rename"} =>
          /\ ~rekey'.args.dryRun
          /\ \E n \in LookedAt' : HasSpec(n)' /\ rekey'.job = Cert(SpecOf(n), options[n].validity)'
    <3>1. rekey'.at \in {"sign", "rename"} => DueIn(rekey, m) /\ ~rekey.args.dryRun
      BY <1>2
    <3>2. Cert(SpecOf(m), options[m].validity)' = Cert(SpecOf(m), options[m].validity)
      BY <1>1, <1>7 DEF Cert
    <3>. QED BY <1>1, <1>2, <1>7, <2>3, <3>1, <3>2 DEF DueIn
  <2>9. rekey'.at # "prune"
    BY <1>2
  <2>10. rekey'.args.dryRun => rekey'.onDisk = ReadCertDir'
    BY <1>1, <2>1 DEF KeysIInv, RunsTrue, ReadCertDir, IsSigned
  <2>. QED BY <1>1, <2>2, <2>4, <2>5, <2>6, <2>7, <2>8, <2>9, <2>10 DEF RunsTrue
<1>10. Announces' = Announces
  <2>1. \A n \in Machines :
          /\ Delta(rekey, SpecOf(n), options[n].validity)' = Delta(rekey, SpecOf(n), options[n].validity)
          /\ DueIn(rekey, n)' <=> DueIn(rekey, n)
    <3>1. \A n \in Machines : (Filed(certDir, SpecOf(n)) = {})' <=> Filed(certDir, SpecOf(n)) = {}
      BY <1>1, <1>7 DEF Filed
    <3>. QED BY <1>1, <3>1, ElementFrame
  <2>. DEFINE d(n) == Delta(rekey, SpecOf(n), options[n].validity)
  <2>2. DeltasOf(rekey, rekey.todo)' = {d(n) : n \in {k \in rekey.todo \ {m} : DueIn(rekey, k)}}
    BY <1>1, <1>3, <2>1 DEF DeltasOf
  <2>3. DeltasOf(rekey, rekey.todo) = {d(n) : n \in {k \in rekey.todo : DueIn(rekey, k)}}
    BY DEF DeltasOf
  <2>4. rekey'.deltas = rekey.deltas \cup (IF DueIn(rekey, m) THEN {d(m)} ELSE {})
    BY <1>2
  <2>. HIDE DEF d
  <2>. QED BY <1>1, <2>2, <2>3, <2>4 DEF Announces
<1>11. DryRunSays'
  <2>1. Undisturbed' <=> Undisturbed
    BY <1>1 DEF Undisturbed
  <2>2. Plan(rekey.args)' = Plan(rekey.args)
    BY <1>1, <1>3, PlanFrame
  <2>. QED BY <1>1, <1>10, <2>1, <2>2 DEF KeysIInv, DryRunSays
<1>12. RekeyBringsUpToDate'
  BY <1>1 DEF RekeyBringsUpToDate
<1>. QED BY <1>5, <1>6, <1>9, <1>11, <1>12 DEF KeysIInv

\* The certificate that is made: its machine is looked at already.
LEMMA JobFields ==
  ASSUME KeysIInv, rekey # Idle, rekey.at \in {"sign", "rename"}
  PROVE  /\ rekey.job \in Certs /\ rekey.job # Nothing /\ rekey.job.spec.ca = ca
         /\ rekey.job.spec \in HostSpecs
         /\ \A temp \in BOOLEAN : [temp |-> temp, spec |-> rekey.job.spec, cert |-> rekey.job] \in CertFiles
<1>1. rekey.job \in Certs /\ rekey.job.spec.ca = ca
  BY DEF KeysIInv, SignedByACa
<1>2. rekey.job # Nothing
  BY <1>1, NebulaKeysAssumption
<1>3. rekey.job.spec \in HostSpecs
  BY <1>1 DEF Certs
<1>. QED BY <1>1, <1>2, <1>3 DEF CertFiles

\* The temporary file is no machine's certificate yet.
LEMMA CertSignIInv == ASSUME KeysIInv, Sign PROVE KeysIInv'
<1>1. /\ rekey # Idle /\ rekey.at = "sign" /\ ca # 0 /\ rekey' = [rekey EXCEPT !.at = "rename"]
      /\ certDir' = certDir \cup {Temp(rekey.job)}
      /\ UNCHANGED <<ca, options, today, disturbed, finished>>
  BY DEF Sign, world, Idle
<1>2. rekey \in RekeyRun(rekey.deltas) /\ rekey.todo \subseteq Machines
  BY <1>1, RunFields DEF KeysIInv
<1>3. /\ rekey'.at = "rename" /\ rekey'.args = rekey.args /\ rekey'.onDisk = rekey.onDisk
      /\ rekey'.now = rekey.now /\ rekey'.since = rekey.since /\ rekey'.todo = rekey.todo
      /\ rekey'.keep = rekey.keep /\ rekey'.deltas = rekey.deltas /\ rekey'.job = rekey.job
      /\ rekey' \in RekeyRun(rekey.deltas)
  BY <1>1, <1>2 DEF RekeyRun
<1>4. rekey' # Idle /\ rekey' \in RekeyRun(rekey.deltas)'
  BY <1>1, <1>3 DEF Idle, RekeyRun
<1>5. Temp(rekey.job) \in CertFiles /\ Temp(rekey.job).temp /\ Temp(rekey.job).spec.ca = ca
  BY <1>1, JobFields DEF Temp
<1>6. KeysTyped'
  BY <1>1, <1>4, <1>5 DEF KeysIInv, KeysTyped
<1>7. SignedByACa'
  <2>1. ca \in Nat /\ ca # 0 /\ rekey.job \in Certs /\ rekey.job.spec.ca = ca
    BY <1>1, JobFields, NebulaKeysAssumption DEF KeysIInv, KeysTyped
  <2>. QED BY <1>1, <1>3, <1>5, <2>1 DEF KeysIInv, SignedByACa, IsSigned
<1>8. \A spec : Filed(certDir, spec)' = Filed(certDir, spec)
  BY <1>1, <1>5 DEF Filed
<1>9. \A n \in Machines : SpecOf(n)' = SpecOf(n) /\ HasSpec(n)' = HasSpec(n) /\ UpToDate(n)' = UpToDate(n)
  <2>1. \A n \in Machines : SpecOf(n)' = SpecOf(n) /\ HasSpec(n)' = HasSpec(n)
    BY <1>1 DEF SpecOf, HasSpec
  <2>. QED BY <1>1, <1>8, <2>1 DEF UpToDate, LastsAWhile, IsSigned
<1>10. RunsTrue'
  <2>. SUFFICES ASSUME Undisturbed' PROVE RunsTrue'
    BY DEF RunsTrue
  <2>1. Undisturbed
    BY <1>1, <1>3 DEF Undisturbed
  <2>2. LookedAt' = LookedAt /\ LookedAt \subseteq Machines /\ Signing' = Signing
    <3>1. Targets(rekey.args) \subseteq Machines
      BY <1>1, RunFields, ArgumentHosts DEF KeysIInv
    <3>. QED BY <1>1, <1>3, <3>1 DEF LookedAt, Targets, Signing
  <2>3. \A n \in rekey.todo :
          {f \in Filed(certDir, SpecOf(n))' : IsSigned(f)'} = Filed(rekey.onDisk, SpecOf(n))'
    BY <1>2, <1>3, <1>8, <1>9, <2>1 DEF KeysIInv, RunsTrue, Filed, IsSigned
  <2>4. PICK n \in LookedAt :
          HasSpec(n) /\ rekey.job = Cert(SpecOf(n), options[n].validity) /\ ~rekey.args.dryRun
    BY <1>1, <2>1 DEF KeysIInv, RunsTrue
  <2>5. Cert(SpecOf(n), options[n].validity)' = Cert(SpecOf(n), options[n].validity)
    BY <1>1, <1>9, <2>2 DEF Cert
  <2>6. rekey'.keep = {SpecOf(k)' : k \in {j \in LookedAt' : HasSpec(j)'}}
    BY <1>3, <1>9, <2>1, <2>2 DEF KeysIInv, RunsTrue
  <2>7. \A k \in LookedAt' \ Signing' : HasSpec(k)' => UpToDate(k)'
    BY <1>9, <2>1, <2>2, <2>4 DEF KeysIInv, RunsTrue
  <2>8. rekey.todo \subseteq Targets(rekey.args)'
    BY <1>3, <2>1 DEF KeysIInv, RunsTrue, Targets
  <2>. QED BY <1>3, <1>9, <2>2, <2>3, <2>4, <2>5, <2>6, <2>7, <2>8 DEF RunsTrue
<1>11. Announces' = Announces
  <2>1. \A n \in Machines :
          /\ Delta(rekey, SpecOf(n), options[n].validity)' = Delta(rekey, SpecOf(n), options[n].validity)
          /\ DueIn(rekey, n)' <=> DueIn(rekey, n)
    BY <1>1, <1>3, <1>8, <1>9, ElementFrame
  <2>2. DeltasOf(rekey, rekey.todo)' = DeltasOf(rekey, rekey.todo)
    BY <1>2, <1>3, <2>1 DEF DeltasOf
  <2>. QED BY <1>3, <2>2 DEF Announces
<1>12. DryRunSays'
  <2>1. Undisturbed' <=> Undisturbed
    BY <1>1, <1>3, <1>4 DEF Undisturbed
  <2>2. Undisturbed => ~rekey.args.dryRun
    BY <1>1 DEF KeysIInv, RunsTrue
  <2>. QED BY <1>1, <1>3, <1>4, <1>11, <2>1, <2>2 DEF KeysIInv, DryRunSays
<1>13. RekeyBringsUpToDate'
  BY <1>4 DEF RekeyBringsUpToDate
<1>. QED BY <1>6, <1>7, <1>10, <1>12, <1>13 DEF KeysIInv

\* The new certificate takes the place of what was filed under its spec, and is fresh.
LEMMA RenameIInv == ASSUME KeysIInv, Rename PROVE KeysIInv'
<1>. DEFINE new == [temp |-> FALSE, spec |-> rekey.job.spec, cert |-> rekey.job]
<1>1. /\ rekey # Idle /\ rekey.at = "rename"
      /\ rekey' = [rekey EXCEPT !.at = "evaluate", !.job = Nothing]
      /\ UNCHANGED <<ca, options, today, disturbed, finished>>
  BY DEF Rename, world, Idle
<1>2. certDir' = (certDir \ (Filed(certDir, rekey.job.spec) \cup {Temp(rekey.job)})) \cup {new}
  <2>1. Temp(rekey.job) \in [temp : BOOLEAN, spec : {rekey.job.spec}, cert : {rekey.job}]
    BY DEF Temp
  <2>. DEFINE renamed == [Temp(rekey.job) EXCEPT !.temp = FALSE]
  <2>2. renamed = new
    <3>1. renamed \in [temp : {FALSE}, spec : {rekey.job.spec}, cert : {rekey.job}]
      BY <2>1
    <3>. HIDE DEF renamed
    <3>. QED BY <3>1
  <2>. QED BY <2>2 DEF Rename, renamed
<1>3. rekey \in RekeyRun(rekey.deltas) /\ rekey.todo \subseteq Machines
  BY <1>1, RunFields DEF KeysIInv
<1>4. /\ rekey'.at = "evaluate" /\ rekey'.args = rekey.args /\ rekey'.onDisk = rekey.onDisk
      /\ rekey'.now = rekey.now /\ rekey'.since = rekey.since /\ rekey'.todo = rekey.todo
      /\ rekey'.keep = rekey.keep /\ rekey'.deltas = rekey.deltas
      /\ rekey' \in RekeyRun(rekey.deltas)
  BY <1>1, <1>3 DEF RekeyRun
<1>5. rekey' # Idle /\ rekey' \in RekeyRun(rekey.deltas)'
  BY <1>1, <1>4 DEF Idle, RekeyRun
<1>6. new \in CertFiles /\ rekey.job \in Certs /\ rekey.job.spec.ca = ca /\ rekey.job # Nothing
  BY <1>1, JobFields
<1>7. KeysTyped'
  BY <1>1, <1>2, <1>5, <1>6 DEF KeysIInv, KeysTyped
<1>8. SignedByACa'
  <2>1. ca \in Nat /\ ca # 0
    BY <1>1, NebulaKeysAssumption DEF KeysIInv, KeysTyped, SignedByACa
  <2>2. new.spec.ca \in 1..ca
    BY <1>6, <2>1
  <2>. QED BY <1>1, <1>2, <1>4, <2>2 DEF KeysIInv, SignedByACa, IsSigned
<1>9. \A spec : spec # rekey.job.spec => Filed(certDir', spec) = Filed(certDir, spec)
  <2>1. Temp(rekey.job).temp
    BY DEF Temp
  <2>. QED BY <1>2, <2>1 DEF Filed
<1>10. Filed(certDir', rekey.job.spec) = {new}
  <2>1. new.spec = rekey.job.spec /\ ~new.temp
    OBVIOUS
  <2>. QED BY <1>2, <2>1 DEF Filed
<1>11. \A n \in Machines : SpecOf(n)' = SpecOf(n) /\ HasSpec(n)' = HasSpec(n) /\ SpecOf(n).host = n
  BY <1>1 DEF SpecOf, HasSpec
<1>12. Undisturbed' <=> Undisturbed
  BY <1>1, <1>4, <1>5 DEF Undisturbed
<1>13. ASSUME Undisturbed
       PROVE  /\ ~rekey.args.dryRun
              /\ \E m \in LookedAt : HasSpec(m) /\ rekey.job = Cert(SpecOf(m), options[m].validity)
  BY <1>1, <1>13 DEF KeysIInv, RunsTrue
<1>14. Targets(rekey.args) \subseteq Machines /\ Targets(rekey.args)' = Targets(rekey.args)
  BY <1>1, <1>4, RunFields, ArgumentHosts DEF KeysIInv, Targets
<1>15. LookedAt' = LookedAt /\ LookedAt \subseteq Machines
  BY <1>4, <1>14 DEF LookedAt
<1>16. RunsTrue'
  <2>. SUFFICES ASSUME Undisturbed' PROVE RunsTrue'
    BY DEF RunsTrue
  <2>1. PICK m \in LookedAt :
          HasSpec(m) /\ rekey.job = Cert(SpecOf(m), options[m].validity) /\ ~rekey.args.dryRun
    BY <1>12, <1>13
  <2>2. m \in Machines /\ rekey.job.spec = SpecOf(m) /\ rekey.job.notAfter = today + options[m].validity
    BY <1>15, <2>1 DEF Cert
  <2>3. m \notin rekey.todo /\ Signing = {m} /\ Signing' = {}
    BY <1>1, <1>4, <1>11, <2>2 DEF LookedAt, Signing
  <2>4. \A n \in Machines \ {m} : Filed(certDir', SpecOf(n)) = Filed(certDir, SpecOf(n))
    BY <1>9, <1>11, <2>2
  <2>5. UpToDate(m)'
    <3>1. options[m].validity \in Nat \ {0} /\ today \in Nat
      BY <2>2, SpecFields DEF KeysIInv, KeysTyped
    <3>2. new.cert.notAfter = today + options[m].validity /\ new.spec.host = m
      BY <1>11, <2>2
    <3>3. 3 * (new.cert.notAfter - today') > 2 * options'[new.spec.host].validity
      BY <1>1, <3>1, <3>2
    <3>4. Filed(certDir, SpecOf(m))' = {new}
      BY <1>10, <1>11, <2>2
    <3>. HIDE DEF new
    <3>. QED BY <3>3, <3>4 DEF UpToDate, LastsAWhile
  <2>6. \A n \in Machines \ {m} : UpToDate(n)' = UpToDate(n)
    BY <1>1, <1>11, <2>4 DEF UpToDate, LastsAWhile, IsSigned
  <2>7. \A n \in LookedAt' \ Signing' : HasSpec(n)' => UpToDate(n)'
    BY <1>11, <1>12, <1>15, <2>1, <2>3, <2>5, <2>6 DEF KeysIInv, RunsTrue
  <2>8. \A n \in rekey.todo :
          {f \in Filed(certDir, SpecOf(n))' : IsSigned(f)'} = Filed(rekey.onDisk, SpecOf(n))'
    <3>1. \A n \in rekey.todo : {f \in Filed(certDir, SpecOf(n)) : IsSigned(f)} = Filed(rekey.onDisk, SpecOf(n))
      BY <1>12 DEF KeysIInv, RunsTrue
    <3>2. \A n \in rekey.todo : Filed(certDir, SpecOf(n))' = Filed(certDir, SpecOf(n))
      BY <1>3, <1>11, <2>3, <2>4
    <3>3. \A n \in rekey.todo : Filed(rekey.onDisk, SpecOf(n))' = Filed(rekey.onDisk, SpecOf(n))
      BY <1>3, <1>4, <1>11
    <3>. QED BY <3>1, <3>2, <3>3 DEF IsSigned
  <2>9. rekey'.keep = {SpecOf(k)' : k \in {j \in LookedAt' : HasSpec(j)'}}
    BY <1>4, <1>11, <1>12, <1>15 DEF KeysIInv, RunsTrue
  <2>10. rekey.todo \subseteq Targets(rekey.args)'
    BY <1>12, <1>14 DEF KeysIInv, RunsTrue
  <2>. QED BY <1>4, <2>1, <2>7, <2>8, <2>9, <2>10 DEF RunsTrue
<1>17. Undisturbed => Announces' = Announces
  <2>. SUFFICES ASSUME Undisturbed PROVE Announces' = Announces
    OBVIOUS
  <2>1. PICK m \in LookedAt : rekey.job = Cert(SpecOf(m), options[m].validity)
    BY <1>13
  <2>2. m \notin rekey.todo /\ rekey.job.spec = SpecOf(m) /\ m \in Machines
    BY <1>15, <2>1 DEF LookedAt, Cert
  <2>3. \A n \in rekey.todo : Filed(certDir', SpecOf(n)) = Filed(certDir, SpecOf(n))
    BY <1>3, <1>9, <1>11, <2>2
  <2>4. \A n \in rekey.todo :
          /\ Delta(rekey, SpecOf(n), options[n].validity)' = Delta(rekey, SpecOf(n), options[n].validity)
          /\ DueIn(rekey, n)' <=> DueIn(rekey, n)
    BY <1>1, <1>3, <1>4, <1>11, <2>3, ElementFrame
  <2>5. DeltasOf(rekey, rekey.todo)' = DeltasOf(rekey, rekey.todo)
    BY <1>4, <2>4 DEF DeltasOf
  <2>. QED BY <1>4, <2>5 DEF Announces
<1>18. DryRunSays'
  BY <1>1, <1>4, <1>5, <1>12, <1>13, <1>17 DEF KeysIInv, DryRunSays
<1>19. RekeyBringsUpToDate'
  BY <1>5 DEF RekeyBringsUpToDate
<1>. QED BY <1>7, <1>8, <1>16, <1>18, <1>19 DEF KeysIInv

\* A run ends with nothing left to announce; one over all machines that was not
\* disturbed leaves what it kept, and that is the directory.
LEMMA EndIInv ==
  ASSUME KeysIInv, rekey # Idle, RekeyEnds, UNCHANGED <<ca, options, certDir, today, disturbed>>,
         Undisturbed => rekey.todo = {} /\ rekey.at \notin {"sign", "rename"},
         Undisturbed /\ rekey.args.host = Nothing /\ ~rekey.args.dryRun => Orphans(rekey.keep) = {}
  PROVE  KeysIInv'
<1>1. rekey' = Idle
  BY DEF RekeyEnds
<1>2. finished' # Nothing => Undisturbed /\ finished'.args = rekey.args /\ finished'.deltas = rekey.deltas
  BY DEF RekeyEnds, Undisturbed
<1>3. rekey.args \in Arguments
  BY RunFields DEF KeysIInv
<1>4. KeysTyped' /\ SignedByACa'
  BY <1>1, <1>2, <1>3 DEF KeysIInv, KeysTyped, SignedByACa, IsSigned
<1>5. RunsTrue'
  BY <1>1 DEF RunsTrue, Undisturbed
<1>6. DryRunSays'
  <2>1. \A args \in Arguments : Plan(args)' = Plan(args)
    BY PlanFrame
  <2>2. ASSUME finished' # Nothing, rekey.args.dryRun PROVE rekey.deltas = Plan(rekey.args)
    <3>1. Announces = Plan(rekey.args) /\ rekey.todo = {}
      BY <1>2, <2>2 DEF KeysIInv, DryRunSays
    <3>. QED BY <3>1 DEF Announces, DeltasOf
  <2>3. finished' # Nothing /\ finished'.args.dryRun => finished'.deltas = Plan(finished'.args)
    BY <1>2, <2>2
  <2>4. finished' # Nothing => finished'.args \in Arguments
    BY <1>2, <1>3
  <2>. QED BY <1>1, <2>1, <2>3, <2>4 DEF DryRunSays, Undisturbed
<1>7. RekeyBringsUpToDate'
  <2>. SUFFICES ASSUME finished' # Nothing, rekey.args.host = Nothing, ~rekey.args.dryRun
                PROVE  /\ {file.spec : file \in certDir} = {SpecOf(m)' : m \in {n \in Machines : HasSpec(n)'}}
                       /\ \A file \in certDir :
                            /\ ~file.temp
                            /\ ~IsSigned(file) \/ 3 * (file.cert.notAfter - today) > 2 * options[file.spec.host].validity
    BY <1>1, <1>2 DEF RekeyBringsUpToDate, IsSigned
  <2>1. Undisturbed /\ rekey.todo = {} /\ Signing = {} /\ LookedAt = Machines
    BY <1>2 DEF Signing, LookedAt, Targets
  <2>2. /\ rekey.keep = {SpecOf(m) : m \in {n \in Machines : HasSpec(n)}}
        /\ \A m \in Machines : HasSpec(m) => UpToDate(m)
    BY <2>1 DEF KeysIInv, RunsTrue
  <2>3. \A file \in certDir : ~file.temp /\ file.spec \in rekey.keep
    BY <1>2, <2>1 DEF Orphans
  <2>4. ASSUME NEW file \in certDir PROVE LastsAWhile(file)
    <3>1. PICK m \in Machines : HasSpec(m) /\ file.spec = SpecOf(m)
      BY <2>2, <2>3
    <3>. QED BY <2>2, <2>3, <3>1 DEF UpToDate, Filed
  <2>5. ASSUME NEW m \in Machines, HasSpec(m) PROVE \E file \in certDir : file.spec = SpecOf(m)
    BY <2>2, <2>5 DEF UpToDate, Filed
  <2>6. \A m \in Machines : SpecOf(m)' = SpecOf(m) /\ HasSpec(m)' = HasSpec(m)
    BY DEF SpecOf, HasSpec
  <2>. QED BY <2>2, <2>3, <2>4, <2>5, <2>6 DEF LastsAWhile
<1>. QED BY <1>4, <1>5, <1>6, <1>7 DEF KeysIInv

LEMMA AllTargetsDoneIInv == ASSUME KeysIInv, AllTargetsDone PROVE KeysIInv'
<1>1. /\ rekey # Idle /\ rekey.at = "evaluate" /\ rekey.todo = {}
      /\ UNCHANGED <<ca, options, certDir, today, disturbed>>
  BY DEF AllTargetsDone, world, Idle
<1>2. CASE ~(rekey.args.host = Nothing /\ ~rekey.args.dryRun)
  BY <1>1, <1>2, EndIInv DEF AllTargetsDone
<1>3. CASE rekey.args.host = Nothing /\ ~rekey.args.dryRun
  <2>1. rekey' = [rekey EXCEPT !.at = "prune"] /\ finished' = finished
    BY <1>3 DEF AllTargetsDone
  <2>2. rekey \in RekeyRun(rekey.deltas)
    BY <1>1, RunFields DEF KeysIInv
  <2>3. /\ rekey'.at = "prune" /\ rekey'.args = rekey.args /\ rekey'.onDisk = rekey.onDisk
        /\ rekey'.now = rekey.now /\ rekey'.since = rekey.since /\ rekey'.todo = {}
        /\ rekey'.keep = rekey.keep /\ rekey'.deltas = rekey.deltas
        /\ rekey' \in RekeyRun(rekey.deltas)
    BY <1>1, <2>1, <2>2 DEF RekeyRun
  <2>4. rekey' # Idle /\ rekey' \in RekeyRun(rekey.deltas)'
    BY <1>1, <2>3 DEF Idle, RekeyRun
  <2>5. KeysTyped' /\ SignedByACa'
    BY <1>1, <2>1, <2>3, <2>4 DEF KeysIInv, KeysTyped, SignedByACa, IsSigned
  <2>6. Undisturbed' <=> Undisturbed
    BY <1>1, <2>3, <2>4 DEF Undisturbed
  <2>7. \A n \in Machines : SpecOf(n)' = SpecOf(n) /\ HasSpec(n)' = HasSpec(n) /\ UpToDate(n)' = UpToDate(n)
    BY <1>1 DEF SpecOf, HasSpec, UpToDate, Filed, LastsAWhile, IsSigned
  <2>8. LookedAt' = LookedAt /\ LookedAt \subseteq Machines /\ Signing = {} /\ Signing' = {}
    <3>1. Targets(rekey.args) \subseteq Machines
      BY <1>1, RunFields, ArgumentHosts DEF KeysIInv
    <3>. QED BY <1>1, <2>3, <3>1 DEF LookedAt, Targets, Signing
  <2>9. RunsTrue'
    <3>. SUFFICES ASSUME Undisturbed' PROVE RunsTrue'
      BY DEF RunsTrue
    <3>1. /\ rekey.keep = {SpecOf(m) : m \in {n \in LookedAt : HasSpec(n)}}
          /\ \A m \in LookedAt \ Signing : HasSpec(m) => UpToDate(m)
      BY <1>3, <2>6 DEF KeysIInv, RunsTrue
    <3>2. rekey'.keep = {SpecOf(m)' : m \in {n \in LookedAt' : HasSpec(n)'}}
      BY <2>3, <2>7, <2>8, <3>1
    <3>3. \A m \in LookedAt' \ Signing' : HasSpec(m)' => UpToDate(m)'
      BY <2>7, <2>8, <3>1
    <3>. QED BY <1>3, <2>3, <3>2, <3>3 DEF RunsTrue
  <2>10. Announces' = Announces
    BY <1>1, <2>3 DEF Announces, DeltasOf
  <2>11. DryRunSays'
    <3>1. finished # Nothing =>
            /\ finished.args.dryRun /\ finished.args = [rekey.args EXCEPT !.dryRun = TRUE]
            /\ Undisturbed /\ finished.deltas = Announces
      BY <1>1 DEF KeysIInv, DryRunSays
    <3>2. finished # Nothing =>
            /\ finished'.args.dryRun /\ finished'.args = [rekey'.args EXCEPT !.dryRun = TRUE]
            /\ Undisturbed' /\ finished'.deltas = Announces'
      BY <2>1, <2>3, <2>6, <2>10, <3>1
    <3>. QED BY <1>3, <2>1, <2>3, <2>4, <3>2 DEF DryRunSays
  <2>12. RekeyBringsUpToDate'
    BY <2>4 DEF RekeyBringsUpToDate
  <2>. QED BY <2>5, <2>9, <2>11, <2>12 DEF KeysIInv
<1>. QED BY <1>2, <1>3

\* What is pruned is no machine's certificate.
LEMMA PruneIInv == ASSUME KeysIInv, Prune PROVE KeysIInv'
<1>1. rekey # Idle /\ rekey.at = "prune" /\ UNCHANGED <<ca, options, today, disturbed>>
  BY DEF Prune, world, Idle
<1>2. Undisturbed => rekey.todo = {} /\ rekey.args.host = Nothing /\ ~rekey.args.dryRun
  BY <1>1 DEF KeysIInv, RunsTrue
<1>3. CASE Orphans(rekey.keep) = {} /\ RekeyEnds /\ certDir' = certDir
  BY <1>1, <1>2, <1>3, EndIInv
<1>4. ASSUME NEW file \in Orphans(rekey.keep), certDir' = certDir \ {file}, UNCHANGED <<rekey, finished>>
      PROVE  KeysIInv'
  <2>1. KeysTyped' /\ SignedByACa'
    BY <1>1, <1>4 DEF KeysIInv, KeysTyped, RekeyRun, SignedByACa, IsSigned
  <2>2. Undisturbed' <=> Undisturbed
    BY <1>1, <1>4 DEF Undisturbed
  <2>3. \A n \in Machines : SpecOf(n)' = SpecOf(n) /\ HasSpec(n)' = HasSpec(n)
    BY <1>1 DEF SpecOf, HasSpec
  <2>4. LookedAt' = LookedAt /\ LookedAt \subseteq Machines /\ Signing' = Signing
    <3>1. Targets(rekey.args) \subseteq Machines
      BY <1>1, RunFields, ArgumentHosts DEF KeysIInv
    <3>. QED BY <1>4, <3>1 DEF LookedAt, Targets, Signing
  <2>5. RunsTrue'
    <3>. SUFFICES ASSUME Undisturbed PROVE RunsTrue'
      BY <2>2 DEF RunsTrue
    <3>1. /\ rekey.keep = {SpecOf(m) : m \in {n \in LookedAt : HasSpec(n)}}
          /\ \A m \in LookedAt \ Signing : HasSpec(m) => UpToDate(m)
      BY <1>2 DEF KeysIInv, RunsTrue
    <3>2. \A m \in LookedAt : HasSpec(m) => Filed(certDir', SpecOf(m)) = Filed(certDir, SpecOf(m))
      BY <1>4, <3>1 DEF Orphans, Filed
    <3>3. \A m \in LookedAt \ Signing : HasSpec(m) => UpToDate(m)'
      BY <1>1, <2>3, <2>4, <3>1, <3>2 DEF UpToDate, LastsAWhile, IsSigned
    <3>4. rekey.keep = {SpecOf(m)' : m \in {n \in LookedAt' : HasSpec(n)'}}
      BY <2>3, <2>4, <3>1
    <3>. QED BY <1>1, <1>2, <1>4, <2>3, <2>4, <3>3, <3>4 DEF RunsTrue
  <2>6. DryRunSays'
    <3>1. Undisturbed => Announces' = Announces
      BY <1>2, <1>4 DEF Announces, DeltasOf
    <3>. QED BY <1>1, <1>2, <1>4, <2>2, <3>1 DEF KeysIInv, DryRunSays
  <2>7. RekeyBringsUpToDate'
    BY <1>1, <1>4 DEF RekeyBringsUpToDate
  <2>. QED BY <2>1, <2>5, <2>6, <2>7 DEF KeysIInv
<1>. QED BY <1>3, <1>4 DEF Prune

LEMMA KeysInductive == KeysIInv /\ [NebulaKeysNext]_nebulaKeysVars => KeysIInv'
<1>. SUFFICES ASSUME KeysIInv, [NebulaKeysNext]_nebulaKeysVars PROVE KeysIInv'
  OBVIOUS
<1>1. CASE UNCHANGED nebulaKeysVars
  BY <1>1, KeysFrame DEF nebulaKeysVars, world
<1>2. ASSUME NEW m \in Machines, NEW forced \in BOOLEAN, Keygen(m, forced), ~forced PROVE KeysIInv'
  BY <1>2, KeysFrame DEF Keygen, world
<1>3. CASE Generate \/ InstallKey \/ PrintKey
  BY <1>3, KeysFrame DEF Generate, InstallKey, PrintKey, world
<1>4. ASSUME NEW m \in Machines, NEW forced \in BOOLEAN, Keygen(m, forced) PROVE KeysIInv'
  BY <1>2, <1>4, DisturbancesIInv
<1>. QED
  BY <1>1, <1>3, <1>4, DisturbancesIInv, CreateIInv, NextDayIInv, StartRekeyIInv, EvaluateIInv, CertSignIInv,
     RenameIInv, AllTargetsDoneIInv, PruneIInv DEF NebulaKeysNext

\* No step of an undisturbed run takes away a certificate that is current.
LEMMA CertsStay ==
  ASSUME KeysIInv, NebulaKeysNext PROVE CurrentCertsStay
<1>. SUFFICES ASSUME rekey # Idle, rekey.since = disturbed', NEW file \in certDir, ~file.temp,
                     NEW m \in Machines, HasSpec(m), file.spec = SpecOf(m)
              PROVE  \E other \in Filed(certDir', file.spec) : IsSigned(file) => IsSigned(other)
  BY DEF CurrentCertsStay
<1>1. disturbed \in Nat /\ rekey.since \in 0..disturbed
  BY RunFields DEF KeysIInv, KeysTyped
<1>2. disturbed' # disturbed + 1
  BY <1>1
<1>3. CASE file \in certDir'
  BY <1>3 DEF Filed
<1>4. CASE Rename /\ file \notin certDir'
  <2>. DEFINE new == [temp |-> FALSE, spec |-> rekey.job.spec, cert |-> rekey.job]
  <2>1. rekey.at = "rename"
    BY <1>4 DEF Rename
  <2>2. rekey.job # Nothing
    BY <2>1, JobFields
  <2>3. Temp(rekey.job) \in [temp : BOOLEAN, spec : {rekey.job.spec}, cert : {rekey.job}] /\ Temp(rekey.job).temp
    BY DEF Temp
  <2>. DEFINE renamed == [Temp(rekey.job) EXCEPT !.temp = FALSE]
  <2>4. renamed \in [temp : {FALSE}, spec : {rekey.job.spec}, cert : {rekey.job}]
    BY <2>3
  <2>5. certDir' = (certDir \ (Filed(certDir, rekey.job.spec) \cup {Temp(rekey.job)})) \cup {renamed}
    BY <1>4 DEF Rename
  <2>. HIDE DEF renamed
  <2>6. file.spec = rekey.job.spec
    BY <1>4, <2>3, <2>5 DEF Filed
  <2>. QED BY <2>2, <2>4, <2>5, <2>6 DEF Filed, IsSigned
<1>5. CASE Prune
  <2>1. rekey.at = "prune" /\ Undisturbed
    BY <1>5 DEF Prune, world, Undisturbed
  <2>2. rekey.todo = {} /\ rekey.keep = {SpecOf(n) : n \in {k \in LookedAt : HasSpec(k)}} /\ LookedAt = Machines
    BY <2>1 DEF KeysIInv, RunsTrue, LookedAt, Targets
  <2>3. file \notin Orphans(rekey.keep)
    BY <2>2 DEF Orphans
  <2>. QED BY <1>3, <1>5, <2>3 DEF Prune
<1>6. CASE Sign
  BY <1>3, <1>6 DEF Sign
<1>7. \/ certDir' = certDir \/ disturbed' = disturbed + 1
      \/ Sign \/ Rename \/ Prune
  <2>1. ASSUME NEW forced \in BOOLEAN, Create(forced) \/ \E n \in Machines : Keygen(n, forced)
        PROVE  certDir' = certDir
    BY <2>1 DEF Create, Keygen
  <2>2. ASSUME NEW n \in Machines, Evaluate(n) \/ Edit(n) PROVE certDir' = certDir
    BY <2>2 DEF Evaluate, Edit
  <2>3. ASSUME NEW other \in certDir, Corrupt(other) PROVE disturbed' = disturbed + 1
    BY <2>3 DEF Corrupt, Disturbs
  <2>4. SignFails => disturbed' = disturbed + 1
    BY DEF SignFails, Disturbs
  <2>5. ASSUME NEW args \in Arguments, StartRekey(args) PROVE certDir' = certDir
    BY <2>5 DEF StartRekey
  <2>. QED
    BY <2>1, <2>2, <2>3, <2>4, <2>5
       DEF NebulaKeysNext, Generate, InstallKey, PrintKey, LoseConnection, AllTargetsDone, Aborts, NextDay
<1>. QED BY <1>2, <1>3, <1>4, <1>5, <1>6, <1>7

\* What a run that ends has announced is what the dry run before it did.
LEMMA DryRunWasTrue ==
  ASSUME KeysIInv, NebulaKeysNext PROVE DryRunIsTrue
<1>. SUFFICES ASSUME finished # Nothing, finished' # Nothing, finished' # finished, finished.args.dryRun
              PROVE  finished'.deltas = finished.deltas
  BY DEF DryRunIsTrue
<1>1. ASSUME rekey # Idle, RekeyEnds, Undisturbed => rekey.todo = {}
      PROVE  finished'.deltas = finished.deltas
  <2>1. Undisturbed /\ finished.deltas = Announces
    BY <1>1 DEF KeysIInv, DryRunSays
  <2>2. Announces = rekey.deltas
    BY <1>1, <2>1 DEF Announces, DeltasOf
  <2>3. finished'.deltas = rekey.deltas
    BY <1>1, <2>1 DEF RekeyEnds, Undisturbed
  <2>. QED BY <2>1, <2>2, <2>3
<1>2. CASE AllTargetsDone
  <2>1. rekey # Idle /\ rekey.todo = {} /\ RekeyEnds
    BY <1>2 DEF AllTargetsDone, Idle
  <2>. QED BY <1>1, <2>1
<1>3. CASE Prune
  <2>1. rekey # Idle /\ rekey.at = "prune" /\ RekeyEnds
    BY <1>3 DEF Prune, Idle
  <2>. QED BY <1>1, <2>1 DEF KeysIInv, RunsTrue
<1>4. finished' \in {finished, Nothing} \/ AllTargetsDone \/ Prune
  <2>1. ASSUME NEW forced \in BOOLEAN, Create(forced) \/ \E n \in Machines : Keygen(n, forced)
        PROVE  finished' \in {finished, Nothing}
    BY <2>1 DEF Create, Keygen, Disturbs
  <2>2. ASSUME NEW n \in Machines, Evaluate(n) \/ Edit(n) PROVE finished' \in {finished, Nothing}
    BY <2>2 DEF Evaluate, Edit, Disturbs
  <2>3. ASSUME NEW args \in Arguments, StartRekey(args) PROVE finished' \in {finished, Nothing}
    BY <2>3 DEF StartRekey
  <2>4. ASSUME NEW file \in certDir, Corrupt(file) PROVE finished' \in {finished, Nothing}
    BY <2>4 DEF Corrupt, Disturbs
  <2>. QED
    BY <2>1, <2>2, <2>3, <2>4
       DEF NebulaKeysNext, Generate, InstallKey, PrintKey, LoseConnection, Sign, SignFails, Rename, Aborts,
           NextDay, Disturbs
<1>. QED BY <1>2, <1>3, <1>4

\* However it is interrupted, disturbed and repeated: a rekey that ended undisturbed left
\* every certificate current, took away none that was while it ran, and announced in its
\* dry run what it did.
THEOREM RekeyKeepsItsWord == NebulaKeysSpec => RekeyIsSound
<1>1. KeysIInv /\ [NebulaKeysNext]_nebulaKeysVars => [CurrentCertsStay /\ DryRunIsTrue]_nebulaKeysVars
  BY CertsStay, DryRunWasTrue
<1>2. KeysIInv => RekeyBringsUpToDate
  BY DEF KeysIInv
<1>. QED BY <1>1, <1>2, KeysInitIInv, KeysInductive, PTL DEF NebulaKeysSpec, RekeyIsSound

-----------------------------------------------------------------------------
(* FleetStatus: any fleet, names, domain, and ways to learn a name.        *)

\* to_ascii_lowercase, for a label.
LowerLabel(label) ==
  IF \E l \in DOMAIN Upper : Upper[l] = label THEN CHOOSE l \in DOMAIN Upper : Upper[l] = label ELSE label

LEMMA LowerIs == \A name : Lower(name) = [i \in DOMAIN name |-> LowerLabel(name[i])]
BY DEF Lower, LowerLabel

\* A label in lower case is its own, and what its capitals stand for.
LEMMA LowerLabelIs ==
  ASSUME NEW l \in DOMAIN Upper
  PROVE  LowerLabel(l) = l /\ LowerLabel(Upper[l]) = l
<1>1. (CHOOSE k \in DOMAIN Upper : Upper[k] = Upper[l]) = l
  BY UpperAssumption
<1>2. ASSUME NEW k \in DOMAIN Upper, Upper[k] = l PROVE k = l
  BY <1>2, UpperAssumption
<1>3. LowerLabel(l) = l
  <2>1. CASE \E k \in DOMAIN Upper : Upper[k] = l
    <3>1. Upper[l] = l
      BY <1>2, <2>1
    <3> QED BY <1>1, <2>1, <3>1 DEF LowerLabel
  <2>2. CASE ~ \E k \in DOMAIN Upper : Upper[k] = l
    BY <2>2 DEF LowerLabel
  <2> QED BY <2>1, <2>2
<1> QED BY <1>1, <1>3 DEF LowerLabel

\* It is label by label.
LEMMA LowerIsSeq ==
  ASSUME NEW S, NEW s \in Seq(S)
  PROVE  /\ Len(Lower(s)) = Len(s) /\ DOMAIN Lower(s) = 1..Len(s)
         /\ \A i \in 1..Len(s) : Lower(s)[i] = LowerLabel(s[i])
         /\ Lower(s) \in Seq({LowerLabel(x) : x \in S})
<1> DEFINE T == {LowerLabel(x) : x \in S}
<1>1. Len(s) \in Nat /\ DOMAIN s = 1..Len(s) /\ \A i \in 1..Len(s) : s[i] \in S
  BY LenProperties, ElementOfSeq
<1>2. Lower(s) = [i \in 1..Len(s) |-> LowerLabel(s[i])]
  BY <1>1, LowerIs
<1>3. Lower(s) \in [1..Len(s) -> T]
  BY <1>1, <1>2
<1>4. Lower(s) \in Seq(T)
  BY <1>1, <1>3, SeqDef
<1>5. DOMAIN Lower(s) = 1..Len(s) /\ Len(Lower(s)) = Len(s)
  <2>1. DOMAIN Lower(s) = 1..Len(Lower(s)) /\ Len(Lower(s)) \in Nat
    BY <1>4, LenProperties
  <2> QED BY <1>1, <1>3, <2>1
<1> QED BY <1>2, <1>4, <1>5

\* The first label is this machine's alone.
OwnFirst(m) == \A o \in Fleet : o[1] = m[1] => o = m

\* What a name is without its capitals: the machine, or its first label.
LEMMA LowerOfName ==
  ASSUME NEW m \in Fleet, NEW name \in Names(m)
  PROVE  Lower(name) = m \/ (Lower(name) = <<m[1]>> /\ OwnFirst(m))
<1>1. m \in Seq(DOMAIN Upper) /\ m # <<>> /\ m[1] \in DOMAIN Upper
  BY FleetStatusAssumption
<1>2. DOMAIN m = 1..Len(m) /\ \A i \in 1..Len(m) : m[i] \in DOMAIN Upper
  BY <1>1, LenProperties, ElementOfSeq
<1>3. m = [i \in 1..Len(m) |-> m[i]]
  BY <1>1, <1>2
<1>4. CASE name = m
  BY <1>2, <1>3, <1>4, LowerIs, LowerLabelIs
<1>5. CASE name = Capitals(m)
  <2>1. DOMAIN name = 1..Len(m) /\ \A i \in 1..Len(m) : name[i] = Upper[m[i]]
    BY <1>2, <1>5 DEF Capitals
  <2>2. \A i \in 1..Len(m) : LowerLabel(name[i]) = m[i]
    BY <1>2, <2>1, LowerLabelIs
  <2>3. Lower(name) = [i \in 1..Len(m) |-> LowerLabel(name[i])]
    BY <2>1, LowerIs
  <2> QED BY <1>3, <2>2, <2>3
<1>6. CASE name = <<m[1]>> /\ OwnFirst(m)
  <2>1. <<m[1]>> \in Seq(DOMAIN Upper) /\ Len(<<m[1]>>) = 1 /\ <<m[1]>>[1] = m[1]
    BY <1>1
  <2> DEFINE T == {LowerLabel(x) : x \in DOMAIN Upper}
  <2>2. Len(Lower(name)) = 1 /\ Lower(name)[1] = LowerLabel(name[1]) /\ Lower(name) \in Seq(T)
    <3>1. name \in Seq(DOMAIN Upper) /\ Len(name) = 1
      BY <1>6, <2>1
    <3> HIDE DEF T
    <3>2. Len(Lower(name)) = Len(name) /\ \A i \in 1..Len(name) : Lower(name)[i] = LowerLabel(name[i])
      BY <3>1, LowerIsSeq
    <3>3. Lower(name) \in Seq(T)
      BY <3>1, LowerIsSeq DEF T
    <3>4. 1 \in 1..Len(name)
      BY <3>1
    <3> QED BY <3>1, <3>2, <3>3, <3>4
  <2>3. T = DOMAIN Upper /\ LowerLabel(m[1]) = m[1]
    BY <1>1, LowerLabelIs
  <2> HIDE DEF T
  <2>4. Lower(name)[1] = m[1]
    BY <1>6, <2>1, <2>2, <2>3
  <2>5. Lower(name) = <<m[1]>>
    BY <2>1, <2>2, <2>3, <2>4, SeqEqual
  <2> QED BY <1>6, <2>5
<1>7. \/ name = m \/ name = Capitals(m)
      \/ name = <<m[1]>> /\ \A o \in Fleet : o[1] = m[1] => o = m
  BY DEF Names
<1> QED BY <1>4, <1>5, <1>6, <1>7 DEF OwnFirst

\* HostMatcher tells this machine from every other, under any of their names.
LEMMA MatchesHere ==
  ASSUME NEW h \in Names(Here), NEW m \in Fleet, NEW name \in Names(m)
  PROVE  Matches(h, name) <=> m = Here
<1>1. Here \in Fleet /\ Here # <<>> /\ m # <<>>
  BY FleetStatusAssumption
<1>2. Lower(h) \in {Here, <<Here[1]>>} /\ Lower(name) \in {m, <<m[1]>>}
  BY <1>1, LowerOfName
<1>3. Lower(h)[1] = Here[1] /\ Lower(name)[1] = m[1]
  BY <1>2
<1>4. Matches(h, name) <=> \/ Lower(name) \in {Lower(h), <<Here[1]>>}
                           \/ <<m[1]>> \in {Lower(h), <<Here[1]>>}
  BY <1>3 DEF Matches
<1>5. ASSUME Matches(h, name) PROVE m[1] = Here[1]
  <2>1. CASE Lower(name) = Lower(h)
    BY <1>3, <2>1
  <2>2. CASE Lower(name) = <<Here[1]>> \/ <<m[1]>> = <<Here[1]>>
    BY <1>3, <2>2
  <2>3. CASE <<m[1]>> = Lower(h)
    BY <1>3, <2>3
  <2> QED BY <1>4, <1>5, <2>1, <2>2, <2>3
<1>6. m[1] = Here[1] => m = Here
  BY FleetStatusAssumption
<1> QED BY <1>4, <1>5, <1>6

\* Trimming looks at a name without its capitals.
Trimmed(name) ==
  IF EndsWith(name, Lower(Domain)) THEN SubSeq(name, 1, Len(name) - Len(Domain)) ELSE name

LEMMA TrimsLower ==
  ASSUME NEW S, NEW name \in Seq(S)
  PROVE  Lower(TrimDomainSuffix(name)) = Trimmed(Lower(name))
<1>1. Len(Lower(name)) = Len(name)
  BY LowerIsSeq
<1>2. CASE ~EndsWith(Lower(name), Lower(Domain))
  BY <1>2 DEF TrimDomainSuffix, Trimmed
<1>3. CASE EndsWith(Lower(name), Lower(Domain))
  <2> DEFINE k == Len(name) - Len(Domain)
  <2>1. Len(Lower(Domain)) = Len(Domain) /\ Len(Domain) \in Nat
    BY LowerIsSeq, LenProperties, DomainAssumption
  <2>2. k \in 0..Len(name)
    BY <1>1, <1>3, <2>1 DEF EndsWith
  <2>3. /\ TrimDomainSuffix(name) = SubSeq(name, 1, k)
        /\ Trimmed(Lower(name)) = SubSeq(Lower(name), 1, k)
    BY <1>1, <1>3 DEF TrimDomainSuffix, Trimmed
  <2> HIDE DEF k
  <2>4. SubSeq(name, 1, k) = [i \in 1..k |-> name[i]]
    BY <2>2
  <2>5. SubSeq(Lower(name), 1, k) = [i \in 1..k |-> Lower(name)[i]]
    BY <1>1, <2>2, LowerIsSeq
  <2>6. Lower([i \in 1..k |-> name[i]]) = [i \in 1..k |-> LowerLabel(name[i])]
    BY LowerIs
  <2>7. \A i \in 1..k : Lower(name)[i] = LowerLabel(name[i])
    <3>1. \A i \in 1..Len(name) : Lower(name)[i] = LowerLabel(name[i])
      BY LowerIsSeq
    <3>2. Len(name) \in Nat
      BY LenProperties
    <3> QED BY <2>2, <3>1, <3>2
  <2> QED BY <2>3, <2>4, <2>5, <2>6, <2>7
<1> QED BY <1>2, <1>3

\* A name without the domain at its end, if it has one.
LEMMA TrimmedIs ==
  ASSUME NEW S, NEW x \in Seq(S), x # <<>>, NEW T, Lower(Domain) \in Seq(T)
  PROVE  /\ Trimmed(x)[1] = x[1]
         /\ EndsWith(x, Lower(Domain)) => x = Trimmed(x) \o Lower(Domain)
         /\ ~EndsWith(x, Lower(Domain)) => Trimmed(x) = x
<1> DEFINE d == Lower(Domain)
           n == Len(x) - Len(d)
<1>1. Len(x) \in Nat \ {0} /\ Len(d) \in Nat /\ Len(Domain) = Len(d)
  BY EmptySeq, LenProperties, LowerIsSeq, DomainAssumption
<1>2. CASE EndsWith(x, d)
  <2>1. Len(x) > Len(d) /\ SubSeq(x, n + 1, Len(x)) = d
    BY <1>2 DEF EndsWith
  <2>2. n \in 1..Len(x)
    BY <1>1, <2>1
  <2>3. Trimmed(x) = SubSeq(x, 1, n)
    BY <1>1, <1>2 DEF Trimmed
  <2> HIDE DEF d
  <2>4. SubSeq(x, 1, n) \o SubSeq(x, n + 1, Len(x)) = SubSeq(x, 1, Len(x))
    <3>1. n \in 1 - 1..Len(x) /\ 1 \in 1..Len(x) + 1 /\ Len(x) \in n..Len(x)
      BY <1>1, <2>2
    <3> HIDE DEF n
    <3> QED BY <3>1, ConcatAdjacentSubSeq
  <2>5. x = Trimmed(x) \o d
    BY <2>1, <2>3, <2>4, SubSeqFull
  <2>6. SubSeq(x, 1, n)[1] = x[1]
    BY <1>1, <2>2
  <2> QED BY <1>2, <2>3, <2>5, <2>6 DEF d
<1>3. CASE ~EndsWith(x, d)
  BY <1>3 DEF Trimmed
<1> QED BY <1>2, <1>3

LEMMA NameIsSeq ==
  ASSUME NEW m \in Fleet, NEW name \in Names(m)
  PROVE  name \in Seq(DOMAIN Upper \cup {Upper[l] : l \in DOMAIN Upper})
<1> DEFINE S == DOMAIN Upper \cup {Upper[l] : l \in DOMAIN Upper}
<1>1. m \in Seq(DOMAIN Upper) /\ m # <<>> /\ DOMAIN Upper \subseteq S
  BY FleetStatusAssumption
<1>2. m \in Seq(S) /\ Len(m) \in Nat /\ DOMAIN m = 1..Len(m) /\ \A i \in 1..Len(m) : m[i] \in DOMAIN Upper
  BY <1>1, SeqMonotonic, LenProperties, ElementOfSeq
<1>3. <<m[1]>> \in Seq(S)
  BY <1>1
<1>4. Capitals(m) \in [1..Len(m) -> S]
  BY <1>2 DEF Capitals
<1>5. Capitals(m) \in Seq(S)
  BY <1>2, <1>4, SeqDef
<1> QED BY <1>2, <1>3, <1>5 DEF Names

\* The labels of two machines under any of their names.
LEMMA TrimmedTellApart ==
  ASSUME NEW m \in Fleet, NEW n \in Fleet, m # n, NEW h \in Names(m), NEW o \in Names(n)
  PROVE  Lower(TrimDomainSuffix(h)) # Lower(TrimDomainSuffix(o))
<1> DEFINE x == Lower(h)
           y == Lower(o)
           d == Lower(Domain)
           L == DOMAIN Upper
<1>1. Lower(TrimDomainSuffix(h)) = Trimmed(x) /\ Lower(TrimDomainSuffix(o)) = Trimmed(y)
  BY NameIsSeq, TrimsLower
<1>2. /\ m \in Seq(L) \ {<<>>} /\ <<m[1]>> \in Seq(L) /\ <<m[1]>> # <<>>
      /\ n \in Seq(L) \ {<<>>} /\ <<n[1]>> \in Seq(L) /\ <<n[1]>> # <<>>
  BY FleetStatusAssumption
<1>3. /\ x = m \/ (x = <<m[1]>> /\ OwnFirst(m))
      /\ y = n \/ (y = <<n[1]>> /\ OwnFirst(n))
  BY LowerOfName
<1>4. x \in Seq(L) /\ x # <<>> /\ y \in Seq(L) /\ y # <<>> /\ x[1] = m[1] /\ y[1] = n[1]
  <2> HIDE DEF x, y, L
  <2>1. x = m \/ x = <<m[1]>>
    BY <1>3
  <2>2. y = n \/ y = <<n[1]>>
    BY <1>3
  <2>3. <<m[1]>>[1] = m[1] /\ <<n[1]>>[1] = n[1]
    OBVIOUS
  <2>4. x \in Seq(L) /\ x # <<>> /\ x[1] = m[1]
    BY <1>2, <2>1, <2>3
  <2>5. y \in Seq(L) /\ y # <<>> /\ y[1] = n[1]
    BY <1>2, <2>2, <2>3
  <2> QED BY <2>4, <2>5
<1>5. \E T : d \in Seq(T)
  BY LowerIsSeq, DomainAssumption
<1> HIDE DEF x, y, d, L
<1>6. /\ Trimmed(x)[1] = x[1]
      /\ EndsWith(x, d) => x = Trimmed(x) \o d
      /\ ~EndsWith(x, d) => Trimmed(x) = x
  BY <1>4, <1>5, TrimmedIs DEF d
<1>7. /\ Trimmed(y)[1] = y[1]
      /\ EndsWith(y, d) => y = Trimmed(y) \o d
      /\ ~EndsWith(y, d) => Trimmed(y) = y
  BY <1>4, <1>5, TrimmedIs DEF d
<1>8. SUFFICES ASSUME Trimmed(x) = Trimmed(y)
               PROVE  FALSE
  BY <1>1
<1>9. x = m /\ y = n
  BY <1>3, <1>4, <1>6, <1>7, <1>8 DEF OwnFirst
<1>10. m # n \o d /\ n # m \o d
  BY DomainAssumption DEF d
<1> QED BY <1>6, <1>7, <1>8, <1>9, <1>10

-----------------------------------------------------------------------------
(* FleetStatus: the command.                                               *)

Published == \A key \in etcd : key[2] \in States /\ \E m \in Fleet : key[1] = nameFor[m]

\* What is still to be fetched is other machines', and not in the table yet; each other
\* row is such a machine's, and no two rows are one's.
OnlyOthers == listed \subseteq {nameFor[m] : m \in Fleet \ {Here}}

RowsAreOwn ==
  /\ \A row \in table :
       row = LocalRow \/ /\ row.isLocal = FALSE /\ row.host \notin listed
                         /\ \E m \in Fleet \ {Here} : row.host = nameFor[m]
  /\ \A row, other \in table : row.host = other.host => row = other

Begun ==
  /\ viewing \in {"config", "failed"} => table = {} /\ listed = {}
  /\ viewing = "list" => table = {LocalRow} /\ listed = {}
  /\ viewing \in {"get", "shown"} => LocalRow \in table

StatusIInv ==
  /\ StatusTypeOK /\ DetectHostname \in Names(Here)
  /\ Published /\ OnlyOthers /\ RowsAreOwn /\ Begun

\* No two machines publish under one name, and none under the name detected here.
LEMMA NamesDiffer ==
  ASSUME StatusTypeOK, DetectHostname \in Names(Here), NEW m \in Fleet \ {Here}
  PROVE  nameFor[m] # nameFor[Here] /\ nameFor[m] # DetectHostname
<1>1. nameFor[m] \in Names(m) /\ nameFor[Here] \in Names(Here) /\ Here \in Fleet
  BY FleetStatusAssumption DEF StatusTypeOK
<1>2. Matches(nameFor[Here], nameFor[Here]) /\ Matches(DetectHostname, DetectHostname)
  BY <1>1, MatchesHere
<1>3. ~Matches(nameFor[Here], nameFor[m]) /\ ~Matches(DetectHostname, nameFor[m])
  BY <1>1, MatchesHere
<1> QED BY <1>2, <1>3

LEMMA StatusInitIInv == StatusInit => StatusIInv
<1> SUFFICES ASSUME StatusInit PROVE StatusIInv
  OBVIOUS
<1>1. StatusTypeOK /\ table = {} /\ listed = {} /\ viewing = "config"
  <2>1. \A key \in etcd : key[2] \in States
    BY DEF StatusInit
  <2>2. puts \in 0..MaxPuts
    BY FleetStatusAssumption DEF StatusInit
  <2> QED BY <2>1, <2>2 DEF StatusInit, StatusTypeOK
<1>2. DetectHostname \in Names(Here)
  <2>1. Len(Ways) \in Nat
    BY DEF Ways
  <2>2. PICK i \in 1..Len(Ways) : detected[i] # Unset /\ \A j \in 1..Len(Ways) : j < i => detected[j] = Unset
    BY DEF StatusInit
  <2>3. \A j \in 1..i - 1 : detected[j] = Unset
    BY <2>1, <2>2
  <2>4. \A k \in 1..Len(Ways) : detected[k] \in {Unset} \cup Names(Here)
    BY DEF StatusInit
  <2> QED BY <2>2, <2>3, <2>4 DEF DetectHostname
<1>3. Published
  BY DEF StatusInit, Published
<1> QED BY <1>1, <1>2, <1>3 DEF StatusIInv, OnlyOthers, RowsAreOwn, Begun

LEMMA StatusNextIInv == StatusIInv /\ [StatusNext]_statusVars => StatusIInv'
<1> SUFFICES ASSUME StatusIInv, [StatusNext]_statusVars PROVE StatusIInv'
  OBVIOUS
<1> USE DEF StatusIInv
<1>1. /\ nameFor' = nameFor /\ detected' = detected
  BY DEF StatusNext, LoadConfig, List, ListFails, FetchStates, PrintTable, Publish, statusVars
<1>2. DetectHostname' = DetectHostname /\ LocalRow' = LocalRow
  BY <1>1 DEF DetectHostname, LocalRow
<1> HIDE DEF StatusIInv
<1>0. StatusTypeOK /\ DetectHostname \in Names(Here) /\ Published /\ OnlyOthers /\ RowsAreOwn /\ Begun
  BY DEF StatusIInv
<1>3. Published' /\ StatusTypeOK'
  <2>1. CASE UNCHANGED etcd
    <3>1. viewing' \in {"config", "list", "get", "failed", "shown"} /\ puts' \in 0..MaxPuts /\ configFile' = configFile
      BY <1>0, <2>1, FleetStatusAssumption
      DEF StatusTypeOK, StatusNext, LoadConfig, List, ListFails, FetchStates, PrintTable, Publish, statusVars
    <3> QED BY <1>0, <1>1, <2>1, <3>1 DEF Published, StatusTypeOK
  <2>2. ASSUME NEW m \in Fleet, Publish(m) PROVE Published' /\ StatusTypeOK'
    <3>1. PICK s \in States : etcd' = etcd \cup {<<nameFor[m], s>>}
      BY <2>2 DEF Publish
    <3>2. Published'
      BY <1>0, <1>1, <3>1 DEF Published
    <3>3. puts' \in 0..MaxPuts /\ viewing' = viewing /\ configFile' = configFile
      BY <1>0, <2>2, FleetStatusAssumption DEF Publish, StatusTypeOK
    <3> QED BY <1>0, <1>1, <3>2, <3>3 DEF Published, StatusTypeOK
  <2> QED BY <2>1, <2>2 DEF StatusNext, LoadConfig, List, ListFails, FetchStates, PrintTable, statusVars
<1>4. OnlyOthers' /\ RowsAreOwn' /\ Begun'
  <2>1. CASE LoadConfig
    <3>1. table' \in {{}, {LocalRow}} /\ listed' = {} /\ listed = {}
      BY <1>0, <2>1 DEF LoadConfig, Begun
    <3>2. Begun'
      BY <1>2, <2>1, <3>1 DEF LoadConfig, Begun, ConfigFails
    <3> QED BY <1>2, <3>1, <3>2 DEF OnlyOthers, RowsAreOwn
  <2>2. CASE List
    <3>1. table = {LocalRow} /\ table' = table /\ viewing' = "get"
      BY <1>0, <2>2 DEF List, Begun
    <3>2. OnlyOthers'
      <4> SUFFICES ASSUME NEW name \in listed' PROVE \E m \in Fleet \ {Here} : name = nameFor[m]
        BY <1>1 DEF OnlyOthers
      <4>1. PICK m \in Fleet : name = nameFor[m] /\ ~Matches(DetectHostname, nameFor[m])
        BY <1>0, <2>2 DEF List, Published
      <4>2. m # Here
        BY <1>0, <4>1, MatchesHere, FleetStatusAssumption DEF StatusTypeOK
      <4> QED BY <4>1, <4>2
    <3> QED BY <1>2, <3>1, <3>2 DEF RowsAreOwn, Begun
  <2>3. ASSUME NEW name \in listed, FetchStates(name) PROVE OnlyOthers' /\ RowsAreOwn' /\ Begun'
    <3>1. PICK states : table' = table \cup {[host |-> name, isLocal |-> FALSE, known |-> states]}
      BY <2>3 DEF FetchStates
    <3> DEFINE new == [host |-> name, isLocal |-> FALSE, known |-> states]
    <3>2. listed' = listed \ {name} /\ viewing = "get" /\ viewing' = "get"
      BY <2>3 DEF FetchStates
    <3>3. PICK m \in Fleet \ {Here} : name = nameFor[m]
      BY <1>0 DEF OnlyOthers
    <3>4. new.host = name /\ new.isLocal = FALSE
      OBVIOUS
    <3>5. \A row \in table : row.host # name
      BY <1>0, <3>3, NamesDiffer DEF RowsAreOwn, LocalRow
    <3> HIDE DEF new
    <3>6. \A row \in table' : row \in table \/ row = new
      BY <3>1 DEF new
    <3>7. RowsAreOwn'
      <4>1. \A row, other \in table' : row.host = other.host => row = other
        BY <1>0, <3>4, <3>5, <3>6 DEF RowsAreOwn
      <4>2. ASSUME NEW row \in table'
            PROVE  row = LocalRow \/ /\ row.isLocal = FALSE /\ row.host \notin listed'
                                     /\ \E n \in Fleet \ {Here} : row.host = nameFor[n]
        BY <1>0, <3>2, <3>3, <3>4, <3>6 DEF RowsAreOwn
      <4> QED BY <1>1, <1>2, <4>1, <4>2 DEF RowsAreOwn
    <3>8. LocalRow \in table'
      BY <1>0, <3>1, <3>2 DEF Begun
    <3> QED BY <1>0, <1>1, <1>2, <3>2, <3>7, <3>8 DEF OnlyOthers, Begun
  <2>4. CASE ListFails \/ PrintTable
    BY <1>0, <1>1, <1>2, <2>4 DEF ListFails, PrintTable, OnlyOthers, RowsAreOwn, Begun
  <2>5. CASE UNCHANGED <<viewing, listed, table>>
    BY <1>0, <1>1, <1>2, <2>5 DEF OnlyOthers, RowsAreOwn, Begun
  <2> QED BY <2>1, <2>2, <2>3, <2>4, <2>5 DEF StatusNext, Publish, statusVars
<1> QED BY <1>0, <1>1, <1>2, <1>3, <1>4 DEF StatusIInv, Names

\* The report of `ogygia status` has one row for each machine it heard of and one label
\* for each row: whatever part of a name its publishers and this host go by, nobody is
\* left out for the likeness of two names, and nobody appears twice.
THEOREM EveryHostIsShownOnce == StatusSpec => []StatusTypeOK /\ StatusIsWhole
<1>1. StatusIInv => OneLocalRow
  <2> SUFFICES ASSUME StatusIInv, viewing = "shown"
               PROVE  Cardinality({row \in table : row.isLocal \/ row.host = nameFor[Here]}) = 1
    BY DEF OneLocalRow
  <2>1. LocalRow \in table /\ LocalRow.isLocal
    BY DEF StatusIInv, Begun, LocalRow
  <2>2. \A row \in table : row # LocalRow => row.isLocal = FALSE /\ row.host # nameFor[Here]
    BY NamesDiffer DEF StatusIInv, RowsAreOwn
  <2>3. {row \in table : row.isLocal \/ row.host = nameFor[Here]} = {LocalRow}
    BY <2>1, <2>2
  <2> QED BY <2>3, FS_Singleton
<1>2. StatusIInv => LabelsTellApart
  <2> SUFFICES ASSUME StatusIInv, NEW row \in table, NEW other \in table, row # other
               PROVE  Lower(TrimDomainSuffix(row.host)) # Lower(TrimDomainSuffix(other.host))
    BY DEF LabelsTellApart
  <2>1. ASSUME NEW r \in table
        PROVE  \E m \in Fleet : /\ r.host \in Names(m)
                                /\ r # LocalRow => m # Here /\ r.host = nameFor[m]
                                /\ r = LocalRow => m = Here
    <3>1. CASE r = LocalRow
      BY <3>1, FleetStatusAssumption DEF StatusIInv, LocalRow
    <3>2. CASE r # LocalRow
      BY <3>2 DEF StatusIInv, RowsAreOwn, StatusTypeOK
    <3> QED BY <3>1, <3>2
  <2>2. PICK m \in Fleet : /\ row.host \in Names(m)
                           /\ row # LocalRow => m # Here /\ row.host = nameFor[m]
                           /\ row = LocalRow => m = Here
    BY <2>1
  <2>3. PICK n \in Fleet : /\ other.host \in Names(n)
                           /\ other # LocalRow => n # Here /\ other.host = nameFor[n]
                           /\ other = LocalRow => n = Here
    BY <2>1
  <2>4. m # n
    BY <2>2, <2>3 DEF StatusIInv, RowsAreOwn
  <2> QED BY <2>2, <2>3, <2>4, TrimmedTellApart
<1>3. StatusIInv /\ [StatusNext]_statusVars => [NoHostIsLeftOut]_statusVars
  <2> SUFFICES ASSUME StatusIInv, [StatusNext]_statusVars, viewing = "list", viewing' = "get",
                      NEW m \in Fleet \ {Here}, NEW key \in etcd, key[1] = nameFor[m]
               PROVE  nameFor[m] \in listed'
    BY DEF NoHostIsLeftOut
  <2>1. List
    BY DEF StatusNext, LoadConfig, ListFails, FetchStates, PrintTable, Publish, statusVars
  <2>2. ~Matches(DetectHostname, nameFor[m])
    BY MatchesHere DEF StatusIInv, StatusTypeOK
  <2> QED BY <2>1, <2>2 DEF List
<1>4. StatusIInv => StatusTypeOK
  BY DEF StatusIInv
<1> QED BY <1>1, <1>2, <1>3, <1>4, StatusInitIInv, StatusNextIInv, PTL DEF StatusSpec, StatusIsWhole
=============================================================================
