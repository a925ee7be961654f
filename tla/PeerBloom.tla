----------------------------- MODULE PeerBloom -----------------------------
(***************************************************************************)
(* ogygia-irisd's cache of its peers' bloom filters: the requests that     *)
(* refresh and read it, the refreshes they leave in the background, and    *)
(* the task that evicts what has expired.  Time is counted in ticks and a  *)
(* filter is only there or not, with the time since it was fetched.        *)
(*                                                                         *)
(* tokio's RwLock is fair: who wants to read queues behind who wants to    *)
(* write.  Only two holders keep a lock across an await: a fetch keeps its *)
(* entry's write lock, next_eviction_time keeps the map's read lock.       *)
(***************************************************************************)
EXTENDS Integers, FiniteSets

CONSTANTS
  Peers,     \* config.peers.urls
  Requests,  \* concurrent requests
  Gens,      \* names for the entries of one peer, recycled
  Ttl,       \* bloom.peer_bloom_ttl_secs
  MaxAge,    \* bloom.peer_bloom_max_age_secs
  Timeout,   \* the HTTP client's timeout
  NoGen

\* Config::load refuses a maximum age below the ttl; that the ttl is above
\* the client's 30 seconds is up to who configures it.
ASSUME PeerAssumption ==
  /\ Ttl \in Nat /\ MaxAge \in Nat /\ Timeout \in Nat
  /\ Timeout < Ttl /\ Ttl <= MaxAge
  /\ NoGen \notin Gens

VARIABLES
  cached,         \* the map: which entry each peer has
  bloom,          \* per entry: there is a filter
  age,            \* since fetched_at; MaxAge when it is longer, or never was
  tried,          \* since last_attempt_at; Ttl when it is longer, or Never
  refresh,        \* per entry: a background fetch is under way
  evictor, left,  \* the eviction task: "awake", "scan", "sleep", and for how long
  at,             \* per request
  task, ent       \* per request and peer: the task and the entry it works on

entries  == <<bloom, age, tried>>
eviction == <<evictor, left>>
requests == <<at, task, ent>>
vars == <<cached, entries, refresh, eviction, requests>>

Keys  == Peers \X Gens
Never == Ttl + 1

Tasks == {"off", "check", "fetch"}

TypeOK ==
  /\ cached \in [Peers -> Gens \cup {NoGen}]
  /\ bloom \in [Keys -> BOOLEAN]
  /\ age \in [Keys -> 0..MaxAge]
  /\ tried \in [Keys -> 0..Never]
  /\ refresh \in [Keys -> BOOLEAN]
  /\ evictor \in {"awake", "scan", "sleep"}
  /\ left \in 0..MaxAge
  /\ at \in [Requests -> {"idle", "want", "create", "run"}]
  /\ task \in [Requests -> [Peers -> Tasks]]
  /\ ent \in [Requests -> [Peers -> Gens \cup {NoGen}]]
  /\ \A r \in Requests, p \in Peers : task[r][p] # "off" => ent[r][p] \in Gens

-----------------------------------------------------------------------------
(* What an entry says about itself, and who holds which lock.              *)

Fresh(k)  == age[k] < Ttl
Recent(k) == tried[k] < Ttl

\* Mutant: the maximum age itself is not too old.
ExpiredLate(k) == age[k] > MaxAge

Expired(k) == age[k] >= MaxAge

\* Good for an answer as it is.
Usable(k) == Fresh(k) \/ (~Expired(k) /\ Recent(k))

Fetching(k) == \E r \in Requests : task[r][k[1]] = "fetch" /\ ent[r][k[1]] = k[2]

Cached == {k \in Keys : cached[k[1]] = k[2]}

\* A request that has to write to the map waits for the scan, and who only
\* has to read it waits for that request.
MapQueued == evictor = "scan" /\ \E r \in Requests : at[r] = "create"

Blank(keys) ==
  /\ bloom' = [k \in Keys |-> k \notin keys /\ bloom[k]]
  /\ age' = [k \in Keys |-> IF k \in keys THEN MaxAge ELSE age[k]]
  /\ tried' = [k \in Keys |-> IF k \in keys THEN Never ELSE tried[k]]

-----------------------------------------------------------------------------
(* Requests: lookup_stream and ensure_fresh.                               *)

Ask(r) ==
  /\ at[r] = "idle"
  /\ at' = [at EXCEPT ![r] = "want"]
  /\ UNCHANGED <<cached, entries, refresh, eviction, task, ent>>

Run(r, found) ==
  /\ at' = [at EXCEPT ![r] = "run"]
  /\ ent' = [ent EXCEPT ![r] = found]
  /\ task' = [task EXCEPT ![r] = [p \in Peers |-> "check"]]

\* get_or_create_entries, with what is in the map ...
GetEntries(r) ==
  /\ at[r] = "want" /\ ~MapQueued
  /\ IF NoGen \in {cached[p] : p \in Peers}
     THEN at' = [at EXCEPT ![r] = "create"] /\ ent' = [ent EXCEPT ![r] = cached] /\ UNCHANGED task
     ELSE Run(r, cached)
  /\ UNCHANGED <<cached, entries, refresh, eviction>>

Unused(p) ==
  {g \in Gens : /\ ~refresh[<<p, g>>]
                /\ \A r \in Requests : ent[r][p] # g}

\* ... and after inserting what was missing.
CreateEntries(r) ==
  LET made == {p \in Peers : ent[r][p] = NoGen /\ cached[p] = NoGen}
      new  == [p \in Peers |-> IF p \in made THEN CHOOSE g \in Unused(p) : TRUE ELSE cached[p]]
  IN
  /\ at[r] = "create" /\ evictor # "scan"
  /\ \A p \in made : Unused(p) # {}
  /\ cached' = new
  /\ Run(r, [p \in Peers |-> IF ent[r][p] = NoGen THEN new[p] ELSE ent[r][p]])
  /\ Blank({k \in Keys : k[1] \in made /\ new[k[1]] = k[2]})
  /\ UNCHANGED <<refresh, eviction>>

Step(r, p, stage) ==
  /\ task' = [task EXCEPT ![r][p] = stage]
  /\ ent' = IF stage = "off" THEN [ent EXCEPT ![r][p] = NoGen] ELSE ent
  /\ UNCHANGED at

\* The task's guard answers for its peer.
Answer(r, p) == Step(r, p, "off")

\* ensure_peer_fresh. What the fast path decides under the read lock, the slow
\* path decides again under the write lock, so the two are one step.
ServeCached(r, p) ==
  LET k == <<p, ent[r][p]>> IN
  /\ task[r][p] = "check" /\ ~Fetching(k)
  /\ Usable(k)
  /\ Answer(r, p)
  /\ UNCHANGED <<cached, entries, refresh, eviction>>

\* Stale: it is served once more, and refreshed in the background.
ServeStale(r, p) ==
  LET k == <<p, ent[r][p]>> IN
  /\ task[r][p] = "check" /\ ~Fetching(k)
  /\ ~Usable(k) /\ ~Expired(k)
  /\ tried' = [tried EXCEPT ![k] = 0]
  /\ refresh' = [refresh EXCEPT ![k] = TRUE]
  /\ Answer(r, p)
  /\ UNCHANGED <<cached, bloom, age, eviction>>

\* Mutant: what has expired is kept until something newer arrives.
KeepOld(k) == UNCHANGED bloom

Discard(k) == bloom' = [bloom EXCEPT ![k] = FALSE]

\* Mutant: an expired filter is fetched by everybody who needs it.
NeverHoldsOff(k) == FALSE

\* Tried within the ttl: no filter, and no other attempt yet.
HoldsOff(k) == Expired(k) /\ Recent(k)

GoWithout(r, p) ==
  LET k == <<p, ent[r][p]>> IN
  /\ task[r][p] = "check" /\ ~Fetching(k)
  /\ HoldsOff(k)
  /\ Discard(k)
  /\ Answer(r, p)
  /\ UNCHANGED <<cached, age, tried, refresh, eviction>>

\* Expired: it is discarded and fetched under the write lock.
StartFetch(r, p) ==
  LET k == <<p, ent[r][p]>> IN
  /\ task[r][p] = "check" /\ ~Fetching(k)
  /\ Expired(k) /\ ~HoldsOff(k)
  /\ tried' = [tried EXCEPT ![k] = 0]
  /\ Discard(k)
  /\ Step(r, p, "fetch")
  /\ UNCHANGED <<cached, age, refresh, eviction>>

\* Mutant: fetched_at is set whatever came of it.
StoreTime(k) ==
  /\ age' = [age EXCEPT ![k] = 0]
  /\ UNCHANGED <<bloom, tried>>

Store(k) ==
  /\ bloom' = [bloom EXCEPT ![k] = TRUE]
  /\ age' = [age EXCEPT ![k] = 0]
  /\ UNCHANGED tried

EndFetch(r, p) ==
  /\ task[r][p] = "fetch"
  /\ Store(<<p, ent[r][p]>>) \/ UNCHANGED entries
  /\ Answer(r, p)
  /\ UNCHANGED <<cached, refresh, eviction>>

\* A background fetch ends, and stores what it got.
EndRefresh(k) ==
  /\ refresh[k] /\ ~Fetching(k)
  /\ Store(k) \/ UNCHANGED entries
  /\ refresh' = [refresh EXCEPT ![k] = FALSE]
  /\ UNCHANGED <<cached, eviction, requests>>

\* Every task has answered.
Done(r) ==
  /\ at[r] = "run" /\ \A p \in Peers : task[r][p] = "off"
  /\ at' = [at EXCEPT ![r] = "idle"]
  /\ UNCHANGED <<cached, entries, refresh, eviction, task, ent>>

\* The client hangs up: the handler of /providers is dropped and its fetches
\* with it. (The tasks of a lookup_stream run on: they never hang up.)
HangUp(r) ==
  /\ at[r] # "idle"
  /\ at' = [at EXCEPT ![r] = "idle"]
  /\ task' = [task EXCEPT ![r] = [p \in Peers |-> "off"]]
  /\ ent' = [ent EXCEPT ![r] = [p \in Peers |-> NoGen]]
  /\ UNCHANGED <<cached, entries, refresh, eviction>>

-----------------------------------------------------------------------------
(* Eviction.                                                               *)

\* Mutant: the entry that expires last is waited for.
Latest(times) == IF times = {} THEN MaxAge ELSE CHOOSE t \in times : \A u \in times : u <= t

\* next_eviction_time, from now on; without one the task sleeps for MaxAge.
Earliest(times) == IF times = {} THEN MaxAge ELSE CHOOSE t \in times : \A u \in times : t <= u

\* Mutant: the first of an entry's two deadlines counts.
FirstDeadline(k) ==
  IF MaxAge - age[k] < Ttl - tried[k] THEN MaxAge - age[k] ELSE Ttl - tried[k]

Deadline(k) ==
  IF MaxAge - age[k] > Ttl - tried[k] THEN MaxAge - age[k] ELSE Ttl - tried[k]

BeginScan ==
  /\ evictor = "awake"
  /\ evictor' = "scan"
  /\ UNCHANGED <<cached, entries, refresh, left, requests>>

\* The scan holds the map while it waits for every entry.
EndScan ==
  /\ evictor = "scan"
  /\ \A k \in Cached : ~Fetching(k)
  /\ evictor' = "sleep"
  /\ left' = Earliest({Deadline(k) : k \in {c \in Cached : tried[c] # Never}})
  /\ UNCHANGED <<cached, entries, refresh, requests>>

\* evict_expired keeps what is in date, was tried or is being fetched.
Kept(k) == Fetching(k) \/ ~Expired(k) \/ Recent(k)

Evict ==
  LET dropped == {k \in Cached : ~Kept(k)} IN
  /\ evictor = "sleep" /\ left = 0
  /\ cached' = [p \in Peers |-> IF <<p, cached[p]>> \in dropped THEN NoGen ELSE cached[p]]
  /\ Blank(dropped)
  /\ evictor' = "awake"
  /\ UNCHANGED <<refresh, left, requests>>

-----------------------------------------------------------------------------
(* Time passes while every fetch is within its timeout and the eviction    *)
(* task, which takes no time, sleeps or waits for a fetch.                 *)

Tick ==
  /\ \A k \in Keys : Fetching(k) \/ refresh[k] => tried[k] < Timeout
  /\ \/ evictor = "sleep" /\ left > 0
     \/ evictor = "scan" /\ \E k \in Cached : Fetching(k)
  /\ age' = [k \in Keys |-> IF Expired(k) THEN MaxAge ELSE age[k] + 1]
  /\ tried' = [k \in Keys |-> IF Recent(k) THEN tried[k] + 1 ELSE tried[k]]
  /\ left' = IF evictor = "sleep" THEN left - 1 ELSE left
  /\ UNCHANGED <<cached, bloom, refresh, evictor, requests>>

Init ==
  /\ cached = [p \in Peers |-> NoGen]
  /\ bloom = [k \in Keys |-> FALSE]
  /\ age = [k \in Keys |-> MaxAge]
  /\ tried = [k \in Keys |-> Never]
  /\ refresh = [k \in Keys |-> FALSE]
  /\ evictor = "awake" /\ left = 0
  /\ at = [r \in Requests |-> "idle"]
  /\ task = [r \in Requests |-> [p \in Peers |-> "off"]]
  /\ ent = [r \in Requests |-> [p \in Peers |-> NoGen]]

Task(r, p) ==
  \/ ServeCached(r, p) \/ ServeStale(r, p) \/ GoWithout(r, p)
  \/ StartFetch(r, p) \/ EndFetch(r, p)

Request(r) == GetEntries(r) \/ CreateEntries(r) \/ Done(r)

Eviction == BeginScan \/ EndScan \/ Evict

Next ==
  \/ \E r \in Requests : Ask(r) \/ Request(r) \/ HangUp(r) \/ \E p \in Peers : Task(r, p)
  \/ \E k \in Keys : EndRefresh(k)
  \/ Eviction
  \/ Tick

Spec == Init /\ [][Next]_vars

-----------------------------------------------------------------------------
(* Properties.                                                             *)

\* ensure_peer_fresh returns its guard.
Answers(r, p) == task[r][p] # "off" /\ task'[r][p] = "off" /\ ~HangUp(r)

\* "Expired blooms are discarded even if a refresh fails" (peers.rs): what a
\* lookup_stream answers from is never older than the maximum age.
AnswersInDate ==
  \A r \in Requests, p \in Peers :
    Answers(r, p) => LET k == <<p, ent[r][p]>> IN bloom'[k] => age'[k] < MaxAge

\* "Never gives a false negative (outside of bounded TTLs)": a lookup_stream
\* does without a peer's filter only within the ttl of an attempt to get it.
BlindOnlyBriefly ==
  \A r \in Requests, p \in Peers :
    Answers(r, p) => LET k == <<p, ent[r][p]>> IN ~bloom'[k] => tried'[k] < Ttl

\* However many requests find the same filter missing or stale, the peer is
\* asked once, and not again within the ttl.
AttemptsApart ==
  \A k \in Cached : tried'[k] = 0 /\ tried[k] # 0 => ~Recent(k) /\ ~refresh[k]

\* Lookups answer from filters in date, do without one only briefly, and all
\* of them together ask a peer once in a ttl: a filter found missing or stale
\* by many at once, expired while it is fetched, or given up with a hang-up.
LookupsInTurn == [][AnswersInDate /\ BlindOnlyBriefly /\ AttemptsApart]_vars

\* The eviction task never sleeps past the moment a filter in the map is to
\* be dropped, whatever was fetched, tried or inserted while it slept.
WakesInTime ==
  evictor = "sleep" => \A k \in Cached : bloom[k] => left <= Deadline(k)

\* What next_eviction_time calls due, evict_expired drops: the task does not
\* run in circles over an entry that both disagree about.
EvictionRests ==
  EndScan /\ left' = 0 => \E k \in Cached : ~Kept(k)

\* Filters go when they are due: the task wakes in time, and for something.
EvictionKeepsTime == [][WakesInTime' /\ EvictionRests]_vars

=============================================================================
