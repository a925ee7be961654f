------------------------------ MODULE NarCache ------------------------------
(***************************************************************************)
(* ogygia-irisd's NAR cache for one store path: the compressed file on     *)
(* disk, moka's entry for it, the requests that share one generation, and  *)
(* the eviction listener that unlinks the file behind the readers.  Paths  *)
(* only meet in the size limit, so eviction may come at any time.          *)
(*                                                                         *)
(* moka 0.12 removes an entry and runs its listener under the key's lock,  *)
(* which an insertion of the same key takes too; the generation in front   *)
(* of the insertion runs without it.                                       *)
(***************************************************************************)
EXTENDS FiniteSets

CONSTANTS
  Clients,  \* concurrent requests for the path
  Entries,  \* CachedNar values, recycled once nobody refers to them
  NoClient,
  NoEntry

ASSUME CacheAssumption == NoClient \notin Clients /\ NoEntry \notin Entries

VARIABLES
  onDisk,   \* the final .nar.zst exists
  live,     \* moka's entry
  hasPath,  \* per entry: its guarded path is Some
  maker,    \* the request running generate_cached_nar for everybody
  making,   \* its stage: "off", "look", "hash", "dump", "rename", "insert"
  evicting, \* the entry the listener was called with
  evict,    \* its stage: "off", "lock", "unlink"
  pc,       \* per request
  ref       \* per request: its entry

maps == <<live, hasPath>>
make == <<maker, making>>
listen == <<evicting, evict>>
requests == <<pc, ref>>
cacheVars == <<onDisk, maps, make, listen, requests>>

Stages == {"idle", "asked", "waiting", "making", "open", "reading", "served", "gone", "failed"}

CacheTypeOK ==
  /\ onDisk \in BOOLEAN
  /\ live \in Entries \cup {NoEntry}
  /\ hasPath \in [Entries -> BOOLEAN]
  /\ maker \in Clients \cup {NoClient}
  /\ making \in {"off", "look", "hash", "dump", "rename", "insert"}
  /\ evicting \in Entries \cup {NoEntry}
  /\ evict \in {"off", "lock", "unlink"}
  /\ pc \in [Clients -> Stages]
  /\ ref \in [Clients -> Entries \cup {NoEntry}]
  /\ \A c \in Clients : pc[c] \in {"open", "reading"} => ref[c] \in Entries

At(stage) == {c \in Clients : pc[c] = stage}

Free == {e \in Entries : e \notin {live, evicting} /\ \A c \in Clients : ref[c] # e}

-----------------------------------------------------------------------------
(* A request: ensure, and the generation behind it.                        *)

Moves(c, stage) == pc' = [pc EXCEPT ![c] = stage] /\ UNCHANGED ref

Ask(c) ==
  /\ pc[c] = "idle"
  /\ Moves(c, "asked")
  /\ UNCHANGED <<onDisk, maps, make, listen>>

\* Mutant: the entry is used without being there.
HitUnchecked(c) ==
  /\ pc[c] = "asked"
  /\ pc' = [pc EXCEPT ![c] = "open"]
  /\ ref' = [ref EXCEPT ![c] = live]
  /\ UNCHANGED <<onDisk, maps, make, listen>>

\* try_get_with finds the entry, joins a generation or becomes its leader.
Hit(c) ==
  /\ pc[c] = "asked" /\ live # NoEntry
  /\ pc' = [pc EXCEPT ![c] = "open"]
  /\ ref' = [ref EXCEPT ![c] = live]
  /\ UNCHANGED <<onDisk, maps, make, listen>>

Join(c) ==
  /\ pc[c] = "asked" /\ live = NoEntry /\ maker # NoClient
  /\ Moves(c, "waiting")
  /\ UNCHANGED <<onDisk, maps, make, listen>>

Lead(c) ==
  /\ pc[c] = "asked" /\ live = NoEntry /\ maker = NoClient
  /\ Moves(c, "making")
  /\ maker' = c /\ making' = "look"
  /\ UNCHANGED <<onDisk, maps, listen>>

\* generate_cached_nar takes a final file that is already there ...
Look ==
  /\ making = "look"
  /\ making' = IF onDisk THEN "hash" ELSE "dump"
  /\ UNCHANGED <<onDisk, maps, maker, listen, requests>>

\* The generation failed, for the leader and for everybody who joined it.
MakeFails ==
  /\ making' = "off" /\ maker' = NoClient
  /\ pc' = [c \in Clients |-> IF pc[c] \in {"waiting", "making"} THEN "failed" ELSE pc[c]]
  /\ UNCHANGED ref

\* ... if it is still there when it is opened to be hashed.
Hash ==
  /\ making = "hash"
  /\ IF onDisk THEN making' = "insert" /\ UNCHANGED <<maker, requests>> ELSE MakeFails
  /\ UNCHANGED <<onDisk, maps, listen>>

\* nix-store --dump into the temporary file, compressed and hashed.
Dump ==
  /\ making = "dump"
  /\ making' = "rename"
  /\ UNCHANGED <<onDisk, maps, maker, listen, requests>>

DumpFails ==
  /\ making = "dump"
  /\ MakeFails
  /\ UNCHANGED <<onDisk, maps, listen>>

Rename ==
  /\ making = "rename"
  /\ onDisk' = TRUE
  /\ making' = "insert"
  /\ UNCHANGED <<maps, maker, listen, requests>>

\* moka inserts under the key lock and wakes everybody who joined.
InsertEntry ==
  /\ making = "insert" /\ evicting = NoEntry
  /\ Free # {}
  /\ LET e == CHOOSE x \in Free : TRUE IN
       /\ live' = e
       /\ hasPath' = [hasPath EXCEPT ![e] = TRUE]
       /\ ref' = [c \in Clients |-> IF pc[c] \in {"waiting", "making"} THEN e ELSE ref[c]]
  /\ pc' = [c \in Clients |-> IF pc[c] \in {"waiting", "making"} THEN "open" ELSE pc[c]]
  /\ making' = "off" /\ maker' = NoClient
  /\ UNCHANGED <<onDisk, listen>>

-----------------------------------------------------------------------------
(* CachedNar::open: the path is read and the file opened under its lock.   *)

\* The listener wants or had the entry's write lock.
Locked(e) == evicting = e /\ evict = "lock"

OpenGone(c) ==
  /\ pc[c] = "open" /\ (Locked(ref[c]) \/ ~hasPath[ref[c]])
  /\ Moves(c, "gone")
  /\ UNCHANGED <<onDisk, maps, make, listen>>

OpenLocks(c) ==
  /\ pc[c] = "open" /\ ~Locked(ref[c]) /\ hasPath[ref[c]]
  /\ Moves(c, "reading")
  /\ UNCHANGED <<onDisk, maps, make, listen>>

\* The file is opened or not found; the lock is released.
Open(c) ==
  /\ pc[c] = "reading"
  /\ Moves(c, IF onDisk THEN "served" ELSE "failed")
  /\ UNCHANGED <<onDisk, maps, make, listen>>

\* 200, 404 or 500. A served file is read through its descriptor.
Respond(c) ==
  /\ pc[c] \in {"served", "gone", "failed"}
  /\ pc' = [pc EXCEPT ![c] = "idle"]
  /\ ref' = [ref EXCEPT ![c] = NoEntry]
  /\ UNCHANGED <<onDisk, maps, make, listen>>

\* Mutant: who joined a generation is not woken when its leader goes away.
LeftWaiting(c) == [pc EXCEPT ![c] = "idle"]

\* A leader that goes away leaves the others to start again.
Retrying(c) ==
  [d \in Clients |-> IF d = c THEN "idle"
                     ELSE IF c = maker /\ pc[d] = "waiting" THEN "asked" ELSE pc[d]]

\* The client hangs up: the handler is dropped at whatever it awaits. A
\* rename that was handed to the blocking pool is still made.
HangUp(c) ==
  /\ pc[c] # "idle"
  /\ pc' = Retrying(c)
  /\ ref' = [ref EXCEPT ![c] = NoEntry]
  /\ IF c = maker
     THEN /\ maker' = NoClient /\ making' = "off"
          /\ \/ making = "rename" /\ onDisk' = TRUE
             \/ onDisk' = onDisk
     ELSE UNCHANGED <<make, onDisk>>
  /\ UNCHANGED <<maps, listen>>

-----------------------------------------------------------------------------
(* Eviction: time to idle, size or admission.                              *)

\* Mutant: the listener runs while the entry can still be found.
EvictKeepsEntry ==
  /\ live # NoEntry /\ evicting = NoEntry
  /\ evicting' = live /\ evict' = "lock"
  /\ UNCHANGED <<onDisk, maps, make, requests>>

Evict ==
  /\ live # NoEntry /\ evicting = NoEntry
  /\ evicting' = live /\ evict' = "lock"
  /\ live' = NoEntry
  /\ UNCHANGED <<onDisk, hasPath, make, requests>>

\* Mutant: the path is taken while readers hold it.
TakeUnguarded ==
  /\ evict = "lock"
  /\ hasPath' = [hasPath EXCEPT ![evicting] = FALSE]
  /\ evict' = "unlink"
  /\ UNCHANGED <<onDisk, live, make, evicting, requests>>

\* The listener takes the path under the write lock ...
Take ==
  /\ evict = "lock"
  /\ \A c \in At("reading") : ref[c] # evicting
  /\ hasPath' = [hasPath EXCEPT ![evicting] = FALSE]
  /\ evict' = "unlink"
  /\ UNCHANGED <<onDisk, live, make, evicting, requests>>

\* ... and unlinks it after that.
Unlink ==
  /\ evict = "unlink"
  /\ onDisk' = FALSE
  /\ evict' = "off" /\ evicting' = NoEntry
  /\ UNCHANGED <<maps, make, requests>>

-----------------------------------------------------------------------------
(* Starting and crashing.                                                  *)

Blank ==
  /\ maker = NoClient /\ making = "off"
  /\ evicting = NoEntry /\ evict = "off"
  /\ pc = [c \in Clients |-> "idle"]
  /\ ref = [c \in Clients |-> NoEntry]

CacheInit ==
  /\ onDisk \in BOOLEAN
  /\ live \in Entries \cup {NoEntry} /\ (live # NoEntry <=> onDisk)
  /\ hasPath = [e \in Entries |-> e = live]
  /\ Blank

\* Mutant: nothing is recovered.
RecoverNothing == live' = NoEntry /\ hasPath' = [e \in Entries |-> FALSE]

\* recover: whatever file is there gets an entry.
Recover ==
  /\ live' \in Entries \cup {NoEntry} /\ (live' # NoEntry <=> onDisk')
  /\ hasPath' = [e \in Entries |-> e = live']

Crash ==
  /\ UNCHANGED onDisk
  /\ Recover
  /\ maker' = NoClient /\ making' = "off"
  /\ evicting' = NoEntry /\ evict' = "off"
  /\ pc' = [c \in Clients |-> "idle"]
  /\ ref' = [c \in Clients |-> NoEntry]

Generation == Look \/ Hash \/ Dump \/ DumpFails \/ Rename \/ InsertEntry
Request(c) == Hit(c) \/ Join(c) \/ Lead(c) \/ OpenGone(c) \/ OpenLocks(c) \/ Open(c) \/ Respond(c)
Listener   == Take \/ Unlink

CacheNext ==
  \/ \E c \in Clients : Ask(c) \/ Request(c) \/ HangUp(c)
  \/ Generation \/ Evict \/ Listener \/ Crash

CacheSpec == CacheInit /\ [][CacheNext]_cacheVars

CacheFairness ==
  /\ \A c \in Clients : WF_cacheVars(Request(c))
  /\ WF_cacheVars(Generation) /\ WF_cacheVars(Listener)

CacheFairSpec == CacheSpec /\ CacheFairness

-----------------------------------------------------------------------------
(* Properties.                                                             *)

\* "Readers acquire the read lock and open the file before releasing it":
\* while a reader is between the two, its entry keeps its path, so that the
\* eviction of that entry does not unlink the file under it.
ReadersHoldPath == \A c \in At("reading") : hasPath[ref[c]]

\* One generation at a time, led by a request that is still there, and
\* nobody waits for one that is over.
OneGeneration ==
  /\ At("making") = {maker} \ {NoClient}
  /\ making = "off" <=> maker = NoClient
  /\ At("waiting") # {} => maker # NoClient

\* The entry that is found has its path, and only the listener that evicts an
\* entry, which is found no more, takes it.
EntryPaths ==
  /\ live # NoEntry => hasPath[live]
  /\ evict = "off" <=> evicting = NoEntry
  /\ evicting # NoEntry => evicting # live
  /\ evict = "lock" => hasPath[evicting]

\* "Maximum total size of all cached NAR files" (cache.max_size_bytes): the
\* limit knows of every file, or somebody is about to tell it.
FilesAreCounted ==
  onDisk => live # NoEntry \/ evicting # NoEntry \/ maker # NoClient

\* No eviction, failed generation, crash or recovery takes a file off the
\* books: only a leader that goes away at its rename does.
FilesStayCounted ==
  [][(\A c \in Clients : ~HangUp(c)) => (FilesAreCounted => FilesAreCounted')]_cacheVars

\* Every request gets an answer, whoever hung up or is evicted in between.
EveryRequestAnswered ==
  <>[][\A c \in Clients : ~HangUp(c)]_cacheVars =>
    \A c \in Clients : pc[c] # "idle" ~> pc[c] = "idle"

\* "Set to None by the eviction listener just before deleting the file"
\* (CachedNar::path): a path that is still Some can be opened.
PathOpens == [][\A c \in Clients : pc[c] = "reading" => pc'[c] # "failed"]_cacheVars

=============================================================================
