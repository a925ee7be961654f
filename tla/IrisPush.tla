------------------------------ MODULE IrisPush ------------------------------
(***************************************************************************)
(* `ogygia iris push`, the Nix database it reads and the rescan it asks of *)
(* ogygia-irisd: which paths are signed, and which are advertised after.   *)
(*                                                                         *)
(* The operator pushes what a build just printed; the build's result link  *)
(* keeps its closure from the garbage collector while the push runs.  Other*)
(* builds and substitutions go on.  Any query and any request may fail.    *)
(***************************************************************************)
EXTENDS Naturals

CONSTANTS
  StorePaths,
  RefsOf,          \* StorePaths -> its references
  PushKey, CacheKey,
  MaxStore         \* bound: builds, substitutions and collections

ASSUME IrisPushAssumption ==
  RefsOf \in [StorePaths -> SUBSET StorePaths] /\ PushKey # CacheKey /\ MaxStore \in Nat

VARIABLES
  db,              \* the rows of ValidPaths
  advertised,           \* what irisd advertises
  irisd,           \* whether it runs
  push,            \* the run of `ogygia iris push`
  storeSteps

pushVars == <<db, advertised, irisd, push, storeSteps>>

\* The columns that the queries read: `ultimate` and `ca` may be NULL, and so may
\* `sigs`, which is as good as the empty string.
Row == [ultimate : BOOLEAN, ca : BOOLEAN, sigs : SUBSET {PushKey, CacheKey}]

NoPush == [at |-> "none"]

\* A run: what it was asked for and listed, what it has still to query, what it is to
\* sign, and what of that is left to sign or to ask a rescan of.
Runs == [at : {"query", "sign", "rescan", "succeeded"}, inputs : SUBSET StorePaths,
         todo : SUBSET StorePaths, listed : SUBSET StorePaths, toSign : SUBSET StorePaths,
         left : SUBSET StorePaths, errors : Nat]

PushTypeOK ==
  /\ db \in UNION {[paths -> Row] : paths \in SUBSET StorePaths}
  /\ advertised \subseteq StorePaths /\ irisd \in BOOLEAN
  /\ push \in Runs \cup {NoPush}
  /\ storeSteps \in 0..MaxStore

PushInit ==
  /\ db = [p \in {} |-> TRUE] /\ advertised = {} /\ irisd = TRUE
  /\ push = NoPush /\ storeSteps = 0

-----------------------------------------------------------------------------
(* The Nix database, as it is queried.                                     *)

\* is_path_serveable: signed, or content-addressed.
Serveable(p) == p \in DOMAIN db /\ (db[p].sigs # {} \/ db[p].ca)

\* serveable_hashes, in one query.
ServeableHashes == {p \in DOMAIN db : Serveable(p)}

\* is_ultimate: an error for a path that is not in the store.
IsUltimate(p) == db[p].ultimate

\* find_path_info: the names of the keys that signed it.
SignedWith(p, key) == key \in db[p].sigs

\* Every path that some of `paths` needs, with them: what no set that holds them and
\* is closed under references can do without.
ClosureOf(paths) ==
  {p \in StorePaths : \A closed \in SUBSET StorePaths :
     paths \subseteq closed /\ (\A q \in closed : RefsOf[q] \subseteq closed) => p \in closed}

-----------------------------------------------------------------------------
(* Nix and ogygia-irisd.                                                   *)

StoreStep == storeSteps < MaxStore /\ storeSteps' = storeSteps + 1

Register(p, row) ==
  /\ StoreStep /\ p \notin DOMAIN db /\ RefsOf[p] \subseteq DOMAIN db
  /\ db' = [q \in DOMAIN db \cup {p} |-> IF q = p THEN row ELSE db[q]]
  /\ UNCHANGED <<irisd, push>>

\* A path built here is signed by nobody, unless it is content-addressed: the watcher
\* advertises what is serveable when it is registered.
Build(p) ==
  \E ca \in BOOLEAN :
    /\ Register(p, [ultimate |-> TRUE, ca |-> ca, sigs |-> {}])
    /\ advertised' = IF irisd /\ ca THEN advertised \cup {p} ELSE advertised

Substitute(p) ==
  /\ Register(p, [ultimate |-> FALSE, ca |-> FALSE, sigs |-> {CacheKey}])
  /\ advertised' = IF irisd THEN advertised \cup {p} ELSE advertised

Rooted == IF push.at \in {"none", "succeeded"} THEN {} ELSE ClosureOf(push.inputs)

\* The bloom forgets nothing until irisd starts over.
CollectGarbage(p) ==
  /\ StoreStep /\ p \in DOMAIN db \ Rooted /\ \A q \in DOMAIN db \ {p} : p \notin RefsOf[q]
  /\ db' = [q \in DOMAIN db \ {p} |-> db[q]]
  /\ UNCHANGED <<advertised, irisd, push>>

\* It scans the whole database when it starts.
RestartIrisd ==
  /\ irisd' = ~irisd /\ advertised' = IF irisd THEN {} ELSE ServeableHashes
  /\ push' = IF push.at = "rescan" THEN NoPush ELSE push     \* the connection breaks
  /\ StoreStep /\ UNCHANGED db

-----------------------------------------------------------------------------
(* The push.                                                               *)

\* read_store_paths_from_stdin: lines that name no store path are skipped, and the
\* push ends at once when there are no others.
StartPush(inputs) ==
  /\ push.at \in {"none", "succeeded"} /\ inputs # {} /\ inputs \subseteq DOMAIN db
  /\ \E closure \in BOOLEAN :
       push' = [at |-> "query", inputs |-> inputs, todo |-> IF closure THEN ClosureOf(inputs) ELSE inputs,
                listed |-> IF closure THEN ClosureOf(inputs) ELSE inputs, toSign |-> {}, left |-> {}, errors |-> 0]
  /\ UNCHANGED <<db, advertised, irisd, storeSteps>>

\* Mutant: the signature is looked for, and the origin of the path is not.
WantedFromAnywhere(p) == ~SignedWith(p, PushKey)

\* Only paths built here that the key did not sign yet.
Wanted(p) == IsUltimate(p) /\ ~SignedWith(p, PushKey)

Query(p) ==
  /\ push.at = "query" /\ p \in push.todo
  /\ push' = [push EXCEPT !.todo = @ \ {p}, !.toSign = IF Wanted(p) THEN @ \cup {p} ELSE @]
  /\ UNCHANGED <<db, advertised, irisd, storeSteps>>

Queried ==
  /\ push.at = "query" /\ push.todo = {}
  /\ push' = [push EXCEPT !.at = IF push.toSign = {} THEN "succeeded" ELSE "sign", !.left = push.toSign]
  /\ UNCHANGED <<db, advertised, irisd, storeSteps>>

\* nix store sign signs one path after the other.
SignPath(p) ==
  /\ push.at = "sign" /\ p \in push.left
  /\ db' = [db EXCEPT ![p].sigs = @ \cup {PushKey}]
  /\ push' = [push EXCEPT !.left = @ \ {p}]
  /\ UNCHANGED <<advertised, irisd, storeSteps>>

\* The request carries every path that was signed.
AskRescan ==
  /\ push.at = "sign" /\ push.left = {} /\ irisd
  /\ push' = [push EXCEPT !.at = "rescan", !.left = push.toSign]
  /\ UNCHANGED <<db, advertised, irisd, storeSteps>>

\* POST /rescan: a path that is not serveable, or whose query fails, counts as an error.
Rescan(p) ==
  /\ push.at = "rescan" /\ irisd /\ p \in push.left
  /\ \/ /\ Serveable(p) /\ advertised' = advertised \cup {p}
        /\ push' = [push EXCEPT !.left = @ \ {p}]
     \/ /\ UNCHANGED advertised
        /\ push' = [push EXCEPT !.left = @ \ {p}, !.errors = @ + 1]
  /\ UNCHANGED <<db, irisd, storeSteps>>

\* Mutant: the counts of the answer are only shown.
PushEndsAnyway ==
  /\ push.at = "rescan" /\ push.left = {} /\ irisd
  /\ push' = [push EXCEPT !.at = "succeeded"]
  /\ UNCHANGED <<db, advertised, irisd, storeSteps>>

\* One error is enough for the push to fail.
PushEnds ==
  /\ push.at = "rescan" /\ push.left = {} /\ irisd
  /\ push' = IF push.errors > 0 THEN NoPush ELSE [push EXCEPT !.at = "succeeded"]
  /\ UNCHANGED <<db, advertised, irisd, storeSteps>>

\* A query, the signing or the request fails; whatever was signed stays so.
PushFails ==
  /\ push.at \in {"query", "sign", "rescan"}
  /\ push' = NoPush
  /\ UNCHANGED <<db, advertised, irisd, storeSteps>>

PushNext ==
  \/ \E p \in StorePaths : Build(p) \/ Substitute(p) \/ CollectGarbage(p) \/ Query(p) \/ SignPath(p) \/ Rescan(p)
  \/ \E inputs \in SUBSET StorePaths : StartPush(inputs)
  \/ RestartIrisd \/ Queried \/ AskRescan \/ PushEnds \/ PushFails

PushSpec == PushInit /\ [][PushNext]_pushVars

-----------------------------------------------------------------------------
(* Properties.                                                             *)

\* When a push succeeds, every path it listed that was built here carries the key's
\* signature, whichever earlier push signed it, and those that this push signed are
\* advertised.
PushIsComplete ==
  push.at # "succeeded" /\ push'.at = "succeeded" =>
    /\ \A p \in push.listed : db[p].ultimate => PushKey \in db[p].sigs
    /\ push.toSign \subseteq advertised

\* Whatever is collected, rebuilt or fetched between one push and the next, the key
\* signs nothing that came from a cache: it vouches for what was built here.
OnlyOwnBuildsAreSigned == \A p \in DOMAIN db : PushKey \in db[p].sigs => db[p].ultimate

\* A push that says it succeeded left nothing of what it listed behind, and no
\* push ever vouches for what it did not build.
PushIsSound == []OnlyOwnBuildsAreSigned /\ [][PushIsComplete]_pushVars
=============================================================================
