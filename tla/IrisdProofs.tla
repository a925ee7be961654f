---------------------------- MODULE IrisdProofs -----------------------------
(***************************************************************************)
(* The stores of ogygia-irisd.  For every store, threshold and             *)
(* interleaving: no rebuild of the local filter loses an indexed path, and *)
(* what peers can find stays findable.  For any number of requests and     *)
(* entries of the NAR cache: the eviction listener never takes the path of *)
(* an entry from a reader that is opening it, the entry that is found      *)
(* always has its path, and no file is lost to the limit but by a leader   *)
(* that hangs up.                                                          *)
(***************************************************************************)
EXTENDS StoreIndex, NarCache, TLAPS

-----------------------------------------------------------------------------
(* StoreIndex.                                                             *)

IndexIInv == TypeOK /\ IndexedStaysFindable /\ Covered

\* An event that is told or dropped leaves a queue of events.
LEMMA NotifyType ==
  ASSUME TypeOK, NEW kind \in {"create", "remove"}, NEW p \in Paths, Notify(kind, p)
  PROVE  events' \in Seq(EventKinds)
<1>1. [kind |-> kind, path |-> p] \in EventKinds
  BY DEF EventKinds
<1>. QED BY <1>1 DEF TypeOK, Notify

\* Reading an event leaves a queue of events.
LEMMA HeadType ==
  ASSUME TypeOK, events # <<>>
  PROVE  Head(events) \in EventKinds /\ Tail(events) \in Seq(EventKinds)
BY DEF TypeOK

\* An insertion, by the scanner or the watcher, adds a path to what peers
\* read or to what the scan under way will publish.
LEMMA InsertIInv ==
  ASSUME IndexIInv, NEW p \in Paths, Insert(p), UNCHANGED store,
         scanner' = scanner, filter \cup found \subseteq filter' \cup found',
         scanner \in {"wait", "stopped"} => found' = found
  PROVE  IndexedStaysFindable' /\ Covered' /\ indexed' \subseteq serveable'
BY DEF Insert, IndexIInv, TypeOK, IndexedStaysFindable, Covered, Visible, store

\* The scanner: at the query everything indexed is serveable and so found,
\* and at the end everything found is in the filter that is published.
LEMMA ScannerIInv == ASSUME IndexIInv, Scanner PROVE IndexIInv'
<1>. USE DEF store, scan, watch, bloom
<1>1. CASE ScanQuery
  BY <1>1 DEF ScanQuery, IndexIInv, TypeOK, IndexedStaysFindable, Covered, Visible
<1>2. CASE ScanInsert
  <2>1. PICK p \in found : Insert(p) /\ found' = found \ {p}
    BY <1>2 DEF ScanInsert
  <2>2. p \in Paths /\ scanner = "insert"
    BY <1>2, <2>1 DEF ScanInsert, IndexIInv, TypeOK
  <2>3. filter \cup found \subseteq filter' \cup found'
    BY <2>1 DEF Insert
  <2>4. IndexedStaysFindable' /\ Covered' /\ indexed' \subseteq serveable'
    BY <1>2, <2>1, <2>2, <2>3, InsertIInv DEF ScanInsert
  <2>. QED BY <1>2, <2>1, <2>2, <2>4 DEF ScanInsert, Insert, IndexIInv, TypeOK
<1>3. CASE ScanDone
  BY <1>3 DEF ScanDone, FinishRebuild, IndexIInv, TypeOK, IndexedStaysFindable, Covered, Visible
<1>4. CASE Rebuild
  <2>1. CASE NeedsRebuild
    <3>0. Visible \subseteq Paths
      BY DEF IndexIInv, TypeOK, Visible
    <3>1. TypeOK'
      <4>1. /\ filter' = {} /\ elements' = 0 /\ deletions' = 0
            /\ slot' = "old" /\ old' \subseteq Paths
            /\ scanner' = "query" /\ requested' = FALSE
            /\ UNCHANGED <<disk, serveable, found, watcher, current, events, cancelled, indexed>>
        BY <1>4, <2>1, <3>0 DEF Rebuild, StartRebuild
      <4>. QED BY <4>1 DEF IndexIInv, TypeOK
    <3>2. indexed \subseteq Visible /\ slot' = "old" /\ old' = Visible /\ scanner' = "query"
      BY <1>4, <2>1 DEF Rebuild, StartRebuild, IndexIInv, IndexedStaysFindable
    <3>3. Visible' = Visible /\ indexed' = indexed
      BY <1>4, <3>2 DEF Rebuild, Visible
    <3>. QED BY <3>1, <3>2, <3>3 DEF IndexIInv, IndexedStaysFindable, Covered
  <2>2. CASE ~NeedsRebuild
    BY <1>4, <2>2 DEF Rebuild, IndexIInv, TypeOK, IndexedStaysFindable, Covered, Visible
  <2>. QED BY <2>1, <2>2
<1>5. CASE ScannerStops
  BY <1>5 DEF ScannerStops, IndexIInv, TypeOK, IndexedStaysFindable, Covered, Visible
<1>. QED BY <1>1, <1>2, <1>3, <1>4, <1>5 DEF Scanner

\* The watcher only ever adds to the filter.
LEMMA WatcherIInv == ASSUME IndexIInv, Watcher PROVE IndexIInv'
<1>. USE DEF store, scan, watch, bloom
<1>1. CASE WatchStarts
  BY <1>1 DEF WatchStarts, IndexIInv, TypeOK, IndexedStaysFindable, Covered, Visible
<1>2. CASE CreateQuery
  <2>1. Head(events) \in EventKinds /\ Tail(events) \in Seq(EventKinds)
    BY <1>2, HeadType DEF CreateQuery, IndexIInv
  <2>2. Head(events).path \in Paths
    BY <2>1 DEF EventKinds
  <2>. QED BY <1>2, <2>1, <2>2
           DEF CreateQuery, IndexIInv, TypeOK, IndexedStaysFindable, Covered, Visible
<1>3. CASE CreateInsert
  <2>1. current \in Paths
    BY <1>3 DEF CreateInsert, IndexIInv, TypeOK
  <2>2. filter \cup found \subseteq filter' \cup found'
    BY <1>3 DEF CreateInsert, Insert
  <2>3. IndexedStaysFindable' /\ Covered' /\ indexed' \subseteq serveable'
    BY <1>3, <2>1, <2>2, InsertIInv DEF CreateInsert
  <2>. QED BY <1>3, <2>1, <2>3 DEF CreateInsert, Insert, IndexIInv, TypeOK
<1>4. CASE RemoveMark
  <2>1. Tail(events) \in Seq(EventKinds)
    BY <1>4, HeadType DEF RemoveMark, IndexIInv
  <2>. QED BY <1>4, <2>1
           DEF RemoveMark, IndexIInv, TypeOK, IndexedStaysFindable, Covered, Visible
<1>5. CASE RemoveCheck
  BY <1>5 DEF RemoveCheck, NeedsRebuild, IndexIInv, TypeOK, IndexedStaysFindable, Covered, Visible
<1>6. CASE WatcherStops
  BY <1>6 DEF WatcherStops, IndexIInv, TypeOK, IndexedStaysFindable, Covered, Visible
<1>. QED BY <1>1, <1>2, <1>3, <1>4, <1>5, <1>6 DEF Watcher

\* The store changes under the daemon.
LEMMA StoreIInv == ASSUME IndexIInv, Store PROVE IndexIInv'
<1>. USE DEF store, scan, watch, bloom
<1>1. ASSUME NEW p \in Paths, Appear(p) PROVE IndexIInv'
  <2>1. events' \in Seq(EventKinds)
    BY <1>1, NotifyType DEF Appear, IndexIInv
  <2>. QED BY <1>1, <2>1 DEF Appear, IndexIInv, TypeOK, IndexedStaysFindable, Covered, Visible
<1>2. ASSUME NEW p \in Paths, Register(p) PROVE IndexIInv'
  BY <1>2 DEF Register, IndexIInv, TypeOK, IndexedStaysFindable, Covered, Visible
<1>3. ASSUME NEW p \in Paths, Invalidate(p) PROVE IndexIInv'
  BY <1>3 DEF Invalidate, IndexIInv, TypeOK, IndexedStaysFindable, Covered, Visible
<1>4. ASSUME NEW p \in Paths, Vanish(p) PROVE IndexIInv'
  <2>1. events' \in Seq(EventKinds)
    BY <1>4, NotifyType DEF Vanish, IndexIInv
  <2>. QED BY <1>4, <2>1 DEF Vanish, IndexIInv, TypeOK, IndexedStaysFindable, Covered, Visible
<1>. QED BY <1>1, <1>2, <1>3, <1>4 DEF Store

\* The invariant holds at the start and after every step.
LEMMA IndexStarts == Init => IndexIInv
<1>1. <<>> \in Seq(EventKinds)
  OBVIOUS
<1>2. ASSUME Init PROVE TypeOK
  BY <1>1, <1>2, Zenon DEF Init, TypeOK
<1>3. ASSUME Init PROVE IndexedStaysFindable /\ Covered
  BY <1>3 DEF Init, IndexedStaysFindable, Covered
<1>. QED BY <1>2, <1>3 DEF IndexIInv

LEMMA IndexInductive == IndexIInv /\ [Next]_vars => IndexIInv'
<1>. SUFFICES ASSUME IndexIInv, [Next]_vars PROVE IndexIInv'
  OBVIOUS
<1>1. CASE Shutdown
  BY <1>1 DEF Shutdown, store, scan, watch, bloom,
              IndexIInv, TypeOK, IndexedStaysFindable, Covered, Visible
<1>2. CASE Restart
  <2>1. <<>> \in Seq(EventKinds)
    OBVIOUS
  <2>. QED BY <1>2, <2>1 DEF Restart, store, IndexIInv, TypeOK, IndexedStaysFindable, Covered, Visible
<1>3. CASE UNCHANGED vars
  BY <1>3 DEF vars, store, scan, watch, bloom,
              IndexIInv, TypeOK, IndexedStaysFindable, Covered, Visible
<1>. QED BY <1>1, <1>2, <1>3, ScannerIInv, WatcherIInv, StoreIInv DEF Next

\* The filters, counters and queues keep their types.
THEOREM IndexTypeCorrect == Spec => []TypeOK
BY IndexStarts, IndexInductive, PTL DEF Spec, IndexIInv

\* No interleaving of a rebuild with insertions, deletions and the garbage
\* collector loses an indexed path.
THEOREM RebuildLosesNothing == Spec => []IndexedStaysFindable
BY IndexStarts, IndexInductive, PTL DEF Spec, IndexIInv

\* Nor does a path peers can find ever disappear from what they read.
LEMMA KeepsFinding ==
  ASSUME IndexIInv, [Next]_vars
  PROVE  [~Restart => \A p \in indexed \cap indexed' : p \in Visible => p \in Visible']_vars
<1>. SUFFICES ASSUME Next, ~Restart, NEW p \in indexed, p \in Visible
              PROVE  p \in Visible'
  OBVIOUS
<1>. USE DEF store, scan, watch, bloom
<1>1. CASE ScanQuery
  BY <1>1 DEF ScanQuery, Visible
<1>2. CASE ScanInsert \/ CreateInsert
  BY <1>2 DEF ScanInsert, CreateInsert, Insert, IndexIInv, TypeOK, Visible
<1>3. CASE ScanDone
  BY <1>3 DEF ScanDone, FinishRebuild, IndexIInv, Covered, Visible
<1>4. CASE Rebuild
  BY <1>4 DEF Rebuild, StartRebuild, Visible
<1>5. CASE ScannerStops
  BY <1>5 DEF ScannerStops, Visible
<1>6. CASE WatchStarts \/ CreateQuery \/ RemoveMark \/ RemoveCheck \/ WatcherStops
  BY <1>6 DEF WatchStarts, CreateQuery, RemoveMark, RemoveCheck, WatcherStops, Visible
<1>7. CASE Store
  BY <1>7 DEF Store, Appear, Register, Invalidate, Vanish, Visible
<1>8. CASE Shutdown
  BY <1>8 DEF Shutdown, Visible
<1>. QED BY <1>1, <1>2, <1>3, <1>4, <1>5, <1>6, <1>7, <1>8 DEF Next, Scanner, Watcher

THEOREM FindableStaysFindable == Spec => NeverForgotten
BY IndexStarts, IndexInductive, KeepsFinding, PTL DEF Spec, NeverForgotten


-----------------------------------------------------------------------------
(* NarCache.                                                               *)

CacheIInv == CacheTypeOK /\ ReadersHoldPath /\ OneGeneration /\ EntryPaths

\* An entry nobody refers to is none of those that are referred to.
LEMMA FreeIsFree ==
  ASSUME NEW e \in Free
  PROVE  e \in Entries /\ e # live /\ e # evicting /\ \A c \in Clients : ref[c] # e
BY DEF Free

\* A generation that fails leaves nobody waiting for it.
LEMMA FailedMake ==
  ASSUME CacheIInv, MakeFails, UNCHANGED <<onDisk, maps, listen>>
  PROVE  CacheIInv'
<1>1. \A c \in Clients : pc'[c] = IF pc[c] \in {"waiting", "making"} THEN "failed" ELSE pc[c]
  BY DEF MakeFails
<1>2. pc' \in [Clients -> Stages]
  BY DEF MakeFails, CacheIInv, CacheTypeOK, Stages
<1>3. CacheTypeOK'
  BY <1>1, <1>2, CacheAssumption DEF MakeFails, CacheIInv, CacheTypeOK, maps, listen
<1>4. ReadersHoldPath'
  BY <1>1 DEF MakeFails, CacheIInv, ReadersHoldPath, At, maps
<1>5. OneGeneration'
  BY <1>1 DEF MakeFails, OneGeneration, At
<1>6. EntryPaths'
  BY DEF CacheIInv, EntryPaths, maps, listen
<1>. QED BY <1>3, <1>4, <1>5, <1>6 DEF CacheIInv

\* The generation, up to the insertion that gives everybody the new entry.
LEMMA GenerationIInv == ASSUME CacheIInv, Generation PROVE CacheIInv'
<1>. USE DEF maps, make, listen, requests
<1>1. CASE Look
  BY <1>1 DEF Look, CacheIInv, CacheTypeOK, ReadersHoldPath, OneGeneration, EntryPaths, At
<1>2. CASE Hash
  <2>1. CASE onDisk
    BY <1>2, <2>1 DEF Hash, CacheIInv, CacheTypeOK, ReadersHoldPath, OneGeneration, EntryPaths, At
  <2>2. CASE ~onDisk
    BY <1>2, <2>2, FailedMake DEF Hash
  <2>. QED BY <2>1, <2>2
<1>3. CASE Dump
  BY <1>3 DEF Dump, CacheIInv, CacheTypeOK, ReadersHoldPath, OneGeneration, EntryPaths, At
<1>4. CASE DumpFails
  BY <1>4, FailedMake DEF DumpFails
<1>5. CASE Rename
  BY <1>5 DEF Rename, CacheIInv, CacheTypeOK, ReadersHoldPath, OneGeneration, EntryPaths, At
<1>6. CASE InsertEntry
  <2>1. PICK e \in Free :
          /\ live' = e
          /\ hasPath' = [hasPath EXCEPT ![e] = TRUE]
          /\ ref' = [c \in Clients |-> IF pc[c] \in {"waiting", "making"} THEN e ELSE ref[c]]
    BY <1>6 DEF InsertEntry
  <2>2. /\ pc' = [c \in Clients |-> IF pc[c] \in {"waiting", "making"} THEN "open" ELSE pc[c]]
        /\ making' = "off" /\ maker' = NoClient /\ evicting = NoEntry
        /\ UNCHANGED <<onDisk, evicting, evict>>
    BY <1>6 DEF InsertEntry
  <2>3. e \in Entries
    BY <2>1, FreeIsFree
  <2>4. /\ pc' \in [Clients -> Stages]
        /\ ref' \in [Clients -> Entries \cup {NoEntry}]
        /\ hasPath' \in [Entries -> BOOLEAN]
    BY <2>1, <2>2, <2>3 DEF CacheIInv, CacheTypeOK, Stages
  <2>5. \A c \in Clients : pc'[c] \in {"open", "reading"} => ref'[c] \in Entries
    BY <2>1, <2>2, <2>3 DEF CacheIInv, CacheTypeOK
  <2>6. CacheTypeOK'
    BY <2>1, <2>2, <2>3, <2>4, <2>5 DEF CacheIInv, CacheTypeOK
  <2>7. ReadersHoldPath'
    BY <2>1, <2>2, <2>3 DEF CacheIInv, CacheTypeOK, ReadersHoldPath, At
  <2>8. OneGeneration'
    BY <2>2 DEF OneGeneration, At
  <2>9. EntryPaths'
    BY <2>1, <2>2, <2>3, CacheAssumption DEF CacheIInv, CacheTypeOK, EntryPaths
  <2>. QED BY <2>6, <2>7, <2>8, <2>9 DEF CacheIInv
<1>. QED BY <1>1, <1>2, <1>3, <1>4, <1>5, <1>6 DEF Generation

\* A request only ever changes itself, apart from a leader that hangs up.
LEMMA RequestIInv ==
  ASSUME CacheIInv, NEW c \in Clients, Ask(c) \/ Request(c) \/ HangUp(c)
  PROVE  CacheIInv'
<1>. USE DEF maps, make, listen, requests
<1>1. CASE Ask(c)
  BY <1>1 DEF Ask, Moves, CacheIInv, CacheTypeOK, Stages, ReadersHoldPath, OneGeneration, EntryPaths, At
<1>2. CASE Hit(c)
  BY <1>2 DEF Hit, CacheIInv, CacheTypeOK, Stages, ReadersHoldPath, OneGeneration, EntryPaths, At
<1>3. CASE Join(c)
  BY <1>3 DEF Join, Moves, CacheIInv, CacheTypeOK, Stages, ReadersHoldPath, OneGeneration, EntryPaths, At
<1>4. CASE Lead(c)
  BY <1>4, CacheAssumption
     DEF Lead, Moves, CacheIInv, CacheTypeOK, Stages, ReadersHoldPath, OneGeneration, EntryPaths, At
<1>5. CASE OpenGone(c)
  BY <1>5 DEF OpenGone, Moves, CacheIInv, CacheTypeOK, Stages, ReadersHoldPath, OneGeneration, EntryPaths, At
<1>6. CASE OpenLocks(c)
  BY <1>6 DEF OpenLocks, Moves, CacheIInv, CacheTypeOK, Stages, ReadersHoldPath, OneGeneration, EntryPaths, At
<1>7. CASE Open(c)
  BY <1>7 DEF Open, Moves, CacheIInv, CacheTypeOK, Stages, ReadersHoldPath, OneGeneration, EntryPaths, At
<1>8. CASE Respond(c)
  BY <1>8 DEF Respond, CacheIInv, CacheTypeOK, Stages, ReadersHoldPath, OneGeneration, EntryPaths, At
<1>9. CASE HangUp(c)
  <2>1. \A d \in Clients :
          pc'[d] = IF d = c THEN "idle"
                   ELSE IF c = maker /\ pc[d] = "waiting" THEN "asked" ELSE pc[d]
    BY <1>9 DEF HangUp, Retrying
  <2>2. pc' \in [Clients -> Stages] /\ ref' \in [Clients -> Entries \cup {NoEntry}]
    BY <1>9 DEF HangUp, Retrying, CacheIInv, CacheTypeOK, Stages
  <2>3. \A d \in Clients : d # c => ref'[d] = ref[d]
    BY <1>9 DEF HangUp, CacheIInv, CacheTypeOK
  <2>4. CacheTypeOK'
    BY <1>9, <2>1, <2>2, <2>3 DEF HangUp, CacheIInv, CacheTypeOK
  <2>5. ReadersHoldPath'
    BY <1>9, <2>1, <2>3 DEF HangUp, CacheIInv, ReadersHoldPath, At
  <2>6. OneGeneration'
    BY <1>9, <2>1, CacheAssumption DEF HangUp, CacheIInv, CacheTypeOK, OneGeneration, At
  <2>7. EntryPaths'
    BY <1>9 DEF HangUp, CacheIInv, EntryPaths
  <2>. QED BY <2>4, <2>5, <2>6, <2>7 DEF CacheIInv
<1>. QED BY <1>1, <1>2, <1>3, <1>4, <1>5, <1>6, <1>7, <1>8, <1>9 DEF Request

\* Eviction: the listener waits for the readers of its entry.
LEMMA EvictionIInv == ASSUME CacheIInv, Evict \/ Listener PROVE CacheIInv'
<1>. USE DEF maps, make, listen, requests
<1>1. CASE Evict
  BY <1>1 DEF Evict, CacheIInv, CacheTypeOK, ReadersHoldPath, OneGeneration, EntryPaths, At
<1>2. CASE Take
  BY <1>2 DEF Take, CacheIInv, CacheTypeOK, ReadersHoldPath, OneGeneration, EntryPaths, At
<1>3. CASE Unlink
  BY <1>3 DEF Unlink, CacheIInv, CacheTypeOK, ReadersHoldPath, OneGeneration, EntryPaths, At
<1>. QED BY <1>1, <1>2, <1>3 DEF Listener

\* The invariant holds at the start and after every step.
LEMMA CacheStarts == CacheInit => CacheIInv
BY CacheAssumption
   DEF CacheInit, Blank, CacheIInv, CacheTypeOK, Stages, ReadersHoldPath, OneGeneration, EntryPaths, At

LEMMA CacheInductive == CacheIInv /\ [CacheNext]_cacheVars => CacheIInv'
<1>. SUFFICES ASSUME CacheIInv, [CacheNext]_cacheVars PROVE CacheIInv'
  OBVIOUS
<1>1. CASE Crash
  BY <1>1, CacheAssumption
     DEF Crash, Recover, CacheIInv, CacheTypeOK, Stages, ReadersHoldPath, OneGeneration, EntryPaths, At
<1>2. CASE UNCHANGED cacheVars
  BY <1>2 DEF cacheVars, maps, make, listen, requests,
              CacheIInv, CacheTypeOK, ReadersHoldPath, OneGeneration, EntryPaths, At
<1>. QED BY <1>1, <1>2, GenerationIInv, RequestIInv, EvictionIInv DEF CacheNext

\* The cache's state keeps its type; an opened entry is always one.
THEOREM CacheTypeCorrect == CacheSpec => []CacheTypeOK
BY CacheStarts, CacheInductive, PTL DEF CacheSpec, CacheIInv

\* The read lock does what CachedNar::open says of it.
THEOREM PathHeldWhileOpening == CacheSpec => []ReadersHoldPath
BY CacheStarts, CacheInductive, PTL DEF CacheSpec, CacheIInv

\* What moka finds has its path, and one generation runs at a time.
THEOREM EntriesConsistent == CacheSpec => [](EntryPaths /\ OneGeneration)
BY CacheStarts, CacheInductive, PTL DEF CacheSpec, CacheIInv

-----------------------------------------------------------------------------
(* The limit loses no file unless somebody hangs up.                       *)

\* Whoever dumps or renames found no file, and nobody else makes one.
DumpsWhatIsMissing == making \in {"dump", "rename"} => ~onDisk

LEMMA InitDumps == CacheInit => DumpsWhatIsMissing
BY DEF CacheInit, Blank, DumpsWhatIsMissing

LEMMA DumpsInductive == CacheIInv /\ DumpsWhatIsMissing /\ [CacheNext]_cacheVars => DumpsWhatIsMissing'
<1>. SUFFICES ASSUME CacheIInv, DumpsWhatIsMissing, [CacheNext]_cacheVars PROVE DumpsWhatIsMissing'
  OBVIOUS
<1>. USE DEF DumpsWhatIsMissing, maps, make, listen, requests
<1>1. CASE Generation
  BY <1>1 DEF Generation, Look, Hash, MakeFails, Dump, DumpFails, Rename, InsertEntry
<1>2. ASSUME NEW c \in Clients, Ask(c) \/ Request(c) PROVE DumpsWhatIsMissing'
  BY <1>2 DEF Ask, Request, Hit, Join, Lead, OpenGone, OpenLocks, Open, Respond
\* The leader that hangs up makes nothing any more, whatever it leaves behind.
<1>3. ASSUME NEW c \in Clients, HangUp(c) PROVE DumpsWhatIsMissing'
  BY <1>3 DEF HangUp
<1>4. CASE Evict \/ Listener
  BY <1>4 DEF Evict, Listener, Take, Unlink
<1>5. CASE Crash
  BY <1>5 DEF Crash
<1>6. CASE UNCHANGED cacheVars
  BY <1>6 DEF cacheVars
<1>. QED BY <1>1, <1>2, <1>3, <1>4, <1>5, <1>6 DEF CacheNext

\* A generation gives up its file to nobody: it failed for want of one.
LEMMA GenerationCounts ==
  ASSUME CacheIInv, DumpsWhatIsMissing, FilesAreCounted, Generation
  PROVE  FilesAreCounted'
<1>. USE DEF FilesAreCounted, maps, make, listen, requests
<1>1. CASE Look \/ Dump
  BY <1>1 DEF Look, Dump
<1>2. CASE Hash
  BY <1>2 DEF Hash, MakeFails
<1>3. CASE DumpFails
  BY <1>3 DEF DumpFails, MakeFails, DumpsWhatIsMissing
<1>4. CASE Rename
  BY <1>4 DEF Rename, CacheIInv, OneGeneration
<1>5. CASE InsertEntry
  <2>1. PICK e \in Free : live' = e
    BY <1>5 DEF InsertEntry
  <2>. QED BY <2>1, FreeIsFree, CacheAssumption
<1>. QED BY <1>1, <1>2, <1>3, <1>4, <1>5 DEF Generation

\* An evicted file passes from the entry to the listener, which unlinks it;
\* what a crash leaves on disk is recovered.
LEMMA OthersCount ==
  ASSUME CacheIInv, FilesAreCounted,
         Evict \/ Listener \/ Crash \/ (\E c \in Clients : Ask(c) \/ Request(c))
  PROVE  FilesAreCounted'
<1>. USE DEF FilesAreCounted, maps, make, listen, requests
<1>1. CASE Evict
  BY <1>1 DEF Evict
<1>2. CASE Listener
  BY <1>2 DEF Listener, Take, Unlink
<1>3. CASE Crash
  BY <1>3 DEF Crash, Recover
<1>4. ASSUME NEW c \in Clients, Ask(c) \/ Request(c) PROVE FilesAreCounted'
  BY <1>4, CacheAssumption DEF Ask, Request, Hit, Join, Lead, OpenGone, OpenLocks, Open, Respond
<1>. QED BY <1>1, <1>2, <1>3, <1>4

\* max_size_bytes: every file the cache has is known to the limit or about to
\* be, until a leader goes away at its rename.
THEOREM CountedUntilHangUp == CacheSpec => FilesStayCounted
<1>1. CacheIInv /\ DumpsWhatIsMissing /\ [CacheNext]_cacheVars =>
        [(\A c \in Clients : ~HangUp(c)) => (FilesAreCounted => FilesAreCounted')]_cacheVars
  <2>. SUFFICES ASSUME CacheIInv, DumpsWhatIsMissing, CacheNext,
                       \A c \in Clients : ~HangUp(c), FilesAreCounted
                PROVE  FilesAreCounted'
    BY DEF CacheNext
  <2>. QED BY GenerationCounts, OthersCount DEF CacheNext
<1>. QED BY <1>1, CacheStarts, CacheInductive, InitDumps, DumpsInductive, PTL DEF CacheSpec, FilesStayCounted

=============================================================================
