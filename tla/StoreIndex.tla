----------------------------- MODULE StoreIndex -----------------------------
(***************************************************************************)
(* ogygia-irisd's index of the local store: the bloom filter peers fetch   *)
(* (bloom/local.rs), the scanner that fills and rebuilds it, the watcher   *)
(* that follows /nix/store, and how the tasks wind down.  A filter is the  *)
(* set of paths inserted into it: what is not in the set is a false        *)
(* negative for a peer, what is in it may be stale.                        *)
(***************************************************************************)
EXTENDS Integers, Sequences, FiniteSets

CONSTANTS
  Paths,        \* store paths
  ThresholdNum, \* config.bloom.rebuild_threshold, as a fraction
  ThresholdDen,
  EventQueue,   \* events the watcher's channel and inotify hold
  MaxCount,     \* bound of the exploration: the store changes while the filter
                \* counts fewer insertions and deletions, pending ones included
  Watching,     \* FALSE: run with --no-watch
  NoPath

ASSUME IndexAssumption ==
  /\ ThresholdNum \in Nat /\ ThresholdDen \in Nat \ {0}
  /\ EventQueue \in Nat /\ MaxCount \in Nat
  /\ Watching \in BOOLEAN
  /\ NoPath \notin Paths

VARIABLES
  disk,         \* top-level entries of /nix/store
  serveable,    \* registered in the Nix database, and signed or content-addressed
  filter,       \* the write filter ...
  elements, deletions, \* ... and its counters
  slot,         \* the read slot: "none", the write filter ("shared"), or "old"
  old,          \* the filter a rebuild leaves readable
  scanner,      \* "query", "insert", "wait" for a request, "stopped"
  found,        \* hashes the scanner has still to insert
  requested,    \* the rebuild channel of capacity one
  watcher,      \* "starting", "idle", "insert", "check", "stopped"
  current,      \* the path the watcher is about to insert
  events,       \* what it has not processed
  cancelled,    \* SIGTERM was received
  indexed       \* history: paths inserted while serveable, and serveable since

store == <<disk, serveable>>
bloom == <<filter, elements, deletions, slot, old>>
scan  == <<scanner, found>>
watch == <<watcher, current, events>>
vars  == <<store, bloom, scan, requested, watch, cancelled, indexed>>

EventKinds == [kind : {"create", "remove"}, path : Paths]

TypeOK ==
  /\ disk \subseteq Paths /\ serveable \subseteq disk
  /\ filter \subseteq Paths /\ old \subseteq Paths
  /\ elements \in Nat /\ deletions \in Nat
  /\ slot \in {"none", "shared", "old"}
  /\ scanner \in {"query", "insert", "wait", "stopped"}
  /\ found \subseteq Paths
  /\ requested \in BOOLEAN
  /\ watcher \in {"starting", "idle", "insert", "check", "stopped"}
  /\ current \in Paths \cup {NoPath} /\ (watcher = "insert" => current \in Paths)
  /\ events \in Seq(EventKinds)
  /\ cancelled \in BOOLEAN
  /\ indexed \subseteq serveable

\* What serialize() answers; nothing (503) before the first scan is done.
Visible ==
  CASE slot = "none" -> {} [] slot = "shared" -> filter [] OTHER -> old

-----------------------------------------------------------------------------
(* The filter's operations.                                                *)

\* insert.
Insert(p) ==
  /\ filter' = filter \cup {p}
  /\ elements' = elements + 1
  /\ indexed' = IF p \in serveable THEN indexed \cup {p} ELSE indexed
  /\ UNCHANGED <<deletions, slot, old>>

NeedsRebuild ==
  elements # 0 /\ deletions * ThresholdDen > ThresholdNum * elements

\* Mutant: the fresh filter is readable at once.
StartShared ==
  /\ filter' = {} /\ elements' = 0 /\ deletions' = 0
  /\ UNCHANGED <<slot, old>>

\* start_rebuild: fresh filter and counters to write; the read slot keeps
\* what it has.
StartRebuild ==
  /\ filter' = {} /\ elements' = 0 /\ deletions' = 0
  /\ slot' = "old" /\ old' = Visible

\* Mutant: the read slot keeps the old filter.
FinishForgotten == UNCHANGED bloom

\* finish_rebuild.
FinishRebuild ==
  /\ slot' = "shared" /\ old' = {}
  /\ UNCHANGED <<filter, elements, deletions>>

-----------------------------------------------------------------------------
(* The scanner task.                                                       *)

\* serveable_hashes: one query for the initial scan or a rebuild.
ScanQuery ==
  /\ scanner = "query"
  /\ found' = serveable
  /\ scanner' = "insert"
  /\ UNCHANGED <<store, bloom, requested, watch, cancelled, indexed>>

ScanInsert ==
  /\ scanner = "insert"
  /\ \E p \in found : Insert(p) /\ found' = found \ {p}
  /\ UNCHANGED <<store, scanner, requested, watch, cancelled>>

ScanDone ==
  /\ scanner = "insert" /\ found = {}
  /\ FinishRebuild
  /\ scanner' = "wait"
  /\ UNCHANGED <<store, found, requested, watch, cancelled, indexed>>

\* Mutants: the request is taken and forgotten; the store is not scanned.
RebuildSkipped ==
  /\ scanner = "wait" /\ requested
  /\ requested' = FALSE
  /\ UNCHANGED <<store, bloom, scan, watch, cancelled, indexed>>

RebuildUnscanned ==
  /\ scanner = "wait" /\ requested
  /\ requested' = FALSE
  /\ IF NeedsRebuild THEN StartRebuild /\ scanner' = "insert"
                     ELSE UNCHANGED <<bloom, scanner>>
  /\ UNCHANGED <<store, found, watch, cancelled, indexed>>

\* A rebuild request is received; the threshold is looked at again.
Rebuild ==
  /\ scanner = "wait" /\ requested
  /\ requested' = FALSE
  /\ IF NeedsRebuild THEN StartRebuild /\ scanner' = "query"
                     ELSE UNCHANGED <<bloom, scanner>>
  /\ UNCHANGED <<store, found, watch, cancelled, indexed>>

\* Mutant: the sender's clone outlives the watcher.
NeverClosed == FALSE

\* The channel closes when its sender is gone; with --no-watch the sender
\* stays in main, which waits for the scanner.
ChannelClosed == Watching /\ watcher = "stopped" /\ ~requested

ScannerStops ==
  /\ scanner = "wait" /\ ChannelClosed
  /\ scanner' = "stopped"
  /\ UNCHANGED <<store, bloom, found, requested, watch, cancelled, indexed>>

-----------------------------------------------------------------------------
(* The watcher task.                                                       *)

WatchStarts ==
  /\ Watching /\ watcher = "starting"
  /\ watcher' = "idle"
  /\ UNCHANGED <<store, bloom, scan, requested, current, events, cancelled, indexed>>

\* process_create asks the database whether the path is serveable; a path
\* that is not, or not yet, is skipped.
CreateQuery ==
  /\ watcher = "idle" /\ events # <<>> /\ Head(events).kind = "create"
  /\ events' = Tail(events)
  /\ IF Head(events).path \in serveable
     THEN watcher' = "insert" /\ current' = Head(events).path
     ELSE UNCHANGED <<watcher, current>>
  /\ UNCHANGED <<store, bloom, scan, requested, cancelled, indexed>>

\* ... and inserts it after the answer.
CreateInsert ==
  /\ watcher = "insert"
  /\ Insert(current)
  /\ watcher' = "idle" /\ current' = NoPath
  /\ UNCHANGED <<store, scan, requested, events, cancelled>>

\* Mutant: a deletion takes an element away.
RemoveUncount ==
  /\ watcher = "idle" /\ events # <<>> /\ Head(events).kind = "remove"
  /\ events' = Tail(events)
  /\ elements' = elements - 1
  /\ watcher' = "check"
  /\ UNCHANGED <<store, filter, deletions, slot, old, scan, requested, current, cancelled, indexed>>

\* process_remove: count the deletion, ...
RemoveMark ==
  /\ watcher = "idle" /\ events # <<>> /\ Head(events).kind = "remove"
  /\ events' = Tail(events)
  /\ deletions' = deletions + 1
  /\ watcher' = "check"
  /\ UNCHANGED <<store, filter, elements, slot, old, scan, requested, current, cancelled, indexed>>

\* ... then request a rebuild if there are too many; try_send on a full
\* channel is a request already made.
RemoveCheck ==
  /\ watcher = "check"
  /\ requested' = (requested \/ NeedsRebuild)
  /\ watcher' = "idle"
  /\ UNCHANGED <<store, bloom, scan, current, events, cancelled, indexed>>

\* The token is looked at between events.
WatcherStops ==
  /\ cancelled /\ watcher = "idle"
  /\ watcher' = "stopped" /\ events' = <<>>
  /\ UNCHANGED <<store, bloom, scan, requested, current, cancelled, indexed>>

-----------------------------------------------------------------------------
(* The store, and the daemon's life.                                       *)

\* inotify tells a watcher that has started, unless its queue is full.
Notify(kind, p) ==
  IF watcher \in {"idle", "insert", "check"} /\ Len(events) < EventQueue
  THEN events' = Append(events, [kind |-> kind, path |-> p])
  ELSE UNCHANGED events

\* Nix puts a path into the store and registers it afterwards, or signs it
\* later still; the garbage collector goes the other way.
Bounded == elements + deletions + Len(events) < MaxCount

Appear(p) ==
  /\ Bounded
  /\ p \notin disk
  /\ disk' = disk \cup {p}
  /\ Notify("create", p)
  /\ UNCHANGED <<serveable, bloom, scan, requested, watcher, current, cancelled, indexed>>

Register(p) ==
  /\ p \in disk \ serveable
  /\ serveable' = serveable \cup {p}
  /\ UNCHANGED <<disk, bloom, scan, requested, watch, cancelled, indexed>>

Invalidate(p) ==
  /\ p \in serveable
  /\ serveable' = serveable \ {p}
  /\ indexed' = indexed \ {p}
  /\ UNCHANGED <<disk, bloom, scan, requested, watch, cancelled>>

Vanish(p) ==
  /\ Bounded
  /\ p \in disk \ serveable
  /\ disk' = disk \ {p}
  /\ Notify("remove", p)
  /\ UNCHANGED <<serveable, bloom, scan, requested, watcher, current, cancelled, indexed>>

Shutdown ==
  /\ ~cancelled
  /\ cancelled' = TRUE
  /\ UNCHANGED <<store, bloom, scan, requested, watch, indexed>>

\* Every start begins with empty filters and a scan.
Init ==
  /\ disk \in SUBSET Paths /\ serveable = disk
  /\ filter = {} /\ elements = 0 /\ deletions = 0 /\ slot = "none" /\ old = {}
  /\ scanner = "query" /\ found = {} /\ requested = FALSE
  /\ watcher = "starting" /\ current = NoPath /\ events = <<>>
  /\ cancelled = FALSE
  /\ indexed = {}

\* A crash, or a failed query of the scan, which takes the daemon down; or
\* the restart after it stopped.
Restart ==
  /\ filter' = {} /\ elements' = 0 /\ deletions' = 0 /\ slot' = "none" /\ old' = {}
  /\ scanner' = "query" /\ found' = {} /\ requested' = FALSE
  /\ watcher' = "starting" /\ current' = NoPath /\ events' = <<>>
  /\ cancelled' = FALSE
  /\ indexed' = {}
  /\ UNCHANGED store

Scanner == ScanQuery \/ ScanInsert \/ ScanDone \/ Rebuild \/ ScannerStops
Watcher == \/ WatchStarts \/ CreateQuery \/ CreateInsert
           \/ RemoveMark \/ RemoveCheck \/ WatcherStops
Store   == \E p \in Paths : Appear(p) \/ Register(p) \/ Invalidate(p) \/ Vanish(p)

Next == Scanner \/ Watcher \/ Store \/ Shutdown \/ Restart

Spec == Init /\ [][Next]_vars

\* Both tasks run, and a watcher that always has an event to read still
\* gets to see the token (select! picks among the ready branches at random).
Fairness == WF_vars(Scanner) /\ WF_vars(Watcher) /\ SF_vars(WatcherStops)

FairSpec == Spec /\ Fairness

-----------------------------------------------------------------------------
(* Properties.                                                             *)

\* A path that was indexed, and has been serveable ever since, is what peers
\* read, or it waits in the filter a scan is about to publish: neither the
\* swap of the filters nor an insertion during a rebuild ever loses one.
IndexedStaysFindable ==
  \A p \in indexed : p \in Visible \/ (scanner \in {"query", "insert"} /\ p \in filter)

\* A peer that could find it keeps finding it, across every rebuild.
NeverForgotten ==
  [][~Restart => \A p \in indexed \cap indexed' : p \in Visible => p \in Visible']_vars

\* What makes it so: everything indexed is in the filter being written or in
\* what the scan has still to insert, and peers only read an old filter while
\* a scan is under way.
Covered ==
  /\ scanner # "query" => indexed \subseteq filter \cup found
  /\ scanner \in {"wait", "stopped"} => slot = "shared" /\ found = {}

\* Nothing dies under the daemon, which is not told to stop either.
Running == <>[][~(Restart \/ Shutdown)]_vars /\ <>[](~cancelled)

\* A rebuild the watcher asked for is made, unless insertions made it
\* unnecessary.
RequestsAreServed == Running => (requested ~> ~requested /\ ~NeedsRebuild)

\* "Cancellation token for coordinated shutdown" (main): once it is
\* cancelled the watcher ends, and with it the scanner, which main waits for,
\* in the middle of whatever they were doing.
StopsWhenTold == cancelled ~> (scanner = "stopped" \/ ~cancelled)

\* The scanner answers both its channels: the rebuilds that were asked for and
\* the cancellation, whichever comes first (scanner::run, main).
ScannerKeepsUp == RequestsAreServed /\ StopsWhenTold

\* "Never gives a false negative (outside of bounded TTLs)": a path that is
\* serveable from some point on is found in the end.
EventuallyFindable ==
  Running => \A p \in Paths : <>[](p \in serveable) => <>(p \in Visible)

=============================================================================
