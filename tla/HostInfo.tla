------------------------------ MODULE HostInfo ------------------------------
(***************************************************************************)
(* ogygia-hostinfod: publishes the build revisions behind the host's three *)
(* system links in etcd, at the start and on every inotify event.          *)
(*                                                                         *)
(* The watching thread and the main task share a channel of signals.  A    *)
(* revision is read, then put: the link may switch in between, and a put   *)
(* may fail before or after etcd has applied it.                           *)
(***************************************************************************)
EXTENDS Naturals

CONSTANTS
  Revisions,
  NoRevision,      \* a system without a revision file; also a key nobody put
  MaxSignals,      \* capacity of the channel
  MaxEvents        \* bound: switches of a link, failures, restarts

ASSUME HostInfoAssumption ==
  NoRevision \notin Revisions /\ MaxSignals \in Nat \ {0} /\ MaxEvents \in Nat

\* SYSTEM_STATES in the order they are updated: current, booted, nextboot.
SystemStates == 1..3

KnownRevisions == Revisions \cup {NoRevision}

VARIABLES
  link,            \* the revision each link leads to
  etcd, cached,    \* what etcd holds, and what the daemon thinks it holds
  publisher, stateAt,     \* the main task, and the state it updates
  revision,        \* what read_revision gave it
  watcher,         \* the thread: "none", "reading", "sending"
  queued,          \* the kernel holds events for it
  signals,         \* in the channel
  excused,         \* states whose last change nobody was told of, or whose put failed
  hostEvents

publisherState == <<cached, publisher, stateAt, revision, watcher, queued, signals>>
hostInfoVars == <<link, etcd, publisherState, excused, hostEvents>>

HostInfoTypeOK ==
  /\ {link, etcd, cached} \subseteq [SystemStates -> KnownRevisions]
  /\ publisher \in {"down", "read", "put", "wait", "joining"}
  /\ stateAt \in SystemStates /\ revision \in KnownRevisions
  /\ watcher \in {"none", "reading", "sending"}
  /\ queued \in BOOLEAN /\ signals \in 0..MaxSignals
  /\ excused \subseteq SystemStates /\ hostEvents \in 0..MaxEvents

HostHappens == hostEvents < MaxEvents /\ hostEvents' = hostEvents + 1

-----------------------------------------------------------------------------
(* Switching systems, starting and dying.                                  *)

\* An activation, a boot entry or a rollback replaces a link. Until the
\* thread watches, and while nothing runs, nobody is told.
SwitchLink(s, r) ==
  /\ HostHappens /\ r # link[s]
  /\ link' = [link EXCEPT ![s] = r]
  /\ queued' = (watcher # "none")
  /\ excused' = IF watcher = "none" THEN excused \cup {s} ELSE excused
  /\ UNCHANGED <<etcd, cached, publisher, stateAt, revision, watcher, signals>>

\* systemd starts it; the cache starts empty, and the first update precedes
\* the watches.
StartPublishing ==
  /\ publisher = "down"
  /\ publisher' = "read" /\ stateAt' = 1 /\ cached' = [s \in SystemStates |-> NoRevision]
  /\ watcher' = "none" /\ queued' = FALSE /\ signals' = 0
  /\ UNCHANGED <<link, etcd, revision, excused, hostEvents>>

PublisherStopped == publisher' = "down" /\ watcher' = "none" /\ queued' = FALSE /\ signals' = 0

KillPublisher ==
  /\ publisher # "down" /\ HostHappens
  /\ PublisherStopped
  /\ UNCHANGED <<link, etcd, cached, stateAt, revision, excused>>

-----------------------------------------------------------------------------
(* update_all_states.                                                      *)

\* The update is over: the first one is followed by the watching thread.
UpdateOver == publisher' = "wait" /\ watcher' = IF watcher = "none" THEN "reading" ELSE watcher

NextState ==
  IF stateAt = 3 THEN UpdateOver /\ UNCHANGED stateAt
  ELSE publisher' = "read" /\ stateAt' = stateAt + 1 /\ UNCHANGED watcher

\* read_revision, and the cache: nothing to put for a system without a
\* revision, or with the one put last.
ReadRevision ==
  /\ publisher = "read"
  /\ revision' = link[stateAt]
  /\ IF link[stateAt] \in {NoRevision, cached[stateAt]}
     THEN /\ NextState
          /\ excused' = IF etcd[stateAt] = link[stateAt] THEN excused \ {stateAt} ELSE excused
     ELSE publisher' = "put" /\ UNCHANGED <<stateAt, watcher, excused>>
  /\ UNCHANGED <<link, etcd, cached, queued, signals, hostEvents>>

\* Mutant: the revision is cached before it is put.
CacheFirst ==
  /\ publisher = "put"
  /\ cached' = [cached EXCEPT ![stateAt] = revision]
  /\ etcd' \in {etcd, [etcd EXCEPT ![stateAt] = revision]}
  /\ excused' = IF etcd'[stateAt] = link[stateAt] THEN excused \ {stateAt} ELSE excused
  /\ NextState
  /\ UNCHANGED <<link, revision, queued, signals, hostEvents>>

\* update_etcd_key: etcd has the revision, then the cache.
Put ==
  /\ publisher = "put"
  /\ etcd' = [etcd EXCEPT ![stateAt] = revision]
  /\ cached' = [cached EXCEPT ![stateAt] = revision]
  /\ excused' = IF revision = link[stateAt] THEN excused \ {stateAt} ELSE excused
  /\ NextState
  /\ UNCHANGED <<link, revision, queued, signals, hostEvents>>

\* The put fails, applied or not, and the states after it are not looked at:
\* the first update ends the daemon, a later one waits for the next signal.
PutFails ==
  /\ publisher = "put" /\ HostHappens
  /\ etcd' \in {etcd, [etcd EXCEPT ![stateAt] = revision]}
  /\ excused' = excused \cup (stateAt..3)
  /\ IF watcher = "none" THEN PublisherStopped ELSE publisher' = "wait" /\ UNCHANGED <<watcher, queued, signals>>
  /\ UNCHANGED <<link, cached, stateAt, revision>>

-----------------------------------------------------------------------------
(* The channel, and the watching thread.                                   *)

ReceiveSignal ==
  /\ publisher = "wait" /\ signals > 0
  /\ signals' = signals - 1 /\ publisher' = "read" /\ stateAt' = 1
  /\ UNCHANGED <<link, etcd, cached, revision, watcher, queued, excused, hostEvents>>

\* One read takes all the events the kernel has; they are worth one signal.
ReadEvents ==
  /\ watcher = "reading" /\ queued
  /\ queued' = FALSE /\ watcher' = "sending"
  /\ UNCHANGED <<link, etcd, cached, publisher, stateAt, revision, signals, excused, hostEvents>>

\* Mutant: nobody who is not waiting hears the signal.
DropSignal ==
  /\ watcher = "sending"
  /\ signals' = IF publisher = "wait" THEN 1 ELSE signals
  /\ watcher' = "reading"
  /\ UNCHANGED <<link, etcd, cached, publisher, stateAt, revision, queued, excused, hostEvents>>

\* Mutant: the channel has room for everything.
SendOverfull ==
  /\ watcher = "sending"
  /\ signals' = signals + 1 /\ watcher' = "reading"
  /\ UNCHANGED <<link, etcd, cached, publisher, stateAt, revision, queued, excused, hostEvents>>

\* blocking_send waits for room, and ends the thread when the daemon is.
SendSignal ==
  /\ watcher = "sending"
  /\ IF publisher = "joining"
     THEN watcher' = "none" /\ UNCHANGED signals
     ELSE signals < MaxSignals /\ signals' = signals + 1 /\ watcher' = "reading"
  /\ UNCHANGED <<link, etcd, cached, publisher, stateAt, revision, queued, excused, hostEvents>>

\* ctrl_c: the receiver is dropped, and the thread joined.
InterruptPublisher ==
  /\ publisher = "wait" /\ HostHappens
  /\ publisher' = "joining"
  /\ UNCHANGED <<link, etcd, cached, stateAt, revision, watcher, queued, signals, excused>>

\* The thread was seen to end.
Joined ==
  /\ publisher = "joining" /\ watcher = "none"
  /\ PublisherStopped
  /\ UNCHANGED <<link, etcd, cached, stateAt, revision, excused, hostEvents>>

HostInfoInit ==
  /\ link \in [SystemStates -> Revisions]
  /\ etcd = [s \in SystemStates |-> NoRevision] /\ cached = etcd
  /\ publisher = "down" /\ stateAt = 1 /\ revision = NoRevision
  /\ watcher = "none" /\ queued = FALSE /\ signals = 0
  /\ excused = {} /\ hostEvents = 0

UpdatingStep == StartPublishing \/ ReadRevision \/ Put \/ ReceiveSignal \/ Joined

WatchingStep == ReadEvents \/ SendSignal

HostInfoNext ==
  \/ UpdatingStep \/ WatchingStep \/ PutFails \/ InterruptPublisher \/ KillPublisher
  \/ \E s \in SystemStates, r \in KnownRevisions : SwitchLink(s, r)

HostInfoSpec == HostInfoInit /\ [][HostInfoNext]_hostInfoVars

-----------------------------------------------------------------------------
(* Properties.                                                             *)

\* The cache never hides a change: what it says was published is what etcd
\* has, for every state whose puts were answered.
CacheIsPublished ==
  \A s \in SystemStates : cached[s] # NoRevision /\ publisher # "down" => cached[s] = etcd[s] \/ s \in excused

\* While the daemon runs uninterrupted, etcd comes to have the revision of
\* every link that has one; but for the switches before the watches were set,
\* and the puts that failed, which wait for an event that may not come.
PublishesLinks ==
  <>[](\A s \in SystemStates : link[s] \in {NoRevision, etcd[s]} \/ s \in excused \/ publisher \in {"down", "joining"})

\* The cache that saves puts never costs one: it tells what etcd has, and etcd
\* comes to have what the links say.
EtcdFollowsLinks ==
  [](HostInfoTypeOK /\ CacheIsPublished) /\ PublishesLinks
=============================================================================
