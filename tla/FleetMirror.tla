---------------------------- MODULE FleetMirror ----------------------------
(***************************************************************************)
(* ogygia-dashboard's copy of what every host reports in etcd: loaded once *)
(* at the start, kept up to date by a watch, and loaded again when the     *)
(* watch broke.  A key is one host's booted, current or next-boot system.  *)
(***************************************************************************)
EXTENDS Integers, Sequences

CONSTANTS
  Keys,       \* a host's name with one of its CommitStates
  Commits,    \* the commits hosts report
  None,       \* no value, or one that is no commit
  MaxSets,    \* bound: changes of etcd
  MaxLoads    \* bound: loads after the first

ASSUME MirrorAssumption ==
  /\ None \notin Commits
  /\ MaxSets \in Nat /\ MaxLoads \in Nat

VARIABLES
  etcd,             \* what the hosts put there
  events,           \* sent by etcd on the open watch, not yet handled
  conn,             \* the watcher task: "open", "watching", "pause"
  mirror, version,  \* HostStates
  sets, loads,    \* what the bounds count
  missed            \* history: keys whose last change no watch or load told

mirrorVars == <<etcd, events, conn, mirror, version, sets, loads, missed>>

Values == Commits \cup {None}
Event  == [key : Keys, value : Values]

MirrorTypeOK ==
  /\ etcd \in [Keys -> Values]
  /\ events \in Seq(Event)
  /\ conn \in {"open", "watching", "pause"}
  /\ mirror \in [Keys -> Values]
  /\ version \in 1 .. 1 + MaxSets + MaxLoads
  /\ sets \in 0..MaxSets
  /\ loads \in 0..MaxLoads
  /\ missed \in SUBSET Keys

-----------------------------------------------------------------------------
(* etcd: a host puts what it runs now, an operator deletes a key.          *)

Set(k, v) ==
  /\ sets < MaxSets /\ etcd[k] # v
  /\ sets' = sets + 1
  /\ etcd' = [etcd EXCEPT ![k] = v]
  /\ IF conn = "watching"
     THEN events' = Append(events, [key |-> k, value |-> v]) /\ missed' = missed \ {k}
     ELSE missed' = missed \cup {k} /\ UNCHANGED events
  /\ UNCHANGED <<conn, mirror, version, loads>>

-----------------------------------------------------------------------------
(* The watcher task.                                                       *)

\* A watch tells what changes from now on, not since the last load.
OpenWatch ==
  /\ conn = "open"
  /\ conn' = "watching"
  /\ UNCHANGED <<etcd, events, mirror, version, sets, loads, missed>>

\* Mutant: an event that deletes a key is only counted.
InstallPuts(e) ==
  IF e.value = None THEN mirror ELSE [mirror EXCEPT ![e.key] = e.value]

Install(e) == [mirror EXCEPT ![e.key] = e.value]

Deliver ==
  /\ conn = "watching" /\ events # <<>>
  /\ mirror' = Install(Head(events))
  /\ version' = version + 1
  /\ events' = Tail(events)
  /\ UNCHANGED <<etcd, conn, sets, loads, missed>>

\* The watch cannot be opened, or ends with what it had still to tell.
WatchEnds ==
  /\ conn \in {"open", "watching"}
  /\ conn' = "pause"
  /\ events' = <<>>
  /\ missed' = missed \cup {events[i].key : i \in DOMAIN events}
  /\ UNCHANGED <<etcd, mirror, version, sets, loads>>

\* Mutant: what was loaded does not count as a change.
LoadUncounted == mirror' = etcd /\ UNCHANGED version

\* load_all.
Load == mirror' = etcd /\ version' = version + 1

Reload ==
  /\ conn = "pause"
  /\ loads < MaxLoads /\ loads' = loads + 1
  /\ Load
  /\ missed' = {}
  /\ conn' = "open"
  /\ UNCHANGED <<etcd, events, sets>>

\* etcd cannot be reached again or does not answer: the watch is opened all
\* the same, on what was known before.
ReloadFails ==
  /\ conn = "pause"
  /\ conn' = "open"
  /\ UNCHANGED <<etcd, events, mirror, version, sets, loads, missed>>

\* Etcd::new returns once the first load is done.
MirrorInit ==
  /\ etcd \in [Keys -> Values]
  /\ events = <<>> /\ conn = "open"
  /\ mirror = etcd /\ version = 1
  /\ sets = 0 /\ loads = 0
  /\ missed = {}

Hosts   == \E k \in Keys, v \in Values : Set(k, v)
Watcher == OpenWatch \/ Deliver \/ Reload
Faults  == WatchEnds \/ ReloadFails

MirrorNext == Hosts \/ Watcher \/ Faults

-----------------------------------------------------------------------------
(* Properties.                                                             *)

\* The events still to come for k, by position.
Pending(k) == {i \in DOMAIN events : events[i].key = k}

\* Whatever broke and was loaded again in between, every key whose last change
\* the watch or a load told is what etcd holds, or the last of its pending
\* events makes it so.
MirrorTracks ==
  \A k \in Keys \ missed :
    /\ Pending(k) = {} => mirror[k] = etcd[k]
    /\ \A i \in Pending(k) :
         (\A j \in Pending(k) : j <= i) => events[i].value = etcd[k]

\* One version is one content: readers compare versions to find out whether
\* what they derived from the copy still holds.
VersionTellsChange == [][mirror' # mirror => version' > version]_mirrorVars
=============================================================================
