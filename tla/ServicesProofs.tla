--------------------------- MODULE ServicesProofs ---------------------------
(***************************************************************************)
(* The safety of the services for every value of their constants: what the *)
(* Mac's daemon gives Nebula hangs together, the secret of a host survives *)
(* the runs that rebind it, and the publisher's cache hides no change from *)
(* etcd; a download is one file and no peer is passed over, the archive    *)
(* loses nothing, and no expired certificate is passed over in silence.    *)
(***************************************************************************)
EXTENDS NebulaDaemon, Clevis, HostInfo, NarProxy, Archive, CertAlerts,
        FiniteSetTheorems, TLAPS

-----------------------------------------------------------------------------
(* NebulaDaemon: any configurations, keys, settings and disturbances.      *)

\* What an interrupted generation leaves: a key without its public half, which
\* the next start throws away, and never the half of another key.
Halves ==
  /\ daemon = "keygen" => hostPub = NoFile
  /\ hostPub # NoFile => hostPub = hostKey

\* The count of disturbances is apart: nothing else depends on it.
NebulaIInv == NebulaTyped /\ KeyPairs /\ NebulaInSync /\ Halves

-----------------------------------------------------------------------------
(* Starting and stopping: with both halves on disk, or with neither, what   *)
(* starts is the same.                                                      *)

LEMMA StartKeeps == NebulaIInv /\ StartStep => NebulaIInv'
<1> SUFFICES ASSUME NebulaIInv, StartStep
             PROVE  NebulaIInv'
  OBVIOUS
<1> USE DEF NebulaIInv, NebulaTyped, KeyPairs, NebulaInSync, Halves, outside, status, updating, running
<1>1. CASE EnsureKey
  <2>1. NebulaTyped'
    BY <1>1 DEF EnsureKey, Begin
  <2>2. KeyPairs' /\ Halves'
    BY <1>1 DEF EnsureKey, Begin
  <2>3. NebulaInSync'
    BY <1>1 DEF EnsureKey, Begin
  <2> QED BY <2>1, <2>2, <2>3
<1>2. CASE KeygenKey
  BY <1>2 DEF KeygenKey
<1>3. CASE KeygenPub
  BY <1>3 DEF KeygenPub, Begin
<1>4. CASE DaemonExit
  BY <1>4 DEF DaemonExit, files
<1> QED BY <1>1, <1>2, <1>3, <1>4 DEF StartStep

-----------------------------------------------------------------------------
(* The update loop: a config that was written is announced, or its          *)
(* certificate was not written.                                             *)

\* What set_config leaves behind, up to its first await.
LEMMA SetConfigTyped ==
  ASSUME NEW config \in Configs \cup {NoFile}, NebulaTyped, SetConfig(config)
  PROVE  /\ configFile' \in Configs \cup {NoFile}
         /\ updateAt' \in {"cert", "info", "finish"}
         /\ updateError' \in {"none", "settings", "nix", "write"}
         /\ certFailed' \in BOOLEAN
<1>1. configFile' \in Configs \cup {NoFile} /\ updateAt' \in {"cert", "info", "finish"}
  BY DEF SetConfig, NebulaTyped
<1>2. updateError' \in {"none", "settings", "nix", "write"}
  BY DEF SetConfig, NebulaTyped
<1>3. certFailed' \in BOOLEAN
  BY Zenon DEF SetConfig, NebulaTyped
<1> QED BY <1>1, <1>2, <1>3

LEMMA UpdateKeeps == NebulaIInv /\ (UpdateStep \/ EvaluateFails) => NebulaIInv'
<1> SUFFICES ASSUME NebulaIInv, UpdateStep \/ EvaluateFails
             PROVE  NebulaIInv'
  OBVIOUS
<1> USE DEF NebulaIInv, NebulaTyped, KeyPairs, NebulaInSync, Halves, Updating, outside, status, running
<1>1. CASE Load
  <2>1. NebulaTyped'
    <3>1. CASE Installable(followed) = "none" /\ target' = NoFile /\ SetConfig(NoFile)
      BY <1>1, <3>1, SetConfigTyped DEF Load
    <3>2. CASE Installable(followed) = "invalid" /\ updateError' = "settings" /\ updateAt' = "wait"
               /\ UNCHANGED <<target, configFile, certFailed, disturbed>>
      BY <1>1, <3>2 DEF Load
    <3>3. CASE /\ Installable(followed) \in Installables
               /\ updateAt' = "evaluate" /\ target' = published[Installable(followed)]
               /\ UNCHANGED <<updateError, configFile, certFailed, disturbed>>
      BY <1>1, <3>3 DEF Load
    <3> QED BY <1>1, <3>1, <3>2, <3>3 DEF Load
  <2>2. KeyPairs' /\ Halves'
    BY <1>1 DEF Load, SetConfig, Installables
  <2>3. NebulaInSync'
    BY <1>1 DEF Load, SetConfig, Installables
  <2> QED BY <2>1, <2>2, <2>3
<1>2. CASE Evaluate
  <2>1. NebulaTyped'
    BY <1>2, SetConfigTyped DEF Evaluate
  <2>2. KeyPairs' /\ Halves'
    BY <1>2 DEF Evaluate, SetConfig
  <2>3. NebulaInSync'
    BY <1>2 DEF Evaluate, SetConfig
  <2> QED BY <2>1, <2>2, <2>3
<1>3. CASE WriteCert
  BY <1>3 DEF WriteCert
<1>4. CASE Announce
  BY <1>4 DEF Announce, TellSupervisor, files
<1>5. CASE FinishUpdate
  BY <1>5 DEF FinishUpdate, files
<1>6. CASE NextUpdate
  BY <1>6 DEF NextUpdate, files
<1>7. CASE EvaluateFails
  BY <1>7 DEF EvaluateFails, files
<1> QED BY <1>1, <1>2, <1>3, <1>4, <1>5, <1>6, <1>7 DEF UpdateStep

-----------------------------------------------------------------------------
(* The supervisor, the process and the outside.                            *)

LEMMA SupervisorKeeps ==
  NebulaIInv /\ (SupervisorStep \/ ChildReads \/ ChildExits) => NebulaIInv'
<1> SUFFICES ASSUME NebulaIInv, SupervisorStep \/ ChildReads \/ ChildExits
             PROVE  NebulaIInv'
  OBVIOUS
<1> USE DEF NebulaIInv, NebulaTyped, KeyPairs, NebulaInSync, Halves, outside, files, status, updating
<1>1. CASE Supervise
  BY <1>1 DEF Supervise, Top
<1>2. CASE StopChild
  BY <1>2 DEF StopChild
<1>3. CASE ChildStopped
  BY <1>3 DEF ChildStopped, Top
<1>4. CASE ChildReads
  BY <1>4 DEF ChildReads
<1>5. CASE ChildExits
  BY <1>5 DEF ChildExits
<1> QED BY <1>1, <1>2, <1>3, <1>4, <1>5 DEF SupervisorStep

\* A kill, a signal, settings written by the socket or around it, a commit.
OutsideStep ==
  \/ Die \/ Stop
  \/ \E settings \in Stored : SetSettings(settings) \/ DefaultsWrite(settings)
  \/ \E f \in Installables, config \in Configs : Publish(f, config)

LEMMA OutsideKeeps == NebulaIInv /\ OutsideStep => NebulaIInv'
<1> SUFFICES ASSUME NebulaIInv, OutsideStep
             PROVE  NebulaIInv'
  OBVIOUS
<1> USE DEF NebulaIInv, NebulaTyped, KeyPairs, NebulaInSync, Halves, files, status, updating, running
<1>1. CASE Die
  BY <1>1 DEF Die, outside
<1>2. CASE Stop
  BY <1>2 DEF Stop, outside
<1>3. ASSUME NEW settings \in Stored, SetSettings(settings) \/ DefaultsWrite(settings)
      PROVE  NebulaIInv'
  BY <1>3 DEF SetSettings, DefaultsWrite
<1>4. ASSUME NEW f \in Installables, NEW config \in Configs, Publish(f, config)
      PROVE  NebulaIInv'
  BY <1>4 DEF Publish
<1> QED BY <1>1, <1>2, <1>3, <1>4 DEF OutsideStep

-----------------------------------------------------------------------------
(* Together.                                                               *)

LEMMA NebulaInductive == NebulaIInv /\ [NebulaNext]_nebulaVars => NebulaIInv'
<1> SUFFICES ASSUME NebulaIInv, [NebulaNext]_nebulaVars
             PROVE  NebulaIInv'
  OBVIOUS
<1>1. CASE NebulaNext
  BY <1>1, StartKeeps, UpdateKeeps, SupervisorKeeps, OutsideKeeps DEF NebulaNext, OutsideStep
<1>2. CASE UNCHANGED nebulaVars
  BY <1>2 DEF nebulaVars, outside, files, status, updating, running,
              NebulaIInv, NebulaTyped, KeyPairs, NebulaInSync, Halves
<1> QED BY <1>1, <1>2

Counted == disturbed \in 0..MaxDisturbances

\* A step counts one disturbance at most, and none past the bound.
LEMMA DisturbancesBounded ==
  Counted /\ [NebulaNext]_nebulaVars
  => Counted'
<1> SUFFICES ASSUME Counted, [NebulaNext]_nebulaVars
             PROVE  Counted'
  OBVIOUS
<1>1. CASE Disturb
  BY <1>1, NebulaAssumption DEF Counted, Disturb
<1>2. CASE ~Disturb
  <2>1. UNCHANGED disturbed
    BY <1>2 DEF NebulaNext, nebulaVars, StartStep, UpdateStep, SupervisorStep, EnsureKey, KeygenKey,
       KeygenPub, DaemonExit, Load, Evaluate, SetConfig, WriteCert, Announce, FinishUpdate, NextUpdate,
       EvaluateFails, Supervise, Top, StopChild, ChildStopped, ChildReads, ChildExits, Die, Stop,
       SetSettings, DefaultsWrite, Publish
  <2> QED BY <2>1 DEF Counted
<1> QED BY <1>1, <1>2

\* daemon.rs and supervisor.rs side by side: the key the app shows is the key
\* Nebula uses, and Nebula runs the config on disk unless the certificate of it
\* could not be written, whatever is killed, fails or is changed meanwhile.
THEOREM NebulaHangsTogether == NebulaSpec => []NebulaInv
<1>1. NebulaInit => NebulaIInv
  BY DEF NebulaInit, NebulaIInv, NebulaTyped, KeyPairs, NebulaInSync, Halves
<1>2. NebulaInit => Counted
  BY NebulaAssumption DEF NebulaInit, Counted
<1>3. NebulaIInv /\ Counted => NebulaInv
  BY DEF NebulaIInv, NebulaInv, NebulaTypeOK, Counted
<1> QED BY <1>1, <1>2, <1>3, NebulaInductive, DisturbancesBounded, PTL DEF NebulaSpec

-----------------------------------------------------------------------------
(* Clevis: any servers, keys and specs.                                    *)

\* Its pins at servers that answer for them are enough to open the blob.
Openable(b, kept) == Cardinality(b.pins \cap kept) >= b.t

Blob(b) == b.t \in 1..Cardinality(Servers) /\ b.pins \subseteq Pins

\* What the run holds is bound to keys that no purge takes away.
ClevisIInv ==
  /\ isUp \subseteq Servers
  /\ currentKey \in [Servers -> 1..MaxKey] /\ keptKeys \subseteq Pins
  /\ deployed \in Specs /\ spec \in Specs
  /\ Blob(blob) /\ Blob(readBlob) /\ Blob(candidate) /\ \A b \in durable : Blob(b)
  /\ runAt \in {"idle", "probe", "decide", "encrypt", "verify", "persist", "sync"}
  /\ reachable \subseteq Pins
  /\ Openable(blob, keptKeys) /\ \A b \in durable : Openable(b, keptKeys)
  /\ runAt = "persist" => Openable(candidate, keptKeys)

LEMMA PinsFinite == IsFiniteSet(Pins)
<1>1. IsFiniteSet(1..MaxKey)
  BY ClevisAssumption, FS_Interval
<1>. QED BY <1>1, ClevisAssumption, FS_Product DEF Pins

\* More keys never make a blob harder to open, and the ones a blob is not bound
\* to do not matter.
LEMMA MoreKeysOpen ==
  ASSUME NEW b, Blob(b), NEW kept, NEW more, Openable(b, kept), b.pins \cap kept \subseteq more
  PROVE  Openable(b, more)
<1>1. IsFiniteSet(b.pins \cap kept) /\ IsFiniteSet(b.pins \cap more)
  BY PinsFinite, FS_Subset DEF Blob
<1>2. Cardinality(b.pins \cap kept) <= Cardinality(b.pins \cap more)
  <2>1. b.pins \cap kept \in SUBSET (b.pins \cap more)
    OBVIOUS
  <2>. QED BY <1>1, <2>1, FS_Subset
<1>3. /\ Cardinality(b.pins \cap kept) \in Nat /\ Cardinality(b.pins \cap more) \in Nat
      /\ b.t \in Nat
  BY <1>1, FS_CardinalityType, ClevisAssumption DEF Blob
<1>. QED BY <1>2, <1>3 DEF Openable

\* A blob that was just decrypted is bound to enough of the keys there are.
LEMMA OpensIsOpenable ==
  ASSUME NEW b, Blob(b), Opens(b)
  PROVE  Openable(b, keptKeys)
<1>. DEFINE now == {pin \in b.pins : pin[1] \in isUp /\ pin \in keptKeys}
<1>1. IsFiniteSet(b.pins \cap keptKeys) /\ now \in SUBSET (b.pins \cap keptKeys)
  BY PinsFinite, FS_Subset DEF Blob
<1>2. Cardinality(now) <= Cardinality(b.pins \cap keptKeys) /\ IsFiniteSet(now)
  BY <1>1, FS_Subset
<1>3. /\ Cardinality(now) \in Nat /\ Cardinality(b.pins \cap keptKeys) \in Nat
      /\ b.t \in Nat
  BY <1>1, <1>2, FS_CardinalityType, ClevisAssumption DEF Blob
<1>4. Cardinality(now) >= b.t
  BY DEF Opens
<1>. HIDE DEF now
<1>. QED BY <1>2, <1>3, <1>4 DEF Openable

\* A run, from reading the blob to the directory on disk.
LEMMA RunKeeps == ClevisIInv /\ (RunStep \/ RunFails) => ClevisIInv'
<1> SUFFICES ASSUME ClevisIInv, RunStep \/ RunFails
             PROVE  ClevisIInv'
  OBVIOUS
<1> USE DEF ClevisIInv, tang, runState
<1>1. CASE BeginRun
  BY <1>1 DEF BeginRun, Blob
<1>2. CASE ProbeServers
  BY <1>2 DEF ProbeServers, Specs, Blob
<1>3. CASE Decide
  BY <1>3 DEF Decide, Blob
<1>4. CASE Encrypt
  <2>1. Blob(candidate')
    BY <1>4 DEF Encrypt, Blob, Specs
  <2> QED BY <1>4, <2>1 DEF Encrypt, Blob
<1>5. CASE Verify
  <2>1. runAt' = "persist" => Openable(candidate, keptKeys)
    BY <1>5, OpensIsOpenable DEF Verify
  <2> QED BY <1>5, <2>1 DEF Verify, Blob
<1>6. CASE Persist
  BY <1>6 DEF Persist, Blob
<1>7. CASE SyncDir
  BY <1>7 DEF SyncDir, Blob
<1>8. CASE RunFails
  BY <1>8 DEF RunFails, Blob
<1> QED BY <1>1, <1>2, <1>3, <1>4, <1>5, <1>6, <1>7, <1>8 DEF RunStep

\* The keys change: what any blob is bound to stays answered for.
LEMMA KeysKeep ==
  ASSUME ClevisIInv, NEW server \in Servers, Rotate(server) \/ Purge(server)
  PROVE  ClevisIInv'
<1>1. /\ UNCHANGED <<isUp, deployed, blob, durable, runState>>
      /\ currentKey' \in [Servers -> 1..MaxKey] /\ keptKeys' \subseteq Pins
  <2>1. CASE Rotate(server)
    <3>1. currentKey[server] + 1 \in 1..MaxKey
      BY <2>1, ClevisAssumption DEF Rotate, ClevisIInv
    <3> QED BY <2>1, <3>1 DEF Rotate, ClevisIInv, Pins
  <2>2. CASE Purge(server)
    BY <2>2 DEF Purge, ClevisIInv
  <2> QED BY <2>1, <2>2
<1>2. \A b \in {blob, candidate} \cup durable : b.pins \cap keptKeys \subseteq keptKeys'
  <2>1. CASE Rotate(server)
    BY <2>1 DEF Rotate
  <2>2. CASE Purge(server)
    BY <2>2 DEF Purge
  <2> QED BY <2>1, <2>2
<1>3. \A b \in {blob} \cup durable : Openable(b, keptKeys')
  BY <1>2, MoreKeysOpen DEF ClevisIInv
<1>4. runAt = "persist" => Openable(candidate, keptKeys')
  BY <1>2, MoreKeysOpen DEF ClevisIInv
<1> QED BY <1>1, <1>3, <1>4 DEF ClevisIInv, runState, Blob

LEMMA WorldKeeps ==
  ClevisIInv /\ (PowerLoss \/ (\E s \in Deployable : Deploy(s)) \/ \E server \in Servers : Toggle(server))
  => ClevisIInv'
<1> USE DEF ClevisIInv, tang, runState, Blob
<1>1. ClevisIInv /\ PowerLoss => ClevisIInv'
  BY DEF PowerLoss
<1>2. ASSUME ClevisIInv, NEW s \in Deployable, Deploy(s) PROVE ClevisIInv'
  BY <1>2 DEF Deploy, Deployable
<1>3. ASSUME ClevisIInv, NEW server \in Servers, Toggle(server) PROVE ClevisIInv'
  BY <1>3 DEF Toggle
<1> QED BY <1>1, <1>2, <1>3

LEMMA ClevisStarts == ClevisInit => ClevisIInv
<1> SUFFICES ASSUME ClevisInit PROVE ClevisIInv
  OBVIOUS
<1>1. FirstKeys \subseteq Pins /\ 1 \in 1..MaxKey
  BY ClevisAssumption DEF FirstKeys, Pins
<1>2. Cardinality(FirstKeys) = Cardinality(Servers) /\ Cardinality(Servers) \in Nat
  <2>1. IsFiniteSet({1}) /\ Cardinality({1}) = 1 /\ Cardinality(Servers) \in Nat
    BY FS_Singleton, FS_CardinalityType, ClevisAssumption
  <2>2. Cardinality(FirstKeys) = Cardinality(Servers) * Cardinality({1})
    BY <2>1, FS_Product, ClevisAssumption DEF FirstKeys
  <2> QED BY <2>1, <2>2
<1>3. deployed \in Specs
  BY <1>1, <1>2 DEF ClevisInit, Specs
<1>4. Blob(blob) /\ Openable(blob, keptKeys)
  <2>1. PICK t \in 1..2, keys \in SUBSET FirstKeys : t <= Cardinality(keys) /\ blob = [t |-> t, pins |-> keys]
    BY DEF ClevisInit
  <2>2. t \in 1..Cardinality(Servers)
    BY <1>2, <2>1, ClevisAssumption
  <2>3. blob.pins \cap keptKeys = keys /\ blob.t = t
    BY <2>1 DEF ClevisInit
  <2>4. IsFiniteSet(keys) /\ Cardinality(keys) \in Nat
    BY <1>1, PinsFinite, FS_Subset, FS_CardinalityType
  <2> QED BY <1>1, <2>1, <2>2, <2>3, <2>4 DEF Blob, Openable
<1>5. /\ isUp \subseteq Servers /\ currentKey \in [Servers -> 1..MaxKey] /\ keptKeys \subseteq Pins
      /\ spec = deployed /\ readBlob = blob /\ candidate = blob /\ durable = {blob}
      /\ runAt = "idle" /\ reachable = {}
  BY <1>1 DEF ClevisInit
<1> QED BY <1>3, <1>4, <1>5 DEF ClevisIInv

LEMMA ClevisInductive == ClevisIInv /\ [ClevisNext]_clevisVars => ClevisIInv'
<1> SUFFICES ASSUME ClevisIInv, [ClevisNext]_clevisVars
             PROVE  ClevisIInv'
  OBVIOUS
<1>1. CASE ClevisNext
  BY <1>1, RunKeeps, KeysKeep, WorldKeeps DEF ClevisNext
<1>2. CASE UNCHANGED clevisVars
  BY <1>2 DEF clevisVars, tang, runState, ClevisIInv, Blob
<1> QED BY <1>1, <1>2

Bounded == outsideSteps \in 0..MaxOutside

LEMMA OutsideBounded == Bounded /\ [ClevisNext]_clevisVars => Bounded'
<1> SUFFICES ASSUME Bounded, [ClevisNext]_clevisVars
             PROVE  Bounded'
  OBVIOUS
<1>1. CASE Outside
  BY <1>1, ClevisAssumption DEF Bounded, Outside
<1>2. CASE ~Outside
  <2>1. UNCHANGED outsideSteps
    BY <1>2 DEF ClevisNext, clevisVars, RunStep, BeginRun, ProbeServers, Decide, Encrypt, Verify, Persist,
       SyncDir, RunFails, PowerLoss, Deploy, Toggle, Rotate, Purge
  <2> QED BY <2>1 DEF Bounded
<1> QED BY <1>1, <1>2

\* swap::replace and decision.rs: the secret file, and what a power loss may
\* leave in its place, opens once the servers run, for any number of servers,
\* rotations, purges and interrupted runs.
THEOREM SecretSurvives == ClevisSpec => []ClevisInv
<1>1. ClevisInit => Bounded
  BY ClevisAssumption DEF ClevisInit, Bounded
<1>2. ClevisIInv /\ Bounded => ClevisInv
  BY DEF ClevisIInv, Bounded, ClevisInv, ClevisTypeOK, NeverLocksOut, Blob, Openable
<1> QED BY <1>1, <1>2, ClevisStarts, ClevisInductive, OutsideBounded, PTL DEF ClevisSpec

-----------------------------------------------------------------------------
(* A trade covers more.                                                    *)

\* What a run that is past its decision holds.
Decided ==
  /\ runAt # "sync" => durable = {blob}
  /\ runAt \in {"probe", "decide", "encrypt", "verify", "persist"} => readBlob = blob
  /\ runAt \in {"encrypt", "verify", "persist"} =>
       Cardinality(reachable) > Cardinality(reachable \cap readBlob.pins)
  /\ runAt \in {"verify", "persist"} => candidate.pins = reachable

LEMMA DecidedInductive == Decided /\ [ClevisNext]_clevisVars => Decided'
<1> SUFFICES ASSUME Decided, [ClevisNext]_clevisVars
             PROVE  Decided'
  OBVIOUS
<1> USE DEF Decided, tang, runState
<1>1. CASE BeginRun \/ ProbeServers
  BY <1>1 DEF BeginRun, ProbeServers
<1>2. CASE Decide
  BY <1>2 DEF Decide, Improves, Previously
<1>3. CASE Encrypt
  <2>1. candidate'.pins = reachable
    BY <1>3 DEF Encrypt
  <2> QED BY <1>3, <2>1 DEF Encrypt
<1>9. CASE Verify
  BY <1>9 DEF Verify
<1>4. CASE Persist \/ SyncDir \/ RunFails
  BY <1>4 DEF Persist, SyncDir, RunFails
<1>5. CASE PowerLoss
  BY <1>5 DEF PowerLoss
<1>6. ASSUME NEW s \in Deployable, Deploy(s) PROVE Decided'
  BY <1>6 DEF Deploy
<1>7. ASSUME NEW server \in Servers, Toggle(server) \/ Rotate(server) \/ Purge(server) PROVE Decided'
  BY <1>7 DEF Toggle, Rotate, Purge
<1>8. CASE UNCHANGED clevisVars
  BY <1>8 DEF clevisVars
<1> QED BY <1>1, <1>2, <1>3, <1>4, <1>5, <1>6, <1>7, <1>8, <1>9 DEF ClevisNext, RunStep

\* decision::decide: a blob is only traded for one that covers strictly more of
\* the servers the run could reach, with any thresholds and any rotations.
THEOREM TradesCoverMore == ClevisSpec => [][TradesUp]_clevisVars
<1>1. ClevisInit => Decided
  BY DEF ClevisInit, Decided
<1>2. Decided /\ [ClevisNext]_clevisVars => [TradesUp]_clevisVars
  <2> SUFFICES ASSUME Decided, [ClevisNext]_clevisVars, blob' # blob, runAt = "persist"
               PROVE  Cardinality(blob'.pins \cap reachable) > Cardinality(blob.pins \cap reachable)
    BY DEF TradesUp
  <2>1. blob' = candidate
    BY DEF Decided, ClevisNext, clevisVars, RunStep, BeginRun, ProbeServers, Decide, Encrypt, Verify, Persist,
       SyncDir, RunFails, PowerLoss, Deploy, Toggle, Rotate, Purge, runState
  <2>2. blob'.pins \cap reachable = reachable /\ blob.pins \cap reachable = reachable \cap readBlob.pins
    BY <2>1 DEF Decided
  <2> QED BY <2>2 DEF Decided
<1> QED BY <1>1, <1>2, DecidedInductive, PTL DEF ClevisSpec

-----------------------------------------------------------------------------
(* HostInfo: any revisions, capacity and events.                           *)

\* Only revisions are put, and what etcd has been given it keeps.
CacheIInv ==
  /\ {link, etcd, cached} \subseteq [SystemStates -> KnownRevisions]
  /\ publisher \in {"down", "read", "put", "wait", "joining"}
  /\ stateAt \in SystemStates /\ revision \in KnownRevisions
  /\ watcher \in {"none", "reading", "sending"}
  /\ excused \subseteq SystemStates
  /\ publisher = "put" => revision # NoRevision
  /\ \A s \in SystemStates : publisher # "down" /\ cached[s] # NoRevision => etcd[s] # NoRevision
  /\ CacheIsPublished

\* The count of signals and of what happens outside, and the flag of the
\* kernel's queue.
SignalsIInv == signals \in 0..MaxSignals
EventsIInv == hostEvents \in 0..MaxEvents
QueuedIInv == queued \in BOOLEAN

LEMMA UpdateKeepsCache ==
  CacheIInv /\ (StartPublishing \/ ReadRevision \/ Put \/ PutFails) => CacheIInv'
<1> SUFFICES ASSUME CacheIInv, StartPublishing \/ ReadRevision \/ Put \/ PutFails
             PROVE  CacheIInv'
  OBVIOUS
<1> USE DEF CacheIInv, CacheIsPublished, SystemStates, KnownRevisions
<1>0. NextState => /\ publisher' \in {"read", "wait"} /\ stateAt' \in SystemStates
                   /\ watcher' \in {"none", "reading", "sending"}
  BY DEF NextState, UpdateOver
<1>1. CASE StartPublishing
  BY <1>1 DEF StartPublishing
<1>2. CASE ReadRevision
  <2>1. CASE link[stateAt] \in {NoRevision, cached[stateAt]}
    BY <1>0, <1>2, <2>1 DEF ReadRevision
  <2>2. CASE link[stateAt] \notin {NoRevision, cached[stateAt]}
    BY <1>2, <2>2 DEF ReadRevision
  <2> QED BY <2>1, <2>2
<1>3. CASE Put
  BY <1>0, <1>3 DEF Put
<1>4. CASE PutFails
  <2>1. etcd' \in [SystemStates -> KnownRevisions] /\ stateAt \in stateAt..3
        /\ \A s \in SystemStates : (s # stateAt => etcd'[s] = etcd[s]) /\ (etcd[s] # NoRevision => etcd'[s] # NoRevision)
    BY <1>4 DEF PutFails
  <2>2. /\ publisher' \in {"down", "wait"} /\ watcher' \in {"none", "reading", "sending"}
        /\ excused \subseteq excused' /\ excused' \subseteq SystemStates /\ stateAt \in excused'
        /\ UNCHANGED <<link, cached, stateAt, revision>>
    BY <1>4, <2>1 DEF PutFails, PublisherStopped
  <2>3. publisher # "down"
    BY <1>4 DEF PutFails
  <2> QED BY <2>1, <2>2, <2>3
<1> QED BY <1>1, <1>2, <1>3, <1>4

LEMMA CacheInductive == CacheIInv /\ [HostInfoNext]_hostInfoVars => CacheIInv'
<1> SUFFICES ASSUME CacheIInv, [HostInfoNext]_hostInfoVars
             PROVE  CacheIInv'
  OBVIOUS
<1> USE DEF CacheIInv, CacheIsPublished
<1>1. CASE StartPublishing \/ ReadRevision \/ Put \/ PutFails
  BY <1>1, UpdateKeepsCache
<1>2. CASE ReceiveSignal
  BY <1>2 DEF ReceiveSignal, SystemStates
<1>3. CASE InterruptPublisher
  BY <1>3 DEF InterruptPublisher
<1>4. CASE Joined \/ KillPublisher
  BY <1>4 DEF Joined, KillPublisher, PublisherStopped
<1>5. CASE ReadEvents
  BY <1>5 DEF ReadEvents
<1>6. CASE SendSignal
  BY <1>6 DEF SendSignal
<1>7. ASSUME NEW s \in SystemStates, NEW r \in KnownRevisions, SwitchLink(s, r) PROVE CacheIInv'
  BY <1>7 DEF SwitchLink
<1>8. CASE UNCHANGED hostInfoVars
  BY <1>8 DEF hostInfoVars, publisherState
<1> QED BY <1>1, <1>2, <1>3, <1>4, <1>5, <1>6, <1>7, <1>8 DEF HostInfoNext, UpdatingStep, WatchingStep

\* The channel never holds more than its capacity.
LEMMA SignalsInductive == SignalsIInv /\ [HostInfoNext]_hostInfoVars => SignalsIInv'
BY HostInfoAssumption
DEF SignalsIInv, HostInfoNext, hostInfoVars, publisherState, UpdatingStep, WatchingStep, StartPublishing,
    ReadRevision, Put, PutFails, ReceiveSignal, InterruptPublisher, Joined, KillPublisher,
    PublisherStopped, ReadEvents, SendSignal, SwitchLink

LEMMA EventsInductive == EventsIInv /\ [HostInfoNext]_hostInfoVars => EventsIInv'
BY HostInfoAssumption
DEF EventsIInv, HostHappens, HostInfoNext, hostInfoVars, publisherState, UpdatingStep, WatchingStep,
    StartPublishing, ReadRevision, Put, PutFails, ReceiveSignal, InterruptPublisher, Joined, KillPublisher,
    ReadEvents, SendSignal, SwitchLink

LEMMA QueuedInductive == QueuedIInv /\ [HostInfoNext]_hostInfoVars => QueuedIInv'
BY Zenon
DEF QueuedIInv, HostInfoNext, hostInfoVars, publisherState, UpdatingStep, WatchingStep, StartPublishing,
    ReadRevision, Put, PutFails, ReceiveSignal, InterruptPublisher, Joined, KillPublisher,
    PublisherStopped, ReadEvents, SendSignal, SwitchLink

\* update_etcd_key: the cache that saves puts hides no change from etcd, however
\* puts fail, the links switch and the daemon is stopped.
THEOREM CacheHidesNothing == HostInfoSpec => [](HostInfoTypeOK /\ CacheIsPublished)
<1>1. HostInfoInit => CacheIInv
  BY DEF HostInfoInit, CacheIInv, CacheIsPublished, KnownRevisions, SystemStates
<1>2. HostInfoInit => SignalsIInv /\ EventsIInv
  BY HostInfoAssumption DEF HostInfoInit, SignalsIInv, EventsIInv
<1>3. HostInfoInit => QueuedIInv
  BY DEF HostInfoInit, QueuedIInv
<1>4. CacheIInv /\ SignalsIInv /\ EventsIInv /\ QueuedIInv => HostInfoTypeOK /\ CacheIsPublished
  BY DEF CacheIInv, SignalsIInv, EventsIInv, QueuedIInv, HostInfoTypeOK
<1> QED BY <1>1, <1>2, <1>3, <1>4, CacheInductive, SignalsInductive, EventsInductive, QueuedInductive, PTL
        DEF HostInfoSpec

-----------------------------------------------------------------------------
(* NarProxy: any peers, copies, filters, compressions and breaks.          *)

\* A search that is over, with a download or without, left nothing behind, a
\* request that is not over has no outcome, and a peer is only opened for a NAR.
AtRest ==
  /\ asking = "none" => source = NoPeer
  /\ asking = "none" \/ source # NoPeer => opening = NoPeer /\ inflight = {} /\ steady = {}
  /\ asking # "none" => outcome = "none"
  /\ opening # NoPeer => asking = "nar" /\ source = NoPeer

\* What has been received is the beginning of the file that the source named.
StreamsOneFile ==
  /\ body \in Seq(Files \X Nat)
  /\ source # NoPeer =>
       /\ asking = "nar" /\ file.nar = promised
       /\ \A i \in 1..Len(body) : body[i] = <<file, i>>

\* A peer that nothing happened to has not been looked at yet, is being asked,
\* and has answered what it has, is being opened, or was no answer.
NobodyPassedOver ==
  /\ candidates \cap inflight = {}
  /\ \A p \in NarPeers : infos[p] # NoInfo => p \in inflight
  /\ \A p \in steady : \/ p \in candidates \/ p = opening \/ ~Believable(copyOf[p])
                       \/ p \in inflight /\ infos[p] \in {NoInfo, copyOf[p]}

ProxyIInv == ProxyTypeOK /\ AtRest /\ StreamsOneFile /\ NobodyPassedOver /\ DeliversWholeFile

LEMMA BlankIsFile == Blank \in Files
BY ProxyAssumption DEF Blank, Files

\* However a request ends, but with the whole file.
LEMMA EndKeeps ==
  ASSUME ProxyIInv, NEW how \in {"info", "notfound", "failed", "hungup"},
         promised' \in Nars \cup {NoCopy}, UNCHANGED world, Ends(how),
         NoStream \/ (source = NoPeer /\ UNCHANGED stream)
  PROVE  ProxyIInv'
<1> USE DEF ProxyIInv, ProxyTypeOK, world, stream, Ends
<1>1. source' = NoPeer /\ file' \in Files /\ wire' \in {"up", "down"} /\ mark' \in Nat
  BY BlankIsFile DEF NoStream
<1>2. body' \in Seq(Files \X Nat)
  <2>1. body' = <<>> \/ body' = body
    BY DEF NoStream
  <2>2. body \in Seq(Files \X Nat) /\ <<>> \in Seq(Files \X Nat)
    BY DEF StreamsOneFile
  <2> QED BY <2>1, <2>2
<1>3. ProxyTypeOK'
  BY <1>1
<1>4. AtRest' /\ StreamsOneFile'
  BY <1>1, <1>2 DEF AtRest, StreamsOneFile
<1>5. NobodyPassedOver' /\ DeliversWholeFile'
  BY DEF NobodyPassedOver, DeliversWholeFile
<1> QED BY <1>3, <1>4, <1>5

\* The peers are asked, from the beginning.
LEMMA AskKeeps ==
  ASSUME ProxyIInv, Idle, NEW kind \in {"narinfo", "nar"},
         promised' \in Nars \cup {NoCopy}, UNCHANGED world, AskPeers(kind), NoStream
  PROVE  ProxyIInv'
<1> USE DEF ProxyIInv, ProxyTypeOK, world, AskPeers, NoStream, Idle
<1>1. inflight = {} /\ opening = NoPeer /\ \A p \in NarPeers : infos[p] = NoInfo
  BY DEF AtRest, NobodyPassedOver
<1>2. ProxyTypeOK'
  BY BlankIsFile
<1>3. AtRest' /\ StreamsOneFile'
  BY <1>1 DEF AtRest, StreamsOneFile
<1>4. NobodyPassedOver' /\ DeliversWholeFile'
  BY <1>1 DEF NobodyPassedOver, DeliversWholeFile
<1> QED BY <1>2, <1>3, <1>4

\* A node begins to send the file it has compressed.
LEMMA StreamKeeps ==
  ASSUME ProxyIInv, NEW node \in Nodes, copyOf[node] # NoCopy, copyOf[node].nar = promised,
         UNCHANGED <<world, promised>>, asking' = "nar", outcome' = "none", Streams(node),
         opening' = NoPeer, steady' = {}, inflight' = {}, infos' = [p \in NarPeers |-> NoInfo],
         candidates' \subseteq NarPeers
  PROVE  ProxyIInv'
<1> USE DEF ProxyIInv, world, Streams
<1>1. file' \in Files /\ file'.nar = promised
  BY DEF ProxyTypeOK, CachedFile, Files, Copies
<1>2. Len(body') = 0 /\ 0 < FileSize[file'.by]
  BY <1>1, ProxyAssumption DEF Files
<1>3. ProxyTypeOK'
  BY <1>1, <1>2 DEF ProxyTypeOK
<1>4. node # NoPeer
  BY ProxyAssumption
<1>5. AtRest' /\ StreamsOneFile'
  BY <1>1, <1>2, <1>4 DEF AtRest, StreamsOneFile
<1>6. NobodyPassedOver' /\ DeliversWholeFile'
  BY DEF NobodyPassedOver, DeliversWholeFile
<1> QED BY <1>3, <1>5, <1>6

LEMMA GetKeeps == ProxyIInv /\ (GetNarinfo \/ GetNar) => ProxyIInv'
<1> SUFFICES ASSUME ProxyIInv, GetNarinfo \/ GetNar
             PROVE  ProxyIInv'
  OBVIOUS
<1>1. /\ Idle /\ UNCHANGED world /\ promised \in Nars \cup {NoCopy}
      /\ copyOf[Self] \in Copies \cup {NoCopy} /\ Self \in Nodes
  BY DEF GetNarinfo, GetNar, ProxyIInv, ProxyTypeOK, Nodes
<1>2. CASE GetNarinfo
  <2>1. CASE copyOf[Self] # NoCopy /\ promised' = copyOf[Self].nar /\ Ends("info")
    <3>1. promised' \in Nars
      BY <1>1, <2>1 DEF Copies
    <3> QED BY <1>1, <1>2, <2>1, <3>1, EndKeeps DEF GetNarinfo
  <2>2. CASE promised' = NoCopy /\ AskPeers("narinfo")
    BY <1>1, <1>2, <2>2, AskKeeps DEF GetNarinfo
  <2> QED BY <1>2, <2>1, <2>2 DEF GetNarinfo
<1>3. CASE GetNar
  <2> DEFINE local == copyOf[Self] # NoCopy /\ copyOf[Self].nar = promised
  <2>1. promised' = promised
    BY <1>3 DEF GetNar
  <2>2. CASE local /\ asking' = "nar" /\ outcome' = "none" /\ Streams(Self) /\ UNCHANGED search
    <3>1. /\ opening = NoPeer /\ steady = {} /\ inflight = {} /\ candidates \subseteq NarPeers
          /\ infos \in [NarPeers -> Copies \cup {NoCopy, NoInfo}]
          /\ \A p \in NarPeers : infos[p] = NoInfo
      BY <1>1 DEF ProxyIInv, ProxyTypeOK, AtRest, NobodyPassedOver, Idle
    <3>2. infos = [p \in NarPeers |-> NoInfo]
      BY <3>1
    <3> QED BY <1>1, <2>1, <2>2, <3>1, <3>2, StreamKeeps DEF search
  <2>3. CASE Ends("failed") /\ NoStream
    BY <1>1, <2>1, <2>3, EndKeeps
  <2>4. CASE AskPeers("nar") /\ NoStream
    BY <1>1, <2>1, <2>4, AskKeeps
  <2> QED BY <1>3, <2>2, <2>3, <2>4 DEF GetNar
<1> QED BY <1>2, <1>3

\* The filters, and the peers' answers.
LEMMA SearchKeeps ==
  ASSUME ProxyIInv, NEW p \in NarPeers, Yield(p) \/ PeerAnswers(p) \/ PassOver(p) \/ Open(p)
  PROVE  ProxyIInv'
<1> USE DEF ProxyIInv, ProxyTypeOK, world, stream, Searching
<1>1. UNCHANGED <<world, asking, promised, source, file, mark, wire, body, outcome>>
  BY DEF Yield, PeerAnswers, PassOver, Open
<1>2. p # NoPeer /\ copyOf[p] \in Copies \cup {NoCopy}
  BY ProxyAssumption DEF Nodes
<1>3. asking # "none" /\ source = NoPeer
  BY DEF Yield, PeerAnswers, PassOver, Open
<1>4. StreamsOneFile' /\ DeliversWholeFile'
  BY <1>1 DEF StreamsOneFile, DeliversWholeFile
<1>5. \A q : Believable(copyOf[q])' <=> Believable(copyOf[q])
  BY <1>1 DEF Believable
<1>6. CASE Yield(p)
  <2>1. ProxyTypeOK' /\ AtRest'
    BY <1>1, <1>3, <1>6 DEF Yield, AtRest
  <2>2. NobodyPassedOver'
    BY <1>1, <1>5, <1>6 DEF Yield, NobodyPassedOver
  <2> QED BY <1>4, <2>1, <2>2
<1>7. CASE PeerAnswers(p)
  <2>1. ProxyTypeOK' /\ AtRest'
    BY <1>1, <1>2, <1>3, <1>7 DEF PeerAnswers, AtRest
  <2>2. NobodyPassedOver'
    BY <1>1, <1>5, <1>7 DEF PeerAnswers, NobodyPassedOver
  <2> QED BY <1>4, <2>1, <2>2
<1>8. CASE PassOver(p)
  <2>1. ProxyTypeOK' /\ AtRest'
    BY <1>1, <1>3, <1>8 DEF PassOver, AtRest
  <2>2. p \in inflight /\ infos[p] # NoInfo /\ ~Believable(infos[p])
    BY <1>8 DEF PassOver, Ready
  <2>3. p \in steady => \/ p \in candidates \/ p = opening \/ ~Believable(copyOf[p])
    BY <2>2 DEF NobodyPassedOver
  <2>4. /\ UNCHANGED <<candidates, opening, steady, copyOf>> /\ inflight' = inflight \ {p}
        /\ infos'[p] = NoInfo /\ \A q \in NarPeers \ {p} : infos'[q] = infos[q]
    BY <1>8 DEF PassOver
  <2>5. candidates' \cap inflight' = {} /\ \A q \in NarPeers : infos'[q] # NoInfo => q \in inflight'
    BY <2>4 DEF NobodyPassedOver
  <2>6. ASSUME NEW q \in steady'
        PROVE  \/ q \in candidates' \/ q = opening' \/ ~Believable(copyOf[q])
               \/ q \in inflight' /\ infos'[q] \in {NoInfo, copyOf[q]}
    <3>1. CASE q = p
      BY <2>3, <2>4, <3>1
    <3>2. CASE q # p
      <4>1. q \in steady /\ q \in NarPeers
        BY <2>4
      <4>2. \/ q \in candidates \/ q = opening \/ ~Believable(copyOf[q])
            \/ q \in inflight /\ infos[q] \in {NoInfo, copyOf[q]}
        BY <4>1 DEF NobodyPassedOver
      <4> QED BY <2>4, <3>2, <4>1, <4>2
    <3> QED BY <3>1, <3>2
  <2>7. NobodyPassedOver'
    BY <1>5, <2>4, <2>5, <2>6 DEF NobodyPassedOver
  <2> QED BY <1>4, <2>1, <2>7
<1>9. CASE Open(p)
  <2>1. ProxyTypeOK' /\ AtRest'
    BY <1>1, <1>3, <1>9 DEF Open, AtRest
  <2>2. NoPeer \notin steady
    BY ProxyAssumption DEF Nodes
  <2>3. NobodyPassedOver'
    BY <1>1, <1>5, <1>9, <2>2 DEF Open, NobodyPassedOver
  <2> QED BY <1>4, <2>1, <2>3
<1> QED BY <1>6, <1>7, <1>8, <1>9

\* The answer that ends the search, or begins a download.
LEMMA AnswerKeeps ==
  ASSUME ProxyIInv, (\E p \in NarPeers : Relay(p)) \/ Opened \/ OpenFails \/ NotFound
  PROVE  ProxyIInv'
<1>1. CASE \E p \in NarPeers : Relay(p)
  <2>1. PICK p \in NarPeers : Relay(p)
    BY <1>1
  <2>2. infos[p] \in Copies
    BY <2>1 DEF Relay, Ready, Believable, ProxyIInv, ProxyTypeOK
  <2>3. promised' \in Nars
    BY <2>1, <2>2 DEF Relay, Copies
  <2> QED BY <2>1, <2>3, EndKeeps DEF Relay, Searching
<1>2. CASE Opened
  <2>1. opening \in Nodes /\ asking = "nar" /\ outcome = "none"
    BY <1>2 DEF Opened, ProxyIInv, ProxyTypeOK, AtRest, Nodes
  <2> QED BY <1>2, <2>1, StreamKeeps DEF Opened, Offers
<1>3. CASE OpenFails
  <2> USE DEF ProxyIInv, ProxyTypeOK, world, stream
  <2>1. /\ opening \in NarPeers /\ asking = "nar" /\ opening' = NoPeer
        /\ UNCHANGED <<world, asking, promised, candidates, inflight, infos, stream, outcome>>
        /\ steady' = IF Offers(opening) THEN steady \ {opening} ELSE steady
    BY <1>3 DEF OpenFails, AtRest
  <2>2. ProxyTypeOK' /\ AtRest'
    BY <2>1 DEF AtRest
  <2>3. StreamsOneFile' /\ DeliversWholeFile'
    BY <2>1 DEF StreamsOneFile, DeliversWholeFile
  <2>4. opening \in steady' => ~Believable(copyOf[opening])
    BY <2>1 DEF Offers, Believable
  <2>5. \A q : Believable(copyOf[q])' <=> Believable(copyOf[q])
    BY <2>1 DEF Believable
  <2>6. NobodyPassedOver'
    BY <2>1, <2>4, <2>5 DEF NobodyPassedOver
  <2> QED BY <2>2, <2>3, <2>6
<1>4. CASE NotFound
  BY <1>4, EndKeeps DEF NotFound, Searching, ProxyIInv, ProxyTypeOK
<1> QED BY <1>1, <1>2, <1>3, <1>4

\* The body.
LEMMA ReceiveKeeps == ProxyIInv /\ Receive => ProxyIInv'
<1> SUFFICES ASSUME ProxyIInv, Receive
             PROVE  ProxyIInv'
  OBVIOUS
<1> USE DEF ProxyIInv
<1>1. /\ source # NoPeer /\ asking = "nar" /\ outcome = "none" /\ file \in Files /\ file.nar = promised
      /\ body \in Seq(Files \X Nat) /\ Len(body) < FileSize[file.by]
      /\ mark \in Nat /\ mark <= Len(body) /\ FileSize[file.by] \in Nat
      /\ \A i \in 1..Len(body) : body[i] = <<file, i>>
  BY ProxyAssumption DEF Receive, AtRest, StreamsOneFile, ProxyTypeOK, Files
<1>2. /\ UNCHANGED <<world, promised, search>> /\ body' = Append(body, <<file, Len(body) + 1>>)
  BY DEF Receive
<1>3. <<file, Len(body) + 1>> \in Files \X Nat
  BY <1>1
<1>4. body' \in Seq(Files \X Nat) /\ Len(body') = Len(body) + 1
  BY <1>1, <1>2, <1>3
<1>5. \A i \in 1..Len(body') : body'[i] = <<file, i>>
  BY <1>1, <1>2, <1>3, <1>4
<1>6. opening = NoPeer /\ steady = {} /\ inflight = {}
  BY <1>1 DEF AtRest
<1>7. NobodyPassedOver'
  BY <1>2, <1>6 DEF NobodyPassedOver, search
<1>8. CASE Complete(Len(body'))
  <2>1. Len(body') = FileSize[file.by]
    BY <1>1, <1>4, <1>8 DEF Complete
  <2>2. source' = NoPeer /\ file' = Blank /\ mark' = 0 /\ wire' = "down" /\ asking' = "none" /\ outcome' = "served"
    BY <1>8 DEF Receive
  <2>3. ProxyTypeOK'
    BY <1>2, <2>2, BlankIsFile DEF ProxyTypeOK, world, search
  <2>4. AtRest' /\ StreamsOneFile'
    BY <1>2, <1>4, <1>6, <2>2 DEF AtRest, StreamsOneFile, search
  <2>5. body' = [i \in 1..FileSize[file.by] |-> <<file, i>>]
    BY <1>4, <1>5, <2>1
  <2>6. DeliversWholeFile'
    BY <1>1, <1>2, <2>5 DEF DeliversWholeFile
  <2> QED BY <1>7, <2>3, <2>4, <2>6
<1>9. CASE ~Complete(Len(body'))
  <2>1. UNCHANGED <<source, file, mark, wire, asking, outcome>>
    BY <1>9 DEF Receive
  <2>2. Len(body') < FileSize[file.by] /\ mark <= Len(body')
    BY <1>1, <1>4, <1>9 DEF Complete
  <2>3. ProxyTypeOK'
    BY <1>2, <2>1, <2>2 DEF ProxyTypeOK, world, search
  <2>4. AtRest' /\ StreamsOneFile'
    BY <1>1, <1>2, <1>4, <1>5, <2>1 DEF AtRest, StreamsOneFile, search
  <2>5. DeliversWholeFile'
    BY <1>1, <2>1 DEF DeliversWholeFile
  <2> QED BY <1>7, <2>3, <2>4, <2>5
<1> QED BY <1>8, <1>9

LEMMA BreakKeeps == ProxyIInv /\ (Break \/ Stall \/ Resume \/ ClientHangsUp) => ProxyIInv'
<1> SUFFICES ASSUME ProxyIInv, Break \/ Stall \/ Resume \/ ClientHangsUp
             PROVE  ProxyIInv'
  OBVIOUS
<1>1. UNCHANGED <<world, promised>> /\ promised \in Nars \cup {NoCopy}
  BY DEF Break, Stall, Resume, ClientHangsUp, ProxyIInv, ProxyTypeOK
<1>2. CASE GivesUp
  BY <1>1, <1>2, EndKeeps DEF GivesUp
<1>3. CASE ClientHangsUp
  BY <1>1, <1>3, EndKeeps DEF ClientHangsUp
<1>4. CASE Break
  <2> USE DEF ProxyIInv
  <2>1. UNCHANGED <<world, asking, promised, search, source, file, mark, body, outcome>> /\ wire' = "down"
    BY <1>4 DEF Break
  <2>2. ProxyTypeOK' /\ AtRest'
    BY <2>1 DEF ProxyTypeOK, AtRest, world, search
  <2>3. StreamsOneFile' /\ DeliversWholeFile'
    BY <2>1 DEF StreamsOneFile, DeliversWholeFile
  <2>4. NobodyPassedOver'
    BY <2>1 DEF NobodyPassedOver, Believable, world, search
  <2> QED BY <2>2, <2>3, <2>4
<1>5. CASE Resume /\ ~GivesUp
  <2> USE DEF ProxyIInv
  <2>1. /\ source \in NarPeers /\ file' = file /\ mark' = Len(body) /\ wire' = "up"
        /\ UNCHANGED <<world, promised, asking, search, source, body, outcome>>
    BY <1>5 DEF Resume, SameFile
  <2>2. Len(body) \in Nat
    BY DEF StreamsOneFile
  <2>3. ProxyTypeOK' /\ AtRest'
    BY <2>1, <2>2 DEF ProxyTypeOK, AtRest, world, search
  <2>4. StreamsOneFile' /\ DeliversWholeFile'
    BY <2>1 DEF StreamsOneFile, DeliversWholeFile
  <2>5. NobodyPassedOver'
    BY <2>1 DEF NobodyPassedOver, Believable, world, search
  <2> QED BY <2>3, <2>4, <2>5
<1> QED BY <1>2, <1>3, <1>4, <1>5 DEF Stall, Resume

\* A build, a collection or a compression: it was the peer's own.
LEMMA ChangeKeeps ==
  ASSUME ProxyIInv, NEW n \in Nodes, Change(n)
  PROVE  ProxyIInv'
<1> USE DEF ProxyIInv
<1>1. /\ UNCHANGED <<advertised, asking, promised, candidates, inflight, infos, opening, stream, outcome>>
      /\ steady' = steady \ {n} /\ \A q \in Nodes \ {n} : copyOf'[q] = copyOf[q]
      /\ copyOf' \in [Nodes -> Copies \cup {NoCopy}] /\ compression' \in [Nodes -> Compressions]
      /\ changes' \in 0..MaxChanges
  BY ProxyAssumption DEF Change, ProxyTypeOK
<1>2. ProxyTypeOK' /\ AtRest'
  BY <1>1 DEF ProxyTypeOK, AtRest, stream
<1>3. StreamsOneFile' /\ DeliversWholeFile'
  BY <1>1 DEF StreamsOneFile, DeliversWholeFile, stream
<1>4. \A q \in steady' : q \in Nodes \ {n}
  BY <1>1 DEF ProxyTypeOK, Nodes
<1>5. NobodyPassedOver'
  BY <1>1, <1>4 DEF NobodyPassedOver, Believable
<1> QED BY <1>2, <1>3, <1>5

LEMMA ProxyInductive == ProxyIInv /\ [ProxyNext]_proxyVars => ProxyIInv'
<1> SUFFICES ASSUME ProxyIInv, [ProxyNext]_proxyVars
             PROVE  ProxyIInv'
  OBVIOUS
<1>1. CASE ProxyNext
  BY <1>1, GetKeeps, SearchKeeps, AnswerKeeps, ReceiveKeeps, BreakKeeps, ChangeKeeps DEF ProxyNext, ProxyStep
<1>2. CASE UNCHANGED proxyVars
  BY <1>2 DEF proxyVars, world, search, stream, ProxyIInv, ProxyTypeOK, AtRest, StreamsOneFile,
              NobodyPassedOver, DeliversWholeFile, Believable
<1> QED BY <1>1, <1>2

\* server/: whatever the peers build, collect or compress anew and wherever a
\* connection breaks, a download that ends well is one file of the NAR that was
\* promised, and "not found" passes over nobody who could have answered.
THEOREM AnswersAreSound == ProxySpec => [](ProxyTypeOK /\ DeliversWholeFile) /\ [][NotFoundIsTrue]_proxyVars
<1>1. ProxyInit => ProxyIInv
  BY BlankIsFile, ProxyAssumption
     DEF ProxyInit, ProxyIInv, ProxyTypeOK, AtRest, StreamsOneFile, NobodyPassedOver, DeliversWholeFile
<1>2. ProxyIInv /\ [ProxyNext]_proxyVars => [NotFoundIsTrue]_proxyVars
  <2> SUFFICES ASSUME ProxyIInv, ProxyNext, outcome' = "notfound", ~Idle, NEW p \in steady
               PROVE  ~Believable(copyOf[p])
    BY DEF NotFoundIsTrue
  <2>1. outcome = "none"
    BY DEF ProxyIInv, AtRest, Idle
  <2>2. NotFound
    BY <2>1 DEF ProxyNext, ProxyStep, GetNarinfo, GetNar, Yield, PeerAnswers, PassOver, Relay, Open, Opened,
       OpenFails, Receive, Stall, Resume, Break, ClientHangsUp, Change, GivesUp, Ends, Idle
  <2>3. p \in NarPeers /\ p # NoPeer
    BY ProxyAssumption DEF ProxyIInv, ProxyTypeOK, Nodes
  <2> QED BY <2>2, <2>3 DEF NotFound, ProxyIInv, NobodyPassedOver
<1>3. ProxyIInv => ProxyTypeOK /\ DeliversWholeFile
  BY DEF ProxyIInv
<1> QED BY <1>1, <1>2, <1>3, ProxyInductive, PTL DEF ProxySpec

-----------------------------------------------------------------------------
(* Archive: any commits and their ancestors, reports and writers.          *)

\* Each time the branch is advanced, somebody else takes a turn or the task
\* brings a commit that was not there.
AgeIsCounted == archive.age <= turns + Cardinality(archive.reach)

ArchiveIInv == ArchiveTypeOK /\ ArchivedIsReachable /\ AgeIsCounted

\* What can be reached from a head, or from nowhere, is finitely many commits.
LEMMA ReachFinite ==
  ASSUME NEW r \in SUBSET Deployed
  PROVE  IsFiniteSet(r) /\ Cardinality(r) \in Nat /\ Cardinality(r) <= Cardinality(Deployed)
BY FS_Subset, FS_CardinalityType, ArchiveAssumption

\* A head that is advanced keeps what it reached and reaches what was merged.
LEMMA AdvancedReaches ==
  ASSUME NEW head, head.reach \subseteq Deployed, NEW commits \in SUBSET Deployed
  PROVE  /\ Advanced(head, commits).age = head.age + 1
         /\ Advanced(head, commits).reach \subseteq Deployed
         /\ head.reach \cup commits \subseteq Advanced(head, commits).reach
BY ArchiveAssumption DEF Advanced, Closure

\* A new commit makes it more.
LEMMA AdvancedGrows ==
  ASSUME NEW head, head.reach \subseteq Deployed, NEW commits \in SUBSET Deployed
  PROVE  /\ Cardinality(head.reach) <= Cardinality(Advanced(head, commits).reach)
         /\ ~(commits \subseteq head.reach) =>
              Cardinality(head.reach) + 1 <= Cardinality(Advanced(head, commits).reach)
<1> DEFINE r == Advanced(head, commits).reach
<1>1. r \in SUBSET Deployed /\ head.reach \in SUBSET r /\ commits \subseteq r
  BY AdvancedReaches
<1>2. IsFiniteSet(r) /\ Cardinality(r) \in Nat /\ Cardinality(head.reach) \in Nat
  BY <1>1, ReachFinite
<1>3. /\ Cardinality(head.reach) <= Cardinality(r)
      /\ Cardinality(r) = Cardinality(head.reach) => r = head.reach
  BY <1>1, <1>2, FS_Subset
<1> HIDE DEF r
<1>4. ~(commits \subseteq head.reach) => Cardinality(head.reach) + 1 <= Cardinality(r)
  BY <1>1, <1>2, <1>3
<1> QED BY <1>3, <1>4 DEF r

\* A head is what its bounds allow.
LEMMA HeadBounded ==
  ASSUME NEW head, head \in [age : Nat, reach : SUBSET Deployed],
         NEW n \in 0..MaxTurns, head.age <= n + Cardinality(head.reach)
  PROVE  head \in Heads
BY ReachFinite, ArchiveAssumption, FS_CardinalityType DEF Heads

\* What the task pushes onto the head it merged on.
LEMMA PushedHead ==
  ASSUME ArchiveIInv, stage = "push", FastForward
  PROVE  /\ NewHead \in Heads
         /\ archive.reach \cup merged \subseteq NewHead.reach
         /\ archive.age <= NewHead.age
         /\ NewHead.age <= turns + Cardinality(NewHead.reach)
<1> USE DEF ArchiveIInv, ArchiveTypeOK, AgeIsCounted, FastForward
<1>1. archive \in [age : Nat, reach : SUBSET Deployed] /\ merged \subseteq Deployed /\ turns \in 0..MaxTurns
  BY DEF Heads
<1>2. CASE New = {}
  BY <1>1, <1>2 DEF NewHead, New
<1>3. CASE New # {}
  <2>1. NewHead = Advanced(tracked, New) /\ New \in SUBSET Deployed /\ ~(New \subseteq archive.reach)
    BY <1>1, <1>3 DEF NewHead, New
  <2>2. /\ NewHead.age = archive.age + 1
        /\ NewHead.reach \subseteq Deployed
        /\ archive.reach \cup New \subseteq NewHead.reach
    BY <1>1, <2>1, AdvancedReaches
  <2>3. archive.reach \cup merged \subseteq NewHead.reach
    BY <2>2 DEF New
  <2>4. Cardinality(archive.reach) + 1 <= Cardinality(NewHead.reach)
    BY <1>1, <2>1, AdvancedGrows
  <2>5. Cardinality(archive.reach) \in Nat /\ Cardinality(NewHead.reach) \in Nat
    BY <1>1, <2>2, ReachFinite
  <2>6. archive.age <= NewHead.age /\ NewHead.age <= turns + Cardinality(NewHead.reach)
    BY <1>1, <2>2, <2>4, <2>5, ArchiveAssumption
  <2>7. NewHead \in [age : Nat, reach : SUBSET Deployed]
    BY <1>1, <2>1, <2>2 DEF Advanced
  <2> QED BY <1>1, <2>3, <2>6, <2>7, HeadBounded
<1> QED BY <1>2, <1>3

\* Reports, branches and the writers beside it.
LEMMA ForgeKeeps ==
  ASSUME ArchiveIInv, NEW c \in Deployed,
         ReportCommit(c) \/ ForgetCommit(c) \/ PushBranch(c) \/ DropBranch(c) \/ OtherArchives(c)
  PROVE  ArchiveIInv' /\ ArchiveOnlyGrows
<1> USE DEF ArchiveIInv, ArchiveTypeOK, ArchivedIsReachable, AgeIsCounted, ArchiveOnlyGrows
<1>1. /\ archive \in [age : Nat, reach : SUBSET Deployed] /\ tracked.age \in Nat
      /\ turns \in Nat /\ turns < MaxTurns /\ turns' = turns + 1 /\ turns' \in 0..MaxTurns
  BY ArchiveAssumption DEF Heads, Turn, ReportCommit, ForgetCommit, PushBranch, DropBranch, OtherArchives
<1>2. Cardinality(archive.reach) \in Nat
  BY <1>1, ReachFinite
<1>3. CASE ReportCommit(c) \/ ForgetCommit(c) \/ PushBranch(c) \/ DropBranch(c)
  BY <1>1, <1>2, <1>3, ArchiveAssumption DEF ReportCommit, ForgetCommit, PushBranch, DropBranch, task
<1>4. CASE OtherArchives(c)
  <2>1. archive' = Advanced(archive, {c}) /\ {c} \in SUBSET Deployed
    BY <1>4 DEF OtherArchives
  <2>2. archive'.age = archive.age + 1 /\ archive'.reach \subseteq Deployed /\ archive.reach \subseteq archive'.reach
    BY <1>1, <2>1, AdvancedReaches
  <2>3. Cardinality(archive.reach) <= Cardinality(archive'.reach) /\ Cardinality(archive'.reach) \in Nat
    BY <1>1, <2>1, <2>2, AdvancedGrows, ReachFinite
  <2>4. archive'.age <= turns' + Cardinality(archive'.reach)
    BY <1>1, <1>2, <2>2, <2>3
  <2>5. archive' \in [age : Nat, reach : SUBSET Deployed]
    BY <1>1, <2>1, <2>2 DEF Advanced
  <2>6. archive' \in Heads
    BY <1>1, <2>4, <2>5, HeadBounded
  <2>7. UNCHANGED <<reported, branches, clone, tracked, stage, attempt, wanted, merged, archived>>
    BY <1>4 DEF OtherArchives, forge, task
  <2>8. stage = "push" => tracked.age <= archive'.age
    BY <1>1, <2>2
  <2> QED BY <1>1, <2>2, <2>4, <2>6, <2>7, <2>8
<1> QED BY <1>3, <1>4

\* The task between its pushes, and a restart, leave the branch alone.
LEMMA TaskKeeps ==
  ASSUME ArchiveIInv,
         Collect \/ Fetch \/ FetchFails \/ PushRejected \/ WakeUp \/ Seen \/ Restart
  PROVE  ArchiveIInv' /\ ArchiveOnlyGrows
<1> USE DEF ArchiveIInv, ArchiveTypeOK, ArchivedIsReachable, AgeIsCounted, ArchiveOnlyGrows, MaxAttempts
<1>1. CASE Collect
  BY <1>1 DEF Collect, forge
<1>2. CASE Fetch
  <2>1. archive.age \in Nat /\ archive.reach \subseteq Deployed
    BY DEF Heads
  <2> QED BY <1>2, <2>1 DEF Fetch, Finish, forge
<1>3. CASE FetchFails
  BY <1>3 DEF FetchFails, SleepMinute, forge
<1>4. CASE PushRejected
  BY <1>4 DEF PushRejected, Retry, SleepMinute, forge
<1>5. CASE WakeUp \/ Seen
  BY <1>5 DEF WakeUp, Seen, forge
<1>6. CASE Restart
  <2>1. /\ archive \in [age : Nat, reach : SUBSET Deployed]
        /\ turns \in Nat /\ turns < MaxTurns /\ turns' = turns + 1 /\ turns' \in 0..MaxTurns
    BY <1>6, ArchiveAssumption DEF Heads, Turn, Restart
  <2>2. Cardinality(archive.reach) \in Nat
    BY <2>1, ReachFinite
  <2> QED BY <1>6, <2>1, <2>2 DEF Restart, forge
<1> QED BY <1>1, <1>2, <1>3, <1>4, <1>5, <1>6

\* A push takes effect whole or not at all, and its answer may be lost.
LEMMA PushKeeps ==
  ASSUME ArchiveIInv, Push \/ PushFails
  PROVE  ArchiveIInv' /\ ArchiveOnlyGrows
<1> USE DEF ArchiveIInv, ArchiveTypeOK, ArchivedIsReachable, AgeIsCounted, ArchiveOnlyGrows, MaxAttempts
<1>1. archive.age \in Nat /\ tracked.age \in Nat
  BY DEF Heads
<1>2. CASE Push
  <2>1. FastForward /\ stage = "push" /\ archive' = NewHead
    BY <1>2 DEF Push
  <2>2. /\ archive' \in Heads /\ archive.reach \cup merged \subseteq archive'.reach
        /\ archive'.age <= turns + Cardinality(archive'.reach)
    BY <2>1, PushedHead
  <2> QED BY <1>2, <2>2 DEF Push, Finish, forge
<1>3. CASE PushFails /\ archive' = archive
  BY <1>3 DEF PushFails, Retry, SleepMinute, forge
<1>4. CASE PushFails /\ archive' # archive
  <2>1. FastForward /\ stage = "push" /\ archive' = NewHead
    BY <1>4 DEF PushFails
  <2>2. /\ archive' \in Heads /\ archive.reach \subseteq archive'.reach
        /\ archive'.age <= turns + Cardinality(archive'.reach)
    BY <2>1, PushedHead
  <2> QED BY <1>4, <2>2 DEF PushFails, Retry, SleepMinute, forge
<1> QED BY <1>2, <1>3, <1>4

\* archive_commits: whatever fails on the way to the forge or back, whoever
\* else advances the branch, and however often the task restarts, the branch
\* loses nothing, and what the task believes to be archived is on it.
THEOREM ArchiveLosesNothing ==
  ArchiveSpec => [](ArchiveTypeOK /\ ArchivedIsReachable) /\ [][ArchiveOnlyGrows]_archiveVars
<1>1. ArchiveInit => ArchiveIInv
  <2> SUFFICES ASSUME ArchiveInit PROVE ArchiveIInv
    OBVIOUS
  <2>1. branches \subseteq Deployed
    BY ArchiveAssumption DEF ArchiveInit, Closure
  <2>2. Unborn \in [age : Nat, reach : SUBSET Deployed] /\ Unborn.age = 0 /\ Unborn.reach = {}
    BY DEF Unborn
  <2>3. Cardinality({}) = 0
    BY FS_EmptySet
  <2>4. Unborn \in Heads
    BY <2>2, <2>3, ReachFinite, FS_CardinalityType, ArchiveAssumption DEF Heads
  <2> QED BY <2>1, <2>2, <2>3, <2>4, ArchiveAssumption
         DEF ArchiveInit, ArchiveIInv, ArchiveTypeOK, ArchivedIsReachable, AgeIsCounted, MaxAttempts
<1>2. ArchiveIInv /\ [ArchiveNext]_archiveVars => ArchiveIInv' /\ [ArchiveOnlyGrows]_archiveVars
  <2> SUFFICES ASSUME ArchiveIInv, [ArchiveNext]_archiveVars
               PROVE  ArchiveIInv' /\ [ArchiveOnlyGrows]_archiveVars
    OBVIOUS
  <2>1. CASE ArchiveNext
    BY <2>1, ForgeKeeps, TaskKeeps, PushKeeps DEF ArchiveNext, ArchiveStep
  <2>2. CASE UNCHANGED archiveVars
    BY <2>2 DEF archiveVars, forge, task, ArchiveIInv, ArchiveTypeOK, ArchivedIsReachable, AgeIsCounted
  <2> QED BY <2>1, <2>2
<1>3. ArchiveIInv => ArchiveTypeOK /\ ArchivedIsReachable
  BY DEF ArchiveIInv
<1> QED BY <1>1, <1>2, <1>3, PTL DEF ArchiveSpec

-----------------------------------------------------------------------------
(* CertAlerts: any commits, certificates, policies and evaluations.        *)

\* The facts of a host whose pins nobody moved since they were read do not pass
\* over a certificate that is known, and lack a policy only with a note.
Reckoned ==
  ~stale =>
    \A r \in HostPin(pins) \cap known :
      ExpiresAt[r] # Off =>
        /\ facts \in Facts
        /\ facts.notAfter \in Nat /\ facts.notAfter <= ExpiresAt[r]
        /\ facts.validity = Unknown => facts.note

CertIInv == CertTypeOK /\ Reckoned

\* A host is pinned to two commits at most.
LEMMA PinsAreTwo ==
  ASSUME NEW p \in HostPins
  PROVE  HostPin(p) \in SUBSET Revs /\ HostPin(p) \subseteq {p.current, p.nextboot}
BY DEF HostPin, HostPins

\* Of two certificates one is the first to expire.
LEMMA EarliestIsFirst ==
  ASSUME NEW a, NEW b, NEW S \in SUBSET {a, b}, S # {},
         \A r \in S : r \in Revs /\ ExpiresAt[r] # Off
  PROVE  EarliestOf(S) \in Nat /\ \A r \in S : EarliestOf(S) <= ExpiresAt[r]
<1> DEFINE times == {ExpiresAt[r] : r \in S}
<1>1. \A r \in S : ExpiresAt[r] \in Nat
  BY CertAssumption
<1>2. \E t \in times : \A r \in S : t <= ExpiresAt[r]
  <2>1. PICK x \in S : x = a \/ x = b
    OBVIOUS
  <2>2. CASE \A r \in S : ExpiresAt[x] <= ExpiresAt[r]
    BY <2>1, <2>2
  <2>3. CASE ~ \A r \in S : ExpiresAt[x] <= ExpiresAt[r]
    <3>1. PICK y \in S : ~(ExpiresAt[x] <= ExpiresAt[y])
      BY <2>3
    <3>2. ExpiresAt[y] <= ExpiresAt[x] /\ x # y
      BY <1>1, <3>1
    <3>3. \A r \in S : r = x \/ r = y
      BY <2>1, <3>2
    <3>4. \A r \in S : ExpiresAt[y] <= ExpiresAt[r]
      BY <1>1, <3>2, <3>3
    <3> QED BY <3>4
  <2> QED BY <2>2, <2>3
<1>3. EarliestOf(S) = CHOOSE t \in times : \A r \in S : t <= ExpiresAt[r]
  BY DEF EarliestOf
<1> HIDE DEF times
<1>4. EarliestOf(S) \in times /\ \A r \in S : EarliestOf(S) <= ExpiresAt[r]
  BY <1>2, <1>3
<1> QED BY <1>1, <1>4 DEF times

\* Certificates of a host's commits, of which some could not be evaluated.
LEMMA EarliestEnabled ==
  ASSUME NEW p \in HostPins, NEW failing
  PROVE  /\ EarliestOf(Enabled(HostPin(p), failing)) \in Nat \cup {Unknown}
         /\ \A r \in Enabled(HostPin(p), failing) :
              /\ EarliestOf(Enabled(HostPin(p), failing)) \in Nat
              /\ EarliestOf(Enabled(HostPin(p), failing)) <= ExpiresAt[r]
<1> DEFINE S == Enabled(HostPin(p), failing)
<1>1. S \in SUBSET {p.current, p.nextboot} /\ \A r \in S : r \in Revs /\ ExpiresAt[r] # Off
  BY PinsAreTwo DEF Enabled
<1>2. CASE S = {}
  BY <1>2 DEF EarliestOf
<1>3. CASE S # {}
  <2> HIDE DEF S
  <2>1. EarliestOf(S) \in Nat /\ \A r \in S : EarliestOf(S) <= ExpiresAt[r]
    BY <1>1, <1>3, EarliestIsFirst
  <2> QED BY <2>1 DEF S
<1> QED BY <1>2, <1>3

\* The certificate of main's tip.
LEMMA EarliestTip ==
  ASSUME tip \in Revs, NEW failing
  PROVE  EarliestOf(Enabled({tip}, failing)) \in Nat \cup {Unknown}
<1> DEFINE S == Enabled({tip}, failing)
<1>1. S \in SUBSET {tip, tip} /\ \A r \in S : r \in Revs /\ ExpiresAt[r] # Off
  BY DEF Enabled
<1>2. CASE S = {}
  BY <1>2 DEF EarliestOf
<1>3. CASE S # {}
  <2> HIDE DEF S
  <2>1. EarliestOf(S) \in Nat
    BY <1>1, <1>3, EarliestIsFirst
  <2> QED BY <2>1 DEF S
<1> QED BY <1>2, <1>3

\* The policy comes from a commit where Nebula is enabled.
LEMMA PolicyIsEnabled ==
  ASSUME tip \in Revs, NEW p \in HostPins, NEW failing
  PROVE  /\ FallbackFor(p, failing) \in Revs \cup {NoRev}
         /\ LET from == PolicyFrom(FallbackFor(p, failing), failing)
            IN  from = NoRev \/ (from \in Revs /\ ExpiresAt[from] # Off /\ ValidFor[from] \in Nat)
<1>1. FallbackFor(p, failing) \in Revs \cup {NoRev}
  BY DEF FallbackFor, HostPins
<1> DEFINE fallback == FallbackFor(p, failing)
           from == PolicyFrom(fallback, failing)
           says(r) == r # NoRev /\ ExpiresAt[r] # Off /\ (r \in policies \/ r \notin failing)
<1>2. from = NoRev \/ (from \in {tip, fallback} /\ ExpiresAt[from] # Off /\ from # NoRev)
  <2>1. from = IF says(tip) THEN tip ELSE IF says(fallback) THEN fallback ELSE NoRev
    BY DEF PolicyFrom
  <2>2. \A r : says(r) => ExpiresAt[r] # Off /\ r # NoRev
    OBVIOUS
  <2> HIDE DEF fallback, from, says
  <2> QED BY <2>1, <2>2
<1>3. from = NoRev \/ (from \in Revs /\ ExpiresAt[from] # Off /\ ValidFor[from] \in Nat)
  <2> HIDE DEF from
  <2> QED BY <1>1, <1>2, CertAssumption
<1> QED BY <1>1, <1>3

\* What resolve_host finds, for any commits that cannot be evaluated.
LEMMA ResolvedIsRight ==
  ASSUME tip \in Revs, NEW p \in HostPins, NEW failing
  PROVE  /\ Resolved(p, failing) \in Facts \cup {NoFacts}
         /\ \A r \in HostPin(p) :
              (~Fails(r, failing) /\ ExpiresAt[r] # Off) =>
                /\ Resolved(p, failing) \in Facts
                /\ Resolved(p, failing).notAfter \in Nat
                /\ Resolved(p, failing).notAfter <= ExpiresAt[r]
                /\ Resolved(p, failing).validity = Unknown => Resolved(p, failing).note
<1> DEFINE from == PolicyFrom(FallbackFor(p, failing), failing)
           first == EarliestOf(Enabled(HostPin(p), failing))
           tips == EarliestOf(Enabled({tip}, failing))
           note == from = NoRev \/ \E r \in HostPin(p) : Fails(r, failing)
           validity == IF from = NoRev THEN Unknown ELSE ValidFor[from]
           found == [relevant |-> TRUE, notAfter |-> first, validity |-> validity, tip |-> tips, note |-> note]
           off == \A r \in HostPin(p) : ~Fails(r, failing) /\ ExpiresAt[r] = Off
<1>1. Resolved(p, failing) = IF off THEN NoFacts ELSE found
  BY DEF Resolved
<1>2. first \in Nat \cup {Unknown} /\ tips \in Nat \cup {Unknown}
  BY EarliestEnabled, EarliestTip
<1>3. validity \in Nat \cup {Unknown} /\ (validity = Unknown => from = NoRev)
  BY PolicyIsEnabled DEF Unknown
<1>4. note \in BOOLEAN
  OBVIOUS
<1>5. \A r \in HostPin(p) : (~Fails(r, failing) /\ ExpiresAt[r] # Off) => first \in Nat /\ first <= ExpiresAt[r]
  BY EarliestEnabled DEF Enabled
<1>6. from = NoRev => note
  OBVIOUS
<1> HIDE DEF from, first, tips, note, validity
<1>7. found \in Facts
  BY <1>2, <1>3, <1>4 DEF Facts
<1>8. /\ found.notAfter = first /\ found.validity = validity /\ found.note = note
  OBVIOUS
<1>9. Resolved(p, failing) \in Facts \cup {NoFacts}
  BY <1>1, <1>7
<1>10. ASSUME NEW r \in HostPin(p), ~Fails(r, failing), ExpiresAt[r] # Off
       PROVE  Resolved(p, failing) = found
  BY <1>1, <1>10
<1> HIDE DEF found, off
<1> QED BY <1>3, <1>5, <1>6, <1>7, <1>8, <1>9, <1>10

\* An alert for any facts; none is silent about a certificate that has expired.
LEMMA AlertIsTyped ==
  ASSUME NEW f \in Facts \cup {NoFacts}, clock \in Nat
  PROVE  AlertFor(f) \in Alerts \cup {Silent}
<1>1. CASE ~f.relevant
  BY <1>1 DEF AlertFor
<1>2. CASE f.relevant
  <2>1. f \in Facts
    BY <1>2 DEF NoFacts
  <2>2. CASE f.notAfter = Unknown \/ f.validity = Unknown
    BY <1>2, <2>2 DEF AlertFor, Alerts
  <2>3. CASE ~(f.notAfter = Unknown \/ f.validity = Unknown)
    <3>1. f.notAfter \in Nat /\ f.validity \in Nat
      BY <2>1, <2>3 DEF Facts
    <3>2. Level(f.notAfter, f.validity) \in Levels \cup {"none"}
      BY <3>1 DEF Level, Levels
    <3>3. RemedyFor(f) \in Remedies
      BY DEF RemedyFor, Remedies
    <3> QED BY <1>2, <2>3, <3>2, <3>3 DEF AlertFor, Alerts
  <2> QED BY <2>2, <2>3
<1> QED BY <1>1, <1>2

LEMMA ExpiredIsNotSilent ==
  ASSUME NEW f \in Facts, clock \in Nat,
         f.notAfter \in Nat, f.notAfter <= clock, f.validity = Unknown => f.note
  PROVE  AlertFor(f) # Silent
<1>1. f.relevant /\ f.validity \in Nat \cup {Unknown}
  BY DEF Facts
<1>2. f.notAfter # Unknown
  BY DEF Unknown
<1>3. CASE f.validity = Unknown
  <2>1. AlertFor(f) = [level |-> "info", note |-> TRUE]
    BY <1>1, <1>3 DEF AlertFor
  <2> QED BY <2>1 DEF Silent
<1>4. CASE f.validity # Unknown
  <2>1. Level(f.notAfter, f.validity) = "critical"
    BY <1>1, <1>4 DEF Level
  <2>2. AlertFor(f) = [level |-> "critical", remedy |-> RemedyFor(f)]
    BY <1>1, <1>2, <1>4, <2>1 DEF AlertFor
  <2> QED BY <2>2 DEF Silent
<1> QED BY <1>3, <1>4

LEMMA ResolveKeeps == CertIInv /\ Resolve => CertIInv'
<1> SUFFICES ASSUME CertIInv, Resolve
             PROVE  CertIInv'
  OBVIOUS
<1>1. PICK failing \in SUBSET (HostPin(snapshot) \cup {tip}) :
        /\ facts' = Resolved(snapshot, failing)
        /\ known' = known \cup Cached(HostPin(snapshot) \cup {tip}, failing)
        /\ policies' = policies \cup (Cached({PolicyFrom(FallbackFor(snapshot, failing), failing)}, failing) \ {NoRev})
  BY DEF Resolve
<1>2. /\ tip \in Revs /\ snapshot \in HostPins /\ pins \in HostPins /\ known \subseteq Revs
      /\ UNCHANGED <<pins, tip, clock, alert>> /\ doing' = "alert" /\ snapshot' = NoPins
      /\ stale' = (snapshot # pins)
  BY DEF CertIInv, CertTypeOK, Resolve, facing
<1>3. facts' \in Facts \cup {NoFacts}
  BY <1>1, <1>2, ResolvedIsRight
<1>4. known' \subseteq Revs
  BY <1>1, <1>2, PinsAreTwo DEF Cached
<1>5. policies' \subseteq {r \in Revs : ExpiresAt[r] # Off}
  <2>1. LET from == PolicyFrom(FallbackFor(snapshot, failing), failing)
        IN  from = NoRev \/ (from \in Revs /\ ExpiresAt[from] # Off)
    BY <1>2, PolicyIsEnabled
  <2> QED BY <1>1, <2>1 DEF Cached, CertIInv, CertTypeOK
<1>6. NoPins \in HostPins
  BY DEF NoPins, HostPins
<1>7. CertTypeOK'
  BY <1>2, <1>3, <1>4, <1>5, <1>6 DEF CertIInv, CertTypeOK
<1>8. Reckoned'
  <2> SUFFICES ASSUME ~stale', NEW r \in HostPin(pins) \cap known', ExpiresAt[r] # Off
               PROVE  /\ facts' \in Facts
                      /\ facts'.notAfter \in Nat /\ facts'.notAfter <= ExpiresAt[r]
                      /\ facts'.validity = Unknown => facts'.note
    BY <1>2 DEF Reckoned, HostPin
  <2>1. snapshot = pins /\ ~Fails(r, failing)
    BY <1>1, <1>2 DEF Fails, Cached
  <2> QED BY <1>1, <1>2, <2>1, ResolvedIsRight
<1> QED BY <1>7, <1>8 DEF CertIInv

LEMMA CertInductive == CertIInv /\ [CertNext]_certVars => CertIInv'
<1> SUFFICES ASSUME CertIInv, [CertNext]_certVars
             PROVE  CertIInv'
  OBVIOUS
<1> USE DEF CertIInv, CertTypeOK, Reckoned, HostPin
<1>1. CASE ReadStates
  BY <1>1 DEF ReadStates, facing
<1>2. CASE Resolve
  BY <1>2, ResolveKeeps
<1>3. CASE Raise
  <2>1. alert' \in Alerts \cup {Silent}
    BY <1>3, AlertIsTyped DEF Raise
  <2> QED BY <1>3, <2>1 DEF Raise, facing
<1>4. CASE Look
  BY <1>4 DEF Look, facing
<1>5. CASE ResolveFails
  BY <1>5 DEF ResolveFails, facing, NoPins, HostPins
<1>6. CASE SwitchHost
  BY <1>6 DEF SwitchHost
<1>7. CASE MoveTip
  BY <1>7 DEF MoveTip
<1>8. CASE TimePasses
  BY <1>8, CertAssumption DEF TimePasses
<1>9. CASE UNCHANGED certVars
  BY <1>9 DEF certVars, facing
<1> QED BY <1>1, <1>2, <1>3, <1>4, <1>5, <1>6, <1>7, <1>8, <1>9 DEF CertNext, CertStep

\* nebula.rs: a round that ends with the pins as it read them raises an alert
\* for every expired certificate it knows of, wherever the policy came from,
\* and even when nobody could say what the policy is.
THEOREM ExpiryIsNeverSilent == CertSpec => []CertTypeOK /\ [][ExpiredIsSaid]_certVars
<1>1. CertInit => CertIInv
  BY CertAssumption DEF CertInit, CertIInv, CertTypeOK, Reckoned, HostPins, NoPins
<1>2. CertIInv /\ [CertNext]_certVars => [ExpiredIsSaid]_certVars
  <2> SUFFICES ASSUME CertIInv, CertNext, doing = "alert", doing' = "wait", ~stale,
                      NEW r \in HostPin(pins) \cap known, Expired(r)
               PROVE  alert' # Silent
    BY DEF ExpiredIsSaid
  <2>1. alert' = AlertFor(facts)
    BY DEF CertNext, CertStep, ReadStates, Resolve, Raise, Look, ResolveFails, SwitchHost, MoveTip, TimePasses
  <2>2. /\ facts \in Facts /\ facts.notAfter \in Nat /\ facts.notAfter <= ExpiresAt[r]
        /\ facts.validity = Unknown => facts.note
    BY DEF CertIInv, Reckoned, Expired
  <2>3. ExpiresAt[r] \in Nat /\ ExpiresAt[r] <= clock /\ clock \in Nat
    BY CertAssumption DEF CertIInv, CertTypeOK, Expired
  <2> QED BY <2>1, <2>2, <2>3, ExpiredIsNotSilent
<1>3. CertIInv => CertTypeOK
  BY DEF CertIInv
<1> QED BY <1>1, <1>2, <1>3, CertInductive, PTL DEF CertSpec
=============================================================================
