------------------------------- MODULE Clevis -------------------------------
(***************************************************************************)
(* ogygia-clevis: the timer's run that keeps a Clevis blob bound to the    *)
(* Tang servers of its spec that can be reached.                           *)
(*                                                                         *)
(* A Tang server advertises its current signing key and still answers for  *)
(* the ones rotated out, until they are purged.  A blob is the secret it   *)
(* holds, the pins it is bound to and how many of them open it.  systemd   *)
(* never runs the unit twice at once; any await of a run may fail, and the *)
(* machine may stop between any two steps.                                 *)
(***************************************************************************)
EXTENDS Naturals, FiniteSets

CONSTANTS
  Servers,
  MaxKey,          \* bound: signing keys a server ever has
  MaxOutside       \* bound: what happens to the servers, the spec and the machine

ASSUME ClevisAssumption ==
  MaxKey \in Nat \ {0} /\ MaxOutside \in Nat /\ IsFiniteSet(Servers) /\ Cardinality(Servers) >= 2

Pins == Servers \X (1..MaxKey)

\* Spec::validate: a threshold that the pins can meet, each pin listed once.
Specs == {s \in [t : 1..Cardinality(Servers), pins : SUBSET Pins] : s.t <= Cardinality(s.pins)}

Torn == [t |-> 1, pins |-> {}]     \* a file whose contents never reached the disk

VARIABLES
  isUp, currentKey, keptKeys,   \* the servers: running, their key, and the keys they answer for
  deployed,              \* the spec of the configuration file
  blob, durable,         \* the secret file, and what a crash may bring back in its place
  runAt,                 \* where a run is
  spec, readBlob, reachable, candidate,   \* what it has read, probed and made
  outsideSteps

tang == <<isUp, currentKey, keptKeys>>
runState == <<runAt, spec, readBlob, reachable, candidate>>
clevisVars == <<tang, deployed, blob, durable, runState, outsideSteps>>

ClevisTypeOK ==
  /\ isUp \subseteq Servers
  /\ currentKey \in [Servers -> 1..MaxKey] /\ keptKeys \subseteq Pins
  /\ {deployed, spec} \subseteq Specs
  /\ \A b \in {blob, readBlob, candidate} \cup durable : b.t \in 1..Cardinality(Servers) /\ b.pins \subseteq Pins
  /\ runAt \in {"idle", "probe", "decide", "encrypt", "verify", "persist", "sync"}
  /\ reachable \subseteq Pins
  /\ outsideSteps \in 0..MaxOutside

Outside == outsideSteps < MaxOutside /\ outsideSteps' = outsideSteps + 1

\* A pin whose server answers with an advertisement that has the pinned key.
Advertised == {pin \in Pins : pin[1] \in isUp /\ currentKey[pin[1]] = pin[2]}

\* Enough of the servers it is bound to answer for their key.
Opens(b) == Cardinality({pin \in b.pins : pin[1] \in isUp /\ pin \in keptKeys}) >= b.t

-----------------------------------------------------------------------------
(* A run.                                                                  *)

\* Config::load, and the pins in the headers of the blob.
BeginRun ==
  /\ runAt = "idle"
  /\ runAt' = "probe" /\ spec' = deployed /\ readBlob' = blob
  /\ UNCHANGED <<tang, deployed, blob, durable, reachable, candidate, outsideSteps>>

\* probe_all: every pin of the spec at once; a failure only drops its pin.
ProbeServers ==
  /\ runAt = "probe"
  /\ reachable' = spec.pins \cap Advertised
  /\ runAt' = "decide"
  /\ UNCHANGED <<tang, deployed, blob, durable, spec, readBlob, candidate, outsideSteps>>

Previously == Cardinality(reachable \cap readBlob.pins)

\* Mutant: any blob is replaced by one bound to what is reachable.
AnyChange == reachable # readBlob.pins /\ Cardinality(reachable) >= spec.t

\* Mutant: a pin the blob has counts although its server is gone or rotated.
CountsLost == Cardinality(reachable) > Cardinality(readBlob.pins) /\ Cardinality(reachable) >= spec.t

Improves == Cardinality(reachable) > Previously /\ Cardinality(reachable) >= spec.t

\* decide: keep the blob, or replace it; then the secret is decrypted.
Decide ==
  /\ runAt = "decide"
  /\ runAt' = IF Improves /\ Opens(readBlob) THEN "encrypt" ELSE "idle"
  /\ UNCHANGED <<tang, deployed, blob, durable, spec, readBlob, reachable, candidate, outsideSteps>>

\* Mutant: the threshold is one more than the servers there are.
EncryptAll ==
  /\ runAt = "encrypt"
  /\ candidate' = [t |-> Cardinality(reachable) + 1, pins |-> reachable]
  /\ runAt' = "verify"
  /\ UNCHANGED <<tang, deployed, blob, durable, spec, readBlob, reachable, outsideSteps>>

\* The advertisements handed to clevis are the probed ones.
Encrypt ==
  /\ runAt = "encrypt"
  /\ candidate' = [t |-> spec.t, pins |-> reachable]
  /\ runAt' = "verify"
  /\ UNCHANGED <<tang, deployed, blob, durable, spec, readBlob, reachable, outsideSteps>>

\* The new blob must decrypt to the secret and be bound to what was meant.
Verify ==
  /\ runAt = "verify"
  /\ runAt' = IF Opens(candidate) THEN "persist" ELSE "idle"
  /\ UNCHANGED <<tang, deployed, blob, durable, spec, readBlob, reachable, candidate, outsideSteps>>

\* Mutant: the temporary file is renamed before it is synced.
Unsynced ==
  /\ runAt = "persist"
  /\ blob' = candidate /\ durable' = {blob, Torn}
  /\ runAt' = "sync"
  /\ UNCHANGED <<tang, deployed, spec, readBlob, reachable, candidate, outsideSteps>>

\* swap::replace: the temporary file is synced and renamed over the blob; the
\* rename is on disk when the directory is.
Persist ==
  /\ runAt = "persist"
  /\ blob' = candidate /\ durable' = {blob, candidate}
  /\ runAt' = "sync"
  /\ UNCHANGED <<tang, deployed, spec, readBlob, reachable, candidate, outsideSteps>>

SyncDir ==
  /\ runAt = "sync"
  /\ durable' = {blob} /\ runAt' = "idle"
  /\ UNCHANGED <<tang, deployed, blob, spec, readBlob, reachable, candidate, outsideSteps>>

\* clevis does not run, does not answer within TIMEOUT or says nothing, or a
\* file cannot be written: the run ends, and nothing was replaced.
RunFails ==
  /\ runAt \in {"encrypt", "verify", "persist"} /\ Outside
  /\ runAt' = "idle"
  /\ UNCHANGED <<tang, deployed, blob, durable, spec, readBlob, reachable, candidate>>

RunStep == BeginRun \/ ProbeServers \/ Decide \/ Encrypt \/ Verify \/ Persist \/ SyncDir

-----------------------------------------------------------------------------
(* The machine, the configuration and the servers.                         *)

\* Power is lost: the file is whatever reached the disk.
PowerLoss ==
  /\ Outside
  /\ blob' \in durable /\ durable' = {blob'}
  /\ runAt' = "idle"
  /\ UNCHANGED <<tang, deployed, spec, readBlob, reachable, candidate>>

Deploy(s) ==
  /\ Outside /\ s # deployed
  /\ deployed' = s
  /\ UNCHANGED <<tang, blob, durable, runState>>

Toggle(server) ==
  /\ Outside
  /\ isUp' = IF server \in isUp THEN isUp \ {server} ELSE isUp \cup {server}
  /\ UNCHANGED <<currentKey, keptKeys, deployed, blob, durable, runState>>

Rotate(server) ==
  /\ Outside /\ currentKey[server] < MaxKey
  /\ currentKey' = [currentKey EXCEPT ![server] = @ + 1]
  /\ keptKeys' = keptKeys \cup {<<server, currentKey'[server]>>}
  /\ UNCHANGED <<isUp, deployed, blob, durable, runState>>

\* A server deletes the keys it rotated out, once the blob does without them.
Purge(server) ==
  LET old == {pin \in keptKeys : pin[1] = server /\ pin[2] < currentKey[server]}
  IN  /\ Outside /\ old # {} /\ old \cap (blob.pins \cup readBlob.pins \cup candidate.pins \cup UNION {b.pins : b \in durable}) = {}
      /\ keptKeys' = keptKeys \ old
      /\ UNCHANGED <<isUp, currentKey, deployed, blob, durable, runState>>

FirstKeys == Servers \X {1}

ClevisInit ==
  /\ isUp = Servers /\ currentKey = [s \in Servers |-> 1] /\ keptKeys = FirstKeys
  /\ \E t \in 1..Cardinality(Servers) : deployed = [t |-> t, pins |-> FirstKeys]
  /\ \E t \in 1..2, pins \in SUBSET FirstKeys :
       t <= Cardinality(pins) /\ blob = [t |-> t, pins |-> pins]
  /\ durable = {blob}
  /\ runAt = "idle" /\ spec = deployed /\ readBlob = blob /\ reachable = {} /\ candidate = blob
  /\ outsideSteps = 0

\* Specs of one pin a server: what is deployed follows the servers' keys.
Deployable == {s \in Specs : s.pins = {<<x, currentKey[x]>> : x \in Servers} /\ s.t = 2}

ClevisNext ==
  \/ RunStep \/ RunFails \/ PowerLoss
  \/ \E s \in Deployable : Deploy(s)
  \/ \E server \in Servers : Toggle(server) \/ Rotate(server) \/ Purge(server)

ClevisSpec == ClevisInit /\ [][ClevisNext]_clevisVars

-----------------------------------------------------------------------------
(* Properties.                                                             *)

\* What is on disk, or what a power loss would leave there, can be decrypted
\* once every server runs again, whatever interrupted the run that wrote it.
NeverLocksOut ==
  \A b \in {blob} \cup durable : Cardinality(b.pins \cap keptKeys) >= b.t

\* The secret survives whatever stops a run, at each of its stages: a blob that
\* nobody could decrypt is never the only one on disk.
ClevisInv == ClevisTypeOK /\ NeverLocksOut

\* A blob is traded for another only by a run that was past its checks, and
\* the new one covers strictly more of the servers that run could reach.
TradesUp ==
  blob' # blob /\ runAt = "persist" =>
    Cardinality(blob'.pins \cap reachable) > Cardinality(blob.pins \cap reachable)

\* When the servers and the spec settle, the blob ends up bound to every pin
\* of the spec that can be reached, if those can open it at all.
BindsReachable == <>(runAt # "idle") =>
  <>[](\/ deployed.pins \cap Advertised \subseteq blob.pins
       \/ Cardinality(deployed.pins \cap Advertised) < deployed.t
       \/ ~Opens(blob))

\* The blob follows the servers: each trade covers more of those that answer,
\* and the trades end when the blob is bound to all that do.
FollowsServers == [][TradesUp]_clevisVars /\ BindsReachable

=============================================================================
