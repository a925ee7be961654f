---------------------------- MODULE NebulaDaemon ----------------------------
(***************************************************************************)
(* ogygia-macos-nebulad: the Mac's Nebula key, the loop that evaluates the *)
(* fleet's configuration, and the supervisor that keeps a Nebula process   *)
(* running on the file the loop writes.                                    *)
(*                                                                         *)
(* The runtime has one thread, so the loop and the supervisor interleave   *)
(* where they await; the process may be killed between any two writes, and *)
(* Nebula reads its config some time after it was spawned.                 *)
(***************************************************************************)
EXTENDS Naturals

CONSTANTS
  Configs,         \* rendered configurations, each with its certificate
  Stored,          \* settings an administrator, a profile or `defaults` may store
  Keypairs,
  MaxDisturbances, \* bound: how often anything outside the daemon interferes
  NoFile

\* A setting is absent, does not validate, or is fit for a flake reference.
Parts == {"absent", "malformed", "fit"}

ASSUME NebulaAssumption ==
  /\ MaxDisturbances \in Nat
  /\ NoFile \notin Configs \cup Keypairs
  /\ Stored \subseteq [repository : Parts, branch : Parts, device : Parts]

VARIABLES
  followed,        \* the stored settings
  published,       \* what the two branches of the repository evaluate to
  hostKey, hostPub, configFile, certFile,
  certFailed,      \* history: the certificate of the config could not be written
  daemon,          \* "down", "keygen", "up", "stopping"
  publicKey, address,     \* Status: the key, and the certificate it shows
  updateError,
  updateAt, target,    \* the update loop, and the config it evaluated
  unseen,          \* changes has a generation the supervisor did not see
  supervisor, child,
  disturbed

Unset == [repository |-> "absent", branch |-> "absent", device |-> "absent"]

\* The branch the settings name, or the default one.
Installables == {"fit", "absent"}

\* validate: every setting that is present.
Valid(settings) == "malformed" \notin {settings.repository, settings.branch, settings.device}

\* installable: none until the repository and the device are both set.
Installable(settings) ==
  IF "absent" \in {settings.repository, settings.device} THEN "none"
  ELSE IF Valid(settings) THEN settings.branch ELSE "invalid"

files == <<hostKey, hostPub, configFile, certFile, certFailed>>
status == <<publicKey, address, updateError>>
updating == <<updateAt, target>>
running == <<unseen, supervisor, child>>
outside == <<followed, published>>
nebulaVars == <<outside, files, daemon, status, updating, running, disturbed>>

NebulaTyped ==
  /\ followed \in Stored \cup {Unset}
  /\ published \in [Installables -> Configs]
  /\ {hostKey, hostPub, publicKey} \subseteq Keypairs \cup {NoFile}
  /\ {configFile, certFile, address, target} \subseteq Configs \cup {NoFile}
  /\ daemon \in {"down", "keygen", "up", "stopping"}
  /\ updateError \in {"none", "settings", "nix", "write"}
  /\ updateAt \in {"load", "evaluate", "cert", "info", "finish", "wait"}
  /\ unseen \in BOOLEAN /\ certFailed \in BOOLEAN
  /\ supervisor \in {"top", "stopped", "failed", "running", "backoff", "stopping", "quit"}
  /\ child \in Configs \cup {NoFile, "starting"}

NebulaTypeOK == NebulaTyped /\ disturbed \in 0..MaxDisturbances

Disturb == disturbed < MaxDisturbances /\ disturbed' = disturbed + 1

\* Between the two writes of set_config nothing is awaited.
Awaiting == updateAt # "cert"

-----------------------------------------------------------------------------
(* Starting, stopping and dying.                                           *)

Begin ==
  /\ daemon' = "up"
  /\ publicKey' = hostPub' /\ address' = certFile /\ certFailed' = FALSE
  /\ updateError' = "none"
  /\ updateAt' = "load" /\ target' = NoFile
  /\ unseen' = FALSE /\ supervisor' = "top" /\ child' = NoFile

\* Mutant: a key without its public half is kept.
EnsureEither ==
  /\ daemon = "down"
  /\ IF hostKey # NoFile \/ hostPub # NoFile
     THEN UNCHANGED <<hostKey, hostPub>> /\ Begin
     ELSE daemon' = "keygen" /\ hostKey' = NoFile /\ hostPub' = NoFile
          /\ UNCHANGED <<certFailed, status, updating, running>>
  /\ UNCHANGED <<outside, configFile, certFile, disturbed>>

\* run, from ensure_key to the spawned tasks.
EnsureKey ==
  /\ daemon = "down"
  /\ IF hostKey # NoFile /\ hostPub # NoFile
     THEN UNCHANGED <<hostKey, hostPub>> /\ Begin
     ELSE daemon' = "keygen" /\ hostKey' = NoFile /\ hostPub' = NoFile
          /\ UNCHANGED <<certFailed, status, updating, running>>
  /\ UNCHANGED <<outside, configFile, certFile, disturbed>>

\* nebula-cert keygen writes the key, then its public half.
KeygenKey ==
  /\ daemon = "keygen" /\ hostKey = NoFile
  /\ hostKey' \in Keypairs
  /\ UNCHANGED <<outside, hostPub, configFile, certFile, certFailed, daemon, status, updating, running, disturbed>>

KeygenPub ==
  /\ daemon = "keygen" /\ hostKey # NoFile
  /\ hostPub' = hostKey
  /\ Begin
  /\ UNCHANGED <<outside, hostKey, configFile, certFile, disturbed>>

\* Killed, or the power is gone; Nebula goes with it. launchd starts it again.
Die ==
  /\ daemon # "down" /\ Disturb
  /\ daemon' = "down" /\ child' = NoFile /\ supervisor' = "quit"
  /\ updateAt' = "wait" /\ unseen' = FALSE
  /\ UNCHANGED <<outside, files, status, target>>

\* A signal, or replaced saw a new executable.
Stop ==
  /\ daemon = "up" /\ Disturb /\ Awaiting
  /\ daemon' = "stopping"
  /\ UNCHANGED <<outside, files, status, updating, running>>

DaemonExit ==
  /\ daemon = "stopping" /\ supervisor = "quit" /\ Awaiting
  /\ daemon' = "down" /\ updateAt' = "wait" /\ unseen' = FALSE
  /\ UNCHANGED <<outside, files, status, target, supervisor, child, disturbed>>

-----------------------------------------------------------------------------
(* The update loop.                                                        *)

Updating(at) == daemon \in {"up", "stopping"} /\ updateAt = at

\* What set_config does before its first await but one: the config on disk is
\* compared, and replaced if it differs. (Invalid, it has no certificate.)
SetConfig(config) ==
  \/ /\ config = configFile
     /\ updateAt' = "finish" /\ UNCHANGED <<configFile, certFailed, updateError, disturbed>>
  \/ /\ config # configFile
     /\ configFile' = config
     /\ IF config = NoFile THEN updateAt' = "info" /\ certFailed' = FALSE
                          ELSE updateAt' = "cert" /\ UNCHANGED certFailed
     /\ UNCHANGED <<updateError, disturbed>>
  \/ /\ config # configFile /\ Disturb
     /\ updateAt' = "finish" /\ updateError' = "write" /\ UNCHANGED <<configFile, certFailed>>

\* update: read the settings; unconfigured means off, invalid ones change
\* nothing, and any other has nix fetch and evaluate what they name.
Load ==
  /\ Updating("load")
  /\ \/ Installable(followed) = "none" /\ target' = NoFile /\ SetConfig(NoFile)
     \/ /\ Installable(followed) = "invalid"
        /\ updateError' = "settings" /\ updateAt' = "wait" /\ UNCHANGED <<target, configFile, certFailed, disturbed>>
     \/ /\ Installable(followed) \in Installables
        /\ updateAt' = "evaluate" /\ target' = published[Installable(followed)]
        /\ UNCHANGED <<updateError, configFile, certFailed, disturbed>>
  /\ UNCHANGED <<outside, hostKey, hostPub, certFile, daemon, publicKey, address, running>>

\* nix eval answers: the settings may be others by now.
Evaluate ==
  /\ Updating("evaluate")
  /\ SetConfig(target)
  /\ UNCHANGED <<outside, hostKey, hostPub, certFile, daemon, publicKey, address, target, running>>

\* It fails, takes longer than EVAL_TIMEOUT, or render refuses the result.
EvaluateFails ==
  /\ Updating("evaluate") /\ Disturb
  /\ updateError' = "nix" /\ updateAt' = "wait"
  /\ UNCHANGED <<outside, files, daemon, publicKey, address, target, running>>

WriteCert ==
  /\ Updating("cert")
  /\ \/ certFile' = target /\ certFailed' = FALSE
        /\ updateAt' = "info" /\ UNCHANGED <<updateError, disturbed>>
     \/ Disturb /\ certFailed' = TRUE
        /\ updateError' = "write" /\ updateAt' = "finish" /\ UNCHANGED certFile
  /\ UNCHANGED <<outside, hostKey, hostPub, configFile, daemon, publicKey, address, target, running>>

\* Mutant: the supervisor is not told.
TellNobody == UNCHANGED unseen

TellSupervisor == unseen' = TRUE

\* cert_info was awaited, or failed; then nothing is until the change is out.
Announce ==
  /\ Updating("info")
  /\ \/ target # NoFile /\ address' = certFile
     \/ address' = NoFile
  /\ TellSupervisor
  /\ updateAt' = "finish"
  /\ UNCHANGED <<outside, files, daemon, publicKey, updateError, target, supervisor, child, disturbed>>

\* set_config has no result, so whatever it reported is cleared here.
FinishUpdate ==
  /\ Updating("finish")
  /\ updateError' = "none" /\ updateAt' = "wait"
  /\ UNCHANGED <<outside, files, daemon, publicKey, address, target, running, disturbed>>

\* UPDATE_INTERVAL is over, or refresh was notified.
NextUpdate ==
  /\ Updating("wait")
  /\ updateAt' = "load"
  /\ UNCHANGED <<outside, files, daemon, status, target, running, disturbed>>

UpdateStep == Load \/ Evaluate \/ WriteCert \/ Announce \/ FinishUpdate \/ NextUpdate

-----------------------------------------------------------------------------
(* The supervisor, from one await to the next.                             *)

\* Its loop from the top: changes are seen, then the file is looked for, and
\* Nebula is spawned; the status it sets follows from where it is.
Top ==
  \/ /\ daemon = "stopping"
     /\ supervisor' = "quit" /\ child' = NoFile /\ UNCHANGED <<unseen, disturbed>>
  \/ /\ daemon = "up" /\ configFile = NoFile
     /\ unseen' = FALSE /\ supervisor' = "stopped" /\ child' = NoFile /\ UNCHANGED disturbed
  \/ /\ daemon = "up" /\ configFile # NoFile
     /\ unseen' = FALSE /\ supervisor' = "running" /\ child' = "starting" /\ UNCHANGED disturbed
  \/ /\ daemon = "up" /\ configFile # NoFile /\ Disturb   \* it cannot be spawned
     /\ unseen' = FALSE /\ supervisor' = "failed" /\ child' = NoFile

\* Mutant: what changed while nothing ran is looked at by the next change.
DeafTop ==
  /\ supervisor \in {"top", "failed", "backoff"}
  /\ Awaiting /\ Top
  /\ UNCHANGED <<outside, files, daemon, status, updating>>

\* Started, told of a change while nothing runs, or tired of waiting.
Supervise ==
  /\ \/ supervisor \in {"top", "failed", "backoff"}
     \/ supervisor = "stopped" /\ (unseen \/ daemon = "stopping")
  /\ Awaiting /\ Top
  /\ UNCHANGED <<outside, files, daemon, status, updating>>

\* A change, or the shutdown: Nebula is asked to exit, and killed if it does not.
StopChild ==
  /\ supervisor = "running" /\ (unseen \/ daemon = "stopping") /\ Awaiting
  /\ supervisor' = "stopping"
  /\ unseen' = (unseen /\ daemon = "stopping")
  /\ UNCHANGED <<outside, files, daemon, status, updating, child, disturbed>>

ChildStopped ==
  /\ supervisor = "stopping" /\ Awaiting
  /\ Top
  /\ UNCHANGED <<outside, files, daemon, status, updating>>

\* Nebula, a process of its own, reads its config, and exits without one.
ChildReads ==
  /\ child = "starting"
  /\ child' = configFile
  /\ supervisor' = IF configFile = NoFile /\ supervisor = "running" THEN "backoff" ELSE supervisor
  /\ UNCHANGED <<outside, files, daemon, status, updating, unseen, disturbed>>

\* Mutant: the child that exited is still held.
ChildHeld ==
  /\ child \in Configs /\ supervisor = "running" /\ Disturb
  /\ child' = "exited" /\ supervisor' = "backoff"
  /\ UNCHANGED <<outside, files, daemon, status, updating, unseen>>

ChildExits ==
  /\ child \in Configs /\ supervisor = "running" /\ Disturb
  /\ child' = NoFile /\ supervisor' = "backoff"
  /\ UNCHANGED <<outside, files, daemon, status, updating, unseen>>

SupervisorStep == Supervise \/ StopChild \/ ChildStopped

-----------------------------------------------------------------------------
(* The socket, and the world.                                              *)

\* respond to set_settings: from an administrator, not under a profile, with
\* a repository and a device, and valid; stored, and the loop is notified.
SetSettings(settings) ==
  /\ daemon \in {"up", "stopping"} /\ Awaiting /\ Disturb
  /\ Installable(settings) \in Installables /\ settings # followed
  /\ followed' = settings
  /\ UNCHANGED <<published, files, daemon, status, updateAt, target, running>>

\* defaults write, or a profile: nobody is notified, and nothing validates.
DefaultsWrite(settings) ==
  /\ Disturb /\ settings # followed
  /\ followed' = settings
  /\ UNCHANGED <<published, files, daemon, status, updating, running>>

Publish(f, config) ==
  /\ Disturb /\ config # published[f]
  /\ published' = [published EXCEPT ![f] = config]
  /\ UNCHANGED <<followed, files, daemon, status, updating, running>>

NebulaInit ==
  /\ followed = Unset
  /\ published \in [Installables -> Configs]
  /\ hostKey = NoFile /\ hostPub = NoFile /\ configFile = NoFile /\ certFile = NoFile
  /\ certFailed = FALSE
  /\ daemon = "down" /\ publicKey = NoFile /\ address = NoFile /\ updateError = "none"
  /\ updateAt = "wait" /\ target = NoFile
  /\ unseen = FALSE /\ supervisor = "quit" /\ child = NoFile
  /\ disturbed = 0

StartStep == EnsureKey \/ KeygenKey \/ KeygenPub \/ DaemonExit

NebulaNext ==
  \/ StartStep \/ UpdateStep \/ SupervisorStep \/ ChildReads
  \/ EvaluateFails \/ ChildExits \/ Die \/ Stop
  \/ \E settings \in Stored : SetSettings(settings) \/ DefaultsWrite(settings)
  \/ \E f \in Installables, config \in Configs : Publish(f, config)

NebulaSpec == NebulaInit /\ [][NebulaNext]_nebulaVars

-----------------------------------------------------------------------------
(* Properties.                                                             *)

\* Every change on disk restarts Nebula: where the supervisor has seen all
\* there is to see, Nebula runs the file that is there, unless the
\* certificate of that file could not be written.
NebulaInSync ==
  /\ daemon = "up" /\ ~unseen /\ ~certFailed /\ updateAt \notin {"cert", "info"}
  => /\ supervisor = "running" => child \in {"starting", configFile}
     /\ supervisor = "stopped" => configFile = NoFile

\* The public key the app shows and the fleet signs is that of the key Nebula
\* uses, wherever the generation of the key was interrupted.
KeyPairs ==
  daemon \in {"up", "stopping"} => hostKey # NoFile /\ hostPub = hostKey /\ publicKey = hostKey

\* What Nebula is given hangs together while the daemon, its supervisor and the
\* app run side by side: the key pair, and the config with its certificate.
NebulaInv == NebulaTypeOK /\ KeyPairs /\ NebulaInSync

\* What Nebula should be running in the end.
Wanted ==
  CASE Installable(followed) = "none" -> NoFile
    [] Installable(followed) = "invalid" -> configFile
    [] OTHER -> published[Installable(followed)]

\* Once the outside leaves it alone, the config is what the repository says,
\* or gone when nothing is followed, and Nebula runs it, unless the
\* certificate of that config could not be written.
NebulaConverges ==
  <>[](configFile = Wanted /\ (~certFailed => child = Wanted))

\* supervisor.rs: one Nebula process runs on the current config. A config
\* whose certificate failed to be written is never announced to it.
NebulaOnCurrentConfig == <>[](child = configFile)

=============================================================================
