----------------------------- MODULE NebulaKeys -----------------------------
(***************************************************************************)
(* `ogygia nebula`: the operator's CA, the hosts' keys and the directory   *)
(* of certificates of the flake, which `rekey` brings up to date.          *)
(*                                                                         *)
(* A certificate is filed under the hash of the spec it was signed for, so *)
(* a spec stands for its file name.  Any command may be killed, nebula-cert*)
(* and the evaluation may fail, and the operator edits the flake while a   *)
(* rekey runs.  Only one command runs at a time.                           *)
(***************************************************************************)
EXTENDS Naturals, FiniteSets

CONSTANTS
  Machines,        \* nixosConfigurations and ogygiaConfigurations
  HostKeys, Groups,
  Lifetimes,       \* values of validitySecs, in days
  MaxCas, MaxDisturbances, MaxDay,   \* bounds
  Nothing

\* What a certificate's file is named after, what it says, and the file itself: a
\* temporary one may hold part of a certificate, and a damaged one holds none.
HostSpecs == [host : Machines, pubKey : HostKeys \cup {Nothing}, groups : Groups, ca : 0..MaxCas]
Certs     == [name : Machines, spec : HostSpecs, notAfter : Nat]
CertFiles == [temp : BOOLEAN, spec : HostSpecs, cert : Certs \cup {Nothing}]

ASSUME NebulaKeysAssumption ==
  /\ Nothing \notin Machines \cup HostKeys \cup Certs
  /\ Lifetimes \subseteq Nat \ {0} /\ {MaxCas, MaxDisturbances, MaxDay} \subseteq Nat

VARIABLES
  ca,              \* the CA key and ca.crt: which one it is, 0 before `init`
  keyOf, shown,    \* the key on each machine, the public key last printed for it
  options,         \* ogygia.nebula of each machine in the flake
  certDir,         \* the files of nebula/, except ca.crt
  today, disturbed,   \* the day, and how often anything was edited, forced or failed
  rekey,           \* the run of `rekey`, and what it has done so far
  keygen,          \* the run of `keygen`
  finished         \* the last `rekey`, when it ran to its end and nothing was edited since, or a
                   \* dry run while the run it announces is on

world == <<ca, keyOf, options, today>>
nebulaKeysVars == <<world, disturbed, shown, certDir, rekey, keygen, finished>>

Options == [enable : BOOLEAN, pubKey : HostKeys \cup {Nothing}, groups : Groups, validity : Lifetimes]

\* spec: null while there is no pubKey.
SpecOf(m) == [host |-> m, pubKey |-> options[m].pubKey, groups |-> options[m].groups, ca |-> ca]

\* The spec and the CA are part of what nebula-cert signs.
Cert(spec, validity) == [name |-> spec.host, spec |-> spec, notAfter |-> today + validity]

IsSigned(file) == file.cert # Nothing

Idle == [at |-> "idle"]

HasSpec(m) == options[m].enable /\ options[m].pubKey # Nothing

NebulaKeysTypeOK ==
  /\ ca \in 0..MaxCas
  /\ keyOf \in [Machines -> HostKeys \cup {Nothing}] /\ shown \in [Machines -> HostKeys \cup {Nothing}]
  /\ options \in [Machines -> Options]
  /\ certDir \subseteq CertFiles
  /\ rekey.at \in {"idle", "evaluate", "sign", "rename", "prune"}
  /\ keygen.at \in {"idle", "generate", "install", "print"}
  /\ today \in 0..MaxDay /\ disturbed \in 0..MaxDisturbances

\* A fresh checkout: machines with a key that the flake has, and machines without.
NebulaKeysInit ==
  /\ ca = 0 /\ keyOf \in [Machines -> HostKeys \cup {Nothing}] /\ shown = keyOf
  /\ options \in [Machines -> {o \in Options : o.enable}]
  /\ \A m \in Machines : options[m].pubKey = keyOf[m]
  /\ \A m, n \in Machines : m # n => keyOf[m] # keyOf[n] \/ keyOf[m] = Nothing
  /\ certDir = {} /\ today = 0 /\ disturbed = 0
  /\ rekey = Idle /\ keygen = Idle /\ finished = Nothing

\* The operator edits or forces, or something fails.
Disturbs == disturbed < MaxDisturbances /\ disturbed' = disturbed + 1 /\ finished' = Nothing

-----------------------------------------------------------------------------
(* ogygia nebula init.  nebula-cert makes the pair, or fails.              *)

Create(forced) ==
  /\ rekey = Idle /\ keygen = Idle /\ ca < MaxCas
  /\ IF forced THEN Disturbs ELSE ca = 0 /\ UNCHANGED <<disturbed, finished>>
  /\ ca' = ca + 1
  /\ UNCHANGED <<keyOf, shown, options, certDir, today, rekey, keygen>>

(* ogygia nebula keygen, a script that runs on the machine over ssh.       *)

Keygen(m, forced) ==
  /\ keygen = Idle /\ rekey = Idle
  /\ IF forced THEN Disturbs ELSE keyOf[m] = Nothing /\ UNCHANGED <<disturbed, finished>>
  /\ keygen' = [at |-> "generate", host |-> m]
  /\ UNCHANGED <<world, shown, certDir, rekey>>

Generate ==
  /\ keygen.at = "generate"
  /\ \E k \in HostKeys \ ({keyOf[m] : m \in Machines} \cup {shown[m] : m \in Machines}) :
       keygen' = [at |-> "install", host |-> keygen.host, key |-> k]
  /\ UNCHANGED <<world, disturbed, shown, certDir, rekey, finished>>

InstallKey ==
  /\ keygen.at = "install"
  /\ keyOf' = [keyOf EXCEPT ![keygen.host] = keygen.key]
  /\ keygen' = [keygen EXCEPT !.at = "print"]
  /\ UNCHANGED <<ca, options, today, disturbed, shown, certDir, rekey, finished>>

PrintKey ==
  /\ keygen.at = "print"
  /\ shown' = [shown EXCEPT ![keygen.host] = keygen.key] /\ keygen' = Idle
  /\ UNCHANGED <<world, disturbed, certDir, rekey, finished>>

\* The connection breaks: the key may be installed with nobody told.
LoseConnection ==
  /\ keygen.at # "idle" /\ keygen' = Idle /\ Disturbs
  /\ UNCHANGED <<world, shown, certDir, rekey>>

-----------------------------------------------------------------------------
(* ogygia nebula rekey.                                                    *)

\* list_hosts and find_host.  Machines are taken in any order.
Targets(args) == IF args.host = Nothing THEN Machines ELSE {args.host}

\* Either --all or --host.
Arguments == [host : Machines \cup {Nothing}, force : BOOLEAN, dryRun : BOOLEAN]

\* read_cert_dir: every readable certificate, a temporary one too.
ReadCertDir == {file \in certDir : IsSigned(file)}

StartRekey(args) ==
  /\ rekey = Idle /\ keygen = Idle
  /\ rekey' = [at |-> "evaluate", args |-> args, todo |-> Targets(args), onDisk |-> ReadCertDir,
               now |-> today, keep |-> {}, deltas |-> {}, job |-> Nothing, since |-> disturbed]
  /\ finished' = IF finished # Nothing /\ finished.args.dryRun /\ finished.args = [args EXCEPT !.dryRun = TRUE]
                 THEN finished ELSE Nothing
  /\ UNCHANGED <<world, disturbed, shown, certDir, keygen>>

\* Mutant: a certificate is renewed once it has expired.
PastExpiry(cert, now, validity) == cert.notAfter <= now

\* past_renewal: no more than two thirds of the configured validity is left.
PastRenewal(cert, now, validity) == 3 * cert.notAfter <= 3 * now + 2 * validity

Filed(files, spec) == {file \in files : ~file.temp /\ file.spec = spec}

\* latest_signed_for.  No two certificates expire in the same second: an order stands for it.
Longest(certs) == {CHOOSE c \in certs : \A d \in certs : c.notAfter >= d.notAfter}

\* The certificate a new one is said to replace.
Previous(files, spec) ==
  LET filed  == Filed(files, spec)
      signed == {file.cert : file \in {f \in files : f.cert.name = spec.host}}
  IN IF filed # {} THEN {file.cert : file \in filed} ELSE IF signed = {} THEN {} ELSE Longest(signed)

Due(run, spec, validity) ==
  \/ Filed(certDir, spec) = {}
  \/ run.args.force
  \/ \E file \in Filed(run.onDisk, spec) : PastRenewal(file.cert, run.now, validity)

DueIn(run, m) == HasSpec(m) /\ Due(run, SpecOf(m), options[m].validity)

\* Delta: the groups it says are added and removed, and an expiry that moves.
Delta(run, spec, validity) ==
  LET previous == Previous(run.onDisk, spec)
      was      == UNION {c.spec.groups : c \in previous}
  IN [host |-> spec.host, added |-> spec.groups \ was, removed |-> was \ spec.groups,
      moves |-> {c.notAfter : c \in previous} \ {run.now + validity}]

Skipped(m) == [rekey EXCEPT !.todo = @ \ {m}]

\* current_cert_paths has the file of every spec, up to date or not.
KeptSpec(m) == [Skipped(m) EXCEPT !.keep = @ \cup {SpecOf(m)}]

Told(m) == [KeptSpec(m) EXCEPT !.deltas = @ \cup {Delta(rekey, SpecOf(m), options[m].validity)}]

\* host_info: what the flake says when its turn comes.
Evaluate(m) ==
  /\ rekey.at = "evaluate" /\ m \in rekey.todo
  /\ rekey' = CASE ~HasSpec(m) -> Skipped(m)
                [] HasSpec(m) /\ ~DueIn(rekey, m) -> KeptSpec(m)
                [] DueIn(rekey, m) /\ rekey.args.dryRun -> Told(m)
                [] OTHER -> [Told(m) EXCEPT !.at = "sign", !.job = Cert(SpecOf(m), options[m].validity)]
  /\ UNCHANGED <<world, disturbed, shown, certDir, keygen, finished>>

Temp(cert) == [temp |-> TRUE, spec |-> rekey.job.spec, cert |-> cert]

\* sign_with_atomic_rename: nebula-cert writes a temporary file, in the same directory.
Sign ==
  /\ rekey.at = "sign" /\ ca # 0
  /\ certDir' = certDir \cup {Temp(rekey.job)}
  /\ rekey' = [rekey EXCEPT !.at = "rename"]
  /\ UNCHANGED <<world, disturbed, shown, keygen, finished>>

\* It fails, or is interrupted at the passphrase: part of a file may stay.
SignFails ==
  /\ rekey.at = "sign" /\ rekey' = Idle /\ Disturbs
  /\ certDir' \in {certDir, certDir \cup {Temp(Nothing)}}
  /\ UNCHANGED <<world, shown, keygen>>

Rename ==
  /\ rekey.at = "rename"
  /\ certDir' = (certDir \ (Filed(certDir, rekey.job.spec) \cup {Temp(rekey.job)}))
                  \cup {[Temp(rekey.job) EXCEPT !.temp = FALSE]}
  /\ rekey' = [rekey EXCEPT !.at = "evaluate", !.job = Nothing]
  /\ UNCHANGED <<world, disturbed, shown, keygen, finished>>

RekeyEnds ==
  /\ rekey' = Idle
  /\ finished' = IF rekey.since = disturbed THEN [args |-> rekey.args, deltas |-> rekey.deltas] ELSE Nothing

\* prune_orphans runs only after a whole --all: it goes by the names, whatever the contents.
Orphans(keep) == {file \in certDir : file.temp \/ file.spec \notin keep}

\* Mutant: a dry run prunes.
PrunesAnyway ==
  /\ rekey.at = "evaluate" /\ rekey.todo = {}
  /\ IF rekey.args.host = Nothing THEN rekey' = [rekey EXCEPT !.at = "prune"] /\ UNCHANGED finished ELSE RekeyEnds
  /\ UNCHANGED <<world, disturbed, shown, certDir, keygen>>

AllTargetsDone ==
  /\ rekey.at = "evaluate" /\ rekey.todo = {}
  /\ IF rekey.args.host = Nothing /\ ~rekey.args.dryRun
     THEN rekey' = [rekey EXCEPT !.at = "prune"] /\ UNCHANGED finished
     ELSE RekeyEnds
  /\ UNCHANGED <<world, disturbed, shown, certDir, keygen>>

Prune ==
  /\ rekey.at = "prune"
  /\ \/ \E file \in Orphans(rekey.keep) : certDir' = certDir \ {file} /\ UNCHANGED <<rekey, finished>>
     \/ Orphans(rekey.keep) = {} /\ RekeyEnds /\ UNCHANGED certDir
  /\ UNCHANGED <<world, disturbed, shown, keygen>>

\* An evaluation fails, a file cannot be removed, or the operator interrupts it.
Aborts ==
  /\ rekey.at # "idle" /\ rekey' = Idle /\ Disturbs
  /\ UNCHANGED <<world, shown, certDir, keygen>>

-----------------------------------------------------------------------------
(* The operator and time.                                                  *)

\* keygen's output is pasted as pubKey; a machine is enabled, regrouped or given another validity.
Edit(m) ==
  /\ Disturbs
  /\ \E o \in Options :
       /\ o # options[m] /\ options' = [options EXCEPT ![m] = o]
       /\ o.pubKey \in {options[m].pubKey, shown[m]}
       /\ Cardinality({f \in DOMAIN o : o[f] # options[m][f]}) = 1
  /\ UNCHANGED <<ca, keyOf, today, shown, certDir, rekey, keygen>>

\* A merge or a full disk leaves a certificate nebula-cert cannot read.
Corrupt(file) ==
  /\ Disturbs /\ IsSigned(file) /\ ~file.temp
  /\ certDir' = (certDir \ {file}) \cup {[file EXCEPT !.cert = Nothing]}
  /\ UNCHANGED <<ca, keyOf, options, today, shown, rekey, keygen>>

NextDay ==
  /\ rekey = Idle /\ keygen = Idle /\ today < MaxDay
  /\ today' = today + 1 /\ finished' = Nothing
  /\ UNCHANGED <<ca, keyOf, options, disturbed, shown, certDir, rekey, keygen>>

NebulaKeysNext ==
  \/ \E forced \in BOOLEAN : Create(forced) \/ \E m \in Machines : Keygen(m, forced)
  \/ Generate \/ InstallKey \/ PrintKey \/ LoseConnection
  \/ \E args \in Arguments : StartRekey(args)
  \/ \E m \in Machines : Evaluate(m) \/ Edit(m)
  \/ Sign \/ SignFails \/ Rename \/ AllTargetsDone \/ Prune \/ Aborts
  \/ \E file \in certDir : Corrupt(file)
  \/ NextDay

NebulaKeysSpec == NebulaKeysInit /\ [][NebulaKeysNext]_nebulaKeysVars

-----------------------------------------------------------------------------
(* Properties.                                                             *)

\* A `rekey --all` that ran to its end over an unchanged flake leaves the certificate
\* of every machine with a spec, whoever failed before, and nothing else; each is for
\* this CA, this key and these groups, and has more than two thirds of its validity
\* left, unless it was unreadable: that one is left to the operator.
RekeyBringsUpToDate ==
  rekey = Idle /\ finished # Nothing /\ finished.args.host = Nothing /\ ~finished.args.dryRun =>
    /\ {file.spec : file \in certDir} = {SpecOf(m) : m \in {n \in Machines : HasSpec(n)}}
    /\ \A file \in certDir :
         /\ ~file.temp
         /\ ~IsSigned(file) \/ 3 * (file.cert.notAfter - today) > 2 * options[file.spec.host].validity

\* Wherever a rekey stops, and whoever's evaluation or signature failed, the file that a
\* machine's configuration names is still there after each of its steps, and what was
\* readable stays readable: a deployment in between finds it.
CurrentCertsStay ==
  rekey # Idle /\ rekey.since = disturbed' =>
    \A file \in certDir : ~file.temp /\ file.spec \in {SpecOf(m) : m \in {n \in Machines : HasSpec(n)}} =>
      \E other \in Filed(certDir', file.spec) : IsSigned(file) => IsSigned(other)

\* What a dry run announces is what the run without --dry-run that follows it does: to
\* announce changes nothing, not even the directory the next run compares with.
DryRunIsTrue ==
  finished # Nothing /\ finished' # Nothing /\ finished' # finished
    /\ finished.args.dryRun /\ finished'.args = [finished.args EXCEPT !.dryRun = FALSE]
  => finished'.deltas = finished.deltas

\* A rekey does what it announced: it leaves everything current when it ends,
\* and takes away nothing that is current while it runs, wherever it stops.
RekeyIsSound ==
  []RekeyBringsUpToDate /\ [][CurrentCertsStay /\ DryRunIsTrue]_nebulaKeysVars
=============================================================================
