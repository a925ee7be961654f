----------------------------- MODULE CertAlerts -----------------------------
(***************************************************************************)
(* ogygia-dashboard's Nebula certificate alerts for one host: the task     *)
(* that resolves what the host's commits and the main tip say about its    *)
(* certificate when the host states have a new version (layer A), and      *)
(* turns it into an alert for the clock's time (layer B) then and on a     *)
(* timer.  Hosts only share the version and the fetch.                     *)
(*                                                                         *)
(* A commit says when its certificate expires, or Off where Nebula is      *)
(* disabled; times and validities are counted in ticks.                    *)
(***************************************************************************)
EXTENDS Integers, FiniteSets

CONSTANTS
  Revs,         \* commits a host may be on, and main may be at
  ExpiresAt,    \* per commit: the certificate's notAfter, or Off
  ValidFor,     \* per commit: validitySecs
  MaxTime,      \* bound: the clock
  MaxMoves,     \* bound: deployments and pushes to main
  MaxFailures,  \* bound: resolutions in which something cannot be evaluated
  Off, NoRev

ASSUME CertAssumption ==
  /\ ExpiresAt \in [Revs -> Nat \cup {Off}] /\ ValidFor \in [Revs -> Nat]
  /\ Off \notin Nat /\ NoRev \notin Revs
  /\ {MaxTime, MaxMoves, MaxFailures} \subseteq Nat

VARIABLES
  pins,         \* the host's current and nextboot commits
  tip,          \* the main tip in the clone
  clock,
  moves, failures,
  doing,        \* "read", "resolve", "alert", "wait"
  stale,        \* the version is not the resolved one
  snapshot,     \* the pins read
  known,        \* memo: commits whose certificate was evaluated
  policies,     \* memo: commits whose validity was evaluated
  facts,        \* layer A: a HostExpiry, or NoFacts
  alert         \* layer B

facing == <<pins, tip, clock, moves>>
certVars == <<facing, failures, doing, stale, snapshot, known, policies, facts, alert>>

Unknown == -1
Levels == {"info", "warning", "critical"}
Remedies == {"rekey", "deploy", "unknown"}

HostPins == [current : Revs \cup {NoRev}, nextboot : Revs \cup {NoRev}]
NoPins == [current |-> NoRev, nextboot |-> NoRev]
NoFacts == [relevant |-> FALSE]
Facts == [relevant : {TRUE}, notAfter : Nat \cup {Unknown}, validity : Nat \cup {Unknown},
          tip : Nat \cup {Unknown}, note : BOOLEAN]
Silent == [level |-> "none"]
Alerts == [level : Levels, remedy : Remedies] \cup [level : {"info"}, note : {TRUE}]

CertTypeOK ==
  /\ pins \in HostPins /\ snapshot \in HostPins
  /\ tip \in Revs /\ clock \in 0..MaxTime
  /\ doing \in {"read", "resolve", "alert", "wait"}
  /\ known \subseteq Revs /\ policies \subseteq {r \in Revs : ExpiresAt[r] # Off}
  /\ facts \in Facts \cup {NoFacts}
  /\ alert \in Alerts \cup {Silent}

-----------------------------------------------------------------------------
(* Layer A: resolve_expiries for the host.                                 *)

HostPin(p) == {p.current, p.nextboot} \ {NoRev}

\* resolve_pin: a commit in `failing` cannot be evaluated, unless it was before.
Fails(r, failing) == r \in failing \ known

Enabled(revs, failing) == {r \in revs : ~Fails(r, failing) /\ ExpiresAt[r] # Off}

\* Mutant: the last of the two pinned certificates to expire.
LatestOf(revs) == IF revs = {} THEN Unknown ELSE CHOOSE t \in {ExpiresAt[r] : r \in revs} :
                                                   \A r \in revs : t >= ExpiresAt[r]

EarliestOf(revs) == IF revs = {} THEN Unknown ELSE CHOOSE t \in {ExpiresAt[r] : r \in revs} :
                                                     \A r \in revs : t <= ExpiresAt[r]

\* The commit the earliest expiry came from; current goes first.
FallbackFor(p, failing) ==
  LET found == Enabled(HostPin(p), failing)
      first == {r \in found : ExpiresAt[r] = EarliestOf(found)}
  IN IF found = {} THEN NoRev ELSE IF p.current \in first THEN p.current ELSE p.nextboot

\* Mutant: the policy is taken where Nebula is disabled, too.
PolicyFromAny(fallback, failing) ==
  LET says(r) == r # NoRev /\ (r \in policies \/ r \notin failing) IN
  IF says(tip) THEN tip ELSE IF says(fallback) THEN fallback ELSE NoRev

\* resolve_validity: the main tip's policy, else that of the commit the expiry
\* came from, else none.
PolicyFrom(fallback, failing) ==
  LET says(r) == r # NoRev /\ ExpiresAt[r] # Off /\ (r \in policies \/ r \notin failing) IN
  IF says(tip) THEN tip ELSE IF says(fallback) THEN fallback ELSE NoRev

\* resolve_host
Resolved(p, failing) ==
  LET source == PolicyFrom(FallbackFor(p, failing), failing) IN
  IF \A r \in HostPin(p) : ~Fails(r, failing) /\ ExpiresAt[r] = Off
  THEN NoFacts
  ELSE [relevant |-> TRUE,
        notAfter |-> EarliestOf(Enabled(HostPin(p), failing)),
        validity |-> IF source = NoRev THEN Unknown ELSE ValidFor[source],
        tip |-> EarliestOf(Enabled({tip}, failing)),
        note |-> source = NoRev \/ \E r \in HostPin(p) : Fails(r, failing)]

\* Only successes are cached.
Cached(revs, failing) == revs \ failing

-----------------------------------------------------------------------------
(* Layer B.                                                                *)

\* level_for, whose fractions are a quarter and a half.
Level(notAfter, validity) ==
  LET remaining == notAfter - clock IN
  CASE remaining <= 0 -> "critical"
    [] remaining > 0 /\ 4 * remaining < validity -> "warning"
    [] 4 * remaining >= validity /\ 2 * remaining < validity -> "info"
    [] OTHER -> "none"

\* Remedy::classify
RemedyFor(f) ==
  IF f.tip = Unknown THEN "unknown"
  ELSE IF Level(f.tip, f.validity) = "none" THEN "deploy" ELSE "rekey"

\* alert_for
AlertFor(f) ==
  IF ~f.relevant THEN Silent
  ELSE IF f.notAfter = Unknown \/ f.validity = Unknown
       THEN IF f.note THEN [level |-> "info", note |-> TRUE] ELSE Silent
       ELSE LET level == Level(f.notAfter, f.validity) IN
            IF level = "none" THEN Silent ELSE [level |-> level, remedy |-> RemedyFor(f)]

-----------------------------------------------------------------------------
(* The task, and the world around it.                                      *)

ReadStates ==
  /\ doing = "read"
  /\ IF stale THEN doing' = "resolve" /\ snapshot' = pins
     ELSE doing' = "alert" /\ UNCHANGED snapshot
  /\ UNCHANGED <<facing, failures, stale, known, policies, facts, alert>>

\* The tip is read after the fetch, and the pins may have moved on.
Resolve ==
  /\ doing = "resolve"
  /\ \E failing \in SUBSET (HostPin(snapshot) \cup {tip}) :
       /\ failing # {} => failures < MaxFailures
       /\ failures' = IF failing = {} THEN failures ELSE failures + 1
       /\ facts' = Resolved(snapshot, failing)
       /\ known' = known \cup Cached(HostPin(snapshot) \cup {tip}, failing)
       /\ policies' = policies \cup (Cached({PolicyFrom(FallbackFor(snapshot, failing), failing)}, failing) \ {NoRev})
  /\ stale' = (snapshot # pins)
  /\ doing' = "alert" /\ snapshot' = NoPins
  /\ UNCHANGED <<facing, alert>>

\* The fetch fails: the previous facts are kept, and the version unresolved.
ResolveFails ==
  /\ doing = "resolve" /\ failures < MaxFailures
  /\ failures' = failures + 1
  /\ doing' = "alert" /\ snapshot' = NoPins
  /\ UNCHANGED <<facing, stale, known, policies, facts, alert>>

Raise ==
  /\ doing = "alert"
  /\ alert' = AlertFor(facts)
  /\ doing' = "wait"
  /\ UNCHANGED <<facing, failures, stale, snapshot, known, policies, facts>>

\* Mutant: the task only waits for changes.
LookOnChange ==
  /\ doing = "wait" /\ stale
  /\ doing' = "read"
  /\ UNCHANGED <<facing, failures, stale, snapshot, known, policies, facts, alert>>

\* A change, or TICK is over.
Look ==
  /\ doing = "wait"
  /\ doing' = "read"
  /\ UNCHANGED <<facing, failures, stale, snapshot, known, policies, facts, alert>>

SwitchHost ==
  /\ moves < MaxMoves /\ moves' = moves + 1
  /\ pins' \in HostPins \ {pins} /\ stale' = TRUE
  /\ UNCHANGED <<tip, clock, failures, doing, snapshot, known, policies, facts, alert>>

\* A push to main, and a fetch of the dashboard's for whatever reason.
MoveTip ==
  /\ moves < MaxMoves /\ moves' = moves + 1
  /\ tip' \in Revs \ {tip}
  /\ UNCHANGED <<pins, clock, failures, doing, stale, snapshot, known, policies, facts, alert>>

\* Ticks of the clock are long for the task.
TimePasses ==
  /\ clock < MaxTime /\ doing = "wait"
  /\ clock' = clock + 1
  /\ UNCHANGED <<pins, tip, moves, failures, doing, stale, snapshot, known, policies, facts, alert>>

CertInit ==
  /\ pins \in HostPins /\ snapshot = NoPins
  /\ tip \in Revs
  /\ clock = 0 /\ moves = 0 /\ failures = 0
  /\ doing = "read" /\ stale = TRUE
  /\ known = {} /\ policies = {}
  /\ facts = NoFacts /\ alert = Silent

CertStep == ReadStates \/ Resolve \/ Raise \/ Look

CertNext == CertStep \/ ResolveFails \/ SwitchHost \/ MoveTip \/ TimePasses

CertSpec == CertInit /\ [][CertNext]_certVars

-----------------------------------------------------------------------------
(* Properties.                                                             *)

Expired(r) == ExpiresAt[r] # Off /\ ExpiresAt[r] <= clock

\* The task never goes to sleep over an expired certificate of the generation
\* a host runs or will boot, once it was read: whichever of the two it is,
\* whatever main says, and whatever could not be evaluated beside it.
ExpiredIsSaid ==
  doing = "alert" /\ doing' = "wait" /\ ~stale =>
    \A r \in HostPin(pins) \cap known : Expired(r) => alert' # Silent

\* A certificate that expires while nothing else happens is said ("letting a
\* cert cross a threshold without any input change").
ExpiryGetsRaised ==
  \A r \in Revs :
    (r \in HostPin(pins) \cap known /\ Expired(r)) ~> (alert # Silent \/ r \notin HostPin(pins))

\* An expired certificate is said by every round that knows of it, and by one
\* in the end, with the clock as the only input that moves.
ExpiryIsSaid == []CertTypeOK /\ [][ExpiredIsSaid]_certVars /\ ExpiryGetsRaised

\* A change of the policy on main "takes effect immediately rather than waiting
\* for every host to redeploy" (nebula.rs).
PolicyTakesEffect ==
  \A r \in Revs :
    (tip = r /\ ExpiresAt[r] # Off /\ facts.relevant)
      ~> (tip # r \/ ~facts.relevant \/ facts.validity = ValidFor[r])

\* "one un-evaluable historical commit surfaces as an informational alert"
\* (nebula.rs).
UnevaluableIsSaid == doing = "wait" /\ facts.relevant /\ facts.note => alert # Silent
=============================================================================
