---------------------------- MODULE UpdatedLoop ----------------------------
(***************************************************************************)
(* ogygia-updated's daemon loop and its control socket: when update cycles *)
(* are run, and who is answered.  A cycle itself is module Updated; here   *)
(* it takes any time, and only its outcome and what it does to the trial's *)
(* deadline are seen.  Time is counted in ticks: the loop's recv_timeout,  *)
(* the listener's read timeout and the trial's deadline run down together. *)
(***************************************************************************)
EXTENDS Integers, Sequences, FiniteSets, SequencesExt

CONSTANTS
  Clients,         \* processes that talk to the control socket, one request each
  InitialDelay,    \* config.daemon.initial_delay_seconds
  Interval,        \* config.daemon.interval_seconds
  Jitter,          \* config.daemon.jitter_seconds
  RequestTimeout,  \* what a silent client is waited for
  MaxTrial,        \* the longest timeout a trial is started with
  NoClient

ASSUME LoopAssumption ==
  /\ InitialDelay \in Nat /\ Interval \in Nat /\ Jitter \in Nat
  /\ RequestTimeout \in Nat /\ MaxTrial \in Nat
  /\ NoClient \notin Clients

VARIABLES
  phase,         \* "down", "waiting" in recv_timeout, "cycle"
  wait,          \* what is left of recv_timeout
  timed, left,   \* the active trial has a deadline, and what is left of it
  trigger, late, \* the running cycle: its trigger, and whether it began after the deadline
  serving,       \* the client the running cycle answers
  queue,         \* the channel from the listener to the loop
  reading,       \* the connection the listener is reading
  patience,      \* what is left of its read timeout
  backlog,       \* connections not accepted yet
  request,       \* what each client asks for
  fate           \* and what became of it

loop == <<phase, wait, trigger, late, serving>>
deadline == <<timed, left>>
listener == <<reading, patience, backlog>>
clients == <<request, fate>>
vars == <<loop, deadline, queue, listener, clients>>

Commands == {"update", "tick", "canary", "status"}
Kinds == Commands \cup {"invalid", "silent"}
Fates == {"away", "pending", "answered", "lost"}
Ends  == {"activated", "settled", "unserved", "failed"}

TypeOK ==
  /\ phase \in {"down", "waiting", "cycle"}
  /\ wait \in Nat
  /\ timed \in BOOLEAN /\ left \in Nat
  /\ trigger \in {"none", "scheduled", "manual", "canary"}
  /\ late \in BOOLEAN
  /\ serving \in Clients \cup {NoClient}
  /\ queue \in Seq(Clients)
  /\ reading \in Clients \cup {NoClient}
  /\ patience \in Nat
  /\ backlog \in Seq(Clients)
  /\ request \in [Clients -> Kinds]
  /\ fate \in [Clients -> Fates]

Lapsed == timed /\ left = 0

\* interval(): the gap between scheduled cycles.
Intervals == IF Jitter = 0 THEN {Interval} ELSE Interval..(Interval + Jitter - 1)

\* Mutant: the wait ignores the trial.
Unclamped(base, t, l) == base

\* wait_duration: never past an active trial's deadline.
Clamped(base, t, l) == IF t /\ l < base THEN l ELSE base

-----------------------------------------------------------------------------
(* Clients and the listener thread, which reads one connection at a time.  *)

Init ==
  /\ phase = "down" /\ wait = 0
  /\ timed \in BOOLEAN /\ left \in 0..MaxTrial /\ (~timed => left = 0)
  /\ trigger = "none" /\ late = FALSE
  /\ serving = NoClient /\ queue = <<>>
  /\ reading = NoClient /\ patience = 0 /\ backlog = <<>>
  /\ request \in [Clients -> {"status"}]
  /\ fate = [c \in Clients |-> "away"]

\* The socket exists while the daemon runs. A client asks again after a tick
\* at the earliest.
Connect(c, kind) ==
  /\ phase # "down"
  /\ fate[c] = "away"
  /\ request' = [request EXCEPT ![c] = kind]
  /\ fate' = [fate EXCEPT ![c] = "pending"]
  /\ backlog' = Append(backlog, c)
  /\ UNCHANGED <<loop, deadline, queue, reading, patience>>

Accept ==
  /\ reading = NoClient /\ backlog # <<>>
  /\ reading' = Head(backlog) /\ backlog' = Tail(backlog)
  /\ patience' = RequestTimeout
  /\ UNCHANGED <<loop, deadline, queue, clients>>

Done(c, how) == fate' = [fate EXCEPT ![c] = how] /\ UNCHANGED request

\* A parsed command goes to the loop with its stream.
HandOver ==
  /\ reading # NoClient /\ request[reading] \in Commands
  /\ queue' = Append(queue, reading)
  /\ reading' = NoClient
  /\ UNCHANGED <<loop, deadline, patience, backlog, clients>>

\* Anything else is answered right here.
Refuse ==
  /\ reading # NoClient /\ request[reading] = "invalid"
  /\ Done(reading, "answered")
  /\ reading' = NoClient
  /\ UNCHANGED <<loop, deadline, queue, patience, backlog>>

Silent == reading # NoClient /\ request[reading] = "silent"

\* Mutant: the connection has no read timeout.
WaitForever == Silent /\ patience = 0 /\ UNCHANGED vars

\* A client that sends no line is dropped after REQUEST_TIMEOUT.
GiveUp ==
  /\ Silent /\ patience = 0
  /\ Done(reading, "lost")
  /\ reading' = NoClient
  /\ UNCHANGED <<loop, deadline, queue, patience, backlog>>

-----------------------------------------------------------------------------
(* The daemon loop.                                                        *)

\* Mutant: a cycle does not learn that the deadline has passed.
BeginPunctual(t, c) ==
  /\ phase' = "cycle"
  /\ trigger' = t /\ late' = FALSE
  /\ serving' = c
  /\ UNCHANGED <<wait, deadline, listener, clients>>

BeginCycle(t, c) ==
  /\ phase' = "cycle"
  /\ trigger' = t /\ late' = Lapsed
  /\ serving' = c
  /\ UNCHANGED <<wait, deadline, listener, clients>>

\* recv_timeout runs out with nothing in the channel.
Timeout ==
  /\ phase = "waiting" /\ wait = 0 /\ queue = <<>>
  /\ BeginCycle("scheduled", NoClient)
  /\ UNCHANGED queue

TriggerOf(kind) ==
  CASE kind = "update" -> "manual" [] kind = "tick" -> "scheduled" [] OTHER -> "canary"

\* A command that needs a cycle.
Serve ==
  /\ phase = "waiting" /\ queue # <<>>
  /\ request[Head(queue)] # "status"
  /\ queue' = Tail(queue)
  /\ BeginCycle(TriggerOf(request[Head(queue)]), Head(queue))

\* A status query is answered without one, and the wait starts over.
Status ==
  /\ phase = "waiting" /\ queue # <<>>
  /\ request[Head(queue)] = "status"
  /\ Done(Head(queue), "answered")
  /\ queue' = Tail(queue)
  /\ \E i \in Intervals : wait' = Clamped(i, timed, left)
  /\ UNCHANGED <<phase, trigger, late, serving, deadline, listener>>

\* How a cycle may leave the trial's deadline: a stored trial's runs from
\* the cycle's start, a manual update clears it, a scheduled cycle may find
\* the trial over and must do so past its deadline, and a failed cycle got
\* anywhere.
Keeps  == UNCHANGED deadline
Clears == timed' = FALSE /\ left' = 0
Stores == Clears \/ (timed' = TRUE /\ left' \in 0..MaxTrial)

LeavesDeadline(end) ==
  \/ trigger = "canary" /\ Stores
  \/ trigger # "canary" /\ Clears
  \/ trigger = "scheduled" /\ ~late /\ Keeps
  \/ end = "failed" /\ Keeps

\* A started trial always counts as activated.
MayEnd(end) == trigger = "canary" => end \in {"activated", "failed"}

Pending == {c \in Clients : fate[c] = "pending"}

\* The process is gone, and every open connection with it.
Exit(answered) ==
  /\ phase' = "down" /\ wait' = 0
  /\ queue' = <<>> /\ backlog' = <<>>
  /\ reading' = NoClient /\ patience' = 0
  /\ fate' = [c \in Clients |-> IF c \in answered THEN "answered"
                                ELSE IF c \in Pending THEN "lost" ELSE fate[c]]
  /\ UNCHANGED request

EndCycle == trigger' = "none" /\ late' = FALSE /\ serving' = NoClient

\* After an activation the daemon exits to be restarted as the new unit.
FinishActivated ==
  /\ phase = "cycle"
  /\ LeavesDeadline("activated")
  /\ EndCycle
  /\ Exit({serving} \ {NoClient})

\* Mutant: only a served cycle is answered.
ReplyServed(end) == IF end = "settled" THEN Done(serving, "answered") ELSE UNCHANGED clients

\* Any other end is answered, whether served, not served or failed.
Reply(end) == IF serving = NoClient THEN UNCHANGED clients ELSE Done(serving, "answered")

Finish(end) ==
  /\ phase = "cycle"
  /\ end # "activated" /\ MayEnd(end)
  /\ LeavesDeadline(end)
  /\ phase' = "waiting"
  /\ EndCycle
  /\ Reply(end)
  /\ \E i \in Intervals : wait' = Clamped(i, timed', left')
  /\ UNCHANGED <<queue, listener>>

-----------------------------------------------------------------------------
(* Time, crashes and systemd.                                              *)

\* Nobody who can act at once lets time pass.
Idle ==
  /\ phase = "waiting" => wait > 0 /\ queue = <<>>
  /\ reading = NoClient => backlog = <<>>
  /\ reading # NoClient => Silent /\ patience > 0

\* Mutant: a lapsed deadline leaves a negative remainder.
Unsaturated(n) == n - 1

\* What is left of a duration never goes below zero.
Less(n) == IF n > 0 THEN n - 1 ELSE 0

Tick ==
  /\ Idle
  /\ wait' = Less(wait) /\ left' = Less(left) /\ patience' = Less(patience)
  /\ fate' = [c \in Clients |-> IF c \in Pending THEN "pending" ELSE "away"]
  /\ UNCHANGED <<phase, trigger, late, serving, timed, queue, reading, backlog, request>>

\* The daemon or the machine dies; a cycle dies wherever it was.
Crash ==
  /\ phase # "down"
  /\ IF phase = "cycle" THEN LeavesDeadline("failed") ELSE UNCHANGED deadline
  /\ EndCycle
  /\ Exit({})

\* Restart=always; the first wait is the initial delay.
Restart ==
  /\ phase = "down"
  /\ phase' = "waiting"
  /\ wait' = Clamped(InitialDelay, timed, left)
  /\ UNCHANGED <<trigger, late, serving, deadline, queue, listener, clients>>

Listen == Accept \/ HandOver \/ Refuse \/ GiveUp
Cycle  == FinishActivated \/ \E end \in Ends : Finish(end)

Next ==
  \/ \E c \in Clients, kind \in Kinds : Connect(c, kind)
  \/ Listen
  \/ Timeout \/ Serve \/ Status \/ Cycle
  \/ Tick \/ Crash \/ Restart

Spec == Init /\ [][Next]_vars

\* The listener and the loop run, a cycle ends, systemd restarts the daemon
\* and time passes. A crash may keep undoing the end of a wait, but not for
\* ever: Timeout and Tick are strongly fair.
Fairness ==
  /\ WF_vars(Listen)
  /\ WF_vars(Serve \/ Status)
  /\ WF_vars(Cycle)
  /\ WF_vars(Restart)
  /\ SF_vars(Timeout)
  /\ SF_vars(Tick)

FairSpec == Spec /\ Fairness

-----------------------------------------------------------------------------
(* Properties.                                                             *)

\* "Never sleep past an active canary's deadline" (main): whatever was
\* answered, served, restarted or cleared in between, the loop wakes before
\* or at the deadline of the trial on record.
NeverSleepsPastDeadline == (phase = "waiting" /\ timed) => wait <= left

\* The connection a cycle answers, those in the channel, the one being read
\* and those in the backlog are the pending clients, each in one place: no
\* stream is dropped or answered twice.
Handed == ToSet(queue) \cup ({serving} \ {NoClient})

EachStreamOnce ==
  /\ Pending = Handed \cup ({reading} \ {NoClient}) \cup ToSet(backlog)
  /\ Cardinality(Pending) =
       Len(queue) + Len(backlog) + Cardinality({serving} \ {NoClient})
                  + Cardinality({reading} \ {NoClient})

\* Everybody who connects is answered or sees the connection close, behind
\* however many others, silent ones included.
EveryRequestEnds ==
  \A c \in Clients : (fate[c] = "pending") ~> (fate[c] # "pending")

\* A trial past its deadline is eventually looked at by a cycle that knows
\* it, through crashes and whatever clients ask for.
LapsedTrialRevisited == Lapsed ~> (late \/ ~Lapsed)

\* The loop and the listener keep each other going: nobody waits for ever for
\* an answer, and no deadline passes unseen (main::run, control::listen).
LoopKeepsGoing == EveryRequestEnds /\ LapsedTrialRevisited

\* "Hand it with its stream to the daemon loop, which answers once it has
\* served the command" (control::listen): a command that reached the loop
\* is only lost to a crash.
HandedOverIsAnswered ==
  [][~Crash => \A c \in Handed : fate'[c] # "lost"]_vars

=============================================================================
