------------------------------- MODULE FuzzRun -------------------------------
(***************************************************************************)
(* `ogygia-nix-eval-fuzz run DIR` (main.rs, findings.rs, minimise.rs,      *)
(* stats.rs): it rechecks the findings in DIR, minimises the corpus with   *)
(* parallel merges, then fuzzes until it is stopped, which can be at any   *)
(* point.  What it finds, and the corpus, stay for the next run, which may *)
(* be of another build of the evaluator.  What a check makes of an input   *)
(* is FuzzCheck's.                                                         *)
(***************************************************************************)
EXTENDS Naturals, FiniteSets, FiniteSetsExt

CONSTANTS
  Inputs,      \* inputs, by file name
  Covers,      \* per input: the code it reaches
  Seeds,       \* the inputs a build comes with
  Builds,      \* the builds of the evaluator: on which inputs one diverges, and crashes
  Jobs,        \* the processes at once
  MaxBuilds,   \* bound: builds that are deployed
  MaxChecks,   \* bound: inputs the jobs of one run check while it fuzzes
  NoInput

VARIABLES
  fuzzed,       \* the build that is deployed
  builds,       \* bound
  corpus,       \* DIR/corpus
  crashed,      \* DIR/crashed
  findings,     \* per input: what DIR/findings/<hash> holds
  inconclusive, \* the findings the last recheck left as they were
  stage,        \* what the run is doing
  queue,        \* the findings no worker has taken yet
  split,        \* the shard of each input that is merged
  merging,      \* per shard: how far its merge is
  kept,         \* what the merges have written for the corpus
  unfinished,   \* the inputs their control files show as not finished
  job,          \* per job: the input it is at, and how far it is
  pending,      \* per job: the outcomes not reported yet
  piped,        \* the outcomes reported and not yet read
  totals,       \* Summary.totals
  checks        \* the inputs the jobs of this run have checked

setupVars == <<fuzzed, builds>>
dirVars == <<corpus, crashed, findings>>
mergeVars == <<split, merging, kept, unfinished>>
statVars == <<pending, piped, totals, checks>>
fuzzRunVars == <<setupVars, dirVars, inconclusive, stage, queue, mergeVars, job, statVars>>

Coverage(inputs) == UNION {Covers[i] : i \in inputs}
Waiting == [input |-> NoInput, at |-> "idle"]
FindingNames == {i \in Inputs : findings[i] # "none"}

FuzzRunTypeOK ==
  /\ fuzzed \in Builds /\ builds \in 1..MaxBuilds
  /\ corpus \subseteq Inputs /\ crashed \subseteq Inputs
  /\ findings \in [Inputs -> {"none", "dir", "input", "whole"}]
  /\ inconclusive \subseteq Inputs /\ queue \subseteq Inputs
  /\ stage \in {"off", "recheck", "minimise", "merge", "swap", "swapped", "undo", "fuzz"}
  /\ split \in [Inputs -> Jobs \cup {NoInput}]
  /\ merging \in [Jobs -> {"none", "merging", "merged", "failed"}]
  /\ kept \subseteq Inputs /\ unfinished \subseteq Inputs
  /\ job \in [Jobs -> [input : Inputs \cup {NoInput}, at : {"idle", "check", "mkdir", "input", "report", "remove", "count"}]]
  /\ pending \in [Jobs -> Nat] /\ {piped, totals, checks} \subseteq Nat

ASSUME FuzzRunAssumption ==
  /\ NoInput \notin Inputs \cup Jobs /\ Seeds \subseteq Inputs
  /\ \A b \in Builds : b.diverges \subseteq Inputs /\ b.crashes \subseteq Inputs
  /\ MaxBuilds \in Nat \ {0} /\ MaxChecks \in Nat

FuzzRunInit ==
  /\ fuzzed \in Builds /\ builds = 1
  /\ corpus = {} /\ crashed = {} /\ findings = [i \in Inputs |-> "none"]
  /\ inconclusive = {} /\ stage = "off" /\ queue = {}
  /\ split = [i \in Inputs |-> NoInput] /\ merging = [j \in Jobs |-> "none"] /\ kept = {} /\ unfinished = {}
  /\ job = [j \in Jobs |-> Waiting] /\ pending = [j \in Jobs |-> 0]
  /\ piped = 0 /\ totals = 0 /\ checks = 0

\* The directories of a minimisation are gone; those it left behind in a run
\* that was stopped are not looked at again.
NoMerge ==
  /\ split' = [i \in Inputs |-> NoInput] /\ merging' = [j \in Jobs |-> "none"]
  /\ kept' = {} /\ unfinished' = {}

(* The run is stopped, as by a signal or a power cut, at whatever it was.  *)
Stop ==
  /\ stage # "off" /\ stage' = "off"
  /\ job' = [j \in Jobs |-> Waiting] /\ NoMerge
  /\ pending' = [j \in Jobs |-> 0] /\ piped' = 0 /\ totals' = 0 /\ checks' = 0
  /\ queue' = {} /\ inconclusive' = {}
  /\ UNCHANGED <<setupVars, dirVars>>

(* Another build is deployed between two runs.                             *)
Upgrade ==
  /\ stage = "off" /\ builds < MaxBuilds
  /\ fuzzed' \in Builds
  /\ builds' = builds + 1
  /\ UNCHANGED <<dirVars, inconclusive, stage, queue, mergeVars, job, statVars>>

(***************************************************************************)
(* The recheck: workers take the findings from a shared list, and have a   *)
(* child process check each.                                               *)
(***************************************************************************)
Start ==
  /\ stage = "off"
  /\ stage' = "recheck" /\ queue' = FindingNames /\ inconclusive' = {}
  /\ UNCHANGED <<setupVars, dirVars, mergeVars, job, statVars>>

Take(j) ==
  /\ stage = "recheck" /\ job[j] = Waiting
  /\ \E i \in queue :
       /\ queue' = queue \ {i}
       /\ job' = [job EXCEPT ![j] = [input |-> i, at |-> "check"]]
  /\ UNCHANGED <<setupVars, dirVars, inconclusive, stage, mergeVars, statVars>>

\* What a child process makes of an input: one that dies, or in which Nix does
\* not finish, says nothing.
Verdicts(i) ==
  {"skipped"} \cup IF i \in fuzzed.crashes THEN {} ELSE IF i \in fuzzed.diverges THEN {"diverged"} ELSE {"agree"}

\* (mutants: one without its input is left, one not checked is removed)
DisposesOfReadable(verdict) ==
  CASE verdict = "diverged" -> "report" [] verdict \in {"skipped", "unreadable"} -> "idle" [] OTHER -> "remove"
DisposesOfSkipped(verdict) == CASE verdict = "diverged" -> "report" [] OTHER -> "remove"

\* What is done with a finding of that verdict.
Disposes(verdict) ==
  CASE verdict = "diverged" -> "report" [] verdict = "skipped" -> "idle" [] OTHER -> "remove"

RecheckOne(j) ==
  /\ stage = "recheck" /\ job[j].at = "check"
  /\ LET i == job[j].input IN
       \E verdict \in IF findings[i] = "dir" THEN {"unreadable"} ELSE Verdicts(i) :
         /\ job' = [job EXCEPT ![j] = IF Disposes(verdict) = "idle" THEN Waiting ELSE [@ EXCEPT !.at = Disposes(verdict)]]
         /\ inconclusive' = inconclusive \cup {x \in {i} : Disposes(verdict) = "idle"}
  /\ UNCHANGED <<setupVars, dirVars, stage, queue, mergeVars, statVars>>

\* remove_dir_all empties the directory before it removes it.
RemoveFinding(j) ==
  /\ stage = "recheck" /\ job[j].at = "remove"
  /\ LET i == job[j].input IN
       IF findings[i] = "dir"
         THEN findings' = [findings EXCEPT ![i] = "none"] /\ job' = [job EXCEPT ![j] = Waiting]
         ELSE findings' = [findings EXCEPT ![i] = "dir"] /\ UNCHANGED job
  /\ UNCHANGED <<setupVars, corpus, crashed, inconclusive, stage, queue, mergeVars, statVars>>

Refresh(j) ==
  /\ stage = "recheck" /\ job[j].at = "report"
  /\ findings' = [findings EXCEPT ![job[j].input] = "whole"]
  /\ job' = [job EXCEPT ![j] = Waiting]
  /\ UNCHANGED <<setupVars, corpus, crashed, inconclusive, stage, queue, mergeVars, statVars>>

Rechecked ==
  /\ stage = "recheck" /\ queue = {} /\ \A j \in Jobs : job[j] = Waiting
  /\ stage' = "minimise"
  /\ UNCHANGED <<setupVars, dirVars, inconclusive, queue, mergeVars, job, statVars>>

(***************************************************************************)
(* What every job does with an input, in a merge and while fuzzing: check  *)
(* it, record what diverges, count the outcome.                            *)
(***************************************************************************)
Shard(j) == {i \in Inputs : split[i] = j}

\* A merge goes through its shard; libFuzzer makes up inputs of its own.
InputsFor(j) == IF stage = "merge" THEN {i \in Shard(j) : merging[j] = "merging"} ELSE Inputs

CheckOne(j) ==
  /\ stage \in {"merge", "fuzz"} /\ job[j] = Waiting /\ (stage = "fuzz" => checks < MaxChecks)
  /\ \E i \in InputsFor(j) :
       /\ split' = IF stage = "merge" THEN [split EXCEPT ![i] = NoInput] ELSE split
       /\ IF i \in fuzzed.crashes
            THEN /\ pending' = [pending EXCEPT ![j] = 0] \* its process died, and another is started
                 /\ unfinished' = IF stage = "merge" THEN unfinished \cup {i} ELSE unfinished
                 /\ UNCHANGED <<job, kept, checks>>
            ELSE /\ job' = [job EXCEPT ![j] = [input |-> i, at |-> IF i \in fuzzed.diverges THEN "mkdir" ELSE "count"]]
                 /\ checks' = checks + 1
                 /\ kept' = IF stage = "merge" THEN kept \cup {i} ELSE kept
                 /\ UNCHANGED <<unfinished, pending>>
  /\ UNCHANGED <<setupVars, dirVars, inconclusive, stage, queue, merging, piped, totals>>

Moves(j, to) == job' = [job EXCEPT ![j].at = to]
FindingBecomes(i, what) == findings' = [findings EXCEPT ![i] = what]

\* One that is there already is another job's, or an earlier run's.
Record(j) ==
  /\ stage \in {"merge", "fuzz"} /\ job[j].at \in {"mkdir", "input", "report"}
  /\ LET i == job[j].input IN
       CASE job[j].at = "mkdir" ->
              IF findings[i] # "none" THEN Moves(j, "count") /\ UNCHANGED findings
                                      ELSE Moves(j, "input") /\ FindingBecomes(i, "dir")
         [] job[j].at = "input" -> Moves(j, "report") /\ FindingBecomes(i, "input")
         [] job[j].at = "report" -> Moves(j, "count") /\ FindingBecomes(i, "whole")
  /\ UNCHANGED <<setupVars, corpus, crashed, inconclusive, stage, queue, mergeVars, statVars>>

\* (mutant: the counts are not reset)
NeverReset(n) == n

\* What a job has counted once its counts are reported: nothing.
AfterReport(n) == 0

\* libFuzzer keeps an input that reaches new code.
Adds(i) == stage = "fuzz" /\ ~(Covers[i] \subseteq Coverage(corpus))

Count(j) ==
  /\ stage \in {"merge", "fuzz"} /\ job[j].at = "count"
  /\ \/ pending' = [pending EXCEPT ![j] = @ + 1] /\ UNCHANGED piped
     \/ pending' = [pending EXCEPT ![j] = AfterReport(@ + 1)] /\ piped' = piped + pending[j] + 1
  /\ job' = [job EXCEPT ![j] = Waiting]
  /\ corpus' = corpus \cup {i \in {job[j].input} : Adds(i)}
  /\ UNCHANGED <<setupVars, crashed, findings, inconclusive, stage, queue, mergeVars, totals, checks>>

AddLines ==
  /\ piped > 0 /\ totals' = totals + piped /\ piped' = 0
  /\ UNCHANGED <<setupVars, dirVars, inconclusive, stage, queue, mergeVars, job, pending, checks>>

(***************************************************************************)
(* The minimisation: the inputs are split at random, the shards are merged *)
(* at once, and if every merge succeeds the new directories are exchanged  *)
(* for the old, one after the other.                                       *)
(***************************************************************************)
ToMerge == corpus \cup crashed \cup Seeds

Minimise ==
  /\ stage = "minimise" /\ ToMerge # {}
  /\ stage' = "merge"
  /\ \E shards \in [ToMerge -> Jobs] :
       /\ split' = [i \in Inputs |-> IF i \in ToMerge THEN shards[i] ELSE NoInput]
       /\ merging' = [j \in Jobs |-> IF \E i \in ToMerge : shards[i] = j THEN "merging" ELSE "none"]
  /\ UNCHANGED <<setupVars, dirVars, inconclusive, queue, kept, unfinished, job, statVars>>

\* The merge has checked its whole shard, and its process ends, or it failed.
MergeEnds(j) ==
  /\ stage = "merge" /\ merging[j] = "merging" /\ job[j] = Waiting
  /\ \/ merging' = [merging EXCEPT ![j] = "merged"] /\ Shard(j) = {}
     \/ merging' = [merging EXCEPT ![j] = "failed"]
  /\ pending' = [pending EXCEPT ![j] = 0]
  /\ UNCHANGED <<setupVars, dirVars, inconclusive, stage, queue, split, kept, unfinished, job, piped, totals, checks>>

\* Together the merges keep inputs that reach what all the inputs they finished do.
Covering(inputs) == {k \in SUBSET inputs : Coverage(k) = Coverage(inputs)}

Merged ==
  /\ stage = "merge" /\ \A j \in Jobs : merging[j] # "merging"
  /\ IF \E j \in Jobs : merging[j] = "failed"
       THEN stage' = "fuzz" /\ NoMerge
       ELSE stage' = "swap" /\ kept' \in Covering(kept) /\ UNCHANGED <<split, merging, unfinished>>
  /\ UNCHANGED <<setupVars, dirVars, inconclusive, queue, job, statVars>>

\* (mutant)
CorpusFirst == "corpus"

\* Which of the two directories is exchanged first.
First == "crashed"

\* The new directory is in DIR, and the old one where it was made.
Swap ==
  /\ stage = "swap" /\ stage' = "swapped"
  /\ IF First = "crashed" THEN crashed' = unfinished /\ unfinished' = crashed /\ UNCHANGED <<corpus, kept>>
                          ELSE corpus' = kept /\ kept' = corpus /\ UNCHANGED <<crashed, unfinished>>
  /\ UNCHANGED <<setupVars, findings, inconclusive, queue, split, merging, job, statVars>>

\* The other follows; if it cannot, the first is exchanged again.
SwapEnds ==
  /\ stage = "swapped" /\ stage' = "fuzz" /\ NoMerge
  /\ \/ IF First = "crashed" THEN corpus' = kept /\ UNCHANGED crashed ELSE crashed' = unfinished /\ UNCHANGED corpus
     \/ IF First = "crashed" THEN crashed' = unfinished /\ UNCHANGED corpus ELSE corpus' = kept /\ UNCHANGED crashed
  /\ UNCHANGED <<setupVars, findings, inconclusive, queue, job, statVars>>

\* There is nothing to minimise, or a file operation fails.
Fuzz ==
  /\ stage \in {"minimise", "swap"} /\ stage' = "fuzz" /\ NoMerge
  /\ UNCHANGED <<setupVars, dirVars, inconclusive, queue, job, statVars>>

FuzzRunNext ==
  \/ Stop \/ Upgrade \/ Start \/ Rechecked \/ AddLines
  \/ Minimise \/ Merged \/ Swap \/ SwapEnds \/ Fuzz
  \/ \E j \in Jobs :
       \/ Take(j) \/ RecheckOne(j) \/ RemoveFinding(j) \/ Refresh(j)
       \/ CheckOne(j) \/ Record(j) \/ Count(j) \/ MergeEnds(j)

FuzzRunSpec == FuzzRunInit /\ [][FuzzRunNext]_fuzzRunVars

(***************************************************************************)
(* Properties                                                              *)
(***************************************************************************)
\* A finding on which this build diverges is not removed, whichever workers
\* race for the findings and whatever becomes of their children (recheck).
DivergingFindingsStay ==
  \A i \in fuzzed.diverges :
    findings[i] \in {"input", "whole"} => findings'[i] \in {"input", "whole"}

\* Once a run has rechecked what earlier ones left, killed at any point as
\* they may be, every finding has its input and its report, but those that a
\* job is writing and those of which the recheck could say nothing (record,
\* which leaves alone a finding that is there already).
FindingsAreWhole ==
  stage \in {"minimise", "merge", "swap", "swapped", "fuzz"} =>
    \A i \in FindingNames :
      \/ findings[i] = "whole"
      \/ \E j \in Jobs : job[j].input = i /\ job[j].at \in {"input", "report"}
      \/ findings[i] = "input" /\ i \in inconclusive

\* Whenever the run is stopped, what the corpus reached can still be reached
\* from the two directories (the order of minimise's exchanges).
CorpusSurvives == Coverage(corpus) \subseteq Coverage(corpus' \cup crashed')

\* "At no point is an input in neither" (minimise): one that is kept.
NeverInNeither == stage = "swapped" => unfinished \cap kept \subseteq corpus \cup crashed

\* No outcome is counted twice on its way through the job's counters, the
\* pipe and the totals (count, Summary::add).
CountedOnce == totals + piped + MapThenSumSet(LAMBDA j : pending[j], Jobs) <= checks

\* Whenever a run is killed, what it found is on disk and whole, or made whole
\* by the next one, what it reached can be reached again, and no input is
\* counted twice.
FuzzRunKeeps ==
  /\ [](FuzzRunTypeOK /\ FindingsAreWhole /\ CountedOnce)
  /\ [][DivergingFindingsStay /\ CorpusSurvives]_fuzzRunVars
=============================================================================
