----------------------------- MODULE FuzzProofs -----------------------------
(***************************************************************************)
(* The safety of ogygia-nix-eval-fuzz, for any number of threads, jobs and *)
(* inputs, and any text of a bundle: what a check says of an input is so,  *)
(* whatever the checks beside it do; what runs found and reached is not    *)
(* lost, wherever they are killed; and the flakes of a bundle are those    *)
(* its text describes.                                                     *)
(***************************************************************************)
EXTENDS FuzzCheck, FuzzRun, FuzzBundle, FiniteSetTheorems, SequenceTheorems, WellFoundedInduction, TLAPS

-----------------------------------------------------------------------------
(* FuzzCheck.                                                              *)

\* Both sides can parse the input.
Parses(s) == s.nix # "unparsed" /\ s.ours \notin {"unparsed", "parsePanic"}

\* The inputs a check can end on as diverged, whatever Nix is limited to: that
\* it runs out of memory only once is not among the ways.
Diverging(s) ==
  /\ ~s.bad
  /\ \/ s.ours = "parsePanic" \/ (s.nix = "unparsed") # (s.ours = "unparsed")
     \/ /\ Parses(s) /\ s.quirk \notin {"exhausts", "regexLimit"}
        /\ \/ s.ours = "panic"
           \/ s.quirk # "misreads" /\ s.ours \in Meanings /\ s.nix # s.ours
           \/ s.quirk \notin {"misreads", "stores"} /\ s.ours = "root" /\ s.nix # "uncaught"

PhaseOf(c) == checkAt[c][1]
Checking(c) == PhaseOf(c) \in {"nix", "ours", "running", "compare"}

\* How far the check is says what the input must be like to have come there.
ComesHere(c) ==
  Checking(c) =>
    LET s == subject[c] IN
    /\ ~s.bad
    /\ StepOf(c) \in {"eval", "catch"} => Parses(s)
    /\ StepOf(c) = "catch" => s.nix \notin {"a", "b"} /\ s.ours \in {"caught", "uncaught", "root"}

\* What was seen of Nix is what the input is to it, and no limit of its.
NixSeen(c) ==
  LET s == subject[c] IN
  /\ PhaseOf(c) \in {"ours", "running", "compare"} /\ StepOf(c) # "parse" =>
       s.quirk \notin {"exhausts", "regexLimit"} /\ theirs[c] = Shows(s.nix, StepOf(c))
  /\ PhaseOf(c) = "compare" => theirs[c] = Shows(s.nix, StepOf(c))

\* And of the evaluator, which has not panicked yet.
OursSeen(c) ==
  LET s == subject[c] IN
  /\ PhaseOf(c) = "compare" \/ (PhaseOf(c) = "nix" /\ StepOf(c) = "parse") =>
       /\ ~Panics(c) /\ (StepOf(c) # "parse" => s.ours \notin {"disabled", "unimplemented"})
       /\ ours[c] = Shows(s.ours, StepOf(c))
  /\ PhaseOf(c) \in {"start", "nix", "ours", "compare"} => ours[c] # "panicking"

\* The evaluation that runs has the slot to itself.
HoldsSlot(c) ==
  PhaseOf(c) = "running" => catching = c /\ slot = IF ours[c] = "panicking" THEN c ELSE "empty"

\* What was said of an input, in this check or before the recheck.
Said(c) ==
  /\ outcome[c] # "none" => PhaseOf(c) = "done"
  /\ outcome[c] = "diverged" => Diverging(subject[c]) /\ (Panics(c) => ours[c] = c)
  /\ outcome[c] \in {"parse-rejected", "value", "caught", "uncaught"} => ~Finding(subject[c])
  /\ found[c] => Diverging(subject[c]) /\ outcome[c] \in {"none", "diverged", "skipped"}

FuzzCheckIInv ==
  /\ FuzzCheckTypeOK
  /\ \A c \in Checkers : ComesHere(c) /\ NixSeen(c) /\ OursSeen(c) /\ HoldsSlot(c) /\ Said(c)

ThreadOK(c) == ComesHere(c) /\ NixSeen(c) /\ OursSeen(c) /\ HoldsSlot(c) /\ Said(c)

-----------------------------------------------------------------------------
\* A thread that another one's step does not touch, but for the slot.
LEMMA OthersStay ==
  ASSUME NEW c \in Checkers, NEW d \in Checkers, ThreadOK(d),
         subject' = subject, checkAt'[d] = checkAt[d], theirs'[d] = theirs[d], ours'[d] = ours[d],
         outcome'[d] = outcome[d], found'[d] = found[d],
         PhaseOf(d) = "running" => catching' = catching /\ slot' = slot
  PROVE  ThreadOK(d)'
BY DEF ThreadOK, ComesHere, NixSeen, OursSeen, HoldsSlot, Said, PhaseOf, StepOf, Checking, Panics

LEMMA DivergingIsFinding ==
  ASSUME NEW s \in AllSubjects, Diverging(s)
  PROVE  ~s.bad /\ Finding(s)
BY DEF Diverging, Finding, Parses, AllSubjects, Ours, Meanings, Quirks

-----------------------------------------------------------------------------
LEMMA ShowsResults ==
  ASSUME NEW meaning, NEW turn \in {"parse", "eval", "catch"}
  PROVE  Shows(meaning, turn) \in Results
BY DEF Shows, Results

LEMMA FuzzTypeKept == FuzzCheckTypeOK /\ [FuzzCheckNext]_checkVars => FuzzCheckTypeOK'
<1> SUFFICES ASSUME FuzzCheckTypeOK, [FuzzCheckNext]_checkVars
             PROVE  FuzzCheckTypeOK'
  OBVIOUS
<1> USE DEF FuzzCheckTypeOK
<1> DEFINE Phases == {"start", "parse", "nix", "ours", "running", "compare", "done"}
           Turns == {"parse", "eval", "catch"}
           Outcomes == {"none", "parse-rejected", "skipped", "deliberate", "value", "caught", "uncaught", "diverged"}
<1>e. ASSUME NEW c \in Checkers
      PROVE  /\ StepOf(c) \in Turns
             /\ \A result \in Outcomes : Ends(c, result) =>
                  checkAt' \in [Checkers -> Phases \X Turns] /\ outcome' \in [Checkers -> Outcomes]
             /\ \A phase \in Phases, turn \in Turns : Goes(c, <<phase, turn>>) /\ UNCHANGED outcome =>
                  checkAt' \in [Checkers -> Phases \X Turns] /\ outcome' \in [Checkers -> Outcomes]
  <2>1. StepOf(c) \in Turns
    BY DEF StepOf
  <2>2. ASSUME NEW phase \in Phases, NEW turn \in Turns, Goes(c, <<phase, turn>>)
        PROVE  checkAt' \in [Checkers -> Phases \X Turns]
    BY <2>2 DEF Goes
  <2>3. ASSUME NEW result \in Outcomes, Ends(c, result)
        PROVE  checkAt' \in [Checkers -> Phases \X Turns] /\ outcome' \in [Checkers -> Outcomes]
    BY <2>1, <2>2, <2>3 DEF Ends
  <2> QED BY <2>1, <2>2, <2>3
<1>1. ASSUME NEW c \in Checkers, Begin(c)
      PROVE  FuzzCheckTypeOK'
  <2>1. \/ Ends(c, "deliberate")
        \/ Goes(c, <<"nix", "eval">>) /\ UNCHANGED outcome
        \/ Goes(c, <<"ours", "parse">>) /\ UNCHANGED outcome
    BY <1>1 DEF Begin, FirstStep
  <2>2. checkAt' \in [Checkers -> Phases \X Turns] /\ outcome' \in [Checkers -> Outcomes]
    BY <1>e, <2>1
  <2> QED BY <1>1, <2>2 DEF Begin
<1>2. ASSUME NEW c \in Checkers, Nix(c)
      PROVE  FuzzCheckTypeOK'
  <2> DEFINE phase == IF StepOf(c) = "parse" THEN "compare" ELSE "ours"
             shown == IF Exhausted(subject[c], budget[c]) /\ StepOf(c) # "parse" THEN "error"
                      ELSE Shows(subject[c].nix, StepOf(c))
  <2>1. PICK ends \in {"skipped", "deliberate", "ran"} :
           IF ends = "ran" THEN theirs' = [theirs EXCEPT ![c] = shown] /\ Goes(c, <<phase, StepOf(c)>>) /\ UNCHANGED outcome
           ELSE Ends(c, ends) /\ UNCHANGED theirs
    BY <1>2, Zenon DEF Nix, RunEnds
  <2>2. shown \in Results
    BY <1>e, ShowsResults DEF Results
  <2>3. theirs' \in [Checkers -> Results]
    BY <2>1, <2>2
  <2>4. checkAt' \in [Checkers -> Phases \X Turns] /\ outcome' \in [Checkers -> Outcomes]
    BY <1>e, <2>1
  <2> QED BY <1>2, <2>3, <2>4 DEF Nix
<1>3. ASSUME NEW c \in Checkers, CatchOurs(c)
      PROVE  FuzzCheckTypeOK'
  BY <1>3, <1>e DEF CatchOurs
<1>4. ASSUME NEW c \in Checkers, Hook(c)
      PROVE  FuzzCheckTypeOK'
  BY <1>4 DEF Hook
<1>5. ASSUME NEW c \in Checkers, Returns(c)
      PROVE  FuzzCheckTypeOK'
  <2>1. \/ Ends(c, "diverged") \/ Ends(c, "deliberate")
        \/ Goes(c, <<"nix", StepOf(c)>>) /\ UNCHANGED outcome
        \/ Goes(c, <<"compare", StepOf(c)>>) /\ UNCHANGED outcome
    BY <1>5 DEF Returns
  <2>2. checkAt' \in [Checkers -> Phases \X Turns] /\ outcome' \in [Checkers -> Outcomes]
    BY <1>e, <2>1
  <2>3. ours' \in [Checkers -> Results \cup {"panicking", "empty", NoOne} \cup Checkers]
    <3>1. \/ ours' = [ours EXCEPT ![c] = slot] \/ ours' = ours
          \/ ours' = [ours EXCEPT ![c] = Shows(subject[c].ours, StepOf(c))]
      BY <1>5 DEF Returns
    <3>2. Shows(subject[c].ours, StepOf(c)) \in Results
      BY <1>e, ShowsResults
    <3> QED BY <3>1, <3>2
  <2> QED BY <1>5, <2>2, <2>3 DEF Returns
<1>6. ASSUME NEW c \in Checkers, Compare(c)
      PROVE  FuzzCheckTypeOK'
  <2>1. \/ \E result \in Outcomes : Ends(c, result)
        \/ \E turn \in Turns : Goes(c, <<"nix", turn>>) /\ UNCHANGED outcome
    BY <1>6 DEF Compare, Disagreed
  <2>2. checkAt' \in [Checkers -> Phases \X Turns] /\ outcome' \in [Checkers -> Outcomes]
    BY <1>e, <2>1
  <2> QED BY <1>6, <2>2 DEF Compare
<1>7. ASSUME NEW c \in Checkers, CheckInChild(c)
      PROVE  FuzzCheckTypeOK'
  BY <1>7 DEF CheckInChild, Goes, Results
<1>8. CASE UNCHANGED checkVars
  BY <1>8 DEF checkVars
<1> QED BY <1>1, <1>2, <1>3, <1>4, <1>5, <1>6, <1>7, <1>8 DEF FuzzCheckNext

-----------------------------------------------------------------------------
(* What each action leaves of the thread that takes it, and of the others.  *)

LEMMA FuzzStepKeeps == FuzzCheckIInv /\ FuzzCheckNext => \A d \in Checkers : ThreadOK(d)'
<1> SUFFICES ASSUME FuzzCheckIInv, NEW c \in Checkers, NEW d \in Checkers,
                    Begin(c) \/ Nix(c) \/ CatchOurs(c) \/ Hook(c) \/ Returns(c) \/ Compare(c) \/ CheckInChild(c)
             PROVE  ThreadOK(d)'
  BY DEF FuzzCheckNext
<1>t. /\ FuzzCheckTypeOK /\ FuzzCheckTypeOK' /\ ThreadOK(c) /\ ThreadOK(d)
      /\ subject' = subject /\ subject[c] \in AllSubjects
  BY FuzzTypeKept, SubjectsAssumption DEF FuzzCheckIInv, ThreadOK, FuzzCheckNext, FuzzCheckTypeOK,
     Begin, Nix, CatchOurs, Hook, Returns, Compare, CheckInChild
<1>s. /\ PhaseOf(c) \in {"start", "parse", "nix", "ours", "running", "compare", "done"}
      /\ StepOf(c) \in {"parse", "eval", "catch"}
      /\ checkAt[c] = <<PhaseOf(c), StepOf(c)>>
  BY <1>t DEF FuzzCheckTypeOK, PhaseOf, StepOf
<1>o. CASE c # d
  <2> USE <1>o, <1>t DEF FuzzCheckTypeOK
  <2>1. CASE Begin(c)
    BY <2>1, OthersStay DEF Begin, Ends, Goes
  <2>2. CASE Nix(c)
    BY <2>2, OthersStay DEF Nix, Ends, Goes
  <2>3. CASE CatchOurs(c)
    BY <2>3, OthersStay, NoOneAssumption DEF CatchOurs, Goes, Locks, ThreadOK, HoldsSlot
  <2>4. CASE Hook(c)
    BY <2>4, OthersStay DEF Hook, ThreadOK, HoldsSlot, PhaseOf
  <2>5. CASE Returns(c)
    BY <2>5, OthersStay DEF Returns, Ends, Goes, ThreadOK, HoldsSlot, PhaseOf
  <2>6. CASE Compare(c)
    BY <2>6, OthersStay DEF Compare, Ends, Goes
  <2>7. CASE CheckInChild(c)
    <3>1. checkAt'[d] = checkAt[d] /\ outcome'[d] = outcome[d]
      BY <2>7 DEF CheckInChild, Goes
    <3>2. theirs'[d] = theirs[d] /\ ours'[d] = ours[d]
      BY <2>7 DEF CheckInChild
    <3>3. found' = [found EXCEPT ![c] = TRUE] /\ found \in [Checkers -> BOOLEAN]
      BY <2>7 DEF CheckInChild
    <3>4. found'[d] = found[d]
      BY <3>3, <1>o, Zenon
    <3> QED BY <2>7, <3>1, <3>2, <3>4, OthersStay DEF CheckInChild
  <2> QED BY <2>1, <2>2, <2>3, <2>4, <2>5, <2>6, <2>7
<1>c. CASE c = d
  <2> USE <1>c, <1>t, <1>s DEF FuzzCheckTypeOK, ThreadOK, ComesHere, NixSeen, OursSeen, HoldsSlot, Said, PhaseOf, StepOf, Checking
  <2>1. CASE Begin(c)
    BY <2>1 DEF Begin, Ends, Goes, FirstStep, Parses, AllSubjects, Panics, Diverging, Finding, Shows
  <2>2. CASE Nix(c)
    BY <2>2 DEF Nix, Ends, Goes, Parses, AllSubjects, Panics, Diverging, Shows, RunEnds, Exhausted
  <2>3. CASE CatchOurs(c)
    BY <2>3 DEF CatchOurs, Goes, Panics, Shows
  <2>4. CASE Hook(c)
    BY <2>4 DEF Hook, Panics
  <2>5. CASE Returns(c)
    <3>1. CASE Panics(c)
      BY <2>5, <3>1 DEF Returns, Ends, Goes, Panics, Diverging
    <3>2. CASE ~Panics(c) /\ StepOf(c) # "parse" /\ subject[c].ours \in {"disabled", "unimplemented"}
      BY <2>5, <3>2 DEF Returns, Ends, Goes, Panics, Diverging, Parses, Meanings
    <3>3. CASE ~Panics(c) /\ ~(StepOf(c) # "parse" /\ subject[c].ours \in {"disabled", "unimplemented"})
      <4>1. /\ checkAt' = [checkAt EXCEPT ![c] = <<IF StepOf(c) = "parse" THEN "nix" ELSE "compare", StepOf(c)>>]
            /\ ours' = [ours EXCEPT ![c] = Shows(subject[c].ours, StepOf(c))]
            /\ UNCHANGED <<subject, budget, theirs, outcome, found>>
        BY <2>5, <3>3 DEF Returns, Goes
      <4>2. Shows(subject[c].ours, StepOf(c)) # "panicking"
        BY ShowsResults DEF Results
      <4> QED BY <2>5, <3>3, <4>1, <4>2 DEF Returns, Panics
    <3> QED BY <3>1, <3>2, <3>3
  <2>6. CASE Compare(c)
    BY <2>6 DEF Compare, Ends, Goes, Panics, Shows, Diverging, Parses, Finding, Disagreed, Deliberate, MisreadPlatform, HiddenRoot, Agree, AllSubjects, Ours, Meanings
  <2>7. CASE CheckInChild(c)
    BY <2>7 DEF CheckInChild, Goes, Panics
  <2> QED BY <2>1, <2>2, <2>3, <2>4, <2>5, <2>6, <2>7
<1> QED BY <1>o, <1>c

\* A report tells what differs and nothing else, and it is the evaluation it is
\* about that panicked, with any number of checks beside it.
THEOREM ReportsAreTrue == FuzzCheckSpec => []FuzzCheckInv
<1>1. FuzzCheckInit => FuzzCheckIInv
  BY SubjectsAssumption DEF FuzzCheckInit, FuzzCheckIInv, FuzzCheckTypeOK, ThreadOK, ComesHere, NixSeen, OursSeen,
     HoldsSlot, Said, PhaseOf, StepOf, Checking, Results
<1>2. FuzzCheckIInv /\ [FuzzCheckNext]_checkVars => FuzzCheckIInv'
  <2> SUFFICES ASSUME FuzzCheckIInv, [FuzzCheckNext]_checkVars
               PROVE  FuzzCheckIInv'
    OBVIOUS
  <2>1. FuzzCheckTypeOK'
    BY FuzzTypeKept DEF FuzzCheckIInv
  <2>2. ASSUME NEW d \in Checkers
        PROVE  ThreadOK(d)'
    <3>1. CASE FuzzCheckNext
      BY <3>1, FuzzStepKeeps
    <3>2. CASE UNCHANGED checkVars
      BY <3>2, OthersStay DEF checkVars, FuzzCheckIInv, ThreadOK
    <3> QED BY <3>1, <3>2
  <2> QED BY <2>1, <2>2 DEF FuzzCheckIInv, ThreadOK
<1>3. FuzzCheckIInv => FuzzCheckInv
  BY DivergingIsFinding, SubjectsAssumption DEF FuzzCheckIInv, FuzzCheckInv, FuzzCheckTypeOK, Said,
     FindingsAreReal, NothingIsMissed, FoundAgain, PanicsBelong
<1> QED BY <1>1, <1>2, <1>3, PTL DEF FuzzCheckSpec

-----------------------------------------------------------------------------
(* FuzzRun: any inputs, builds and jobs, and any number of runs, killed    *)
(* anywhere.                                                               *)

\* Between the stages in which jobs run, none does, and one that runs has an input.
JobsRest ==
  /\ \A j \in Jobs : job[j] # Waiting => job[j].input \in Inputs /\ job[j].at # "idle"
  /\ stage \notin {"recheck", "merge", "fuzz"} => \A j \in Jobs : job[j] = Waiting

\* No two workers of a recheck have the same finding, one that is reported has its
\* files, and one that is removed does not diverge, or has lost its input.
FindingsInTurn ==
  stage = "recheck" =>
    \A j \in Jobs : job[j] # Waiting =>
      LET i == job[j].input IN
      /\ job[j].at \in {"check", "remove", "report"} /\ i \notin queue
      /\ \A k \in Jobs : job[k].input = i => k = j
      /\ job[j].at = "remove" => i \notin fuzzed.diverges \/ findings[i] = "dir"

\* Whatever the recheck has not made whole is before it.
FindingsLeft ==
  stage = "recheck" =>
    \A i \in FindingNames :
      \/ findings[i] = "whole" \/ i \in queue
      \/ findings[i] = "input" /\ i \in inconclusive
      \/ \E j \in Jobs : job[j].input = i /\ job[j].at \in {"check", "remove", "report"}

\* While a merge has inputs left, it has not ended.
MergesHold ==
  stage = "merge" =>
    /\ \A j \in Jobs : /\ job[j] # Waiting => merging[j] = "merging"
                       /\ merging[j] = "merged" => Shard(j) = {}
    /\ \A i \in Inputs : split[i] # NoInput => merging[split[i]] # "none"

\* What the corpus reaches is before a merge, or in what it writes.
StillReached ==
  /\ stage = "merge" => corpus \subseteq {i \in Inputs : split[i] # NoInput} \cup kept \cup unfinished
  /\ stage = "swap" => Coverage(corpus) \subseteq Coverage(kept \cup unfinished)
  /\ stage = "swapped" => Coverage(corpus) \subseteq Coverage(kept \cup crashed)

FuzzRunIInv ==
  /\ FuzzRunTypeOK /\ JobsRest
  /\ FindingsInTurn /\ FindingsLeft /\ FindingsAreWhole
  /\ MergesHold /\ StillReached

LEMMA CoverageGrows ==
  ASSUME NEW A, NEW B, A \subseteq B
  PROVE  Coverage(A) \subseteq Coverage(B)
BY DEF Coverage

LEMMA CoverageOfBoth == \A A, B : Coverage(A \cup B) = Coverage(A) \cup Coverage(B)
BY DEF Coverage

LEMMA FuzzRunTyped == FuzzRunTypeOK /\ JobsRest /\ [FuzzRunNext]_fuzzRunVars => FuzzRunTypeOK'
<1> SUFFICES ASSUME FuzzRunTypeOK, JobsRest, [FuzzRunNext]_fuzzRunVars PROVE FuzzRunTypeOK'
  OBVIOUS
<1> USE FuzzRunAssumption DEF FuzzRunTypeOK, setupVars, dirVars, mergeVars, statVars, fuzzRunVars
<1>1. CASE Stop
  BY <1>1 DEF Stop, NoMerge, Waiting
<1>2. CASE Upgrade
  BY <1>2 DEF Upgrade
<1>3. CASE Start
  BY <1>3 DEF Start, FindingNames
<1>4. CASE Rechecked
  BY <1>4 DEF Rechecked
<1>5. CASE AddLines
  BY <1>5 DEF AddLines
<1>6. CASE Minimise
  <2>1. ToMerge \subseteq Inputs
    BY DEF ToMerge
  <2>2. PICK shards \in [ToMerge -> Jobs] :
          /\ split' = [i \in Inputs |-> IF i \in ToMerge THEN shards[i] ELSE NoInput]
          /\ merging' = [j \in Jobs |-> IF \E i \in ToMerge : shards[i] = j THEN "merging" ELSE "none"]
    BY <1>6 DEF Minimise
  <2>3. split' \in [Inputs -> Jobs \cup {NoInput}]
    BY <2>1, <2>2
  <2>4. merging' \in [Jobs -> {"none", "merging", "merged", "failed"}]
    BY <2>2
  <2> QED BY <1>6, <2>3, <2>4 DEF Minimise
<1>7. CASE Merged
  BY <1>7 DEF Merged, NoMerge, Covering
<1>8. CASE Swap
  BY <1>8 DEF Swap
<1>9. CASE SwapEnds
  BY <1>9 DEF SwapEnds, NoMerge
<1>10. CASE Fuzz
  BY <1>10 DEF Fuzz, NoMerge
<1> DEFINE Ats == {"idle", "check", "mkdir", "input", "report", "remove", "count"}
           AJob == [input : Inputs \cup {NoInput}, at : Ats]
<1>a. Waiting \in AJob /\ \A i \in Inputs : \A a \in Ats : [input |-> i, at |-> a] \in AJob
  BY DEF Waiting
<1>b. ASSUME NEW j \in Jobs, NEW a \in Ats PROVE [job[j] EXCEPT !.at = a] \in AJob
  OBVIOUS
<1>c. ASSUME NEW j \in Jobs, NEW x \in AJob PROVE [job EXCEPT ![j] = x] \in [Jobs -> AJob]
  OBVIOUS
<1>d. \A j \in Jobs : job[j] = Waiting \/ job[j].input \in Inputs
  BY DEF JobsRest
<1>e. \A j \in Jobs : job[j].at # "idle" => job[j].input \in Inputs
  BY <1>d DEF Waiting
<1> HIDE DEF AJob
<1>11. ASSUME NEW j \in Jobs, Take(j) PROVE FuzzRunTypeOK'
  <2>1. PICK i \in queue : queue' = queue \ {i} /\ job' = [job EXCEPT ![j] = [input |-> i, at |-> "check"]]
    BY <1>11 DEF Take
  <2>2. job' \in [Jobs -> AJob]
    BY <1>a, <1>c, <2>1
  <2> QED BY <1>11, <2>1, <2>2 DEF Take, AJob
<1>12. ASSUME NEW j \in Jobs, RecheckOne(j) PROVE FuzzRunTypeOK'
  <2>1. job[j].input \in Inputs
    BY <1>e, <1>12 DEF RecheckOne
  <2>2. job' \in [Jobs -> AJob]
    <3>1. PICK verdict : job' = [job EXCEPT ![j] = IF Disposes(verdict) = "idle" THEN Waiting ELSE [@ EXCEPT !.at = Disposes(verdict)]]
      BY <1>12 DEF RecheckOne
    <3>2. Disposes(verdict) \in Ats
      BY DEF Disposes
    <3>3. (IF Disposes(verdict) = "idle" THEN Waiting ELSE [job[j] EXCEPT !.at = Disposes(verdict)]) \in AJob
      BY <1>a, <1>b, <3>2
    <3> QED BY <1>c, <3>1, <3>3
  <2>3. inconclusive' \subseteq Inputs
    BY <1>12, <2>1 DEF RecheckOne
  <2> QED BY <1>12, <2>2, <2>3 DEF RecheckOne, AJob
<1>16. ASSUME NEW j \in Jobs, RemoveFinding(j) \/ Refresh(j) PROVE FuzzRunTypeOK'
  <2>1. job' \in [Jobs -> AJob]
    BY <1>16, <1>a, <1>c DEF RemoveFinding, Refresh, AJob
  <2>2. findings' \in [Inputs -> {"none", "dir", "input", "whole"}]
    BY <1>16 DEF RemoveFinding, Refresh
  <2> QED BY <1>16, <2>1, <2>2 DEF RemoveFinding, Refresh, AJob
<1>17. ASSUME NEW j \in Jobs, Record(j) PROVE FuzzRunTypeOK'
  <2>1. PICK a \in Ats : job' = [job EXCEPT ![j] = [job[j] EXCEPT !.at = a]]
    BY <1>17 DEF Record, Moves
  <2>2. job' \in [Jobs -> AJob]
    BY <1>b, <1>c, <2>1
  <2>3. findings' \in [Inputs -> {"none", "dir", "input", "whole"}]
    <3>1. \/ findings' = findings
          \/ \E f \in {"dir", "input", "whole"} : findings' = [findings EXCEPT ![job[j].input] = f]
      BY <1>17 DEF Record, FindingBecomes
    <3> QED BY <3>1
  <2> QED BY <1>17, <2>2, <2>3 DEF Record, AJob
<1>18. ASSUME NEW j \in Jobs, CheckOne(j) PROVE FuzzRunTypeOK'
  <2>1. PICK i \in InputsFor(j) :
       /\ split' = IF stage = "merge" THEN [split EXCEPT ![i] = NoInput] ELSE split
       /\ IF i \in fuzzed.crashes
            THEN /\ pending' = [pending EXCEPT ![j] = 0]
                 /\ unfinished' = IF stage = "merge" THEN unfinished \cup {i} ELSE unfinished
                 /\ UNCHANGED <<job, kept, checks>>
            ELSE /\ job' = [job EXCEPT ![j] = [input |-> i, at |-> IF i \in fuzzed.diverges THEN "mkdir" ELSE "count"]]
                 /\ checks' = checks + 1
                 /\ kept' = IF stage = "merge" THEN kept \cup {i} ELSE kept
                 /\ UNCHANGED <<unfinished, pending>>
    BY <1>18 DEF CheckOne
  <2>2. i \in Inputs
    BY DEF InputsFor, Shard
  <2>3. split' \in [Inputs -> Jobs \cup {NoInput}]
    BY <2>1, <2>2
  <2>4. job' \in [Jobs -> AJob]
    <3>1. [input |-> i, at |-> IF i \in fuzzed.diverges THEN "mkdir" ELSE "count"] \in AJob
      BY <1>a, <2>2
    <3>2. CASE i \in fuzzed.crashes
      BY <2>1, <3>2 DEF AJob
    <3>3. CASE i \notin fuzzed.crashes
      BY <1>c, <2>1, <3>1, <3>3
    <3> QED BY <3>2, <3>3
  <2>5. pending' \in [Jobs -> Nat] /\ checks' \in Nat /\ kept' \subseteq Inputs /\ unfinished' \subseteq Inputs
    BY <2>1, <2>2
  <2> QED BY <1>18, <2>3, <2>4, <2>5 DEF CheckOne, AJob
<1>19. ASSUME NEW j \in Jobs, Count(j) PROVE FuzzRunTypeOK'
  <2>1. job' = [job EXCEPT ![j] = Waiting] /\ job[j].input \in Inputs
    BY <1>e, <1>19 DEF Count
  <2>2. job' \in [Jobs -> AJob]
    BY <1>a, <1>c, <2>1
  <2>3. pending' \in [Jobs -> Nat] /\ piped' \in Nat
    BY <1>19 DEF Count, AfterReport
  <2>4. corpus' \subseteq Inputs
    BY <1>19, <2>1 DEF Count
  <2> QED BY <1>19, <2>2, <2>3, <2>4 DEF Count, AJob
<1>14. ASSUME NEW j \in Jobs, MergeEnds(j) PROVE FuzzRunTypeOK'
  BY <1>14 DEF MergeEnds
<1>15. CASE UNCHANGED fuzzRunVars
  BY <1>15
<1> QED
  BY <1>1, <1>2, <1>3, <1>4, <1>5, <1>6, <1>7, <1>8, <1>9, <1>10, <1>11, <1>12, <1>14, <1>15, <1>16, <1>17, <1>18, <1>19 DEF FuzzRunNext
LEMMA JobsRestStays == FuzzRunIInv /\ [FuzzRunNext]_fuzzRunVars => JobsRest'
<1> SUFFICES ASSUME FuzzRunTypeOK, JobsRest, MergesHold, [FuzzRunNext]_fuzzRunVars PROVE JobsRest'
  BY DEF FuzzRunIInv
<1> USE DEF setupVars, dirVars, mergeVars, statVars, fuzzRunVars
<1>1. CASE Stop
  BY <1>1 DEF Stop, JobsRest
<1>2. CASE UNCHANGED <<job, stage>>
  BY <1>2 DEF JobsRest, Waiting
<1>3. CASE Start \/ Rechecked \/ Minimise \/ Swap \/ SwapEnds \/ Fuzz
  BY <1>3 DEF Start, Rechecked, Minimise, Swap, SwapEnds, Fuzz, JobsRest, Waiting
<1>4. CASE Merged
  <2>1. \A j \in Jobs : job[j] = Waiting
    BY <1>4 DEF Merged, MergesHold
  <2> QED BY <1>4, <2>1 DEF Merged, JobsRest, Waiting
<1>5. ASSUME NEW j \in Jobs, Take(j) \/ RecheckOne(j) \/ RemoveFinding(j) \/ Refresh(j) \/ CheckOne(j) \/ Record(j) \/ Count(j)
      PROVE  JobsRest'
  <2>1. stage \in {"recheck", "merge", "fuzz"} /\ stage' = stage
    BY <1>5 DEF Take, RecheckOne, RemoveFinding, Refresh, CheckOne, Record, Count
  <2>2. /\ job' = [job EXCEPT ![j] = job'[j]]
        /\ job'[j] # Waiting => job'[j].input \in Inputs /\ job'[j].at # "idle"
    <3>1. job[j].at # "idle" => job[j].input \in Inputs
      BY DEF JobsRest, Waiting
    <3>2. CASE Take(j)
      <4>1. PICK i \in queue : job' = [job EXCEPT ![j] = [input |-> i, at |-> "check"]]
        BY <3>2 DEF Take
      <4> QED BY <4>1 DEF FuzzRunTypeOK
    <3>3. CASE RecheckOne(j)
      <4>1. PICK verdict : job' = [job EXCEPT ![j] = IF Disposes(verdict) = "idle" THEN Waiting ELSE [@ EXCEPT !.at = Disposes(verdict)]]
        BY <3>3 DEF RecheckOne
      <4>2. job[j] \in [input : Inputs \cup {NoInput}, at : {"idle", "check", "mkdir", "input", "report", "remove", "count"}]
        BY DEF FuzzRunTypeOK
      <4>3. job[j].input \in Inputs
        BY <3>1, <3>3 DEF RecheckOne
      <4> DEFINE x == IF Disposes(verdict) = "idle" THEN Waiting ELSE [job[j] EXCEPT !.at = Disposes(verdict)]
      <4>4. x # Waiting => x.input \in Inputs /\ x.at # "idle"
        BY <4>2, <4>3
      <4>5. job'[j] = x /\ job' = [job EXCEPT ![j] = x]
        BY <4>1 DEF FuzzRunTypeOK
      <4> HIDE DEF x
      <4> QED BY <4>4, <4>5
    <3>4. CASE RemoveFinding(j) \/ Refresh(j) \/ Count(j)
      <4>1. job' = job \/ job' = [job EXCEPT ![j] = Waiting]
        BY <3>4 DEF RemoveFinding, Refresh, Count
      <4>2. job = [job EXCEPT ![j] = job[j]]
        BY DEF FuzzRunTypeOK
      <4> QED BY <4>1, <4>2 DEF JobsRest, FuzzRunTypeOK
    <3>5. CASE CheckOne(j)
      <4>1. PICK i \in InputsFor(j) :
              job' = job \/ job' = [job EXCEPT ![j] = [input |-> i, at |-> IF i \in fuzzed.diverges THEN "mkdir" ELSE "count"]]
        BY <3>5 DEF CheckOne
      <4>2. i \in Inputs
        BY DEF InputsFor, Shard
      <4>3. job = [job EXCEPT ![j] = job[j]]
        BY DEF FuzzRunTypeOK
      <4>4. CASE job' = job
        BY <4>3, <4>4 DEF JobsRest
      <4> DEFINE x == [input |-> i, at |-> IF i \in fuzzed.diverges THEN "mkdir" ELSE "count"]
      <4>5. CASE job' = [job EXCEPT ![j] = x]
        <5>1. x.input \in Inputs /\ x.at # "idle"
          BY <4>2
        <5> HIDE DEF x
        <5>2. job'[j] = x
          BY <4>5 DEF FuzzRunTypeOK
        <5> QED BY <4>5, <5>1, <5>2
      <4> QED BY <4>1, <4>4, <4>5
    <3>6. CASE Record(j)
      <4>1. PICK a \in {"input", "report", "count"} : job' = [job EXCEPT ![j] = [job[j] EXCEPT !.at = a]]
        BY <3>6 DEF Record, Moves
      <4>2. job[j].input \in Inputs
        BY <3>1, <3>6 DEF Record
      <4>3. job[j] \in [input : Inputs \cup {NoInput}, at : {"idle", "check", "mkdir", "input", "report", "remove", "count"}]
        BY DEF FuzzRunTypeOK
      <4>4. job'[j] = [job[j] EXCEPT !.at = a]
        BY <4>1 DEF FuzzRunTypeOK
      <4> QED BY <4>1, <4>2, <4>3, <4>4
    <3> QED BY <1>5, <3>2, <3>3, <3>4, <3>5, <3>6
  <2> QED BY <2>1, <2>2 DEF JobsRest, Waiting, FuzzRunTypeOK
<1>6. ASSUME NEW j \in Jobs, MergeEnds(j) PROVE JobsRest'
  BY <1>2, <1>6 DEF MergeEnds
<1> QED BY <1>1, <1>2, <1>3, <1>4, <1>5, <1>6 DEF FuzzRunNext, Upgrade, AddLines

LEMMA MergesHoldStays == FuzzRunIInv /\ [FuzzRunNext]_fuzzRunVars => MergesHold' /\ StillReached'
<1> SUFFICES ASSUME FuzzRunIInv, [FuzzRunNext]_fuzzRunVars PROVE MergesHold' /\ StillReached'
  OBVIOUS
<1>0. FuzzRunTypeOK /\ JobsRest /\ MergesHold /\ StillReached
  BY DEF FuzzRunIInv
<1> USE DEF setupVars, dirVars, mergeVars, statVars, fuzzRunVars
<1>1. CASE stage' \in {"off", "recheck", "minimise", "fuzz"}
  BY <1>1 DEF MergesHold, StillReached
<1>2. CASE UNCHANGED <<job, stage, merging, split, corpus, crashed, kept, unfinished>>
  BY <1>0, <1>2 DEF MergesHold, StillReached, Shard, Coverage, Waiting
<1>3. CASE Minimise
  <2>1. ToMerge \subseteq Inputs /\ corpus \subseteq ToMerge
    BY <1>0, FuzzRunAssumption DEF ToMerge, FuzzRunTypeOK
  <2>2. PICK shards \in [ToMerge -> Jobs] :
          /\ split' = [i \in Inputs |-> IF i \in ToMerge THEN shards[i] ELSE NoInput]
          /\ merging' = [j \in Jobs |-> IF \E i \in ToMerge : shards[i] = j THEN "merging" ELSE "none"]
    BY <1>3 DEF Minimise
  <2>3. stage = "minimise" /\ stage' = "merge" /\ job' = job /\ corpus' = corpus
    BY <1>3 DEF Minimise
  <2>4. \A j \in Jobs : job[j] = Waiting
    BY <1>0, <2>3 DEF JobsRest
  <2>5. MergesHold'
    <3>1. \A j \in Jobs : merging'[j] # "merged"
      BY <2>2
    <3>2. \A i \in Inputs : split'[i] # NoInput => merging'[split'[i]] = "merging"
      BY <2>2
    <3> QED BY <2>3, <2>4, <3>1, <3>2 DEF MergesHold, Waiting
  <2>6. \A i \in corpus : split'[i] # NoInput
    BY <2>1, <2>2, FuzzRunAssumption
  <2> QED BY <2>1, <2>3, <2>5, <2>6 DEF StillReached
<1>4. CASE Merged /\ stage' = "swap"
  <2>1. \A j \in Jobs : merging[j] \in {"none", "merged"}
    BY <1>0, <1>4 DEF Merged, FuzzRunTypeOK
  <2>2. \A i \in Inputs : split[i] = NoInput
    <3> SUFFICES ASSUME NEW i \in Inputs, split[i] # NoInput PROVE FALSE
      OBVIOUS
    <3>1. split[i] \in Jobs /\ stage = "merge"
      BY <1>0, <1>4 DEF FuzzRunTypeOK, Merged
    <3>2. merging[split[i]] # "none" /\ (merging[split[i]] = "merged" => Shard(split[i]) = {})
      BY <1>0, <3>1 DEF MergesHold
    <3> QED BY <2>1, <3>1, <3>2 DEF Shard
  <2>3. stage = "merge" /\ corpus' = corpus /\ unfinished' = unfinished /\ Coverage(kept') = Coverage(kept)
    BY <1>4 DEF Merged, Covering
  <2>4. corpus \subseteq kept \cup unfinished
    BY <1>0, <2>2, <2>3 DEF StillReached
  <2>5. Coverage(corpus) \subseteq Coverage(kept' \cup unfinished)
    <3>1. Coverage(corpus) \subseteq Coverage(kept \cup unfinished)
      BY <2>4, CoverageGrows
    <3>2. Coverage(kept \cup unfinished) = Coverage(kept) \cup Coverage(unfinished)
      BY CoverageOfBoth
    <3>3. Coverage(kept' \cup unfinished) = Coverage(kept') \cup Coverage(unfinished)
      BY CoverageOfBoth
    <3> QED BY <2>3, <3>1, <3>2, <3>3
  <2> QED BY <1>4, <2>3, <2>5 DEF MergesHold, StillReached, Coverage
<1>5. CASE Swap
  <2>1. corpus' = corpus /\ kept' = kept /\ crashed' = unfinished /\ stage = "swap" /\ stage' = "swapped"
    BY <1>5 DEF Swap, First
  <2> QED BY <1>0, <2>1 DEF MergesHold, StillReached, Coverage
<1>6. ASSUME NEW j \in Jobs, CheckOne(j), stage = "merge" PROVE MergesHold' /\ StillReached'
  <2>1. PICK i \in InputsFor(j) :
     /\ split' = [split EXCEPT ![i] = NoInput]
     /\ \/ unfinished' = unfinished \cup {i} /\ UNCHANGED <<job, kept>>
        \/ /\ job' = [job EXCEPT ![j] = [input |-> i, at |-> IF i \in fuzzed.diverges THEN "mkdir" ELSE "count"]]
           /\ kept' = kept \cup {i} /\ unfinished' = unfinished
    BY <1>6 DEF CheckOne
  <2>2. i \in Inputs /\ merging[j] = "merging"
    BY <1>6 DEF InputsFor, Shard
  <2>3. merging' = merging /\ stage' = stage /\ corpus' = corpus /\ crashed' = crashed
    BY <1>6 DEF CheckOne
  <2>4. \A n \in Inputs : split'[n] = IF n = i THEN NoInput ELSE split[n]
    BY <1>0, <2>1, <2>2 DEF FuzzRunTypeOK
  <2>5. \A k \in Jobs : k # j => job'[k] = job[k]
    BY <1>0, <2>1 DEF FuzzRunTypeOK
  <2>6. MergesHold'
    <3>1. \A k \in Jobs : job'[k] # Waiting => merging'[k] = "merging"
      BY <1>0, <1>6, <2>2, <2>3, <2>5 DEF MergesHold
    <3>2. ASSUME NEW k \in Jobs, merging'[k] = "merged" PROVE Shard(k)' = {}
      <4>1. Shard(k) = {} /\ k # NoInput
        BY <1>0, <1>6, <2>3, <3>2, FuzzRunAssumption DEF MergesHold
      <4> QED BY <2>4, <4>1 DEF Shard
    <3>3. \A n \in Inputs : split'[n] # NoInput => merging'[split'[n]] # "none"
      BY <1>0, <1>6, <2>3, <2>4 DEF MergesHold
    <3> QED BY <3>1, <3>2, <3>3 DEF MergesHold, Waiting
  <2>7. corpus \subseteq {n \in Inputs : split'[n] # NoInput} \cup kept' \cup unfinished'
    BY <1>0, <1>6, <2>1, <2>2, <2>4 DEF StillReached
  <2> QED BY <1>6, <2>3, <2>6, <2>7 DEF StillReached
<1>7. ASSUME NEW j \in Jobs, Record(j) \/ Count(j), stage = "merge" PROVE MergesHold' /\ StillReached'
  <2>1. /\ UNCHANGED <<stage, merging, split, corpus, crashed, kept, unfinished>>
        /\ job[j] # Waiting
    <3>1. CASE Record(j)
      BY <3>1 DEF Record, Waiting
    <3>2. CASE Count(j)
      <4>1. corpus' = corpus
        BY <1>7, <3>2 DEF Count, Adds
      <4> QED BY <3>2, <4>1 DEF Count, Waiting
    <3> QED BY <1>7, <3>1, <3>2
  <2>2. \A k \in Jobs : k # j => job'[k] = job[k]
    BY <1>0, <1>7 DEF Record, Count, Moves, FuzzRunTypeOK
  <2> QED BY <1>0, <1>7, <2>1, <2>2 DEF MergesHold, StillReached, Shard, Waiting
<1>8. ASSUME NEW j \in Jobs, MergeEnds(j) PROVE MergesHold' /\ StillReached'
  <2>1. /\ UNCHANGED <<job, stage, split, corpus, crashed, kept, unfinished>> /\ stage = "merge" /\ job[j] = Waiting
        /\ \/ merging' = [merging EXCEPT ![j] = "merged"] /\ Shard(j) = {}
           \/ merging' = [merging EXCEPT ![j] = "failed"]
    BY <1>8 DEF MergeEnds
  <2>2. \A k \in Jobs : k # j => merging'[k] = merging[k]
    BY <1>0, <2>1 DEF FuzzRunTypeOK
  <2>3. merging'[j] # "none" /\ (merging'[j] = "merged" => Shard(j) = {})
    BY <1>0, <2>1 DEF FuzzRunTypeOK
  <2>4. \A n \in Inputs : split[n] # NoInput => split[n] \in Jobs
    BY <1>0 DEF FuzzRunTypeOK
  <2> QED BY <1>0, <2>1, <2>2, <2>3, <2>4 DEF MergesHold, StillReached, Shard, Waiting
<1>9. ASSUME NEW j \in Jobs, Take(j) \/ RecheckOne(j) \/ RemoveFinding(j) \/ Refresh(j) PROVE stage' = "recheck"
  BY <1>9 DEF Take, RecheckOne, RemoveFinding, Refresh
<1>10. ASSUME NEW j \in Jobs, CheckOne(j) \/ Record(j) \/ Count(j) PROVE stage \in {"merge", "fuzz"} /\ stage' = stage
  BY <1>10 DEF CheckOne, Record, Count
<1>11. Stop \/ Start \/ Rechecked \/ SwapEnds \/ Fuzz => stage' \in {"off", "recheck", "minimise", "fuzz"}
  BY DEF Stop, Start, Rechecked, SwapEnds, Fuzz
<1>12. Merged => stage' \in {"swap", "fuzz"}
  BY DEF Merged
<1>13. Upgrade \/ AddLines => UNCHANGED <<job, stage, merging, split, corpus, crashed, kept, unfinished>>
  BY DEF Upgrade, AddLines
<1> QED
  BY <1>1, <1>2, <1>3, <1>4, <1>5, <1>6, <1>7, <1>8, <1>9, <1>10, <1>11, <1>12, <1>13 DEF FuzzRunNext
\* What a job that moves on does to its entry, and to the finding it is at.
LEMMA OneMoves ==
  ASSUME FuzzRunIInv, NEW j \in Jobs,
         Take(j) \/ RecheckOne(j) \/ RemoveFinding(j) \/ Refresh(j) \/ CheckOne(j) \/ Record(j) \/ Count(j)
  PROVE  /\ \A k \in Jobs : k # j => job'[k] = job[k]
         /\ \A i \in Inputs : i # job[j].input => findings'[i] = findings[i]
         /\ fuzzed' = fuzzed /\ stage' = stage
<1>1. job \in [Jobs -> [input : Inputs \cup {NoInput}, at : {"idle", "check", "mkdir", "input", "report", "remove", "count"}]]
      /\ findings \in [Inputs -> {"none", "dir", "input", "whole"}]
  BY DEF FuzzRunIInv, FuzzRunTypeOK
<1>2. CASE Take(j)
  BY <1>1, <1>2 DEF Take, dirVars, setupVars
<1>3. CASE RecheckOne(j)
  BY <1>1, <1>3 DEF RecheckOne, dirVars, setupVars
<1>4. CASE RemoveFinding(j) \/ Refresh(j)
  BY <1>1, <1>4 DEF RemoveFinding, Refresh, setupVars
<1>5. CASE CheckOne(j)
  BY <1>1, <1>5 DEF CheckOne, dirVars, setupVars
<1>6. CASE Record(j)
  <2>1. \A k \in Jobs : k # j => job'[k] = job[k]
    BY <1>1, <1>6 DEF Record, Moves
  <2>2. \A i \in Inputs : i # job[j].input => findings'[i] = findings[i]
    BY <1>1, <1>6 DEF Record, FindingBecomes
  <2> QED BY <1>6, <2>1, <2>2 DEF Record, setupVars
<1>7. CASE Count(j)
  BY <1>1, <1>7 DEF Count, setupVars
<1> QED BY <1>2, <1>3, <1>4, <1>5, <1>6, <1>7

\* What becomes of a finding in a step of a recheck's worker.
LEMMA RecheckMoves ==
  ASSUME FuzzRunIInv, stage = "recheck", NEW j \in Jobs,
         Take(j) \/ RecheckOne(j) \/ RemoveFinding(j) \/ Refresh(j)
  PROVE  FindingsInTurn' /\ FindingsLeft'
<1> DEFINE i == job[j].input
<1>1. /\ job \in [Jobs -> [input : Inputs \cup {NoInput}, at : {"idle", "check", "mkdir", "input", "report", "remove", "count"}]]
      /\ findings \in [Inputs -> {"none", "dir", "input", "whole"}] /\ queue \subseteq Inputs
  BY DEF FuzzRunIInv, FuzzRunTypeOK
<1>2. /\ \A k \in Jobs : k # j => job'[k] = job[k]
      /\ \A n \in Inputs : n # i => findings'[n] = findings[n]
      /\ fuzzed' = fuzzed /\ stage' = stage
  BY OneMoves
<1>3. /\ JobsRest /\ FindingsInTurn /\ FindingsLeft
      /\ DOMAIN findings = Inputs /\ \A k \in Jobs : job[k] = Waiting => job[k].input = NoInput
  BY <1>1 DEF FuzzRunIInv, Waiting
<1>4. NoInput \notin Inputs /\ NoInput \notin queue
  BY <1>1, FuzzRunAssumption
<1>5. CASE Take(j)
  <2>1. PICK n \in queue : queue' = queue \ {n} /\ job' = [job EXCEPT ![j] = [input |-> n, at |-> "check"]]
    BY <1>5 DEF Take
  <2>2. findings' = findings /\ inconclusive' = inconclusive /\ job[j] = Waiting
    BY <1>5 DEF Take, dirVars
  <2>3. job'[j].input = n /\ job'[j].at = "check" /\ n \in Inputs
    BY <1>1, <2>1
  <2>4. \A k \in Jobs : job[k].input # n
    <3>1. \A k \in Jobs : job[k] # Waiting => job[k].input \notin queue
      BY <1>3 DEF FindingsInTurn
    <3> QED BY <1>3, <1>4, <3>1
  <2>5. FindingsInTurn'
    <3> SUFFICES ASSUME NEW k \in Jobs, job'[k] # Waiting
                 PROVE  LET x == job'[k].input IN
                        /\ job'[k].at \in {"check", "remove", "report"} /\ x \notin queue'
                        /\ \A o \in Jobs : job'[o].input = x => o = k
                        /\ job'[k].at = "remove" => x \notin fuzzed'.diverges \/ findings'[x] = "dir"
      BY DEF FindingsInTurn, Waiting
    <3>1. CASE k = j
      BY <1>2, <2>1, <2>3, <2>4, <3>1
    <3>2. CASE k # j
      <4>1. job'[k] = job[k]
        BY <1>2, <3>2
      <4>2. \A o \in Jobs : job'[o].input = job[k].input => o = k
        BY <1>2, <1>3, <2>3, <2>4, <4>1, <3>2 DEF FindingsInTurn
      <4> QED BY <1>2, <1>3, <2>1, <2>2, <4>1, <4>2 DEF FindingsInTurn
    <3> QED BY <3>1, <3>2
  <2>6. FindingsLeft'
    <3> SUFFICES ASSUME NEW x \in FindingNames
                 PROVE  \/ findings[x] = "whole" \/ x \in queue'
                        \/ findings[x] = "input" /\ x \in inconclusive
                        \/ \E k \in Jobs : job'[k].input = x /\ job'[k].at \in {"check", "remove", "report"}
      BY <2>2 DEF FindingsLeft, FindingNames
    <3>1. x \in queue => x \in queue' \/ x = n
      BY <2>1
    <3>2. \A k \in Jobs : job[k].input = x => k # j
      BY <1>3, <1>4, <2>2 DEF FindingNames
    <3> QED BY <1>2, <1>3, <2>3, <3>1, <3>2 DEF FindingsLeft
  <2> QED BY <2>5, <2>6
<1>6. CASE RecheckOne(j) \/ RemoveFinding(j) \/ Refresh(j)
  <2>1. queue' = queue /\ job[j].at # "idle" /\ job[j] # Waiting
    BY <1>6 DEF RecheckOne, RemoveFinding, Refresh, Waiting
  <2>2. i \in Inputs /\ i \notin queue /\ \A k \in Jobs : job[k].input = i => k = j
    BY <1>3, <2>1 DEF JobsRest, FindingsInTurn
  \* What is left of the finding.
  <2>3. /\ \/ job'[j] = Waiting
           \/ /\ job'[j].input = i /\ job'[j].at \in {"remove", "report"}
              /\ job'[j].at = "remove" => i \notin fuzzed.diverges \/ findings'[i] = "dir"
        /\ \/ findings'[i] \in {"none", "whole"}
           \/ findings'[i] = "input" /\ i \in inconclusive'
           \/ job'[j].input = i /\ job'[j].at \in {"remove", "report"}
        /\ inconclusive \subseteq inconclusive'
    <3>1. CASE RecheckOne(j)
      <4>1. PICK verdict \in IF findings[i] = "dir" THEN {"unreadable"} ELSE Verdicts(i) :
              /\ job' = [job EXCEPT ![j] = IF Disposes(verdict) = "idle" THEN Waiting ELSE [@ EXCEPT !.at = Disposes(verdict)]]
              /\ inconclusive' = inconclusive \cup {x \in {i} : Disposes(verdict) = "idle"}
        BY <3>1 DEF RecheckOne
      <4>2. findings' = findings
        BY <3>1 DEF RecheckOne, dirVars
      <4>3. CASE findings[i] = "dir"
        <5>1. Disposes(verdict) = "remove"
          BY <4>1, <4>3 DEF Disposes
        <5>2. job'[j].input = i /\ job'[j].at = "remove"
          BY <1>1, <4>1, <5>1
        <5> QED BY <4>1, <4>2, <4>3, <5>2
      <4>4. CASE findings[i] # "dir"
        <5>1. verdict \in {"skipped", "diverged", "agree"} /\ (verdict = "agree" => i \notin fuzzed.diverges)
          BY <4>1, <4>4 DEF Verdicts
        <5>2. CASE verdict = "skipped"
          <6>1. Disposes(verdict) = "idle"
            BY <5>2 DEF Disposes
          <6>2. job'[j] = Waiting /\ i \in inconclusive'
            BY <1>1, <4>1, <6>1
          <6>3. findings[i] \in {"none", "input", "whole"}
            BY <1>1, <2>2, <4>4
          <6> QED BY <4>1, <4>2, <6>2, <6>3
        <5>3. CASE verdict \in {"diverged", "agree"}
          <6>1. Disposes(verdict) = IF verdict = "diverged" THEN "report" ELSE "remove"
            BY <5>3 DEF Disposes
          <6>2. job'[j].input = i /\ job'[j].at = IF verdict = "diverged" THEN "report" ELSE "remove"
            BY <1>1, <4>1, <5>3, <6>1
          <6> QED BY <4>1, <5>1, <5>3, <6>2
        <5> QED BY <5>1, <5>2, <5>3
      <4> QED BY <4>3, <4>4
    <3>2. CASE RemoveFinding(j)
      <4>1. inconclusive' = inconclusive /\ job[j].at = "remove"
        BY <3>2 DEF RemoveFinding
      <4>2. CASE findings[i] = "dir"
        <5>1. job'[j] = Waiting /\ findings'[i] = "none"
          BY <1>1, <2>2, <3>2, <4>2 DEF RemoveFinding
        <5> QED BY <4>1, <5>1
      <4>3. CASE findings[i] # "dir"
        <5>1. job' = job /\ findings'[i] = "dir"
          BY <1>1, <2>2, <3>2, <4>3 DEF RemoveFinding
        <5> QED BY <4>1, <5>1
      <4> QED BY <4>2, <4>3
    <3>3. CASE Refresh(j)
      BY <1>1, <2>2, <3>3 DEF Refresh
    <3> QED BY <1>6, <3>1, <3>2, <3>3
  <2>4. FindingsInTurn'
    <3> SUFFICES ASSUME NEW k \in Jobs, job'[k] # Waiting
                 PROVE  LET x == job'[k].input IN
                        /\ job'[k].at \in {"check", "remove", "report"} /\ x \notin queue
                        /\ \A o \in Jobs : job'[o].input = x => o = k
                        /\ job'[k].at = "remove" => x \notin fuzzed.diverges \/ findings'[x] = "dir"
      BY <1>2, <2>1 DEF FindingsInTurn, Waiting
    <3>1. CASE k = j
      BY <1>2, <2>2, <2>3, <3>1
    <3>2. CASE k # j
      <4>1. job'[k] = job[k] /\ job[k] # Waiting /\ job[k].input # i
        BY <1>2, <2>2, <3>2
      <4>2. job[k].input \in Inputs
        BY <1>3, <4>1 DEF JobsRest
      <4>3. /\ job[k].at \in {"check", "remove", "report"} /\ job[k].input \notin queue
            /\ \A o \in Jobs : job[o].input = job[k].input => o = k
            /\ job[k].at = "remove" => job[k].input \notin fuzzed.diverges \/ findings[job[k].input] = "dir"
        BY <1>3, <4>1 DEF FindingsInTurn
      <4>4. findings'[job[k].input] = findings[job[k].input]
        BY <1>2, <4>1, <4>2
      <4>5. job'[j].input # job[k].input
        BY <1>4, <2>3, <4>1, <4>2 DEF Waiting
      <4> QED BY <1>2, <4>1, <4>3, <4>4, <4>5
    <3> QED BY <3>1, <3>2
  <2>5. FindingsLeft'
    <3> SUFFICES ASSUME NEW x \in Inputs, findings'[x] # "none"
                 PROVE  \/ findings'[x] = "whole" \/ x \in queue
                        \/ findings'[x] = "input" /\ x \in inconclusive'
                        \/ \E k \in Jobs : job'[k].input = x /\ job'[k].at \in {"check", "remove", "report"}
      BY <2>1 DEF FindingsLeft, FindingNames
    <3>1. CASE x = i
      BY <2>3, <3>1
    <3>2. CASE x # i
      <4>1. findings'[x] = findings[x] /\ x \in FindingNames
        BY <1>2, <3>2 DEF FindingNames
      <4>2. \A k \in Jobs : job[k].input = x => job'[k] = job[k]
        BY <1>2, <3>2
      <4> QED BY <1>3, <2>3, <4>1, <4>2 DEF FindingsLeft
    <3> QED BY <3>1, <3>2
  <2> QED BY <2>4, <2>5
<1> QED BY <1>5, <1>6

LEMMA FindingsStay ==
  FuzzRunIInv /\ [FuzzRunNext]_fuzzRunVars => FindingsInTurn' /\ FindingsLeft' /\ FindingsAreWhole'
<1> SUFFICES ASSUME FuzzRunIInv, [FuzzRunNext]_fuzzRunVars PROVE FindingsInTurn' /\ FindingsLeft' /\ FindingsAreWhole'
  OBVIOUS
<1> USE DEF setupVars, dirVars, mergeVars, statVars, fuzzRunVars
<1>0. FuzzRunTypeOK /\ JobsRest /\ FindingsInTurn /\ FindingsLeft /\ FindingsAreWhole
  BY DEF FuzzRunIInv
<1>1. CASE Stop
  BY <1>1 DEF Stop, FindingsInTurn, FindingsLeft, FindingsAreWhole
<1>2. CASE Start
  <2>1. \A j \in Jobs : job'[j] = Waiting
    BY <1>0, <1>2 DEF Start, JobsRest
  <2> QED BY <1>2, <2>1 DEF Start, FindingsInTurn, FindingsLeft, FindingsAreWhole, FindingNames, Waiting
<1>3. CASE Rechecked
  <2>1. stage = "recheck" /\ stage' = "minimise" /\ queue = {} /\ \A j \in Jobs : job[j].at = "idle"
    BY <1>3 DEF Rechecked, Waiting
  <2>2. findings' = findings /\ inconclusive' = inconclusive
    BY <1>3 DEF Rechecked
  <2>3. \A x \in FindingNames : findings[x] = "whole" \/ (findings[x] = "input" /\ x \in inconclusive)
    BY <1>0, <2>1 DEF FindingsLeft
  <2> QED BY <2>1, <2>2, <2>3 DEF FindingsInTurn, FindingsLeft, FindingsAreWhole, FindingNames
<1>4. ASSUME stage # "recheck", stage' # "recheck",
             UNCHANGED <<job, findings, inconclusive>>,
             stage' = "off" \/ stage \in {"minimise", "merge", "swap", "swapped", "fuzz"}
      PROVE  FindingsInTurn' /\ FindingsLeft' /\ FindingsAreWhole'
  BY <1>0, <1>4 DEF FindingsInTurn, FindingsLeft, FindingsAreWhole, FindingNames
<1>5. CASE Minimise \/ Merged \/ Swap \/ SwapEnds \/ Fuzz \/ \E j \in Jobs : MergeEnds(j)
  BY <1>4, <1>5 DEF Minimise, Merged, Swap, SwapEnds, Fuzz, MergeEnds
<1>6. CASE Upgrade
  BY <1>6 DEF Upgrade, FindingsInTurn, FindingsLeft, FindingsAreWhole
<1>7. CASE UNCHANGED <<fuzzed, job, stage, findings, inconclusive, queue>>
  BY <1>0, <1>7 DEF FindingsInTurn, FindingsLeft, FindingsAreWhole, FindingNames, Waiting
<1>8. ASSUME NEW j \in Jobs, Take(j) \/ RecheckOne(j) \/ RemoveFinding(j) \/ Refresh(j)
      PROVE  FindingsInTurn' /\ FindingsLeft' /\ FindingsAreWhole'
  <2>1. stage = "recheck" /\ stage' = "recheck"
    BY <1>8 DEF Take, RecheckOne, RemoveFinding, Refresh
  <2> QED BY <1>8, <2>1, RecheckMoves DEF FindingsAreWhole
<1>9. ASSUME NEW j \in Jobs, CheckOne(j) \/ Record(j) \/ Count(j)
      PROVE  FindingsInTurn' /\ FindingsLeft' /\ FindingsAreWhole'
  <2> DEFINE i == job[j].input
  <2>1. stage \in {"merge", "fuzz"} /\ stage' = stage /\ inconclusive' = inconclusive
    BY <1>9 DEF CheckOne, Record, Count
  <2>2. /\ \A k \in Jobs : k # j => job'[k] = job[k]
        /\ \A n \in Inputs : n # i => findings'[n] = findings[n]
    BY <1>9, OneMoves
  <2>3. /\ job \in [Jobs -> [input : Inputs \cup {NoInput}, at : {"idle", "check", "mkdir", "input", "report", "remove", "count"}]]
        /\ findings \in [Inputs -> {"none", "dir", "input", "whole"}]
    BY <1>0 DEF FuzzRunTypeOK
  <2>4. i \in Inputs \/ job[j] = Waiting
    BY <1>0 DEF JobsRest
  <2>5. \/ findings' = findings /\ job[j].at \notin {"input", "report"}
        \/ i \in Inputs /\ findings'[i] = "whole"
        \/ i \in Inputs /\ job'[j].input = i /\ job'[j].at \in {"input", "report"}
    <3>1. CASE CheckOne(j)
      BY <3>1 DEF CheckOne, Waiting
    <3>2. CASE Count(j)
      BY <3>2 DEF Count
    <3>3. CASE Record(j)
      <4>1. i \in Inputs
        BY <2>4, <3>3 DEF Record, Waiting
      <4>2. CASE job[j].at = "mkdir" /\ findings[i] # "none"
        BY <3>3, <4>2 DEF Record
      <4>3. CASE job[j].at = "mkdir" /\ findings[i] = "none"
        <5>1. Moves(j, "input")
          BY <3>3, <4>3 DEF Record
        <5> QED BY <2>3, <4>1, <5>1 DEF Moves
      <4>4. CASE job[j].at = "input"
        <5>1. Moves(j, "report")
          BY <3>3, <4>4 DEF Record
        <5> QED BY <2>3, <4>1, <5>1 DEF Moves
      <4>5. CASE job[j].at = "report"
        <5>1. FindingBecomes(i, "whole")
          BY <3>3, <4>5 DEF Record
        <5> QED BY <2>3, <4>1, <5>1 DEF FindingBecomes
      <4> QED BY <3>3, <4>2, <4>3, <4>4, <4>5 DEF Record
    <3> QED BY <1>9, <3>1, <3>2, <3>3
  <2>6. FindingsAreWhole'
    <3> SUFFICES ASSUME NEW x \in Inputs, findings'[x] # "none"
                 PROVE  \/ findings'[x] = "whole"
                        \/ \E k \in Jobs : job'[k].input = x /\ job'[k].at \in {"input", "report"}
                        \/ findings'[x] = "input" /\ x \in inconclusive
      BY <2>1 DEF FindingsAreWhole, FindingNames
    <3>1. CASE x = i /\ i \in Inputs /\ (findings'[i] = "whole" \/ (job'[j].input = i /\ job'[j].at \in {"input", "report"}))
      BY <3>1
    <3>2. CASE findings'[x] = findings[x] /\ ~(x = i /\ job[j].at \in {"input", "report"})
      <4>1. x \in FindingNames
        BY <3>2 DEF FindingNames
      <4>2. \A k \in Jobs : job[k].input = x /\ job[k].at \in {"input", "report"} => job'[k] = job[k]
        BY <2>2, <3>2
      <4>3. \/ findings[x] = "whole"
            \/ \E k \in Jobs : job[k].input = x /\ job[k].at \in {"input", "report"}
            \/ findings[x] = "input" /\ x \in inconclusive
        BY <1>0, <2>1, <4>1 DEF FindingsAreWhole
      <4> QED BY <3>2, <4>2, <4>3
    <3> QED BY <2>2, <2>5, <3>1, <3>2
  <2> QED BY <2>1, <2>6 DEF FindingsInTurn, FindingsLeft
<1> QED BY <1>1, <1>2, <1>3, <1>5, <1>6, <1>7, <1>8, <1>9 DEF FuzzRunNext, AddLines
LEMMA FuzzRunStep == FuzzRunIInv /\ [FuzzRunNext]_fuzzRunVars => FuzzRunIInv'
BY FuzzRunTyped, JobsRestStays, MergesHoldStays, FindingsStay DEF FuzzRunIInv

LEMMA FuzzRunStarts == FuzzRunInit => FuzzRunIInv
<1> SUFFICES ASSUME FuzzRunInit PROVE FuzzRunIInv
  OBVIOUS
<1>1. FuzzRunTypeOK
  BY FuzzRunAssumption DEF FuzzRunInit, FuzzRunTypeOK, Waiting
<1>2. JobsRest
  BY DEF FuzzRunInit, JobsRest
<1> QED
  BY <1>1, <1>2 DEF FuzzRunInit, FuzzRunIInv, FindingsInTurn, FindingsLeft, FindingsAreWhole, MergesHold, StillReached

\* A removal is of a finding that does not diverge, or had lost its input.
LEMMA StepKeepsFindings == FuzzRunIInv /\ [FuzzRunNext]_fuzzRunVars => DivergingFindingsStay
<1> SUFFICES ASSUME FuzzRunIInv, [FuzzRunNext]_fuzzRunVars,
                    NEW i \in fuzzed.diverges, findings[i] \in {"input", "whole"}
             PROVE  findings'[i] \in {"input", "whole"}
  BY DEF DivergingFindingsStay
<1> USE DEF setupVars, dirVars, mergeVars, statVars, fuzzRunVars
<1>1. /\ FuzzRunTypeOK /\ JobsRest /\ FindingsInTurn /\ i \in Inputs
      /\ findings \in [Inputs -> {"none", "dir", "input", "whole"}]
  BY FuzzRunAssumption DEF FuzzRunIInv, FuzzRunTypeOK
<1>2. CASE findings' = findings
  BY <1>2
<1>3. ASSUME NEW j \in Jobs, RemoveFinding(j) PROVE findings'[i] \in {"input", "whole"}
  <2>1. stage = "recheck" /\ job[j].at = "remove" /\ job[j] # Waiting
    BY <1>3 DEF RemoveFinding, Waiting
  <2>2. job[j].input \notin fuzzed.diverges \/ findings[job[j].input] = "dir"
    BY <1>1, <2>1 DEF FindingsInTurn
  <2>3. i # job[j].input
    BY <2>2
  <2> QED BY <1>1, <1>3, <2>3 DEF RemoveFinding
<1>4. ASSUME NEW j \in Jobs, Refresh(j) PROVE findings'[i] \in {"input", "whole"}
  BY <1>1, <1>4 DEF Refresh
<1>5. ASSUME NEW j \in Jobs, Record(j) PROVE findings'[i] \in {"input", "whole"}
  <2>1. CASE job[j].at = "mkdir" /\ findings[job[j].input] # "none"
    BY <1>5, <2>1 DEF Record
  <2>2. CASE job[j].at = "mkdir" /\ findings[job[j].input] = "none"
    <3>1. findings' = [findings EXCEPT ![job[j].input] = "dir"] /\ job[j].input # i
      BY <1>5, <2>2 DEF Record, FindingBecomes
    <3> QED BY <1>1, <3>1
  <2>3. CASE job[j].at = "input"
    <3>1. findings' = [findings EXCEPT ![job[j].input] = "input"]
      BY <1>5, <2>3 DEF Record, FindingBecomes
    <3> QED BY <1>1, <3>1
  <2>4. CASE job[j].at = "report"
    <3>1. findings' = [findings EXCEPT ![job[j].input] = "whole"]
      BY <1>5, <2>4 DEF Record, FindingBecomes
    <3> QED BY <1>1, <3>1
  <2> QED BY <1>5, <2>1, <2>2, <2>3, <2>4 DEF Record
<1>6. ASSUME NEW j \in Jobs, Take(j) \/ RecheckOne(j) \/ CheckOne(j) \/ Count(j) \/ MergeEnds(j) PROVE findings' = findings
  BY <1>6 DEF Take, RecheckOne, CheckOne, Count, MergeEnds
<1>7. Stop \/ Upgrade \/ Start \/ Rechecked \/ AddLines \/ Minimise \/ Merged \/ Swap \/ SwapEnds \/ Fuzz => findings' = findings
  BY DEF Stop, Upgrade, Start, Rechecked, AddLines, Minimise, Merged, Swap, SwapEnds, Fuzz
<1> QED BY <1>2, <1>3, <1>4, <1>5, <1>6, <1>7 DEF FuzzRunNext

\* The corpus is only exchanged for one that, with the inputs that crash, reaches what
\* it did.
LEMMA StepKeepsCorpus == FuzzRunIInv /\ [FuzzRunNext]_fuzzRunVars => CorpusSurvives
<1> SUFFICES ASSUME FuzzRunIInv, [FuzzRunNext]_fuzzRunVars
             PROVE  Coverage(corpus) \subseteq Coverage(corpus' \cup crashed')
  BY DEF CorpusSurvives
<1> USE DEF setupVars, dirVars, mergeVars, statVars, fuzzRunVars
<1>1. ASSUME corpus \subseteq corpus' PROVE Coverage(corpus) \subseteq Coverage(corpus' \cup crashed')
  <2>1. corpus \subseteq corpus' \cup crashed'
    BY <1>1
  <2> QED BY <2>1, CoverageGrows
<1>2. CASE SwapEnds
  <2>1. CASE corpus' = corpus
    BY <1>1, <2>1
  <2>2. CASE corpus' = kept /\ crashed' = crashed
    BY <1>2, <2>2 DEF SwapEnds, FuzzRunIInv, StillReached
  <2> QED BY <1>2, <2>1, <2>2 DEF SwapEnds, First
<1>3. ASSUME NEW j \in Jobs, Count(j) PROVE corpus \subseteq corpus'
  BY <1>3 DEF Count
<1>4. ASSUME NEW j \in Jobs,
             Take(j) \/ RecheckOne(j) \/ RemoveFinding(j) \/ Refresh(j) \/ CheckOne(j) \/ Record(j) \/ MergeEnds(j)
      PROVE  corpus' = corpus
  BY <1>4 DEF Take, RecheckOne, RemoveFinding, Refresh, CheckOne, Record, MergeEnds
<1>5. Stop \/ Upgrade \/ Start \/ Rechecked \/ AddLines \/ Minimise \/ Merged \/ Swap \/ Fuzz => corpus' = corpus
  BY DEF Stop, Upgrade, Start, Rechecked, AddLines, Minimise, Merged, Swap, Fuzz, First
<1> QED BY <1>1, <1>2, <1>3, <1>4, <1>5 DEF FuzzRunNext

\* However many runs there are and wherever each is killed, a finding on which the
\* evaluator diverges stays, one that a run has rechecked is whole or being written, and
\* what the corpus reached can be reached from what is on disk (recheck, minimise).
THEOREM RunsLoseNothing ==
  FuzzRunSpec =>
    /\ [](FuzzRunTypeOK /\ FindingsAreWhole)
    /\ [][DivergingFindingsStay /\ CorpusSurvives]_fuzzRunVars
<1>1. FuzzRunIInv => FuzzRunTypeOK /\ FindingsAreWhole
  BY DEF FuzzRunIInv
<1>2. FuzzRunIInv /\ [FuzzRunNext]_fuzzRunVars => [DivergingFindingsStay /\ CorpusSurvives]_fuzzRunVars
  BY StepKeepsFindings, StepKeepsCorpus
<1> QED BY <1>1, <1>2, FuzzRunStarts, FuzzRunStep, PTL DEF FuzzRunSpec

-----------------------------------------------------------------------------
(* FuzzBundle: its text, line by line.                                     *)

Lines == UNION {Range(s) : s \in Sources}
LinePaths == {l.path : l \in Lines}
LineTexts == {l.text : l \in Lines}
FileStates == {"committed", "staged", "unstaged"}
BundleFiles ==
  [path : LinePaths, contents : Seq(LineTexts), state : FileStates, link : BOOLEAN, x : BOOLEAN]
BundleTrees == [name : TreeNames, kind : {"path", "git", "store"}, files : Seq(BundleFiles)]
Bundles == [ok : BOOLEAN, lock : BOOLEAN, trees : Seq(BundleTrees), open : BundleFiles \cup {NoFile}]

\* A file that is open is one of a tree.
HasPlace(b) == b.open # NoFile => b.trees # <<>>

LEMMA FileIsOpen == \A f \in BundleFiles : f # NoFile
BY DEF BundleFiles, NoFile

LEMMA CloseType ==
  ASSUME NEW b \in Bundles, HasPlace(b)
  PROVE  /\ Close(b) \in Bundles /\ Close(b).open = NoFile
         /\ Len(Close(b).trees) = Len(b.trees) /\ Close(b).ok = b.ok
<1>1. CASE b.open = NoFile
  BY <1>1 DEF Close, Bundles
<1>2. CASE b.open # NoFile
  <2>1. b.open \in BundleFiles /\ Len(b.trees) \in DOMAIN b.trees /\ b.trees \in Seq(BundleTrees)
    BY <1>2 DEF Bundles, HasPlace
  <2> DEFINE n == Len(b.trees)
             t == [b.trees[n] EXCEPT !.files = Append(@, b.open)]
             ts == [b.trees EXCEPT ![n] = t]
  <2>2. t \in BundleTrees
    <3>1. b.trees[n] \in BundleTrees
      BY <2>1
    <3>2. Append(b.trees[n].files, b.open) \in Seq(BundleFiles)
      BY <3>1, <2>1 DEF BundleTrees
    <3> QED
      BY <3>1, <3>2 DEF BundleTrees
  <2>3. ts \in Seq(BundleTrees) /\ Len(ts) = Len(b.trees)
    BY <2>1, <2>2
  <2>4. Close(b) = [b EXCEPT !.open = NoFile, !.trees = ts]
    BY <1>2, <2>1 DEF Close, Bundles
  <2> QED
    BY <2>3, <2>4 DEF Bundles
<1> QED
  BY <1>1, <1>2

LEMMA ParseLineType ==
  ASSUME NEW b \in Bundles, HasPlace(b), b.ok, NEW line \in Lines
  PROVE  ParseLine(b, line) \in Bundles /\ HasPlace(ParseLine(b, line))
<1>0. NothingYet \in Bundles /\ Malformed \in Bundles /\ HasPlace(Malformed)
  <2>1. <<>> \in Seq(BundleTrees)
    OBVIOUS
  <2>2. NothingYet \in Bundles
    BY <2>1 DEF Bundles, NothingYet
  <2> QED
    BY <2>1, <2>2 DEF Bundles, NothingYet, Malformed, HasPlace
<1>1. CASE line.is = "text"
  <2>1. CASE b.open = NoFile
    BY <1>1, <2>1 DEF ParseLine
  <2>2. CASE b.open # NoFile
    <3>1. b.open \in BundleFiles
      BY <2>2 DEF Bundles
    <3> DEFINE f == [b.open EXCEPT !.contents = Append(@, line.text)]
    <3>2. f \in BundleFiles
      <4>1. line.text \in LineTexts
        BY DEF LineTexts
      <4>2. Append(b.open.contents, line.text) \in Seq(LineTexts)
        BY <3>1, <4>1 DEF BundleFiles
      <4> QED
        BY <3>1, <4>2 DEF BundleFiles
    <3>3. ParseLine(b, line) = [b EXCEPT !.open = f]
      BY <1>1, <2>2 DEF ParseLine
    <3> QED
      BY <3>2, <3>3, <2>2 DEF Bundles, HasPlace
  <2> QED
    BY <2>1, <2>2
<1>2. CASE line.is # "text"
  <2> DEFINE c == Close(b)
  <2>0. c \in Bundles /\ c.open = NoFile /\ HasPlace(c)
    BY CloseType DEF HasPlace
  <2> HIDE DEF c
  <2>1. CASE line.is = "lock"
    <3>1. ParseLine(b, line) = [c EXCEPT !.lock = TRUE]
      BY <2>1 DEF ParseLine, c
    <3> QED
      BY <3>1, <2>0 DEF Bundles, HasPlace
  <2>2. CASE line.is = "tree"
    <3> DEFINE t == [name |-> line.name, kind |-> line.kind, files |-> <<>>]
    <3>1. CASE ParseLine(b, line) = Malformed
      BY <1>0, <3>1
    <3>2. CASE ParseLine(b, line) # Malformed
      <4>1. /\ line.name \in TreeNames /\ line.kind \in {"path", "git", "store"}
            /\ ParseLine(b, line) = [c EXCEPT !.trees = Append(@, t)]
        BY <2>2, <3>2 DEF ParseLine, c
      <4>2. t \in BundleTrees
        BY <4>1 DEF BundleTrees
      <4>3. c.trees \in Seq(BundleTrees)
        BY <2>0 DEF Bundles
      <4>4. Append(c.trees, t) \in Seq(BundleTrees) /\ Append(c.trees, t) # <<>>
        BY <4>2, <4>3
      <4> QED
        BY <4>1, <4>4, <2>0 DEF Bundles, HasPlace
    <3> QED
      BY <3>1, <3>2
  <2>3. CASE line.is = "file"
    <3> DEFINE f == [path |-> line.path, contents |-> <<>>, state |-> StateOf(line.flags),
                     link |-> "link" \in line.flags, x |-> "x" \in line.flags]
    <3>1. CASE ParseLine(b, line) = Malformed
      BY <1>0, <3>1
    <3>2. CASE ParseLine(b, line) # Malformed
      <4>1. c.trees # <<>> /\ ParseLine(b, line) = [c EXCEPT !.open = f]
        BY <2>3, <3>2 DEF ParseLine, c
      <4>2. f \in BundleFiles
        <5>1. line.path \in LinePaths
          BY DEF LinePaths
        <5> QED
          BY <5>1 DEF BundleFiles, StateOf, FileStates
      <4> QED
        BY <4>1, <4>2, <2>0 DEF Bundles, HasPlace
    <3> QED
      BY <3>1, <3>2
  <2>4. CASE line.is \notin {"lock", "tree", "file"}
    <3>1. ParseLine(b, line) = Malformed
      BY <1>2, <2>4 DEF ParseLine
    <3> QED
      BY <3>1, <1>0
  <2> QED
    BY <2>1, <2>2, <2>3, <2>4
<1> QED
  BY <1>1, <1>2

LEMMA ParseLineOk ==
  ASSUME NEW b \in Bundles, HasPlace(b), b.ok, NEW line \in Lines
  PROVE  ParseLine(b, line).ok \/ ParseLine(b, line) = Malformed
<1>1. Close(b) \in Bundles /\ Close(b).ok
  BY CloseType
<1>2. CASE line.is = "text"
  BY <1>2 DEF ParseLine, Bundles
<1>3. CASE line.is = "lock"
  BY <1>1, <1>3 DEF ParseLine, Bundles
<1>4. CASE line.is = "tree"
  BY <1>1, <1>4 DEF ParseLine, Bundles
<1>5. CASE line.is = "file"
  BY <1>1, <1>5 DEF ParseLine, Bundles
<1>6. CASE line.is \notin {"text", "lock", "tree", "file"}
  BY <1>6 DEF ParseLine
<1> QED
  BY <1>2, <1>3, <1>4, <1>5, <1>6

-----------------------------------------------------------------------------
(* Types.                                                                  *)

Stages == {"parse", "write", "stamp", "add", "lock", "locked", "ready", "malformed", "skipped"}
LockFile == <<"flake.lock">>
Begun == bundleStage \in {"write", "stamp", "add", "lock", "locked", "ready"}

\* A table with a row for each tree.
PerTree(f) == f = [k \in DOMAIN bundle.trees |-> f[k]]

BundleTypes ==
  /\ src \in Sources /\ src \in Seq(Lines) /\ parsed \in 0..Len(src)
  /\ bundle \in Bundles /\ HasPlace(bundle) /\ (bundle.ok \/ bundle = Malformed)
  /\ bundleStage \in Stages
  /\ cursor \in [tree : 0..Len(bundle.trees), state : FileStates \cup {"written"}, file : Nat]
  /\ store \subseteq TreeNames
  /\ bundleStage = "parse" => cursor = FirstOf(0) /\ workOf = <<>> /\ store = {} /\ stamp = <<>>
  /\ bundleStage # "parse" => bundle.open = NoFile
  /\ Begun => /\ bundle.ok /\ cursor.tree \in DOMAIN bundle.trees
              /\ PerTree(workOf) /\ PerTree(headOf) /\ PerTree(indexOf) /\ PerTree(stamp)
              /\ cursor.state = "written" <=> bundleStage # "write"
  /\ bundleStage \in {"lock", "locked", "ready"} => cursor.tree = Len(bundle.trees)

\* The times that are not set are those of files that are written.
Stamped == \A k \in DOMAIN workOf : stamp[k] \subseteq DOMAIN workOf[k] \cup {LockFile}

LEMMA BundleStarts == BundleInit => BundleTypes /\ Stamped
<1> SUFFICES ASSUME BundleInit PROVE BundleTypes /\ Stamped
  OBVIOUS
<1>1. src \in Seq(Lines)
  <2>1. src \in Seq(Range(src)) /\ Range(src) \subseteq Lines
    BY SourcesAssumption DEF BundleInit, Lines
  <2> QED
    BY <2>1
<1>2. NothingYet \in Bundles /\ HasPlace(NothingYet) /\ NothingYet.ok
  <2>1. <<>> \in Seq(BundleTrees)
    OBVIOUS
  <2> QED
    BY <2>1 DEF NothingYet, Bundles, HasPlace
<1>3. FirstOf(0) \in [tree : 0..Len(bundle.trees), state : FileStates \cup {"written"}, file : Nat]
  BY DEF FirstOf, FileStates, BundleInit, NothingYet
<1> QED
  BY <1>1, <1>2, <1>3 DEF BundleInit, BundleTypes, Stages, Begun, Stamped

LEMMA ReadLineTypes == BundleTypes /\ Stamped /\ ReadLine => BundleTypes' /\ Stamped'
<1> SUFFICES ASSUME BundleTypes, Stamped, ReadLine PROVE BundleTypes' /\ Stamped'
  OBVIOUS
<1>1. src[parsed + 1] \in Lines
  BY DEF BundleTypes, ReadLine
<1>2. bundle' \in Bundles /\ HasPlace(bundle') /\ (bundle'.ok \/ bundle' = Malformed')
  BY <1>1, ParseLineType, ParseLineOk DEF ReadLine, BundleTypes
<1>3. cursor' \in [tree : 0..Len(bundle'.trees), state : FileStates \cup {"written"}, file : Nat]
  <2>1. Len(bundle'.trees) \in Nat
    BY <1>2 DEF Bundles
  <2> QED
    BY <2>1 DEF FirstOf, ReadLine, BundleTypes, FileStates
<1>4. parsed' \in 0..Len(src')
  BY DEF ReadLine, BundleTypes
<1> QED
  BY <1>2, <1>3, <1>4 DEF ReadLine, BundleTypes, Begun, Stamped, HasPlace

LEMMA BeginTypes == BundleTypes /\ Stamped /\ BeginBundle => BundleTypes' /\ Stamped'
<1> SUFFICES ASSUME BundleTypes, Stamped, BeginBundle PROVE BundleTypes' /\ Stamped'
  OBVIOUS
<1>1. CASE bundle.trees = <<>>
  <2>1. bundle' \in Bundles /\ HasPlace(bundle') /\ bundle'.open = NoFile /\ bundle'.trees = <<>>
    <3>1. <<>> \in Seq(BundleTrees)
      OBVIOUS
    <3> QED
      BY <1>1, <3>1 DEF BeginBundle, Malformed, NothingYet, Bundles, HasPlace
  <2>2. cursor' \in [tree : 0..Len(bundle'.trees), state : FileStates \cup {"written"}, file : Nat]
    BY <1>1, <2>1 DEF BeginBundle, BundleTypes, FirstOf, FileStates
  <2> QED
    BY <1>1, <2>1, <2>2 DEF BeginBundle, BundleTypes, Begun, Stamped, Stages
<1>2. CASE bundle.trees # <<>>
  <2>1. /\ bundle' \in Bundles /\ bundle'.open = NoFile /\ bundle'.ok = bundle.ok
        /\ Len(bundle'.trees) = Len(bundle.trees)
    BY <1>2, CloseType DEF BeginBundle, BundleTypes
  <2>2. bundle.trees \in Seq(BundleTrees) /\ bundle'.trees \in Seq(BundleTrees) /\ 1 \in DOMAIN bundle'.trees
        /\ DOMAIN bundle'.trees = DOMAIN bundle.trees
    BY <1>2, <2>1 DEF BundleTypes, Bundles
  <2>3. cursor' \in [tree : 0..Len(bundle'.trees), state : FileStates \cup {"written"}, file : Nat]
        /\ cursor'.tree = 1 /\ cursor'.state = "committed"
    BY <1>2, <2>2 DEF BeginBundle, FirstOf, FileStates
  <2>4. /\ PerTree(workOf)' /\ PerTree(headOf)' /\ PerTree(indexOf)' /\ PerTree(stamp)'
        /\ Stamped'
    BY <1>2, <2>2 DEF BeginBundle, PerTree, Stamped
  <2>5. bundle.ok
    BY <1>2 DEF BundleTypes, Malformed, NothingYet
  <2> QED
    BY <1>2, <2>1, <2>2, <2>3, <2>4, <2>5 DEF BeginBundle, BundleTypes, Begun, Stages, HasPlace
<1> QED
  BY <1>1, <1>2

\* What the steps after the beginning have in common.
LEMMA AfterBeginning ==
  ASSUME BundleTypes, Begun
  PROVE  /\ bundle.ok /\ bundle.trees \in Seq(BundleTrees) /\ cursor.tree \in DOMAIN bundle.trees
         /\ Tree(cursor.tree) \in BundleTrees /\ Len(bundle.trees) \in Nat /\ cursor.tree \in 1..Len(bundle.trees)
         /\ DOMAIN workOf = DOMAIN bundle.trees /\ DOMAIN stamp = DOMAIN bundle.trees
         /\ DOMAIN indexOf = DOMAIN bundle.trees /\ DOMAIN headOf = DOMAIN bundle.trees
         /\ bundleStage # "parse" /\ 1 \in DOMAIN bundle.trees
<1>1. bundle.trees \in Seq(BundleTrees) /\ cursor.tree \in DOMAIN bundle.trees
  BY DEF BundleTypes, Bundles
<1>2. DOMAIN workOf = DOMAIN bundle.trees /\ DOMAIN stamp = DOMAIN bundle.trees
      /\ DOMAIN indexOf = DOMAIN bundle.trees /\ DOMAIN headOf = DOMAIN bundle.trees
  BY Zenon DEF BundleTypes, PerTree
<1> QED
  BY <1>1, <1>2 DEF BundleTypes, Begun, Tree

LEMMA PutFileDomain ==
  ASSUME NEW files, NEW file
  PROVE  /\ DOMAIN PutFile(files, file) = DOMAIN files \cup {file.path}
         /\ PutFile(files, file)[file.path] = Written(file)
         /\ \A p \in DOMAIN files : p # file.path => PutFile(files, file)[p] = files[p]
BY DEF PutFile

LEMMA WriteFileTypes == BundleTypes /\ Stamped /\ WriteFile => BundleTypes' /\ Stamped'
<1> SUFFICES ASSUME BundleTypes, Stamped, WriteFile PROVE BundleTypes' /\ Stamped'
  OBVIOUS
<1> DEFINE k == cursor.tree
<1>0. Begun
  BY DEF Begun, WriteFile
<1>1. PICK i \in DOMAIN Tree(k).files :
        LET file == Tree(k).files[i] IN
        IF ~CanWrite(file.path, workOf[k]) THEN bundleStage' = "malformed" /\ UNCHANGED <<cursor, workOf, indexOf, stamp>>
        ELSE /\ workOf' = [workOf EXCEPT ![k] = PutFile(@, file)]
             /\ stamp' = [stamp EXCEPT ![k] = @ \cup {file.path}]
             /\ indexOf' = IF Tree(k).kind # "git" \/ file.state = "unstaged" THEN indexOf
                         ELSE [indexOf EXCEPT ![k] = PutFile(@, file)]
             /\ cursor' = [cursor EXCEPT !.file = i]
             /\ UNCHANGED bundleStage
  BY DEF WriteFile
<1>2. Tree(k).files \in Seq(BundleFiles) /\ i \in Nat
  BY <1>0, <1>1, AfterBeginning DEF BundleTrees
<1>3. UNCHANGED <<src, parsed, bundle, headOf, store>>
  BY DEF WriteFile
<1>4. CASE bundleStage' = "malformed"
  BY <1>0, <1>1, <1>3, <1>4 DEF BundleTypes, Stamped, Begun, Stages, WriteFile, HasPlace
<1>5. CASE bundleStage' # "malformed"
  <2> DEFINE file == Tree(k).files[i]
  <2>1. /\ workOf' = [workOf EXCEPT ![k] = PutFile(@, file)] /\ stamp' = [stamp EXCEPT ![k] = @ \cup {file.path}]
        /\ indexOf' = indexOf \/ indexOf' = [indexOf EXCEPT ![k] = PutFile(@, file)]
        /\ cursor' = [cursor EXCEPT !.file = i] /\ UNCHANGED bundleStage
    BY <1>1, <1>5
  <2>2. cursor' \in [tree : 0..Len(bundle.trees), state : FileStates \cup {"written"}, file : Nat]
        /\ cursor'.tree = k /\ cursor'.state = cursor.state
    BY <1>2, <2>1 DEF BundleTypes
  <2>3. PerTree(workOf)' /\ PerTree(stamp)' /\ PerTree(indexOf)' /\ PerTree(headOf)'
    BY <1>0, <1>3, <2>1, AfterBeginning DEF BundleTypes, PerTree
  <2>4. Stamped'
    <3>1. SUFFICES ASSUME NEW m \in DOMAIN workOf' PROVE stamp'[m] \subseteq DOMAIN workOf'[m] \cup {LockFile}
      BY DEF Stamped
    <3>2. m \in DOMAIN workOf /\ m \in DOMAIN stamp
      BY <1>0, <2>1, <3>1, AfterBeginning
    <3>3. CASE m = k
      <4>1. workOf'[m] = PutFile(workOf[k], file) /\ stamp'[m] = stamp[k] \cup {file.path}
        BY <2>1, <3>2, <3>3
      <4>2. stamp[k] \subseteq DOMAIN workOf[k] \cup {LockFile}
        BY <3>2, <3>3 DEF Stamped
      <4>3. DOMAIN PutFile(workOf[k], file) = DOMAIN workOf[k] \cup {file.path}
        BY PutFileDomain, Zenon
      <4> QED
        BY <4>1, <4>2, <4>3
    <3>4. CASE m # k
      <4>1. workOf'[m] = workOf[m] /\ stamp'[m] = stamp[m]
        BY <2>1, <3>2, <3>4
      <4> QED
        BY <3>2, <4>1 DEF Stamped
    <3> QED
      BY <3>3, <3>4
  <2> QED
    BY <1>0, <1>3, <2>1, <2>2, <2>3, <2>4 DEF BundleTypes, Begun, WriteFile, HasPlace
<1> QED
  BY <1>4, <1>5

LEMMA EndOfStateTypes == BundleTypes /\ Stamped /\ EndOfState => BundleTypes' /\ Stamped'
<1> SUFFICES ASSUME BundleTypes, Stamped, EndOfState PROVE BundleTypes' /\ Stamped'
  OBVIOUS
<1>0. Begun
  BY DEF Begun, EndOfState
<1>1. cursor.state \in FileStates
  BY <1>0 DEF BundleTypes, EndOfState
<1>2. cursor' \in [tree : 0..Len(bundle.trees), state : FileStates \cup {"written"}, file : Nat]
      /\ cursor'.tree = cursor.tree /\ cursor'.state = After[cursor.state]
  <2>1. After[cursor.state] \in FileStates \cup {"written"}
    BY <1>1 DEF After, FileStates
  <2>2. cursor' = [cursor EXCEPT !.state = After[cursor.state], !.file = 0]
    BY DEF EndOfState
  <2>3. cursor \in [tree : 0..Len(bundle.trees), state : FileStates \cup {"written"}, file : Nat]
    BY DEF BundleTypes
  <2> HIDE DEF FileStates
  <2> QED
    BY <2>1, <2>2, <2>3
<1>3. PerTree(headOf)'
  BY <1>0, AfterBeginning DEF BundleTypes, PerTree, EndOfState
<1> QED
  BY <1>0, <1>2, <1>3 DEF BundleTypes, Begun, EndOfState, HasPlace, Stages, PerTree, Stamped

LEMMA ProceedsTypes ==
  ASSUME BundleTypes, Begun, Proceeds, UNCHANGED <<src, parsed, bundle, workOf, headOf, indexOf>>,
         cursor.state = "written", store' \subseteq TreeNames, PerTree(stamp)'
  PROVE  BundleTypes'
<1>1. CASE cursor.tree < Len(bundle.trees)
  <2>1. bundleStage' = "write" /\ cursor' = FirstOf(cursor.tree + 1)
    BY <1>1 DEF Proceeds
  <2>2. cursor.tree + 1 \in DOMAIN bundle.trees /\ cursor.tree + 1 \in 0..Len(bundle.trees)
    BY <1>1, AfterBeginning
  <2>3. cursor' \in [tree : 0..Len(bundle.trees), state : FileStates \cup {"written"}, file : Nat]
        /\ cursor'.tree = cursor.tree + 1 /\ cursor'.state = "committed"
    BY <2>1, <2>2 DEF FirstOf, FileStates
  <2> QED
    BY <2>1, <2>2, <2>3 DEF BundleTypes, Begun, HasPlace, Stages, PerTree
<1>2. CASE ~(cursor.tree < Len(bundle.trees))
  <2>1. bundleStage' = "lock" /\ cursor' = cursor /\ cursor.tree = Len(bundle.trees)
    BY <1>2, AfterBeginning DEF Proceeds
  <2> QED
    BY <2>1 DEF BundleTypes, Begun, HasPlace, Stages, PerTree
<1> QED
  BY <1>1, <1>2

LEMMA SetTimesTypes == BundleTypes /\ Stamped /\ SetTimes => BundleTypes' /\ Stamped'
<1> SUFFICES ASSUME BundleTypes, Stamped, SetTimes PROVE BundleTypes' /\ Stamped'
  OBVIOUS
<1>0. Begun /\ cursor.state = "written"
  BY DEF Begun, SetTimes, BundleTypes
<1>1. PerTree(stamp)' /\ Stamped'
  BY <1>0, AfterBeginning DEF SetTimes, BundleTypes, PerTree, Stamped
<1>2. CASE Tree(cursor.tree).kind = "store"
  BY <1>0, <1>1, <1>2 DEF BundleTypes, Begun, SetTimes, HasPlace, Stages, PerTree
<1>3. CASE Tree(cursor.tree).kind # "store"
  BY <1>0, <1>1, <1>3, ProceedsTypes DEF SetTimes, BundleTypes
<1> QED
  BY <1>1, <1>2, <1>3

LEMMA AddToStoreTypes == BundleTypes /\ Stamped /\ AddToStore => BundleTypes' /\ Stamped'
<1> SUFFICES ASSUME BundleTypes, Stamped, AddToStore PROVE BundleTypes' /\ Stamped'
  OBVIOUS
<1>0. Begun /\ cursor.state = "written"
  BY DEF Begun, AddToStore, BundleTypes
<1>1. PerTree(stamp)' /\ Stamped'
  BY <1>0 DEF AddToStore, BundleTypes, PerTree, Stamped
<1>2. CASE store' = store \cup {Tree(cursor.tree).name} /\ Proceeds
  <2>1. Tree(cursor.tree).name \in TreeNames
    BY <1>0, AfterBeginning DEF BundleTrees
  <2> QED
    BY <1>0, <1>1, <1>2, <2>1, ProceedsTypes DEF AddToStore, BundleTypes
<1>3. CASE bundleStage' \in {"malformed", "skipped"} /\ UNCHANGED <<cursor, store>>
  BY <1>0, <1>1, <1>3 DEF BundleTypes, Begun, AddToStore, HasPlace, Stages, PerTree
<1> QED
  BY <1>1, <1>2, <1>3 DEF AddToStore

Locked(files) ==
  [p \in DOMAIN files \cup {LockFile} |-> IF p = LockFile THEN [contents |-> <<"locked">>, mode |-> "-"] ELSE files[p]]

\* Locking, with what it does to the first tree.
LEMMA LockSteps ==
  ASSUME BundleTypes, Lock
  PROVE  /\ Begun /\ UNCHANGED <<src, parsed, bundle, cursor, headOf, store>>
         /\ \/ bundleStage' \in {"ready", "locked", "skipped"} /\ UNCHANGED <<workOf, indexOf, stamp>>
            \/ /\ bundleStage' = "locked"
               /\ workOf' = [workOf EXCEPT ![1] = Locked(@)]
               /\ indexOf' = indexOf \/ indexOf' = [indexOf EXCEPT ![1] = Locked(@)]
               /\ stamp' = [stamp EXCEPT ![1] = @ \cup {LockFile}]
BY DEF Lock, Begun, Locked, LockFile

LEMMA LockTypes == BundleTypes /\ Stamped /\ Lock => BundleTypes' /\ Stamped'
<1> SUFFICES ASSUME BundleTypes, Stamped, Lock PROVE BundleTypes' /\ Stamped'
  OBVIOUS
<1>0. Begun /\ cursor.state = "written" /\ bundleStage = "lock" /\ UNCHANGED <<src, parsed, bundle, cursor, headOf, store>>
  BY LockSteps DEF Begun, Lock, BundleTypes
<1>1. CASE bundleStage' \in {"ready", "locked", "skipped"} /\ UNCHANGED <<workOf, indexOf, stamp>>
  BY <1>0, <1>1 DEF BundleTypes, Begun, HasPlace, Stages, PerTree, Stamped
<1>2. CASE /\ bundleStage' = "locked" /\ workOf' = [workOf EXCEPT ![1] = Locked(@)]
           /\ indexOf' = indexOf \/ indexOf' = [indexOf EXCEPT ![1] = Locked(@)]
           /\ stamp' = [stamp EXCEPT ![1] = @ \cup {LockFile}]
  <2>1. PerTree(workOf)' /\ PerTree(stamp)' /\ PerTree(indexOf)' /\ PerTree(headOf)'
    BY <1>0, <1>2, AfterBeginning DEF BundleTypes, PerTree
  <2>2. Stamped'
    <3>1. DOMAIN Locked(workOf[1]) = DOMAIN workOf[1] \cup {LockFile}
      BY DEF Locked
    <3> QED
      BY <1>0, <1>2, <3>1, AfterBeginning DEF Stamped
  <2> QED
    BY <1>0, <1>2, <2>1, <2>2 DEF BundleTypes, Begun, HasPlace, Stages
<1> QED
  BY <1>0, <1>1, <1>2, LockSteps

LEMMA SetTimesAgainTypes == BundleTypes /\ Stamped /\ SetTimesAgain => BundleTypes' /\ Stamped'
<1> SUFFICES ASSUME BundleTypes, Stamped, SetTimesAgain PROVE BundleTypes' /\ Stamped'
  OBVIOUS
<1>0. Begun
  BY DEF Begun, SetTimesAgain
<1>1. PerTree(stamp)' /\ Stamped'
  BY <1>0, AfterBeginning DEF SetTimesAgain, BundleTypes, PerTree, Stamped, TimesAfterLock
<1> QED
  BY <1>0, <1>1 DEF BundleTypes, Begun, SetTimesAgain, HasPlace, Stages, PerTree

-----------------------------------------------------------------------------
(* Times: only of the tree that is being written, and of the first once it *)
(* is locked, are there files without the fixed one.                       *)

Timeless ==
  Begun => \A k \in DOMAIN stamp :
             stamp[k] # {} => \/ k = cursor.tree /\ bundleStage \in {"write", "stamp"}
                              \/ k = 1 /\ bundleStage = "locked"

LEMMA TimesKept == BundleTypes /\ Timeless /\ [BundleNext]_bundleVars => Timeless'
<1> SUFFICES ASSUME BundleTypes, Timeless, [BundleNext]_bundleVars, Begun' PROVE Timeless'
  BY DEF Timeless
<1>1. CASE ReadLine
  BY <1>1 DEF ReadLine, Begun
<1>2. CASE BeginBundle
  BY <1>2 DEF BeginBundle, Begun, Timeless
<1>3. ASSUME Begun PROVE DOMAIN stamp = DOMAIN bundle.trees /\ cursor.tree \in 1..Len(bundle.trees)
  BY <1>3, AfterBeginning
<1>4. CASE WriteFile
  <2>1. Begun /\ bundleStage' = "write"
    BY <1>4 DEF Begun, WriteFile
  <2>2. PICK i : /\ stamp' = [stamp EXCEPT ![cursor.tree] = @ \cup {Tree(cursor.tree).files[i].path}]
                 /\ cursor' = [cursor EXCEPT !.file = i]
    BY <1>4, <2>1 DEF WriteFile
  <2>3. cursor'.tree = cursor.tree
    BY <2>2 DEF BundleTypes
  <2> QED
    BY <1>4, <2>1, <2>2, <2>3 DEF Timeless, WriteFile
<1>5. CASE EndOfState
  BY <1>5 DEF Timeless, EndOfState, Begun, BundleTypes
<1>6. CASE SetTimes
  BY <1>3, <1>6 DEF Timeless, SetTimes, Begun, Proceeds, FirstOf
<1>7. CASE AddToStore
  BY <1>3, <1>7 DEF Timeless, AddToStore, Begun, Proceeds, FirstOf
<1>8. CASE Lock
  BY <1>3, <1>8, LockSteps DEF Timeless, Lock, Begun
<1>9. CASE SetTimesAgain
  BY <1>3, <1>9 DEF Timeless, SetTimesAgain, Begun, TimesAfterLock
<1>10. CASE UNCHANGED bundleVars
  BY <1>10 DEF Timeless, bundleVars, Begun
<1> QED
  BY <1>1, <1>2, <1>4, <1>5, <1>6, <1>7, <1>8, <1>9, <1>10 DEF BundleNext

-----------------------------------------------------------------------------
(* The trees.                                                              *)

\* The hashes that are known are those of the store trees before this one.
HashesKnown ==
  /\ bundleStage \in {"write", "stamp", "add"} =>
       store = {Tree(j).name : j \in {i \in 1..(cursor.tree - 1) : Tree(i).kind = "store"}}
  /\ bundleStage = "add" => Tree(cursor.tree).kind = "store"

Rank == [committed |-> 1, staged |-> 2, unstaged |-> 3, written |-> 4]

\* The files that were written: those of earlier trees and states, and of this
\* state up to the last.
Looked(k, i) ==
  \/ k < cursor.tree
  \/ /\ k = cursor.tree
     /\ \/ Rank[Tree(k).files[i].state] < Rank[cursor.state]
        \/ Tree(k).files[i].state = cursor.state /\ i <= cursor.file

LookedAt(k, states) == {i \in DOMAIN Tree(k).files : Tree(k).files[i].state \in states /\ Looked(k, i)}

\* i is written after j.
Beats(k, i, j) ==
  \/ Rank[Tree(k).files[j].state] < Rank[Tree(k).files[i].state]
  \/ Tree(k).files[j].state = Tree(k).files[i].state /\ j <= i

\* But for a lock file, there is what the last of the files in `is' holds.
Layered(k, files, is) ==
  /\ \A i \in is : Tree(k).files[i].path # LockFile => Tree(k).files[i].path \in DOMAIN files
  /\ \A p \in DOMAIN files \ {LockFile} :
       \E i \in is : /\ Tree(k).files[i].path = p
                     /\ files[p].contents = ContentsOf(k, Tree(k).files[i])
                     /\ \A j \in is : Tree(k).files[j].path = p => Beats(k, i, j)

Indexed == {"committed", "staged"}
CommittedIn(k) == IF k = cursor.tree /\ cursor.state = "committed" THEN {} ELSE {"committed"}

Layers ==
  Begun => \A k \in DOMAIN bundle.trees :
             /\ Layered(k, workOf[k], LookedAt(k, FileStates))
             /\ Tree(k).kind = "git" => /\ Layered(k, indexOf[k], LookedAt(k, Indexed))
                                        /\ Layered(k, headOf[k], LookedAt(k, CommittedIn(k)))

LEMMA PutLayered ==
  ASSUME NEW k, NEW files, NEW is, NEW i,
         Layered(k, files, is),
         \A j \in is : Beats(k, i, j),
         Beats(k, i, i),
         Written(Tree(k).files[i]).contents = ContentsOf(k, Tree(k).files[i])
  PROVE  Layered(k, PutFile(files, Tree(k).files[i]), is \cup {i})
<1> DEFINE f == Tree(k).files[i]
           new == PutFile(files, f)
<1>1. /\ DOMAIN new = DOMAIN files \cup {f.path} /\ new[f.path] = Written(f)
      /\ \A p \in DOMAIN files : p # f.path => new[p] = files[p]
  BY PutFileDomain, Zenon
<1> HIDE DEF new
<1>2. ASSUME NEW j \in is \cup {i}, Tree(k).files[j].path # LockFile
      PROVE  Tree(k).files[j].path \in DOMAIN new
  BY <1>1, <1>2 DEF Layered
<1>3. ASSUME NEW p \in DOMAIN new \ {LockFile}
      PROVE  \E j \in is \cup {i} : /\ Tree(k).files[j].path = p
                                    /\ new[p].contents = ContentsOf(k, Tree(k).files[j])
                                    /\ \A l \in is \cup {i} : Tree(k).files[l].path = p => Beats(k, j, l)
  <2>1. CASE p = f.path
    <3>1. new[p].contents = ContentsOf(k, Tree(k).files[i]) /\ Tree(k).files[i].path = p
      BY <1>1, <2>1
    <3>2. \A l \in is \cup {i} : Beats(k, i, l)
      OBVIOUS
    <3> QED
      BY <3>1, <3>2
  <2>2. CASE p # f.path
    <3>1. p \in DOMAIN files \ {LockFile} /\ new[p] = files[p]
      BY <1>1, <1>3, <2>2
    <3>2. PICK j \in is : /\ Tree(k).files[j].path = p
                          /\ files[p].contents = ContentsOf(k, Tree(k).files[j])
                          /\ \A l \in is : Tree(k).files[l].path = p => Beats(k, j, l)
      BY <3>1 DEF Layered
    <3>3. \A l \in is \cup {i} : Tree(k).files[l].path = p => Beats(k, j, l)
      BY <2>2, <3>2
    <3> QED
      BY <3>1, <3>2, <3>3
  <2> QED
    BY <2>1, <2>2
<1> QED
  BY <1>2, <1>3 DEF Layered, new

LEMMA LockedLayered ==
  ASSUME NEW k, NEW files, NEW is, Layered(k, files, is)
  PROVE  Layered(k, Locked(files), is)
<1>1. DOMAIN Locked(files) = DOMAIN files \cup {LockFile}
      /\ \A p \in DOMAIN files : p # LockFile => Locked(files)[p] = files[p]
  BY DEF Locked
<1>2. \A p \in DOMAIN Locked(files) \ {LockFile} : p \in DOMAIN files \ {LockFile} /\ Locked(files)[p] = files[p]
  BY <1>1
<1> QED
  BY <1>1, <1>2 DEF Layered

\* What is written of a file now is what it is to hold.
LEMMA WrittenIsRight ==
  ASSUME BundleTypes, HashesKnown, bundleStage = "write", NEW file
  PROVE  Written(file).contents = ContentsOf(cursor.tree, file)
<1> DEFINE k == cursor.tree
<1>1. \A t : t \in store <=> \E j \in {i \in 1..(k - 1) : Tree(i).kind = "store"} : Tree(j).name = t
  BY DEF HashesKnown
<1>2. ASSUME NEW t
      PROVE  Substituted(t) =
               LET Refers(ts) == \E j \in ts : Tree(j).name = t[2] IN
               IF t[1] = "dir" /\ Refers(DOMAIN bundle.trees) THEN <<"directory of", t[2]>>
               ELSE IF t[1] = "narHash" /\ Refers({j \in 1..(k - 1) : Tree(j).kind = "store"}) THEN <<"hash of", t[2]>>
               ELSE t
  <2>1. CASE t[1] = "dir" /\ \E j \in DOMAIN bundle.trees : Tree(j).name = t[2]
    BY <2>1 DEF Substituted
  <2>2. CASE ~(t[1] = "dir" /\ \E j \in DOMAIN bundle.trees : Tree(j).name = t[2]) /\ t[1] = "narHash" /\ t[2] \in store
    <3>1. \E j \in {i \in 1..(k - 1) : Tree(i).kind = "store"} : Tree(j).name = t[2]
      BY <1>1, <2>2
    <3>2. Substituted(t) = <<"hash of", t[2]>>
      BY <2>2 DEF Substituted
    <3> QED
      BY <2>2, <3>1, <3>2
  <2>3. CASE ~(t[1] = "dir" /\ \E j \in DOMAIN bundle.trees : Tree(j).name = t[2]) /\ ~(t[1] = "narHash" /\ t[2] \in store)
    <3>1. t[1] = "narHash" => ~\E j \in {i \in 1..(k - 1) : Tree(i).kind = "store"} : Tree(j).name = t[2]
      BY <1>1, <2>3
    <3>2. Substituted(t) = t
      BY <2>3 DEF Substituted
    <3> QED
      BY <2>3, <3>1, <3>2
  <2> QED
    BY <2>1, <2>2, <2>3
<1>3. Written(file).contents = [i \in DOMAIN file.contents |-> Substituted(file.contents[i])]
  BY DEF Written
<1> QED
  BY <1>2, <1>3 DEF ContentsOf

LEMMA LeastPlace ==
  ASSUME NEW T \in SUBSET Nat, T # {}
  PROVE  \E t \in T : \A u \in T : t <= u
<1>1. PICK t \in T : \A u \in T : <<u, t>> \notin OpToRel(<, Nat)
  BY WFMin, NatLessThanWellFounded, Zenon
<1>2. \A u \in T : ~ (u < t)
  BY <1>1 DEF OpToRel
<1>. QED BY <1>2

LEMMA GreatestPlace ==
  ASSUME NEW n \in Nat, NEW T \in SUBSET (0..n), T # {}
  PROVE  \E t \in T : \A u \in T : u <= t
<1> DEFINE ups == {n - t : t \in T}
<1>1. ups \in SUBSET Nat /\ ups # {}
  <2>1. \A t \in T : n - t \in Nat
    OBVIOUS
  <2> QED
    BY <2>1
<1>2. PICK u \in ups : \A v \in ups : u <= v
  BY <1>1, LeastPlace
<1>3. PICK t \in T : u = n - t
  BY <1>2
<1>4. ASSUME NEW w \in T PROVE w <= t
  <2>1. u <= n - w
    BY <1>2
  <2> QED
    BY <1>3, <2>1
<1> QED
  BY <1>4

LEMMA FileTypes ==
  ASSUME BundleTypes, NEW k \in DOMAIN bundle.trees
  PROVE  /\ Tree(k) \in BundleTrees /\ k \in Nat /\ DOMAIN Tree(k).files \subseteq Nat \ {0}
         /\ \A i \in DOMAIN Tree(k).files : /\ Tree(k).files[i] \in BundleFiles
                                            /\ Tree(k).files[i].state \in FileStates
                                            /\ Rank[Tree(k).files[i].state] \in 1..3
<1>1. Tree(k) \in BundleTrees /\ k \in Nat
  BY DEF BundleTypes, Bundles, Tree
<1>2. Tree(k).files \in Seq(BundleFiles)
  BY <1>1 DEF BundleTrees
<1>3. \A i \in DOMAIN Tree(k).files : Tree(k).files[i] \in BundleFiles
  BY <1>2
<1>4. \A s \in FileStates : Rank[s] \in 1..3
  BY DEF Rank, FileStates
<1> QED
  BY <1>1, <1>2, <1>3, <1>4 DEF BundleFiles

\* The set of files that were looked at grows by the file that is written.
LEMMA WriteLooks ==
  ASSUME BundleTypes, Begun, UNCHANGED bundle, NEW i \in DOMAIN Tree(cursor.tree).files,
         IsNext(cursor.tree, cursor.state, cursor.file, i),
         cursor' = [cursor EXCEPT !.file = i], NEW k \in DOMAIN bundle.trees, NEW S
  PROVE  LookedAt(k, S)' = IF k = cursor.tree /\ cursor.state \in S THEN LookedAt(k, S) \cup {i} ELSE LookedAt(k, S)
<1>1. cursor'.tree = cursor.tree /\ cursor'.state = cursor.state /\ cursor'.file = i /\ cursor.file \in Nat
  BY DEF BundleTypes
<1>2. \A m, j : Tree(m)' = Tree(m)
  BY DEF Tree
<1>3. CASE k # cursor.tree
  BY <1>1, <1>2, <1>3 DEF LookedAt, Looked
<1>4. CASE k = cursor.tree
  <2>1. ASSUME NEW j \in DOMAIN Tree(k).files
        PROVE  Looked(k, j)' <=> Looked(k, j) \/ j = i
    <3>1. j \in Nat /\ i \in Nat /\ i > cursor.file /\ Tree(k).files[i].state = cursor.state
          /\ (cursor.file < j /\ j < i => Tree(k).files[j].state # cursor.state)
      BY <1>4, FileTypes DEF IsNext
    <3> QED
      BY <1>1, <1>2, <1>4, <3>1 DEF Looked
  <2>2. Tree(k).files[i].state = cursor.state
    BY <1>4 DEF IsNext
  <2> QED
    BY <1>2, <1>4, <2>1, <2>2 DEF LookedAt
<1> QED
  BY <1>3, <1>4

\* At the end of a state nothing more counts as looked at.
LEMMA EndLooks ==
  ASSUME BundleTypes, EndOfState, NEW k \in DOMAIN bundle.trees, NEW S
  PROVE  LookedAt(k, S)' = LookedAt(k, S)
<1>1. cursor.state \in FileStates /\ cursor.file \in Nat
  BY DEF BundleTypes, EndOfState, Begun
<1>2. cursor'.tree = cursor.tree /\ cursor'.state = After[cursor.state] /\ cursor'.file = 0
  BY DEF BundleTypes, EndOfState
<1>3. Tree(k)' = Tree(k)
  BY DEF Tree, EndOfState
<1>4. CASE k # cursor.tree
  BY <1>2, <1>3, <1>4 DEF LookedAt, Looked
<1>5. CASE k = cursor.tree
  <2>1. \A j \in DOMAIN Tree(k).files : Tree(k).files[j].state = cursor.state => j <= cursor.file
    <3> DEFINE T == {j \in DOMAIN Tree(k).files : j > cursor.file /\ Tree(k).files[j].state = cursor.state}
    <3>1. ASSUME T # {} PROVE FALSE
      <4>1. T \in SUBSET Nat
        BY FileTypes
      <4>2. PICK j \in T : \A u \in T : j <= u
        BY <3>1, <4>1, LeastPlace
      <4>3. IsNext(k, cursor.state, cursor.file, j)
        BY <4>1, <4>2, FileTypes DEF IsNext
      <4> QED
        BY <1>5, <4>2, <4>3 DEF EndOfState
    <3> QED
      BY <1>1, <3>1, FileTypes
  <2>2. ASSUME NEW j \in DOMAIN Tree(k).files PROVE Looked(k, j)' <=> Looked(k, j)
    <3>1. Tree(k).files[j].state \in FileStates /\ j # 0 /\ j \in Nat /\ k \in Nat
      BY FileTypes
    <3>5. ~(k < cursor.tree) /\ ~(k < cursor'.tree) /\ ~(j <= 0)
      BY <1>2, <1>5, <3>1
    <3>2. \A s, t \in FileStates : Rank[s] < Rank[After[t]] <=> Rank[s] < Rank[t] \/ s = t
      BY DEF Rank, After, FileStates
    <3>3. Looked(k, j)' <=> Rank[Tree(k).files[j].state] < Rank[After[cursor.state]]
      BY <1>2, <1>3, <1>5, <3>5 DEF Looked
    <3>4. Looked(k, j) <=> Rank[Tree(k).files[j].state] < Rank[cursor.state] \/ Tree(k).files[j].state = cursor.state
      BY <1>5, <2>1, <3>5 DEF Looked
    <3> QED
      BY <1>1, <3>1, <3>2, <3>3, <3>4
  <2> QED
    BY <1>3, <2>2 DEF LookedAt
<1> QED
  BY <1>4, <1>5

LEMMA ProceedsLooks ==
  ASSUME BundleTypes, Begun, Proceeds, UNCHANGED bundle, cursor.state = "written",
         NEW k \in DOMAIN bundle.trees
  PROVE  /\ \A S : LookedAt(k, S)' = LookedAt(k, S)
         /\ LookedAt(k, CommittedIn(k))' = LookedAt(k, CommittedIn(k))
<1>1. CASE cursor' = cursor
  BY <1>1 DEF LookedAt, Looked, Tree, CommittedIn
<1>2. CASE cursor' # cursor
  <2>1. cursor'.tree = cursor.tree + 1 /\ cursor'.state = "committed" /\ cursor'.file = 0
    BY <1>2 DEF Proceeds, FirstOf
  <2>2. Tree(k)' = Tree(k)
    BY DEF Tree
  <2>3. ASSUME NEW j \in DOMAIN Tree(k).files
        PROVE  Looked(k, j)' = Looked(k, j) /\ (k = cursor.tree + 1 => ~Looked(k, j))
    <3>1. Rank[Tree(k).files[j].state] \in 1..3 /\ k \in Nat /\ cursor.tree \in Nat /\ j \in Nat \ {0}
      BY FileTypes, AfterBeginning
    <3>2. Rank["written"] = 4 /\ Rank["committed"] = 1
      BY DEF Rank
    <3> QED
      BY <2>1, <2>2, <3>1, <3>2 DEF Looked
  <2>4. \A S : LookedAt(k, S)' = LookedAt(k, S)
    BY <2>2, <2>3 DEF LookedAt
  <2>5. CASE k = cursor.tree + 1
    <3>1. \A S : LookedAt(k, S) = {}
      BY <2>3, <2>5 DEF LookedAt
    <3> QED
      BY <2>4, <3>1
  <2>6. CASE k # cursor.tree + 1
    <3>1. CommittedIn(k)' = {"committed"} /\ CommittedIn(k) = {"committed"}
      BY <2>1, <2>6 DEF CommittedIn
    <3> QED
      BY <2>4, <3>1
  <2> QED
    BY <2>4, <2>5, <2>6
<1> QED
  BY <1>1, <1>2

LEMMA HashesKept == BundleTypes /\ HashesKnown /\ [BundleNext]_bundleVars => HashesKnown'
<1> SUFFICES ASSUME BundleTypes, HashesKnown, [BundleNext]_bundleVars PROVE HashesKnown'
  OBVIOUS
<1> DEFINE Before(k) == {Tree(j).name : j \in {i \in 1..(k - 1) : Tree(i).kind = "store"}}
<1>1. CASE bundleStage = "parse"
  <2>1. CASE ReadLine
    BY <2>1 DEF ReadLine, HashesKnown
  <2>2. CASE BeginBundle
    BY <1>1, <2>2 DEF BeginBundle, HashesKnown, FirstOf, BundleTypes
  <2>3. CASE UNCHANGED bundleVars
    BY <1>1, <2>3 DEF bundleVars, HashesKnown
  <2> QED
    BY <1>1, <2>1, <2>2, <2>3 DEF BundleNext, WriteFile, EndOfState, SetTimes, AddToStore, Lock, SetTimesAgain
<1>2. CASE bundleStage # "parse"
  <2>0. UNCHANGED bundle
    BY <1>2 DEF BundleNext, bundleVars, ReadLine, BeginBundle, WriteFile, EndOfState, SetTimes, AddToStore, Lock, SetTimesAgain
  <2>1. \A j : Tree(j)' = Tree(j)
    BY <2>0 DEF Tree
  <2>2. CASE UNCHANGED <<store, cursor>> /\ (bundleStage' = bundleStage \/ bundleStage' \notin {"write", "stamp", "add"})
    BY <2>1, <2>2 DEF HashesKnown
  <2>3. CASE WriteFile
    <3>1. cursor'.tree = cursor.tree /\ store' = store
      BY <2>3 DEF WriteFile, BundleTypes
    <3> QED
      BY <2>1, <2>3, <3>1 DEF WriteFile, HashesKnown
  <2>4. CASE EndOfState
    <3>1. cursor'.tree = cursor.tree /\ store' = store
      BY <2>4 DEF EndOfState, BundleTypes
    <3> QED
      BY <2>1, <2>4, <3>1 DEF EndOfState, HashesKnown
  <2>5. ASSUME Proceeds, Begun, store' = IF Tree(cursor.tree).kind = "store" THEN store \cup {Tree(cursor.tree).name} ELSE store,
               bundleStage \in {"stamp", "add"}
        PROVE  HashesKnown'
    <3>1. CASE bundleStage' = "lock"
      BY <3>1 DEF HashesKnown
    <3>2. CASE bundleStage' # "lock"
      <4>1. bundleStage' = "write" /\ cursor'.tree = cursor.tree + 1 /\ cursor.tree \in Nat \ {0}
        BY <2>5, <3>2, AfterBeginning DEF Proceeds, FirstOf
      <4>2. 1..(cursor'.tree - 1) = 1..(cursor.tree - 1) \cup {cursor.tree}
        BY <4>1
      <4>3. store = Before(cursor.tree)
        BY <2>5 DEF HashesKnown
      <4>4. Before(cursor'.tree) = Before(cursor.tree)
                                     \cup IF Tree(cursor.tree).kind = "store" THEN {Tree(cursor.tree).name} ELSE {}
        BY <4>2
      <4>5. store' = Before(cursor'.tree)
        BY <2>5, <4>3, <4>4
      <4> QED
        BY <2>1, <4>1, <4>5 DEF HashesKnown
    <3> QED
      BY <3>1, <3>2
  <2>6. CASE SetTimes
    <3>1. CASE Tree(cursor.tree).kind = "store"
      BY <2>1, <2>6, <3>1 DEF SetTimes, HashesKnown
    <3>2. CASE Tree(cursor.tree).kind # "store"
      BY <2>5, <2>6, <3>2 DEF SetTimes, Begun
    <3> QED
      BY <3>1, <3>2
  <2>7. CASE AddToStore
    <3>1. CASE bundleStage' \in {"malformed", "skipped"}
      BY <3>1 DEF HashesKnown
    <3>2. CASE bundleStage' \notin {"malformed", "skipped"}
      BY <2>5, <2>7, <3>2 DEF AddToStore, Begun, HashesKnown
    <3> QED
      BY <3>1, <3>2
  <2>8. CASE Lock \/ SetTimesAgain
    BY <2>8 DEF Lock, SetTimesAgain, HashesKnown
  <2> QED
    BY <1>2, <2>2, <2>3, <2>4, <2>6, <2>7, <2>8 DEF BundleNext, bundleVars, ReadLine, BeginBundle
<1> QED
  BY <1>1, <1>2

\* What a file is to hold, and the order of the files, are the bundle's.
LEMMA BundleSays ==
  ASSUME UNCHANGED bundle, NEW k
  PROVE  /\ \A file : ContentsOf(k, file)' = ContentsOf(k, file)
         /\ \A i, j : Beats(k, i, j)' = Beats(k, i, j)
         /\ Tree(k)' = Tree(k)
<1>1. \A file : ContentsOf(k, file)' = ContentsOf(k, file)
  BY DEF ContentsOf, Tree
<1>2. \A i, j : Beats(k, i, j)' = Beats(k, i, j)
  BY DEF Beats, Tree
<1> QED
  BY <1>1, <1>2 DEF Tree

\* No step but the first and those that write changes the layers.
LEMMA SameLayers ==
  ASSUME BundleTypes, Layers, Begun, UNCHANGED <<bundle, workOf, indexOf, headOf>>,
         \A k \in DOMAIN bundle.trees : /\ \A S : LookedAt(k, S)' = LookedAt(k, S)
                                        /\ LookedAt(k, CommittedIn(k))' = LookedAt(k, CommittedIn(k))
  PROVE  Layers'
<1>1. SUFFICES ASSUME NEW k \in DOMAIN bundle.trees
               PROVE  /\ Layered(k, workOf[k], LookedAt(k, FileStates))'
                      /\ Tree(k).kind = "git" => /\ Layered(k, indexOf[k], LookedAt(k, Indexed))'
                                                 /\ Layered(k, headOf[k], LookedAt(k, CommittedIn(k)))'
  BY DEF Layers, Tree
<1>2. /\ Layered(k, workOf[k], LookedAt(k, FileStates))
      /\ Tree(k).kind = "git" => /\ Layered(k, indexOf[k], LookedAt(k, Indexed))
                                 /\ Layered(k, headOf[k], LookedAt(k, CommittedIn(k)))
  BY DEF Layers
<1>3. LookedAt(k, FileStates)' = LookedAt(k, FileStates) /\ LookedAt(k, Indexed)' = LookedAt(k, Indexed)
  BY DEF FileStates, Indexed
<1>4. LookedAt(k, CommittedIn(k))' = LookedAt(k, CommittedIn(k))
  OBVIOUS
<1> HIDE DEF Indexed, FileStates
<1>5. Layered(k, workOf[k], LookedAt(k, FileStates))'
  BY <1>2, <1>3, BundleSays DEF Layered
<1> QED
  BY <1>2, <1>3, <1>4, <1>5, BundleSays DEF Layered

LEMMA BeginLayers == BundleTypes /\ BundleTypes' /\ BeginBundle => Layers'
<1> SUFFICES ASSUME BundleTypes, BundleTypes', BeginBundle, Begun' PROVE Layers'
  BY DEF Layers
<1>1. bundle.trees # <<>> /\ cursor' = FirstOf(1)
  BY DEF BeginBundle, Begun
<1>2. DOMAIN bundle'.trees = DOMAIN bundle.trees
  <2>1. Len(bundle'.trees) = Len(bundle.trees)
    BY <1>1, CloseType DEF BeginBundle, BundleTypes
  <2> QED
    BY <2>1 DEF BundleTypes, Bundles
<1>3. ASSUME NEW k \in DOMAIN bundle'.trees
      PROVE  workOf'[k] = EmptyDir /\ indexOf'[k] = EmptyDir /\ headOf'[k] = EmptyDir
  BY <1>1, <1>2, <1>3 DEF BeginBundle
<1>4. ASSUME NEW k \in DOMAIN bundle'.trees, NEW S PROVE LookedAt(k, S)' = {}
  <2>1. /\ k \in Nat \ {0} /\ DOMAIN Tree(k)'.files \subseteq Nat \ {0}
        /\ \A j \in DOMAIN Tree(k)'.files : Rank[Tree(k)'.files[j].state] \in 1..3
    <3>1. Tree(k)' \in BundleTrees /\ k \in Nat \ {0}
      BY DEF BundleTypes, Bundles, Tree
    <3>2. Tree(k)'.files \in Seq(BundleFiles)
      BY <3>1 DEF BundleTrees
    <3>5. \A j \in DOMAIN Tree(k)'.files : Tree(k)'.files[j] \in BundleFiles
      BY <3>2
    <3>3. \A j \in DOMAIN Tree(k)'.files : Tree(k)'.files[j].state \in FileStates
      BY <3>5 DEF BundleFiles
    <3>4. \A t \in FileStates : Rank[t] \in 1..3
      BY DEF Rank, FileStates
    <3> QED
      BY <3>1, <3>2, <3>3, <3>4
  <2>2. cursor'.tree = 1 /\ cursor'.state = "committed" /\ cursor'.file = 0 /\ Rank["committed"] = 1
    BY <1>1 DEF FirstOf, Rank
  <2>3. \A j \in DOMAIN Tree(k)'.files : ~Looked(k, j)'
    BY <2>1, <2>2 DEF Looked
  <2> QED
    BY <2>3 DEF LookedAt
<1>5. ASSUME NEW k \in DOMAIN bundle'.trees
      PROVE  /\ Layered(k, workOf[k], LookedAt(k, FileStates))'
             /\ Layered(k, indexOf[k], LookedAt(k, Indexed))'
             /\ Layered(k, headOf[k], LookedAt(k, CommittedIn(k)))'
  <2>1. LookedAt(k, FileStates)' = {} /\ LookedAt(k, Indexed)' = {} /\ LookedAt(k, CommittedIn(k))' = {}
    <3>1. \A j \in DOMAIN Tree(k)'.files : j \notin LookedAt(k, FileStates)'
      BY <1>4
    <3>2. \A j \in LookedAt(k, CommittedIn(k))' : Tree(k)'.files[j].state \in FileStates
      BY DEF LookedAt, CommittedIn, FileStates
    <3>3. \A j \in LookedAt(k, Indexed)' : Tree(k)'.files[j].state \in FileStates
      BY DEF LookedAt, Indexed, FileStates
    <3> QED
      BY <1>4, <3>1, <3>2, <3>3 DEF LookedAt
  <2>2. DOMAIN EmptyDir = {}
    BY DEF EmptyDir
  <2> QED
    BY <1>3, <2>1, <2>2 DEF Layered
<1> QED
  BY <1>5 DEF Layers

LEMMA WriteLayers == BundleTypes /\ HashesKnown /\ Layers /\ WriteFile => Layers'
<1> SUFFICES ASSUME BundleTypes, HashesKnown, Layers, WriteFile, Begun' PROVE Layers'
  BY DEF Layers
<1> DEFINE k == cursor.tree
<1>0. Begun /\ bundleStage = "write" /\ UNCHANGED <<bundle, headOf>>
  BY DEF Begun, WriteFile
<1>1. PICK i \in DOMAIN Tree(k).files :
        /\ IsNext(k, cursor.state, cursor.file, i)
        /\ workOf' = [workOf EXCEPT ![k] = PutFile(@, Tree(k).files[i])]
        /\ indexOf' = IF Tree(k).kind # "git" \/ Tree(k).files[i].state = "unstaged" THEN indexOf
                    ELSE [indexOf EXCEPT ![k] = PutFile(@, Tree(k).files[i])]
        /\ cursor' = [cursor EXCEPT !.file = i]
  BY DEF WriteFile, Begun
<1>2. /\ cursor'.tree = k /\ cursor'.state = cursor.state /\ cursor.state \in FileStates /\ cursor.file \in Nat
      /\ k \in DOMAIN bundle.trees /\ Tree(k).files[i].state = cursor.state /\ i > cursor.file /\ i \in Nat
  <2>1. i \in Nat
    BY <1>0, <1>1, AfterBeginning, FileTypes
  <2> QED
    BY <1>0, <1>1, <2>1, AfterBeginning DEF BundleTypes, IsNext
<1>3. /\ DOMAIN workOf = DOMAIN bundle.trees /\ DOMAIN indexOf = DOMAIN bundle.trees
  BY <1>0, AfterBeginning
<1>4. ASSUME NEW S, NEW j \in LookedAt(k, S) PROVE Beats(k, i, j)
  <2>1. Looked(k, j) /\ k \in Nat /\ j \in Nat
    BY <1>2, FileTypes DEF LookedAt
  <2> QED
    BY <1>2, <2>1 DEF Looked, Beats
<1>5. Beats(k, i, i)
  BY <1>2 DEF Beats
<1>6. Written(Tree(k).files[i]).contents = ContentsOf(k, Tree(k).files[i])
  BY <1>0, WrittenIsRight
<1>7. ASSUME NEW files, NEW S, Layered(k, files, LookedAt(k, S))
      PROVE  Layered(k, PutFile(files, Tree(k).files[i]), LookedAt(k, S) \cup {i})
  BY <1>4, <1>5, <1>6, <1>7, PutLayered
<1>8. SUFFICES ASSUME NEW m \in DOMAIN bundle.trees
               PROVE  /\ Layered(m, workOf'[m], LookedAt(m, FileStates)')
                      /\ Tree(m).kind = "git" => /\ Layered(m, indexOf'[m], LookedAt(m, Indexed)')
                                                 /\ Layered(m, headOf[m], LookedAt(m, CommittedIn(m))')
  <2>1. ASSUME NEW m \in DOMAIN bundle'.trees
        PROVE  /\ Layered(m, workOf[m], LookedAt(m, FileStates))'
               /\ Tree(m)'.kind = "git" => /\ Layered(m, indexOf[m], LookedAt(m, Indexed))'
                                           /\ Layered(m, headOf[m], LookedAt(m, CommittedIn(m)))'
    <3>1. m \in DOMAIN bundle.trees
      BY <1>0
    <3>2. /\ Layered(m, workOf'[m], LookedAt(m, FileStates)')
          /\ Tree(m).kind = "git" => /\ Layered(m, indexOf'[m], LookedAt(m, Indexed)')
                                     /\ Layered(m, headOf[m], LookedAt(m, CommittedIn(m))')
      BY <1>8, <3>1
    <3> QED
      BY <1>0, <3>2, BundleSays DEF Layered
  <2> QED
    BY <2>1 DEF Layers
<1>9. /\ Layered(m, workOf[m], LookedAt(m, FileStates))
      /\ Tree(m).kind = "git" => /\ Layered(m, indexOf[m], LookedAt(m, Indexed))
                                 /\ Layered(m, headOf[m], LookedAt(m, CommittedIn(m)))
  BY <1>0 DEF Layers
<1>10. \A S : LookedAt(m, S)' = IF m = k /\ cursor.state \in S THEN LookedAt(m, S) \cup {i} ELSE LookedAt(m, S)
  BY <1>0, <1>1, WriteLooks
<1> HIDE DEF k
<1>11. Layered(m, workOf'[m], LookedAt(m, FileStates)')
  <2>1. CASE m = k
    <3>1. workOf'[m] = PutFile(workOf[m], Tree(k).files[i])
      BY <1>1, <1>3, <2>1
    <3>2. LookedAt(m, FileStates)' = LookedAt(m, FileStates) \cup {i}
      BY <1>2, <1>10, <2>1 DEF k
    <3> QED
      BY <1>7, <1>9, <2>1, <3>1, <3>2
  <2>2. CASE m # k
    <3>1. workOf'[m] = workOf[m] /\ LookedAt(m, FileStates)' = LookedAt(m, FileStates)
      BY <1>1, <1>3, <1>10, <2>2
    <3> QED
      BY <1>9, <3>1
  <2> QED
    BY <2>1, <2>2
<1>12. ASSUME Tree(m).kind = "git" PROVE Layered(m, indexOf'[m], LookedAt(m, Indexed)')
  <2>1. CASE m = k /\ cursor.state # "unstaged"
    <3>1. indexOf'[m] = PutFile(indexOf[m], Tree(k).files[i])
      BY <1>1, <1>2, <1>3, <1>12, <2>1
    <3>2. LookedAt(m, Indexed)' = LookedAt(m, Indexed) \cup {i}
      <4>1. cursor.state \in Indexed
        BY <1>2, <2>1 DEF FileStates, Indexed
      <4> QED
        BY <1>10, <2>1, <4>1
    <3> QED
      BY <1>7, <1>9, <1>12, <2>1, <3>1, <3>2
  <2>2. CASE ~(m = k /\ cursor.state # "unstaged")
    <3>1. indexOf'[m] = indexOf[m]
      BY <1>1, <1>2, <1>3, <2>2
    <3>2. LookedAt(m, Indexed)' = LookedAt(m, Indexed)
      <4>1. m = k => cursor.state \notin Indexed
        BY <2>2 DEF Indexed
      <4> QED
        BY <1>10, <4>1
    <3> QED
      BY <1>9, <1>12, <3>1, <3>2
  <2> QED
    BY <2>1, <2>2
<1>13. LookedAt(m, CommittedIn(m))' = LookedAt(m, CommittedIn(m))
  <2>1. CommittedIn(m)' = CommittedIn(m)
    BY <1>2 DEF CommittedIn, k
  <2>2. m = k => cursor.state \notin CommittedIn(m)
    BY DEF CommittedIn, k
  <2>3. \A S : m = k /\ cursor.state \notin S => LookedAt(m, S)' = LookedAt(m, S)
    BY <1>10
  <2>4. LookedAt(m, CommittedIn(m))' = {j \in DOMAIN Tree(m).files : Tree(m).files[j].state \in CommittedIn(m) /\ Looked(m, j)'}
    BY <1>0, <2>1, BundleSays DEF LookedAt
  <2>5. {j \in DOMAIN Tree(m).files : Tree(m).files[j].state \in CommittedIn(m) /\ Looked(m, j)'} = LookedAt(m, CommittedIn(m))
    <3> DEFINE S == CommittedIn(m)
    <3>1. LookedAt(m, {"committed"})' = IF m = k /\ cursor.state \in {"committed"} THEN LookedAt(m, {"committed"}) \cup {i} ELSE LookedAt(m, {"committed"})
      BY <1>10
    <3>2. LookedAt(m, {"committed"})' = {j \in DOMAIN Tree(m).files : Tree(m).files[j].state \in {"committed"} /\ Looked(m, j)'}
      BY <1>0, BundleSays DEF LookedAt
    <3>3. CASE S = {}
      BY <3>3 DEF LookedAt
    <3>4. CASE S # {}
      <4>1. S = {"committed"} /\ ~(m = k /\ cursor.state = "committed")
        BY <3>4 DEF CommittedIn, k
      <4> QED
        BY <3>1, <3>2, <4>1
    <3> QED
      BY <3>3, <3>4
  <2> QED
    BY <2>4, <2>5
<1>14. Tree(m).kind = "git" => Layered(m, headOf[m], LookedAt(m, CommittedIn(m))')
  BY <1>9, <1>13
<1> QED
  BY <1>11, <1>12, <1>14

LEMMA EndLayers == BundleTypes /\ Layers /\ EndOfState => Layers'
<1> SUFFICES ASSUME BundleTypes, Layers, EndOfState PROVE Layers'
  OBVIOUS
<1> DEFINE k == cursor.tree
<1>0. Begun /\ UNCHANGED <<bundle, workOf, indexOf>> /\ cursor.state \in FileStates
  BY DEF Begun, EndOfState, BundleTypes
<1>1. /\ cursor'.tree = k /\ cursor'.state = After[cursor.state] /\ cursor'.state # "committed"
      /\ headOf' = IF cursor.state = "committed" THEN [headOf EXCEPT ![k] = indexOf[k]] ELSE headOf
  <2>1. \A t \in FileStates : After[t] # "committed"
    BY DEF After, FileStates
  <2> QED
    BY <1>0, <2>1 DEF EndOfState, BundleTypes
<1>2. ASSUME NEW m \in DOMAIN bundle.trees
      PROVE  /\ Layered(m, workOf'[m], LookedAt(m, FileStates)')
             /\ Tree(m).kind = "git" => /\ Layered(m, indexOf'[m], LookedAt(m, Indexed)')
                                        /\ Layered(m, headOf'[m], LookedAt(m, CommittedIn(m))')
  <2>1. /\ Layered(m, workOf[m], LookedAt(m, FileStates))
        /\ Tree(m).kind = "git" => /\ Layered(m, indexOf[m], LookedAt(m, Indexed))
                                   /\ Layered(m, headOf[m], LookedAt(m, CommittedIn(m)))
    BY <1>0 DEF Layers
  <2>2. \A S : LookedAt(m, S)' = LookedAt(m, S)
    BY EndLooks
  <2>3. LookedAt(m, CommittedIn(m))' = LookedAt(m, {"committed"})
    <3>1. CommittedIn(m)' = {"committed"}
      BY <1>1 DEF CommittedIn
    <3>2. LookedAt(m, CommittedIn(m))' = {j \in DOMAIN Tree(m).files : Tree(m).files[j].state \in {"committed"} /\ Looked(m, j)'}
      BY <1>0, <3>1, BundleSays DEF LookedAt
    <3>3. LookedAt(m, {"committed"})' = {j \in DOMAIN Tree(m).files : Tree(m).files[j].state \in {"committed"} /\ Looked(m, j)'}
      BY <1>0, BundleSays DEF LookedAt
    <3> QED
      BY <2>2, <3>2, <3>3
  <2>4. CASE m = k /\ cursor.state = "committed"
    <3>1. headOf'[m] = indexOf[m]
      BY <1>0, <1>1, <2>4, AfterBeginning
    <3>2. LookedAt(m, Indexed) = LookedAt(m, {"committed"})
      <4>1. ASSUME NEW j \in DOMAIN Tree(m).files, Tree(m).files[j].state = "staged" PROVE ~Looked(m, j)
        <5>1. Rank["staged"] = 2 /\ Rank["committed"] = 1 /\ m \in Nat
          BY FileTypes DEF Rank
        <5> QED
          BY <2>4, <4>1, <5>1 DEF Looked
      <4> QED
        BY <4>1 DEF LookedAt, Indexed
    <3> QED
      BY <1>0, <2>1, <2>2, <2>3, <3>1, <3>2
  <2>5. CASE ~(m = k /\ cursor.state = "committed")
    <3>1. headOf'[m] = headOf[m] /\ CommittedIn(m) = {"committed"}
      BY <1>0, <1>1, <2>5, AfterBeginning DEF CommittedIn
    <3> QED
      BY <1>0, <2>1, <2>2, <2>3, <3>1
  <2> QED
    BY <2>4, <2>5
<1>3. ASSUME NEW m \in DOMAIN bundle'.trees
      PROVE  /\ Layered(m, workOf[m], LookedAt(m, FileStates))'
             /\ Tree(m)'.kind = "git" => /\ Layered(m, indexOf[m], LookedAt(m, Indexed))'
                                         /\ Layered(m, headOf[m], LookedAt(m, CommittedIn(m)))'
  BY <1>0, <1>2, BundleSays DEF Layered
<1> QED
  BY <1>3 DEF Layers

LEMMA LockLayers == BundleTypes /\ Layers /\ Lock => Layers'
<1> SUFFICES ASSUME BundleTypes, Layers, Lock PROVE Layers'
  OBVIOUS
<1>0. Begun /\ UNCHANGED <<bundle, cursor, headOf>>
  BY LockSteps
<1>1. ASSUME NEW m \in DOMAIN bundle.trees
      PROVE  /\ Layered(m, workOf'[m], LookedAt(m, FileStates)')
             /\ Tree(m).kind = "git" => /\ Layered(m, indexOf'[m], LookedAt(m, Indexed)')
                                        /\ Layered(m, headOf'[m], LookedAt(m, CommittedIn(m))')
  <2>1. /\ Layered(m, workOf[m], LookedAt(m, FileStates))
        /\ Tree(m).kind = "git" => /\ Layered(m, indexOf[m], LookedAt(m, Indexed))
                                   /\ Layered(m, headOf[m], LookedAt(m, CommittedIn(m)))
    BY <1>0 DEF Layers
  <2>2. /\ LookedAt(m, FileStates)' = LookedAt(m, FileStates) /\ LookedAt(m, Indexed)' = LookedAt(m, Indexed)
        /\ LookedAt(m, CommittedIn(m))' = LookedAt(m, CommittedIn(m))
    BY <1>0 DEF LookedAt, Looked, Tree, CommittedIn, FileStates, Indexed
  <2>3. workOf'[m] = workOf[m] \/ workOf'[m] = Locked(workOf[m])
    BY <1>0, LockSteps, AfterBeginning
  <2>4. indexOf'[m] = indexOf[m] \/ indexOf'[m] = Locked(indexOf[m])
    BY <1>0, LockSteps, AfterBeginning
  <2> QED
    BY <1>0, <2>1, <2>2, <2>3, <2>4, LockedLayered
<1>2. ASSUME NEW m \in DOMAIN bundle'.trees
      PROVE  /\ Layered(m, workOf[m], LookedAt(m, FileStates))'
             /\ Tree(m)'.kind = "git" => /\ Layered(m, indexOf[m], LookedAt(m, Indexed))'
                                         /\ Layered(m, headOf[m], LookedAt(m, CommittedIn(m)))'
  BY <1>0, <1>1, BundleSays DEF Layered
<1> QED
  BY <1>2 DEF Layers

LEMMA LayersKept ==
  BundleTypes /\ BundleTypes' /\ HashesKnown /\ Layers /\ [BundleNext]_bundleVars => Layers'
<1> SUFFICES ASSUME BundleTypes, BundleTypes', HashesKnown, Layers, [BundleNext]_bundleVars, Begun' PROVE Layers'
  BY DEF Layers
<1>1. ASSUME UNCHANGED <<bundle, cursor, workOf, indexOf, headOf>>, Begun PROVE Layers'
  <2>1. \A k \in DOMAIN bundle.trees : /\ \A S : LookedAt(k, S)' = LookedAt(k, S)
                                       /\ LookedAt(k, CommittedIn(k))' = LookedAt(k, CommittedIn(k))
    BY <1>1 DEF LookedAt, Looked, Tree, CommittedIn
  <2> QED
    BY <1>1, <2>1, SameLayers
<1>2. ASSUME Proceeds, UNCHANGED <<bundle, workOf, indexOf, headOf>>, Begun, cursor.state = "written" PROVE Layers'
  BY <1>2, ProceedsLooks, SameLayers
<1>3. CASE ReadLine
  BY <1>3 DEF ReadLine, Begun
<1>4. CASE SetTimes
  BY <1>1, <1>2, <1>4 DEF SetTimes, Begun, BundleTypes
<1>5. CASE AddToStore
  BY <1>1, <1>2, <1>5 DEF AddToStore, Begun, BundleTypes
<1>6. CASE SetTimesAgain
  BY <1>1, <1>6 DEF SetTimesAgain, Begun
<1>7. CASE UNCHANGED bundleVars
  BY <1>1, <1>7 DEF bundleVars, Begun
<1> QED
  BY <1>3, <1>4, <1>5, <1>6, <1>7, BeginLayers, WriteLayers, EndLayers, LockLayers DEF BundleNext

\* The file that LastOf finds is the one that is written after the others of
\* its path and states.
LEMMA LastIs ==
  ASSUME BundleTypes, NEW k \in DOMAIN bundle.trees, NEW path, NEW s \in FileStates
  PROVE  /\ LastOf(k, path, {s}) = <<>>
              => \A i \in DOMAIN Tree(k).files : ~(Tree(k).files[i].path = path /\ Tree(k).files[i].state = s)
         /\ LastOf(k, path, {s}) # <<>>
              => \E i \in DOMAIN Tree(k).files :
                   /\ Tree(k).files[i].path = path /\ Tree(k).files[i].state = s
                   /\ LastOf(k, path, {s}) = <<Tree(k).files[i]>>
                   /\ \A j \in DOMAIN Tree(k).files : Tree(k).files[j].path = path /\ Tree(k).files[j].state = s => j <= i
<1> DEFINE is == {i \in DOMAIN Tree(k).files : Tree(k).files[i].path = path /\ Tree(k).files[i].state \in {s}}
<1>1. CASE is = {}
  BY <1>1 DEF LastOf
<1>2. CASE is # {}
  <2>1. is \in SUBSET Nat /\ DOMAIN Tree(k).files = 1..Len(Tree(k).files) /\ Len(Tree(k).files) \in Nat
    <3>1. Tree(k).files \in Seq(BundleFiles)
      BY FileTypes DEF BundleTrees
    <3> QED
      BY <3>1
  <2>2. \E i \in is : \A j \in is : j <= i
    <3>1. is \in SUBSET (0..Len(Tree(k).files))
      BY <2>1
    <3> QED
      BY <1>2, <2>1, <3>1, GreatestPlace
  <2> DEFINE m == CHOOSE i \in is : \A j \in is : j <= i
  <2>3. m \in is /\ \A j \in is : j <= m
    BY <2>2
  <2>4. LastOf(k, path, {s}) = <<Tree(k).files[m]>>
    BY <1>2 DEF LastOf
  <2> HIDE DEF m
  <2>5. m \in DOMAIN Tree(k).files /\ Tree(k).files[m].path = path /\ Tree(k).files[m].state = s
    BY <2>3
  <2>6. \A j \in DOMAIN Tree(k).files : Tree(k).files[j].path = path /\ Tree(k).files[j].state = s => j <= m
    BY <2>3
  <2>7. LastOf(k, path, {s}) # <<>>
    BY <2>4
  <2> QED
    BY <2>4, <2>5, <2>6, <2>7
<1> QED
  BY <1>1, <1>2

\* The file that lies over the others of the path, of those of some states.
Uppermost(k, path, states) ==
  LET There(t) == IF t \in states THEN LastOf(k, path, {t}) ELSE <<>> IN
  Over(There("unstaged"), Over(There("staged"), There("committed")))

LEMMA LayersShowUppermost ==
  ASSUME BundleTypes, NEW k \in DOMAIN bundle.trees, NEW p, p # LockFile, NEW files, NEW S \in SUBSET FileStates,
         Layered(k, files, {i \in DOMAIN Tree(k).files : Tree(k).files[i].state \in S})
  PROVE  Is(k, files, p, Uppermost(k, p, S))
<1> DEFINE is == {i \in DOMAIN Tree(k).files : Tree(k).files[i].state \in S}
           L(t) == LastOf(k, p, {t})
<1>1. CASE p \in DOMAIN files
  <2>1. PICK i \in is : /\ Tree(k).files[i].path = p
                        /\ files[p].contents = ContentsOf(k, Tree(k).files[i])
                        /\ \A j \in is : Tree(k).files[j].path = p => Beats(k, i, j)
    BY <1>1 DEF Layered
  <2> DEFINE s == Tree(k).files[i].state
  <2>2. s \in FileStates /\ s \in S /\ i \in Nat
    BY FileTypes
  <2>3. \A t \in FileStates : Rank[t] \in 1..3
    BY DEF FileStates, Rank
  <2>4. L(s) = <<Tree(k).files[i]>>
    <3>1. L(s) # <<>>
      BY <2>1, <2>2, LastIs
    <3>2. PICK m \in DOMAIN Tree(k).files :
            /\ Tree(k).files[m].path = p /\ Tree(k).files[m].state = s
            /\ L(s) = <<Tree(k).files[m]>>
            /\ \A j \in DOMAIN Tree(k).files : Tree(k).files[j].path = p /\ Tree(k).files[j].state = s => j <= m
      BY <2>2, <3>1, LastIs
    <3>3. i <= m
      BY <2>1, <3>2
    <3>4. Beats(k, i, m)
      BY <2>1, <2>2, <3>2
    <3>5. m <= i
      BY <2>2, <2>3, <3>2, <3>4 DEF Beats
    <3>6. m = i
      BY <2>2, <3>2, <3>3, <3>5, FileTypes
    <3> QED
      BY <3>2, <3>6
  <2>5. ASSUME NEW t \in S, Rank[s] < Rank[t] PROVE L(t) = <<>>
    <3>1. SUFFICES ASSUME L(t) # <<>> PROVE FALSE
      OBVIOUS
    <3>2. PICK m \in DOMAIN Tree(k).files : Tree(k).files[m].path = p /\ Tree(k).files[m].state = t
      BY <2>5, <3>1, LastIs
    <3>3. Beats(k, i, m)
      BY <2>1, <2>5, <3>2
    <3> QED
      BY <2>2, <2>3, <2>5, <3>2, <3>3 DEF Beats
  <2>6. Rank["committed"] = 1 /\ Rank["staged"] = 2 /\ Rank["unstaged"] = 3
    BY DEF Rank
  <2>7. Uppermost(k, p, S) = <<Tree(k).files[i]>>
    <3> HIDE DEF L
    <3>1. Uppermost(k, p, S) = Over(IF "unstaged" \in S THEN L("unstaged") ELSE <<>>,
                              Over(IF "staged" \in S THEN L("staged") ELSE <<>>, IF "committed" \in S THEN L("committed") ELSE <<>>))
      BY DEF Uppermost, L
    <3>0. <<Tree(k).files[i]>> # <<>>
      OBVIOUS
    <3>2. CASE s = "unstaged"
      <4>1. L("unstaged") = <<Tree(k).files[i]>> /\ "unstaged" \in S
        BY <2>2, <2>4, <3>2
      <4> QED
        BY <3>0, <3>1, <4>1 DEF Over
    <3>3. CASE s = "staged"
      <4>1. "unstaged" \in S => L("unstaged") = <<>>
        BY <2>5, <2>6, <3>3
      <4>2. L("staged") = <<Tree(k).files[i]>> /\ "staged" \in S
        BY <2>2, <2>4, <3>3
      <4> QED
        BY <3>1, <4>1, <4>2 DEF Over
    <3>4. CASE s = "committed"
      <4>1. ("unstaged" \in S => L("unstaged") = <<>>) /\ ("staged" \in S => L("staged") = <<>>)
        BY <2>5, <2>6, <3>4
      <4>2. L("committed") = <<Tree(k).files[i]>> /\ "committed" \in S
        BY <2>2, <2>4, <3>4
      <4> QED
        BY <3>1, <4>1, <4>2 DEF Over
    <3> QED
      BY <2>2, <3>2, <3>3, <3>4 DEF FileStates
  <2> QED
    BY <1>1, <2>1, <2>7 DEF Is
<1>2. CASE p \notin DOMAIN files
  <2>1. \A i \in is : Tree(k).files[i].path # p
    BY <1>2 DEF Layered
  <2>2. ASSUME NEW t \in S PROVE L(t) = <<>>
    <3>1. SUFFICES ASSUME L(t) # <<>> PROVE FALSE
      OBVIOUS
    <3>2. PICK m \in DOMAIN Tree(k).files : Tree(k).files[m].path = p /\ Tree(k).files[m].state = t
      BY <3>1, LastIs
    <3> QED
      BY <2>1, <3>2
  <2>3. Uppermost(k, p, S) = <<>>
    BY <2>2 DEF Uppermost, Over
  <2> QED
    BY <1>2, <2>3 DEF Is
<1> QED
  BY <1>1, <1>2

LEMMA LayersDeclare == BundleTypes /\ Layers => TreesAsDeclared
<1> SUFFICES ASSUME BundleTypes, Layers, bundleStage = "ready", NEW k \in DOMAIN bundle.trees,
                    NEW p \in {Tree(k).files[i].path : i \in DOMAIN Tree(k).files} \ {<<"flake.lock">>}
             PROVE  LET c == LastOf(k, p, {"committed"})
                        s == LastOf(k, p, {"staged"})
                        u == LastOf(k, p, {"unstaged"}) IN
                    /\ Is(k, workOf[k], p, Over(u, Over(s, c)))
                    /\ Tree(k).kind = "git" => Is(k, indexOf[k], p, Over(s, c)) /\ Is(k, headOf[k], p, c)
  BY Zenon DEF TreesAsDeclared
<1>1. cursor.tree = Len(bundle.trees) /\ cursor.state = "written" /\ Begun /\ p # LockFile
  BY DEF BundleTypes, Begun, LockFile
<1>2. ASSUME NEW i \in DOMAIN Tree(k).files PROVE Looked(k, i)
  <2>1. k <= cursor.tree /\ k \in Nat /\ cursor.tree \in Nat
    BY <1>1, AfterBeginning
  <2>2. Rank[Tree(k).files[i].state] < Rank["written"]
    <3>1. Rank["written"] = 4
      BY DEF Rank
    <3> QED
      BY <3>1, FileTypes
  <2> QED
    BY <1>1, <2>1, <2>2 DEF Looked
<1> DEFINE At(S) == {i \in DOMAIN Tree(k).files : Tree(k).files[i].state \in S}
<1>3. \A S : LookedAt(k, S) = At(S)
  BY <1>2 DEF LookedAt
<1>4. CommittedIn(k) = {"committed"}
  BY <1>1 DEF CommittedIn
<1>5. /\ Layered(k, workOf[k], At(FileStates))
      /\ Tree(k).kind = "git" => Layered(k, indexOf[k], At(Indexed)) /\ Layered(k, headOf[k], At({"committed"}))
  BY <1>1, <1>3, <1>4 DEF Layers
<1>6. FileStates \in SUBSET FileStates /\ Indexed \in SUBSET FileStates /\ {"committed"} \in SUBSET FileStates
  BY DEF FileStates, Indexed
<1>7. /\ Is(k, workOf[k], p, Uppermost(k, p, FileStates))
      /\ Tree(k).kind = "git" => Is(k, indexOf[k], p, Uppermost(k, p, Indexed)) /\ Is(k, headOf[k], p, Uppermost(k, p, {"committed"}))
  BY <1>1, <1>5, <1>6, LayersShowUppermost
<1>8. /\ Uppermost(k, p, FileStates) = Over(LastOf(k, p, {"unstaged"}), Over(LastOf(k, p, {"staged"}), LastOf(k, p, {"committed"})))
      /\ Uppermost(k, p, Indexed) = Over(LastOf(k, p, {"staged"}), LastOf(k, p, {"committed"}))
      /\ Uppermost(k, p, {"committed"}) = LastOf(k, p, {"committed"})
  BY DEF Uppermost, Over, FileStates, Indexed
<1> QED
  BY <1>7, <1>8

-----------------------------------------------------------------------------
(* The text and the files that are parsed of it.                           *)

\* The part of a text from the directive at d to the one, or the end, at j.
EndsAt(s, j) == j = Len(s) + 1 \/ (j \in DOMAIN s /\ s[j].is # "text")
Part(s, d, j) ==
  /\ d \in DOMAIN s /\ j \in 1..(Len(s) + 1) /\ d < j
  /\ s[d].is = "file" /\ EndsAt(s, j)
  /\ \A l \in (d + 1)..(j - 1) : s[l].is = "text"

TextOf(s, d, e) == [i \in 1..(e - d) |-> s[d + i].text]
Holds(s, file, d, j) == file.path = s[d].path /\ file.contents = TextOf(s, d, j - 1)

\* The files of the trees are the parts that end at m or before.
FilesUpTo(s, trees, m) ==
  /\ \A k \in DOMAIN trees : \A i \in DOMAIN trees[k].files :
       \E d, j \in 1..m : Part(s, d, j) /\ Holds(s, trees[k].files[i], d, j)
  /\ \A d, j \in 1..m : Part(s, d, j) =>
       \E k \in DOMAIN trees : \E i \in DOMAIN trees[k].files : Holds(s, trees[k].files[i], d, j)

\* The file that is open after n lines is of the last directive.
OpenIs(s, file, n) ==
  IF file = NoFile
    THEN \A d \in 1..n : s[d].is = "file" => \E j \in (d + 1)..n : s[j].is # "text"
  ELSE \E d \in 1..n : /\ s[d].is = "file" /\ \A l \in (d + 1)..n : s[l].is = "text"
                       /\ file.path = s[d].path /\ file.contents = TextOf(s, d, n)

LEMMA AppendAt ==
  ASSUME NEW S, NEW seq \in Seq(S), NEW e \in S
  PROVE  /\ DOMAIN Append(seq, e) = DOMAIN seq \cup {Len(seq) + 1}
         /\ \A i \in DOMAIN seq : Append(seq, e)[i] = seq[i]
         /\ Append(seq, e)[Len(seq) + 1] = e
OBVIOUS

LEMMA CloseUpTo ==
  ASSUME NEW s \in Seq(Lines), NEW b \in Bundles, HasPlace(b), NEW n \in 0..Len(s),
         FilesUpTo(s, b.trees, n), OpenIs(s, b.open, n), EndsAt(s, n + 1)
  PROVE  FilesUpTo(s, Close(b).trees, n + 1)
<1>1. CASE b.open = NoFile
  <2>1. Close(b) = b
    BY <1>1 DEF Close
  <2>2. ASSUME NEW d \in 1..(n + 1), NEW j \in 1..(n + 1), Part(s, d, j) PROVE j \in 1..n /\ d \in 1..n
    <3>1. d \in 1..n
      BY <2>2 DEF Part
    <3>2. j # n + 1
      <4>1. SUFFICES ASSUME j = n + 1 PROVE FALSE
        OBVIOUS
      <4>2. PICK l \in (d + 1)..n : s[l].is # "text"
        BY <1>1, <2>2, <3>1 DEF OpenIs, Part
      <4> QED
        BY <2>2, <4>1, <4>2 DEF Part
    <3> QED
      BY <3>1, <3>2
  <2>3. 1..n \subseteq 1..(n + 1)
    OBVIOUS
  <2> QED
    BY <2>1, <2>2, <2>3 DEF FilesUpTo
<1>2. CASE b.open # NoFile
  <2> DEFINE m == Len(b.trees)
             f == b.open
             t == [b.trees[m] EXCEPT !.files = Append(@, f)]
             ts == [b.trees EXCEPT ![m] = t]
  <2>1. f \in BundleFiles /\ m \in DOMAIN b.trees /\ b.trees \in Seq(BundleTrees)
    BY <1>2 DEF Bundles, HasPlace
  <2>2. Close(b).trees = ts
    BY <1>2, <2>1 DEF Close, Bundles
  <2>3. b.trees[m].files \in Seq(BundleFiles)
    <3>1. b.trees[m] \in BundleTrees
      BY <2>1
    <3> QED
      BY <3>1 DEF BundleTrees
  <2>4. /\ DOMAIN ts = DOMAIN b.trees
        /\ \A k \in DOMAIN b.trees : k # m => ts[k] = b.trees[k]
        /\ ts[m].files = Append(b.trees[m].files, f)
    <3>1. b.trees[m] \in BundleTrees
      BY <2>1
    <3> QED
      BY <2>1, <3>1 DEF BundleTrees
  <2> HIDE DEF t, ts, m
  <2> DEFINE len == Len(b.trees[m].files)
  <2>5. /\ DOMAIN ts[m].files = DOMAIN b.trees[m].files \cup {len + 1}
        /\ \A i \in DOMAIN b.trees[m].files : ts[m].files[i] = b.trees[m].files[i]
        /\ ts[m].files[len + 1] = f
    BY <2>1, <2>3, <2>4, AppendAt
  <2> HIDE DEF len
  <2>6. PICK e \in 1..n : /\ s[e].is = "file" /\ \A l \in (e + 1)..n : s[l].is = "text"
                          /\ f.path = s[e].path /\ f.contents = TextOf(s, e, n)
    BY <1>2 DEF OpenIs
  <2>7. Part(s, e, n + 1) /\ Holds(s, f, e, n + 1)
    <3>1. e \in DOMAIN s /\ n + 1 \in 1..(Len(s) + 1) /\ e < n + 1 /\ (n + 1) - 1 = n
      OBVIOUS
    <3> QED
      BY <2>6, <3>1 DEF Part, Holds
  <2>8. ASSUME NEW k \in DOMAIN ts, NEW i \in DOMAIN ts[k].files
        PROVE  \E d, j \in 1..(n + 1) : Part(s, d, j) /\ Holds(s, ts[k].files[i], d, j)
    <3>1. CASE k = m /\ i = len + 1
      <4>1. e \in 1..(n + 1) /\ n + 1 \in 1..(n + 1)
        OBVIOUS
      <4> QED
        BY <2>5, <2>7, <3>1, <4>1
    <3>2. CASE ~(k = m /\ i = len + 1)
      <4>1. k \in DOMAIN b.trees /\ i \in DOMAIN b.trees[k].files /\ ts[k].files[i] = b.trees[k].files[i]
        BY <2>4, <2>5, <2>8, <3>2
      <4>2. PICK d, j \in 1..n : Part(s, d, j) /\ Holds(s, b.trees[k].files[i], d, j)
        BY <4>1 DEF FilesUpTo
      <4>3. d \in 1..(n + 1) /\ j \in 1..(n + 1)
        OBVIOUS
      <4> QED
        BY <4>1, <4>2, <4>3
    <3> QED
      BY <3>1, <3>2
  <2>9. ASSUME NEW d \in 1..(n + 1), NEW j \in 1..(n + 1), Part(s, d, j)
        PROVE  \E k \in DOMAIN ts : \E i \in DOMAIN ts[k].files : Holds(s, ts[k].files[i], d, j)
    <3>1. CASE j = n + 1
      <4>1. d = e
        <5>1. d \in 1..n
          BY <2>9 DEF Part
        <5>2. ~(d < e)
          BY <2>6, <2>9, <3>1 DEF Part
        <5>3. ~(e < d)
          BY <2>6, <2>9, <5>1 DEF Part
        <5> QED
          BY <5>1, <5>2, <5>3
      <4>2. Holds(s, ts[m].files[len + 1], d, j) /\ m \in DOMAIN ts /\ len + 1 \in DOMAIN ts[m].files
        BY <2>1, <2>4, <2>5, <2>7, <3>1, <4>1
      <4> QED
        BY <4>2
    <3>2. CASE j # n + 1
      <4>1. d \in 1..n /\ j \in 1..n
        <5>1. d < j
          BY <2>9 DEF Part
        <5> QED
          BY <3>2, <5>1
      <4>2. PICK k \in DOMAIN b.trees : \E i \in DOMAIN b.trees[k].files : Holds(s, b.trees[k].files[i], d, j)
        BY <2>9, <4>1 DEF FilesUpTo
      <4>3. PICK i \in DOMAIN b.trees[k].files : Holds(s, b.trees[k].files[i], d, j)
        BY <4>2
      <4>4. k \in DOMAIN ts /\ i \in DOMAIN ts[k].files /\ ts[k].files[i] = b.trees[k].files[i]
        BY <2>4, <2>5
      <4> QED
        BY <4>3, <4>4
    <3> QED
      BY <3>1, <3>2
  <2> QED
    BY <2>2, <2>8, <2>9 DEF FilesUpTo
<1> QED
  BY <1>1, <1>2

ParsedRight ==
  bundle.ok => IF bundleStage = "parse" THEN FilesUpTo(src, bundle.trees, parsed) /\ OpenIs(src, bundle.open, parsed)
               ELSE FilesUpTo(src, bundle.trees, Len(src) + 1)

\* After a line of text nothing new ends.
LEMMA TextEndsNothing ==
  ASSUME NEW s \in Seq(Lines), NEW trees, NEW n \in 0..(Len(s) - 1), s[n + 1].is = "text", FilesUpTo(s, trees, n)
  PROVE  FilesUpTo(s, trees, n + 1)
<1>1. n + 1 \in DOMAIN s /\ n + 1 # Len(s) + 1
  OBVIOUS
<1>2. \A d, j \in 1..(n + 1) : Part(s, d, j) => d \in 1..n /\ j \in 1..n
  <2>1. SUFFICES ASSUME NEW d \in 1..(n + 1), NEW j \in 1..(n + 1), Part(s, d, j) PROVE d \in 1..n /\ j \in 1..n
    OBVIOUS
  <2>2. j # n + 1
    BY <1>1, <2>1 DEF Part, EndsAt
  <2> QED
    BY <2>1, <2>2 DEF Part
<1>3. 1..n \subseteq 1..(n + 1)
  OBVIOUS
<1>4. ASSUME NEW k \in DOMAIN trees, NEW i \in DOMAIN trees[k].files
      PROVE  \E d, j \in 1..(n + 1) : Part(s, d, j) /\ Holds(s, trees[k].files[i], d, j)
  <2>1. PICK d, j \in 1..n : Part(s, d, j) /\ Holds(s, trees[k].files[i], d, j)
    BY DEF FilesUpTo
  <2> QED
    BY <1>3, <2>1
<1> QED
  BY <1>2, <1>4 DEF FilesUpTo

LEMMA ReadRight == BundleTypes /\ ParsedRight /\ ReadLine => ParsedRight'
<1> SUFFICES ASSUME BundleTypes, ParsedRight, ReadLine, bundle'.ok PROVE ParsedRight'
  BY DEF ParsedRight
<1> DEFINE n == parsed
           line == src[n + 1]
<1>1. /\ bundle.ok /\ bundleStage = "parse" /\ bundleStage' = "parse" /\ src' = src /\ parsed' = n + 1
      /\ bundle' = ParseLine(bundle, line) /\ n \in 0..(Len(src) - 1) /\ src \in Seq(Lines)
      /\ bundle \in Bundles /\ HasPlace(bundle) /\ n + 1 \in DOMAIN src /\ n \in 0..Len(src)
  BY DEF ReadLine, BundleTypes
<1>2. FilesUpTo(src, bundle.trees, n) /\ OpenIs(src, bundle.open, n)
  BY <1>1 DEF ParsedRight
<1>3. SUFFICES FilesUpTo(src, bundle'.trees, n + 1) /\ OpenIs(src, bundle'.open, n + 1)
  BY <1>1 DEF ParsedRight
<1>4. CASE line.is = "text"
  <2>1. FilesUpTo(src, bundle.trees, n + 1)
    BY <1>1, <1>2, <1>4, TextEndsNothing
  <2>2. CASE bundle.open = NoFile
    <3>1. bundle' = bundle
      BY <1>1, <1>4, <2>2 DEF ParseLine
    <3>2. OpenIs(src, NoFile, n + 1)
      <4>1. SUFFICES ASSUME NEW d \in 1..(n + 1), src[d].is = "file"
                     PROVE  \E j \in (d + 1)..(n + 1) : src[j].is # "text"
        BY DEF OpenIs
      <4>2. d \in 1..n
        BY <1>1, <1>4, <4>1
      <4>3. PICK j \in (d + 1)..n : src[j].is # "text"
        BY <1>2, <2>2, <4>1, <4>2 DEF OpenIs
      <4>4. j \in (d + 1)..(n + 1)
        BY <1>1
      <4> QED
        BY <4>3, <4>4
    <3> QED
      BY <2>1, <2>2, <3>1, <3>2
  <2>3. CASE bundle.open # NoFile
    <3> DEFINE f == [bundle.open EXCEPT !.contents = Append(@, line.text)]
    <3>1. bundle' = [bundle EXCEPT !.open = f] /\ bundle.open \in BundleFiles
      BY <1>1, <1>4, <2>3 DEF ParseLine, Bundles
    <3>2. bundle'.trees = bundle.trees /\ bundle'.open = f
      BY <1>1, <3>1 DEF Bundles
    <3>3. PICK d \in 1..n : /\ src[d].is = "file" /\ \A l \in (d + 1)..n : src[l].is = "text"
                            /\ bundle.open.path = src[d].path /\ bundle.open.contents = TextOf(src, d, n)
      BY <1>2, <2>3 DEF OpenIs
    <3>4. f.path = src[d].path /\ f.contents = Append(TextOf(src, d, n), line.text) /\ f \in BundleFiles
      <4>1. f.path = bundle.open.path /\ f.contents = Append(bundle.open.contents, line.text)
        BY <3>1 DEF BundleFiles
      <4>2. line.text \in LineTexts
        BY <1>1 DEF LineTexts
      <4>3. Append(bundle.open.contents, line.text) \in Seq(LineTexts)
        BY <3>1, <4>2 DEF BundleFiles
      <4>4. f \in BundleFiles
        BY <3>1, <4>3 DEF BundleFiles
      <4> QED
        BY <3>3, <4>1, <4>4
    <3>5. Append(TextOf(src, d, n), line.text) = TextOf(src, d, n + 1)
      <4>1. n - d \in Nat /\ (n + 1) - d = (n - d) + 1 /\ d + ((n - d) + 1) = n + 1
        BY <1>1
      <4>2. TextOf(src, d, n) = [i \in 1..(n - d) |-> src[d + i].text]
        BY DEF TextOf
      <4>3. TextOf(src, d, n + 1) = [i \in 1..((n - d) + 1) |-> src[d + i].text]
        BY <4>1 DEF TextOf
      <4>4. TextOf(src, d, n) \in Seq(LineTexts) /\ Len(TextOf(src, d, n)) = n - d
        <5>1. \A i \in 1..(n - d) : d + i \in DOMAIN src /\ src[d + i] \in Lines
          BY <1>1
        <5>2. \A i \in 1..(n - d) : src[d + i].text \in LineTexts
          BY <5>1 DEF LineTexts
        <5> QED
          BY <4>1, <4>2, <5>2
      <4>5. Append(TextOf(src, d, n), line.text) = [i \in 1..((n - d) + 1) |-> IF i = (n - d) + 1 THEN line.text ELSE TextOf(src, d, n)[i]]
        BY <4>1, <4>4
      <4>6. \A i \in 1..((n - d) + 1) : (IF i = (n - d) + 1 THEN line.text ELSE TextOf(src, d, n)[i]) = src[d + i].text
        BY <4>1, <4>2
      <4> QED
        BY <4>3, <4>5, <4>6
    <3>6. \A l \in (d + 1)..(n + 1) : src[l].is = "text"
      BY <1>1, <1>4, <3>3
    <3>7. d \in 1..(n + 1)
      BY <1>1
    <3>8. f # NoFile
      BY <3>4, FileIsOpen
    <3>9. OpenIs(src, f, n + 1)
      BY <3>3, <3>4, <3>5, <3>6, <3>7, <3>8 DEF OpenIs
    <3> QED
      BY <2>1, <3>2, <3>9
  <2> QED
    BY <2>2, <2>3
<1>5. CASE line.is # "text"
  <2> DEFINE c == Close(bundle)
  <2>1. EndsAt(src, n + 1)
    BY <1>1, <1>5 DEF EndsAt
  <2>2. FilesUpTo(src, c.trees, n + 1)
    BY <1>1, <1>2, <2>1, CloseUpTo
  <2>3. c \in Bundles /\ c.open = NoFile
    BY <1>1, CloseType
  <2> HIDE DEF c
  <2>4. ASSUME line.is # "file" PROVE OpenIs(src, NoFile, n + 1)
    <3>1. SUFFICES ASSUME NEW d \in 1..(n + 1), src[d].is = "file"
                   PROVE  \E j \in (d + 1)..(n + 1) : src[j].is # "text"
      BY DEF OpenIs
    <3>2. d # n + 1
      BY <2>4, <3>1
    <3>3. n + 1 \in (d + 1)..(n + 1)
      BY <1>1, <3>2
    <3> QED
      BY <1>5, <3>3
  <2>5. CASE line.is = "lock"
    <3>1. bundle' = [c EXCEPT !.lock = TRUE]
      BY <1>1, <2>5 DEF ParseLine, c
    <3>2. bundle'.trees = c.trees /\ bundle'.open = NoFile
      BY <2>3, <3>1 DEF Bundles
    <3> QED
      BY <2>2, <2>4, <2>5, <3>2
  <2>6. bundle' # Malformed
    BY DEF Malformed, NothingYet
  <2>7. CASE line.is = "tree"
    <3> DEFINE t == [name |-> line.name, kind |-> line.kind, files |-> <<>>]
    <3>1. bundle' = [c EXCEPT !.trees = Append(@, t)]
      BY <1>1, <2>6, <2>7 DEF ParseLine, c
    <3>2. bundle'.trees = Append(c.trees, t) /\ bundle'.open = NoFile /\ c.trees \in Seq(BundleTrees)
      BY <2>3, <3>1 DEF Bundles
    <3>3. DOMAIN Append(c.trees, t) = DOMAIN c.trees \cup {Len(c.trees) + 1}
          /\ Append(c.trees, t)[Len(c.trees) + 1] = t
          /\ \A k \in DOMAIN c.trees : Append(c.trees, t)[k] = c.trees[k]
      BY <3>2
    <3>4. DOMAIN t.files = {}
      OBVIOUS
    <3> HIDE DEF t
    <3>5. FilesUpTo(src, Append(c.trees, t), n + 1)
      <4> DEFINE ts == Append(c.trees, t)
      <4> HIDE DEF ts
      <4>1. /\ DOMAIN ts = DOMAIN c.trees \cup {Len(c.trees) + 1} /\ ts[Len(c.trees) + 1] = t
            /\ \A k \in DOMAIN c.trees : ts[k] = c.trees[k]
        BY <3>3 DEF ts
      <4>2. ASSUME NEW k \in DOMAIN ts, NEW i \in DOMAIN ts[k].files
            PROVE  \E d, j \in 1..(n + 1) : Part(src, d, j) /\ Holds(src, ts[k].files[i], d, j)
        <5>1. k \in DOMAIN c.trees /\ ts[k] = c.trees[k]
          BY <3>4, <4>1, <4>2
        <5> QED
          BY <2>2, <4>2, <5>1 DEF FilesUpTo
      <4>3. ASSUME NEW d \in 1..(n + 1), NEW j \in 1..(n + 1), Part(src, d, j)
            PROVE  \E k \in DOMAIN ts : \E i \in DOMAIN ts[k].files : Holds(src, ts[k].files[i], d, j)
        <5>1. PICK k \in DOMAIN c.trees : \E i \in DOMAIN c.trees[k].files : Holds(src, c.trees[k].files[i], d, j)
          BY <2>2, <4>3 DEF FilesUpTo
        <5> QED
          BY <4>1, <5>1
      <4> QED
        BY <4>2, <4>3 DEF FilesUpTo, ts
    <3> QED
      BY <2>4, <2>7, <3>2, <3>5
  <2>8. CASE line.is = "file"
    <3> DEFINE f == [path |-> line.path, contents |-> <<>>, state |-> StateOf(line.flags),
                     link |-> "link" \in line.flags, x |-> "x" \in line.flags]
    <3>1. bundle' = [c EXCEPT !.open = f]
      BY <1>1, <2>6, <2>8 DEF ParseLine, c
    <3>2. bundle'.trees = c.trees /\ bundle'.open = f
      BY <2>3, <3>1 DEF Bundles
    <3>3. f # NoFile
      <4>1. f \in BundleFiles
        <5>1. line.path \in LinePaths
          BY <1>1 DEF LinePaths
        <5> QED
          BY <5>1 DEF BundleFiles, StateOf, FileStates
      <4> QED
        BY <4>1, FileIsOpen
    <3>4. TextOf(src, n + 1, n + 1) = <<>>
      <4>1. 1..((n + 1) - (n + 1)) = {}
        BY <1>1
      <4> QED
        BY <4>1 DEF TextOf
    <3>5. n + 1 \in 1..(n + 1) /\ (n + 1 + 1)..(n + 1) = {}
      BY <1>1
    <3>6. OpenIs(src, f, n + 1)
      BY <2>8, <3>3, <3>4, <3>5 DEF OpenIs
    <3> QED
      BY <2>2, <3>2, <3>6
  <2>9. CASE line.is \notin {"text", "lock", "tree", "file"}
    <3>1. bundle' = Malformed
      BY <1>1, <2>9 DEF ParseLine
    <3> QED
      BY <2>6, <3>1
  <2> QED
    BY <1>5, <2>5, <2>7, <2>8, <2>9
<1> QED
  BY <1>4, <1>5

LEMMA BeginRight == BundleTypes /\ ParsedRight /\ BeginBundle => ParsedRight'
<1> SUFFICES ASSUME BundleTypes, ParsedRight, BeginBundle, bundle'.ok PROVE ParsedRight'
  BY DEF ParsedRight
<1>1. bundle.trees # <<>> /\ bundle' = Close(bundle) /\ bundleStage' = "write" /\ src' = src
  BY DEF BeginBundle, Malformed, NothingYet
<1>2. bundle.ok /\ parsed = Len(src) /\ bundle \in Bundles /\ HasPlace(bundle) /\ src \in Seq(Lines)
  BY <1>1 DEF BeginBundle, BundleTypes, Malformed, NothingYet
<1>3. FilesUpTo(src, bundle.trees, parsed) /\ OpenIs(src, bundle.open, parsed)
  BY <1>2 DEF BeginBundle, ParsedRight
<1>4. FilesUpTo(src, Close(bundle).trees, parsed + 1)
  <2>1. EndsAt(src, parsed + 1) /\ parsed \in 0..Len(src)
    <3>1. Len(src) \in Nat
      BY <1>2
    <3>2. Len(src) \in 0..Len(src)
      BY <3>1
    <3>3. EndsAt(src, Len(src) + 1)
      BY DEF EndsAt
    <3> QED
      BY <1>2, <3>2, <3>3
  <2> QED
    BY <1>2, <1>3, <2>1, CloseUpTo
<1> QED
  BY <1>1, <1>2, <1>4 DEF ParsedRight

LEMMA ParsedKept == BundleTypes /\ ParsedRight /\ [BundleNext]_bundleVars => ParsedRight'
<1> SUFFICES ASSUME BundleTypes, ParsedRight, [BundleNext]_bundleVars PROVE ParsedRight'
  OBVIOUS
<1>1. CASE ReadLine
  BY <1>1, ReadRight
<1>2. CASE BeginBundle
  BY <1>2, BeginRight
<1>3. CASE UNCHANGED <<src, parsed, bundle>> /\ (bundleStage' = "parse" <=> bundleStage = "parse")
  BY <1>3 DEF ParsedRight
<1> QED
  BY <1>1, <1>2, <1>3 DEF BundleNext, bundleVars, WriteFile, EndOfState, SetTimes, AddToStore, Proceeds, Lock, SetTimesAgain

\* The parts that the mutator edits are those of the Nix files.
LEMMA NixPartsAre ==
  ASSUME NEW s \in Seq(Lines)
  PROVE  NixParts(s) = {<<p[1] + 1, p[2] - 1>> : p \in {q \in (DOMAIN s) \X (1..(Len(s) + 1)) :
                                                         Part(s, q[1], q[2]) /\ s[q[1]].path \in NixPaths}}
<1> DEFINE Directives == {i \in DOMAIN s : s[i].is # "text"}
           OfNix(i) == s[i].is = "file" /\ s[i].path \in NixPaths
           After_(i) == {j \in Directives : j > i} \cup {Len(s) + 1}
           End(i) == CHOOSE j \in After_(i) : \A k \in After_(i) : j <= k
           Pairs == {q \in (DOMAIN s) \X (1..(Len(s) + 1)) : Part(s, q[1], q[2]) /\ s[q[1]].path \in NixPaths}
<1>1. ASSUME NEW i \in DOMAIN s
      PROVE  End(i) \in After_(i) /\ \A k \in After_(i) : End(i) <= k
  <2>1. After_(i) \in SUBSET Nat /\ After_(i) # {}
    OBVIOUS
  <2>2. \E j \in After_(i) : \A k \in After_(i) : j <= k
    BY <2>1, LeastPlace
  <2> QED
    BY <2>2
<1> HIDE DEF End
<1>2. ASSUME NEW i \in DOMAIN s, OfNix(i)
      PROVE  <<i, End(i)>> \in Pairs
  <2>1. End(i) \in 1..(Len(s) + 1) /\ i < End(i) /\ EndsAt(s, End(i))
    <3>1. End(i) \in After_(i) /\ i \in 1..Len(s) /\ Len(s) \in Nat
      BY <1>1
    <3>2. CASE End(i) = Len(s) + 1
      <4>1. EndsAt(s, Len(s) + 1)
        BY DEF EndsAt
      <4>2. Len(s) + 1 \in 1..(Len(s) + 1) /\ i < Len(s) + 1
        BY <3>1
      <4> QED
        BY <3>2, <4>1, <4>2
    <3>3. CASE End(i) # Len(s) + 1
      <4>1. End(i) \in Directives /\ End(i) > i
        BY <3>1, <3>3
      <4> QED
        BY <3>1, <4>1 DEF EndsAt
    <3> QED
      BY <3>2, <3>3
  <2>2. \A l \in (i + 1)..(End(i) - 1) : s[l].is = "text"
    <3>1. SUFFICES ASSUME NEW l \in (i + 1)..(End(i) - 1), s[l].is # "text" PROVE FALSE
      OBVIOUS
    <3>2. l \in After_(i) /\ l < End(i) /\ l \in Nat /\ End(i) \in Nat
      BY <2>1, <3>1
    <3> QED
      BY <1>1, <3>2
  <2> QED
    BY <1>2, <2>1, <2>2 DEF Part
<1>3. ASSUME NEW q \in Pairs
      PROVE  q[1] \in Directives /\ OfNix(q[1]) /\ q[2] = End(q[1]) /\ q = <<q[1], q[2]>>
  <2>1. q[1] \in DOMAIN s /\ q[2] \in 1..(Len(s) + 1) /\ Part(s, q[1], q[2]) /\ s[q[1]].path \in NixPaths
        /\ q = <<q[1], q[2]>>
    OBVIOUS
  <2>2. q[1] \in Directives /\ OfNix(q[1])
    BY <2>1 DEF Part
  <2>3. q[2] \in After_(q[1])
    BY <2>1 DEF Part, EndsAt
  <2>4. End(q[1]) <= q[2]
    BY <1>1, <2>1, <2>3
  <2>5. ~(End(q[1]) < q[2])
    <3>1. SUFFICES ASSUME End(q[1]) < q[2] PROVE FALSE
      OBVIOUS
    <3>2. End(q[1]) \in After_(q[1])
      BY <1>1, <2>1
    <3>3. End(q[1]) \in Directives /\ End(q[1]) > q[1] /\ End(q[1]) \in (q[1] + 1)..(q[2] - 1)
      BY <2>1, <3>1, <3>2 DEF Part
    <3> QED
      BY <2>1, <3>3 DEF Part
  <2>6. End(q[1]) \in Nat
    BY <1>1, <2>1
  <2> QED
    BY <2>1, <2>2, <2>4, <2>5, <2>6
<1>4. NixParts(s) = {<<i + 1, End(i) - 1>> : i \in {d \in Directives : OfNix(d)}}
  BY DEF NixParts, PartEnd, End
<1> HIDE DEF Pairs, OfNix, Directives
<1>5. ASSUME NEW x \in NixParts(s) PROVE x \in {<<p[1] + 1, p[2] - 1>> : p \in Pairs}
  <2>1. PICK i \in Directives : OfNix(i) /\ x = <<i + 1, End(i) - 1>>
    BY <1>4
  <2>2. <<i, End(i)>> \in Pairs
    BY <1>2, <2>1 DEF Directives
  <2> QED
    BY <2>1, <2>2
<1>6. ASSUME NEW p \in Pairs PROVE <<p[1] + 1, p[2] - 1>> \in NixParts(s)
  BY <1>3, <1>4
<1> QED
  BY <1>5, <1>6 DEF Pairs

LEMMA PartsAreFiles == BundleTypes /\ ParsedRight => PartsAreContents
<1> SUFFICES ASSUME BundleTypes, ParsedRight, bundleStage # "parse", bundle.ok PROVE PartsAreContents
  BY DEF PartsAreContents
<1> DEFINE Pairs == {q \in (DOMAIN src) \X (1..(Len(src) + 1)) : Part(src, q[1], q[2]) /\ src[q[1]].path \in NixPaths}
           Between(part) == [i \in 1..(part[2] + 1 - part[1]) |-> src[part[1] + i - 1].text]
           OfNix(k) == {i \in DOMAIN Tree(k).files : Tree(k).files[i].path \in NixPaths}
           TreeContents == UNION {{Tree(k).files[i].contents : i \in OfNix(k)} : k \in DOMAIN bundle.trees}
<1>1. src \in Seq(Lines) /\ FilesUpTo(src, bundle.trees, Len(src) + 1)
  BY DEF BundleTypes, ParsedRight
<1>2. NixParts(src) = {<<p[1] + 1, p[2] - 1>> : p \in Pairs}
  BY <1>1, NixPartsAre
<1>3. ASSUME NEW p \in Pairs
      PROVE  /\ p[1] \in DOMAIN src /\ p[2] \in 1..(Len(src) + 1) /\ Part(src, p[1], p[2]) /\ src[p[1]].path \in NixPaths
             /\ Between(<<p[1] + 1, p[2] - 1>>) = TextOf(src, p[1], p[2] - 1)
  <2>1. p[1] \in DOMAIN src /\ p[2] \in 1..(Len(src) + 1) /\ Part(src, p[1], p[2]) /\ src[p[1]].path \in NixPaths
    OBVIOUS
  <2>2. (p[2] - 1) + 1 - (p[1] + 1) = (p[2] - 1) - p[1] /\ \A i \in Int : p[1] + 1 + i - 1 = p[1] + i
    BY <1>1, <2>1
  <2>3. ASSUME NEW a, NEW b
        PROVE  Between(<<a, b>>) = [i \in 1..(b + 1 - a) |-> src[a + i - 1].text]
    OBVIOUS
  <2>4. Between(<<p[1] + 1, p[2] - 1>>) = [i \in 1..((p[2] - 1) + 1 - (p[1] + 1)) |-> src[p[1] + 1 + i - 1].text]
    BY <2>3
  <2> HIDE DEF Between, Pairs
  <2>5. [i \in 1..((p[2] - 1) + 1 - (p[1] + 1)) |-> src[p[1] + 1 + i - 1].text]
          = [i \in 1..((p[2] - 1) - p[1]) |-> src[p[1] + i].text]
    BY <2>2
  <2> QED
    BY <2>1, <2>4, <2>5 DEF TextOf
<1> HIDE DEF Pairs, Between
<1>4. ASSUME NEW part \in NixParts(src), NEW i \in part[1]..part[2] PROVE i \in DOMAIN src /\ src[i].is = "text"
  <2>1. PICK p \in Pairs : part = <<p[1] + 1, p[2] - 1>>
    BY <1>2
  <2>2. i \in (p[1] + 1)..(p[2] - 1) /\ p[1] \in DOMAIN src /\ p[2] \in 1..(Len(src) + 1) /\ Part(src, p[1], p[2])
    BY <1>3, <2>1
  <2> QED
    BY <1>1, <2>2 DEF Part
<1>5. ASSUME NEW part \in NixParts(src) PROVE Between(part) \in TreeContents
  <2>1. PICK p \in Pairs : part = <<p[1] + 1, p[2] - 1>>
    BY <1>2
  <2>2. Between(part) = TextOf(src, p[1], p[2] - 1)
    BY <1>3, <2>1
  <2>3. p[1] \in 1..(Len(src) + 1) /\ p[2] \in 1..(Len(src) + 1) /\ Part(src, p[1], p[2])
    <3>1. p[1] \in DOMAIN src /\ p[2] \in 1..(Len(src) + 1) /\ Part(src, p[1], p[2])
      BY <1>3
    <3>2. DOMAIN src \subseteq 1..(Len(src) + 1)
      BY <1>1
    <3> QED
      BY <3>1, <3>2
  <2>4. PICK k \in DOMAIN bundle.trees : \E i \in DOMAIN bundle.trees[k].files : Holds(src, bundle.trees[k].files[i], p[1], p[2])
    BY <1>1, <2>3 DEF FilesUpTo
  <2>5. PICK i \in DOMAIN bundle.trees[k].files : Holds(src, bundle.trees[k].files[i], p[1], p[2])
    BY <2>4
  <2>6. i \in OfNix(k) /\ Tree(k).files[i].contents = TextOf(src, p[1], p[2] - 1)
    BY <1>3, <2>5 DEF Holds, Tree
  <2> QED
    BY <2>2, <2>6
<1>6. ASSUME NEW c \in TreeContents PROVE \E part \in NixParts(src) : c = Between(part)
  <2>1. PICK k \in DOMAIN bundle.trees : \E i \in OfNix(k) : c = Tree(k).files[i].contents
    OBVIOUS
  <2>2. PICK i \in OfNix(k) : c = Tree(k).files[i].contents
    BY <2>1
  <2>3. PICK d, j \in 1..(Len(src) + 1) : Part(src, d, j) /\ Holds(src, Tree(k).files[i], d, j)
    BY <1>1 DEF FilesUpTo, Tree
  <2>4. <<d, j>> \in Pairs
    BY <2>3 DEF Pairs, Part, Holds
  <2>5. <<d + 1, j - 1>> \in NixParts(src) /\ Between(<<d + 1, j - 1>>) = TextOf(src, d, j - 1)
    BY <1>2, <1>3, <2>4
  <2> QED
    BY <2>2, <2>3, <2>5 DEF Holds
<1>7. {Between(part) : part \in NixParts(src)} = TreeContents
  BY <1>5, <1>6
<1> QED
  BY <1>4, <1>7 DEF PartsAreContents, Between

-----------------------------------------------------------------------------
(* All of it.                                                              *)

BundleInvariant == BundleTypes /\ Stamped /\ Timeless /\ HashesKnown /\ Layers /\ ParsedRight

LEMMA BundleInvariantStarts == BundleInit => BundleInvariant
<1> SUFFICES ASSUME BundleInit PROVE BundleInvariant
  OBVIOUS
<1>1. BundleTypes /\ Stamped
  BY BundleStarts
<1>2. bundleStage = "parse" /\ ~Begun
  BY DEF BundleInit, Begun
<1>3. ParsedRight
  BY <1>2 DEF BundleInit, NothingYet, ParsedRight, FilesUpTo, OpenIs
<1> QED
  BY <1>1, <1>2, <1>3 DEF BundleInvariant, Timeless, HashesKnown, Layers

LEMMA BundleInvariantKept == BundleInvariant /\ [BundleNext]_bundleVars => BundleInvariant'
<1> SUFFICES ASSUME BundleInvariant, [BundleNext]_bundleVars PROVE BundleInvariant'
  OBVIOUS
<1>1. BundleTypes' /\ Stamped'
  <2>1. BundleTypes /\ Stamped
    BY DEF BundleInvariant
  <2>2. CASE UNCHANGED bundleVars
    BY <2>1, <2>2 DEF bundleVars, BundleTypes, Stamped, Begun, PerTree, HasPlace
  <2> QED
    BY <2>1, <2>2, ReadLineTypes, BeginTypes, WriteFileTypes, EndOfStateTypes, SetTimesTypes, AddToStoreTypes, LockTypes,
       SetTimesAgainTypes DEF BundleNext
<1> QED
  BY <1>1, TimesKept, HashesKept, LayersKept, ParsedKept DEF BundleInvariant

\* The flakes that are built for an input are those that its text describes: its
\* Nix files are the parts that the mutator edits, its trees hold the files by
\* their states, and neither evaluator sees when they were written.
THEOREM BundlesAreDescribed == BundleSpec => []FuzzBundleInv
<1>1. BundleInvariant => FuzzBundleInv
  <2> SUFFICES ASSUME BundleInvariant PROVE FuzzBundleInv
    OBVIOUS
  <2>1. BundleTypeOK
    BY DEF BundleInvariant, BundleTypes, Stamped, BundleTypeOK, Stages, FileStates, LockFile
  <2>2. SeesNoTime
    BY DEF BundleInvariant, Timeless, SeesNoTime, Begun
  <2> QED
    BY <2>1, <2>2, LayersDeclare, PartsAreFiles DEF BundleInvariant, FuzzBundleInv
<1> QED
  BY <1>1, BundleInvariantStarts, BundleInvariantKept, PTL DEF BundleSpec
=============================================================================
