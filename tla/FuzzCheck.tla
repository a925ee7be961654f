------------------------------ MODULE FuzzCheck ------------------------------
(***************************************************************************)
(* One check of ogygia-nix-eval-fuzz (check.rs, skip.rs, flake.rs): the    *)
(* evaluator and Nix on one input, step by step, with what Nix may use     *)
(* bounded while fuzzing and not when a finding is rechecked.  Several     *)
(* checks run on the threads of one process, and a panic of the evaluator  *)
(* is found by a hook that they share.                                     *)
(***************************************************************************)
EXTENDS Naturals, FiniteSets

CONSTANTS Checkers, \* threads that check an input
          Subjects, \* the inputs, by what the two sides make of them
          NoOne

VARIABLES
  subject,  \* per thread: the input
  budget,   \* Budget
  checkAt,       \* how far its check is
  theirs,   \* what Nix did in this step
  ours,     \* what the evaluator did in this step
  outcome,  \* Outcome
  found,    \* the input diverged while fuzzing
  catching, \* CATCHING: who holds it
  slot      \* PANIC: whose evaluation panicked; NoOne outside catch_ours

checkVars == <<subject, budget, checkAt, theirs, ours, outcome, found, catching, slot>>

\* What an evaluator makes of an input: it cannot parse it, or it evaluates to a
\* value, or fails such that tryEval catches the failure or does not.
Meanings == {"unparsed", "a", "b", "caught", "uncaught"}

\* The evaluator may also panic, in either step, or reach a feature that is
\* disabled or left out, or fail as it forbids "/", which Nix may not.
Ours == Meanings \cup {"parsePanic", "panic", "disabled", "unimplemented", "root"}

\* How Nix fares: it never finishes; or only with more memory than a new input
\* gets; or hits libstdc++'s limit; or adds to its store; or misreads a platform.
Quirks == {"none", "exhausts", "heavy", "regexLimit", "stores", "misreads"}

AllSubjects ==
  {s \in [form : {"text", "bundle"}, bad : BOOLEAN, nix : Meanings, ours : Ours, quirk : Quirks] :
    /\ s.form = "bundle" => s.nix # "unparsed" /\ s.ours \notin {"unparsed", "parsePanic"}
    /\ s.quirk = "misreads" => s.nix = "uncaught"}

ASSUME SubjectsAssumption == Subjects \subseteq AllSubjects
ASSUME NoOneAssumption == NoOne \notin Checkers

\* What a step shows, of either side: it succeeds, or has a value, or fails.
Results == {"none", "ok", "a", "b", "error"}

FuzzCheckTypeOK ==
  /\ subject \in [Checkers -> Subjects]
  /\ budget \in [Checkers -> {"fuzzing", "unlimited"}]
  /\ checkAt \in [Checkers -> {"start", "parse", "nix", "ours", "running", "compare", "done"} \X {"parse", "eval", "catch"}]
  /\ theirs \in [Checkers -> Results]
  /\ ours \in [Checkers -> Results \cup {"panicking", "empty", NoOne} \cup Checkers]
  /\ outcome \in [Checkers -> {"none", "parse-rejected", "skipped", "deliberate", "value", "caught", "uncaught", "diverged"}]
  /\ found \in [Checkers -> BOOLEAN]
  /\ catching \in Checkers \cup {NoOne}
  /\ slot \in Checkers \cup {NoOne, "empty"}

FuzzCheckInit ==
  /\ subject \in [Checkers -> Subjects]
  /\ budget = [c \in Checkers |-> "fuzzing"]
  /\ checkAt = [c \in Checkers |-> <<"start", "parse">>]
  /\ theirs = [c \in Checkers |-> "none"] /\ ours = [c \in Checkers |-> "none"]
  /\ outcome = [c \in Checkers |-> "none"] /\ found = [c \in Checkers |-> FALSE]
  /\ catching = NoOne /\ slot = NoOne

StepOf(c) == checkAt[c][2]
Goes(c, where) == checkAt' = [checkAt EXCEPT ![c] = where]

\* What a step shows of a meaning.
Shows(meaning, step) ==
  CASE step = "parse" -> IF meaning = "unparsed" THEN "error" ELSE "ok"
    [] step = "eval" -> IF meaning \in {"a", "b"} THEN meaning ELSE "error"
    [] step = "catch" -> IF meaning = "caught" THEN "ok" ELSE "error"

Ends(c, result) ==
  /\ Goes(c, <<"done", StepOf(c)>>)
  /\ outcome' = [outcome EXCEPT ![c] = result]

\* A bundle is not parsed on its own, and Nix runs first.
FirstStep(s) == IF s.form = "bundle" THEN <<"nix", "eval">> ELSE <<"ours", "parse">>

\* NUL bytes, and bundles that are not well formed or whose trees cannot be
\* written, are no business of either evaluator.
Begin(c) ==
  /\ checkAt[c][1] = "start"
  /\ IF subject[c].bad THEN Ends(c, "deliberate")
     ELSE /\ Goes(c, FirstStep(subject[c]))
          /\ UNCHANGED outcome
  /\ UNCHANGED <<subject, budget, theirs, ours, found, catching, slot>>

(***************************************************************************)
(* Nix runs in a process of its own.  While fuzzing it is killed after ten *)
(* seconds, which a busy machine makes of less, and gets 1 GiB; and the    *)
(* kernel may kill it, whatever its budget is.                             *)
(***************************************************************************)
Exhausted(s, limit) == s.quirk = "exhausts" \/ (s.quirk = "heavy" /\ limit = "fuzzing")

\* (mutant: a Nix that ran out of memory is said to have failed)
ComparesExhausted(s, limit) == {"skipped", IF s.quirk = "regexLimit" THEN "deliberate" ELSE "ran"}

\* How a run of Nix that is not parsing can end.
RunEnds(s, limit) ==
  IF Exhausted(s, limit) THEN {"skipped"}
  ELSE {"skipped", IF s.quirk = "regexLimit" THEN "deliberate" ELSE "ran"}

Nix(c) ==
  /\ checkAt[c][1] = "nix"
  /\ LET s == subject[c] IN
       \E ends \in IF StepOf(c) = "parse" THEN {"skipped", "ran"} ELSE RunEnds(s, budget[c]) :
         IF ends = "ran"
           THEN /\ theirs' = [theirs EXCEPT ![c] = IF Exhausted(s, budget[c]) /\ StepOf(c) # "parse" THEN "error" ELSE Shows(s.nix, StepOf(c))]
                /\ Goes(c, <<IF StepOf(c) = "parse" THEN "compare" ELSE "ours", StepOf(c)>>)
                /\ UNCHANGED outcome
           ELSE Ends(c, ends) /\ UNCHANGED theirs
  /\ UNCHANGED <<subject, budget, ours, found, catching, slot>>

(***************************************************************************)
(* The evaluator runs on a thread that only its caller waits for, and the  *)
(* hook notes the first panic of any such thread.                          *)
(***************************************************************************)
Panics(c) == subject[c].ours = IF StepOf(c) = "parse" THEN "parsePanic" ELSE "panic"

\* (mutant: the callers do not wait for one another)
NoLock(c) == TRUE

Locks(c) == catching = NoOne

CatchOurs(c) ==
  /\ checkAt[c][1] = "ours" /\ Locks(c)
  /\ catching' = c /\ slot' = "empty"
  /\ Goes(c, <<"running", StepOf(c)>>)
  /\ UNCHANGED <<subject, budget, theirs, ours, outcome, found>>

\* The hook: outside catch_ours the panic is not noted.
Hook(c) ==
  /\ checkAt[c][1] = "running" /\ Panics(c) /\ ours[c] # "panicking"
  /\ slot' = IF slot = "empty" THEN c ELSE slot
  /\ ours' = [ours EXCEPT ![c] = "panicking"]
  /\ UNCHANGED <<subject, budget, checkAt, theirs, outcome, found, catching>>

\* What the evaluation returns, or the message of the panic.
Returns(c) ==
  /\ checkAt[c][1] = "running" /\ (Panics(c) => ours[c] = "panicking")
  /\ slot' = NoOne /\ catching' = NoOne
  /\ IF Panics(c) THEN Ends(c, "diverged") /\ ours' = [ours EXCEPT ![c] = slot]
     ELSE IF StepOf(c) # "parse" /\ subject[c].ours \in {"disabled", "unimplemented"}
            THEN Ends(c, "deliberate") /\ UNCHANGED ours
     ELSE /\ ours' = [ours EXCEPT ![c] = Shows(subject[c].ours, StepOf(c))]
          /\ Goes(c, <<IF StepOf(c) = "parse" THEN "nix" ELSE "compare", StepOf(c)>>)
          /\ UNCHANGED outcome
  /\ UNCHANGED <<subject, budget, theirs, found>>

(***************************************************************************)
(* The comparison.                                                         *)
(***************************************************************************)
\* (mutant: not where the evaluator fails too)
MisreadValue(c) == theirs[c] = "error" /\ subject[c].quirk = "misreads" /\ StepOf(c) = "eval"

\* Nix could not read back a .drv file whose platform it did not escape.
MisreadPlatform(c) == theirs[c] = "error" /\ subject[c].quirk = "misreads"

\* The evaluator forbids "/", which Nix shows once its store holds a path; a
\* bundle's trees can be in the store before.
HiddenRoot(c) ==
  theirs[c] # "error" /\ subject[c].ours = "root" /\ ours[c] = "error" /\ subject[c].quirk = "stores"

\* (mutant: a failure is not told from another)
AgreeIfBothEnd(c) == theirs[c] = ours[c] \/ StepOf(c) = "catch"

Agree(c) == theirs[c] = ours[c]

\* The differences that are kept on purpose.
Deliberate(c) == MisreadPlatform(c) \/ HiddenRoot(c)

Disagreed(c) == IF StepOf(c) # "parse" /\ Deliberate(c) THEN "deliberate" ELSE "diverged"

Compare(c) ==
  /\ checkAt[c][1] = "compare"
  /\ IF ~Agree(c) THEN Ends(c, Disagreed(c))
     ELSE IF StepOf(c) = "parse" /\ ours[c] = "error" THEN Ends(c, "parse-rejected")
     ELSE IF StepOf(c) = "eval" /\ ours[c] # "error" THEN Ends(c, "value")
     ELSE IF StepOf(c) = "catch" THEN Ends(c, IF ours[c] = "ok" THEN "caught" ELSE "uncaught")
     ELSE Goes(c, <<"nix", IF StepOf(c) = "parse" THEN "eval" ELSE "catch">>) /\ UNCHANGED outcome
  /\ UNCHANGED <<subject, budget, theirs, ours, found, catching, slot>>

\* A finding is checked again, with no limit on Nix, in a process of its own.
CheckInChild(c) ==
  /\ checkAt[c][1] = "done" /\ budget[c] = "fuzzing" /\ outcome[c] = "diverged"
  /\ budget' = [budget EXCEPT ![c] = "unlimited"] /\ found' = [found EXCEPT ![c] = TRUE]
  /\ Goes(c, <<"start", "parse">>)
  /\ theirs' = [theirs EXCEPT ![c] = "none"] /\ ours' = [ours EXCEPT ![c] = "none"]
  /\ outcome' = [outcome EXCEPT ![c] = "none"]
  /\ UNCHANGED <<subject, catching, slot>>

FuzzCheckNext ==
  \E c \in Checkers :
    Begin(c) \/ Nix(c) \/ CatchOurs(c) \/ Hook(c) \/ Returns(c) \/ Compare(c) \/ CheckInChild(c)

FuzzCheckSpec == FuzzCheckInit /\ [][FuzzCheckNext]_checkVars

(***************************************************************************)
(* Properties                                                              *)
(***************************************************************************)
\* The two sides differ on an input, as a finding is to say: the evaluator
\* panics, or it means another thing to them, and not on purpose.
Finding(s) ==
  \/ s.ours \in {"parsePanic", "panic"}
  \/ (s.nix = "unparsed") # (s.ours = "unparsed")
  \/ /\ s.ours \in Meanings \cup {"root"} /\ s.nix # IF s.ours = "root" THEN "uncaught" ELSE s.ours
     /\ s.quirk # "misreads" /\ ~(s.ours = "root" /\ s.quirk = "stores")

\* What diverged is a finding: no limit that Nix ran into, and nothing that is
\* kept on purpose, is taken for one (check_with, check_bundle, Skip::find).
FindingsAreReal ==
  \A c \in Checkers : outcome[c] = "diverged" => ~subject[c].bad /\ Finding(subject[c])

\* An input on which the two are said to agree is no finding.
NothingIsMissed ==
  \A c \in Checkers : outcome[c] \in {"parse-rejected", "value", "caught", "uncaught"} => ~Finding(subject[c])

\* What diverged within the limits of fuzzing diverges again without them, or
\* cannot be told: a recheck does not remove it (Budget::Unlimited).
FoundAgain == \A c \in Checkers : found[c] => outcome[c] \in {"none", "diverged", "skipped"}

\* The panic in a report is of the evaluation the report is about, however the
\* checks of a process interleave (catch_ours).
PanicsBelong ==
  \A c \in Checkers : outcome[c] = "diverged" /\ Panics(c) => ours[c] = c

\* A check reports what differs and nothing else, and reports it again, with
\* other checks and their panics beside it.
FuzzCheckInv ==
    /\ FuzzCheckTypeOK /\ FindingsAreReal /\ NothingIsMissed
    /\ FoundAgain /\ PanicsBelong
=============================================================================
