------------------------------ MODULE TempoState ------------------------------
(***************************************************************************)
(* The pure part of Tempo, the optimisation runner under swamp/: the state *)
(* of a run and its transitions (state.ts), the limits and the assessment  *)
(* of measurements (control.ts).  The modules TempoRun and TempoCampaign   *)
(* use these operators exactly where the program calls the functions.      *)
(*                                                                         *)
(* A score is a request rate, kept as a number because the rules compare   *)
(* it with percentages; revisions are numbered in the order in which the   *)
(* commits are made; elapsed time is counted in coarse units.              *)
(***************************************************************************)
EXTENDS Integers, FiniteSets

CONSTANTS
    MaxAttempts,     \* limits.maxAttempts
    MaxRepairs,      \* limits.maxRepairsPerAttempt
    MaxPiCalls,      \* limits.maxPiCalls
    MaxDuration,     \* limits.maxDurationMs
    BeatAll,         \* TRUE: the goal is beat-all, FALSE: improve-baseline
    GoalPercent,     \* the multiplier of improve-baseline, in percent
    FloorPercent,    \* policy.minimumImprovementFraction, in percent
    ProtectPercent   \* 100 - maxDecreaseFraction of the protected workload

\* The bounds that checkLimits and the configuration schema impose.
ASSUME LimitsAssumption ==
    /\ MaxAttempts \in Nat \ {0}
    /\ MaxRepairs \in Nat
    /\ MaxPiCalls \in Nat \ {0}
    /\ MaxDuration \in Nat \ {0}
ASSUME PolicyAssumption ==
    /\ BeatAll \in BOOLEAN
    /\ GoalPercent \in Nat /\ GoalPercent > 100
    /\ FloorPercent \in 3 .. 5
    /\ ProtectPercent \in 1 .. 100

None == [none |-> TRUE]

CommandPhases == {"prepare", "baseline", "start-attempt", "profile", "test",
                  "measure"}
inferencePhases == {"analyze", "research", "implement", "repair", "review"}
UnlimitedPhases == {"keep", "discard", "finish"}
WorkPhases == CommandPhases \cup inferencePhases \cup UnlimitedPhases
Phases == WorkPhases \cup {"done"}
StopReasons == {"none", "limit", "error", "analysis", "target-met",
                "measurement-inconclusive", "invalid-measurement"}

\* RunState.  activeStep is 0 where the program has null.
RunStates(Rev) ==
    [phase: Phases, initialRevision: Rev, bestRevision: Rev,
     workingRevision: Rev, attemptsStarted: Nat, repairsThisAttempt: Nat,
     piCallsStarted: Nat, elapsed: Nat, sequence: Nat, activeStep: Nat,
     targetMet: BOOLEAN, stopReason: StopReasons]

newRun(rev) ==
    [phase |-> "prepare", initialRevision |-> rev, bestRevision |-> rev,
     workingRevision |-> rev, attemptsStarted |-> 0, repairsThisAttempt |-> 0,
     piCallsStarted |-> 0, elapsed |-> 0, sequence |-> 0, activeStep |-> 0,
     targetMet |-> FALSE, stopReason |-> "none"]

-------------------------------------------------------------------------------
(* Limits.                                                                 *)

\* The reasons to wrap up instead of starting the phase of s at time t.
checkLimits(s, t) ==
    IF s.phase \in UnlimitedPhases THEN {}
    ELSE {r \in {"duration", "attempts", "repairs", "pi-calls"} :
            \/ r = "duration" /\ t >= MaxDuration
            \/ /\ r = "attempts" /\ s.phase = "start-attempt"
               /\ s.attemptsStarted >= MaxAttempts
            \/ /\ r = "repairs" /\ s.phase = "repair"
               /\ s.repairsThisAttempt >= MaxRepairs
            \/ /\ r = "pi-calls"
               /\ s.phase \in inferencePhases \cup {"start-attempt"}
               /\ s.piCallsStarted >= MaxPiCalls}

\* The first half of beginStep: a limit turns the run towards its end, or,
\* when only the repairs of this attempt are used up, drops the attempt.
WrapUp(s, t) ==
    IF checkLimits(s, t) = {"repairs"}
    THEN [s EXCEPT !.elapsed = t, !.phase = "discard"]
    ELSE [s EXCEPT !.elapsed = t, !.phase = "finish", !.stopReason = "limit"]

\* The other half: the step is reserved, with everything it will consume.
Reserve(s, t) ==
    LET counts(flag) == IF flag THEN 1 ELSE 0 IN
    [s EXCEPT
       !.elapsed = t,
       !.sequence = @ + 1,
       !.activeStep = s.sequence + 1,
       !.attemptsStarted = @ + counts(s.phase = "start-attempt"),
       !.repairsThisAttempt = IF s.phase = "start-attempt" THEN 0
                              ELSE @ + counts(s.phase = "repair"),
       !.piCallsStarted = @ + counts(s.phase \in inferencePhases)]

\* Mutant: a step takes some time.
MayBeginLater(s, t) == s.phase # "done" /\ s.activeStep = 0 /\ t > s.elapsed

\* beginStep throws when this does not hold.
MayBegin(s, t) == s.phase # "done" /\ s.activeStep = 0 /\ t >= s.elapsed

beginStep(s, t) == IF checkLimits(s, t) # {} THEN WrapUp(s, t)
                   ELSE Reserve(s, t)

\* What runSavedStep reserves: a step that was only turned is begun again.
beginSavedStep(s, t) ==
    LET first == beginStep(s, t)
    IN  IF first.activeStep = 0 THEN beginStep(first, t) ELSE first

-------------------------------------------------------------------------------
(* Outcomes and the completion of a step.                                  *)

Error == [kind |-> "error"]

Outcomes(Rev) ==
    {Error}
    \cup [kind: {"prepared", "attempt-started", "profile", "research",
                 "finished"}]
    \cup [kind: {"analysis"}, action: {"change", "research", "profile", "stop"}]
    \cup [kind: {"edited", "kept", "discarded"}, revision: Rev]
    \cup [kind: {"tests", "review"}, revision: Rev, passed: BOOLEAN]
    \cup [kind: {"measurement"}, revision: Rev, valid: BOOLEAN,
          inconclusive: BOOLEAN, targetMet: BOOLEAN, improved: BOOLEAN]

KindOf(phase) ==
    CASE phase = "prepare" -> "prepared"
      [] phase \in {"baseline", "measure"} -> "measurement"
      [] phase = "start-attempt" -> "attempt-started"
      [] phase = "profile" -> "profile"
      [] phase = "analyze" -> "analysis"
      [] phase = "research" -> "research"
      [] phase \in {"implement", "repair"} -> "edited"
      [] phase = "test" -> "tests"
      [] phase = "review" -> "review"
      [] phase = "keep" -> "kept"
      [] phase = "discard" -> "discarded"
      [] phase = "finish" -> "finished"

\* finishStep throws when this does not hold: the step is the active one,
\* the kind belongs to the phase and the revision is the one at work.
MayFinish(s, step, o) ==
    /\ s.activeStep = step /\ step = s.sequence
    /\ \/ o = Error
       \/ /\ s.phase \in WorkPhases
          /\ o.kind = KindOf(s.phase)
          /\ s.phase \in {"baseline", "measure", "test", "review", "keep"}
               => o.revision = s.workingRevision
          /\ s.phase = "discard" => o.revision = s.bestRevision

\* Mutant: a measurement that is not inconclusive goes to review.
MeasurementReviewed(s, o) ==
    IF s.phase = "baseline" /\ ~o.valid
    THEN [s EXCEPT !.phase = "finish", !.stopReason = "invalid-measurement"]
    ELSE [s EXCEPT !.targetMet = o.targetMet,
                   !.phase = CASE s.phase = "baseline" -> "start-attempt"
                               [] s.phase = "measure" /\ ~o.inconclusive -> "review"
                               [] OTHER -> "discard"]

\* Mutant: a measurement that meets the goal needs no review.
MeasurementKept(s, o) ==
    IF s.phase = "baseline" /\ ~o.valid
    THEN [s EXCEPT !.phase = "finish", !.stopReason = "invalid-measurement"]
    ELSE [s EXCEPT !.targetMet = o.targetMet,
                   !.phase = CASE s.phase = "baseline" -> "start-attempt"
                               [] s.phase = "measure" /\ o.targetMet -> "keep"
                               [] s.phase = "measure" /\ ~o.targetMet /\ o.improved
                                    -> "review"
                               [] OTHER -> "discard"]

MeasurementDone(s, o) ==
    IF ~o.valid
    THEN IF s.phase = "measure" /\ o.inconclusive
         THEN [s EXCEPT !.phase = "discard", !.targetMet = FALSE]
         ELSE [s EXCEPT !.phase = "finish", !.targetMet = FALSE,
                        !.stopReason = IF o.inconclusive
                                       THEN "measurement-inconclusive"
                                       ELSE "invalid-measurement"]
    ELSE IF s.phase = "baseline"
         THEN [s EXCEPT
                 !.targetMet = o.targetMet,
                 !.phase = IF o.targetMet THEN "finish" ELSE "start-attempt",
                 !.stopReason = IF o.targetMet THEN "target-met" ELSE "none"]
         ELSE [s EXCEPT
                 !.targetMet = o.targetMet,
                 !.phase = IF o.improved \/ o.targetMet THEN "review"
                           ELSE "discard"]

AnalysisDone(s, o) ==
    IF o.action = "stop"
    THEN [s EXCEPT !.phase = "finish", !.stopReason = "analysis"]
    ELSE [s EXCEPT !.phase = IF o.action = "change" THEN "implement"
                             ELSE o.action]

finishStep(active, o) ==
    LET s == [active EXCEPT !.activeStep = 0] IN
    CASE o = Error -> [s EXCEPT !.phase = "finish", !.stopReason = "error",
                                !.targetMet = FALSE]
      [] o # Error /\ s.phase = "prepare" -> [s EXCEPT !.phase = "baseline"]
      [] o # Error /\ s.phase \in {"baseline", "measure"} ->
            MeasurementDone(s, o)
      [] o # Error /\ s.phase = "start-attempt" ->
            [s EXCEPT !.phase = "profile", !.targetMet = FALSE]
      [] o # Error /\ s.phase \in {"profile", "research"} ->
            [s EXCEPT !.phase = "analyze"]
      [] o # Error /\ s.phase = "analyze" -> AnalysisDone(s, o)
      [] o # Error /\ s.phase \in {"implement", "repair"} ->
            [s EXCEPT !.phase = "test", !.workingRevision = o.revision,
                      !.targetMet = FALSE]
      [] o # Error /\ s.phase = "test" ->
            [s EXCEPT !.phase = IF o.passed THEN "measure" ELSE "repair"]
      [] o # Error /\ s.phase = "review" ->
            [s EXCEPT !.phase = IF o.passed THEN "keep" ELSE "repair"]
      [] o # Error /\ s.phase = "keep" ->
            [s EXCEPT
               !.bestRevision = o.revision,
               !.phase = IF s.targetMet THEN "finish" ELSE "start-attempt",
               !.stopReason = IF s.targetMet THEN "target-met" ELSE "none"]
      [] o # Error /\ s.phase = "discard" ->
            [s EXCEPT !.phase = "start-attempt", !.targetMet = FALSE,
                      !.workingRevision = o.revision]
      [] o # Error /\ s.phase = "finish" ->
            [s EXCEPT !.phase = "done",
                      !.targetMet = (s.stopReason = "target-met")]

-------------------------------------------------------------------------------
(* Measurements and their assessment.  A measurement has the rate of the   *)
(* optimised workload (h1), the rate of the protected one (h2) and, in a   *)
(* baseline, the best rate of the competitors.                             *)

\* assessGoal(initial, current).targetMet
assessGoal(initial, current) ==
    IF BeatAll THEN current.h1 > initial.rival
    ELSE 100 * current.h1 >= GoalPercent * initial.h1

protectedPerformance(initial, current) ==
    100 * current.h2 >= ProtectPercent * initial.h2

meetsFloor(best, current) ==
    100 * current.h1 > (100 + FloorPercent) * best.h1

\* Mutant: the goal is met whatever becomes of the protected workload.
assessGoalOnly(initial, best, current) ==
    [improved |-> /\ protectedPerformance(initial, current)
                  /\ meetsFloor(best, current),
     targetMet |-> assessGoal(initial, current)]

assessCandidate(initial, best, current) ==
    LET improved == /\ protectedPerformance(initial, current)
                    /\ meetsFloor(best, current)
    IN  [improved |-> improved,
         targetMet |-> assessGoal(initial, current) /\ improved]
===============================================================================
