---------------------------- MODULE TempoProofs ------------------------------
(***************************************************************************)
(* Proofs about the run controller of TempoRun, one step with its          *)
(* processes (TempoStep) and a campaign of runs (TempoCampaign), for every *)
(* limit on the attempts, repairs, calls and time of a run, every goal and *)
(* every rate that a measurement can have.                                 *)
(*                                                                         *)
(* For a run there is an inductive invariant, IInv.  TypeInv types the     *)
(* state.  StepInv says when a step is active and that what is saved of it *)
(* completes it.  SequenceInv orders the saved results by the numbers of   *)
(* their steps.  GateInv says what results a candidate has behind it in    *)
(* each phase of its way to being kept.  GitInv relates the worktree to    *)
(* the saved state across the window in which an effect has happened and   *)
(* the state does not know of it yet.  UnitsInv says that what outlives a  *)
(* command leads to the finish step, and that the finish step knows of it. *)
(* What a report says needs more, the conjunction HonestInv: what failed   *)
(* and why the run stops, the best ref in the window between an effect and *)
(* the state that knows of it, and the measurement behind a target that    *)
(* was met, from the step that made it to the end.                         *)
(*                                                                         *)
(* The proof that a step preserves a part has a case for each kind of      *)
(* step, resting on the lemmas that say what a step of this kind does.     *)
(***************************************************************************)
EXTENDS TempoCampaign, TempoStep, FiniteSetTheorems, SequenceTheorems,
        WellFoundedInduction, TLAPS

Working == pc \in {"performing", "performed", "saved"}

GitStates == [worktree: {"absent", "created", "saved"}, head: Nat,
              dirty: BOOLEAN, best: Nat, saved: SUBSET Revisions,
              next: Revisions]

TypeInv == TypeOK /\ (git.worktree = "saved" => git.head \in Revisions)

\* A step is reserved from before it is performed until the state advances,
\* and what is saved of it completes it.
StepInv ==
  /\ Working => Active
  /\ pc = "loop" => ~Active
  /\ Active => state.phase \in WorkPhases
  /\ pc = "performed" => effect # None
  /\ pc = "saved" =>
       StepSaved /\ MayFinish(state, state.sequence, results[state.phase].outcome)

\* Steps are numbered: every saved result is of an earlier step than the active
\* one, but for its own, and no effect is of a later one.
SequenceInv ==
  /\ performed <= state.sequence
  /\ pc = "performing" => performed < state.sequence
  /\ \A p \in WorkPhases : results[p] # None =>
        /\ results[p].step <= state.sequence
        /\ (Active /\ p # state.phase) => results[p].step < state.sequence
        /\ pc \in {"performing", "performed"} => results[p].step < state.sequence

\* A measurement that meets the goal is an improvement.
Truthful(o) == o.kind = "measurement" => (o.targetMet => o.improved)

TestedNow ==
  LET r == results["test"] IN
  /\ r # None /\ r.outcome.kind = "tests"
  /\ r.outcome.passed /\ r.outcome.revision = state.workingRevision
  /\ \A p \in {"implement", "repair"} : results[p] # None => results[p].step < r.step

MeasuredNow ==
  LET r == results["measure"] IN
  /\ r # None /\ r.outcome.kind = "measurement"
  /\ r.outcome.valid /\ r.outcome.improved
  /\ r.outcome.revision = state.workingRevision
  /\ results["test"].step < r.step

ReviewedNow ==
  LET r == results["review"] IN
  /\ r # None /\ r.outcome.kind = "review"
  /\ r.outcome.passed /\ r.outcome.revision = state.workingRevision
  /\ results["measure"].step < r.step

\* What a candidate has behind it in each phase.
GateInv ==
  /\ effect # None => Truthful(effect.outcome)
  /\ \A p \in WorkPhases : results[p] # None => Truthful(results[p].outcome)
  /\ state.phase \in {"measure", "review", "keep"} => TestedNow
  /\ state.phase \in {"review", "keep"} => MeasuredNow
  /\ state.phase = "keep" => ReviewedNow

\* The worktree g is where the state s wants it.
Lands(g, s) ==
  s.phase \notin {"prepare", "finish", "done"} =>
    /\ g.worktree = "saved" /\ g.head = s.workingRevision
    /\ s.workingRevision \in g.saved
    /\ g.dirty => s.phase = "test"

\* No revision that the run may go back to is lost.
Refs(g, s) ==
  /\ g.worktree = "saved" => s.bestRevision \in g.saved /\ s.workingRevision \in g.saved
  /\ g.worktree # "saved" => s.bestRevision = s.workingRevision

\* The worktree follows the state, or will when the active step is completed.
GitInv ==
  /\ ~Active \/ pc = "performing" => Lands(git, state)
  /\ (pc = "performed" /\ MayFinish(state, state.sequence, effect.outcome))
       => Lands(git, finishStep(state, effect.outcome))
  /\ (Active /\ StepSaved) => Lands(git, finishStep(state, results[state.phase].outcome))
  /\ Refs(git, state)
  /\ state.phase = "prepare" => state.bestRevision = state.workingRevision
  /\ ((~Active \/ pc = "performing") /\ state.phase = "prepare") => ~git.dirty

\* Nothing is left to clean up.
Clean(g, u) ==
  /\ g.worktree = "saved" => g.head = state.bestRevision /\ ~g.dirty
  /\ u \subseteq {<<"repeat", 0>>}

Known == ScopesStopped \cup {<<"repeat", 0>>}
Ending == state.phase \in {"finish", "done"}

\* What outlives a command is known to the finish step, which comes next.
UnitsInv ==
  /\ ((~Active \/ pc = "performing") /\ ~Ending) => units = {}
  /\ ((~Active \/ pc = "performing") /\ state.phase = "finish") => units \subseteq Known
  /\ (pc = "performed" /\ state.phase # "finish") =>
        /\ units \subseteq UnitsOf(state)
        /\ <<"repl", 0>> \in units => git.worktree = "saved"
        /\ (units # {} /\ MayFinish(state, state.sequence, effect.outcome))
             => finishStep(state, effect.outcome).phase = "finish"
  /\ (pc = "performed" /\ state.phase = "finish") =>
        /\ units \subseteq Known
        /\ effect.outcome # Error => Clean(git, units)
  /\ (Active /\ StepSaved) =>
        /\ units \subseteq Known
        /\ state.phase # "finish" =>
             (units # {} => finishStep(state, results[state.phase].outcome).phase = "finish")
        /\ (state.phase = "finish" /\ results["finish"].outcome # Error)
             => Clean(git, units)
  /\ state.phase = "done" => Clean(git, units)

IInv == TypeInv /\ StepInv /\ SequenceInv /\ GateInv /\ GitInv /\ UnitsInv

-------------------------------------------------------------------------------
(* What the operators of TempoState do to a run.                           *)

\* The fields an outcome has, by its kind.
LEMMA OutcomeShape ==
  ASSUME NEW o \in Outcomes(Revisions)
  PROVE  /\ o.kind \in {"edited", "kept", "discarded", "tests", "review", "measurement"}
              => o.revision \in Revisions
         /\ o.kind \in {"tests", "review"} => o.passed \in BOOLEAN
         /\ o.kind = "measurement" =>
              /\ o.valid \in BOOLEAN /\ o.inconclusive \in BOOLEAN
              /\ o.targetMet \in BOOLEAN /\ o.improved \in BOOLEAN
         /\ o.kind = "analysis" => o.action \in {"change", "research", "profile", "stop"}
         /\ o.kind = "error" => o = Error
  BY DEF Outcomes, Error

\* A limit sends a run to its last phases, which have none.
LEMMA WrapUpFacts ==
  ASSUME NEW s \in RunStates(Revisions), NEW t \in Nat, checkLimits(s, t) # {}
  PROVE  LET w == WrapUp(s, t) IN
         /\ w \in RunStates(Revisions)
         /\ w.phase \in {"finish", "discard"}
         /\ w.phase = "discard" => s.phase = "repair"
         /\ w.sequence = s.sequence
         /\ w.activeStep = s.activeStep
         /\ w.workingRevision = s.workingRevision
         /\ w.bestRevision = s.bestRevision
<1>1. CASE checkLimits(s, t) = {"repairs"}
  <2>1. "repairs" \in checkLimits(s, t)
    BY <1>1
  <2>2. s.phase = "repair"
    BY <2>1 DEF checkLimits
  <2> QED
    BY <1>1, <2>2 DEF WrapUp, RunStates, Phases, WorkPhases, UnlimitedPhases
<1>2. CASE checkLimits(s, t) # {"repairs"}
  BY <1>2 DEF WrapUp, RunStates, Phases, WorkPhases, UnlimitedPhases, StopReasons
<1> QED
  BY <1>1, <1>2

\* What reserving a step changes of a run.
LEMMA ReserveFacts ==
  ASSUME NEW s \in RunStates(Revisions), NEW t \in Nat,
         NEW r, r = Reserve(s, t)
  PROVE  /\ r \in RunStates(Revisions)
         /\ r.phase = s.phase
         /\ r.sequence = s.sequence + 1
         /\ r.activeStep = s.sequence + 1
         /\ r.workingRevision = s.workingRevision
         /\ r.bestRevision = s.bestRevision
<1> DEFINE n == s.sequence + 1
           a == s.attemptsStarted + (IF s.phase = "start-attempt" THEN 1 ELSE 0)
           b == IF s.phase = "start-attempt" THEN 0
                ELSE s.repairsThisAttempt + (IF s.phase = "repair" THEN 1 ELSE 0)
           c == s.piCallsStarted + (IF s.phase \in inferencePhases THEN 1 ELSE 0)
<1>1. n \in Nat /\ a \in Nat /\ b \in Nat /\ c \in Nat
  BY DEF RunStates
<1>2. r = [s EXCEPT !.elapsed = t, !.sequence = n, !.activeStep = n,
                    !.attemptsStarted = a, !.repairsThisAttempt = b,
                    !.piCallsStarted = c]
  BY Zenon DEF Reserve
<1>3. n = s.sequence + 1
  OBVIOUS
<1> HIDE DEF n, a, b, c
<1>4. r \in RunStates(Revisions)
  BY <1>1, <1>2 DEF RunStates
<1>5. /\ r.phase = s.phase
      /\ r.sequence = n /\ r.activeStep = n
      /\ r.workingRevision = s.workingRevision
      /\ r.bestRevision = s.bestRevision
  BY <1>2 DEF RunStates
<1> QED
  BY <1>3, <1>4, <1>5

\* What runSavedStep reserves: a step of the same phase, or of one of the two
\* that a limit turned the run to.
LEMMA BeginFacts ==
  ASSUME NEW s \in RunStates(Revisions), NEW t \in Nat, s.activeStep = 0,
         NEW r, r = beginSavedStep(s, t)
  PROVE  /\ r \in RunStates(Revisions)
         /\ \/ r.phase = s.phase
            \/ r.phase = "finish"
            \/ r.phase = "discard" /\ s.phase = "repair"
         /\ r.sequence = s.sequence + 1
         /\ r.activeStep = s.sequence + 1
         /\ r.workingRevision = s.workingRevision
         /\ r.bestRevision = s.bestRevision
<1>1. CASE checkLimits(s, t) = {}
  <2>1. beginStep(s, t) = Reserve(s, t)
    BY <1>1 DEF beginStep
  <2>2. Reserve(s, t).activeStep # 0
    BY ReserveFacts DEF RunStates
  <2>3. r = Reserve(s, t)
    BY <2>1, <2>2 DEF beginSavedStep
  <2> QED
    BY <2>3, ReserveFacts
<1>2. CASE checkLimits(s, t) # {}
  <2> DEFINE w == WrapUp(s, t)
  <2>1. beginStep(s, t) = w
    BY <1>2 DEF beginStep
  <2>2. /\ w \in RunStates(Revisions)
        /\ w.phase \in {"finish", "discard"}
        /\ w.phase = "discard" => s.phase = "repair"
        /\ w.sequence = s.sequence
        /\ w.activeStep = 0
        /\ w.workingRevision = s.workingRevision
        /\ w.bestRevision = s.bestRevision
    BY <1>2, WrapUpFacts
  <2>3. checkLimits(w, t) = {}
    BY <2>2 DEF checkLimits, UnlimitedPhases
  <2>4. beginStep(w, t) = Reserve(w, t)
    BY <2>3 DEF beginStep
  <2>5. r = Reserve(w, t)
    BY <2>1, <2>2, <2>4 DEF beginSavedStep
  <2> HIDE DEF w
  <2>6. /\ r \in RunStates(Revisions)
        /\ r.phase = w.phase
        /\ r.sequence = w.sequence + 1
        /\ r.activeStep = w.sequence + 1
        /\ r.workingRevision = w.workingRevision
        /\ r.bestRevision = w.bestRevision
    BY ONLY t \in Nat, <2>2, <2>5, ReserveFacts
  <2> QED
    BY <2>2, <2>6
<1> QED
  BY <1>1, <1>2

\* Where a measurement turns a run to.
LEMMA MeasurementFacts ==
  ASSUME NEW q \in RunStates(Revisions), q.phase \in {"baseline", "measure"},
         NEW o, o.targetMet \in BOOLEAN,
         NEW r, r = MeasurementDone(q, o)
  PROVE  /\ r \in RunStates(Revisions)
         /\ r.sequence = q.sequence /\ r.activeStep = q.activeStep
         /\ r.workingRevision = q.workingRevision
         /\ r.bestRevision = q.bestRevision
         /\ q.phase = "baseline" =>
              /\ r.phase \in {"start-attempt", "finish"}
              /\ ~o.valid => r.phase = "finish"
         /\ q.phase = "measure" =>
              /\ r.phase \in {"review", "discard", "finish"}
              /\ r.phase = "review" => o.valid /\ (o.improved \/ o.targetMet)
              /\ (~o.valid /\ ~o.inconclusive) => r.phase = "finish"
<1>1. CASE ~o.valid
  BY <1>1 DEF MeasurementDone, RunStates, Phases, WorkPhases, UnlimitedPhases,
              CommandPhases, inferencePhases, StopReasons
<1>2. CASE o.valid /\ q.phase = "baseline"
  BY <1>2 DEF MeasurementDone, RunStates, Phases, WorkPhases, UnlimitedPhases,
              CommandPhases, inferencePhases, StopReasons
<1>3. CASE o.valid /\ q.phase = "measure"
  BY <1>3 DEF MeasurementDone, RunStates, Phases, WorkPhases, UnlimitedPhases,
              CommandPhases, inferencePhases, StopReasons
<1> QED
  BY <1>1, <1>2, <1>3

\* Where a proposal turns a run to.
LEMMA AnalysisFacts ==
  ASSUME NEW q \in RunStates(Revisions), NEW o,
         o.action \in {"change", "research", "profile", "stop"},
         NEW r, r = AnalysisDone(q, o)
  PROVE  /\ r \in RunStates(Revisions)
         /\ r.sequence = q.sequence /\ r.activeStep = q.activeStep
         /\ r.workingRevision = q.workingRevision
         /\ r.bestRevision = q.bestRevision
         /\ r.phase \in {"implement", "research", "profile", "finish"}
  BY DEF AnalysisDone, RunStates, Phases, WorkPhases, UnlimitedPhases,
         CommandPhases, inferencePhases, StopReasons

\* What the completion of a step makes of a run, phase by phase.
LEMMA FinishFacts ==
  ASSUME NEW s \in RunStates(Revisions), NEW o \in Outcomes(Revisions),
         MayFinish(s, s.sequence, o), NEW r, r = finishStep(s, o)
  PROVE  /\ r \in RunStates(Revisions)
         /\ r.sequence = s.sequence /\ r.activeStep = 0
         /\ o = Error => r.phase = "finish"
         /\ (o = Error \/ s.phase \notin {"implement", "repair", "discard"})
              => r.workingRevision = s.workingRevision
         /\ (o = Error \/ s.phase # "keep") => r.bestRevision = s.bestRevision
         /\ o # Error =>
              /\ s.phase \in WorkPhases /\ o.kind = KindOf(s.phase)
              /\ s.phase \in {"baseline", "measure", "test", "review", "keep"}
                   => o.revision = s.workingRevision
              /\ s.phase = "prepare" => r.phase = "baseline"
              /\ s.phase = "baseline" =>
                   /\ r.phase \in {"start-attempt", "finish"}
                   /\ ~o.valid => r.phase = "finish"
              /\ s.phase = "start-attempt" => r.phase = "profile"
              /\ s.phase \in {"profile", "research"} => r.phase = "analyze"
              /\ s.phase = "analyze" =>
                   r.phase \in {"implement", "research", "profile", "finish"}
              /\ s.phase \in {"implement", "repair"} =>
                   r.phase = "test" /\ r.workingRevision = o.revision
              /\ s.phase = "test" => r.phase = IF o.passed THEN "measure" ELSE "repair"
              /\ s.phase = "measure" =>
                   /\ r.phase \in {"review", "discard", "finish"}
                   /\ r.phase = "review" => o.valid /\ (o.improved \/ o.targetMet)
                   /\ (~o.valid /\ ~o.inconclusive) => r.phase = "finish"
              /\ s.phase = "review" => r.phase = IF o.passed THEN "keep" ELSE "repair"
              /\ s.phase = "keep" =>
                   /\ r.phase \in {"start-attempt", "finish"}
                   /\ r.bestRevision = s.workingRevision
              /\ s.phase = "discard" =>
                   /\ r.phase = "start-attempt"
                   /\ r.workingRevision = s.bestRevision
              /\ s.phase = "finish" => r.phase = "done"
<1> DEFINE q == [s EXCEPT !.activeStep = 0]
<1>1. /\ q \in RunStates(Revisions)
      /\ q.phase = s.phase /\ q.sequence = s.sequence /\ q.activeStep = 0
      /\ q.workingRevision = s.workingRevision
      /\ q.bestRevision = s.bestRevision
      /\ q.targetMet \in BOOLEAN /\ q.stopReason \in StopReasons
  BY DEF RunStates
<1>2. o # Error =>
        /\ s.phase \in WorkPhases /\ o.kind = KindOf(s.phase)
        /\ s.phase \in {"baseline", "measure", "test", "review", "keep"}
             => o.revision = s.workingRevision
        /\ s.phase = "discard" => o.revision = s.bestRevision
  BY DEF MayFinish
<1>3. CASE o = Error
  <2>1. r = [q EXCEPT !.phase = "finish", !.stopReason = "error",
                      !.targetMet = FALSE]
    BY <1>3 DEF finishStep
  <2> HIDE DEF q
  <2> QED
    BY <1>1, <1>3, <2>1 DEF RunStates, Phases, WorkPhases, UnlimitedPhases, StopReasons
<1>4. CASE o # Error /\ s.phase = "prepare"
  <2>1. r = [q EXCEPT !.phase = "baseline"]
    BY <1>1, <1>4 DEF finishStep
  <2> HIDE DEF q
  <2> QED
    BY <1>1, <1>2, <1>4, <2>1
       DEF RunStates, Phases, WorkPhases, UnlimitedPhases, CommandPhases,
           inferencePhases, StopReasons
<1>5. CASE o # Error /\ s.phase = "baseline"
  <2>0. o.targetMet \in BOOLEAN
    BY <1>2, <1>5, OutcomeShape DEF KindOf
  <2>1. r = MeasurementDone(q, o)
    BY <1>1, <1>5 DEF finishStep
  <2> HIDE DEF q
  <2> QED
    BY <1>1, <1>2, <1>5, <2>0, <2>1, MeasurementFacts
<1>6. CASE o # Error /\ s.phase = "start-attempt"
  <2>1. r = [q EXCEPT !.phase = "profile", !.targetMet = FALSE]
    BY <1>1, <1>6 DEF finishStep
  <2> HIDE DEF q
  <2> QED
    BY <1>1, <1>2, <1>6, <2>1
       DEF RunStates, Phases, WorkPhases, UnlimitedPhases, CommandPhases,
           inferencePhases, StopReasons
<1>7. CASE o # Error /\ s.phase = "profile"
  <2>1. r = [q EXCEPT !.phase = "analyze"]
    BY <1>1, <1>7 DEF finishStep
  <2> HIDE DEF q
  <2> QED
    BY <1>1, <1>2, <1>7, <2>1
       DEF RunStates, Phases, WorkPhases, UnlimitedPhases, CommandPhases,
           inferencePhases, StopReasons
<1>8. CASE o # Error /\ s.phase = "research"
  <2>1. r = [q EXCEPT !.phase = "analyze"]
    BY <1>1, <1>8 DEF finishStep
  <2> HIDE DEF q
  <2> QED
    BY <1>1, <1>2, <1>8, <2>1
       DEF RunStates, Phases, WorkPhases, UnlimitedPhases, CommandPhases,
           inferencePhases, StopReasons
<1>9. CASE o # Error /\ s.phase = "analyze"
  <2>0. o.action \in {"change", "research", "profile", "stop"}
    BY <1>2, <1>9, OutcomeShape DEF KindOf
  <2>1. r = AnalysisDone(q, o)
    BY <1>1, <1>9 DEF finishStep
  <2> HIDE DEF q
  <2> QED
    BY <1>1, <1>2, <1>9, <2>0, <2>1, AnalysisFacts
<1>10. CASE o # Error /\ s.phase = "implement"
  <2>0. o.revision \in Revisions
    BY <1>2, <1>10, OutcomeShape DEF KindOf
  <2>1. r = [q EXCEPT !.phase = "test", !.workingRevision = o.revision,
                      !.targetMet = FALSE]
    BY <1>1, <1>10 DEF finishStep
  <2> HIDE DEF q
  <2> QED
    BY <1>1, <1>2, <1>10, <2>1, <2>0
       DEF RunStates, Phases, WorkPhases, UnlimitedPhases, CommandPhases,
           inferencePhases, StopReasons
<1>11. CASE o # Error /\ s.phase = "repair"
  <2>0. o.revision \in Revisions
    BY <1>2, <1>11, OutcomeShape DEF KindOf
  <2>1. r = [q EXCEPT !.phase = "test", !.workingRevision = o.revision,
                      !.targetMet = FALSE]
    BY <1>1, <1>11 DEF finishStep
  <2> HIDE DEF q
  <2> QED
    BY <1>1, <1>2, <1>11, <2>1, <2>0
       DEF RunStates, Phases, WorkPhases, UnlimitedPhases, CommandPhases,
           inferencePhases, StopReasons
<1>12. CASE o # Error /\ s.phase = "test"
  <2>1. r = [q EXCEPT !.phase = IF o.passed THEN "measure" ELSE "repair"]
    BY <1>1, <1>12 DEF finishStep
  <2> HIDE DEF q
  <2> QED
    BY <1>1, <1>2, <1>12, <2>1
       DEF RunStates, Phases, WorkPhases, UnlimitedPhases, CommandPhases,
           inferencePhases, StopReasons
<1>13. CASE o # Error /\ s.phase = "measure"
  <2>0. o.targetMet \in BOOLEAN
    BY <1>2, <1>13, OutcomeShape DEF KindOf
  <2>1. r = MeasurementDone(q, o)
    BY <1>1, <1>13 DEF finishStep
  <2> HIDE DEF q
  <2> QED
    BY <1>1, <1>2, <1>13, <2>0, <2>1, MeasurementFacts
<1>14. CASE o # Error /\ s.phase = "review"
  <2>1. r = [q EXCEPT !.phase = IF o.passed THEN "keep" ELSE "repair"]
    BY <1>1, <1>14 DEF finishStep
  <2> HIDE DEF q
  <2> QED
    BY <1>1, <1>2, <1>14, <2>1
       DEF RunStates, Phases, WorkPhases, UnlimitedPhases, CommandPhases,
           inferencePhases, StopReasons
<1>15. CASE o # Error /\ s.phase = "keep"
  <2>0. o.revision \in Revisions
    BY <1>2, <1>15, OutcomeShape DEF KindOf
  <2>1. r = [q EXCEPT !.bestRevision = o.revision,
                      !.phase = IF q.targetMet THEN "finish" ELSE "start-attempt",
                      !.stopReason = IF q.targetMet THEN "target-met" ELSE "none"]
    BY <1>1, <1>15 DEF finishStep
  <2> HIDE DEF q
  <2> QED
    BY <1>1, <1>2, <1>15, <2>1, <2>0
       DEF RunStates, Phases, WorkPhases, UnlimitedPhases, CommandPhases,
           inferencePhases, StopReasons
<1>16. CASE o # Error /\ s.phase = "discard"
  <2>0. o.revision \in Revisions
    BY <1>2, <1>16, OutcomeShape DEF KindOf
  <2>1. r = [q EXCEPT !.phase = "start-attempt", !.targetMet = FALSE,
                      !.workingRevision = o.revision]
    BY <1>1, <1>16 DEF finishStep
  <2> HIDE DEF q
  <2> QED
    BY <1>1, <1>2, <1>16, <2>1, <2>0
       DEF RunStates, Phases, WorkPhases, UnlimitedPhases, CommandPhases,
           inferencePhases, StopReasons
<1>17. CASE o # Error /\ s.phase = "finish"
  <2>1. r = [q EXCEPT !.phase = "done", !.targetMet = (q.stopReason = "target-met")]
    BY <1>1, <1>17 DEF finishStep
  <2> HIDE DEF q
  <2> QED
    BY <1>1, <1>2, <1>17, <2>1
       DEF RunStates, Phases, WorkPhases, UnlimitedPhases, CommandPhases,
           inferencePhases, StopReasons
<1> QED
  BY <1>2, <1>3, <1>4, <1>5, <1>6, <1>7, <1>8, <1>9, <1>10, <1>11, <1>12, <1>13, <1>14, <1>15, <1>16, <1>17
     DEF WorkPhases, CommandPhases, inferencePhases, UnlimitedPhases

-------------------------------------------------------------------------------
(* Effects.                                                                *)

\* Revisions are positive numbers, and there are two to start with.
LEMMA NonZero == Revisions \subseteq Nat /\ 1 \in Revisions /\ 2 \in Revisions /\ 0 \notin Revisions
  BY DEF Revisions

\* The outcomes that effects build are outcomes.
LEMMA OutcomeIntro ==
  /\ Error \in Outcomes(Revisions)
  /\ \A k \in {"prepared", "attempt-started", "profile", "research", "finished"} :
        [kind |-> k] \in Outcomes(Revisions)
  /\ \A a \in {"change", "research", "profile", "stop"} :
        [kind |-> "analysis", action |-> a] \in Outcomes(Revisions)
  /\ \A k \in {"edited", "kept", "discarded"}, r \in Revisions :
        [kind |-> k, revision |-> r] \in Outcomes(Revisions)
  /\ \A k \in {"tests", "review"}, r \in Revisions, b \in BOOLEAN :
        [kind |-> k, revision |-> r, passed |-> b] \in Outcomes(Revisions)
  /\ \A r \in Revisions, a, b, c, d \in BOOLEAN :
        [kind |-> "measurement", revision |-> r, valid |-> a, inconclusive |-> b,
         targetMet |-> c, improved |-> d] \in Outcomes(Revisions)
  BY DEF Outcomes

\* An effect that ends with an outcome has that outcome, or failed.
LEMMA EndsFacts ==
  ASSUME NEW o \in Outcomes(Revisions), Truthful(o), NEW d \in Details, Ends(o, d)
  PROVE  effect' \in Effects /\ Truthful(effect'.outcome)
<1>1. Error \in Outcomes(Revisions) /\ None \in Details /\ Truthful(Error)
  BY OutcomeIntro DEF Details, Truthful, Error
<1> QED
  BY <1>1 DEF Ends, Failed, Effects

\* A failed effect is one whose outcome is an error.
LEMMA FailedFacts ==
  ASSUME effect' = Failed
  PROVE  effect' \in Effects /\ effect'.outcome = Error /\ Truthful(effect'.outcome)
  BY OutcomeIntro DEF Failed, Effects, Details, Truthful, Error

\* What committing the worktree makes of it.
LEMMA SnapshotFacts ==
  ASSUME NEW g \in GitStates, g.head \in Revisions
  PROVE  /\ Snapshot(g) \in GitStates
         /\ Snapshot(g).worktree = g.worktree
         /\ ~Snapshot(g).dirty
         /\ Snapshot(g).head \in Revisions
         /\ Snapshot(g).head \in Snapshot(g).saved
         /\ g.saved \subseteq Snapshot(g).saved
         /\ Snapshot(g).best = g.best
<1>1. CASE g.dirty
  <2> DEFINE n == g.next + 1
  <2>1. n \in Revisions /\ g.next \in Nat /\ g.next \in Revisions
    BY DEF GitStates, Revisions
  <2>2. Snapshot(g) = [g EXCEPT !.head = g.next, !.dirty = FALSE, !.next = n,
                                !.saved = g.saved \cup {g.next}]
    BY <1>1, Zenon DEF Snapshot
  <2>3. g.saved \cup {g.next} \in SUBSET Revisions
    BY <2>1 DEF GitStates
  <2> HIDE DEF n
  <2>4. Snapshot(g) \in GitStates
    BY <2>1, <2>2, <2>3 DEF GitStates
  <2>5. /\ Snapshot(g).worktree = g.worktree
        /\ Snapshot(g).dirty = FALSE
        /\ Snapshot(g).head = g.next
        /\ Snapshot(g).saved = g.saved \cup {g.next}
        /\ Snapshot(g).best = g.best
    BY <2>2 DEF GitStates
  <2> QED
    BY <2>1, <2>4, <2>5
<1>2. CASE ~g.dirty
  <2>1. Snapshot(g) = [g EXCEPT !.saved = @ \cup {g.head}]
    BY <1>2 DEF Snapshot
  <2> QED
    BY <1>2, <2>1 DEF GitStates
<1> QED
  BY <1>1, <1>2 DEF GitStates

\* What a command may leave of the worktree.
LEMMA TouchedFacts ==
  ASSUME NEW g \in GitStates, NEW h \in Touched(g)
  PROVE  /\ h \in GitStates /\ h.worktree = g.worktree
         /\ h.head = g.head /\ h.saved = g.saved /\ h.best = g.best
  BY DEF Touched, GitStates

\* The processes of a step, by the phases that start any.
LEMMA UnitsOfType ==
  ASSUME NEW s \in RunStates(Revisions)
  PROVE  UnitsOf(s) \subseteq Units
  BY DEF UnitsOf, Units, RunStates

\* The verdict on a measurement is a truthful outcome.
LEMMA VerdictFacts ==
  ASSUME NEW m, m.revision \in Revisions
  PROVE  Verdict(m) \in Outcomes(Revisions) /\ Truthful(Verdict(m))
<1> DEFINE assessed == assessCandidate(Initial(m), Best(m), m)
           improved == /\ protectedPerformance(Initial(m), m)
                       /\ meetsFloor(Best(m), m)
           targetMet == assessGoal(Initial(m), m) /\ improved
<1>1. assessed = [improved |-> improved, targetMet |-> targetMet]
  BY Zenon DEF assessCandidate
<1>2. improved \in BOOLEAN /\ targetMet \in BOOLEAN /\ (targetMet => improved)
  OBVIOUS
<1>3. Verdict(m) = [kind |-> "measurement", revision |-> m.revision,
                    valid |-> TRUE, inconclusive |-> FALSE,
                    targetMet |-> assessed.targetMet,
                    improved |-> assessed.improved]
  BY Zenon DEF Verdict
<1> HIDE DEF assessed, improved, targetMet
<1>4. Verdict(m) = [kind |-> "measurement", revision |-> m.revision,
                    valid |-> TRUE, inconclusive |-> FALSE,
                    targetMet |-> targetMet, improved |-> improved]
  BY <1>1, <1>3
<1>5. TRUE \in BOOLEAN /\ FALSE \in BOOLEAN
  OBVIOUS
<1>6. Verdict(m) \in Outcomes(Revisions)
  BY <1>2, <1>4, <1>5, OutcomeIntro, Zenon
<1>7. Verdict(m).targetMet = targetMet /\ Verdict(m).improved = improved
  BY <1>4
<1> QED
  BY <1>2, <1>6, <1>7, Zenon DEF Truthful

\* What every effect does and leaves alone.
LEMMA EffectFacts ==
  ASSUME TypeInv, GateInv, performLiveStep
  PROVE  /\ pc = "performing" /\ pc' = "performed"
         /\ performed' = state.sequence
         /\ UNCHANGED <<state, results, report, operator>>
         /\ effect' \in Effects /\ Truthful(effect'.outcome)
         /\ git' \in GitStates /\ units' \subseteq Units
         /\ git'.worktree = "saved" => git'.head \in Revisions
<1>1. /\ state \in RunStates(Revisions) /\ git \in GitStates
      /\ units \subseteq Units
      /\ git.worktree = "saved" => git.head \in Revisions
      /\ state.workingRevision \in Revisions /\ state.bestRevision \in Revisions
      /\ state.workingRevision \in Nat /\ state.bestRevision \in Nat
  BY NonZero DEF TypeInv, TypeOK, GitStates, RunStates
<1>2. \E ps : Performing(ps)
  BY Zenon DEF performLiveStep, Refuse, Prepare, RunCommand, RunTests, Consult, Edit,
      Measure, Keep, Discard, Finish
<1>3. /\ pc = "performing" /\ pc' = "performed"
      /\ performed' = state.sequence
      /\ UNCHANGED <<state, results, report, operator>>
  BY <1>2 DEF Performing
<1> DEFINE Typed == /\ git' \in GitStates /\ units' \subseteq Units
                    /\ git'.worktree = "saved" => git'.head \in Revisions
<1>4. ASSUME NEW left \in LeftOf(state)
      PROVE  units \cup left \subseteq Units
  BY <1>1, UnitsOfType DEF LeftOf
<1>5. ASSUME UNCHANGED <<git, units>>  PROVE Typed
  BY <1>1, <1>5
<1>6. ASSUME CommandFails
      PROVE  effect' \in Effects /\ Truthful(effect'.outcome) /\ Typed
  BY <1>1, <1>4, <1>6, FailedFacts, TouchedFacts DEF CommandFails
<1>7. ASSUME NEW o \in Outcomes(Revisions), Truthful(o), NEW d \in Details,
             Ends(o, d)
      PROVE  effect' \in Effects /\ Truthful(effect'.outcome)
  BY <1>7, EndsFacts
<1>8. None \in Details /\ Citing \in Details
  BY DEF Details
<1> HIDE DEF Typed
<1> SUFFICES effect' \in Effects /\ Truthful(effect'.outcome) /\ Typed
  BY <1>3 DEF Typed
<1>9. CASE Refuse
  BY <1>5, <1>9, FailedFacts DEF Refuse
<1>10. CASE Prepare
  <2> DEFINE opened == Opened(state.workingRevision)
             made == [opened EXCEPT !.worktree = "saved"]
             done == [opened EXCEPT !.worktree = "saved", !.best = state.bestRevision]
  <2>1. /\ opened \in GitStates /\ opened.worktree # "saved"
        /\ made \in GitStates /\ made.head \in Revisions
        /\ done \in GitStates /\ done.head \in Revisions
    BY <1>1 DEF GitStates, Opened
  <2>2. \/ git' \in {git, opened} /\ effect' = Failed /\ UNCHANGED units
        \/ /\ git' \in Touched(made) /\ effect' = Failed
           /\ \E left \in LeftOf(state) : units' = units \cup left
        \/ git' = done /\ Ends([kind |-> "prepared"], None) /\ UNCHANGED units
    BY <1>10 DEF Prepare
  <2> HIDE DEF opened, made, done
  <2>3. CASE git' \in {git, opened} /\ effect' = Failed /\ UNCHANGED units
    BY <1>1, <2>1, <2>3, FailedFacts DEF Typed
  <2>4. CASE /\ git' \in Touched(made) /\ effect' = Failed
             /\ \E left \in LeftOf(state) : units' = units \cup left
    BY <1>4, <2>1, <2>4, FailedFacts, TouchedFacts DEF Typed
  <2>5. CASE git' = done /\ Ends([kind |-> "prepared"], None) /\ UNCHANGED units
    <3>1. [kind |-> "prepared"] \in Outcomes(Revisions) /\ Truthful([kind |-> "prepared"])
      BY OutcomeIntro DEF Truthful
    <3> QED
      BY <1>1, <1>7, <1>8, <2>1, <2>5, <3>1 DEF Typed
  <2> QED
    BY <2>2, <2>3, <2>4, <2>5
<1>11. CASE RunCommand
  <2>1. CASE CommandFails
    BY <1>6, <2>1
  <2>2. CASE Ends([kind |-> KindOf(state.phase)], None) /\ UNCHANGED <<git, units>>
    <3>1. KindOf(state.phase) \in {"attempt-started", "profile"}
      BY <1>11 DEF RunCommand, Performing, KindOf
    <3>2. [kind |-> KindOf(state.phase)] \in Outcomes(Revisions)
      BY <3>1, OutcomeIntro
    <3>3. Truthful([kind |-> KindOf(state.phase)])
      BY <3>1 DEF Truthful
    <3> QED
      BY <1>5, <1>7, <1>8, <2>2, <3>2, <3>3
  <2> QED
    BY <1>11, <2>1, <2>2 DEF RunCommand
<1>12. CASE RunTests
  <2>1. CASE CommandFails
    BY <1>6, <2>1
  <2>2. ASSUME NEW passed \in BOOLEAN, UNCHANGED <<git, units>>,
               Ends([kind |-> "tests", revision |-> state.workingRevision,
                     passed |-> passed], None)
        PROVE  effect' \in Effects /\ Truthful(effect'.outcome) /\ Typed
    <3> DEFINE o == [kind |-> "tests", revision |-> state.workingRevision,
                     passed |-> passed]
    <3>1. o \in Outcomes(Revisions) /\ Truthful(o)
      BY <1>1, OutcomeIntro DEF Truthful
    <3> QED
      BY <1>5, <1>7, <1>8, <2>2, <3>1
  <2> QED
    BY <1>12, <2>1, <2>2 DEF RunTests
<1>13. CASE Consult
  <2>1. CASE CommandFails
    BY <1>6, <2>1
  <2>2. ASSUME NEW action \in Proposals, UNCHANGED <<git, units>>,
               Ends([kind |-> "analysis", action |-> action], None)
        PROVE  effect' \in Effects /\ Truthful(effect'.outcome) /\ Typed
    <3> DEFINE o == [kind |-> "analysis", action |-> action]
    <3>1. o \in Outcomes(Revisions) /\ Truthful(o)
      BY RatesAssumption, OutcomeIntro DEF Truthful
    <3> QED
      BY <1>5, <1>7, <1>8, <2>2, <3>1
  <2>3. ASSUME Ends([kind |-> "research"], None), UNCHANGED <<git, units>>
        PROVE  effect' \in Effects /\ Truthful(effect'.outcome) /\ Typed
    <3>1. [kind |-> "research"] \in Outcomes(Revisions) /\ Truthful([kind |-> "research"])
      BY OutcomeIntro DEF Truthful
    <3> QED
      BY <1>5, <1>7, <1>8, <2>3, <3>1
  <2>4. ASSUME NEW passed \in BOOLEAN, NEW detail \in {None, Citing},
               UNCHANGED <<git, units>>,
               Ends([kind |-> "review", revision |-> state.workingRevision,
                     passed |-> passed], detail)
        PROVE  effect' \in Effects /\ Truthful(effect'.outcome) /\ Typed
    <3> DEFINE o == [kind |-> "review", revision |-> state.workingRevision,
                     passed |-> passed]
    <3>1. o \in Outcomes(Revisions) /\ Truthful(o)
      BY <1>1, OutcomeIntro DEF Truthful
    <3> QED
      BY <1>5, <1>7, <1>8, <2>4, <3>1
  <2> QED
    BY <1>13, <2>1, <2>2, <2>3, <2>4 DEF Consult
<1>14. CASE Edit
  <2>1. CASE CommandFails
    BY <1>6, <2>1
  <2>2. ASSUME NEW g \in Touched(git), git' \in Touched(Snapshot(g)),
               \/ Ends([kind |-> "edited", revision |-> git'.head], None) /\ UNCHANGED units
               \/ effect' = Failed /\ units' = units \cup {<<"repl", 0>>}
        PROVE  effect' \in Effects /\ Truthful(effect'.outcome) /\ Typed
    <3>1. g \in GitStates /\ g.head \in Revisions
      BY <1>1, <1>14, TouchedFacts DEF Edit, WorktreeIs
    <3>2. git' \in GitStates /\ git'.head \in Revisions
      BY <2>2, <3>1, SnapshotFacts, TouchedFacts
    <3>3. CASE Ends([kind |-> "edited", revision |-> git'.head], None) /\ UNCHANGED units
      <4> DEFINE o == [kind |-> "edited", revision |-> git'.head]
      <4>1. o \in Outcomes(Revisions) /\ Truthful(o)
        BY <3>2, OutcomeIntro DEF Truthful
      <4> QED
        BY <1>1, <1>7, <1>8, <3>2, <3>3, <4>1 DEF Typed
    <3>4. CASE effect' = Failed /\ units' = units \cup {<<"repl", 0>>}
      <4>1. <<"repl", 0>> \in Units
        BY DEF Units
      <4> QED
        BY <1>1, <3>2, <3>4, <4>1, FailedFacts DEF Typed
    <3> QED
      BY <2>2, <3>3, <3>4
  <2> QED
    BY <1>14, <2>1, <2>2 DEF Edit
<1>15. CASE Measure
  <2>1. CASE CommandFails
    BY <1>6, <2>1
  <2>2. ASSUME NEW inconclusive \in BOOLEAN
        PROVE  /\ NoMeasurement(inconclusive) \in Outcomes(Revisions)
               /\ Truthful(NoMeasurement(inconclusive))
    BY <1>1, OutcomeIntro DEF NoMeasurement, Truthful
  <2>3. (state.phase = "baseline") \in BOOLEAN
    OBVIOUS
  <2>4. CASE /\ Ends(NoMeasurement(state.phase = "baseline"), None)
             /\ \E left \in LeftOf(state) : units' = units \cup left
             /\ git' \in Touched(git)
    BY <1>1, <1>4, <1>7, <1>8, <2>2, <2>3, <2>4, TouchedFacts DEF Typed
  <2>5. CASE /\ \E inconclusive \in BOOLEAN : Ends(NoMeasurement(inconclusive), None)
             /\ UNCHANGED <<git, units>>
    BY <1>5, <1>7, <1>8, <2>2, <2>5
  <2>6. ASSUME NEW h1 \in Rates, NEW h2 \in GuardedRates, NEW m,
               m = [revision |-> state.workingRevision, h1 |-> h1, h2 |-> h2,
                    rival |-> Rival],
               effect' = Failed \/ Ends(Verdict(m), m)
        PROVE  effect' \in Effects /\ Truthful(effect'.outcome)
    <3>1. m \in Details /\ m.revision \in Revisions
      BY <1>1, <2>6 DEF Details, Measured
    <3> QED
      BY <1>7, <2>6, <3>1, VerdictFacts, FailedFacts
  <2> QED
    BY <1>5, <1>15, <2>1, <2>4, <2>5, <2>6 DEF Measure
<1>16. CASE Keep
  <2> DEFINE o == [kind |-> "kept", revision |-> state.workingRevision]
  <2>1. o \in Outcomes(Revisions) /\ Truthful(o)
    BY <1>1, OutcomeIntro DEF Truthful
  <2>2. results["measure"].detail \in Details
    BY <1>16 DEF Keep, Performing, GateInv, MeasuredNow, TypeInv, TypeOK, Records,
                 WorkPhases, CommandPhases
  <2>3. Typed
    BY <1>1, <1>16 DEF Keep, Typed, GitStates
  <2> QED
    BY <1>7, <1>16, <2>1, <2>2, <2>3 DEF Keep
<1>17. CASE Discard
  <2> DEFINE o == [kind |-> "discarded", revision |-> state.bestRevision]
  <2>1. o \in Outcomes(Revisions) /\ Truthful(o)
    BY <1>1, OutcomeIntro DEF Truthful
  <2>2. Snapshot(git) \in GitStates
    BY <1>1, <1>17, SnapshotFacts DEF Discard, WorktreeIs
  <2>3. Typed
    BY <1>1, <1>17, <2>2 DEF Discard, Select, Typed, GitStates
  <2> QED
    BY <1>7, <1>8, <1>17, <2>1, <2>3 DEF Discard
<1>18. CASE Finish
  <2> DEFINE o == [kind |-> "finished"]
  <2>1. o \in Outcomes(Revisions) /\ Truthful(o)
    BY OutcomeIntro DEF Truthful
  <2>2. git.worktree = "saved" => Snapshot(git) \in GitStates /\ Snapshot(git).head \in Revisions
    BY <1>1, SnapshotFacts
  <2>3. units' \subseteq Units
    BY <1>1, <1>18 DEF Finish
  <2>4. git' \in GitStates /\ (git'.worktree = "saved" => git'.head \in Revisions)
    <3>1. CASE git' \in {git} \cup (IF git.worktree = "saved" THEN {Snapshot(git)} ELSE {})
      BY <1>1, <2>2, <3>1
    <3>2. CASE IF git.worktree = "saved"
               THEN git' = Select(Snapshot(git), state.bestRevision)
               ELSE git' = git
      BY <1>1, <2>2, <3>2 DEF Select, GitStates
    <3> QED
      BY <1>18, <3>1, <3>2 DEF Finish
  <2>5. effect' = Failed \/ Ends(o, None)
    BY <1>18 DEF Finish
  <2> QED
    BY <1>7, <1>8, <2>1, <2>3, <2>4, <2>5, FailedFacts DEF Typed
<1> QED
  BY <1>9, <1>10, <1>11, <1>12, <1>13, <1>14, <1>15, <1>16, <1>17, <1>18
     DEF performLiveStep

-------------------------------------------------------------------------------
(* The steps of the controller.                                            *)

\* What beginning a step changes and leaves alone.
LEMMA BeginStepFacts ==
  ASSUME TypeInv, BeginStep
  PROVE  /\ pc = "loop" /\ pc' = "performing"
         /\ state.activeStep = 0 /\ state.phase # "done"
         /\ state' \in RunStates(Revisions)
         /\ \/ state'.phase = state.phase
            \/ state'.phase = "finish"
            \/ state'.phase = "discard" /\ state.phase = "repair"
         /\ state.sequence \in Nat
         /\ state'.sequence = state.sequence + 1
         /\ state'.activeStep = state.sequence + 1
         /\ state'.workingRevision = state.workingRevision
         /\ state'.bestRevision = state.bestRevision
         /\ UNCHANGED <<results, report, effect, git, units, operator, performed>>
<1>1. state \in RunStates(Revisions) /\ state.elapsed \in Nat /\ state.sequence \in Nat
  BY DEF TypeInv, TypeOK, RunStates
<1>2. PICK t \in state.elapsed .. MaxDuration :
         MayBegin(state, t) /\ state' = beginSavedStep(state, t)
  BY DEF BeginStep
<1>3. t \in Nat
  BY <1>1, LimitsAssumption
<1>4. state.activeStep = 0
  BY <1>2 DEF MayBegin
<1>5. /\ pc = "loop" /\ pc' = "performing" /\ state.phase # "done"
      /\ UNCHANGED <<results, report, effect, git, units, operator, performed>>
  BY DEF BeginStep
<1>6. /\ state' \in RunStates(Revisions)
      /\ \/ state'.phase = state.phase
         \/ state'.phase = "finish"
         \/ state'.phase = "discard" /\ state.phase = "repair"
      /\ state'.sequence = state.sequence + 1
      /\ state'.activeStep = state.sequence + 1
      /\ state'.workingRevision = state.workingRevision
      /\ state'.bestRevision = state.bestRevision
  BY <1>1, <1>2, <1>3, <1>4, BeginFacts
<1> QED
  BY <1>1, <1>4, <1>5, <1>6

\* What is saved of a step completes it.
LEMMA SaveFacts ==
  ASSUME TypeInv, StepInv, GateInv, SaveResult
  PROVE  /\ pc = "performed" /\ pc' = "saved" /\ Active
         /\ state.phase \in WorkPhases
         /\ effect # None
         /\ effect' = None
         /\ UNCHANGED <<state, report, git, units, operator, performed>>
         /\ \E r \in Records :
              /\ r # None
              /\ results' = [results EXCEPT ![state.phase] = r]
              /\ r.step = state.sequence
              /\ r.outcome \in {effect.outcome, Error}
              /\ MayFinish(state, state.sequence, r.outcome)
              /\ Truthful(r.outcome)
<1> DEFINE o == IF MayFinish(state, state.sequence, effect.outcome)
                THEN effect.outcome ELSE Error
           r == [step |-> state.sequence, revision |-> state.workingRevision,
                 outcome |-> o, detail |-> effect.detail]
<1>1. /\ pc = "performed" /\ pc' = "saved" /\ effect' = None
      /\ UNCHANGED <<state, report, git, units, operator, performed>>
      /\ results' = [results EXCEPT ![state.phase] = r]
  BY Zenon DEF SaveResult
<1>2. /\ Active /\ state.phase \in WorkPhases /\ effect # None
      /\ state.activeStep = state.sequence
  BY <1>1 DEF StepInv, Working, Active, TypeInv, TypeOK
<1>3. /\ effect.outcome \in Outcomes(Revisions) /\ effect.detail \in Details
      /\ Truthful(effect.outcome)
      /\ state.sequence \in Nat /\ state.workingRevision \in Revisions
  BY <1>2 DEF TypeInv, TypeOK, Effects, GateInv, RunStates
<1>4. MayFinish(state, state.sequence, Error)
  BY <1>2 DEF MayFinish
<1>5. Error \in Outcomes(Revisions) /\ Truthful(Error)
  BY OutcomeIntro DEF Truthful, Error
<1>6. /\ o \in {effect.outcome, Error} /\ o \in Outcomes(Revisions)
      /\ MayFinish(state, state.sequence, o) /\ Truthful(o)
  BY <1>3, <1>4, <1>5
<1> HIDE DEF o
<1>7. r \in Records /\ r # None /\ r.step = state.sequence /\ r.outcome = o
  BY <1>3, <1>6 DEF Records, None
<1> HIDE DEF r
<1> QED
  BY <1>1, <1>2, <1>6, <1>7

\* Advancing and recovering complete the active step with what is saved of it.
LEMMA AdvanceFacts ==
  ASSUME TypeInv, StepInv, Advance \/ Recover
  PROVE  /\ Active /\ state.phase \in WorkPhases /\ StepSaved
         /\ pc \in {"saved", "down"} /\ pc' \in {"loop", "down"}
         /\ results[state.phase].outcome \in Outcomes(Revisions)
         /\ MayFinish(state, state.sequence, results[state.phase].outcome)
         /\ state' = finishStep(state, results[state.phase].outcome)
         /\ UNCHANGED <<results, report, effect, git, units, operator, performed>>
<1>1. /\ Active /\ StepSaved
      /\ MayFinish(state, state.sequence, results[state.phase].outcome)
      /\ pc \in {"saved", "down"} /\ pc' \in {"loop", "down"}
      /\ state' = finishStep(state, results[state.phase].outcome)
      /\ UNCHANGED <<results, report, effect, git, units, operator, performed>>
  BY DEF Advance, Recover, StepInv, Working
<1>2. state.phase \in WorkPhases
  BY <1>1 DEF StepInv
<1>3. results[state.phase].outcome \in Outcomes(Revisions)
  BY <1>1, <1>2 DEF StepSaved, TypeInv, TypeOK, Records
<1> QED
  BY <1>1, <1>2, <1>3

\* The steps that leave the run's own records alone.
Others == WriteReport \/ Crash \/ Resume \/ StopChildren \/ Abandon \/ UNCHANGED vars

\* What those steps leave alone.
LEMMA OtherFacts ==
  ASSUME TypeInv, Others
  PROVE  /\ UNCHANGED <<state, results, git, parent, performed>>
         /\ report' \in Reports \cup {None}
         /\ pc' \in {"down", "loop"} \/ UNCHANGED <<pc, effect, units>>
         /\ pc' = "loop" => UNCHANGED <<effect, units>> /\ (~Active \/ pc = "loop")
         /\ effect' \in {effect, None}
         /\ units' \subseteq Units
         /\ abandoned' \in BOOLEAN /\ piLogs' \in BOOLEAN
<1>1. /\ state \in RunStates(Revisions) /\ units \subseteq Units
      /\ report \in Reports \cup {None} /\ abandoned \in BOOLEAN /\ piLogs \in BOOLEAN
  BY DEF TypeInv, TypeOK
<1>2. CASE WriteReport
  BY <1>1, <1>2 DEF WriteReport, Reports, RunStates, operator
<1>3. CASE Crash
  <2>1. \A left \in LeftOf(state) : units \cup left \subseteq Units
    BY <1>1, UnitsOfType DEF LeftOf
  <2> QED
    BY <1>1, <1>3, <2>1 DEF Crash
<1>4. CASE Resume
  BY <1>1, <1>4 DEF Resume
<1>5. CASE StopChildren
  BY <1>1, <1>5 DEF StopChildren, operator
<1>6. CASE Abandon
  BY <1>1, <1>6 DEF Abandon
<1>7. CASE UNCHANGED vars
  BY <1>1, <1>7 DEF vars, operator
<1> QED
  BY <1>2, <1>3, <1>4, <1>5, <1>6, <1>7 DEF Others

\* Every step is of one of five kinds.
LEMMA RunSteps ==
  [Next]_vars => BeginStep \/ performLiveStep \/ SaveResult \/ (Advance \/ Recover) \/ Others
  BY Zenon DEF Next, Controller, Operator, Others

-------------------------------------------------------------------------------
(* The invariant.                                                          *)

\* A new run satisfies the invariant.
LEMMA InitIInv == Init => IInv
<1> SUFFICES ASSUME Init PROVE IInv
  OBVIOUS
<1>1. newRun(1) \in RunStates(Revisions)
  BY NonZero DEF newRun, RunStates, Phases, WorkPhases, CommandPhases, StopReasons
<1>2. /\ state.phase = "prepare" /\ state.activeStep = 0 /\ state.sequence = 0
      /\ state.bestRevision = 1 /\ state.workingRevision = 1
  BY DEF Init, newRun
<1>3. /\ git \in GitStates /\ git.worktree = "absent" /\ ~git.dirty
  BY NonZero DEF Init, NoWorktree, GitStates
<1>4. TypeInv
  BY <1>1, <1>2, <1>3 DEF Init, TypeInv, TypeOK, GitStates
<1>5. StepInv /\ SequenceInv
  BY <1>2 DEF Init, StepInv, SequenceInv, Working, Active
<1>6. GateInv
  BY <1>2 DEF Init, GateInv
<1>7. GitInv
  BY <1>2, <1>3 DEF Init, GitInv, Lands, Refs, Active
<1>8. UnitsInv
  BY <1>2 DEF Init, UnitsInv, Active, Ending
<1> QED
  BY <1>4, <1>5, <1>6, <1>7, <1>8 DEF IInv

\* Every step keeps every value in its type.
LEMMA TypeStep == IInv /\ [Next]_vars => TypeInv'
<1> SUFFICES ASSUME IInv, [Next]_vars PROVE TypeInv'
  OBVIOUS
<1> USE DEF IInv
<1>1. CASE BeginStep
  <2>1. state' \in RunStates(Revisions) /\ state'.activeStep \in {0, state'.sequence}
    BY <1>1, BeginStepFacts
  <2> QED
    BY <1>1, <2>1, BeginStepFacts DEF TypeInv, TypeOK, operator
<1>2. CASE performLiveStep
  <2>1. /\ UNCHANGED <<state, results, report, abandoned, piLogs, parent>>
        /\ pc' = "performed" /\ performed' = state.sequence
        /\ effect' \in Effects /\ git' \in GitStates /\ units' \subseteq Units
        /\ git'.worktree = "saved" => git'.head \in Revisions
    BY <1>2, EffectFacts DEF operator
  <2>2. state.sequence \in Nat
    BY DEF TypeInv, TypeOK, RunStates
  <2> QED
    BY <2>1, <2>2 DEF TypeInv, TypeOK, GitStates
<1>3. CASE SaveResult
  <2>1. results' \in [WorkPhases -> Records \cup {None}]
    BY <1>3, SaveFacts DEF TypeInv, TypeOK
  <2> QED
    BY <1>3, <2>1, SaveFacts DEF TypeInv, TypeOK, operator
<1>4. CASE Advance \/ Recover
  <2>1. state \in RunStates(Revisions)
    BY DEF TypeInv, TypeOK
  <2>2. state' \in RunStates(Revisions) /\ state'.activeStep = 0
    BY <1>4, <2>1, AdvanceFacts, FinishFacts
  <2> QED
    BY <1>4, <2>2, AdvanceFacts DEF TypeInv, TypeOK, operator
<1>5. CASE Others
  BY <1>5, OtherFacts DEF TypeInv, TypeOK
<1> QED
  BY <1>1, <1>2, <1>3, <1>4, <1>5, RunSteps

\* Every step keeps the bookkeeping of the active step.
LEMMA StepStep == IInv /\ [Next]_vars => StepInv'
<1> SUFFICES ASSUME IInv, [Next]_vars PROVE StepInv'
  OBVIOUS
<1> USE DEF IInv
<1>1. CASE BeginStep
  <2>1. state'.phase \in WorkPhases
    BY <1>1, BeginStepFacts DEF TypeInv, TypeOK, RunStates, Phases, WorkPhases,
                                UnlimitedPhases
  <2>2. Active'
    BY <1>1, BeginStepFacts DEF Active
  <2> QED
    BY <1>1, <2>1, <2>2, BeginStepFacts DEF StepInv
<1>2. CASE performLiveStep
  BY <1>2, EffectFacts DEF StepInv, Working, Active, Effects, None
<1>3. CASE SaveResult
  <2>1. PICK r \in Records :
          /\ r # None
          /\ results' = [results EXCEPT ![state.phase] = r]
          /\ r.step = state.sequence
          /\ MayFinish(state, state.sequence, r.outcome)
    BY <1>3, SaveFacts
  <2>2. results'[state.phase] = r
    BY <1>3, <2>1, SaveFacts DEF TypeInv, TypeOK
  <2> QED
    BY <1>3, <2>1, <2>2, SaveFacts DEF StepInv, Working, StepSaved, Active
<1>4. CASE Advance \/ Recover
  <2>1. state \in RunStates(Revisions)
    BY DEF TypeInv, TypeOK
  <2>2. state'.activeStep = 0
    BY <1>4, <2>1, AdvanceFacts, FinishFacts
  <2> QED
    BY <1>4, <2>2, AdvanceFacts DEF StepInv, Working, Active
<1>5. CASE Others
  BY <1>5, OtherFacts DEF StepInv, Working, Active, StepSaved
<1> QED
  BY <1>1, <1>2, <1>3, <1>4, <1>5, RunSteps

\* Every step keeps the numbering of the steps.
LEMMA SequenceStep == IInv /\ [Next]_vars => SequenceInv'
<1> SUFFICES ASSUME IInv, [Next]_vars PROVE SequenceInv'
  OBVIOUS
<1> USE DEF IInv
<1>1. /\ state.sequence \in Nat /\ performed \in Nat
      /\ \A p \in WorkPhases : results[p] # None => results[p].step \in Nat
  BY DEF TypeInv, TypeOK, RunStates, Records
<1>2. CASE BeginStep
  <2>1. /\ results' = results /\ performed' = performed
        /\ state'.sequence = state.sequence + 1
    BY <1>2, BeginStepFacts
  <2>2. \A p \in WorkPhases : results[p] # None => results[p].step < state.sequence + 1
    BY <1>1 DEF SequenceInv
  <2>3. performed < state.sequence + 1
    BY <1>1 DEF SequenceInv
  <2> QED
    BY <1>1, <2>1, <2>2, <2>3 DEF SequenceInv
<1>3. CASE performLiveStep
  BY <1>1, <1>3, EffectFacts DEF SequenceInv, Active
<1>4. CASE SaveResult
  <2>1. PICK r \in Records :
          /\ results' = [results EXCEPT ![state.phase] = r]
          /\ r.step = state.sequence
    BY <1>4, SaveFacts
  <2>2. /\ pc = "performed" /\ pc' = "saved" /\ Active /\ state.phase \in WorkPhases
        /\ state' = state /\ performed' = performed
    BY <1>4, SaveFacts
  <2>3. \A p \in WorkPhases : p # state.phase => results'[p] = results[p]
    BY <2>1 DEF TypeInv, TypeOK
  <2>4. results'[state.phase] = r
    BY <2>1, <2>2 DEF TypeInv, TypeOK
  <2> QED
    BY <1>1, <2>1, <2>2, <2>3, <2>4 DEF SequenceInv, Active
<1>5. CASE Advance \/ Recover
  <2>1. state \in RunStates(Revisions)
    BY DEF TypeInv, TypeOK
  <2>2. state'.activeStep = 0 /\ state'.sequence = state.sequence
    BY <1>5, <2>1, AdvanceFacts, FinishFacts
  <2> QED
    BY <1>5, <2>2, AdvanceFacts DEF SequenceInv, Active
<1>6. CASE Others
  BY <1>6, OtherFacts DEF SequenceInv, Active
<1> QED
  BY <1>2, <1>3, <1>4, <1>5, <1>6, RunSteps

\* Every step keeps what a candidate has behind it.
LEMMA GateStep == IInv /\ [Next]_vars => GateInv'
<1> SUFFICES ASSUME IInv, [Next]_vars PROVE GateInv'
  OBVIOUS
<1> USE DEF IInv
<1>1. CASE BeginStep
  <2>1. /\ UNCHANGED <<results, effect>>
        /\ state'.workingRevision = state.workingRevision
        /\ state'.phase \in {"measure", "review", "keep"} => state'.phase = state.phase
    BY <1>1, BeginStepFacts
  <2> QED
    BY <2>1 DEF GateInv, TestedNow, MeasuredNow, ReviewedNow
<1>2. CASE performLiveStep
  <2>1. UNCHANGED <<state, results>> /\ Truthful(effect'.outcome)
    BY <1>2, EffectFacts
  <2> QED
    BY <2>1 DEF GateInv, TestedNow, MeasuredNow, ReviewedNow
<1>3. CASE SaveResult
  <2>1. PICK r \in Records :
          results' = [results EXCEPT ![state.phase] = r] /\ Truthful(r.outcome)
    BY <1>3, SaveFacts
  <2>2. effect' = None /\ state' = state /\ state.phase \in WorkPhases
    BY <1>3, SaveFacts
  <2>3. /\ \A p \in WorkPhases : p # state.phase => results'[p] = results[p]
        /\ results'[state.phase] = r
    BY <2>1, <2>2 DEF TypeInv, TypeOK
  <2>4. \A p \in WorkPhases : results'[p] # None => Truthful(results'[p].outcome)
    BY <2>1, <2>3 DEF GateInv
  <2>5. {"test", "implement", "repair", "measure", "review"} \subseteq WorkPhases
    BY DEF WorkPhases, CommandPhases, inferencePhases
  <2>6. CASE state.phase = "measure"
    BY <2>2, <2>3, <2>4, <2>5, <2>6 DEF GateInv, TestedNow
  <2>7. CASE state.phase = "review"
    BY <2>2, <2>3, <2>4, <2>5, <2>7 DEF GateInv, TestedNow, MeasuredNow
  <2>8. CASE state.phase = "keep"
    BY <2>2, <2>3, <2>4, <2>5, <2>8 DEF GateInv, TestedNow, MeasuredNow, ReviewedNow
  <2>9. CASE state.phase \notin {"measure", "review", "keep"}
    BY <2>2, <2>4, <2>9 DEF GateInv
  <2> QED
    BY <2>6, <2>7, <2>8, <2>9
<1>4. CASE Advance \/ Recover
  <2> DEFINE o == results[state.phase].outcome
  <2>1. /\ state \in RunStates(Revisions) /\ o \in Outcomes(Revisions)
        /\ MayFinish(state, state.sequence, o) /\ state' = finishStep(state, o)
        /\ UNCHANGED <<results, effect>>
        /\ results[state.phase] # None /\ results[state.phase].step = state.sequence
        /\ Active /\ state.phase \in WorkPhases /\ Truthful(o)
    BY <1>4, AdvanceFacts DEF TypeInv, TypeOK, StepSaved, GateInv
  <2> DEFINE s2 == finishStep(state, o)
  <2>2. /\ s2.phase = "measure" =>
             /\ o # Error /\ state.phase = "test" /\ o.passed
             /\ o.kind = KindOf("test") /\ o.revision = s2.workingRevision
             /\ s2.workingRevision = state.workingRevision
        /\ s2.phase = "review" =>
             /\ o # Error /\ state.phase = "measure"
             /\ o.valid /\ (o.improved \/ o.targetMet)
             /\ o.kind = KindOf("measure") /\ o.revision = s2.workingRevision
             /\ s2.workingRevision = state.workingRevision
        /\ s2.phase = "keep" =>
             /\ o # Error /\ state.phase = "review" /\ o.passed
             /\ o.kind = KindOf("review") /\ o.revision = s2.workingRevision
             /\ s2.workingRevision = state.workingRevision
    <3> HIDE DEF o
    <3> QED
      BY <2>1, FinishFacts DEF WorkPhases, CommandPhases, inferencePhases, UnlimitedPhases
  <2>3. \A p \in WorkPhases : (results[p] # None /\ p # state.phase) =>
          results[p].step < results[state.phase].step
    BY <2>1 DEF SequenceInv
  <2>4. {"test", "implement", "repair", "measure", "review"} \subseteq WorkPhases
    BY DEF WorkPhases, CommandPhases, inferencePhases
  <2> HIDE DEF s2
  <2>5. /\ effect' # None => Truthful(effect'.outcome)
        /\ \A p \in WorkPhases : results'[p] # None => Truthful(results'[p].outcome)
    BY <2>1 DEF GateInv
  <2>6. CASE state'.phase = "measure"
    <3>1. KindOf("test") = "tests"
      BY DEF KindOf
    <3>2. TestedNow'
      BY <2>1, <2>2, <2>3, <2>4, <2>6, <3>1 DEF TestedNow, s2
    <3> QED
      BY <2>5, <2>6, <3>2 DEF GateInv
  <2>7. CASE state'.phase = "review"
    <3>1. KindOf("measure") = "measurement"
      BY DEF KindOf
    <3>2. o.improved
      BY <2>1, <2>2, <2>7, <3>1 DEF Truthful, s2
    <3>3. TestedNow
      BY <2>1, <2>2, <2>7 DEF GateInv, s2
    <3>4. TestedNow'
      BY <2>1, <2>2, <2>7, <3>3 DEF TestedNow, s2
    <3>5. MeasuredNow'
      BY <2>1, <2>2, <2>3, <2>4, <2>7, <3>1, <3>2, <3>3 DEF MeasuredNow, TestedNow, s2
    <3> QED
      BY <2>5, <2>7, <3>4, <3>5 DEF GateInv
  <2>8. CASE state'.phase = "keep"
    <3>1. KindOf("review") = "review"
      BY DEF KindOf
    <3>2. TestedNow /\ MeasuredNow
      BY <2>1, <2>2, <2>8 DEF GateInv, s2
    <3>3. TestedNow' /\ MeasuredNow'
      BY <2>1, <2>2, <2>8, <3>2 DEF TestedNow, MeasuredNow, s2
    <3>4. ReviewedNow'
      BY <2>1, <2>2, <2>3, <2>4, <2>8, <3>1, <3>2 DEF ReviewedNow, MeasuredNow, s2
    <3> QED
      BY <2>5, <2>8, <3>3, <3>4 DEF GateInv
  <2> QED
    BY <2>5, <2>6, <2>7, <2>8 DEF GateInv
<1>5. CASE Others
  BY <1>5, OtherFacts DEF GateInv, TestedNow, MeasuredNow, ReviewedNow
<1> QED
  BY <1>1, <1>2, <1>3, <1>4, <1>5, RunSteps
\* What selecting the best revision after a snapshot makes of the worktree.
LEMMA SelectFacts ==
  ASSUME NEW g \in GitStates, g.head \in Revisions, NEW rev \in Revisions,
         NEW h, h = Select(Snapshot(g), rev)
  PROVE  /\ h.worktree = g.worktree /\ h.head = rev /\ ~h.dirty
         /\ h.saved = Snapshot(g).saved /\ g.saved \subseteq h.saved
<1> DEFINE k == Snapshot(g)
<1>1. /\ k \in GitStates /\ k.worktree = g.worktree
      /\ ~k.dirty /\ g.saved \subseteq k.saved
  BY SnapshotFacts
<1>2. h = [k EXCEPT !.head = rev]
  BY DEF Select
<1> HIDE DEF k
<1>3. /\ h.worktree = k.worktree /\ h.head = rev /\ h.dirty = k.dirty
      /\ h.saved = k.saved
  BY <1>1, <1>2 DEF GitStates
<1> QED
  BY <1>1, <1>3 DEF k

\* What the preparation makes of it.
LEMMA OpenedFacts ==
  ASSUME TypeInv, Prepare
  PROVE  /\ git'.worktree \in {git.worktree, "created", "saved"}
         /\ git'.worktree = "saved" =>
              \/ git' = git
              \/ /\ git'.head = state.workingRevision
                 /\ git'.saved = git.saved \cup {state.workingRevision}
         /\ effect' # Failed =>
              /\ git'.worktree = "saved" /\ git'.head = state.workingRevision
              /\ git'.dirty = git.dirty
              /\ state.workingRevision \in git'.saved
<1> DEFINE opened == Opened(state.workingRevision)
           made == [opened EXCEPT !.worktree = "saved"]
           done == [opened EXCEPT !.worktree = "saved", !.best = state.bestRevision]
<1>1. /\ git \in GitStates
      /\ state.workingRevision \in Revisions /\ state.bestRevision \in Revisions
      /\ state.workingRevision \in Nat /\ state.bestRevision \in Nat
  BY NonZero DEF TypeInv, TypeOK, GitStates, RunStates
<1>2. /\ opened \in GitStates /\ opened.worktree = "created"
      /\ opened.head = state.workingRevision /\ opened.dirty = git.dirty
      /\ opened.saved = git.saved \cup {state.workingRevision}
  BY <1>1 DEF GitStates, Opened
<1>3. \/ git' \in {git, opened} /\ effect' = Failed
      \/ git' \in Touched(made) /\ effect' = Failed
      \/ git' = done
  BY DEF Prepare
<1> HIDE DEF opened
<1>4. /\ made \in GitStates /\ made.worktree = "saved"
      /\ made.head = opened.head /\ made.saved = opened.saved
  BY <1>2 DEF GitStates
<1>5. /\ done.worktree = "saved" /\ done.dirty = opened.dirty
      /\ done.head = opened.head /\ done.saved = opened.saved
  BY <1>2 DEF GitStates
<1> HIDE DEF made, done
<1>6. CASE git' \in {git, opened} /\ effect' = Failed
  BY <1>2, <1>6
<1>7. CASE git' \in Touched(made) /\ effect' = Failed
  BY <1>2, <1>4, <1>7, TouchedFacts
<1>8. CASE git' = done
  BY <1>2, <1>5, <1>8
<1> QED
  BY <1>3, <1>6, <1>7, <1>8

\* An effect loses no revision that the run may go back to.
LEMMA EffectRefs ==
  ASSUME IInv, performLiveStep
  PROVE  Refs(git', state)
<1> USE DEF IInv
<1>1. /\ git \in GitStates /\ Refs(git, state)
      /\ git.worktree = "saved" => git.head \in Revisions
      /\ state.workingRevision \in Revisions /\ state.bestRevision \in Revisions
  BY DEF TypeInv, TypeOK, GitStates, RunStates, GitInv
<1>2. ASSUME git' \in Touched(git)
      PROVE  Refs(git', state)
  BY <1>1, <1>2, TouchedFacts DEF Refs
<1>3. ASSUME git' = git
      PROVE  Refs(git', state)
  BY <1>1, <1>3
<1>4. CASE Prepare
  <2>1. state.phase = "prepare" /\ state.bestRevision = state.workingRevision
    BY <1>4 DEF Prepare, Performing, GitInv
  <2> QED
    BY <1>1, <1>4, <2>1, OpenedFacts DEF Refs
<1>5. CASE Edit
  <2>1. ASSUME NEW g \in Touched(git), git' \in Touched(Snapshot(g))
        PROVE  Refs(git', state)
    <3>1. git.worktree = "saved"
      BY <1>5 DEF Edit, WorktreeIs
    <3>2. /\ g \in GitStates /\ g.head \in Revisions
          /\ g.worktree = "saved" /\ g.saved = git.saved
      BY <1>1, <3>1, TouchedFacts
    <3>3. git'.worktree = "saved" /\ git.saved \subseteq git'.saved
      BY <2>1, <3>2, SnapshotFacts, TouchedFacts
    <3> QED
      BY <1>1, <3>1, <3>3 DEF Refs
  <2> QED
    BY <1>2, <1>5, <2>1 DEF Edit, CommandFails
<1>6. CASE Keep
  <2>1. git' = [git EXCEPT !.best = state.workingRevision]
    BY <1>6 DEF Keep
  <2>2. git'.worktree = git.worktree /\ git'.saved = git.saved
    BY <1>1, <2>1 DEF GitStates
  <2> QED
    BY <1>1, <2>2 DEF Refs
<1>7. ASSUME git.worktree = "saved", git' = Select(Snapshot(git), state.bestRevision)
      PROVE  Refs(git', state)
  BY <1>1, <1>7, SelectFacts DEF Refs
<1>8. CASE Discard
  BY <1>7, <1>8 DEF Discard, WorktreeIs
<1>9. CASE Finish
  <2>1. CASE git.worktree = "saved" /\ git' = Snapshot(git)
    BY <1>1, <2>1, SnapshotFacts DEF Refs
  <2> QED
    BY <1>3, <1>7, <1>9, <2>1 DEF Finish
<1>10. CASE Refuse \/ RunCommand \/ RunTests \/ Consult \/ Measure
  BY <1>2, <1>3, <1>10
     DEF Refuse, RunCommand, RunTests, Consult, Measure, CommandFails
<1> QED
  BY <1>4, <1>5, <1>6, <1>8, <1>9, <1>10 DEF performLiveStep

\* Whatever a step did, the worktree is where its completion wants it.
LEMMA EffectLands ==
  ASSUME IInv, performLiveStep, NEW o, o = effect'.outcome,
         MayFinish(state, state.sequence, o), NEW s, s = finishStep(state, o)
  PROVE  Lands(git', s)
<1> USE DEF IInv
<1>1. /\ state \in RunStates(Revisions) /\ git \in GitStates
      /\ git.worktree = "saved" => git.head \in Revisions
      /\ state.workingRevision \in Revisions /\ state.bestRevision \in Revisions
      /\ Refs(git, state) /\ o \in Outcomes(Revisions)
  BY EffectFacts DEF TypeInv, TypeOK, GitStates, RunStates, GitInv, Effects
<1>2. /\ (o = Error \/ state.phase \notin {"implement", "repair", "discard"})
            => s.workingRevision = state.workingRevision
      /\ o # Error => (state.phase = "prepare" => s.phase = "baseline")
      /\ (o # Error /\ state.phase \in {"implement", "repair"})
            => s.phase = "test" /\ s.workingRevision = o.revision
      /\ (o # Error /\ state.phase = "baseline" /\ ~o.valid) => s.phase = "finish"
      /\ (o # Error /\ state.phase = "measure" /\ ~o.valid /\ ~o.inconclusive)
            => s.phase = "finish"
      /\ (o # Error /\ state.phase = "discard")
            => s.workingRevision = state.bestRevision
      /\ (o # Error /\ state.phase = "finish") => s.phase = "done"
      /\ o = Error => s.phase = "finish"
  BY <1>1, FinishFacts
<1>3. ASSUME effect' = Failed \/ s.phase \in {"finish", "done"}
      PROVE  Lands(git', s)
  BY <1>2, <1>3 DEF Lands, Failed
<1>4. ASSUME git' = git, WorktreeIs(state.workingRevision),
             state.phase \notin {"implement", "repair", "discard"}
      PROVE  Lands(git', s)
  BY <1>1, <1>2, <1>4 DEF Lands, Refs, WorktreeIs
<1>5. CASE Refuse
  BY <1>3, <1>5 DEF Refuse
<1>6. CASE Prepare /\ effect' # Failed
  <2>1. state.phase = "prepare" /\ Ends([kind |-> "prepared"], None)
    BY <1>6 DEF Prepare, Performing
  <2>2. o # Error
    BY <1>6, <2>1 DEF Ends, Error
  <2>3. s.phase = "baseline" /\ s.workingRevision = state.workingRevision
    BY <1>2, <2>1, <2>2
  <2>4. ~git.dirty
    BY <1>6, <2>1 DEF GitInv, Prepare, Performing
  <2> QED
    BY <1>1, <1>6, <2>3, <2>4, OpenedFacts DEF Lands
<1>7. CASE RunCommand
  BY <1>3, <1>4, <1>7 DEF RunCommand, Performing, CommandFails
<1>8. CASE RunTests
  BY <1>3, <1>4, <1>8 DEF RunTests, Performing, CommandFails
<1>9. CASE Consult
  BY <1>3, <1>4, <1>9 DEF Consult, Performing, CommandFails
<1>10. CASE Edit
  <2>1. ASSUME NEW g \in Touched(git), git' \in Touched(Snapshot(g)),
               Ends([kind |-> "edited", revision |-> git'.head], None),
               effect' # Failed
        PROVE  Lands(git', s)
    <3>1. g \in GitStates /\ g.head \in Revisions /\ g.worktree = "saved"
      BY <1>1, <1>10, TouchedFacts DEF Edit, WorktreeIs
    <3>2. git'.worktree = "saved" /\ git'.head \in git'.saved
      BY <2>1, <3>1, SnapshotFacts, TouchedFacts
    <3>3. o = [kind |-> "edited", revision |-> git'.head]
      BY <2>1 DEF Ends
    <3>4. o.revision = git'.head /\ o # Error
      BY <3>3 DEF Error
    <3>5. s.phase = "test" /\ s.workingRevision = git'.head
      BY <1>2, <1>10, <3>4 DEF Edit, Performing
    <3> QED
      BY <3>2, <3>5 DEF Lands
  <2> QED
    BY <1>3, <1>10, <2>1 DEF Edit, CommandFails
<1>11. CASE Measure
  <2>1. CASE Ends(NoMeasurement(state.phase = "baseline"), None) /\ effect' # Failed
    <3>1. o = NoMeasurement(state.phase = "baseline")
      BY <2>1 DEF Ends
    <3>2. o # Error /\ o.valid = FALSE /\ o.inconclusive = (state.phase = "baseline")
      BY <3>1 DEF Error, NoMeasurement
    <3>3. s.phase = "finish"
      BY <1>2, <1>11, <3>2 DEF Measure, Performing
    <3> QED
      BY <1>3, <3>3
  <2> QED
    BY <1>3, <1>4, <1>11, <2>1 DEF Measure, Performing, CommandFails
<1>12. CASE Keep
  <2>1. /\ git' = [git EXCEPT !.best = state.workingRevision]
        /\ WorktreeIs(state.workingRevision) /\ state.phase = "keep"
    BY <1>12 DEF Keep, Performing
  <2>2. /\ git'.worktree = git.worktree /\ git'.head = git.head
        /\ git'.dirty = git.dirty /\ git'.saved = git.saved
    BY <1>1, <2>1 DEF GitStates
  <2> QED
    BY <1>1, <1>2, <2>1, <2>2 DEF Lands, Refs, WorktreeIs
<1>13. CASE Discard /\ effect' # Failed
  <2>1. /\ WorktreeIs(state.workingRevision) /\ state.phase = "discard"
        /\ state.bestRevision \in Snapshot(git).saved
        /\ git' = Select(Snapshot(git), state.bestRevision)
        /\ Ends([kind |-> "discarded", revision |-> state.bestRevision], None)
    BY <1>13 DEF Discard, Performing
  <2>2. o # Error
    BY <1>13, <2>1 DEF Ends, Error
  <2>3. /\ git'.worktree = "saved" /\ git'.head = state.bestRevision
        /\ ~git'.dirty /\ state.bestRevision \in git'.saved
    BY <1>1, <2>1, SelectFacts DEF WorktreeIs
  <2> QED
    BY <1>2, <2>1, <2>2, <2>3 DEF Lands
<1>14. CASE Finish
  <2>1. state.phase = "finish"
    BY <1>14 DEF Finish, Performing
  <2> QED
    BY <1>2, <1>3, <2>1
<1> QED
  BY <1>3, <1>5, <1>6, <1>7, <1>8, <1>9, <1>10, <1>11, <1>12, <1>13, <1>14
     DEF performLiveStep

\* A step about to be performed has saved nothing.
LEMMA NotSaved ==
  ASSUME IInv, pc \in {"performing", "performed"}
  PROVE  Active /\ ~StepSaved
<1>1. Active /\ state.phase \in WorkPhases /\ state.sequence \in Nat
  BY DEF IInv, StepInv, Working, TypeInv, TypeOK, RunStates
<1>2. results[state.phase] # None =>
        results[state.phase].step \in Nat /\ results[state.phase].step < state.sequence
  BY <1>1 DEF IInv, SequenceInv, TypeInv, TypeOK, Records
<1> QED
  BY <1>1, <1>2 DEF StepSaved

\* Every step keeps the worktree where the state wants it.
LEMMA GitStep == IInv /\ [Next]_vars => GitInv'
<1> SUFFICES ASSUME IInv, [Next]_vars PROVE GitInv'
  OBVIOUS
<1>0. /\ TypeInv /\ StepInv /\ SequenceInv /\ GateInv /\ GitInv
      /\ state \in RunStates(Revisions)
  BY DEF IInv, TypeInv, TypeOK
<1>1. CASE BeginStep
  <2>1. /\ pc = "loop" /\ pc' = "performing" /\ ~Active
        /\ \/ state'.phase = state.phase
           \/ state'.phase = "finish"
           \/ state'.phase = "discard" /\ state.phase = "repair"
        /\ state'.workingRevision = state.workingRevision
        /\ state'.bestRevision = state.bestRevision
        /\ UNCHANGED <<results, effect, git>>
    BY <1>0, <1>1, BeginStepFacts DEF Active
  <2>2. Lands(git, state) /\ Refs(git, state)
    BY <1>0, <2>1 DEF GitInv
  <2>3. Lands(git', state') /\ Refs(git', state')
    BY <2>1, <2>2 DEF Lands, Refs
  <2>4. ~StepSaved'
    <3>1. /\ state'.sequence = state.sequence + 1 /\ state.sequence \in Nat
          /\ state'.phase \in WorkPhases
      BY <1>0, <1>1, BeginStepFacts DEF RunStates, Phases, WorkPhases, UnlimitedPhases
    <3>2. results[state'.phase] # None => results[state'.phase].step \in Nat
      BY <1>0, <3>1 DEF TypeInv, TypeOK, Records
    <3>3. results[state'.phase] # None => results[state'.phase].step <= state.sequence
      BY <1>0, <3>1 DEF SequenceInv
    <3> QED
      BY <2>1, <3>1, <3>2, <3>3 DEF StepSaved
  <2> QED
    BY <1>0, <2>1, <2>3, <2>4 DEF GitInv
<1>2. CASE performLiveStep
  <2>1. /\ pc = "performing" /\ pc' = "performed" /\ UNCHANGED <<state, results>>
    BY <1>0, <1>2, EffectFacts
  <2>2. Active' /\ ~StepSaved'
    BY <2>1, NotSaved DEF Active, StepSaved
  <2>3. Refs(git', state')
    BY <1>2, <2>1, EffectRefs
  <2>4. MayFinish(state, state.sequence, effect'.outcome)
          => Lands(git', finishStep(state, effect'.outcome))
    BY <1>2, EffectLands
  <2> QED
    BY <1>0, <2>1, <2>2, <2>3, <2>4 DEF GitInv
<1>3. CASE SaveResult
  <2>1. PICK r \in Records :
          /\ results' = [results EXCEPT ![state.phase] = r]
          /\ r.outcome \in {effect.outcome, Error}
          /\ MayFinish(state, state.sequence, r.outcome)
    BY <1>0, <1>3, SaveFacts
  <2>2. /\ pc = "performed" /\ pc' = "saved" /\ Active /\ state.phase \in WorkPhases
        /\ UNCHANGED <<state, git>>
    BY <1>0, <1>3, SaveFacts
  <2>3. results'[state.phase] = r
    BY <1>0, <2>1, <2>2 DEF TypeInv, TypeOK
  <2>4. Lands(git, finishStep(state, r.outcome))
    <3>1. CASE r.outcome = Error
      <4>1. Error \in Outcomes(Revisions)
        BY OutcomeIntro
      <4>2. finishStep(state, r.outcome).phase = "finish"
        BY <1>0, <2>1, <3>1, <4>1, FinishFacts
      <4> QED
        BY <4>2 DEF Lands
    <3>2. CASE r.outcome = effect.outcome
      BY <1>0, <2>1, <2>2, <3>2 DEF GitInv
    <3> QED
      BY <2>1, <3>1, <3>2
  <2>5. Refs(git', state') /\ (state'.phase = "prepare" => state'.bestRevision = state'.workingRevision)
    BY <1>0, <2>2 DEF GitInv
  <2> QED
    BY <2>2, <2>3, <2>4, <2>5 DEF GitInv, Active
<1>4. CASE Advance \/ Recover
  <2> DEFINE o == results[state.phase].outcome
  <2>1. /\ o \in Outcomes(Revisions) /\ Active /\ StepSaved
        /\ MayFinish(state, state.sequence, o) /\ state' = finishStep(state, o)
        /\ UNCHANGED git /\ pc' \in {"loop", "down"}
        /\ state.phase \in WorkPhases
    BY <1>0, <1>4, AdvanceFacts
  <2>2. Lands(git, state') /\ Refs(git, state)
    BY <1>0, <2>1 DEF GitInv
  <2> HIDE DEF o
  <2>3. state'.activeStep = 0 /\ state'.phase # "prepare"
    BY <1>0, <2>1, FinishFacts
       DEF WorkPhases, CommandPhases, inferencePhases, UnlimitedPhases
  <2>4. \/ /\ state'.phase = "test"
           /\ state'.bestRevision = state.bestRevision
        \/ /\ state'.workingRevision \in {state.workingRevision, state.bestRevision}
           /\ state'.bestRevision = state.bestRevision
        \/ /\ state'.workingRevision = state.workingRevision
           /\ state'.bestRevision = state.workingRevision
    BY <1>0, <2>1, FinishFacts
  <2>5. Refs(git, state')
    BY <2>2, <2>4 DEF Lands, Refs
  <2> QED
    BY <2>1, <2>2, <2>3, <2>5 DEF GitInv, Active
<1>5. CASE Others
  <2>1. /\ UNCHANGED <<state, results, git>>
        /\ pc' \in {"down", "loop"} \/ UNCHANGED <<pc, effect>>
    BY <1>0, <1>5, OtherFacts
  <2> QED
    BY <1>0, <2>1 DEF GitInv, Active, StepSaved
<1> QED
  BY <1>0, <1>1, <1>2, <1>3, <1>4, <1>5, RunSteps

\* What the finish step knows of depends on the results and the worktree.
LEMMA KnownSame ==
  ASSUME UNCHANGED results, git'.worktree = git.worktree
  PROVE  Known' = Known
  BY DEF Known, ScopesStopped

\* What a step other than the last leaves running is its own, and only a
\* failed step leaves anything.
LEMMA EffectUnits ==
  ASSUME IInv, performLiveStep, state.phase # "finish",
         NEW o, o = effect'.outcome
  PROVE  /\ units' \subseteq UnitsOf(state)
         /\ <<"repl", 0>> \in units' => git'.worktree = "saved"
         /\ (units' # {} /\ MayFinish(state, state.sequence, o))
              => finishStep(state, o).phase = "finish"
<1> USE DEF IInv
<1>1. /\ state \in RunStates(Revisions) /\ git \in GitStates
      /\ o \in Outcomes(Revisions)
      /\ git.worktree = "saved" => git.head \in Revisions
  BY EffectFacts DEF TypeInv, TypeOK, GitStates, Effects
<1>2. units = {}
  BY EffectFacts DEF UnitsInv, Ending, StepInv, Working, WorkPhases, CommandPhases,
                     inferencePhases, UnlimitedPhases
<1>3. ASSUME effect' = Failed, MayFinish(state, state.sequence, o)
      PROVE  finishStep(state, o).phase = "finish"
  <2>1. o = Error
    BY <1>3 DEF Failed
  <2> QED
    BY <1>1, <1>3, <2>1, FinishFacts
<1>4. <<"repl", 0>> \in UnitsOf(state) => state.phase \in {"implement", "repair"}
  BY DEF UnitsOf
<1>5. ASSUME CommandFails, WorktreeIs(state.workingRevision)
      PROVE  /\ units' \subseteq UnitsOf(state) /\ effect' = Failed
             /\ git'.worktree = "saved"
  BY <1>1, <1>2, <1>5, TouchedFacts DEF CommandFails, LeftOf, WorktreeIs
<1>6. CASE Prepare
  <2>1. /\ units' = {} \/ effect' = Failed
        /\ units' \subseteq UnitsOf(state) /\ state.phase = "prepare"
    BY <1>2, <1>6 DEF Prepare, LeftOf, Performing
  <2> QED
    BY <1>3, <1>4, <2>1
<1>7. CASE Edit
  <2>1. CASE CommandFails
    BY <1>3, <1>5, <1>7, <2>1 DEF Edit
  <2>2. ASSUME NEW g \in Touched(git), git' \in Touched(Snapshot(g)),
               units' = units \/ (effect' = Failed /\ units' = units \cup {<<"repl", 0>>})
        PROVE  /\ units' \subseteq UnitsOf(state)
               /\ <<"repl", 0>> \in units' => git'.worktree = "saved"
               /\ (units' # {} /\ MayFinish(state, state.sequence, o))
                    => finishStep(state, o).phase = "finish"
    <3>1. g \in GitStates /\ g.head \in Revisions /\ g.worktree = "saved"
      BY <1>1, <1>7, TouchedFacts DEF Edit, WorktreeIs
    <3>2. git'.worktree = "saved"
      BY <2>2, <3>1, SnapshotFacts, TouchedFacts
    <3>3. <<"repl", 0>> \in UnitsOf(state)
      BY <1>7 DEF Edit, Performing, UnitsOf
    <3> QED
      BY <1>2, <1>3, <2>2, <3>2, <3>3
  <2> QED
    BY <1>7, <2>1, <2>2 DEF Edit
<1>8. CASE Measure
  <2>1. CASE CommandFails
    BY <1>3, <1>5, <1>8, <2>1 DEF Measure
  <2>2. CASE units' = units
    BY <1>2, <2>2
  <2>3. CASE /\ Ends(NoMeasurement(state.phase = "baseline"), None)
             /\ \E left \in LeftOf(state) : units' = units \cup left
    <3>1. units' \subseteq UnitsOf(state) /\ state.phase \in {"baseline", "measure"}
      BY <1>2, <1>8, <2>3 DEF LeftOf, Measure, Performing
    <3>2. CASE effect' = Failed
      BY <1>3, <1>4, <3>1, <3>2
    <3>3. CASE effect' # Failed
      <4>1. o = NoMeasurement(state.phase = "baseline")
        BY <2>3, <3>3 DEF Ends
      <4>2. o # Error /\ o.valid = FALSE /\ o.inconclusive = (state.phase = "baseline")
        BY <4>1 DEF Error, NoMeasurement
      <4>3. ASSUME MayFinish(state, state.sequence, o), NEW s, s = finishStep(state, o)
            PROVE  s.phase = "finish"
        <5>1. CASE state.phase = "baseline"
          <6>1. o # Error /\ ~o.valid
            BY <4>2
          <6> QED
            BY <1>1, <4>3, <5>1, <6>1, FinishFacts
        <5>2. CASE state.phase = "measure"
          <6>1. o # Error /\ ~o.valid /\ ~o.inconclusive
            BY <4>2, <5>2
          <6> QED
            BY <1>1, <4>3, <5>2, <6>1, FinishFacts
        <5> QED
          BY <3>1, <5>1, <5>2
      <4> QED
        BY <1>4, <3>1, <4>3
    <3> QED
      BY <3>2, <3>3
  <2> QED
    BY <1>8, <2>1, <2>2, <2>3 DEF Measure
<1>9. CASE RunCommand \/ RunTests \/ Consult
  <2>1. WorktreeIs(state.workingRevision) /\ (CommandFails \/ units' = units)
    BY <1>9 DEF RunCommand, RunTests, Consult
  <2> QED
    BY <1>2, <1>3, <1>5, <2>1
<1>10. CASE Refuse \/ Keep \/ Discard
  BY <1>2, <1>10 DEF Refuse, Keep, Discard
<1>11. ~Finish
  BY DEF Finish, Performing
<1> QED
  BY <1>6, <1>7, <1>8, <1>9, <1>10, <1>11 DEF performLiveStep

\* The finish step stops whatever it knows of, and leaves the worktree clean.
LEMMA FinishUnits ==
  ASSUME IInv, performLiveStep, state.phase = "finish"
  PROVE  /\ units' \subseteq Known'
         /\ effect'.outcome # Error => Clean(git', units')
<1> USE DEF IInv
<1>1. /\ git \in GitStates /\ UNCHANGED results
      /\ state.bestRevision \in Revisions
      /\ git.worktree = "saved" => git.head \in Revisions
  BY EffectFacts DEF TypeInv, TypeOK, GitStates, RunStates
<1>2. units \subseteq Known
  BY EffectFacts DEF UnitsInv
<1>3. Finish
  BY DEF performLiveStep, Refuse, Prepare, RunCommand, RunTests, Consult, Edit,
         Measure, Keep, Discard, Performing
<1>4. CASE /\ \E left \in SUBSET (units \cap ScopesStopped) :
                 units' = (units \ ScopesStopped) \cup left
           /\ git' \in {git} \cup (IF git.worktree = "saved" THEN {Snapshot(git)} ELSE {})
           /\ effect' = Failed
  <2>1. units' \subseteq units
    BY <1>4
  <2>2. git'.worktree = git.worktree
    BY <1>1, <1>4, SnapshotFacts
  <2>3. Known' = Known
    BY <1>1, <2>2, KnownSame
  <2>4. effect'.outcome = Error
    BY <1>4 DEF Failed
  <2> QED
    BY <1>2, <2>1, <2>3, <2>4
<1>5. CASE /\ units' = units \ ScopesStopped
           /\ IF git.worktree = "saved"
              THEN /\ state.bestRevision \in Snapshot(git).saved
                   /\ git' = Select(Snapshot(git), state.bestRevision)
              ELSE UNCHANGED git
  <2>1. units' \subseteq {<<"repeat", 0>>}
    BY <1>2, <1>5 DEF Known
  <2>2. git'.worktree = "saved" => git'.head = state.bestRevision /\ ~git'.dirty
    BY <1>1, <1>5, SelectFacts
  <2>3. units' \subseteq Known'
    BY <2>1 DEF Known
  <2> QED
    BY <2>1, <2>2, <2>3 DEF Clean
<1> QED
  BY <1>3, <1>4, <1>5 DEF Finish

\* Every step keeps what outlives a command in reach of the finish step.
LEMMA UnitsStep == IInv /\ [Next]_vars => UnitsInv'
<1> SUFFICES ASSUME IInv, [Next]_vars PROVE UnitsInv'
  OBVIOUS
<1>0. /\ TypeInv /\ StepInv /\ SequenceInv /\ GateInv /\ GitInv /\ UnitsInv
      /\ state \in RunStates(Revisions)
  BY DEF IInv, TypeInv, TypeOK
<1>1. CASE BeginStep
  <2>1. /\ pc = "loop" /\ pc' = "performing" /\ ~Active
        /\ state.phase # "done" /\ state'.phase # "done"
        /\ \/ state'.phase = state.phase
           \/ state'.phase = "finish" /\ state.phase # "finish"
           \/ state'.phase = "discard" /\ state.phase = "repair"
        /\ UNCHANGED <<results, effect, git, units>>
    BY <1>0, <1>1, BeginStepFacts DEF Active
  <2>2. ~StepSaved'
    <3>1. /\ state'.sequence = state.sequence + 1 /\ state.sequence \in Nat
          /\ state'.phase \in WorkPhases
      BY <1>0, <1>1, BeginStepFacts DEF RunStates, Phases, WorkPhases, UnlimitedPhases
    <3>2. results[state'.phase] # None => results[state'.phase].step \in Nat
      BY <1>0, <3>1 DEF TypeInv, TypeOK, Records
    <3>3. results[state'.phase] # None => results[state'.phase].step <= state.sequence
      BY <1>0, <3>1 DEF SequenceInv
    <3> QED
      BY <2>1, <3>1, <3>2, <3>3 DEF StepSaved
  <2>3. CASE state.phase = "finish"
    <3>1. units \subseteq Known /\ Known' = Known /\ state'.phase = "finish"
      BY <1>0, <2>1, <2>3, KnownSame DEF UnitsInv
    <3> QED
      BY <2>1, <2>2, <3>1 DEF UnitsInv, Ending
  <2>4. CASE state.phase # "finish"
    <3>1. units = {}
      BY <1>0, <2>1, <2>4 DEF UnitsInv, Ending
    <3> QED
      BY <2>1, <2>2, <3>1 DEF UnitsInv, Ending
  <2> QED
    BY <2>3, <2>4
<1>2. CASE performLiveStep
  <2>1. /\ pc = "performing" /\ pc' = "performed" /\ UNCHANGED <<state, results>>
    BY <1>0, <1>2, EffectFacts
  <2>2. Active' /\ ~StepSaved' /\ state'.phase # "done"
    BY <1>0, <2>1, NotSaved DEF Active, StepSaved, StepInv, WorkPhases, CommandPhases,
                                inferencePhases, UnlimitedPhases
  <2>3. CASE state.phase = "finish"
    <3>1. units' \subseteq Known' /\ (effect'.outcome # Error => Clean(git', units'))
      BY <1>2, <2>3, FinishUnits
    <3>2. Clean(git', units') => Clean(git, units)'
      BY <2>1 DEF Clean
    <3> QED
      BY <2>1, <2>2, <2>3, <3>1, <3>2 DEF UnitsInv
  <2>4. CASE state.phase # "finish"
    <3>1. /\ units' \subseteq UnitsOf(state)
          /\ <<"repl", 0>> \in units' => git'.worktree = "saved"
          /\ (units' # {} /\ MayFinish(state, state.sequence, effect'.outcome))
               => finishStep(state, effect'.outcome).phase = "finish"
      BY <1>2, <2>4, EffectUnits
    <3> QED
      BY <2>1, <2>2, <2>4, <3>1 DEF UnitsInv
  <2> QED
    BY <2>3, <2>4
<1>3. CASE SaveResult
  <2>1. PICK r \in Records :
          /\ r # None
          /\ results' = [results EXCEPT ![state.phase] = r]
          /\ r.step = state.sequence
          /\ r.outcome \in {effect.outcome, Error}
          /\ MayFinish(state, state.sequence, r.outcome)
    BY <1>0, <1>3, SaveFacts
  <2>2. /\ pc = "performed" /\ pc' = "saved" /\ Active /\ state.phase \in WorkPhases
        /\ UNCHANGED <<state, git, units>>
    BY <1>0, <1>3, SaveFacts
  <2>3. /\ results'[state.phase] = r
        /\ \A p \in WorkPhases : p # state.phase => results'[p] = results[p]
    BY <1>0, <2>1, <2>2 DEF TypeInv, TypeOK
  <2>4. Active' /\ state'.phase # "done"
    BY <2>2 DEF Active, WorkPhases, CommandPhases, inferencePhases, UnlimitedPhases
  <2>5. CASE state.phase = "finish"
    <3>1. Known \subseteq Known'
      BY <2>2, <2>3, <2>5
         DEF Known, ScopesStopped, WorkPhases, CommandPhases, inferencePhases
    <3>2. units' \subseteq Known'
      BY <1>0, <2>2, <2>5, <3>1 DEF UnitsInv
    <3>3. results'["finish"].outcome # Error => Clean(git, units)'
      BY <1>0, <2>1, <2>2, <2>3, <2>5 DEF UnitsInv, Clean
    <3> QED
      BY <2>2, <2>4, <2>5, <3>2, <3>3 DEF UnitsInv
  <2>6. CASE state.phase # "finish"
    <3>1. /\ units \subseteq UnitsOf(state)
          /\ <<"repl", 0>> \in units => git.worktree = "saved"
      BY <1>0, <2>2, <2>6 DEF UnitsInv
    <3>2. UnitsOf(state) \subseteq Known' \cup {<<"repl", 0>>}
      <4>1. results'[state.phase] # None /\ results'[state.phase].step = state.sequence
        BY <2>1, <2>3
      <4> QED
        BY <4>1 DEF UnitsOf, Known, ScopesStopped, inferencePhases
    <3>3. units' \subseteq Known'
      BY <2>2, <3>1, <3>2 DEF Known, ScopesStopped
    <3>4. units # {} => finishStep(state, r.outcome).phase = "finish"
      <4>1. CASE r.outcome = Error
        <5>1. Error \in Outcomes(Revisions)
          BY OutcomeIntro
        <5> QED
          BY <1>0, <2>1, <4>1, <5>1, FinishFacts
      <4>2. CASE r.outcome = effect.outcome
        BY <1>0, <2>1, <2>2, <2>6, <4>2 DEF UnitsInv
      <4> QED
        BY <2>1, <4>1, <4>2
    <3> QED
      BY <2>2, <2>3, <2>4, <2>6, <3>3, <3>4 DEF UnitsInv
  <2> QED
    BY <2>5, <2>6
<1>4. CASE Advance \/ Recover
  <2> DEFINE o == results[state.phase].outcome
  <2>1. /\ o \in Outcomes(Revisions) /\ Active /\ StepSaved
        /\ MayFinish(state, state.sequence, o) /\ state' = finishStep(state, o)
        /\ UNCHANGED <<results, git, units>> /\ pc' \in {"loop", "down"}
        /\ state.phase \in WorkPhases
    BY <1>0, <1>4, AdvanceFacts
  <2>2. Known' = Known
    BY <2>1, KnownSame
  <2>3. /\ units \subseteq Known
        /\ state.phase # "finish" => (units # {} => state'.phase = "finish")
        /\ (state.phase = "finish" /\ o # Error) => Clean(git, units)
    BY <1>0, <2>1 DEF UnitsInv
  <2> HIDE DEF o
  <2>4. /\ state'.activeStep = 0
        /\ state.phase = "finish" =>
             /\ state'.phase \in {"finish", "done"}
             /\ state'.phase = "done" => o # Error
             /\ state'.bestRevision = state.bestRevision
        /\ state.phase # "finish" => state'.phase # "done"
    BY <1>0, <2>1, FinishFacts
       DEF WorkPhases, CommandPhases, inferencePhases, UnlimitedPhases
  <2>5. state'.phase = "done" => Clean(git, units)'
    BY <2>1, <2>3, <2>4 DEF Clean
  <2>6. ~Active' /\ units' \subseteq Known' /\ (units' # {} => Ending')
    BY <2>1, <2>2, <2>3, <2>4 DEF Active, Ending
  <2> QED
    BY <2>1, <2>5, <2>6 DEF UnitsInv
<1>5. CASE Others
  <2>1. /\ UNCHANGED <<state, results, git>>
        /\ pc' \in {"down", "loop"} \/ UNCHANGED <<pc, effect, units>>
        /\ pc' = "loop" => ~Active \/ pc = "loop"
    BY <1>0, <1>5, OtherFacts
  <2>2. units' \subseteq units \/ (pc = "performing" /\ pc' = "down")
    BY <1>5 DEF Others, WriteReport, Crash, Resume, StopChildren, Abandon, vars
  <2>3. Known' = Known /\ (Clean(git, units) /\ units' \subseteq units => Clean(git, units)')
    BY <2>1, KnownSame DEF Clean
  <2>4. CASE units' \subseteq units
    BY <1>0, <2>1, <2>3, <2>4 DEF UnitsInv, Active, StepSaved, Ending
  <2>5. CASE pc = "performing" /\ pc' = "down"
    <3>1. Active' /\ ~StepSaved' /\ state'.phase # "done"
      BY <1>0, <2>1, <2>5, NotSaved
         DEF Active, StepSaved, StepInv, WorkPhases, CommandPhases, inferencePhases,
             UnlimitedPhases
    <3> QED
      BY <2>5, <3>1 DEF UnitsInv
  <2> QED
    BY <2>2, <2>4, <2>5
<1> QED
  BY <1>0, <1>1, <1>2, <1>3, <1>4, <1>5, RunSteps
\* The conjunction is inductive.
LEMMA StepIInv == IInv /\ [Next]_vars => IInv'
  BY TypeStep, StepStep, SequenceStep, GateStep, GitStep, UnitsStep DEF IInv

\* It holds in every behaviour of a run.
LEMMA Invariance == Spec => []IInv
  BY InitIInv, StepIInv, PTL DEF Spec

-------------------------------------------------------------------------------
(* Theorems.                                                               *)

\* No effect of a step happens twice.
THEOREM EffectHappensOnce == Spec => EffectOnce
<1>1. IInv /\ [Next]_vars =>
        [(pc = "performing" /\ pc' = "performed") => performed < state.sequence]_vars
  BY DEF IInv, SequenceInv
<1> QED
  BY <1>1, Invariance, PTL DEF Spec, EffectOnce

\* The worktree follows the state where the invariant holds.
LEMMA InvWorktreeFollows == IInv => WorktreeFollows
<1> SUFFICES ASSUME IInv, pc = "performing"
             PROVE  /\ state.phase \notin {"prepare", "finish"} =>
                         /\ git.worktree = "saved" /\ git.head = state.workingRevision
                         /\ git.dirty => state.phase = "test"
                    /\ git.worktree = "saved" => state.bestRevision \in git.saved
  BY DEF WorktreeFollows
<1>1. state.phase # "done"
  BY DEF IInv, StepInv, Working, WorkPhases, CommandPhases, inferencePhases,
         UnlimitedPhases
<1>2. Lands(git, state) /\ Refs(git, state)
  BY DEF IInv, GitInv
<1> QED
  BY <1>1, <1>2 DEF Lands, Refs

\* The saved state and the worktree agree whenever a step is performed.
THEOREM WorktreeAgrees == Spec => []WorktreeFollows
  BY InvWorktreeFollows, Invariance, PTL

\* And the run leaves what it should.
LEMMA InvRunSound == IInv => RunSound
<1>1. IInv => TypeOK
  BY DEF IInv, TypeInv
<1>2. IInv => FinishedClean
  BY DEF IInv, UnitsInv, Clean, FinishedClean, WorktreeIs
<1> QED
  BY <1>1, <1>2 DEF RunSound

\* The saved state keeps its type, and a run that is done has left its worktree
\* clean and at the best revision, and nothing running but, at most, the
\* processes of one scope.
THEOREM FinishLeavesClean == Spec => []RunSound
  BY InvRunSound, Invariance, PTL

\* A step that replaces the best revision completes the keep phase.
LEMMA EarnedStep ==
  ASSUME IInv, [Next]_vars, state'.bestRevision # state.bestRevision
  PROVE  LET rev == state'.bestRevision
             tested == results["test"]
             measured == results["measure"]
             reviewed == results["review"]
             edits == {results[p] : p \in {"implement", "repair"}} \ {None}
         IN  /\ None \notin {tested, measured, reviewed}
             /\ \A r \in {tested, measured, reviewed} :
                   r.outcome # Error /\ r.outcome.revision = rev
             /\ tested.outcome.passed /\ reviewed.outcome.passed
             /\ measured.outcome.valid /\ measured.outcome.improved
             /\ \A e \in edits : e.step < tested.step
             /\ tested.step < measured.step /\ measured.step < reviewed.step
             /\ reviewed.step < state.sequence
<1> USE DEF IInv
<1>1. Advance \/ Recover
  <2>1. ~BeginStep
    BY BeginStepFacts
  <2>2. ~performLiveStep
    BY EffectFacts
  <2>3. ~SaveResult
    BY SaveFacts
  <2>4. ~Others
    BY OtherFacts
  <2> QED
    BY <2>1, <2>2, <2>3, <2>4, RunSteps
<1>2. /\ state \in RunStates(Revisions) /\ Active
      /\ results[state.phase].outcome \in Outcomes(Revisions)
      /\ MayFinish(state, state.sequence, results[state.phase].outcome)
      /\ state' = finishStep(state, results[state.phase].outcome)
  BY <1>1, AdvanceFacts DEF TypeInv, TypeOK
<1>3. state.phase = "keep" /\ state'.bestRevision = state.workingRevision
  BY <1>2, FinishFacts
<1>4. TestedNow /\ MeasuredNow /\ ReviewedNow
  BY <1>3 DEF GateInv
<1>5. results["review"].step < state.sequence
  BY <1>2, <1>3, <1>4 DEF SequenceInv, ReviewedNow, WorkPhases, inferencePhases
<1>6. /\ results["test"].outcome # Error
      /\ results["measure"].outcome # Error
      /\ results["review"].outcome # Error
  BY <1>4 DEF TestedNow, MeasuredNow, ReviewedNow, Error
<1> QED
  BY <1>3, <1>4, <1>5, <1>6 DEF TestedNow, MeasuredNow, ReviewedNow

\* A revision only becomes the best one on saved results of its own: tests,
\* then an improving measurement, then a review, and no edit since the tests.
THEOREM KeptIsEarned == Spec => KeepEarned
<1>1. IInv /\ [Next]_vars =>
        [state'.bestRevision # state.bestRevision =>
         LET rev == state'.bestRevision
             tested == results["test"]
             measured == results["measure"]
             reviewed == results["review"]
             edits == {results[p] : p \in {"implement", "repair"}} \ {None}
         IN  /\ None \notin {tested, measured, reviewed}
             /\ \A r \in {tested, measured, reviewed} :
                   r.outcome # Error /\ r.outcome.revision = rev
             /\ tested.outcome.passed /\ reviewed.outcome.passed
             /\ measured.outcome.valid /\ measured.outcome.improved
             /\ \A e \in edits : e.step < tested.step
             /\ tested.step < measured.step /\ measured.step < reviewed.step
             /\ reviewed.step < state.sequence]_vars
  BY EarnedStep
<1> QED
  BY <1>1, Invariance, PTL DEF Spec, KeepEarned

\* A new run is a new run of the contract.
LEMMA ContractInit == Init => Contract!Init
  BY NonZero DEF Init, newRun, Contract!Init

\* Every step of a run is a step of the contract, or none.
LEMMA ContractStep ==
  ASSUME IInv, [Next]_vars
  PROVE  [Contract!Next]_(Contract!contractVars)
<1> USE DEF IInv
<1> DEFINE Stage(p) == CASE p = "test" -> "edited"
                         [] p = "measure" -> "tested"
                         [] p = "review" -> "measured"
                         [] p = "keep" -> "approved"
                         [] OTHER -> "none"
<1>1. CASE BeginStep
  <2>1. /\ state'.workingRevision = state.workingRevision
        /\ state'.bestRevision = state.bestRevision
        /\ state'.phase \in {state.phase, "finish", "discard"}
    BY <1>1, BeginStepFacts
  <2> QED
    BY <2>1 DEF Contract!Next, Contract!Return, Contract!contractVars
<1>2. CASE performLiveStep
  BY <1>2, EffectFacts DEF Contract!contractVars
<1>3. CASE SaveResult
  BY <1>3, SaveFacts DEF Contract!contractVars
<1>4. CASE Others
  BY <1>4, OtherFacts DEF Contract!contractVars
<1>5. CASE Advance \/ Recover
  <2> DEFINE o == results[state.phase].outcome
  <2>1. /\ state \in RunStates(Revisions) /\ o \in Outcomes(Revisions)
        /\ state.phase \in WorkPhases
        /\ MayFinish(state, state.sequence, o)
        /\ state' = finishStep(state, o)
    BY <1>5, AdvanceFacts DEF TypeInv, TypeOK
  <2>2. state'.workingRevision \in Revisions
    <3> HIDE DEF o
    <3> QED
      BY <2>1, FinishFacts DEF RunStates
  <2> HIDE DEF o
  <2>3. CASE o # Error /\ state.phase \in {"implement", "repair"}
    <3>1. /\ state'.phase = "test" /\ state'.bestRevision = state.bestRevision
      BY <2>1, <2>3, FinishFacts
    <3> QED
      BY <2>2, <2>3, <3>1 DEF Contract!Next, Contract!Edit
  <2>4. CASE o # Error /\ state.phase = "keep"
    <3>1. /\ state'.phase \in {"start-attempt", "finish"}
          /\ state'.bestRevision = state.workingRevision
          /\ state'.workingRevision = state.workingRevision
      BY <2>1, <2>4, FinishFacts
    <3> QED
      BY <2>4, <3>1 DEF Contract!Next, Contract!Accept
  <2>5. CASE o # Error /\ state.phase \in {"test", "measure", "review"}
    <3>1. /\ \/ state.phase = "test" /\ state'.phase = "measure"
             \/ state.phase = "measure" /\ state'.phase = "review"
             \/ state.phase = "review" /\ state'.phase = "keep"
             \/ state'.phase \in {"repair", "discard", "finish"}
          /\ state'.bestRevision = state.bestRevision
          /\ state'.workingRevision = state.workingRevision
      BY <2>1, <2>5, FinishFacts
    <3> QED
      BY <2>5, <3>1 DEF Contract!Next, Contract!Pass, Contract!Return
  <2>6. CASE \/ o = Error
             \/ state.phase \notin {"implement", "repair", "keep", "test", "measure", "review"}
    <3>1. /\ state'.phase \notin {"test", "measure", "review", "keep"}
          /\ state'.bestRevision = state.bestRevision
          /\ state'.workingRevision \in {state.workingRevision, state.bestRevision}
      BY <2>1, <2>6, FinishFacts DEF WorkPhases, CommandPhases, inferencePhases, UnlimitedPhases
    <3> QED
      BY <3>1 DEF Contract!Next, Contract!Return
  <2> QED
    BY <2>3, <2>4, <2>5, <2>6
<1> QED
  BY <1>1, <1>2, <1>3, <1>4, <1>5, RunSteps

\* A run implements the contract: nothing replaces the best revision but a
\* candidate that was edited, tested, measured and approved, in that order.
THEOREM Implementation == Spec => ImplementsContract
<1>1. IInv /\ [Next]_vars => [Contract!Next]_(Contract!contractVars)
  BY ContractStep
<1> QED
  BY <1>1, ContractInit, Invariance, PTL DEF Spec, ImplementsContract, Contract!Spec

-------------------------------------------------------------------------------
(* The report.                                                             *)

\* The measurement of the baseline.
Base == results["baseline"].detail

\* The one that every later one is held against: the baseline of the first run.
Original == IF parent # None /\ parent.initial # None THEN parent.initial ELSE Base

\* The measurement d is one of rev, and meets the goal.
Met(d, rev, base) ==
  /\ d # None /\ d.revision = rev
  /\ assessGoal(base, d) /\ protectedPerformance(base, d)

Prepared == results["prepare"] # None /\ results["prepare"].outcome # Error

\* A failed step ends the run as failed, whatever the reason to stop was before.
FailedInv ==
  /\ state.stopReason \in {"error", "target-met"} => Ending
  /\ \A p \in WorkPhases : (results[p] # None /\ results[p].outcome = Error) =>
        \/ Active /\ p = state.phase /\ StepSaved
        \/ state.stopReason = "error"

\* The first two phases are not come back to.
FirstInv ==
  /\ (state.phase = "prepare" /\ results["prepare"] # None) => Active /\ StepSaved
  /\ state.phase \in {"prepare", "baseline"} =>
       results["keep"] = None /\ state.bestRevision = state.workingRevision

\* The best revision once the active step is completed.
Due == IF state.phase = "keep" THEN state.workingRevision ELSE state.bestRevision

\* The best ref follows the state, or will when the active step is completed.
BestRefInv ==
  state.stopReason # "error" =>
    /\ ((~Active \/ pc = "performing") /\ Prepared) => git.best = state.bestRevision
    /\ (/\ pc = "performed" /\ (Prepared \/ state.phase = "prepare")
        /\ effect.outcome # Error) => git.best = Due
    /\ (/\ Active /\ StepSaved /\ Prepared
        /\ results[state.phase].outcome # Error) => git.best = Due

\* The detail d of a step says what its outcome o promises.
Backed(o, d) ==
  o # Error =>
    /\ (state.phase \in {"baseline", "measure"} /\ o.targetMet)
         => Met(d, state.workingRevision, Initial(d))
    /\ state.phase = "keep" => d = results["measure"].detail

\* The measurement of the best revision.
Latest == IF results["keep"] # None THEN results["keep"].detail ELSE Base

\* A target that was met was met by a measurement, from the step that made it to
\* the end of the run.
TargetInv ==
  /\ pc = "performed" => Backed(effect.outcome, effect.detail)
  /\ (Active /\ StepSaved)
       => Backed(results[state.phase].outcome, results[state.phase].detail)
  /\ (state.targetMet /\ state.phase \in {"review", "keep"})
       => Met(results["measure"].detail, state.workingRevision, Original)
  /\ state.stopReason = "target-met" => Met(Latest, state.bestRevision, Original)
  /\ (state.phase = "done" /\ state.targetMet) => state.stopReason = "target-met"

\* The report says what the state said when the run was done.
ReportInv ==
  report # None =>
    /\ state.phase = "done"
    /\ report.bestRevision = state.bestRevision
    /\ report.targetMet = state.targetMet
    /\ report.valid => BestVerified /\ state.stopReason # "error"

HonestInv == FailedInv /\ FirstInv /\ BestRefInv /\ TargetInv /\ ReportInv

\* A limit only adds its own reason to stop, and to no run that is ending.
LEMMA BeginReasons ==
  ASSUME NEW s \in RunStates(Revisions), NEW t \in Nat, s.activeStep = 0,
         NEW r, r = beginSavedStep(s, t)
  PROVE  /\ r.stopReason \in {s.stopReason, "limit"}
         /\ r.targetMet = s.targetMet
         /\ s.phase = "finish" => r.stopReason = s.stopReason /\ r.phase = "finish"
<1>1. ASSUME NEW q \in RunStates(Revisions)
      PROVE  /\ Reserve(q, t).stopReason = q.stopReason
             /\ Reserve(q, t).targetMet = q.targetMet
             /\ Reserve(q, t).phase = q.phase
             /\ Reserve(q, t).activeStep # 0
  <2>1. Reserve(q, t).stopReason = q.stopReason /\ Reserve(q, t).targetMet = q.targetMet
    BY DEF Reserve, RunStates
  <2>2. Reserve(q, t).phase = q.phase /\ Reserve(q, t).activeStep # 0
    BY ReserveFacts DEF RunStates
  <2> QED
    BY <2>1, <2>2
<1>2. CASE checkLimits(s, t) = {}
  <2>1. r = Reserve(s, t)
    BY <1>1, <1>2 DEF beginSavedStep, beginStep
  <2> QED
    BY <1>1, <2>1
<1>3. CASE checkLimits(s, t) # {}
  <2> DEFINE w == WrapUp(s, t)
  <2>1. /\ w \in RunStates(Revisions) /\ w.phase \in {"finish", "discard"}
        /\ w.activeStep = 0
    BY <1>3, WrapUpFacts
  <2>2. w.stopReason \in {s.stopReason, "limit"} /\ w.targetMet = s.targetMet
    BY DEF WrapUp, RunStates
  <2>3. s.phase # "finish"
    BY <1>3 DEF checkLimits, UnlimitedPhases
  <2>4. checkLimits(w, t) = {}
    BY <2>1 DEF checkLimits, UnlimitedPhases
  <2>5. beginStep(s, t) = w /\ beginStep(w, t) = Reserve(w, t)
    BY <1>3, <2>4 DEF beginStep
  <2>6. r = Reserve(w, t)
    BY <2>1, <2>5 DEF beginSavedStep
  <2> HIDE DEF w
  <2> QED
    BY <1>1, <2>1, <2>2, <2>3, <2>6
<1> QED
  BY <1>2, <1>3

\* Why a run stops once a step is completed, and what becomes of its target.
LEMMA FinishReasons ==
  ASSUME NEW s \in RunStates(Revisions), NEW o \in Outcomes(Revisions),
         MayFinish(s, s.sequence, o), NEW r, r = finishStep(s, o)
  PROVE  /\ o = Error => r.stopReason = "error" /\ r.phase = "finish"
         /\ o # Error =>
              /\ r.stopReason = "error" => s.stopReason = "error"
              /\ r.stopReason = "target-met" =>
                   \/ s.phase = "baseline" /\ o.targetMet /\ r.phase = "finish"
                   \/ s.phase = "keep" /\ s.targetMet /\ r.phase = "finish"
                   \/ s.stopReason = "target-met"
              /\ s.phase = "finish" =>
                   /\ r.stopReason = s.stopReason
                   /\ r.targetMet => s.stopReason = "target-met"
              /\ (s.phase = "measure" /\ r.phase = "review") => r.targetMet = o.targetMet
              /\ s.phase = "review" => r.targetMet = s.targetMet
<1> DEFINE q == [s EXCEPT !.activeStep = 0]
<1>1. /\ q \in RunStates(Revisions) /\ q.phase = s.phase
      /\ q.stopReason = s.stopReason /\ q.targetMet = s.targetMet
      /\ s.phase \in Phases
  BY DEF RunStates
<1>2. o # Error => s.phase \in WorkPhases
  BY DEF MayFinish
<1> HIDE DEF q
<1>3. CASE o = Error
  <2>1. r = [q EXCEPT !.phase = "finish", !.stopReason = "error", !.targetMet = FALSE]
    BY <1>3 DEF finishStep, q
  <2> QED
    BY <1>1, <1>3, <2>1 DEF RunStates
<1>4. CASE o # Error /\ s.phase = "prepare"
  <2>1. r = [q EXCEPT !.phase = "baseline"]
    BY <1>1, <1>4 DEF finishStep, q
  <2> QED
    BY <1>1, <1>4, <2>1 DEF RunStates
<1>5. CASE o # Error /\ s.phase = "baseline"
  <2>1. r = MeasurementDone(q, o)
    BY <1>1, <1>5 DEF finishStep, q
  <2> QED
    BY <1>1, <1>5, <2>1 DEF MeasurementDone, RunStates
<1>6. CASE o # Error /\ s.phase = "measure"
  <2>1. r = MeasurementDone(q, o)
    BY <1>1, <1>6 DEF finishStep, q
  <2> QED
    BY <1>1, <1>6, <2>1 DEF MeasurementDone, RunStates
<1>7. CASE o # Error /\ s.phase = "start-attempt"
  <2>1. r = [q EXCEPT !.phase = "profile", !.targetMet = FALSE]
    BY <1>1, <1>7 DEF finishStep, q
  <2> QED
    BY <1>1, <1>7, <2>1 DEF RunStates
<1>8. CASE o # Error /\ s.phase \in {"profile", "research"}
  <2>1. r = [q EXCEPT !.phase = "analyze"]
    BY <1>1, <1>8 DEF finishStep, q
  <2> QED
    BY <1>1, <1>8, <2>1 DEF RunStates
<1>9. CASE o # Error /\ s.phase = "analyze"
  <2>1. r = AnalysisDone(q, o)
    BY <1>1, <1>9 DEF finishStep, q
  <2> QED
    BY <1>1, <1>9, <2>1 DEF AnalysisDone, RunStates
<1>10. CASE o # Error /\ s.phase \in {"implement", "repair"}
  <2>1. r = [q EXCEPT !.phase = "test", !.workingRevision = o.revision,
                      !.targetMet = FALSE]
    BY <1>1, <1>10 DEF finishStep, q
  <2> QED
    BY <1>1, <1>10, <2>1 DEF RunStates
<1>11. CASE o # Error /\ s.phase = "test"
  <2>1. r = [q EXCEPT !.phase = IF o.passed THEN "measure" ELSE "repair"]
    BY <1>1, <1>11 DEF finishStep, q
  <2> QED
    BY <1>1, <1>11, <2>1 DEF RunStates
<1>12. CASE o # Error /\ s.phase = "review"
  <2>1. r = [q EXCEPT !.phase = IF o.passed THEN "keep" ELSE "repair"]
    BY <1>1, <1>12 DEF finishStep, q
  <2> QED
    BY <1>1, <1>12, <2>1 DEF RunStates
<1>13. CASE o # Error /\ s.phase = "keep"
  <2>1. r = [q EXCEPT !.bestRevision = o.revision,
                      !.phase = IF q.targetMet THEN "finish" ELSE "start-attempt",
                      !.stopReason = IF q.targetMet THEN "target-met" ELSE "none"]
    BY <1>1, <1>13 DEF finishStep, q
  <2> QED
    BY <1>1, <1>13, <2>1 DEF RunStates
<1>14. CASE o # Error /\ s.phase = "discard"
  <2>1. r = [q EXCEPT !.phase = "start-attempt", !.targetMet = FALSE,
                      !.workingRevision = o.revision]
    BY <1>1, <1>14 DEF finishStep, q
  <2> QED
    BY <1>1, <1>14, <2>1 DEF RunStates
<1>15. CASE o # Error /\ s.phase = "finish"
  <2>1. r = [q EXCEPT !.phase = "done", !.targetMet = (q.stopReason = "target-met")]
    BY <1>1, <1>15 DEF finishStep, q
  <2> QED
    BY <1>1, <1>15, <2>1 DEF RunStates
<1> QED
  BY <1>2, <1>3, <1>4, <1>5, <1>6, <1>7, <1>8, <1>9, <1>10, <1>11, <1>12, <1>13,
     <1>14, <1>15
     DEF WorkPhases, CommandPhases, inferencePhases, UnlimitedPhases

\* What the measurement m is held against, as it is made and later.
LEMMA InitialIs ==
  ASSUME NEW m
  PROVE  /\ state.phase # "baseline" => Initial(m) = Original
         /\ m = Base => Initial(m) = Original
  BY Zenon DEF Initial, Original, Base

\* What a verdict says of the goal.
LEMMA VerdictMeets ==
  ASSUME NEW m, Verdict(m).targetMet
  PROVE  assessGoal(Initial(m), m) /\ protectedPerformance(Initial(m), m)
<1> DEFINE improved == /\ protectedPerformance(Initial(m), m)
                       /\ meetsFloor(Best(m), m)
           targetMet == assessGoal(Initial(m), m) /\ improved
<1>2. assessCandidate(Initial(m), Best(m), m)
        = [improved |-> improved, targetMet |-> targetMet]
  BY Zenon DEF assessCandidate
<1> HIDE DEF targetMet
<1>3. Verdict(m).targetMet = targetMet
  BY <1>2 DEF Verdict
<1>4. targetMet
  BY <1>3, Zenon
<1> QED
  BY <1>4, Zenon DEF targetMet

\* An outcome that is not about the target, of a step that keeps nothing, needs
\* nothing behind it.
LEMMA BackedIdle ==
  ASSUME NEW o, NEW d, state.phase \notin {"baseline", "measure", "keep"}
  PROVE  Backed(o, d)
  BY DEF Backed

\* What stands behind the result of every effect.
LEMMA EffectBacked ==
  ASSUME TypeInv, performLiveStep
  PROVE  Backed(effect'.outcome, effect'.detail)
<1>1. state.workingRevision \in Revisions
  BY DEF TypeInv, TypeOK, RunStates
<1>2. ASSUME effect' = Failed
      PROVE  Backed(effect'.outcome, effect'.detail)
  BY <1>2 DEF Failed, Backed
<1>3. CASE state.phase \notin {"baseline", "measure", "keep"}
  BY <1>3, BackedIdle
<1>4. CASE state.phase \in {"baseline", "measure"}
  <2>1. Measure \/ effect' = Failed
    BY <1>4 DEF performLiveStep, Refuse, Prepare, RunCommand, RunTests, Consult, Edit,
                Keep, Discard, Finish, Performing
  <2>2. ASSUME NEW inconclusive, Ends(NoMeasurement(inconclusive), None)
        PROVE  Backed(effect'.outcome, effect'.detail)
    <3>1. CASE effect' = [outcome |-> NoMeasurement(inconclusive), detail |-> None]
      BY <1>4, <3>1 DEF NoMeasurement, Backed
    <3> QED
      BY <1>2, <2>2, <3>1 DEF Ends
  <2>3. ASSUME NEW h1 \in Rates, NEW h2 \in GuardedRates, NEW m,
               m = [revision |-> state.workingRevision, h1 |-> h1, h2 |-> h2,
                    rival |-> Rival],
               effect' = [outcome |-> Verdict(m), detail |-> m]
        PROVE  Backed(effect'.outcome, effect'.detail)
    <3>1. m # None /\ m.revision = state.workingRevision
      BY <2>3 DEF None
    <3>2. effect'.outcome = Verdict(m) /\ effect'.detail = m
      BY <2>3
    <3>3. Verdict(m).targetMet =>
            assessGoal(Initial(m), m) /\ protectedPerformance(Initial(m), m)
      BY VerdictMeets
    <3> QED
      BY <1>4, <3>1, <3>2, <3>3, Zenon DEF Backed, Met
  <2>4. CASE Measure
    <3>1. \/ effect' = Failed
          \/ \E inconclusive : Ends(NoMeasurement(inconclusive), None)
          \/ \E h1 \in Rates, h2 \in GuardedRates :
                LET m == [revision |-> state.workingRevision, h1 |-> h1,
                          h2 |-> h2, rival |-> Rival]
                IN  effect' = Failed \/ effect' = [outcome |-> Verdict(m), detail |-> m]
      BY <2>4 DEF Measure, CommandFails, Ends
    <3> QED
      BY <1>2, <2>2, <2>3, <3>1
  <2> QED
    BY <1>2, <2>1, <2>4
<1>5. CASE state.phase = "keep"
  <2>1. Keep \/ effect' = Failed
    BY <1>5 DEF performLiveStep, Refuse, Prepare, RunCommand, RunTests, Consult, Edit,
                Measure, Discard, Finish, Performing
  <2>2. CASE Keep
    <3>1. effect' = Failed \/ effect'.detail = results["measure"].detail
      BY <2>2 DEF Keep, Ends
    <3> QED
      BY <1>2, <1>5, <3>1 DEF Backed
  <2> QED
    BY <1>2, <2>1, <2>2
<1> QED
  BY <1>3, <1>4, <1>5

\* Where the best ref points after an effect.
LEMMA EffectBest ==
  ASSUME TypeInv, performLiveStep, effect'.outcome # Error
  PROVE  git'.best = CASE state.phase = "prepare" -> state.bestRevision
                       [] state.phase = "keep" -> state.workingRevision
                       [] OTHER -> git.best
<1>1. /\ git \in GitStates
      /\ git.worktree = "saved" => git.head \in Revisions
      /\ state.bestRevision \in Nat /\ state.workingRevision \in Nat
  BY NonZero DEF TypeInv, TypeOK, GitStates, RunStates
<1>2. effect' # Failed
  BY DEF Failed
<1>3. git.worktree = "saved" =>
        /\ Snapshot(git) \in GitStates /\ Snapshot(git).best = git.best
        /\ Select(Snapshot(git), state.bestRevision).best = git.best
  BY <1>1, SnapshotFacts DEF Select, GitStates
<1>4. CASE Prepare
  <2>1. git' = [Opened(state.workingRevision)
                  EXCEPT !.worktree = "saved", !.best = state.bestRevision]
    BY <1>2, <1>4 DEF Prepare
  <2> QED
    BY <1>1, <1>4, <2>1 DEF Prepare, Performing, Opened, GitStates
<1>5. CASE Keep
  BY <1>1, <1>5 DEF Keep, Performing, GitStates
<1>6. CASE Edit
  <2>1. PICK g \in Touched(git) : git' \in Touched(Snapshot(g))
    BY <1>2, <1>6 DEF Edit, CommandFails
  <2>2. g \in GitStates /\ g.head \in Revisions /\ g.best = git.best
    BY <1>1, <1>6, <2>1, TouchedFacts DEF Edit, WorktreeIs
  <2>3. git'.best = git.best
    BY <2>1, <2>2, SnapshotFacts, TouchedFacts
  <2> QED
    BY <1>6, <2>3 DEF Edit, Performing
<1>7. CASE Discard
  BY <1>3, <1>7 DEF Discard, Performing, WorktreeIs
<1>8. CASE Finish
  <2>1. git' = git \/ (git.worktree = "saved" /\ git' = Select(Snapshot(git), state.bestRevision))
    BY <1>2, <1>8 DEF Finish
  <2> QED
    BY <1>3, <1>8, <2>1 DEF Finish, Performing
<1>9. CASE Refuse
  BY <1>2, <1>9 DEF Refuse
<1>10. CASE RunCommand \/ RunTests \/ Consult \/ Measure
  <2>1. git' \in Touched(git) \cup {git}
    BY <1>10 DEF RunCommand, RunTests, Consult, Measure, CommandFails
  <2>2. state.phase \notin {"prepare", "keep"}
    BY <1>10 DEF RunCommand, RunTests, Consult, Measure, Performing
  <2> QED
    BY <1>1, <2>1, <2>2, TouchedFacts
<1> QED
  BY <1>4, <1>5, <1>6, <1>7, <1>8, <1>9, <1>10 DEF performLiveStep

\* What is saved of a step, of its outcome and its detail.
LEMMA SaveDetail ==
  ASSUME TypeInv, StepInv, GateInv, SaveResult
  PROVE  /\ \A p \in WorkPhases : p # state.phase => results'[p] = results[p]
         /\ results'[state.phase] # None
         /\ results'[state.phase].step = state.sequence
         /\ results'[state.phase].detail = effect.detail
         /\ results'[state.phase].outcome \in {effect.outcome, Error}
<1> DEFINE o == IF MayFinish(state, state.sequence, effect.outcome)
                THEN effect.outcome ELSE Error
           r == [step |-> state.sequence, revision |-> state.workingRevision,
                 outcome |-> o, detail |-> effect.detail]
<1>1. results' = [results EXCEPT ![state.phase] = r]
  BY Zenon DEF SaveResult
<1>2. o \in {effect.outcome, Error}
  OBVIOUS
<1> HIDE DEF o
<1>3. /\ r # None /\ r.step = state.sequence /\ r.outcome = o
      /\ r.detail = effect.detail
  BY DEF None
<1> HIDE DEF r
<1>4. state.phase \in WorkPhases
  BY SaveFacts
<1>5. /\ results'[state.phase] = r
      /\ \A p \in WorkPhases : p # state.phase => results'[p] = results[p]
  BY <1>1, <1>4 DEF TypeInv, TypeOK
<1> QED
  BY <1>2, <1>3, <1>5

\* What beginning a step makes of the run's reasons, its target and its results.
LEMMA BeginHonest ==
  ASSUME IInv, BeginStep
  PROVE  /\ ~Active /\ Active' /\ ~StepSaved' /\ pc' = "performing"
         /\ UNCHANGED <<results, report, git, parent>>
         /\ state'.phase \in {state.phase, "finish", "discard"}
         /\ state.phase # "done" /\ state'.phase # "done"
         /\ state'.bestRevision = state.bestRevision
         /\ state'.workingRevision = state.workingRevision
         /\ state'.targetMet = state.targetMet
         /\ state'.stopReason \in {state.stopReason, "limit"}
         /\ state.phase = "finish" =>
              state'.phase = "finish" /\ state'.stopReason = state.stopReason
<1>1. /\ pc = "loop" /\ pc' = "performing" /\ state.activeStep = 0
      /\ state.phase # "done" /\ state' \in RunStates(Revisions)
      /\ state'.phase \in {state.phase, "finish", "discard"}
      /\ state.sequence \in Nat /\ state'.sequence = state.sequence + 1
      /\ state'.activeStep = state.sequence + 1
      /\ state'.workingRevision = state.workingRevision
      /\ state'.bestRevision = state.bestRevision
      /\ UNCHANGED <<results, report, effect, git, units, operator, performed>>
  BY BeginStepFacts DEF IInv
<1>2. state \in RunStates(Revisions) /\ state.elapsed \in Nat
  BY DEF IInv, TypeInv, TypeOK, RunStates
<1>3. PICK t \in state.elapsed .. MaxDuration : state' = beginSavedStep(state, t)
  BY DEF BeginStep
<1>4. t \in Nat
  BY <1>2, LimitsAssumption
<1>5. /\ state'.targetMet = state.targetMet
      /\ state'.stopReason \in {state.stopReason, "limit"}
      /\ state.phase = "finish" =>
           state'.phase = "finish" /\ state'.stopReason = state.stopReason
  BY <1>1, <1>2, <1>3, <1>4, BeginReasons
<1>6. state'.phase \in WorkPhases
  BY <1>1, <1>2 DEF RunStates, Phases, WorkPhases, UnlimitedPhases
<1>7. ~StepSaved'
  <2>1. results[state'.phase] # None => results[state'.phase].step \in Nat
    BY <1>6 DEF IInv, TypeInv, TypeOK, Records
  <2>2. results[state'.phase] # None => results[state'.phase].step <= state.sequence
    BY <1>6 DEF IInv, SequenceInv
  <2> QED
    BY <1>1, <2>1, <2>2 DEF StepSaved
<1> QED
  BY <1>1, <1>5, <1>7 DEF Active, operator

\* Every step keeps failures and the reasons to stop together.
LEMMA FailedStep == IInv /\ FailedInv /\ [Next]_vars => FailedInv'
<1> SUFFICES ASSUME IInv, FailedInv, [Next]_vars PROVE FailedInv'
  OBVIOUS
<1>0. TypeInv /\ StepInv /\ GateInv
  BY DEF IInv
<1>1. CASE BeginStep
  <2>1. /\ ~Active /\ UNCHANGED results
        /\ state.phase # "done"
        /\ state'.stopReason \in {state.stopReason, "limit"}
        /\ state.phase = "finish" =>
             state'.phase = "finish" /\ state'.stopReason = state.stopReason
    BY <1>1, BeginHonest
  <2> QED
    BY <2>1 DEF FailedInv, Ending
<1>2. CASE performLiveStep
  BY <1>0, <1>2, EffectFacts DEF FailedInv, Ending, Active, StepSaved
<1>3. CASE SaveResult
  <2>1. /\ \A p \in WorkPhases : p # state.phase => results'[p] = results[p]
        /\ results'[state.phase] # None
        /\ results'[state.phase].step = state.sequence
    BY <1>0, <1>3, SaveDetail
  <2>2. Active /\ UNCHANGED state
    BY <1>0, <1>3, SaveFacts
  <2>3. Active' /\ StepSaved' /\ (Ending' <=> Ending)
    BY <2>1, <2>2 DEF Active, StepSaved, Ending
  <2> QED
    BY <2>1, <2>2, <2>3 DEF FailedInv
<1>4. CASE Advance \/ Recover
  <2> DEFINE o == results[state.phase].outcome
  <2>1. /\ o \in Outcomes(Revisions) /\ Active /\ state.phase \in WorkPhases
        /\ MayFinish(state, state.sequence, o) /\ state' = finishStep(state, o)
        /\ UNCHANGED results /\ state \in RunStates(Revisions)
    BY <1>0, <1>4, AdvanceFacts DEF TypeInv, TypeOK
  <2>2. \A p \in WorkPhases : (results[p] # None /\ results[p].outcome = Error) =>
           o = Error \/ state.stopReason = "error"
    BY DEF FailedInv
  <2>3. state.stopReason \in {"error", "target-met"} => state.phase = "finish"
    BY <2>1 DEF FailedInv, Ending, WorkPhases, CommandPhases, inferencePhases,
                UnlimitedPhases
  <2> HIDE DEF o
  <2>4. CASE o = Error
    BY <2>1, <2>4, FinishReasons DEF FailedInv, Ending
  <2>5. CASE o # Error
    <3>1. state.phase = "finish" =>
            state'.phase = "done" /\ state'.stopReason = state.stopReason
      BY <2>1, <2>5, FinishFacts, FinishReasons
    <3>2. state'.stopReason \in {"error", "target-met"} => state'.phase \in {"finish", "done"}
      BY <2>1, <2>3, <2>5, <3>1, FinishReasons
    <3> QED
      BY <2>1, <2>2, <2>3, <2>5, <3>1, <3>2 DEF FailedInv, Ending
  <2> QED
    BY <2>4, <2>5
<1>5. CASE Others
  BY <1>0, <1>5, OtherFacts DEF FailedInv, Ending, Active, StepSaved
<1> QED
  BY <1>1, <1>2, <1>3, <1>4, <1>5, RunSteps

\* Every step keeps the first two phases first.
LEMMA FirstStep == IInv /\ FirstInv /\ [Next]_vars => FirstInv'
<1> SUFFICES ASSUME IInv, FirstInv, [Next]_vars PROVE FirstInv'
  OBVIOUS
<1>0. TypeInv /\ StepInv /\ GateInv
  BY DEF IInv
<1>1. CASE BeginStep
  BY <1>1, BeginHonest DEF FirstInv
<1>2. CASE performLiveStep
  BY <1>0, <1>2, EffectFacts DEF FirstInv, Active, StepSaved, operator
<1>3. CASE SaveResult
  <2>1. /\ \A p \in WorkPhases : p # state.phase => results'[p] = results[p]
        /\ results'[state.phase] # None
        /\ results'[state.phase].step = state.sequence
    BY <1>0, <1>3, SaveDetail
  <2>2. Active /\ UNCHANGED <<state, parent>>
    BY <1>0, <1>3, SaveFacts DEF operator
  <2>3. Active' /\ StepSaved'
    BY <2>1, <2>2 DEF Active, StepSaved
  <2>4. "keep" \in WorkPhases
    BY DEF WorkPhases, UnlimitedPhases
  <2> QED
    BY <2>1, <2>2, <2>3, <2>4 DEF FirstInv
<1>4. CASE Advance \/ Recover
  <2> DEFINE o == results[state.phase].outcome
  <2>1. /\ o \in Outcomes(Revisions) /\ state.phase \in WorkPhases
        /\ MayFinish(state, state.sequence, o) /\ state' = finishStep(state, o)
        /\ UNCHANGED <<results, parent>> /\ state \in RunStates(Revisions)
    BY <1>0, <1>4, AdvanceFacts DEF TypeInv, TypeOK, operator
  <2> HIDE DEF o
  <2>2. /\ state'.phase # "prepare"
        /\ state'.phase = "baseline" =>
             /\ state.phase = "prepare"
             /\ state'.bestRevision = state.bestRevision
             /\ state'.workingRevision = state.workingRevision
    BY <2>1, FinishFacts DEF WorkPhases, CommandPhases, inferencePhases, UnlimitedPhases
  <2> QED
    BY <2>1, <2>2 DEF FirstInv
<1>5. CASE Others
  BY <1>0, <1>5, OtherFacts DEF FirstInv, Active, StepSaved
<1> QED
  BY <1>1, <1>2, <1>3, <1>4, <1>5, RunSteps

\* Every step keeps the best ref where the state wants it.
LEMMA BestRefStep ==
  IInv /\ FailedInv /\ BestRefInv /\ [Next]_vars => BestRefInv'
<1> SUFFICES ASSUME IInv, FailedInv, BestRefInv, [Next]_vars PROVE BestRefInv'
  OBVIOUS
<1>0. TypeInv /\ StepInv /\ GateInv
  BY DEF IInv
<1>1. CASE BeginStep
  <2>1. /\ ~Active /\ Active' /\ ~StepSaved' /\ pc' = "performing"
        /\ UNCHANGED <<results, git>>
        /\ state'.bestRevision = state.bestRevision
        /\ state.stopReason = "error" => state'.stopReason = "error"
    BY <1>1, BeginHonest DEF FailedInv, Ending
  <2> QED
    BY <2>1 DEF BestRefInv, Prepared
<1>2. CASE performLiveStep
  <2>1. /\ pc = "performing" /\ pc' = "performed" /\ UNCHANGED <<state, results>>
    BY <1>0, <1>2, EffectFacts
  <2>2. Active' /\ ~StepSaved'
    BY <2>1, NotSaved DEF Active, StepSaved
  <2>3. effect'.outcome # Error =>
          git'.best = CASE state.phase = "prepare" -> state.bestRevision
                        [] state.phase = "keep" -> state.workingRevision
                        [] OTHER -> git.best
    BY <1>0, <1>2, EffectBest
  <2> QED
    BY <2>1, <2>2, <2>3 DEF BestRefInv, Prepared, Due
<1>3. CASE SaveResult
  <2>1. /\ \A p \in WorkPhases : p # state.phase => results'[p] = results[p]
        /\ results'[state.phase].outcome \in {effect.outcome, Error}
    BY <1>0, <1>3, SaveDetail
  <2>2. /\ pc = "performed" /\ pc' = "saved" /\ Active /\ UNCHANGED <<state, git>>
    BY <1>0, <1>3, SaveFacts
  <2>3. "prepare" \in WorkPhases
    BY DEF WorkPhases, CommandPhases
  <2>4. Prepared' => Prepared \/ state.phase = "prepare"
    BY <2>1, <2>3 DEF Prepared
  <2> QED
    BY <2>1, <2>2, <2>4 DEF BestRefInv, Due, Active
<1>4. CASE Advance \/ Recover
  <2> DEFINE o == results[state.phase].outcome
  <2>1. /\ o \in Outcomes(Revisions) /\ Active /\ StepSaved
        /\ state.phase \in WorkPhases
        /\ MayFinish(state, state.sequence, o) /\ state' = finishStep(state, o)
        /\ UNCHANGED <<results, git>> /\ state \in RunStates(Revisions)
        /\ pc' \in {"loop", "down"}
    BY <1>0, <1>4, AdvanceFacts DEF TypeInv, TypeOK
  <2>2. (state.stopReason # "error" /\ Prepared /\ o # Error) => git.best = Due
    BY <2>1 DEF BestRefInv
  <2>3. state.stopReason = "error" => state.phase = "finish"
    BY <2>1 DEF FailedInv, Ending, WorkPhases, CommandPhases, inferencePhases,
                UnlimitedPhases
  <2> HIDE DEF o
  <2>4. state'.activeStep = 0 /\ (o # Error => state'.bestRevision = Due)
    BY <2>1, FinishFacts DEF Due
  <2>5. state'.stopReason # "error" => o # Error /\ state.stopReason # "error"
    BY <2>1, <2>3, FinishReasons
  <2> QED
    BY <2>1, <2>2, <2>4, <2>5 DEF BestRefInv, Active, Prepared
<1>5. CASE Others
  <2>1. /\ UNCHANGED <<state, results, git>>
        /\ pc' \in {"down", "loop"} \/ UNCHANGED <<pc, effect>>
    BY <1>0, <1>5, OtherFacts
  <2> QED
    BY <2>1 DEF BestRefInv, Prepared, Due, Active, StepSaved
<1> QED
  BY <1>1, <1>2, <1>3, <1>4, <1>5, RunSteps

\* Every step keeps what stands behind a target that was met.
LEMMA TargetStep ==
  IInv /\ FailedInv /\ FirstInv /\ TargetInv /\ [Next]_vars => TargetInv'
<1> SUFFICES ASSUME IInv, FailedInv, FirstInv, TargetInv, [Next]_vars
             PROVE  TargetInv'
  OBVIOUS
<1>0. TypeInv /\ StepInv /\ GateInv
  BY DEF IInv
<1>1. CASE BeginStep
  <2>1. /\ ~StepSaved' /\ pc' = "performing" /\ UNCHANGED results
        /\ state'.phase \in {state.phase, "finish", "discard"}
        /\ state'.phase # "done"
        /\ state'.bestRevision = state.bestRevision
        /\ state'.workingRevision = state.workingRevision
        /\ state'.targetMet = state.targetMet
        /\ state'.stopReason \in {state.stopReason, "limit"}
        /\ UNCHANGED parent
    BY <1>1, BeginHonest
  <2>2. Original' = Original /\ Latest' = Latest
    BY <2>1 DEF Original, Base, Latest
  <2>3. state'.phase \in {"review", "keep"} => state.phase = state'.phase
    BY <2>1
  <2>4. /\ (state'.targetMet /\ state'.phase \in {"review", "keep"})
             => Met(results["measure"].detail, state.workingRevision, Original)
        /\ state'.stopReason = "target-met" => Met(Latest, state.bestRevision, Original)
    BY <2>1, <2>3 DEF TargetInv
  <2> QED
    BY <2>1, <2>2, <2>4 DEF TargetInv, Met
<1>2. CASE performLiveStep
  <2>1. /\ pc = "performing" /\ pc' = "performed" /\ UNCHANGED <<state, results, parent>>
    BY <1>0, <1>2, EffectFacts DEF operator
  <2>2. ~StepSaved'
    BY <2>1, NotSaved DEF StepSaved
  <2>3. Original' = Original /\ Latest' = Latest
    BY <2>1 DEF Original, Base, Latest
  <2>4. Backed(effect'.outcome, effect'.detail)
    BY <1>0, <1>2, EffectBacked
  <2>5. Backed(effect.outcome, effect.detail)'
    BY <2>1, <2>4 DEF Backed, Met, Initial
  <2> QED
    BY <2>1, <2>2, <2>3, <2>5 DEF TargetInv, Met
<1>3. CASE SaveResult
  <2>1. /\ \A p \in WorkPhases : p # state.phase => results'[p] = results[p]
        /\ results'[state.phase].detail = effect.detail
        /\ results'[state.phase].outcome \in {effect.outcome, Error}
    BY <1>0, <1>3, SaveDetail
  <2>2. /\ pc = "performed" /\ pc' = "saved" /\ Active /\ UNCHANGED <<state, parent>>
        /\ state.phase \in WorkPhases /\ state.phase # "done"
    BY <1>0, <1>3, SaveFacts
       DEF WorkPhases, CommandPhases, inferencePhases, UnlimitedPhases, operator
  <2>3. /\ "baseline" \in WorkPhases /\ "measure" \in WorkPhases
        /\ "keep" \in WorkPhases
    BY DEF WorkPhases, CommandPhases, UnlimitedPhases
  <2>4. /\ state.phase # "baseline" => Base' = Base /\ Original' = Original
        /\ state.phase # "measure" => results'["measure"] = results["measure"]
        /\ state.phase \notin {"baseline", "keep"} => Latest' = Latest
    BY <2>1, <2>2, <2>3 DEF Original, Base, Latest
  <2>5. Backed(results[state.phase].outcome, results[state.phase].detail)'
    <3>1. Backed(effect.outcome, effect.detail)
      BY <2>2 DEF TargetInv
    <3>2. \A m : Initial(m)' = Initial(m)
      BY <2>2, <2>4, Zenon DEF Initial, Base
    <3> QED
      BY <2>1, <2>2, <2>4, <3>1, <3>2 DEF Backed, Met
  <2>6. (state'.targetMet /\ state'.phase \in {"review", "keep"})
          => Met(results["measure"].detail, state.workingRevision, Original)'
    BY <2>2, <2>4 DEF TargetInv, Met
  <2>7. state'.stopReason = "target-met" => Met(Latest, state.bestRevision, Original)'
    <3>1. state.stopReason = "target-met" => state.phase = "finish"
      BY <2>2 DEF FailedInv, Ending
    <3> QED
      BY <2>2, <2>4, <3>1 DEF TargetInv, Met
  <2> QED
    BY <2>2, <2>5, <2>6, <2>7 DEF TargetInv
<1>4. CASE Advance \/ Recover
  <2> DEFINE o == results[state.phase].outcome
             d == results[state.phase].detail
  <2>1. /\ o \in Outcomes(Revisions) /\ Active /\ StepSaved
        /\ state.phase \in WorkPhases
        /\ MayFinish(state, state.sequence, o) /\ state' = finishStep(state, o)
        /\ UNCHANGED <<results, parent>> /\ state \in RunStates(Revisions)
        /\ pc' \in {"loop", "down"}
    BY <1>0, <1>4, AdvanceFacts DEF TypeInv, TypeOK, operator
  <2>2. Backed(o, d)
    BY <2>1 DEF TargetInv
  <2>3. /\ state.phase = "baseline" => d = Base
        /\ state.phase = "measure" => d = results["measure"].detail
        /\ state.phase = "keep" => results["keep"] # None /\ d = Latest
    BY <2>1 DEF Base, Latest, StepSaved
  <2>4. Original' = Original /\ Latest' = Latest
    BY <2>1 DEF Original, Base, Latest
  <2>5. state.stopReason = "target-met" => state.phase = "finish"
    BY <2>1 DEF FailedInv, Ending, WorkPhases, CommandPhases, inferencePhases,
                UnlimitedPhases
  <2> HIDE DEF o, d
  <2>6. state'.activeStep = 0
    BY <2>1, FinishFacts
  <2>7. ASSUME state'.targetMet, state'.phase \in {"review", "keep"}
        PROVE  Met(results["measure"].detail, state'.workingRevision, Original)
    <3>1. /\ o # Error /\ state'.workingRevision = state.workingRevision
          /\ \/ state.phase = "measure" /\ state'.phase = "review"
             \/ state.phase = "review"
      BY <2>1, <2>7, FinishFacts
         DEF WorkPhases, CommandPhases, inferencePhases, UnlimitedPhases
    <3>2. CASE state.phase = "measure" /\ state'.phase = "review"
      <4>1. o.targetMet
        BY <2>1, <2>7, <3>1, <3>2, FinishReasons
      <4> QED
        BY <2>2, <2>3, <3>1, <3>2, <4>1, InitialIs DEF Backed
    <3>3. CASE state.phase = "review"
      <4>1. state.targetMet
        BY <2>1, <2>7, <3>1, <3>3, FinishReasons
      <4> QED
        BY <3>1, <3>3, <4>1 DEF TargetInv
    <3> QED
      BY <3>1, <3>2, <3>3
  <2>8. ASSUME state'.stopReason = "target-met"
        PROVE  Met(Latest, state'.bestRevision, Original)
    <3>1. o # Error
      BY <2>1, <2>8, FinishReasons
    <3>2. \/ state.phase = "baseline" /\ o.targetMet
          \/ state.phase = "keep" /\ state.targetMet
          \/ state.stopReason = "target-met"
      BY <2>1, <2>8, <3>1, FinishReasons
    <3>3. CASE state.phase = "baseline" /\ o.targetMet
      <4>1. Met(Base, state.workingRevision, Original)
        BY <2>2, <2>3, <3>1, <3>3, InitialIs DEF Backed
      <4>2. Latest = Base /\ state.bestRevision = state.workingRevision
        BY <3>3 DEF FirstInv, Latest
      <4>3. state'.bestRevision = state.bestRevision
        BY <2>1, <3>3, FinishFacts
      <4> QED
        BY <4>1, <4>2, <4>3
    <3>4. CASE state.phase = "keep" /\ state.targetMet
      <4>1. Latest = results["measure"].detail
        BY <2>2, <2>3, <3>1, <3>4 DEF Backed
      <4>2. Met(results["measure"].detail, state.workingRevision, Original)
        BY <3>4 DEF TargetInv
      <4>3. state'.bestRevision = state.workingRevision
        BY <2>1, <3>1, <3>4, FinishFacts
      <4> QED
        BY <4>1, <4>2, <4>3
    <3>5. CASE state.stopReason = "target-met"
      <4>1. state'.bestRevision = state.bestRevision
        BY <2>1, <2>5, <3>5, FinishFacts
      <4> QED
        BY <3>5, <4>1 DEF TargetInv
    <3> QED
      BY <3>2, <3>3, <3>4, <3>5
  <2>9. ASSUME state'.phase = "done", state'.targetMet
        PROVE  state'.stopReason = "target-met"
    <3>1. o # Error /\ state.phase = "finish"
      BY <2>1, <2>9, FinishFacts
         DEF WorkPhases, CommandPhases, inferencePhases, UnlimitedPhases
    <3> QED
      BY <2>1, <2>9, <3>1, FinishReasons
  <2>10. ~Active' /\ pc' # "performed"
    BY <2>1, <2>6 DEF Active
  <2> QED
    BY <2>1, <2>4, <2>7, <2>8, <2>9, <2>10 DEF TargetInv, Met
<1>5. CASE Others
  <2>1. /\ UNCHANGED <<state, results, parent>>
        /\ pc' \in {"down", "loop"} \/ UNCHANGED <<pc, effect>>
    BY <1>0, <1>5, OtherFacts
  <2>2. \A m : Initial(m)' = Initial(m)
    BY <2>1, Zenon DEF Initial
  <2>3. Original' = Original /\ Latest' = Latest
    BY <2>1 DEF Original, Base, Latest
  <2> QED
    BY <2>1, <2>2, <2>3 DEF TargetInv, Backed, Met, Active, StepSaved
<1> QED
  BY <1>1, <1>2, <1>3, <1>4, <1>5, RunSteps

\* Once there is a report, nothing of the run changes.
LEMMA ReportStep == IInv /\ ReportInv /\ [Next]_vars => ReportInv'
<1> SUFFICES ASSUME IInv, ReportInv, [Next]_vars PROVE ReportInv'
  OBVIOUS
<1>0. TypeInv /\ StepInv /\ GateInv
  BY DEF IInv
<1>1. ~Active \/ state.phase # "done"
  BY <1>0 DEF StepInv, WorkPhases, CommandPhases, inferencePhases, UnlimitedPhases
<1>2. CASE BeginStep
  BY <1>2, BeginHonest DEF ReportInv
<1>3. CASE performLiveStep
  BY <1>0, <1>3, EffectFacts DEF ReportInv, BestVerified, StepInv, Working
<1>4. CASE SaveResult
  BY <1>0, <1>1, <1>4, SaveFacts DEF ReportInv
<1>5. CASE Advance \/ Recover
  BY <1>0, <1>1, <1>5, AdvanceFacts DEF ReportInv
<1>6. CASE Others
  <2>1. UNCHANGED <<state, results>>
    BY <1>0, <1>6, OtherFacts
  <2>2. CASE WriteReport
    <3>1. /\ state'.phase = "done"
          /\ report'.valid => BestVerified /\ state.stopReason # "error"
          /\ report'.bestRevision = state.bestRevision
          /\ report'.targetMet = state.targetMet
      BY <2>1, <2>2 DEF WriteReport
    <3> QED
      BY <2>1, <3>1 DEF ReportInv, BestVerified
  <2>3. CASE UNCHANGED report
    BY <2>1, <2>3 DEF ReportInv, BestVerified
  <2> QED
    BY <1>6, <2>2, <2>3 DEF Others, Crash, Resume, StopChildren, Abandon, vars
<1> QED
  BY <1>2, <1>3, <1>4, <1>5, <1>6, RunSteps

\* A new run has no result and no report.
LEMMA InitHonest == Init => HonestInv
<1> SUFFICES ASSUME Init PROVE HonestInv
  OBVIOUS
<1>1. /\ state.phase = "prepare" /\ state.activeStep = 0
      /\ state.stopReason = "none" /\ ~state.targetMet
      /\ state.bestRevision = state.workingRevision
      /\ \A p \in WorkPhases : results[p] = None
      /\ report = None /\ parent = None /\ pc = "loop"
  BY DEF Init, newRun
<1>2. "prepare" \in WorkPhases /\ "keep" \in WorkPhases
  BY DEF WorkPhases, CommandPhases, UnlimitedPhases
<1> QED
  BY <1>1, <1>2 DEF HonestInv, FailedInv, FirstInv, BestRefInv, TargetInv, ReportInv,
                    Active, Prepared, Ending

\* Every step keeps all of this.
LEMMA HonestStep == IInv /\ HonestInv /\ [Next]_vars => HonestInv'
  BY FailedStep, FirstStep, BestRefStep, TargetStep, ReportStep DEF HonestInv

\* And where it holds, a report says what is so.
LEMMA InvReportHonest == IInv /\ HonestInv => ReportHonest
<1>1. IInv /\ HonestInv => ReportHonest
  <2> SUFFICES ASSUME IInv, HonestInv, report # None, state.phase = "done"
               PROVE  /\ report.valid =>
                           /\ \A p \in WorkPhases :
                                results[p] # None => results[p].outcome # Error
                           /\ git.best = report.bestRevision
                      /\ report.targetMet =>
                           /\ Latest # None /\ Latest.revision = report.bestRevision
                           /\ assessGoal(Initial(Latest), Latest)
                           /\ protectedPerformance(Initial(Latest), Latest)
    BY DEF ReportHonest, Latest, Base
  <2>1. ~Active
    BY DEF IInv, StepInv, WorkPhases, CommandPhases, inferencePhases, UnlimitedPhases
  <2>2. ASSUME report.valid
        PROVE  /\ \A p \in WorkPhases : results[p] # None => results[p].outcome # Error
               /\ git.best = report.bestRevision
    <3>1. BestVerified /\ state.stopReason # "error"
      BY <2>2 DEF HonestInv, ReportInv
    <3>2. Prepared
      BY <3>1 DEF BestVerified, Prepared, Error
    <3> QED
      BY <2>1, <3>1, <3>2 DEF HonestInv, FailedInv, BestRefInv, ReportInv
  <2>3. ASSUME report.targetMet
        PROVE  Met(Latest, report.bestRevision, Original)
    BY <2>3 DEF HonestInv, ReportInv, TargetInv
  <2>4. Initial(Latest) = Original
    BY InitialIs
  <2> QED
    BY <2>2, <2>3, <2>4 DEF Met
<1> QED
  BY <1>1

\* A report that calls a run valid rests on no failed step and names the best
\* ref of Git; one that claims the target was met names a revision whose own
\* measurement met it, with the protected workload unharmed.
THEOREM ReportIsHonest == Spec => []ReportHonest
  BY HonestStep, InvReportHonest, InitHonest, Invariance, PTL DEF Spec

-------------------------------------------------------------------------------
(***************************************************************************)
(* One step with its processes (TempoStep).  The inductive invariant is    *)
(* OneStepInv: in which scopes a process may be alive at each place of the *)
(* controller, what the checks of the commands have established so far,    *)
(* which places only inference has, and what a committed edit and the      *)
(* credentials stand on.                                                   *)
(***************************************************************************)

\* A process of the step is alive only in the scope of the command at hand, or in
\* that of the REPL of an edit.
ScopeInv ==
  /\ \A s \in Scopes \ {"repl", scope} : ~Live(s)
  /\ kind # "edit" => ~Live("repl")
  /\ place \in {"begin", "prepare", "launch"} => ~Live(scope)
  /\ place \notin {"begin", "prepare", "launch", "await"} => ~LeaderLives(scope)
  /\ place \notin {"begin", "prepare", "launch", "await", "describe", "stop"} =>
       cleanup = "failed" \/ scope \notin helpers

\* The command of a scope ended well, and its logs are saved.
EndedWell(s) == s \in begun \cap archived /\ leader[s] = "ok"

\* What the checks of a command leave to those that come after them.
CheckedInv ==
  /\ place \in {"archive", "judge"} /\ ~error => scope \in begun /\ cleanup # "failed"
  /\ place = "judge" => scope \in archived
  /\ batch = 2 => EndedWell("bench")
  /\ place = "record" /\ ~error => /\ EndedWell(scope) /\ cleanup # "failed"
                                   /\ batch = Len(Commands)
                                   /\ kind = "measure" => written = {}
  /\ kind \in PiKinds /\ record = "valid" => EndedWell("pi") /\ cleanup # "failed"

\* The places that only inference has.
PlaceInv ==
  /\ place \in {"prepare", "withdraw", "snapshot", "read", "close"} => kind \in PiKinds
  /\ place \notin {"withdraw", "snapshot", "read", "close", "done"} =>
       record = "none" /\ outcome = "none"
  /\ place \in {"withdraw", "snapshot", "read"} => outcome \in {"none", "error"}

\* A successful inference: what it stands on.
InferenceInv ==
  /\ kind \in PiKinds /\ outcome \in Success =>
       /\ record = "valid"
       /\ outcome = IF kind = "edit" THEN "edited" ELSE "answered"
  /\ outcome = "edited" => snapped /\ kind = "edit"
  /\ kind = "edit" /\ place = "read" => snapped
  /\ snapped => /\ kind = "edit" /\ place \in {"read", "close", "done"}
                /\ ~Live("pi") /\ written \subseteq {"repl"}

CredentialInv ==
  /\ kind \notin PiKinds \/ place \in {"begin", "prepare"} => credentials = "absent"
  /\ credentials = "withdrawn" => ~Live("pi") /\ place \in {"snapshot", "read", "close", "done"}
  /\ place \in {"snapshot", "read", "close", "done"} /\ credentials = "linked" =>
       cleanup = "failed"

OneStepInv == /\ StepTypeOK /\ ScopeInv /\ CheckedInv /\ PlaceInv /\ InferenceInv /\ CredentialInv
           /\ VerdictIsReal

\* The scope of the command at hand, by the kind of the step and the batch.
LEMMA ScopeFacts ==
  ASSUME StepTypeOK
  PROVE  /\ kind \in {"build", "test", "profile", "measure", "edit", "consult"}
         /\ scope \in Scopes \ {"repl"}
         /\ kind \in PiKinds => scope = "pi" /\ batch = 1 /\ Len(Commands) = 1
         /\ kind = "measure" => /\ scope = (IF batch = 1 THEN "bench" ELSE "repeat")
                                /\ Len(Commands) = 2
         /\ kind \notin PiKinds \cup {"measure"} => scope = kind /\ batch = 1 /\ Len(Commands) = 1
         /\ batch = 2 => kind = "measure"
<1>1. kind \in {"build", "test", "profile", "measure", "edit", "consult"}
  BY KindsAssumption DEF StepTypeOK
<1>2. CASE kind = "measure"
  BY <1>2 DEF StepTypeOK, scope, Commands, Scopes, PiKinds
<1>3. CASE kind \in PiKinds
  BY <1>3 DEF StepTypeOK, scope, Commands, Scopes, PiKinds
<1>4. CASE kind \notin PiKinds \cup {"measure"}
  BY <1>1, <1>4 DEF StepTypeOK, scope, Commands, Scopes, PiKinds
<1> QED
  BY <1>1, <1>2, <1>3, <1>4

\* The worktree and the processes of a success, command by command.
LEMMA CommandFacts ==
  ASSUME StepTypeOK
  PROVE  /\ kind # "measure" => \A i \in DOMAIN Commands : Commands[i] = scope
         /\ kind = "measure" => \A i \in DOMAIN Commands : Commands[i] \in {"bench", "repeat"}
<1>1. kind \in {"build", "test", "profile", "measure", "edit", "consult"} /\ batch \in 1..2 /\ batch <= Len(Commands)
  BY ScopeFacts DEF StepTypeOK
<1>2. CASE kind = "measure"
  <2>1. Commands = <<"bench", "repeat">>
    BY <1>2 DEF Commands, PiKinds
  <2>2. DOMAIN Commands = 1..2 /\ Commands[1] = "bench" /\ Commands[2] = "repeat"
    BY <2>1
  <2>3. \A i \in 1..2 : i = 1 \/ i = 2
    OBVIOUS
  <2> QED
    BY <1>2, <2>2, <2>3
<1>3. CASE kind \in PiKinds
  BY <1>1, <1>3 DEF scope, Commands, PiKinds
<1>4. CASE kind \notin PiKinds \cup {"measure"}
  BY <1>1, <1>4 DEF scope, Commands, PiKinds
<1> QED
  BY <1>1, <1>2, <1>3, <1>4 DEF PiKinds

\* A step begins in the invariant.
LEMMA StepStart ==
  ASSUME StepInit
  PROVE  OneStepInv
<1> USE DEF StepInit
<1>1. StepTypeOK
  <2>1. kind \in {"build", "test", "profile", "measure", "edit", "consult"}
    BY KindsAssumption
  <2>2. Len(Commands) \in 1..2
    BY <2>1 DEF Commands, PiKinds
  <2>3. batch \in 1..2 /\ batch <= Len(Commands)
    BY <2>2
  <2>4. leader \in [Scopes -> {"none", "launching", "running", "ok", "failed", "killed"}]
    OBVIOUS
  <2>5. place \in Places /\ outcome \in StepOutcomes
    BY DEF Places, StepOutcomes
  <2>6. /\ kind \in Kinds /\ helpers = {} /\ begun = {} /\ written = {} /\ archived = {}
        /\ cleanup = "none" /\ error = FALSE /\ credentials = "absent" /\ record = "none"
        /\ snapped = FALSE /\ expired \in BOOLEAN
    OBVIOUS
  <2> HIDE DEF StepInit
  <2> QED
    BY <2>3, <2>4, <2>5, <2>6 DEF StepTypeOK
<1>2. \A s \in Scopes : ~Live(s)
  BY DEF Live, LeaderLives, Scopes
<1>3. ScopeInv /\ CheckedInv /\ PlaceInv /\ InferenceInv /\ CredentialInv /\ VerdictIsReal
  BY <1>1, <1>2, ScopeFacts DEF ScopeInv, CheckedInv, PlaceInv, InferenceInv, CredentialInv, VerdictIsReal, Success, Live, LeaderLives, Scopes
<1> QED
  BY <1>1, <1>3 DEF OneStepInv

\* What the processes do on their own keeps it.
LEMMA ProcessStep ==
  ASSUME OneStepInv, NEW s \in Scopes, CommandEnds(s) \/ CommandActs(s)
  PROVE  OneStepInv'
<1> USE DEF commandVars, resultVars
<1>u. UNCHANGED <<commandVars, resultVars, place, outcome>> /\ Commands' = Commands /\ scope' = scope
  BY DEF CommandEnds, CommandActs, Commands, scope
<1>t. leader \in [Scopes -> {"none", "launching", "running", "ok", "failed", "killed"}] /\ helpers \subseteq Scopes
  BY DEF OneStepInv, StepTypeOK
<1>1. /\ leader' \in [Scopes -> {"none", "launching", "running", "ok", "failed", "killed"}]
      /\ helpers' \subseteq Scopes /\ written' \subseteq Scopes /\ begun' \subseteq Scopes
  BY DEF OneStepInv, StepTypeOK, CommandEnds, CommandActs, CommandStarts, LeaderExits, Fork, HelperExits, Write
<1>2. \A t \in Scopes : /\ Live(t)' => Live(t)
                        /\ LeaderLives(t)' => LeaderLives(t)
                        /\ ~LeaderLives(t) => leader'[t] = leader[t]
                        /\ t \in helpers' => Live(t)
                        /\ t \in written' \ written => Live(t)
  BY <1>t DEF CommandEnds, CommandActs, CommandStarts, LeaderExits, Fork, HelperExits, Write, Live, LeaderLives
<1>3. begun \subseteq begun'
  BY DEF CommandEnds, CommandActs, CommandStarts, LeaderExits, Fork, HelperExits, Write
<1>s. scope \in Scopes \ {"repl"} /\ {"bench", "pi", "repl"} \subseteq Scopes
  BY ScopeFacts DEF OneStepInv, Scopes
<1>x. \A t \in Scopes \ {"repl", scope} : ~Live(t)
  BY DEF OneStepInv, ScopeInv
<1>11. StepTypeOK'
  BY <1>u, <1>1 DEF OneStepInv, StepTypeOK
<1>12. ScopeInv'
  BY <1>u, <1>1, <1>2, <1>s DEF OneStepInv, ScopeInv, Live
<1>e. \A t \in Scopes : EndedWell(t) => EndedWell(t)'
  BY <1>u, <1>2, <1>3 DEF EndedWell, LeaderLives
<1>w. (\A t \in Scopes \ {"repl"} : ~Live(t)) => written' \subseteq written \cup {"repl"}
  BY <1>1, <1>2
<1>q. (\A t \in Scopes : ~Live(t)) => written' \subseteq written
  BY <1>1, <1>2
<1>f. kind \in PiKinds => scope = "pi"
  BY ScopeFacts DEF OneStepInv
<1>13. CheckedInv'
  <2>1. place = "record" /\ ~error /\ kind = "measure" => written' = {}
    <3> SUFFICES ASSUME place = "record", ~error, kind = "measure" PROVE written' = {}
      OBVIOUS
    <3>1. ~Live(scope) /\ ~Live("repl")
      BY DEF OneStepInv, ScopeInv, CheckedInv, Live
    <3> QED
      BY <1>q, <1>x, <3>1 DEF OneStepInv, CheckedInv
  <2> QED
    BY <1>u, <1>3, <1>s, <1>e, <2>1 DEF OneStepInv, CheckedInv
<1>14. PlaceInv'
  BY <1>u DEF OneStepInv, PlaceInv
<1>15. InferenceInv'
  <2>1. snapped => ~Live("pi")' /\ written' \subseteq {"repl"}
    <3> SUFFICES ASSUME snapped PROVE ~Live("pi")' /\ written' \subseteq {"repl"}
      OBVIOUS
    <3>1. scope = "pi" /\ ~Live("pi") /\ written \subseteq {"repl"}
      BY <1>f DEF OneStepInv, InferenceInv, PiKinds
    <3> QED
      BY <1>2, <1>s, <1>w, <1>x, <3>1
  <2> QED
    BY <1>u, <2>1 DEF OneStepInv, InferenceInv
<1>16. CredentialInv'
  BY <1>u, <1>2, <1>s DEF OneStepInv, CredentialInv
<1>17. VerdictIsReal'
  <2> SUFFICES ASSUME place = "done", outcome \in Success PROVE VerdictIsReal'
    BY <1>u DEF VerdictIsReal
  <2>1. \A t \in Scopes : ~Live(t)
    BY DEF OneStepInv, VerdictIsReal
  <2>2. \A t \in Scopes : ~Live(t)' /\ leader'[t] = leader[t]
    BY <1>2, <2>1 DEF Live
  <2>3. written' \subseteq written /\ begun \subseteq Scopes
    BY <1>q, <2>1 DEF OneStepInv, StepTypeOK
  <2> HIDE DEF commandVars, resultVars
  <2>4. /\ kind' = kind /\ batch' = batch /\ archived' = archived /\ record' = record
        /\ outcome' = outcome /\ place' = place /\ Commands' = Commands
    BY <1>u DEF commandVars, resultVars
  <2> QED
    BY <1>3, <2>2, <2>3, <2>4 DEF OneStepInv, VerdictIsReal
<1> QED
  BY <1>11, <1>12, <1>13, <1>14, <1>15, <1>16, <1>17 DEF OneStepInv

\* What the steps of the controller do to the types, variable by variable.
LEMMA ControllerTypes ==
  ASSUME StepTypeOK, PlaceInv, StepController
  PROVE  StepTypeOK'
<1> USE DEF StepController, commandVars, processVars, resultVars, At, Throw
<1>s. scope \in Scopes /\ "repl" \in Scopes /\ (kind = "measure" => Len(Commands) = 2)
  BY ScopeFacts DEF Scopes
<1>1. place' \in Places
  <2> USE DEF Places
  <2> QED
    BY DEF StartRepl, Inspect, PreparePi, DeadlineMissed, Launch, AwaitLeader, DescribeScope,
           StopScope, CheckStarted, Archive, JudgeBatch, RecordBenchmark, JudgeTests, JudgeBuild,
           JudgeProfile, ParsePi, SaveInference, WithdrawCredentials, SnapshotEdits,
           NothingToSnapshot, ReadResponse, StopRepl, VerifyUnchanged
<1>2. outcome' \in {outcome, "error", "measured", "not measured", "passed", "not passed", "built",
                   "profiled", "edited", "answered"}
  BY DEF PlaceInv, PiKinds, StartRepl, Inspect, PreparePi, DeadlineMissed, Launch, AwaitLeader, DescribeScope,
         StopScope, CheckStarted, Archive, JudgeBatch, RecordBenchmark, JudgeTests, JudgeBuild,
         JudgeProfile, ParsePi, SaveInference, WithdrawCredentials, SnapshotEdits,
         NothingToSnapshot, ReadResponse, StopRepl, VerifyUnchanged
<1>3. kind' = kind /\ (batch' = batch \/ (batch' = 2 /\ kind = "measure"))
  <2>1. kind' = kind /\ (batch' = batch \/ (batch = 1 /\ batch' = batch + 1 /\ kind = "measure"))
    BY DEF StartRepl, Inspect, PreparePi, DeadlineMissed, Launch, AwaitLeader, DescribeScope,
           StopScope, CheckStarted, Archive, JudgeBatch, RecordBenchmark, JudgeTests, JudgeBuild,
           JudgeProfile, ParsePi, SaveInference, WithdrawCredentials, SnapshotEdits,
           NothingToSnapshot, ReadResponse, StopRepl, VerifyUnchanged
  <2> QED
    BY <2>1
<1>4. /\ leader' \in [Scopes -> {"none", "launching", "running", "ok", "failed", "killed"}]
      /\ helpers' \subseteq Scopes /\ begun' \subseteq Scopes /\ written' \subseteq Scopes
  <2> USE <1>s DEF StepTypeOK
  <2> QED
    BY DEF StartRepl, Inspect, PreparePi, DeadlineMissed, Launch, AwaitLeader, DescribeScope,
           StopScope, CheckStarted, Archive, JudgeBatch, RecordBenchmark, JudgeTests, JudgeBuild,
           JudgeProfile, ParsePi, SaveInference, WithdrawCredentials, SnapshotEdits,
           NothingToSnapshot, ReadResponse, StopRepl, VerifyUnchanged
<1>5. /\ cleanup' \in {"none", "absent", "stopped", "failed"} /\ error' \in BOOLEAN
      /\ archived' \subseteq Scopes
  <2> USE <1>s DEF StepTypeOK
  <2> QED
    BY DEF StartRepl, Inspect, PreparePi, DeadlineMissed, Launch, AwaitLeader, DescribeScope,
           StopScope, CheckStarted, Archive, JudgeBatch, RecordBenchmark, JudgeTests, JudgeBuild,
           JudgeProfile, ParsePi, SaveInference, WithdrawCredentials, SnapshotEdits,
           NothingToSnapshot, ReadResponse, StopRepl, VerifyUnchanged
<1>6. /\ credentials' \in {"absent", "linked", "withdrawn"} /\ record' \in {"none", "valid", "invalid"}
      /\ snapped' \in BOOLEAN /\ expired' \in BOOLEAN
  <2> USE DEF StepTypeOK
  <2> QED
    BY DEF StartRepl, Inspect, PreparePi, DeadlineMissed, Launch, AwaitLeader, DescribeScope,
           StopScope, CheckStarted, Archive, JudgeBatch, RecordBenchmark, JudgeTests, JudgeBuild,
           JudgeProfile, ParsePi, SaveInference, WithdrawCredentials, SnapshotEdits,
           NothingToSnapshot, ReadResponse, StopRepl, VerifyUnchanged
<1>7. batch' \in 1..2 /\ batch' <= Len(Commands)'
  <2>1. Len(Commands)' = Len(Commands)
    BY <1>3 DEF Commands
  <2>2. batch \in 1..2 /\ batch <= Len(Commands)
    BY DEF StepTypeOK
  <2>3. CASE batch' = batch
    BY ONLY <2>1, <2>2, <2>3
  <2>4. CASE batch' = 2 /\ kind = "measure"
    BY <1>s, <2>1, <2>4
  <2> QED
    BY <1>3, <2>3, <2>4
<1>8. outcome' \in StepOutcomes
  <2>1. outcome \in StepOutcomes
    BY DEF StepTypeOK
  <2> HIDE DEF StepController
  <2> QED
    BY ONLY <1>2, <2>1 DEF StepOutcomes, Success
<1> QED
  BY <1>1, <1>3, <1>4, <1>5, <1>6, <1>7, <1>8 DEF StepTypeOK

\* What the controller does keeps it, from one place to the next.
LEMMA ControllerStep ==
  ASSUME OneStepInv, StepController
  PROVE  OneStepInv'
<1> USE DEF commandVars, processVars, resultVars, At, Throw
<1>t. StepTypeOK
  BY DEF OneStepInv
<1>f. /\ kind \in {"build", "test", "profile", "measure", "edit", "consult"}
      /\ scope \in Scopes \ {"repl"}
      /\ kind \in PiKinds => scope = "pi" /\ batch = 1 /\ Len(Commands) = 1
      /\ kind = "measure" => /\ scope = (IF batch = 1 THEN "bench" ELSE "repeat")
                             /\ Len(Commands) = 2
      /\ kind \notin PiKinds \cup {"measure"} => scope = kind /\ batch = 1 /\ Len(Commands) = 1
      /\ batch = 2 => kind = "measure"
  BY <1>t, ScopeFacts
<1>u. kind' = kind /\ batch' = batch => Commands' = Commands /\ scope' = scope
  BY DEF Commands, scope
<1>y. StepTypeOK'
  BY ControllerTypes DEF OneStepInv
<1>d. ASSUME kind' = kind, batch' = batch, UNCHANGED <<processVars, archived>>, kind # "edit",
             place \in {"judge", "record", "close"}, cleanup # "failed", written = {},
             record' = "valid", batch = Len(Commands),
             \A i \in DOMAIN Commands :
               /\ Commands[i] \in begun \cap archived
               /\ leader[Commands[i]] = IF outcome' = "not passed" THEN "failed" ELSE "ok"
      PROVE  VerdictIsReal'
  <2>1. \A s \in Scopes : ~Live(s)
    BY <1>d, <1>f DEF OneStepInv, ScopeInv, Live
  <2>2. \A s \in Scopes : ~Live(s)'
    BY <1>d, <2>1 DEF Live, LeaderLives
  <2>3. Commands' = Commands
    BY <1>d, <1>u
  <2> QED
    BY <1>d, <2>2, <2>3 DEF VerdictIsReal
<1>g. /\ kind # "measure" => \A i \in DOMAIN Commands : Commands[i] = scope
      /\ kind = "measure" => \A i \in DOMAIN Commands : Commands[i] \in {"bench", "repeat"}
  BY <1>t, CommandFacts
<1>1. CASE StartRepl
  <2>1. ScopeInv'
    <3>1. /\ kind = "edit" /\ place = "begin" /\ place' \in {"prepare", "done"}
          /\ kind' = kind /\ batch' = batch /\ helpers' = helpers /\ cleanup' = cleanup
      BY <1>1 DEF StartRepl
    <3>2. \A s \in Scopes \ {"repl"} : leader'[s] = leader[s]
      BY <1>1 DEF StartRepl, OneStepInv, StepTypeOK
    <3>3. \A s \in Scopes \ {"repl"} : ~Live(s)
      BY <3>1 DEF OneStepInv, ScopeInv
    <3>4. \A s \in Scopes \ {"repl"} : ~Live(s)'
      BY <3>1, <3>2, <3>3 DEF Live, LeaderLives
    <3> QED
      BY <1>f, <1>u, <3>1, <3>4 DEF ScopeInv, Live
  <2>2. CheckedInv'
    BY <1>1, <1>f, <1>u DEF StartRepl, OneStepInv, CheckedInv, EndedWell, PlaceInv, PiKinds
  <2>3. PlaceInv'
    BY <1>1, <1>f, <1>u DEF StartRepl, OneStepInv, PlaceInv, PiKinds
  <2>4. InferenceInv'
    BY <1>1, <1>f, <1>u DEF StartRepl, OneStepInv, InferenceInv, Success, PlaceInv, Live, LeaderLives, PiKinds
  <2>5. CredentialInv'
    BY <1>1, <1>f, <1>u DEF StartRepl, OneStepInv, CredentialInv, PlaceInv, ScopeInv, PiKinds, Live, LeaderLives
  <2>6. VerdictIsReal'
    BY <1>1, <1>f, <1>u DEF StartRepl, OneStepInv, VerdictIsReal, Success, PlaceInv
  <2> QED
    BY <1>y, <2>1, <2>2, <2>3, <2>4, <2>5, <2>6 DEF OneStepInv
<1>2. CASE Inspect
  <2>1. ScopeInv'
    BY <1>2, <1>f, <1>u DEF Inspect, OneStepInv, ScopeInv, Live, LeaderLives
  <2>2. CheckedInv'
    BY <1>2, <1>f, <1>u DEF Inspect, OneStepInv, CheckedInv, EndedWell, PlaceInv, PiKinds
  <2>3. PlaceInv'
    BY <1>2, <1>f, <1>u DEF Inspect, OneStepInv, PlaceInv, PiKinds
  <2>4. InferenceInv'
    BY <1>2, <1>f, <1>u DEF Inspect, OneStepInv, InferenceInv, Success, PlaceInv, Live, LeaderLives, PiKinds
  <2>5. CredentialInv'
    BY <1>2, <1>f, <1>u DEF Inspect, OneStepInv, CredentialInv, PlaceInv, ScopeInv, PiKinds, Live, LeaderLives
  <2>6. VerdictIsReal'
    BY <1>2, <1>f, <1>u DEF Inspect, OneStepInv, VerdictIsReal, Success, PlaceInv
  <2> QED
    BY <1>y, <2>1, <2>2, <2>3, <2>4, <2>5, <2>6 DEF OneStepInv
<1>3. CASE PreparePi
  <2>1. ScopeInv'
    BY <1>3, <1>f, <1>u DEF PreparePi, OneStepInv, ScopeInv, Live, LeaderLives
  <2>2. CheckedInv'
    BY <1>3, <1>f, <1>u DEF PreparePi, OneStepInv, CheckedInv, EndedWell, PlaceInv, PiKinds
  <2>3. PlaceInv'
    BY <1>3, <1>f, <1>u DEF PreparePi, OneStepInv, PlaceInv, PiKinds
  <2>4. InferenceInv'
    BY <1>3, <1>f, <1>u DEF PreparePi, OneStepInv, InferenceInv, Success, PlaceInv, Live, LeaderLives, PiKinds
  <2>5. CredentialInv'
    BY <1>3, <1>f, <1>u DEF PreparePi, OneStepInv, CredentialInv, PlaceInv, ScopeInv, PiKinds, Live, LeaderLives
  <2>6. VerdictIsReal'
    BY <1>3, <1>f, <1>u DEF PreparePi, OneStepInv, VerdictIsReal, Success, PlaceInv
  <2> QED
    BY <1>y, <2>1, <2>2, <2>3, <2>4, <2>5, <2>6 DEF OneStepInv
<1>4. CASE DeadlineMissed
  <2>1. ScopeInv'
    BY <1>4, <1>f, <1>u DEF DeadlineMissed, OneStepInv, ScopeInv, Live, LeaderLives
  <2>2. CheckedInv'
    BY <1>4, <1>f, <1>u DEF DeadlineMissed, OneStepInv, CheckedInv, EndedWell, PlaceInv, PiKinds
  <2>3. PlaceInv'
    BY <1>4, <1>f, <1>u DEF DeadlineMissed, OneStepInv, PlaceInv, PiKinds
  <2>4. InferenceInv'
    BY <1>4, <1>f, <1>u DEF DeadlineMissed, OneStepInv, InferenceInv, Success, PlaceInv, Live, LeaderLives, PiKinds
  <2>5. CredentialInv'
    BY <1>4, <1>f, <1>u DEF DeadlineMissed, OneStepInv, CredentialInv, PlaceInv, ScopeInv, PiKinds, Live, LeaderLives
  <2>6. VerdictIsReal'
    BY <1>4, <1>f, <1>u DEF DeadlineMissed, OneStepInv, VerdictIsReal, Success, PlaceInv
  <2> QED
    BY <1>y, <2>1, <2>2, <2>3, <2>4, <2>5, <2>6 DEF OneStepInv
<1>5. CASE Launch
  <2>1. ScopeInv'
    <3>1. /\ place = "launch" /\ kind' = kind /\ batch' = batch /\ helpers' = helpers
          /\ place' \in {"await", "archive", "done"} /\ (place' # "await" => leader' = leader)
      BY <1>5 DEF Launch
    <3>2. \A s \in Scopes \ {scope} : leader'[s] = leader[s]
      BY <1>5 DEF Launch, OneStepInv, StepTypeOK
    <3>3. ~Live(scope) /\ (\A s \in Scopes \ {"repl", scope} : ~Live(s)) /\ (kind # "edit" => ~Live("repl"))
      BY <3>1 DEF OneStepInv, ScopeInv
    <3>4. \A s \in Scopes \ {scope} : Live(s)' = Live(s)
      BY <3>1, <3>2 DEF Live, LeaderLives
    <3>5. place' # "await" => ~Live(scope)'
      BY <1>u, <3>1, <3>3 DEF Live, LeaderLives
    <3> QED
      BY <1>f, <1>u, <3>1, <3>3, <3>4, <3>5 DEF ScopeInv, Live, Scopes
  <2>2. CheckedInv'
    <3>1. /\ place = "launch" /\ kind' = kind /\ batch' = batch /\ begun' = begun
          /\ archived' = archived /\ record' = record /\ record = "none"
          /\ place' \in {"await", "archive", "done"} /\ (place' # "await" => error')
      BY <1>5 DEF Launch, OneStepInv, PlaceInv
    <3>2. batch = 2 => leader'["bench"] = leader["bench"]
      BY <1>5, <1>f DEF Launch, OneStepInv, StepTypeOK, Scopes
    <3> QED
      BY <1>u, <3>1, <3>2 DEF OneStepInv, CheckedInv, EndedWell
  <2>3. PlaceInv'
    BY <1>5, <1>f, <1>u DEF Launch, OneStepInv, PlaceInv, PiKinds
  <2>4. InferenceInv'
    BY <1>5, <1>f, <1>u DEF Launch, OneStepInv, InferenceInv, Success, PlaceInv, Live, LeaderLives, PiKinds
  <2>5. CredentialInv'
    BY <1>5, <1>f, <1>u DEF Launch, OneStepInv, CredentialInv, PlaceInv, ScopeInv, PiKinds, Live, LeaderLives
  <2>6. VerdictIsReal'
    BY <1>5, <1>f, <1>u DEF Launch, OneStepInv, VerdictIsReal, Success, PlaceInv
  <2> QED
    BY <1>y, <2>1, <2>2, <2>3, <2>4, <2>5, <2>6 DEF OneStepInv
<1>6. CASE AwaitLeader
  <2>1. ScopeInv'
    BY <1>6, <1>f, <1>u DEF AwaitLeader, OneStepInv, ScopeInv, Live, LeaderLives
  <2>2. CheckedInv'
    BY <1>6, <1>f, <1>u DEF AwaitLeader, OneStepInv, CheckedInv, EndedWell, PlaceInv, PiKinds
  <2>3. PlaceInv'
    BY <1>6, <1>f, <1>u DEF AwaitLeader, OneStepInv, PlaceInv, PiKinds
  <2>4. InferenceInv'
    BY <1>6, <1>f, <1>u DEF AwaitLeader, OneStepInv, InferenceInv, Success, PlaceInv, Live, LeaderLives, PiKinds
  <2>5. CredentialInv'
    BY <1>6, <1>f, <1>u DEF AwaitLeader, OneStepInv, CredentialInv, PlaceInv, ScopeInv, PiKinds, Live, LeaderLives
  <2>6. VerdictIsReal'
    BY <1>6, <1>f, <1>u DEF AwaitLeader, OneStepInv, VerdictIsReal, Success, PlaceInv
  <2> QED
    BY <1>y, <2>1, <2>2, <2>3, <2>4, <2>5, <2>6 DEF OneStepInv
<1>7. CASE DescribeScope
  <2>1. ScopeInv'
    BY <1>7, <1>f, <1>u DEF DescribeScope, OneStepInv, ScopeInv, Live, LeaderLives
  <2>2. CheckedInv'
    BY <1>7, <1>f, <1>u DEF DescribeScope, OneStepInv, CheckedInv, EndedWell, PlaceInv, PiKinds
  <2>3. PlaceInv'
    BY <1>7, <1>f, <1>u DEF DescribeScope, OneStepInv, PlaceInv, PiKinds
  <2>4. InferenceInv'
    BY <1>7, <1>f, <1>u DEF DescribeScope, OneStepInv, InferenceInv, Success, PlaceInv, Live, LeaderLives, PiKinds
  <2>5. CredentialInv'
    BY <1>7, <1>f, <1>u DEF DescribeScope, OneStepInv, CredentialInv, PlaceInv, ScopeInv, PiKinds, Live, LeaderLives
  <2>6. VerdictIsReal'
    BY <1>7, <1>f, <1>u DEF DescribeScope, OneStepInv, VerdictIsReal, Success, PlaceInv
  <2> QED
    BY <1>y, <2>1, <2>2, <2>3, <2>4, <2>5, <2>6 DEF OneStepInv
<1>8. CASE StopScope
  <2>1. ScopeInv'
    BY <1>8, <1>f, <1>u DEF StopScope, OneStepInv, ScopeInv, Live, LeaderLives
  <2>2. CheckedInv'
    BY <1>8, <1>f, <1>u DEF StopScope, OneStepInv, CheckedInv, EndedWell, PlaceInv, PiKinds
  <2>3. PlaceInv'
    BY <1>8, <1>f, <1>u DEF StopScope, OneStepInv, PlaceInv, PiKinds
  <2>4. InferenceInv'
    BY <1>8, <1>f, <1>u DEF StopScope, OneStepInv, InferenceInv, Success, PlaceInv, Live, LeaderLives, PiKinds
  <2>5. CredentialInv'
    BY <1>8, <1>f, <1>u DEF StopScope, OneStepInv, CredentialInv, PlaceInv, ScopeInv, PiKinds, Live, LeaderLives
  <2>6. VerdictIsReal'
    BY <1>8, <1>f, <1>u DEF StopScope, OneStepInv, VerdictIsReal, Success, PlaceInv
  <2> QED
    BY <1>y, <2>1, <2>2, <2>3, <2>4, <2>5, <2>6 DEF OneStepInv
<1>9. CASE CheckStarted
  <2>1. ScopeInv'
    BY <1>9, <1>f, <1>u DEF CheckStarted, OneStepInv, ScopeInv, Live, LeaderLives
  <2>2. CheckedInv'
    BY <1>9, <1>f, <1>u DEF CheckStarted, OneStepInv, CheckedInv, EndedWell, PlaceInv, PiKinds
  <2>3. PlaceInv'
    BY <1>9, <1>f, <1>u DEF CheckStarted, OneStepInv, PlaceInv, PiKinds
  <2>4. InferenceInv'
    BY <1>9, <1>f, <1>u DEF CheckStarted, OneStepInv, InferenceInv, Success, PlaceInv, Live, LeaderLives, PiKinds
  <2>5. CredentialInv'
    BY <1>9, <1>f, <1>u DEF CheckStarted, OneStepInv, CredentialInv, PlaceInv, ScopeInv, PiKinds, Live, LeaderLives
  <2>6. VerdictIsReal'
    BY <1>9, <1>f, <1>u DEF CheckStarted, OneStepInv, VerdictIsReal, Success, PlaceInv
  <2> QED
    BY <1>y, <2>1, <2>2, <2>3, <2>4, <2>5, <2>6 DEF OneStepInv
<1>10. CASE Archive
  <2>1. ScopeInv'
    BY <1>10, <1>f, <1>u DEF Archive, OneStepInv, ScopeInv, Live, LeaderLives
  <2>2. CheckedInv'
    BY <1>10, <1>f, <1>u DEF Archive, OneStepInv, CheckedInv, EndedWell, PlaceInv, PiKinds
  <2>3. PlaceInv'
    BY <1>10, <1>f, <1>u DEF Archive, OneStepInv, PlaceInv, PiKinds
  <2>4. InferenceInv'
    BY <1>10, <1>f, <1>u DEF Archive, OneStepInv, InferenceInv, Success, PlaceInv, Live, LeaderLives, PiKinds
  <2>5. CredentialInv'
    BY <1>10, <1>f, <1>u DEF Archive, OneStepInv, CredentialInv, PlaceInv, ScopeInv, PiKinds, Live, LeaderLives
  <2>6. VerdictIsReal'
    BY <1>10, <1>f, <1>u DEF Archive, OneStepInv, VerdictIsReal, Success, PlaceInv
  <2> QED
    BY <1>y, <2>1, <2>2, <2>3, <2>4, <2>5, <2>6 DEF OneStepInv
<1>11. CASE JudgeBatch
  <2>1. ScopeInv'
    <3>1. kind = "measure" /\ kind' = kind /\ UNCHANGED <<processVars, cleanup>> /\ place = "judge"
      BY <1>11 DEF JudgeBatch
    <3>2. \A s \in Scopes : Live(s)' = Live(s) /\ LeaderLives(s)' = LeaderLives(s)
      BY <3>1 DEF Live, LeaderLives
    <3>3. CASE batch' = batch
      <4>1. place' = "record"
        BY <1>11, <3>3, <1>t DEF JudgeBatch, StepTypeOK
      <4> QED
        BY <1>f, <1>u, <3>1, <3>2, <3>3, <4>1 DEF OneStepInv, ScopeInv, Scopes
    <3>4. CASE batch' # batch
      <4>1. batch = 1 /\ batch' = 2 /\ place' = "launch" /\ Succeeded
        BY <1>11, <3>4 DEF JudgeBatch, Acceptable
      <4>2. scope = "bench" /\ scope' = "repeat"
        BY <1>f, <3>1, <4>1 DEF scope, Commands
      <4>3. \A s \in Scopes : ~Live(s)
        BY <1>f, <3>1, <4>1 DEF OneStepInv, ScopeInv, Succeeded, Live
      <4> QED
        BY <3>1, <3>2, <4>1, <4>2, <4>3 DEF ScopeInv, Scopes
    <3> QED
      BY <3>3, <3>4
  <2>2. CheckedInv'
    <3>1. kind = "measure" /\ kind' = kind /\ UNCHANGED <<processVars, cleanup, archived>> /\ place = "judge"
      BY <1>11 DEF JudgeBatch
    <3>2. EndedWell(scope) \/ ~Succeeded
      BY <3>1 DEF OneStepInv, CheckedInv, EndedWell, Succeeded
    <3>3. \/ /\ batch = 1 /\ batch' = 2 /\ place' = "launch" /\ Succeeded
          \/ /\ batch = 2 /\ batch' = batch /\ place' = "record" /\ Succeeded /\ written = {}
          \/ /\ batch' = batch /\ place' = "record" /\ error'
      BY <1>11 DEF JudgeBatch, Acceptable
    <3>4. EndedWell("bench") => EndedWell("bench")'
      BY <3>1 DEF EndedWell
    <3>5. batch' = batch => EndedWell(scope)' = EndedWell(scope)
      BY <1>u, <3>1 DEF EndedWell
    <3> QED
      BY <1>f, <1>u, <3>1, <3>2, <3>3, <3>4, <3>5 DEF OneStepInv, CheckedInv, Succeeded, PiKinds
  <2>3. PlaceInv'
    BY <1>11, <1>f, <1>u DEF JudgeBatch, OneStepInv, PlaceInv, PiKinds
  <2>4. InferenceInv'
    BY <1>11, <1>f, <1>u DEF JudgeBatch, OneStepInv, InferenceInv, Success, PlaceInv, Live, LeaderLives, PiKinds
  <2>5. CredentialInv'
    BY <1>11, <1>f, <1>u DEF JudgeBatch, OneStepInv, CredentialInv, PlaceInv, ScopeInv, PiKinds, Live, LeaderLives
  <2>6. VerdictIsReal'
    BY <1>11, <1>f, <1>u DEF JudgeBatch, OneStepInv, VerdictIsReal, Success, PlaceInv
  <2> QED
    BY <1>y, <2>1, <2>2, <2>3, <2>4, <2>5, <2>6 DEF OneStepInv
<1>12. CASE RecordBenchmark
  <2>1. ScopeInv'
    BY <1>12, <1>f, <1>u DEF RecordBenchmark, OneStepInv, ScopeInv, Live, LeaderLives
  <2>2. CheckedInv'
    BY <1>12, <1>f, <1>u DEF RecordBenchmark, OneStepInv, CheckedInv, EndedWell, PlaceInv, PiKinds
  <2>3. PlaceInv'
    BY <1>12, <1>f, <1>u DEF RecordBenchmark, OneStepInv, PlaceInv, PiKinds
  <2>4. InferenceInv'
    BY <1>12, <1>f, <1>u DEF RecordBenchmark, OneStepInv, InferenceInv, Success, PlaceInv, Live, LeaderLives, PiKinds
  <2>5. CredentialInv'
    BY <1>12, <1>f, <1>u DEF RecordBenchmark, OneStepInv, CredentialInv, PlaceInv, ScopeInv, PiKinds, Live, LeaderLives
  <2>6. VerdictIsReal'
    <3> SUFFICES ASSUME outcome' \in Success PROVE VerdictIsReal'
      BY DEF VerdictIsReal
    <3>1. /\ kind = "measure" /\ kind' = kind /\ batch' = batch /\ place = "record" /\ ~error
          /\ UNCHANGED <<processVars, archived>> /\ record' = "valid" /\ outcome' = "measured"
      BY <1>12 DEF RecordBenchmark, Success
    <3>2. /\ EndedWell(scope) /\ cleanup # "failed" /\ batch = Len(Commands) /\ written = {}
          /\ EndedWell("bench")
      BY <1>f, <3>1 DEF OneStepInv, CheckedInv
    <3>3. EndedWell("repeat")
      <4>1. scope = "repeat"
        BY <1>f, <3>1, <3>2
      <4> QED
        BY <3>2, <4>1 DEF EndedWell
    <3>4. \A i \in DOMAIN Commands : EndedWell(Commands[i])
      BY <1>g, <3>1, <3>2, <3>3
    <3> QED
      BY <1>d, <3>1, <3>2, <3>4 DEF EndedWell
  <2> QED
    BY <1>y, <2>1, <2>2, <2>3, <2>4, <2>5, <2>6 DEF OneStepInv
<1>13. CASE JudgeTests
  <2>1. ScopeInv'
    BY <1>13, <1>f, <1>u DEF JudgeTests, OneStepInv, ScopeInv, Live, LeaderLives
  <2>2. CheckedInv'
    BY <1>13, <1>f, <1>u DEF JudgeTests, OneStepInv, CheckedInv, EndedWell, PlaceInv, PiKinds
  <2>3. PlaceInv'
    BY <1>13, <1>f, <1>u DEF JudgeTests, OneStepInv, PlaceInv, PiKinds
  <2>4. InferenceInv'
    BY <1>13, <1>f, <1>u DEF JudgeTests, OneStepInv, InferenceInv, Success, PlaceInv, Live, LeaderLives, PiKinds
  <2>5. CredentialInv'
    BY <1>13, <1>f, <1>u DEF JudgeTests, OneStepInv, CredentialInv, PlaceInv, ScopeInv, PiKinds, Live, LeaderLives
  <2>6. VerdictIsReal'
    <3> SUFFICES ASSUME outcome' \in Success PROVE VerdictIsReal'
      BY DEF VerdictIsReal
    <3>1. /\ kind = "test" /\ kind' = kind /\ batch' = batch /\ place = "judge" /\ ~error
          /\ UNCHANGED <<processVars, archived>> /\ record' = "valid" /\ written = {}
          /\ leader[scope] = IF outcome' = "not passed" THEN "failed" ELSE "ok"
      BY <1>13 DEF JudgeTests, Success, Acceptable, Succeeded
    <3>2. scope \in begun \cap archived /\ cleanup # "failed" /\ batch = Len(Commands)
      BY <1>f, <3>1 DEF OneStepInv, CheckedInv, PiKinds
    <3> QED
      BY <1>d, <1>g, <3>1, <3>2
  <2> QED
    BY <1>y, <2>1, <2>2, <2>3, <2>4, <2>5, <2>6 DEF OneStepInv
<1>14. CASE JudgeBuild
  <2>1. ScopeInv'
    BY <1>14, <1>f, <1>u DEF JudgeBuild, OneStepInv, ScopeInv, Live, LeaderLives
  <2>2. CheckedInv'
    BY <1>14, <1>f, <1>u DEF JudgeBuild, OneStepInv, CheckedInv, EndedWell, PlaceInv, PiKinds
  <2>3. PlaceInv'
    BY <1>14, <1>f, <1>u DEF JudgeBuild, OneStepInv, PlaceInv, PiKinds
  <2>4. InferenceInv'
    BY <1>14, <1>f, <1>u DEF JudgeBuild, OneStepInv, InferenceInv, Success, PlaceInv, Live, LeaderLives, PiKinds
  <2>5. CredentialInv'
    BY <1>14, <1>f, <1>u DEF JudgeBuild, OneStepInv, CredentialInv, PlaceInv, ScopeInv, PiKinds, Live, LeaderLives
  <2>6. VerdictIsReal'
    <3> SUFFICES ASSUME outcome' \in Success PROVE VerdictIsReal'
      BY DEF VerdictIsReal
    <3>1. /\ kind = "build" /\ kind' = kind /\ batch' = batch /\ place = "judge" /\ ~error
          /\ UNCHANGED <<processVars, archived>> /\ record' = "valid" /\ written = {}
          /\ leader[scope] = "ok" /\ outcome' = "built"
      BY <1>14 DEF JudgeBuild, Success, Acceptable, Succeeded
    <3>2. scope \in begun \cap archived /\ cleanup # "failed" /\ batch = Len(Commands)
      BY <1>f, <3>1 DEF OneStepInv, CheckedInv, PiKinds
    <3> QED
      BY <1>d, <1>g, <3>1, <3>2
  <2> QED
    BY <1>y, <2>1, <2>2, <2>3, <2>4, <2>5, <2>6 DEF OneStepInv
<1>15. CASE JudgeProfile
  <2>1. ScopeInv'
    BY <1>15, <1>f, <1>u DEF JudgeProfile, OneStepInv, ScopeInv, Live, LeaderLives
  <2>2. CheckedInv'
    BY <1>15, <1>f, <1>u DEF JudgeProfile, OneStepInv, CheckedInv, EndedWell, PlaceInv, PiKinds
  <2>3. PlaceInv'
    BY <1>15, <1>f, <1>u DEF JudgeProfile, OneStepInv, PlaceInv, PiKinds
  <2>4. InferenceInv'
    BY <1>15, <1>f, <1>u DEF JudgeProfile, OneStepInv, InferenceInv, Success, PlaceInv, Live, LeaderLives, PiKinds
  <2>5. CredentialInv'
    BY <1>15, <1>f, <1>u DEF JudgeProfile, OneStepInv, CredentialInv, PlaceInv, ScopeInv, PiKinds, Live, LeaderLives
  <2>6. VerdictIsReal'
    <3> SUFFICES ASSUME outcome' \in Success PROVE VerdictIsReal'
      BY DEF VerdictIsReal
    <3>1. /\ kind = "profile" /\ kind' = kind /\ batch' = batch /\ place = "judge" /\ ~error
          /\ UNCHANGED <<processVars, archived>> /\ record' = "valid" /\ written = {}
          /\ leader[scope] = "ok" /\ outcome' = "profiled"
      BY <1>15 DEF JudgeProfile, Success, Acceptable, Succeeded
    <3>2. scope \in begun \cap archived /\ cleanup # "failed" /\ batch = Len(Commands)
      BY <1>f, <3>1 DEF OneStepInv, CheckedInv, PiKinds
    <3> QED
      BY <1>d, <1>g, <3>1, <3>2
  <2> QED
    BY <1>y, <2>1, <2>2, <2>3, <2>4, <2>5, <2>6 DEF OneStepInv
<1>16. CASE ParsePi
  <2>1. ScopeInv'
    BY <1>16, <1>f, <1>u DEF ParsePi, OneStepInv, ScopeInv, Live, LeaderLives
  <2>2. CheckedInv'
    BY <1>16, <1>f, <1>u DEF ParsePi, OneStepInv, CheckedInv, EndedWell, PlaceInv, PiKinds, Succeeded
  <2>3. PlaceInv'
    BY <1>16, <1>f, <1>u DEF ParsePi, OneStepInv, PlaceInv, PiKinds
  <2>4. InferenceInv'
    BY <1>16, <1>f, <1>u DEF ParsePi, OneStepInv, InferenceInv, Success, PlaceInv, Live, LeaderLives, PiKinds
  <2>5. CredentialInv'
    BY <1>16, <1>f, <1>u DEF ParsePi, OneStepInv, CredentialInv, PlaceInv, ScopeInv, PiKinds, Live, LeaderLives
  <2>6. VerdictIsReal'
    BY <1>16, <1>f, <1>u DEF ParsePi, OneStepInv, VerdictIsReal, Success, PlaceInv
  <2> QED
    BY <1>y, <2>1, <2>2, <2>3, <2>4, <2>5, <2>6 DEF OneStepInv
<1>17. CASE SaveInference
  <2>1. ScopeInv'
    BY <1>17, <1>f, <1>u DEF SaveInference, OneStepInv, ScopeInv, Live, LeaderLives
  <2>2. CheckedInv'
    BY <1>17, <1>f, <1>u DEF SaveInference, OneStepInv, CheckedInv, EndedWell, PlaceInv, PiKinds
  <2>3. PlaceInv'
    BY <1>17, <1>f, <1>u DEF SaveInference, OneStepInv, PlaceInv, PiKinds
  <2>4. InferenceInv'
    BY <1>17, <1>f, <1>u DEF SaveInference, OneStepInv, InferenceInv, Success, PlaceInv, Live, LeaderLives, PiKinds
  <2>5. CredentialInv'
    BY <1>17, <1>f, <1>u DEF SaveInference, OneStepInv, CredentialInv, PlaceInv, ScopeInv, PiKinds, Live, LeaderLives
  <2>6. VerdictIsReal'
    BY <1>17, <1>f, <1>u DEF SaveInference, OneStepInv, VerdictIsReal, Success, PlaceInv
  <2> QED
    BY <1>y, <2>1, <2>2, <2>3, <2>4, <2>5, <2>6 DEF OneStepInv
<1>18. CASE WithdrawCredentials
  <2>1. ScopeInv'
    BY <1>18, <1>f, <1>u DEF WithdrawCredentials, OneStepInv, ScopeInv, Live, LeaderLives
  <2>2. CheckedInv'
    BY <1>18, <1>f, <1>u DEF WithdrawCredentials, OneStepInv, CheckedInv, EndedWell, PlaceInv, PiKinds
  <2>3. PlaceInv'
    BY <1>18, <1>f, <1>u DEF WithdrawCredentials, OneStepInv, PlaceInv, PiKinds
  <2>4. InferenceInv'
    BY <1>18, <1>f, <1>u DEF WithdrawCredentials, OneStepInv, InferenceInv, Success, PlaceInv, Live, LeaderLives, PiKinds
  <2>5. CredentialInv'
    BY <1>18, <1>f, <1>u DEF WithdrawCredentials, OneStepInv, CredentialInv, PlaceInv, ScopeInv, PiKinds, Live, LeaderLives
  <2>6. VerdictIsReal'
    BY <1>18, <1>f, <1>u DEF WithdrawCredentials, OneStepInv, VerdictIsReal, Success, PlaceInv
  <2> QED
    BY <1>y, <2>1, <2>2, <2>3, <2>4, <2>5, <2>6 DEF OneStepInv
<1>19. CASE SnapshotEdits
  <2>1. ScopeInv'
    BY <1>19, <1>f, <1>u DEF SnapshotEdits, OneStepInv, ScopeInv, Live, LeaderLives
  <2>2. CheckedInv'
    BY <1>19, <1>f, <1>u DEF SnapshotEdits, OneStepInv, CheckedInv, EndedWell, PlaceInv, PiKinds
  <2>3. PlaceInv'
    BY <1>19, <1>f, <1>u DEF SnapshotEdits, OneStepInv, PlaceInv, PiKinds
  <2>4. InferenceInv'
    <3>1. /\ kind = "edit" /\ kind' = kind /\ UNCHANGED <<leader, helpers, record>> /\ place = "snapshot"
          /\ \/ /\ cleanup # "failed" /\ written' = {} /\ snapped' /\ place' = "read" /\ outcome' = outcome
             \/ place' = "close" /\ outcome' = "error" /\ snapped' = snapped
      BY <1>19 DEF SnapshotEdits
    <3>2. cleanup # "failed" => ~Live("pi")
      BY <1>f, <3>1 DEF OneStepInv, ScopeInv, Live, PiKinds
    <3>3. Live("pi")' = Live("pi")
      BY <3>1 DEF Live, LeaderLives
    <3>4. ~snapped /\ outcome \in {"none", "error"}
      BY <3>1 DEF OneStepInv, InferenceInv, PlaceInv
    <3>5. outcome' \notin Success /\ outcome' # "edited"
      BY <3>1, <3>4 DEF Success
    <3>6. snapped' => /\ place' = "read" /\ ~Live("pi")' /\ written' \subseteq {"repl"}
      BY <3>1, <3>2, <3>3, <3>4
    <3>7. place' = "read" => snapped'
      BY <3>1
    <3> QED
      BY <3>1, <3>5, <3>6, <3>7 DEF InferenceInv
  <2>5. CredentialInv'
    BY <1>19, <1>f, <1>u DEF SnapshotEdits, OneStepInv, CredentialInv, PlaceInv, ScopeInv, PiKinds, Live, LeaderLives
  <2>6. VerdictIsReal'
    BY <1>19, <1>f, <1>u DEF SnapshotEdits, OneStepInv, VerdictIsReal, Success, PlaceInv
  <2> QED
    BY <1>y, <2>1, <2>2, <2>3, <2>4, <2>5, <2>6 DEF OneStepInv
<1>20. CASE NothingToSnapshot
  <2>1. ScopeInv'
    BY <1>20, <1>f, <1>u DEF NothingToSnapshot, OneStepInv, ScopeInv, Live, LeaderLives
  <2>2. CheckedInv'
    BY <1>20, <1>f, <1>u DEF NothingToSnapshot, OneStepInv, CheckedInv, EndedWell, PlaceInv, PiKinds
  <2>3. PlaceInv'
    BY <1>20, <1>f, <1>u DEF NothingToSnapshot, OneStepInv, PlaceInv, PiKinds
  <2>4. InferenceInv'
    BY <1>20, <1>f, <1>u DEF NothingToSnapshot, OneStepInv, InferenceInv, Success, PlaceInv, Live, LeaderLives, PiKinds
  <2>5. CredentialInv'
    BY <1>20, <1>f, <1>u DEF NothingToSnapshot, OneStepInv, CredentialInv, PlaceInv, ScopeInv, PiKinds, Live, LeaderLives
  <2>6. VerdictIsReal'
    BY <1>20, <1>f, <1>u DEF NothingToSnapshot, OneStepInv, VerdictIsReal, Success, PlaceInv
  <2> QED
    BY <1>y, <2>1, <2>2, <2>3, <2>4, <2>5, <2>6 DEF OneStepInv
<1>21. CASE ReadResponse
  <2>1. ScopeInv'
    BY <1>21, <1>f, <1>u DEF ReadResponse, OneStepInv, ScopeInv, Live, LeaderLives
  <2>2. CheckedInv'
    BY <1>21, <1>f, <1>u DEF ReadResponse, OneStepInv, CheckedInv, EndedWell, PlaceInv, PiKinds
  <2>3. PlaceInv'
    BY <1>21, <1>f, <1>u DEF ReadResponse, OneStepInv, PlaceInv, PiKinds
  <2>4. InferenceInv'
    BY <1>21, <1>f, <1>u DEF ReadResponse, OneStepInv, InferenceInv, Success, PlaceInv, Live, LeaderLives, PiKinds
  <2>5. CredentialInv'
    BY <1>21, <1>f, <1>u DEF ReadResponse, OneStepInv, CredentialInv, PlaceInv, ScopeInv, PiKinds, Live, LeaderLives
  <2>6. VerdictIsReal'
    BY <1>21, <1>f, <1>u DEF ReadResponse, OneStepInv, VerdictIsReal, Success, PlaceInv
  <2> QED
    BY <1>y, <2>1, <2>2, <2>3, <2>4, <2>5, <2>6 DEF OneStepInv
<1>22. CASE StopRepl
  <2>0. /\ kind = "edit" /\ place = "close" /\ place' = "done" /\ UNCHANGED <<commandVars, begun, written, resultVars>>
        /\ outcome' \in {outcome, "error"}
        /\ helpers' \in {helpers, helpers \ {"repl"}}
        /\ leader' = leader \/ \E end : leader' = [leader EXCEPT !["repl"] = end]
    BY <1>22 DEF StopRepl
  <2>s. \A s \in Scopes \ {"repl"} : /\ leader'[s] = leader[s] /\ (s \in helpers' <=> s \in helpers)
                                   /\ Live(s)' = Live(s)
    <3>1. \A s \in Scopes \ {"repl"} : leader'[s] = leader[s] /\ (s \in helpers' <=> s \in helpers)
      BY <2>0, <1>t DEF StepTypeOK
    <3> QED
      BY <3>1 DEF Live, LeaderLives
  <2>c. scope = "pi" /\ scope' = scope /\ {"pi", "bench"} \subseteq Scopes \ {"repl"}
    BY <1>f, <1>u, <2>0 DEF PiKinds, Scopes
  <2>1. ScopeInv'
    <3>1. (\A s \in Scopes \ {"repl", scope} : ~Live(s)) /\ ~LeaderLives(scope)
          /\ (cleanup = "failed" \/ scope \notin helpers)
      BY <2>0 DEF OneStepInv, ScopeInv
    <3>2. ~LeaderLives(scope)'
      BY <2>s, <2>c, <3>1 DEF LeaderLives
    <3> QED
      BY <2>0, <2>s, <2>c, <3>1, <3>2 DEF ScopeInv
  <2>2. CheckedInv'
    <3>1. /\ EndedWell("pi")' = EndedWell("pi")
          /\ EndedWell("bench")' = EndedWell("bench")
      BY <2>0, <2>s, <2>c DEF EndedWell
    <3> QED
      BY <2>0, <3>1 DEF OneStepInv, CheckedInv
  <2>3. PlaceInv'
    BY <1>22, <1>f, <1>u DEF StopRepl, OneStepInv, PlaceInv, PiKinds
  <2>4. InferenceInv'
    BY <2>0, <2>s, <2>c DEF OneStepInv, InferenceInv, Success
  <2>5. CredentialInv'
    BY <2>0, <2>s, <2>c DEF OneStepInv, CredentialInv
  <2>6. VerdictIsReal'
    <3> SUFFICES ASSUME outcome' \in Success PROVE VerdictIsReal'
      BY DEF VerdictIsReal
    <3>1. /\ outcome' = outcome /\ helpers' = helpers \ {"repl"}
          /\ leader' = [leader EXCEPT !["repl"] = IF LeaderLives("repl") THEN "killed" ELSE @]
      BY <1>22 DEF StopRepl, Success
    <3>2. record = "valid" /\ outcome = "edited" /\ snapped
      BY <2>0, <3>1 DEF OneStepInv, InferenceInv, PiKinds
    <3>3. EndedWell("pi") /\ cleanup # "failed" /\ ~Live("pi") /\ written \subseteq {"repl"}
      BY <2>0, <3>2 DEF OneStepInv, CheckedInv, InferenceInv, PiKinds
    <3>4. ~Live("repl")'
      BY <3>1, <1>t DEF Live, LeaderLives, StepTypeOK, Scopes
    <3>5. \A s \in Scopes : ~Live(s)'
      BY <2>0, <2>s, <2>c, <3>3, <3>4 DEF OneStepInv, ScopeInv
    <3>6. EndedWell("pi")'
      BY <2>0, <2>s, <2>c, <3>3 DEF EndedWell
    <3>7. Commands' = Commands /\ batch' = batch /\ batch = Len(Commands) /\ \A i \in DOMAIN Commands : Commands[i] = "pi"
      BY <1>f, <1>g, <1>u, <2>0 DEF PiKinds
    <3> QED
      BY <2>0, <3>1, <3>2, <3>3, <3>5, <3>6, <3>7 DEF VerdictIsReal, EndedWell
  <2> QED
    BY <1>y, <2>1, <2>2, <2>3, <2>4, <2>5, <2>6 DEF OneStepInv
<1>23. CASE VerifyUnchanged
  <2>1. ScopeInv'
    BY <1>23, <1>f, <1>u DEF VerifyUnchanged, OneStepInv, ScopeInv, Live, LeaderLives
  <2>2. CheckedInv'
    BY <1>23, <1>f, <1>u DEF VerifyUnchanged, OneStepInv, CheckedInv, EndedWell, PlaceInv, PiKinds
  <2>3. PlaceInv'
    BY <1>23, <1>f, <1>u DEF VerifyUnchanged, OneStepInv, PlaceInv, PiKinds
  <2>4. InferenceInv'
    BY <1>23, <1>f, <1>u DEF VerifyUnchanged, OneStepInv, InferenceInv, Success, PlaceInv, Live, LeaderLives, PiKinds
  <2>5. CredentialInv'
    BY <1>23, <1>f, <1>u DEF VerifyUnchanged, OneStepInv, CredentialInv, PlaceInv, ScopeInv, PiKinds, Live, LeaderLives
  <2>6. VerdictIsReal'
    <3> SUFFICES ASSUME outcome' \in Success PROVE VerdictIsReal'
      BY DEF VerdictIsReal
    <3>1. /\ kind = "consult" /\ place = "close" /\ UNCHANGED <<commandVars, processVars, resultVars>>
          /\ outcome' = outcome /\ written = {}
      BY <1>23 DEF VerifyUnchanged, Success
    <3>2. record = "valid" /\ outcome = "answered"
      BY <3>1 DEF OneStepInv, InferenceInv, PiKinds
    <3>3. EndedWell("pi") /\ cleanup # "failed"
      BY <3>1, <3>2 DEF OneStepInv, CheckedInv, PiKinds
    <3>4. batch = Len(Commands) /\ \A i \in DOMAIN Commands : Commands[i] = "pi"
      BY <1>f, <1>g, <3>1 DEF PiKinds
    <3> QED
      BY <1>d, <3>1, <3>2, <3>3, <3>4 DEF EndedWell
  <2> QED
    BY <1>y, <2>1, <2>2, <2>3, <2>4, <2>5, <2>6 DEF OneStepInv
<1> QED
  BY <1>1, <1>2, <1>3, <1>4, <1>5, <1>6, <1>7, <1>8, <1>9, <1>10, <1>11, <1>12, <1>13, <1>14, <1>15, <1>16, <1>17, <1>18, <1>19, <1>20, <1>21, <1>22, <1>23 DEF StepController

\* Every step of the system keeps it.
LEMMA StepKept ==
  ASSUME OneStepInv, [StepNext]_stepVars
  PROVE  OneStepInv'
<1>1. CASE UNCHANGED stepVars \/ DeadlinePasses
  <2>1. UNCHANGED <<commandVars, processVars, place, outcome, credentials, record, snapped>> /\ expired' \in BOOLEAN
    BY <1>1 DEF DeadlinePasses, stepVars, resultVars, OneStepInv, StepTypeOK
  <2>2. Commands' = Commands /\ scope' = scope
    BY <2>1 DEF Commands, scope, commandVars
  <2>3. \A s \in Scopes : Live(s)' = Live(s) /\ LeaderLives(s)' = LeaderLives(s)
    BY <2>1 DEF Live, LeaderLives, processVars
  <2>4. scope \in Scopes /\ {"repl", "pi"} \subseteq Scopes
    BY ScopeFacts DEF OneStepInv, Scopes
  <2> USE DEF commandVars, processVars, OneStepInv
  <2>5. StepTypeOK' /\ ScopeInv' /\ CheckedInv'
    BY <2>1, <2>2, <2>3, <2>4 DEF StepTypeOK, ScopeInv, CheckedInv, EndedWell
  <2>6. PlaceInv' /\ InferenceInv' /\ CredentialInv' /\ VerdictIsReal'
    BY <2>1, <2>2, <2>3, <2>4 DEF PlaceInv, InferenceInv, CredentialInv, VerdictIsReal
  <2> QED
    BY <2>5, <2>6
<1> QED
  BY <1>1, ProcessStep, ControllerStep DEF StepNext, Processes

\* The invariant of a step: where a process may be alive, what the checks of its
\* commands have established so far, and what became of edits and credentials.
THEOREM StepInvariant == StepSpec => []OneStepInv
<1>1. StepInit => OneStepInv
  BY StepStart
<1>2. OneStepInv /\ [StepNext]_stepVars => OneStepInv'
  BY StepKept
<1> QED
  BY <1>1, <1>2, PTL DEF StepSpec

\* The state of a step stays in its type, whatever its processes do and wherever
\* the controller is among the checks of runCommand (process.ts).
THEOREM StepTypes == StepSpec => []StepTypeOK
<1>1. OneStepInv => StepTypeOK
  BY DEF OneStepInv
<1> QED
  BY <1>1, StepInvariant, PTL

\* A step only succeeds when each of its commands started, ended as the outcome
\* says and left its logs, when no process of any scope is left, and nothing but a
\* REPL wrote into the worktree since it was committed (process.ts, the runners).
THEOREM VerdictsAreReal == StepSpec => []VerdictIsReal
<1>1. OneStepInv => VerdictIsReal
  BY DEF OneStepInv
<1> QED
  BY <1>1, StepInvariant, PTL

\* Once edits are committed, no process of Pi is alive and nothing Pi wrote is
\* left out of the commit; a step that is over has withdrawn Pi's credentials,
\* unless Pi's scope could not be stopped (pi-runner.ts, inference.ts).
THEOREM PiIsContained == StepSpec => []PiContained
<1>1. OneStepInv => SnapshotComplete
  BY DEF OneStepInv, InferenceInv, SnapshotComplete
<1>2. OneStepInv => CredentialsWithdrawn
  BY DEF OneStepInv, CredentialInv, CredentialsWithdrawn
<1>3. OneStepInv => PiContained
  BY <1>1, <1>2 DEF PiContained
<1> QED
  BY <1>3, StepInvariant, PTL

-------------------------------------------------------------------------------
(***************************************************************************)
(* A campaign of runs (TempoCampaign).  The inductive invariant is         *)
(* CampaignInv.  The invariant of a run holds in each of its runs; LogInv  *)
(* relates the log to what is saved, BudgetInv what was counted to the     *)
(* log, OpeningInv, TailInv and KeepsInv say where in the log the results  *)
(* are that the verification looks for, DetailInv and ComparedInv what     *)
(* they say, BestInv which of the keeps the best revision comes from, and  *)
(* TrackInv that the results lead from the origin of the run to its state. *)
(***************************************************************************)

\* The result of the active step is saved, and the state does not know of it yet.
Pending == Active /\ StepSaved

\* The number of results that the state has taken in.
Taken == IF Active THEN state.sequence - 1 ELSE state.sequence

\* What is saved of the latest step of phase p, as an entry of the log.
Saved(p) == [phase |-> p, step |-> results[p].step, revision |-> results[p].revision,
             outcome |-> results[p].outcome, detail |-> results[p].detail]

\* The log has every result in the order of the steps, and what is saved under a
\* phase is the latest of its entries.
LogInv ==
  /\ state.sequence = Len(log) + (IF Active /\ ~StepSaved THEN 1 ELSE 0)
  /\ \A i \in DOMAIN log :
        /\ log[i].step = i
        /\ log[i].outcome = Error \/ log[i].outcome.kind = KindOf(log[i].phase)
        /\ results[log[i].phase] # None /\ i <= results[log[i].phase].step
  /\ \A p \in WorkPhases : results[p] # None =>
        results[p].step \in DOMAIN log /\ log[results[p].step] = Saved(p)

Counting(ps) == IF Active /\ ~StepSaved /\ state.phase \in ps THEN 1 ELSE 0

\* What is counted is what was begun, and within the limits.
BudgetInv ==
  /\ state.attemptsStarted = Carried("attemptsStarted")
       + Cardinality(Steps({"start-attempt"})) + Counting({"start-attempt"})
  /\ state.piCallsStarted = Carried("piCallsStarted")
       + Cardinality(Steps(inferencePhases)) + Counting(inferencePhases)
  /\ spent = [attempts |-> state.attemptsStarted, piCalls |-> state.piCallsStarted]
  /\ state.attemptsStarted <= MaxAttempts
  /\ state.piCallsStarted <= MaxPiCalls

Valid(o) == o # Error /\ o.kind = "measurement" /\ o.valid

\* The baseline was measured.
Qualified == 2 \in DOMAIN log /\ log[2].phase = "baseline" /\ Valid(log[2].outcome)

\* The first two steps are those of the initial tests and of the baseline, and
\* only the step that ends the run comes without a baseline.
OpeningInv ==
  /\ \A i \in DOMAIN log :
       /\ log[i].phase = "prepare" => i = 1
       /\ log[i].phase = "baseline" => i = 2
       /\ log[i].phase \notin {"prepare", "baseline", "finish"} => i > 2 /\ Qualified
  /\ state.phase = "prepare" => Taken = 0
  /\ state.phase = "baseline" => Taken = 1
  /\ state.phase \notin {"prepare", "baseline", "finish", "done"} => Taken >= 2 /\ Qualified

\* The detail of a valid measurement is the measurement, that of a keep the one
\* it stands on, and a parent that knows a best measurement knows the initial one.
DetailInv ==
  /\ \A i \in DOMAIN log : Valid(log[i].outcome) => log[i].detail \in Measured
  /\ (pc = "performed" /\ Valid(effect.outcome)) =>
        effect.detail \in Measured /\ effect.outcome = Verdict(effect.detail)
  /\ (pc = "performed" /\ state.phase = "keep" /\ effect.outcome # Error) =>
        effect.detail = results["measure"].detail
  /\ parent # None => (parent.best # None => parent.initial # None)

TestedAt(i, rev) ==
  /\ i \in DOMAIN log /\ log[i].phase = "test" /\ log[i].outcome # Error
  /\ log[i].outcome.passed /\ log[i].outcome.revision = rev

MeasuredAt(i, rev) ==
  /\ i \in DOMAIN log /\ log[i].phase = "measure" /\ log[i].outcome # Error
  /\ log[i].outcome.valid /\ log[i].outcome.improved /\ log[i].outcome.revision = rev

ReviewedAt(i, rev) ==
  /\ i \in DOMAIN log /\ log[i].phase = "review" /\ log[i].outcome # Error
  /\ log[i].outcome.passed /\ log[i].outcome.revision = rev

\* What a candidate has behind it are the results right before.
TailInv ==
  /\ state.phase = "measure" => TestedAt(Taken, state.workingRevision)
  /\ state.phase = "review" =>
       /\ MeasuredAt(Taken, state.workingRevision)
       /\ TestedAt(Taken - 1, state.workingRevision)
  /\ state.phase = "keep" =>
       /\ ReviewedAt(Taken, state.workingRevision)
       /\ MeasuredAt(Taken - 1, state.workingRevision)
       /\ TestedAt(Taken - 2, state.workingRevision)

\* And so they are of every revision that was kept.
KeepsInv ==
  \A k \in Keeps :
    /\ ReviewedAt(k - 1, log[k].outcome.revision)
    /\ MeasuredAt(k - 2, log[k].outcome.revision)
    /\ TestedAt(k - 3, log[k].outcome.revision)
    /\ log[k].detail = log[k - 2].detail

\* The keeps that the state has taken in.
KeptSoFar == {k \in Keeps : k <= Taken}

\* The best revision is that of the last of them.
BestInv ==
  state.bestRevision = IF KeptSoFar = {} THEN Origin.bestRevision
                       ELSE log[LastOf(KeptSoFar)].outcome.revision

\* The outcome o of a measurement d says how it compares to the first and to the
\* best one.
Compares(o, first, best, d) ==
  /\ first # None /\ best # None
  /\ o.improved = assessCandidate(first, best, d).improved
  /\ o.targetMet = assessCandidate(first, best, d).targetMet

\* Every candidate was held against the best one before it.
ComparedInv ==
  \A i \in Steps({"measure"}) : Valid(log[i].outcome) =>
     Compares(log[i].outcome, VerifiedInitial, BestAfter(PreviousKeep(i)), log[i].detail)

\* The state s at time t.
AtTime(s, t) == [s EXCEPT !.elapsed = t]

\* A run that stands at a can begin the step of the entry e, and stands at b
\* when it is completed.  No time passes.
Follows(a, e, b) ==
  LET active == beginSavedStep(a, 0) IN
  /\ a.phase # "done" /\ a.activeStep = 0
  /\ e.step = active.sequence /\ e.phase = active.phase
  /\ e.revision = active.workingRevision
  /\ MayFinish(active, e.step, e.outcome)
  /\ b = finishStep(active, e.outcome)

\* The states h, timeless, lead from the origin of the run along the log.
TrackOf(h) ==
  /\ h \in [0 .. Len(log) -> RunStates(Revisions)]
  /\ h[0] = Origin
  /\ \A i \in DOMAIN log : Follows(h[i - 1], log[i], h[i])
  /\ \A i \in 0 .. Len(log) : h[i].elapsed = 0

\* The saved state is where they lead, as long as no time limit has turned it.
TrackInv ==
  state.elapsed < MaxDuration =>
    \E h : /\ TrackOf(h)
           /\ ~Active => AtTime(state, 0) = h[Len(log)]
           /\ Active => /\ AtTime(state, 0) = beginSavedStep(h[Taken], 0)
                        /\ h[Taken].phase # "done" /\ h[Taken].activeStep = 0

CampaignInv ==
  /\ IInv /\ FailedInv /\ CampaignTypeOK
  /\ LogInv /\ BudgetInv /\ OpeningInv /\ DetailInv /\ TailInv /\ KeepsInv /\ BestInv
  /\ ComparedInv /\ TrackInv

\* Induction on the natural numbers, for a set.
LEMMA SetInduction ==
  ASSUME NEW S, 0 \in S, \A n \in Nat : n \in S => n + 1 \in S
  PROVE  Nat \subseteq S
<1> DEFINE T == Nat \ S
           R == OpToRel(<, Nat)
<1>1. SUFFICES ASSUME T # {} PROVE FALSE
  OBVIOUS
<1>2. IsWellFoundedOn(R, Nat)
  BY NatLessThanWellFounded
<1>3. T \subseteq Nat
  OBVIOUS
<1> HIDE DEF T, R
<1>4. PICK x \in T : \A y \in T : ~(<<y, x>> \in R)
  BY ONLY <1>1, <1>2, <1>3, WFMin
<1> USE DEF T
<1>5. x \in Nat /\ x \notin S
  OBVIOUS
<1>6. x # 0 /\ x - 1 \in Nat /\ x - 1 \in T
  BY <1>5
<1>7. <<x - 1, x>> \in R
  BY <1>5, <1>6 DEF R, OpToRel
<1> QED
  BY <1>4, <1>6, <1>7

\* A set of numbers up to a bound has a greatest one.
LEMMA HasGreatest ==
  ASSUME NEW m \in Nat, NEW T \in SUBSET (1 .. m), T # {}
  PROVE  \E x \in T : \A y \in T : y <= x
<1> DEFINE S == {n \in Nat : \A U \in SUBSET (1 .. n) :
                   U # {} => \E x \in U : \A y \in U : y <= x}
<1>1. 0 \in S
  <2>1. \A U \in SUBSET (1 .. 0) : U = {}
    OBVIOUS
  <2> QED
    BY <2>1
<1>2. ASSUME NEW n \in Nat, n \in S PROVE n + 1 \in S
  <2> SUFFICES ASSUME NEW U \in SUBSET (1 .. n + 1), U # {}
               PROVE  \E x \in U : \A y \in U : y <= x
    OBVIOUS
  <2>1. CASE n + 1 \in U
    BY <2>1
  <2>2. CASE n + 1 \notin U
    <3>1. U \in SUBSET (1 .. n)
      BY <2>2
    <3> QED
      BY <1>2, <3>1
  <2> QED
    BY <2>1, <2>2
<1> HIDE DEF S
<1>3. m \in S
  BY <1>1, <1>2, SetInduction
<1> QED
  BY <1>3 DEF S

\* The last of a set of numbers up to a bound.
LEMMA LastOfFacts ==
  ASSUME NEW m \in Nat, NEW T \in SUBSET (1 .. m)
  PROVE  /\ LastOf(T) \in 0 .. m
         /\ T = {} => LastOf(T) = 0
         /\ T # {} => LastOf(T) \in T
         /\ \A y \in T : y <= LastOf(T)
<1>1. CASE T = {}
  BY <1>1 DEF LastOf
<1>2. CASE T # {}
  <2>1. \E x \in T : \A y \in T : x >= y
    BY <1>2, HasGreatest
  <2>2. Max(T) \in T /\ \A y \in T : Max(T) >= y
    BY <2>1 DEF Max
  <2>3. LastOf(T) = Max(T)
    BY <1>2 DEF LastOf
  <2>4. LastOf(T) \in T /\ \A y \in T : LastOf(T) >= y
    BY <2>2, <2>3
  <2>5. LastOf(T) \in 1 .. m
    BY <2>4
  <2> QED
    BY <1>2, <2>4, <2>5
<1> QED
  BY <1>1, <1>2

\* It is the one that no other is greater than.
LEMMA LastOfIs ==
  ASSUME NEW m \in Nat, NEW T \in SUBSET (1 .. m), NEW x \in T, \A y \in T : y <= x
  PROVE  LastOf(T) = x
<1>1. LastOf(T) \in T /\ x <= LastOf(T)
  BY LastOfFacts
<1> DEFINE l == LastOf(T)
<1>2. l \in T /\ x <= l
  BY <1>1
<1> HIDE DEF l
<1>3. l <= x /\ l \in 1 .. m /\ x \in 1 .. m
  BY <1>2
<1>4. l = x
  BY <1>2, <1>3
<1> QED
  BY <1>4 DEF l

\* What the log is.
LEMMA LogFacts ==
  ASSUME CampaignTypeOK
  PROVE  /\ log \in Seq(LogEntries)
         /\ Len(log) \in Nat /\ DOMAIN log = 1 .. Len(log)
         /\ \A i \in DOMAIN log :
              /\ log[i] \in LogEntries
              /\ log[i].phase \in WorkPhases /\ log[i].step \in Nat
              /\ log[i].revision \in Revisions
              /\ log[i].outcome \in Outcomes(Revisions) /\ log[i].detail \in Details
<1>1. log \in Seq(LogEntries)
  BY DEF CampaignTypeOK
<1>2. Len(log) \in Nat /\ DOMAIN log = 1 .. Len(log)
  BY <1>1, LenProperties
<1>3. \A i \in DOMAIN log : log[i] \in LogEntries
  BY <1>1, <1>2, ElementOfSeq
<1> QED
  BY <1>1, <1>2, <1>3 DEF LogEntries

\* The sets of entries that the verification picks from the log.
LEMMA PickFacts ==
  ASSUME CampaignTypeOK
  PROVE  /\ \A ps : Steps(ps) \in SUBSET (1 .. Len(log))
         /\ Keeps \in SUBSET (1 .. Len(log))
         /\ \A k : {i \in Keeps : i < k} \in SUBSET (1 .. Len(log))
         /\ \A k : {i \in Keeps : i <= k} \in SUBSET (1 .. Len(log))
         /\ \A k : PreviousKeep(k) \in 0 .. Len(log)
         /\ \A k : PreviousKeep(k) # 0 => PreviousKeep(k) \in Keeps /\ PreviousKeep(k) < k
         /\ \A k : \A i \in Keeps : i < k => i <= PreviousKeep(k)
         /\ LastOf(Keeps) \in 0 .. Len(log)
         /\ LastOf(Keeps) # 0 => LastOf(Keeps) \in Keeps
         /\ \A i \in Keeps : i <= LastOf(Keeps)
<1>1. Len(log) \in Nat /\ DOMAIN log = 1 .. Len(log)
  BY LogFacts
<1>2. \A ps : Steps(ps) \in SUBSET (1 .. Len(log))
  BY <1>1 DEF Steps
<1>3. Keeps \in SUBSET (1 .. Len(log))
  BY <1>1 DEF Steps, Keeps
<1>4. ASSUME NEW k
      PROVE  /\ PreviousKeep(k) \in 0 .. Len(log)
             /\ PreviousKeep(k) # 0 => PreviousKeep(k) \in Keeps /\ PreviousKeep(k) < k
             /\ \A i \in Keeps : i < k => i <= PreviousKeep(k)
  <2> DEFINE T == {i \in Keeps : i < k}
  <2>1. T \in SUBSET (1 .. Len(log))
    BY <1>3
  <2>2. PreviousKeep(k) = LastOf(T)
    BY DEF PreviousKeep
  <2>3. /\ LastOf(T) \in 0 .. Len(log)
        /\ T = {} => LastOf(T) = 0
        /\ T # {} => LastOf(T) \in T
        /\ \A y \in T : y <= LastOf(T)
    <3> HIDE DEF T
    <3> QED
      BY <1>1, <2>1, LastOfFacts
  <2> QED
    BY <2>2, <2>3
<1>5. /\ LastOf(Keeps) \in 0 .. Len(log)
      /\ LastOf(Keeps) # 0 => LastOf(Keeps) \in Keeps
      /\ \A i \in Keeps : i <= LastOf(Keeps)
  BY <1>1, <1>3, LastOfFacts
<1> QED
  BY <1>2, <1>3, <1>4, <1>5

-------------------------------------------------------------------------------
(* What the steps of a campaign do to its records.                         *)

\* A step of the campaign is one of the run, with what the log and the counts
\* make of it, or the start of the next run.
LEMMA CampaignSteps ==
  ASSUME [CampaignNext]_campaignVars
  PROVE  \/ BeginCounted
         \/ SaveLogged
         \/ performLiveStep /\ UNCHANGED <<log, runs, spent>>
         \/ (Advance \/ Recover) /\ UNCHANGED <<log, runs, spent>>
         \/ Others /\ UNCHANGED <<log, runs, spent>>
         \/ StartChild
  BY Zenon DEF CampaignNext, campaignVars, Operator, Others

\* All but the last are steps of the run.
LEMMA RunStep ==
  ASSUME [CampaignNext]_campaignVars, ~StartChild
  PROVE  [Next]_vars
  BY Zenon DEF CampaignNext, campaignVars, BeginCounted, SaveLogged, Next, Controller

\* How many results there are, and how many of them the state has taken in.
LEMMA TakenFacts ==
  ASSUME IInv, CampaignTypeOK, LogInv
  PROVE  /\ state.sequence \in Nat /\ Len(log) \in Nat
         /\ Taken \in 0 .. Len(log)
         /\ Len(log) = IF Pending THEN Taken + 1 ELSE Taken
         /\ Active => state.activeStep = state.sequence
         /\ Pending => log[Len(log)] = Saved(state.phase) /\ state.phase \in WorkPhases
         /\ Pending => Len(log) \in DOMAIN log /\ results[state.phase].step = Len(log)
<1>1. /\ state.sequence \in Nat /\ Len(log) \in Nat /\ DOMAIN log = 1 .. Len(log)
      /\ state.activeStep \in {0, state.sequence}
      /\ Active => state.phase \in WorkPhases
      /\ Active => state.activeStep = state.sequence
  BY LogFacts DEF IInv, TypeInv, TypeOK, StepInv, RunStates, Active
<1>2. CASE Pending
  <2>1. /\ Active /\ StepSaved /\ state.phase \in WorkPhases
        /\ results[state.phase] # None /\ results[state.phase].step = state.sequence
    BY <1>1, <1>2 DEF Pending, StepSaved
  <2>2. /\ state.sequence \in DOMAIN log
        /\ log[state.sequence] = Saved(state.phase)
    BY <2>1 DEF LogInv
  <2>3. Len(log) = state.sequence
    BY <1>1, <2>1 DEF LogInv
  <2>4. Taken = state.sequence - 1
    BY <2>1 DEF Taken
  <2> QED
    BY <1>1, <1>2, <2>1, <2>2, <2>3, <2>4
<1>3. CASE ~Pending
  <2>1. state.sequence = Len(log) + (IF Active THEN 1 ELSE 0)
    BY <1>1, <1>3 DEF LogInv, Pending
  <2>2. Taken = Len(log)
    BY <1>1, <2>1 DEF Taken
  <2> QED
    BY <1>1, <1>3, <2>2
<1> QED
  BY <1>2, <1>3

\* What saving a result adds to the log.
LEMMA SavedFacts ==
  ASSUME IInv, CampaignTypeOK, LogInv, SaveLogged
  PROVE  /\ UNCHANGED <<state, parent, runs, spent>>
         /\ pc = "performed" /\ pc' = "saved" /\ effect' = None /\ effect # None
         /\ Active /\ ~StepSaved /\ StepSaved' /\ state.phase \in WorkPhases
         /\ Taken = Len(log) /\ Taken' = Taken
         /\ Len(log') = Len(log) + 1
         /\ DOMAIN log' = 1 .. Len(log) + 1
         /\ \A i \in DOMAIN log : log'[i] = log[i]
         /\ \A p \in WorkPhases : p # state.phase => results'[p] = results[p]
         /\ \E e \in LogEntries :
              /\ log' = Append(log, e) /\ log'[Len(log) + 1] = e
              /\ e.phase = state.phase /\ e.step = Len(log) + 1
              /\ state.sequence = Len(log) + 1
              /\ e.revision = state.workingRevision
              /\ e.outcome \in {effect.outcome, Error}
              /\ MayFinish(state, state.sequence, e.outcome)
              /\ e.detail = effect.detail
              /\ results'[state.phase] # None
              /\ e = Saved(state.phase)'
<1> DEFINE o == IF MayFinish(state, state.sequence, effect.outcome)
                THEN effect.outcome ELSE Error
           r == [step |-> state.sequence, revision |-> state.workingRevision,
                 outcome |-> o, detail |-> effect.detail]
           e == [phase |-> state.phase, step |-> state.sequence,
                 revision |-> state.workingRevision, outcome |-> o,
                 detail |-> effect.detail]
<1>1. SaveResult /\ UNCHANGED <<runs, spent>>
  BY DEF SaveLogged
<1>2. /\ pc = "performed" /\ pc' = "saved" /\ effect' = None /\ effect # None
      /\ UNCHANGED <<state, parent>>
      /\ Active /\ state.phase \in WorkPhases
  BY <1>1, SaveFacts DEF IInv, operator
<1>3. results' = [results EXCEPT ![state.phase] = r]
  BY <1>1, Zenon DEF SaveResult
<1>4. ~StepSaved
  BY <1>2, NotSaved
<1>5. /\ effect.outcome \in Outcomes(Revisions) /\ effect.detail \in Details
      /\ state.sequence \in Nat /\ state.workingRevision \in Revisions
      /\ results \in [WorkPhases -> Records \cup {None}]
      /\ state.activeStep = state.sequence
  BY <1>2 DEF IInv, TypeInv, TypeOK, Effects, RunStates, Active
<1>6. MayFinish(state, state.sequence, Error)
  BY <1>2, <1>5 DEF MayFinish
<1>7. /\ o \in {effect.outcome, Error} /\ o \in Outcomes(Revisions)
      /\ MayFinish(state, state.sequence, o)
  BY <1>5, <1>6, OutcomeIntro
<1> HIDE DEF o
<1>8. r # None
  BY DEF None
<1>9. /\ results'[state.phase] = r
      /\ \A p \in WorkPhases : p # state.phase => results'[p] = results[p]
  BY <1>2, <1>3, <1>5
<1>10. e \in LogEntries
  BY <1>2, <1>5, <1>7 DEF LogEntries
<1>11. e = Saved(state.phase)'
  BY <1>2, <1>9 DEF Saved
<1>12. log' = Append(log, e)
  <2>1. log' = Append(log, [phase |-> state.phase,
                            step |-> results'[state.phase].step,
                            revision |-> results'[state.phase].revision,
                            outcome |-> results'[state.phase].outcome,
                            detail |-> results'[state.phase].detail])
    BY Zenon DEF SaveLogged
  <2> QED
    BY <1>9, <2>1
<1>13. log \in Seq(LogEntries) /\ Len(log) \in Nat /\ DOMAIN log = 1 .. Len(log)
  BY LogFacts
<1>14. /\ state.sequence = Len(log) + 1
       /\ Taken = Len(log) /\ Taken' = Taken
  BY <1>2, <1>4, <1>13 DEF LogInv, Taken, Active
<1>15. StepSaved'
  BY <1>2, <1>8, <1>9 DEF StepSaved
<1>16. /\ e.phase = state.phase /\ e.step = state.sequence
       /\ e.revision = state.workingRevision /\ e.outcome = o
       /\ e.detail = effect.detail
  OBVIOUS
<1> HIDE DEF e
<1>17. /\ Len(log') = Len(log) + 1 /\ DOMAIN log' = 1 .. Len(log) + 1
       /\ log'[Len(log) + 1] = e
       /\ \A i \in DOMAIN log : log'[i] = log[i]
  BY <1>10, <1>12, <1>13, AppendProperties, LenProperties
<1>18. \E x \in LogEntries :
         /\ log' = Append(log, x) /\ log'[Len(log) + 1] = x
         /\ x.phase = state.phase /\ x.step = Len(log) + 1
         /\ state.sequence = Len(log) + 1
         /\ x.revision = state.workingRevision
         /\ x.outcome \in {effect.outcome, Error}
         /\ MayFinish(state, state.sequence, x.outcome)
         /\ x.detail = effect.detail
         /\ results'[state.phase] # None
         /\ x = Saved(state.phase)'
  <2> WITNESS e \in LogEntries
  <2>1. results'[state.phase] # None
    BY <1>8, <1>9
  <2> QED
    BY <1>7, <1>11, <1>12, <1>14, <1>16, <1>17, <2>1
<1> QED
  BY <1>1, <1>2, <1>4, <1>9, <1>14, <1>15, <1>17, <1>18

\* What it adds to the sets picked from the log.
LEMMA SavedPicks ==
  ASSUME IInv, CampaignTypeOK, LogInv, SaveLogged
  PROVE  LET n == Len(log) + 1 IN
         /\ \A ps : Steps(ps)' = IF state.phase \in ps THEN Steps(ps) \cup {n} ELSE Steps(ps)
         /\ Keeps' = IF state.phase = "keep" /\ log'[n].outcome # Error
                     THEN Keeps \cup {n} ELSE Keeps
         /\ \A k \in 1 .. n : PreviousKeep(k)' = PreviousKeep(k)
         /\ PreviousKeep(n) = LastOf(Keeps)
         /\ LastOf(Keeps)' = IF state.phase = "keep" /\ log'[n].outcome # Error
                             THEN n ELSE LastOf(Keeps)
<1> DEFINE n == Len(log) + 1
<1>0. SUFFICES
         /\ \A ps : Steps(ps)' = IF state.phase \in ps THEN Steps(ps) \cup {n} ELSE Steps(ps)
         /\ Keeps' = IF state.phase = "keep" /\ log'[n].outcome # Error
                     THEN Keeps \cup {n} ELSE Keeps
         /\ \A k \in 1 .. n : PreviousKeep(k)' = PreviousKeep(k)
         /\ PreviousKeep(n) = LastOf(Keeps)
         /\ LastOf(Keeps)' = IF state.phase = "keep" /\ log'[n].outcome # Error
                             THEN n ELSE LastOf(Keeps)
  OBVIOUS
<1>1. /\ Len(log) \in Nat /\ DOMAIN log = 1 .. Len(log) /\ DOMAIN log' = 1 .. n
      /\ \A i \in DOMAIN log : log'[i] = log[i]
      /\ log'[n].phase = state.phase /\ state.phase \in WorkPhases
      /\ MayFinish(state, state.sequence, log'[n].outcome)
  BY LogFacts, SavedFacts
<1>2. n \notin DOMAIN log /\ DOMAIN log' = DOMAIN log \cup {n}
  BY <1>1
<1>3. ASSUME NEW ps
      PROVE  Steps(ps)' = IF state.phase \in ps THEN Steps(ps) \cup {n} ELSE Steps(ps)
  BY <1>1, <1>2 DEF Steps
<1>4. log'[n].outcome.kind = "kept" <=> state.phase = "keep" /\ log'[n].outcome # Error
  BY <1>1 DEF MayFinish, KindOf, Error, WorkPhases, CommandPhases, inferencePhases,
              UnlimitedPhases
<1>5. Keeps' = IF state.phase = "keep" /\ log'[n].outcome # Error
               THEN Keeps \cup {n} ELSE Keeps
  BY <1>1, <1>2, <1>4 DEF Keeps, Steps
<1>6. Keeps \in SUBSET (1 .. Len(log))
  BY PickFacts
<1>7. ASSUME NEW k \in 1 .. n
      PROVE  {i \in Keeps : i < k}' = {i \in Keeps : i < k}
  BY <1>1, <1>5, <1>6, <1>7
<1>8. \A k \in 1 .. n : PreviousKeep(k)' = PreviousKeep(k)
  BY <1>7, Zenon DEF PreviousKeep, LastOf
<1>a. n \in Nat /\ n \in 1 .. n /\ Len(log) \in Nat /\ n = Len(log) + 1
  BY <1>1
<1>b. \A y \in Keeps : y \in 1 .. n /\ y < n
  <2>1. \A y \in 1 .. Len(log) : y \in 1 .. n /\ y < n
    BY <1>a
  <2> QED
    BY <1>6, <2>1
<1>9. PreviousKeep(n) = LastOf(Keeps)
  <2>1. {i \in Keeps : i < n} = Keeps
    <3> HIDE DEF n
    <3> QED
      BY <1>b
  <2> QED
    BY <2>1 DEF PreviousKeep
<1>10. LastOf(Keeps)' = IF state.phase = "keep" /\ log'[n].outcome # Error
                        THEN n ELSE LastOf(Keeps)
  <2>1. CASE state.phase = "keep" /\ log'[n].outcome # Error
    <3> DEFINE T == Keeps \cup {n}
    <3>1. n \in Nat /\ T \in SUBSET (1 .. n) /\ n \in T /\ \A y \in T : y <= n
      <4> HIDE DEF n
      <4> QED
        BY <1>a, <1>b
    <3>2. LastOf(T) = n
      <4> HIDE DEF T, n
      <4> QED
        BY <3>1, LastOfIs
    <3>3. Keeps' = T
      BY <1>5, <2>1
    <3>4. LastOf(Keeps)' = LastOf(T)
      BY <3>3 DEF LastOf
    <3> QED
      BY <2>1, <3>2, <3>4
  <2>2. CASE ~(state.phase = "keep" /\ log'[n].outcome # Error)
    <3>1. Keeps' = Keeps
      BY <1>5, <2>2
    <3> QED
      BY <2>2, <3>1 DEF LastOf
  <2> QED
    BY <2>1, <2>2
<1> HIDE DEF n
<1> QED
  BY <1>3, <1>5, <1>8, <1>9, <1>10, Zenon

\* What the steps change that the records are about, but for saving a result.
LEMMA QuietFacts ==
  ASSUME IInv
  PROVE  /\ BeginCounted =>
              /\ ~Active /\ Active' /\ ~StepSaved' /\ pc' = "performing"
              /\ UNCHANGED <<results, parent, log, runs>>
              /\ state'.sequence = state.sequence + 1 /\ Taken' = Taken
         /\ performLiveStep =>
              /\ UNCHANGED <<state, results, parent>> /\ Active /\ ~StepSaved
         /\ Others => UNCHANGED <<state, results, parent>>
         /\ Advance \/ Recover =>
              /\ Active /\ StepSaved /\ ~Active' /\ state.phase \in WorkPhases
              /\ pc' \in {"loop", "down"}
              /\ UNCHANGED <<results, parent>>
              /\ results[state.phase].outcome \in Outcomes(Revisions)
              /\ MayFinish(state, state.sequence, results[state.phase].outcome)
              /\ state' = finishStep(state, results[state.phase].outcome)
              /\ state \in RunStates(Revisions) /\ state' \in RunStates(Revisions)
              /\ state'.sequence = state.sequence /\ Taken' = Taken + 1
<1>1. ASSUME BeginCounted
      PROVE  /\ ~Active /\ Active' /\ ~StepSaved' /\ pc' = "performing"
             /\ UNCHANGED <<results, parent, log, runs>>
             /\ state'.sequence = state.sequence + 1 /\ Taken' = Taken
  <2>1. BeginStep /\ UNCHANGED <<log, runs>>
    BY <1>1 DEF BeginCounted
  <2>2. /\ ~Active /\ Active' /\ ~StepSaved' /\ pc' = "performing"
        /\ UNCHANGED <<results, parent>>
    BY <2>1, BeginHonest
  <2>3. state.sequence \in Nat /\ state'.sequence = state.sequence + 1
    BY <2>1, BeginStepFacts DEF IInv
  <2>4. Taken' = Taken
    BY <2>2, <2>3 DEF Taken
  <2> QED
    BY <2>1, <2>2, <2>3, <2>4
<1>2. ASSUME performLiveStep
      PROVE  UNCHANGED <<state, results, parent>> /\ Active /\ ~StepSaved
  BY <1>2, EffectFacts, NotSaved DEF IInv, operator
<1>3. ASSUME Others
      PROVE  UNCHANGED <<state, results, parent>>
  BY <1>3, OtherFacts DEF IInv
<1>4. ASSUME Advance \/ Recover
      PROVE  /\ Active /\ StepSaved /\ ~Active' /\ state.phase \in WorkPhases
             /\ pc' \in {"loop", "down"}
             /\ UNCHANGED <<results, parent>>
             /\ results[state.phase].outcome \in Outcomes(Revisions)
             /\ MayFinish(state, state.sequence, results[state.phase].outcome)
             /\ state' = finishStep(state, results[state.phase].outcome)
             /\ state \in RunStates(Revisions) /\ state' \in RunStates(Revisions)
             /\ state'.sequence = state.sequence /\ Taken' = Taken + 1
  <2>1. /\ Active /\ StepSaved /\ state.phase \in WorkPhases
        /\ pc' \in {"loop", "down"} /\ UNCHANGED <<results, parent>>
        /\ results[state.phase].outcome \in Outcomes(Revisions)
        /\ MayFinish(state, state.sequence, results[state.phase].outcome)
        /\ state' = finishStep(state, results[state.phase].outcome)
    BY <1>4, AdvanceFacts DEF IInv, operator
  <2>2. state \in RunStates(Revisions) /\ state.sequence \in Nat
    BY DEF IInv, TypeInv, TypeOK, RunStates
  <2>3. /\ state' \in RunStates(Revisions)
        /\ state'.sequence = state.sequence /\ state'.activeStep = 0
    BY <2>1, <2>2, FinishFacts
  <2>4. ~Active' /\ Taken' = Taken + 1
    BY <2>1, <2>2, <2>3 DEF Taken, Active
  <2> QED
    BY <2>1, <2>2, <2>3, <2>4
<1> QED
  BY <1>1, <1>2, <1>3, <1>4

\* The log stays complete and in order.
LEMMA LogStep ==
  ASSUME IInv, CampaignTypeOK, LogInv, [CampaignNext]_campaignVars, ~StartChild
  PROVE  LogInv'
<1>0. /\ Len(log) \in Nat /\ DOMAIN log = 1 .. Len(log) /\ state.sequence \in Nat
      /\ \A i \in DOMAIN log : log[i].phase \in WorkPhases
  BY LogFacts, TakenFacts
<1>1. CASE BeginCounted
  <2>1. /\ ~Active /\ Active' /\ ~StepSaved' /\ UNCHANGED <<results, log>>
        /\ state'.sequence = state.sequence + 1
    BY <1>1, QuietFacts
  <2> QED
    BY <2>1, <1>0 DEF LogInv, Saved
<1>2. CASE SaveLogged
  <2> DEFINE n == Len(log) + 1
  <2>1. /\ state' = state /\ Active /\ ~StepSaved /\ StepSaved'
        /\ state.phase \in WorkPhases
        /\ Len(log') = n /\ DOMAIN log' = 1 .. n
        /\ \A i \in DOMAIN log : log'[i] = log[i]
        /\ \A p \in WorkPhases : p # state.phase => results'[p] = results[p]
    BY <1>2, SavedFacts
  <2>2. /\ log'[n].phase = state.phase /\ log'[n].step = n /\ state.sequence = n
        /\ MayFinish(state, state.sequence, log'[n].outcome)
        /\ results'[state.phase] # None
        /\ log'[n] = Saved(state.phase)'
    BY <1>2, SavedFacts
  <2>3. results'[state.phase].step = n
    BY <2>1, <2>2 DEF Saved
  <2>4. log'[n].outcome = Error \/ log'[n].outcome.kind = KindOf(log'[n].phase)
    BY <2>2 DEF MayFinish
  <2>5. n \in Nat /\ n \notin DOMAIN log /\ DOMAIN log' = DOMAIN log \cup {n}
        /\ \A i \in DOMAIN log : i <= n
    BY <1>0, <2>1
  <2>6. state'.sequence = Len(log') + (IF Active' /\ ~StepSaved' THEN 1 ELSE 0)
    BY <1>0, <2>1, <2>2
  <2> HIDE DEF n
  <2>7. ASSUME NEW i \in DOMAIN log'
        PROVE  /\ log'[i].step = i
               /\ log'[i].outcome = Error \/ log'[i].outcome.kind = KindOf(log'[i].phase)
               /\ results'[log'[i].phase] # None /\ i <= results'[log'[i].phase].step
    <3>1. CASE i = n
      BY <2>2, <2>3, <2>4, <2>5, <3>1
    <3>2. CASE i \in DOMAIN log
      <4>1. log'[i] = log[i] /\ log[i].phase \in WorkPhases
        BY <1>0, <2>1, <3>2
      <4>2. /\ log[i].step = i
            /\ log[i].outcome = Error \/ log[i].outcome.kind = KindOf(log[i].phase)
            /\ results[log[i].phase] # None /\ i <= results[log[i].phase].step
        BY <3>2 DEF LogInv
      <4>3. CASE log[i].phase = state.phase
        BY <2>2, <2>3, <2>5, <3>2, <4>1, <4>2, <4>3
      <4>4. CASE log[i].phase # state.phase
        BY <2>1, <4>1, <4>2, <4>4
      <4> QED
        BY <4>3, <4>4
    <3> QED
      BY <2>5, <3>1, <3>2
  <2>8. ASSUME NEW p \in WorkPhases, results'[p] # None
        PROVE  results'[p].step \in DOMAIN log' /\ log'[results'[p].step] = Saved(p)'
    <3>1. CASE p = state.phase
      <4>1. Saved(p)' = Saved(state.phase)'
        BY <2>1, <3>1 DEF Saved
      <4> QED
        BY <2>2, <2>3, <2>5, <3>1, <4>1
    <3>2. CASE p # state.phase
      <4>1. results'[p] = results[p]
        BY <2>1, <3>2
      <4>2. results[p].step \in DOMAIN log /\ log[results[p].step] = Saved(p)
        BY <2>8, <4>1 DEF LogInv
      <4>3. Saved(p)' = Saved(p)
        BY <4>1 DEF Saved
      <4> QED
        BY <2>1, <2>5, <4>1, <4>2, <4>3
    <3> QED
      BY <3>1, <3>2
  <2> QED
    BY <2>6, <2>7, <2>8 DEF LogInv
<1>3. CASE performLiveStep /\ UNCHANGED <<log, runs, spent>>
  <2>1. UNCHANGED <<state, results, log>>
    BY <1>3, QuietFacts
  <2> QED
    BY <2>1 DEF LogInv, Saved, Active, StepSaved
<1>4. CASE (Advance \/ Recover) /\ UNCHANGED <<log, runs, spent>>
  <2>1. /\ Active /\ StepSaved /\ ~Active' /\ UNCHANGED <<results, log>>
        /\ state'.sequence = state.sequence
    BY <1>4, QuietFacts
  <2> QED
    BY <2>1 DEF LogInv, Saved
<1>5. CASE Others /\ UNCHANGED <<log, runs, spent>>
  <2>1. UNCHANGED <<state, results, log>>
    BY <1>5, QuietFacts
  <2> QED
    BY <2>1 DEF LogInv, Saved, Active, StepSaved
<1> QED
  BY <1>1, <1>2, <1>3, <1>4, <1>5, CampaignSteps

\* Values stay in their types.
LEMMA CampaignTypeStep ==
  ASSUME IInv, CampaignTypeOK, LogInv, [CampaignNext]_campaignVars, ~StartChild
  PROVE  CampaignTypeOK'
<1>1. TypeOK'
  BY RunStep, StepIInv DEF IInv, TypeInv
<1>2. /\ log \in Seq(LogEntries) /\ runs \in 1 .. MaxRuns
      /\ spent \in [attempts: Nat, piCalls: Nat]
  BY DEF CampaignTypeOK
<1>3. CASE BeginCounted
  <2> DEFINE a == spent.attempts + (IF state'.phase = "start-attempt" THEN 1 ELSE 0)
             c == spent.piCalls + (IF state'.phase \in inferencePhases THEN 1 ELSE 0)
  <2>1. spent' = [attempts |-> a, piCalls |-> c] /\ UNCHANGED <<log, runs>>
    BY <1>3, Zenon DEF BeginCounted
  <2>2. a \in Nat /\ c \in Nat
    BY <1>2
  <2> HIDE DEF a, c
  <2> QED
    BY <1>1, <1>2, <2>1, <2>2 DEF CampaignTypeOK
<1>4. CASE SaveLogged
  <2>1. UNCHANGED <<runs, spent>> /\ \E e \in LogEntries : log' = Append(log, e)
    BY <1>4, SavedFacts
  <2>2. log' \in Seq(LogEntries)
    BY <1>2, <2>1, AppendProperties
  <2> QED
    BY <1>1, <1>2, <2>1, <2>2 DEF CampaignTypeOK
<1>5. CASE UNCHANGED <<log, runs, spent>>
  BY <1>1, <1>2, <1>5 DEF CampaignTypeOK
<1> QED
  BY <1>3, <1>4, <1>5, CampaignSteps

-------------------------------------------------------------------------------
(* The budget.                                                             *)

\* What reserving a step counts, within the limits.
LEMMA BeginCounts ==
  ASSUME NEW s \in RunStates(Revisions), NEW t \in Nat, s.activeStep = 0,
         s.attemptsStarted <= MaxAttempts, s.piCallsStarted <= MaxPiCalls,
         NEW r, r = beginSavedStep(s, t)
  PROVE  /\ r.attemptsStarted = s.attemptsStarted
              + (IF r.phase = "start-attempt" THEN 1 ELSE 0)
         /\ r.piCallsStarted = s.piCallsStarted
              + (IF r.phase \in inferencePhases THEN 1 ELSE 0)
         /\ r.attemptsStarted <= MaxAttempts /\ r.piCallsStarted <= MaxPiCalls
         /\ r.elapsed = t /\ r.initialRevision = s.initialRevision
<1>1. ASSUME NEW q \in RunStates(Revisions)
      PROVE  /\ Reserve(q, t).attemptsStarted = q.attemptsStarted
                  + (IF q.phase = "start-attempt" THEN 1 ELSE 0)
             /\ Reserve(q, t).piCallsStarted = q.piCallsStarted
                  + (IF q.phase \in inferencePhases THEN 1 ELSE 0)
             /\ Reserve(q, t).elapsed = t
             /\ Reserve(q, t).initialRevision = q.initialRevision
  BY DEF Reserve, RunStates
<1>2. ASSUME NEW q \in RunStates(Revisions)
      PROVE  Reserve(q, t).phase = q.phase /\ Reserve(q, t).activeStep # 0
  BY ReserveFacts DEF RunStates
<1>3. /\ s.attemptsStarted \in Nat /\ s.piCallsStarted \in Nat
      /\ MaxAttempts \in Nat /\ MaxPiCalls \in Nat
  BY LimitsAssumption DEF RunStates
<1>4. CASE checkLimits(s, t) = {}
  <2>1. r = Reserve(s, t)
    BY <1>2, <1>4 DEF beginSavedStep, beginStep
  <2>2. r.phase = s.phase
    BY <1>2, <2>1
  <2>3. s.phase = "start-attempt" => s.attemptsStarted < MaxAttempts
    <3>1. "attempts" \notin checkLimits(s, t)
      BY <1>4
    <3> QED
      BY <1>3, <3>1 DEF checkLimits, UnlimitedPhases
  <2>4. s.phase \in inferencePhases => s.piCallsStarted < MaxPiCalls
    <3>1. "pi-calls" \notin checkLimits(s, t)
      BY <1>4
    <3> QED
      BY <1>3, <3>1 DEF checkLimits, UnlimitedPhases, inferencePhases
  <2>5. /\ r.attemptsStarted = s.attemptsStarted
             + (IF s.phase = "start-attempt" THEN 1 ELSE 0)
        /\ r.piCallsStarted = s.piCallsStarted
             + (IF s.phase \in inferencePhases THEN 1 ELSE 0)
        /\ r.elapsed = t /\ r.initialRevision = s.initialRevision
    BY <1>1, <2>1
  <2> QED
    BY <1>3, <2>2, <2>3, <2>4, <2>5
<1>5. CASE checkLimits(s, t) # {}
  <2> DEFINE w == WrapUp(s, t)
  <2>1. w \in RunStates(Revisions) /\ w.phase \in {"finish", "discard"} /\ w.activeStep = 0
    BY <1>5, WrapUpFacts
  <2>2. /\ w.attemptsStarted = s.attemptsStarted /\ w.piCallsStarted = s.piCallsStarted
        /\ w.initialRevision = s.initialRevision
    BY DEF WrapUp, RunStates
  <2>3. checkLimits(w, t) = {}
    BY <2>1 DEF checkLimits, UnlimitedPhases
  <2>4. beginStep(s, t) = w /\ beginStep(w, t) = Reserve(w, t)
    BY <1>5, <2>3 DEF beginStep
  <2>5. r = Reserve(w, t)
    BY <2>1, <2>4 DEF beginSavedStep
  <2> HIDE DEF w
  <2>6. r.phase = w.phase
    BY <1>2, <2>1, <2>5
  <2>7. w.phase # "start-attempt" /\ w.phase \notin inferencePhases
    BY <2>1 DEF inferencePhases
  <2>8. /\ r.attemptsStarted = w.attemptsStarted + 0
        /\ r.piCallsStarted = w.piCallsStarted + 0
        /\ r.elapsed = t /\ r.initialRevision = w.initialRevision
    BY <1>1, <2>1, <2>5, <2>7
  <2> QED
    BY <1>3, <2>2, <2>6, <2>7, <2>8
<1> QED
  BY <1>4, <1>5

\* A measurement counts nothing and takes no time.
LEMMA MeasurementCounts ==
  ASSUME NEW q \in RunStates(Revisions), NEW o, NEW r, r = MeasurementDone(q, o)
  PROVE  /\ r.attemptsStarted = q.attemptsStarted /\ r.piCallsStarted = q.piCallsStarted
         /\ r.elapsed = q.elapsed /\ r.initialRevision = q.initialRevision
<1>1. CASE ~o.valid /\ q.phase = "measure" /\ o.inconclusive
  <2>1. r = [q EXCEPT !.phase = "discard", !.targetMet = FALSE]
    BY <1>1, Zenon DEF MeasurementDone
  <2> QED
    BY <2>1 DEF RunStates
<1>2. CASE ~o.valid /\ ~(q.phase = "measure" /\ o.inconclusive)
  <2>1. r = [q EXCEPT !.phase = "finish", !.targetMet = FALSE,
                      !.stopReason = IF o.inconclusive THEN "measurement-inconclusive"
                                     ELSE "invalid-measurement"]
    BY <1>2, Zenon DEF MeasurementDone
  <2> QED
    BY <2>1 DEF RunStates
<1>3. CASE o.valid /\ q.phase = "baseline"
  <2>1. r = [q EXCEPT !.targetMet = o.targetMet,
                      !.phase = IF o.targetMet THEN "finish" ELSE "start-attempt",
                      !.stopReason = IF o.targetMet THEN "target-met" ELSE "none"]
    BY <1>3, Zenon DEF MeasurementDone
  <2> QED
    BY <2>1 DEF RunStates
<1>4. CASE o.valid /\ q.phase # "baseline"
  <2>1. r = [q EXCEPT !.targetMet = o.targetMet,
                      !.phase = IF o.improved \/ o.targetMet THEN "review" ELSE "discard"]
    BY <1>4, Zenon DEF MeasurementDone
  <2> QED
    BY <2>1 DEF RunStates
<1> QED
  BY <1>1, <1>2, <1>3, <1>4

\* Completing a step neither counts nor takes time, and does not look at it.
LEMMA FinishTimeless ==
  ASSUME NEW s \in RunStates(Revisions), NEW o, MayFinish(s, s.sequence, o),
         NEW t \in Nat, NEW r, r = finishStep(s, o)
  PROVE  /\ finishStep(AtTime(s, t), o) = AtTime(r, t)
         /\ r.attemptsStarted = s.attemptsStarted
         /\ r.piCallsStarted = s.piCallsStarted
         /\ r.elapsed = s.elapsed /\ r.initialRevision = s.initialRevision
<1> DEFINE q == [s EXCEPT !.activeStep = 0]
           p == [AtTime(s, t) EXCEPT !.activeStep = 0]
           Same(x) == /\ x.attemptsStarted = s.attemptsStarted
                      /\ x.piCallsStarted = s.piCallsStarted
                      /\ x.elapsed = s.elapsed
                      /\ x.initialRevision = s.initialRevision
<1>1. /\ q \in RunStates(Revisions) /\ p \in RunStates(Revisions) /\ p = AtTime(q, t)
      /\ q.phase = s.phase /\ p.phase = s.phase
      /\ q.targetMet = s.targetMet /\ p.targetMet = s.targetMet
      /\ q.stopReason = s.stopReason /\ p.stopReason = s.stopReason
      /\ q.attemptsStarted = s.attemptsStarted
      /\ q.piCallsStarted = s.piCallsStarted
      /\ q.elapsed = s.elapsed /\ q.initialRevision = s.initialRevision
      /\ s.phase \in Phases
  BY DEF RunStates, AtTime
<1>2. o # Error => s.phase \in WorkPhases
  BY DEF MayFinish
<1>0. q \in RunStates(Revisions) /\ p = AtTime(q, t)
  BY <1>1
<1> HIDE DEF q, p
<1> SUFFICES finishStep(AtTime(s, t), o) = AtTime(r, t) /\ Same(r)
  OBVIOUS
<1>3. CASE o = Error
  <2>1. r = [q EXCEPT !.phase = "finish", !.stopReason = "error", !.targetMet = FALSE]
    BY <1>1, <1>3 DEF finishStep, q
  <2>2. finishStep(AtTime(s, t), o)
          = [p EXCEPT !.phase = "finish", !.stopReason = "error", !.targetMet = FALSE]
    BY <1>1, <1>3 DEF finishStep, p
  <2>3. finishStep(AtTime(s, t), o) = AtTime(r, t)
    BY <1>0, <2>1, <2>2 DEF RunStates, AtTime
  <2> QED
    BY <1>1, <2>1, <2>3 DEF RunStates
<1>4. CASE o # Error /\ s.phase = "prepare"
  <2>1. r = [q EXCEPT !.phase = "baseline"]
    BY <1>1, <1>4 DEF finishStep, q
  <2>2. finishStep(AtTime(s, t), o)
          = [p EXCEPT !.phase = "baseline"]
    BY <1>1, <1>4 DEF finishStep, p
  <2>3. finishStep(AtTime(s, t), o) = AtTime(r, t)
    BY <1>0, <2>1, <2>2 DEF RunStates, AtTime
  <2> QED
    BY <1>1, <2>1, <2>3 DEF RunStates
<1>5. CASE o # Error /\ s.phase \in {"baseline", "measure"}
  <2>1. r = MeasurementDone(q, o)
    BY <1>1, <1>5 DEF finishStep, q
  <2>2. finishStep(AtTime(s, t), o) = MeasurementDone(p, o)
    BY <1>1, <1>5 DEF finishStep, p
  <2>3. finishStep(AtTime(s, t), o) = AtTime(r, t)
    BY <1>0, <2>1, <2>2, ZenonT(40) DEF MeasurementDone, RunStates, AtTime
  <2>4. /\ r.attemptsStarted = q.attemptsStarted /\ r.piCallsStarted = q.piCallsStarted
        /\ r.elapsed = q.elapsed /\ r.initialRevision = q.initialRevision
    BY <1>0, <2>1, MeasurementCounts
  <2> QED
    BY <1>1, <2>3, <2>4
<1>6. CASE o # Error /\ s.phase = "start-attempt"
  <2>1. r = [q EXCEPT !.phase = "profile", !.targetMet = FALSE]
    BY <1>1, <1>6 DEF finishStep, q
  <2>2. finishStep(AtTime(s, t), o)
          = [p EXCEPT !.phase = "profile", !.targetMet = FALSE]
    BY <1>1, <1>6 DEF finishStep, p
  <2>3. finishStep(AtTime(s, t), o) = AtTime(r, t)
    BY <1>0, <2>1, <2>2 DEF RunStates, AtTime
  <2> QED
    BY <1>1, <2>1, <2>3 DEF RunStates
<1>7. CASE o # Error /\ s.phase \in {"profile", "research"}
  <2>1. r = [q EXCEPT !.phase = "analyze"]
    BY <1>1, <1>7 DEF finishStep, q
  <2>2. finishStep(AtTime(s, t), o)
          = [p EXCEPT !.phase = "analyze"]
    BY <1>1, <1>7 DEF finishStep, p
  <2>3. finishStep(AtTime(s, t), o) = AtTime(r, t)
    BY <1>0, <2>1, <2>2 DEF RunStates, AtTime
  <2> QED
    BY <1>1, <2>1, <2>3 DEF RunStates
<1>8. CASE o # Error /\ s.phase = "analyze"
  <2>1. r = AnalysisDone(q, o)
    BY <1>1, <1>8 DEF finishStep, q
  <2>2. finishStep(AtTime(s, t), o) = AnalysisDone(p, o)
    BY <1>1, <1>8 DEF finishStep, p
  <2>3. finishStep(AtTime(s, t), o) = AtTime(r, t)
    BY <1>0, <2>1, <2>2 DEF AnalysisDone, RunStates, AtTime
  <2> QED
    BY <1>1, <2>1, <2>3 DEF AnalysisDone, RunStates
<1>9. CASE o # Error /\ s.phase \in {"implement", "repair"}
  <2>1. r = [q EXCEPT !.phase = "test", !.workingRevision = o.revision,
                      !.targetMet = FALSE]
    BY <1>1, <1>9 DEF finishStep, q
  <2>2. finishStep(AtTime(s, t), o)
          = [p EXCEPT !.phase = "test", !.workingRevision = o.revision,
                      !.targetMet = FALSE]
    BY <1>1, <1>9 DEF finishStep, p
  <2>3. finishStep(AtTime(s, t), o) = AtTime(r, t)
    BY <1>0, <2>1, <2>2 DEF RunStates, AtTime
  <2> QED
    BY <1>1, <2>1, <2>3 DEF RunStates
<1>10. CASE o # Error /\ s.phase = "test"
  <2>1. r = [q EXCEPT !.phase = IF o.passed THEN "measure" ELSE "repair"]
    BY <1>1, <1>10 DEF finishStep, q
  <2>2. finishStep(AtTime(s, t), o)
          = [p EXCEPT !.phase = IF o.passed THEN "measure" ELSE "repair"]
    BY <1>1, <1>10 DEF finishStep, p
  <2>3. finishStep(AtTime(s, t), o) = AtTime(r, t)
    BY <1>0, <2>1, <2>2 DEF RunStates, AtTime
  <2> QED
    BY <1>1, <2>1, <2>3 DEF RunStates
<1>11. CASE o # Error /\ s.phase = "review"
  <2>1. r = [q EXCEPT !.phase = IF o.passed THEN "keep" ELSE "repair"]
    BY <1>1, <1>11 DEF finishStep, q
  <2>2. finishStep(AtTime(s, t), o)
          = [p EXCEPT !.phase = IF o.passed THEN "keep" ELSE "repair"]
    BY <1>1, <1>11 DEF finishStep, p
  <2>3. finishStep(AtTime(s, t), o) = AtTime(r, t)
    BY <1>0, <2>1, <2>2 DEF RunStates, AtTime
  <2> QED
    BY <1>1, <2>1, <2>3 DEF RunStates
<1>12. CASE o # Error /\ s.phase = "keep"
  <2>1. r = [q EXCEPT !.bestRevision = o.revision,
                      !.phase = IF s.targetMet THEN "finish" ELSE "start-attempt",
                      !.stopReason = IF s.targetMet THEN "target-met" ELSE "none"]
    BY <1>1, <1>12 DEF finishStep, q
  <2>2. finishStep(AtTime(s, t), o)
          = [p EXCEPT !.bestRevision = o.revision,
                      !.phase = IF s.targetMet THEN "finish" ELSE "start-attempt",
                      !.stopReason = IF s.targetMet THEN "target-met" ELSE "none"]
    BY <1>1, <1>12 DEF finishStep, p
  <2>3. finishStep(AtTime(s, t), o) = AtTime(r, t)
    BY <1>0, <2>1, <2>2 DEF RunStates, AtTime
  <2> QED
    BY <1>1, <2>1, <2>3 DEF RunStates
<1>13. CASE o # Error /\ s.phase = "discard"
  <2>1. r = [q EXCEPT !.phase = "start-attempt", !.targetMet = FALSE,
                      !.workingRevision = o.revision]
    BY <1>1, <1>13 DEF finishStep, q
  <2>2. finishStep(AtTime(s, t), o)
          = [p EXCEPT !.phase = "start-attempt", !.targetMet = FALSE,
                      !.workingRevision = o.revision]
    BY <1>1, <1>13 DEF finishStep, p
  <2>3. finishStep(AtTime(s, t), o) = AtTime(r, t)
    BY <1>0, <2>1, <2>2 DEF RunStates, AtTime
  <2> QED
    BY <1>1, <2>1, <2>3 DEF RunStates
<1>14. CASE o # Error /\ s.phase = "finish"
  <2>1. r = [q EXCEPT !.phase = "done", !.targetMet = (s.stopReason = "target-met")]
    BY <1>1, <1>14 DEF finishStep, q
  <2>2. finishStep(AtTime(s, t), o)
          = [p EXCEPT !.phase = "done", !.targetMet = (s.stopReason = "target-met")]
    BY <1>1, <1>14 DEF finishStep, p
  <2>3. finishStep(AtTime(s, t), o) = AtTime(r, t)
    BY <1>0, <2>1, <2>2 DEF RunStates, AtTime
  <2> QED
    BY <1>1, <2>1, <2>3 DEF RunStates
<1> QED
  BY <1>1, <1>2, <1>3, <1>4, <1>5, <1>6, <1>7, <1>8, <1>9, <1>10, <1>11, <1>12, <1>13, <1>14
     DEF WorkPhases, CommandPhases, inferencePhases, UnlimitedPhases

\* The counts of the results.
LEMMA StepCounts ==
  ASSUME CampaignTypeOK, NEW ps
  PROVE  /\ IsFiniteSet(Steps(ps)) /\ Cardinality(Steps(ps)) \in Nat
         /\ \A n : n \notin Steps(ps) =>
              Cardinality(Steps(ps) \cup {n}) = Cardinality(Steps(ps)) + 1
<1>1. Len(log) \in Nat /\ Steps(ps) \in SUBSET (1 .. Len(log))
  BY LogFacts, PickFacts
<1>2. IsFiniteSet(1 .. Len(log))
  BY <1>1, FS_Interval
<1>3. IsFiniteSet(Steps(ps))
  BY <1>1, <1>2, FS_Subset
<1>4. Cardinality(Steps(ps)) \in Nat
  BY <1>3, FS_CardinalityType
<1>5. ASSUME NEW n, n \notin Steps(ps)
      PROVE  Cardinality(Steps(ps) \cup {n}) = Cardinality(Steps(ps)) + 1
  BY <1>3, <1>5, FS_AddElement
<1> QED
  BY <1>3, <1>4, <1>5

\* What an earlier run has counted is a number.
LEMMA CarriedFacts ==
  ASSUME TypeInv
  PROVE  Carried("attemptsStarted") \in Nat /\ Carried("piCallsStarted") \in Nat
<1>1. parent # None => parent \in Parents
  BY DEF TypeInv, TypeOK
<1> QED
  BY <1>1 DEF Carried, Parents

\* The saved result counts what its reservation counted.
LEMMA SavedCounts ==
  ASSUME IInv, CampaignTypeOK, LogInv, SaveLogged, NEW ps
  PROVE  /\ Cardinality(Steps(ps))' + Counting(ps)' = Cardinality(Steps(ps)) + Counting(ps)
         /\ Cardinality(Steps(ps))' \in Nat
<1>1. /\ state' = state /\ Active /\ ~StepSaved /\ Active' /\ StepSaved'
      /\ Len(log) \in Nat
  BY SavedFacts, LogFacts DEF Active
<1>2. Steps(ps)' = IF state.phase \in ps THEN Steps(ps) \cup {Len(log) + 1} ELSE Steps(ps)
  BY SavedPicks
<1>3. Len(log) + 1 \notin Steps(ps)
  <2>1. Steps(ps) \in SUBSET (1 .. Len(log))
    BY PickFacts
  <2> QED
    BY <1>1, <2>1
<1>4. /\ Cardinality(Steps(ps)) \in Nat
      /\ Cardinality(Steps(ps) \cup {Len(log) + 1}) = Cardinality(Steps(ps)) + 1
  BY <1>3, StepCounts
<1>5. Counting(ps)' = 0 /\ Counting(ps) = IF state.phase \in ps THEN 1 ELSE 0
  BY <1>1 DEF Counting
<1>6. Cardinality(Steps(ps))' = IF state.phase \in ps THEN Cardinality(Steps(ps)) + 1
                                ELSE Cardinality(Steps(ps))
  BY <1>2, <1>4
<1> QED
  BY <1>4, <1>5, <1>6

\* What is counted stays what was begun, and within the limits.
LEMMA BudgetStep ==
  ASSUME IInv, CampaignTypeOK, LogInv, BudgetInv, [CampaignNext]_campaignVars, ~StartChild
  PROVE  BudgetInv'
<1> DEFINE attempts == Cardinality(Steps({"start-attempt"}))
           calls == Cardinality(Steps(inferencePhases))
<1>1. /\ state \in RunStates(Revisions)
      /\ state.attemptsStarted \in Nat /\ state.piCallsStarted \in Nat
      /\ attempts \in Nat /\ calls \in Nat
      /\ Carried("attemptsStarted") \in Nat /\ Carried("piCallsStarted") \in Nat
  BY StepCounts, CarriedFacts DEF IInv, TypeInv, TypeOK, RunStates
<1>2. CASE BeginCounted
  <2>1. /\ ~Active /\ Active' /\ ~StepSaved' /\ UNCHANGED <<parent, log>>
    BY <1>2, QuietFacts
  <2>2. PICK t \in state.elapsed .. MaxDuration : state' = beginSavedStep(state, t)
    BY <1>2 DEF BeginCounted, BeginStep
  <2>3. t \in Nat /\ state.activeStep = 0
        /\ state.attemptsStarted <= MaxAttempts /\ state.piCallsStarted <= MaxPiCalls
    BY <1>1, <2>1, <2>2 DEF RunStates, Active, BudgetInv
  <2>4. /\ state'.attemptsStarted = state.attemptsStarted
             + (IF state'.phase = "start-attempt" THEN 1 ELSE 0)
        /\ state'.piCallsStarted = state.piCallsStarted
             + (IF state'.phase \in inferencePhases THEN 1 ELSE 0)
        /\ state'.attemptsStarted <= MaxAttempts /\ state'.piCallsStarted <= MaxPiCalls
    BY <1>1, <2>2, <2>3, BeginCounts
  <2>5. spent' = [attempts |-> spent.attempts
                     + (IF state'.phase = "start-attempt" THEN 1 ELSE 0),
                  piCalls |-> spent.piCalls
                     + (IF state'.phase \in inferencePhases THEN 1 ELSE 0)]
    BY <1>2, Zenon DEF BeginCounted
  <2>6. spent.attempts = state.attemptsStarted /\ spent.piCalls = state.piCallsStarted
    BY DEF BudgetInv
  <2>7. spent' = [attempts |-> state'.attemptsStarted, piCalls |-> state'.piCallsStarted]
    BY <2>4, <2>5, <2>6
  <2>8. /\ attempts' = attempts /\ calls' = calls
        /\ Carried("attemptsStarted")' = Carried("attemptsStarted")
        /\ Carried("piCallsStarted")' = Carried("piCallsStarted")
    BY <2>1 DEF Steps, Carried
  <2>9. /\ Counting({"start-attempt"}) = 0 /\ Counting(inferencePhases) = 0
        /\ Counting({"start-attempt"})' = IF state'.phase = "start-attempt" THEN 1 ELSE 0
        /\ Counting(inferencePhases)' = IF state'.phase \in inferencePhases THEN 1 ELSE 0
    BY <2>1 DEF Counting, inferencePhases
  <2>10. /\ state.attemptsStarted = Carried("attemptsStarted") + attempts
         /\ state.piCallsStarted = Carried("piCallsStarted") + calls
    BY <1>1, <2>9 DEF BudgetInv
  <2> HIDE DEF attempts, calls
  <2>11. /\ state'.attemptsStarted = Carried("attemptsStarted")' + attempts'
              + Counting({"start-attempt"})'
         /\ state'.piCallsStarted = Carried("piCallsStarted")' + calls'
              + Counting(inferencePhases)'
    BY <1>1, <2>4, <2>8, <2>9, <2>10
  <2> QED
    BY <2>4, <2>7, <2>11 DEF BudgetInv, attempts, calls
<1>3. CASE SaveLogged
  <2>1. UNCHANGED <<state, parent, spent>>
    BY <1>3, SavedFacts
  <2>2. /\ attempts' + Counting({"start-attempt"})'
             = attempts + Counting({"start-attempt"})
        /\ calls' + Counting(inferencePhases)' = calls + Counting(inferencePhases)
        /\ attempts' \in Nat /\ calls' \in Nat
    BY <1>3, SavedCounts
  <2>3. /\ Carried("attemptsStarted")' = Carried("attemptsStarted")
        /\ Carried("piCallsStarted")' = Carried("piCallsStarted")
    BY <2>1 DEF Carried
  <2>4. /\ Counting({"start-attempt"}) \in Nat /\ Counting(inferencePhases) \in Nat
        /\ Counting({"start-attempt"})' \in Nat /\ Counting(inferencePhases)' \in Nat
    BY DEF Counting

  <2>6. /\ state.attemptsStarted = Carried("attemptsStarted") + attempts
              + Counting({"start-attempt"})
        /\ state.piCallsStarted = Carried("piCallsStarted") + calls
              + Counting(inferencePhases)
    BY DEF BudgetInv
  <2> HIDE DEF attempts, calls
  <2>7. /\ state'.attemptsStarted = Carried("attemptsStarted")' + attempts'
              + Counting({"start-attempt"})'
        /\ state'.piCallsStarted = Carried("piCallsStarted")' + calls'
              + Counting(inferencePhases)'
    BY <1>1, <2>1, <2>2, <2>3, <2>4, <2>6
  <2> QED
    BY <2>1, <2>7 DEF BudgetInv, attempts, calls
<1>4. CASE performLiveStep /\ UNCHANGED <<log, runs, spent>>
  <2>1. UNCHANGED <<state, results, parent, log, spent>>
    BY <1>4, QuietFacts
  <2> QED
    BY <2>1 DEF BudgetInv, Steps, Counting, Carried, Active, StepSaved
<1>5. CASE (Advance \/ Recover) /\ UNCHANGED <<log, runs, spent>>
  <2>1. /\ Active /\ StepSaved /\ ~Active' /\ UNCHANGED <<results, parent, log, spent>>
        /\ MayFinish(state, state.sequence, results[state.phase].outcome)
        /\ state' = finishStep(state, results[state.phase].outcome)
    BY <1>5, QuietFacts
  <2>2. /\ state'.attemptsStarted = state.attemptsStarted
        /\ state'.piCallsStarted = state.piCallsStarted
    BY <1>1, <2>1, FinishTimeless
  <2> QED
    BY <2>1, <2>2 DEF BudgetInv, Steps, Counting, Carried
<1>6. CASE Others /\ UNCHANGED <<log, runs, spent>>
  <2>1. UNCHANGED <<state, results, parent, log, spent>>
    BY <1>6, QuietFacts
  <2> QED
    BY <2>1 DEF BudgetInv, Steps, Counting, Carried, Active, StepSaved
<1> QED
  BY <1>2, <1>3, <1>4, <1>5, <1>6, CampaignSteps

-------------------------------------------------------------------------------
(* The order of the results.                                               *)

\* What the completed step has left in the log.
LEMMA AdvanceEntry ==
  ASSUME IInv, CampaignTypeOK, LogInv, Advance \/ Recover
  PROVE  LET n == Taken + 1
             o == results[state.phase].outcome IN
         /\ n \in DOMAIN log /\ n = Len(log) /\ log[n] = Saved(state.phase)
         /\ log[n].phase = state.phase /\ log[n].outcome = o
         /\ log[n].detail = results[state.phase].detail
         /\ o \in Outcomes(Revisions) /\ Truthful(o)
         /\ o # Error => o.kind = KindOf(state.phase)
<1>1. /\ Active /\ StepSaved /\ state.phase \in WorkPhases
      /\ results[state.phase].outcome \in Outcomes(Revisions)
      /\ MayFinish(state, state.sequence, results[state.phase].outcome)
  BY QuietFacts
<1>2. Pending
  BY <1>1 DEF Pending
<1>3. /\ Len(log) = Taken + 1 /\ Len(log) \in DOMAIN log
      /\ log[Len(log)] = Saved(state.phase)
  BY <1>2, TakenFacts
<1>4. Truthful(results[state.phase].outcome)
  BY <1>1 DEF IInv, GateInv, StepSaved
<1> QED
  BY <1>1, <1>3, <1>4 DEF Saved, MayFinish

\* The first steps come first.
LEMMA OpeningStep ==
  ASSUME IInv, CampaignTypeOK, LogInv, OpeningInv, [CampaignNext]_campaignVars, ~StartChild
  PROVE  OpeningInv'
<1>0. /\ Len(log) \in Nat /\ DOMAIN log = 1 .. Len(log)
      /\ Taken \in 0 .. Len(log) /\ state \in RunStates(Revisions)
  BY LogFacts, TakenFacts DEF IInv, TypeInv, TypeOK
<1>1. CASE BeginCounted
  <2>1. UNCHANGED log /\ Taken' = Taken
    BY <1>1, QuietFacts
  <2>2. \/ state'.phase = state.phase
        \/ state'.phase = "finish"
        \/ state'.phase = "discard" /\ state.phase = "repair"
    BY <1>1, BeginStepFacts DEF BeginCounted, IInv
  <2> QED
    BY <2>1, <2>2 DEF OpeningInv, Qualified
<1>2. CASE SaveLogged
  <2> DEFINE n == Len(log) + 1
  <2>1. /\ state' = state /\ Taken = Len(log) /\ Taken' = Taken
        /\ DOMAIN log' = 1 .. n
        /\ \A i \in DOMAIN log : log'[i] = log[i]
        /\ log'[n].phase = state.phase
    BY <1>2, SavedFacts
  <2>2. DOMAIN log' = DOMAIN log \cup {n} /\ n \notin DOMAIN log
    BY <1>0, <2>1
  <2>3. Qualified => Qualified'
    BY <2>1, <2>2 DEF Qualified
  <2>4. /\ state.phase = "prepare" => n = 1
        /\ state.phase = "baseline" => n = 2
        /\ state.phase \notin {"prepare", "baseline", "finish"} => n > 2 /\ Qualified
    <3>1. state.phase # "done"
      BY <1>2, SavedFacts DEF WorkPhases, CommandPhases, inferencePhases, UnlimitedPhases
    <3> QED
      BY <1>0, <2>1, <3>1 DEF OpeningInv
  <2> HIDE DEF n
  <2> QED
    BY <2>1, <2>2, <2>3, <2>4 DEF OpeningInv
<1>3. CASE performLiveStep /\ UNCHANGED <<log, runs, spent>>
  <2>1. UNCHANGED <<state, log>>
    BY <1>3, QuietFacts
  <2> QED
    BY <2>1 DEF OpeningInv, Qualified, Taken, Active
<1>4. CASE (Advance \/ Recover) /\ UNCHANGED <<log, runs, spent>>
  <2> DEFINE n == Taken + 1
             o == results[state.phase].outcome
  <2>1. /\ state.phase \in WorkPhases /\ UNCHANGED log
        /\ o \in Outcomes(Revisions) /\ MayFinish(state, state.sequence, o)
        /\ state' = finishStep(state, o) /\ Taken' = n
    BY <1>4, QuietFacts
  <2>2. /\ n \in DOMAIN log /\ log[n].phase = state.phase /\ log[n].outcome = o
    BY <1>4, AdvanceEntry
  <2>3. o # Error => o.kind = KindOf(state.phase)
    BY <1>4, AdvanceEntry
  <2> HIDE DEF n, o
  <2>4. CASE o = Error
    <3>1. state'.phase = "finish"
      BY <1>0, <2>1, <2>4, FinishFacts
    <3> QED
      BY <2>1, <3>1 DEF OpeningInv, Qualified
  <2>5. CASE o # Error /\ state.phase = "prepare"
    <3>1. state'.phase = "baseline"
      BY <1>0, <2>1, <2>5, FinishFacts
    <3>2. Taken' = 1
      BY <2>1, <2>5 DEF OpeningInv, n
    <3> QED
      BY <2>1, <3>1, <3>2 DEF OpeningInv, Qualified
  <2>6. CASE o # Error /\ state.phase = "baseline"
    <3>1. /\ state'.phase \in {"start-attempt", "finish"}
          /\ ~o.valid => state'.phase = "finish"
      BY <1>0, <2>1, <2>6, FinishFacts
    <3>2. Taken' = 2 /\ n = 2
      BY <2>1, <2>6 DEF OpeningInv, n
    <3>3. o.valid => Qualified
      BY <2>2, <2>3, <2>6, <3>2 DEF Qualified, Valid, KindOf
    <3>4. Qualified' = Qualified
      BY <2>1 DEF Qualified
    <3> QED
      BY <2>1, <3>1, <3>2, <3>3, <3>4 DEF OpeningInv
  <2>7. CASE o # Error /\ state.phase \notin {"prepare", "baseline"}
    <3>1. state'.phase \notin {"prepare", "baseline"}
      BY <1>0, <2>1, <2>7, FinishFacts DEF WorkPhases, CommandPhases, inferencePhases,
         UnlimitedPhases
    <3>2. state.phase = "finish" => state'.phase = "done"
      BY <1>0, <2>1, <2>7, FinishFacts
    <3>3. state.phase # "finish" => Taken >= 2 /\ Qualified
      BY <2>1, <2>7 DEF OpeningInv, WorkPhases, CommandPhases, inferencePhases, UnlimitedPhases
    <3>4. Taken >= 2 => Taken' >= 2
      BY <1>0, <2>1 DEF n
    <3>5. Qualified' = Qualified
      BY <2>1 DEF Qualified
    <3> QED
      BY <2>1, <3>1, <3>2, <3>3, <3>4, <3>5 DEF OpeningInv
  <2> QED
    BY <2>4, <2>5, <2>6, <2>7
<1>5. CASE Others /\ UNCHANGED <<log, runs, spent>>
  <2>1. UNCHANGED <<state, log>>
    BY <1>5, QuietFacts
  <2> QED
    BY <2>1 DEF OpeningInv, Qualified, Taken, Active
<1> QED
  BY <1>1, <1>2, <1>3, <1>4, <1>5, CampaignSteps

-------------------------------------------------------------------------------
(* The details.                                                            *)

\* What the detail of an effect is.
LEMMA EffectDetail ==
  ASSUME TypeInv, performLiveStep
  PROVE  /\ Valid(effect'.outcome) =>
              /\ state.phase \in {"baseline", "measure"}
              /\ effect'.detail \in Measured /\ effect'.outcome = Verdict(effect'.detail)
         /\ (state.phase = "keep" /\ effect'.outcome # Error) =>
              effect'.detail = results["measure"].detail
<1> DEFINE Goal == /\ Valid(effect'.outcome) =>
                        /\ state.phase \in {"baseline", "measure"}
                        /\ effect'.detail \in Measured
                        /\ effect'.outcome = Verdict(effect'.detail)
                   /\ (state.phase = "keep" /\ effect'.outcome # Error) =>
                        effect'.detail = results["measure"].detail
<1> SUFFICES Goal
  OBVIOUS
<1>1. state.workingRevision \in Revisions
  BY DEF TypeInv, TypeOK, RunStates
<1>2. ASSUME effect' = Failed PROVE Goal
  BY <1>2 DEF Failed, Valid
<1>3. CASE Measure
  <2>1. state.phase \in {"baseline", "measure"}
    BY <1>3 DEF Measure, Performing
  <2>2. ASSUME NEW inconclusive, Ends(NoMeasurement(inconclusive), None)
        PROVE  Goal
    <3>1. CASE effect' = [outcome |-> NoMeasurement(inconclusive), detail |-> None]
      <4>1. ~Valid(effect'.outcome)
        BY <3>1 DEF NoMeasurement, Valid
      <4> QED
        BY <2>1, <4>1
    <3> QED
      BY <1>2, <2>2, <3>1 DEF Ends
  <2>3. ASSUME NEW h1 \in Rates, NEW h2 \in GuardedRates, NEW m,
               m = [revision |-> state.workingRevision, h1 |-> h1, h2 |-> h2,
                    rival |-> Rival],
               effect' = [outcome |-> Verdict(m), detail |-> m]
        PROVE  Goal
    <3>1. m \in Measured
      BY <1>1, <2>3 DEF Measured
    <3>2. effect'.outcome = Verdict(m) /\ effect'.detail = m
      BY <2>3
    <3> QED
      BY <2>1, <3>1, <3>2
  <2>4. \/ effect' = Failed
        \/ \E inconclusive : Ends(NoMeasurement(inconclusive), None)
        \/ \E h1 \in Rates, h2 \in GuardedRates :
              LET m == [revision |-> state.workingRevision, h1 |-> h1,
                        h2 |-> h2, rival |-> Rival]
              IN  effect' = Failed \/ effect' = [outcome |-> Verdict(m), detail |-> m]
    BY <1>3 DEF Measure, CommandFails, Ends
  <2> QED
    BY <1>2, <2>2, <2>3, <2>4
<1>4. CASE Keep
  <2>1. state.phase = "keep"
    BY <1>4 DEF Keep, Performing
  <2>2. CASE effect' = [outcome |-> [kind |-> "kept", revision |-> state.workingRevision],
                        detail |-> results["measure"].detail]
    BY <2>2 DEF Valid
  <2> QED
    BY <1>2, <1>4, <2>2 DEF Keep, Ends
<1>5. ASSUME effect'.outcome.kind # "measurement", state.phase # "keep" PROVE Goal
  BY <1>5 DEF Valid
<1>6. CASE Refuse
  BY <1>2, <1>6 DEF Refuse
<1>7. CASE Prepare
  <2>1. state.phase # "keep"
    BY <1>7 DEF Prepare, Performing
  <2>2. effect' = Failed \/ effect'.outcome = [kind |-> "prepared"]
    BY <1>7 DEF Prepare, Ends
  <2> QED
    BY <1>2, <1>5, <2>1, <2>2
<1>8. CASE RunCommand
  <2>1. state.phase \in {"start-attempt", "profile"}
    BY <1>8 DEF RunCommand, Performing
  <2>2. effect' = Failed \/ effect'.outcome = [kind |-> KindOf(state.phase)]
    BY <1>8 DEF RunCommand, CommandFails, Ends
  <2>3. KindOf(state.phase) # "measurement"
    BY <2>1 DEF KindOf
  <2> QED
    BY <1>2, <1>5, <2>1, <2>2, <2>3
<1>9. CASE RunTests
  <2>1. state.phase # "keep"
    BY <1>9 DEF RunTests, Performing
  <2>2. effect' = Failed \/ effect'.outcome.kind = "tests"
    BY <1>9 DEF RunTests, CommandFails, Ends
  <2> QED
    BY <1>2, <1>5, <2>1, <2>2
<1>10. CASE Consult
  <2>1. state.phase # "keep"
    BY <1>10 DEF Consult, Performing
  <2>2. effect' = Failed \/ effect'.outcome.kind \in {"analysis", "research", "review"}
    BY <1>10 DEF Consult, CommandFails, Ends
  <2> QED
    BY <1>2, <1>5, <2>1, <2>2
<1>11. CASE Edit
  <2>1. state.phase # "keep"
    BY <1>11 DEF Edit, Performing
  <2>2. effect' = Failed \/ effect'.outcome.kind = "edited"
    BY <1>11 DEF Edit, CommandFails, Ends
  <2> QED
    BY <1>2, <1>5, <2>1, <2>2
<1>12. CASE Discard
  <2>1. state.phase # "keep"
    BY <1>12 DEF Discard, Performing
  <2>2. effect' = Failed \/ effect'.outcome.kind = "discarded"
    BY <1>12 DEF Discard, Ends
  <2> QED
    BY <1>2, <1>5, <2>1, <2>2
<1>13. CASE Finish
  <2>1. state.phase # "keep"
    BY <1>13 DEF Finish, Performing
  <2>2. effect' = Failed \/ effect'.outcome.kind = "finished"
    BY <1>13 DEF Finish, Ends
  <2> QED
    BY <1>2, <1>5, <2>1, <2>2
<1> QED
  BY <1>3, <1>4, <1>6, <1>7, <1>8, <1>9, <1>10, <1>11, <1>12, <1>13 DEF performLiveStep

\* The details stay what they are of.
LEMMA DetailStep ==
  ASSUME IInv, CampaignTypeOK, LogInv, DetailInv, [CampaignNext]_campaignVars, ~StartChild
  PROVE  DetailInv'
<1>0. /\ Len(log) \in Nat /\ DOMAIN log = 1 .. Len(log)
      /\ state.phase = "keep" => state.phase \in WorkPhases
  BY LogFacts DEF WorkPhases, UnlimitedPhases
<1>1. ASSUME UNCHANGED <<log, parent>>, pc' # "performed"
      PROVE  DetailInv'
  BY <1>1 DEF DetailInv
<1>2. CASE BeginCounted
  BY <1>1, <1>2, QuietFacts
<1>3. CASE SaveLogged
  <2> DEFINE n == Len(log) + 1
  <2>1. /\ parent' = parent /\ pc = "performed" /\ pc' = "saved"
        /\ DOMAIN log' = 1 .. n
        /\ \A i \in DOMAIN log : log'[i] = log[i]
        /\ log'[n].outcome \in {effect.outcome, Error}
        /\ log'[n].detail = effect.detail
    BY <1>3, SavedFacts
  <2>2. DOMAIN log' = DOMAIN log \cup {n}
    BY <1>0, <2>1
  <2> HIDE DEF n
  <2>3. Valid(log'[n].outcome) => log'[n].detail \in Measured
    <3>1. ~Valid(Error)
      BY DEF Valid
    <3> QED
      BY <2>1, <3>1 DEF DetailInv
  <2> QED
    BY <2>1, <2>2, <2>3 DEF DetailInv
<1>4. CASE performLiveStep /\ UNCHANGED <<log, runs, spent>>
  <2>1. UNCHANGED <<state, results, parent, log>>
    BY <1>4, QuietFacts
  <2>2. /\ Valid(effect'.outcome) =>
              effect'.detail \in Measured /\ effect'.outcome = Verdict(effect'.detail)
        /\ (state.phase = "keep" /\ effect'.outcome # Error) =>
              effect'.detail = results["measure"].detail
    BY <1>4, EffectDetail DEF IInv
  <2>3. Verdict(effect.detail)' = Verdict(effect'.detail)
    BY <2>1 DEF Verdict, Initial, Best
  <2> QED
    BY <2>1, <2>2, <2>3 DEF DetailInv
<1>5. CASE (Advance \/ Recover) /\ UNCHANGED <<log, runs, spent>>
  BY <1>1, <1>5, QuietFacts
<1>6. CASE Others /\ UNCHANGED <<log, runs, spent>>
  <2>1. UNCHANGED <<state, results, parent, log>>
    BY <1>6, QuietFacts
  <2>2. pc' # "performed" \/ UNCHANGED <<pc, effect>>
    BY <1>6, OtherFacts DEF IInv
  <2>3. CASE UNCHANGED <<pc, effect>>
    <3>1. Verdict(effect.detail)' = Verdict(effect.detail)
      BY <2>1, <2>3 DEF Verdict, Initial, Best
    <3> QED
      BY <2>1, <2>3, <3>1 DEF DetailInv
  <2> QED
    BY <1>1, <2>1, <2>2, <2>3
<1> QED
  BY <1>2, <1>3, <1>4, <1>5, <1>6, CampaignSteps

-------------------------------------------------------------------------------
(* What a candidate has behind it.                                         *)

\* What an entry says of a revision stays true.
LEMMA AtSaved ==
  ASSUME NEW i, NEW rev, i \in DOMAIN log => i \in DOMAIN log' /\ log'[i] = log[i]
  PROVE  /\ TestedAt(i, rev) => TestedAt(i, rev)'
         /\ MeasuredAt(i, rev) => MeasuredAt(i, rev)'
         /\ ReviewedAt(i, rev) => ReviewedAt(i, rev)'
  BY DEF TestedAt, MeasuredAt, ReviewedAt

\* What a candidate has behind it stays the results right before.
LEMMA TailStep ==
  ASSUME IInv, CampaignTypeOK, LogInv, TailInv, [CampaignNext]_campaignVars, ~StartChild
  PROVE  TailInv'
<1>0. /\ Len(log) \in Nat /\ DOMAIN log = 1 .. Len(log)
      /\ Taken \in 0 .. Len(log) /\ state \in RunStates(Revisions)
  BY LogFacts, TakenFacts DEF IInv, TypeInv, TypeOK
<1>a. ASSUME NEW t, NEW rev, NEW p,
             Taken' = t, state'.workingRevision = rev, state'.phase = p,
             p = "measure" => TestedAt(t, rev)',
             p = "review" => MeasuredAt(t, rev)' /\ TestedAt(t - 1, rev)',
             p = "keep" => ReviewedAt(t, rev)' /\ MeasuredAt(t - 1, rev)' /\ TestedAt(t - 2, rev)'
      PROVE  TailInv'
  BY <1>a DEF TailInv, TestedAt, MeasuredAt, ReviewedAt
<1>b. ASSUME UNCHANGED log \/ SaveLogged
      PROVE  \A i, rev : /\ TestedAt(i, rev) => TestedAt(i, rev)'
                         /\ MeasuredAt(i, rev) => MeasuredAt(i, rev)'
                         /\ ReviewedAt(i, rev) => ReviewedAt(i, rev)'
  <2>1. \A i : i \in DOMAIN log => i \in DOMAIN log' /\ log'[i] = log[i]
    <3>1. CASE UNCHANGED log
      BY <3>1
    <3>2. CASE SaveLogged
      BY <1>0, <3>2, SavedFacts
    <3> QED
      BY <1>b, <3>1, <3>2
  <2> QED
    BY <2>1, AtSaved
<1>c. ASSUME UNCHANGED log \/ SaveLogged, Taken' = Taken,
             state'.workingRevision = state.workingRevision,
             state'.phase \in {state.phase, "finish", "discard"}
      PROVE  TailInv'
  <2> DEFINE t == Taken
             rev == state.workingRevision
             p == state'.phase
  <2>1. /\ p = "measure" => TestedAt(t, rev)
        /\ p = "review" => MeasuredAt(t, rev) /\ TestedAt(t - 1, rev)
        /\ p = "keep" => ReviewedAt(t, rev) /\ MeasuredAt(t - 1, rev) /\ TestedAt(t - 2, rev)
    BY <1>c DEF TailInv
  <2>2. Taken' = t /\ state'.workingRevision = rev /\ state'.phase = p
    BY <1>c
  <2> HIDE DEF t, rev, p
  <2> QED
    BY <1>a, <1>b, <1>c, <2>1, <2>2
<1>1. CASE BeginCounted
  BY <1>1, <1>c, QuietFacts, BeginStepFacts DEF BeginCounted, IInv
<1>2. CASE SaveLogged
  BY <1>2, <1>c, SavedFacts
<1>3. CASE performLiveStep /\ UNCHANGED <<log, runs, spent>>
  BY <1>3, <1>c, QuietFacts DEF Taken, Active
<1>4. CASE (Advance \/ Recover) /\ UNCHANGED <<log, runs, spent>>
  <2> SUFFICES ASSUME NEW n, n = Taken + 1, NEW rev, rev = state.workingRevision,
                      NEW o, o = results[state.phase].outcome
               PROVE  TailInv'
    OBVIOUS
  <2>1. /\ state.phase \in WorkPhases /\ UNCHANGED log
        /\ o \in Outcomes(Revisions) /\ MayFinish(state, state.sequence, o)
        /\ state' = finishStep(state, o) /\ Taken' = n
    BY <1>4, QuietFacts
  <2>2. /\ n \in DOMAIN log /\ log[n].phase = state.phase /\ log[n].outcome = o
        /\ Truthful(o)
        /\ o # Error => o.kind = KindOf(state.phase)
    BY <1>4, AdvanceEntry
  <2>3. n - 1 = Taken /\ n - 2 = Taken - 1
    BY <1>0
  <2>4. CASE o = Error
    <3>1. state'.phase = "finish"
      BY <1>0, <2>1, <2>4, FinishFacts
    <3> QED
      BY <3>1 DEF TailInv
  <2>5. CASE o # Error /\ state.phase = "test"
    <3>1. /\ state'.phase = IF o.passed THEN "measure" ELSE "repair"
          /\ o.revision = rev /\ state'.workingRevision = rev
      BY <1>0, <2>1, <2>5, FinishFacts
    <3>2. o.passed => TestedAt(n, rev)
      BY <2>2, <2>5, <3>1 DEF TestedAt
    <3>3. o.passed => TestedAt(n, rev)'
      BY <1>b, <2>1, <3>2
    <3> QED
      BY <1>a, <2>1, <3>1, <3>3
  <2>6. CASE o # Error /\ state.phase = "measure"
    <3>1. /\ state'.phase \in {"review", "discard", "finish"}
          /\ state'.phase = "review" => o.valid /\ (o.improved \/ o.targetMet)
          /\ o.revision = rev /\ state'.workingRevision = rev
      BY <1>0, <2>1, <2>6, FinishFacts
    <3>2. state'.phase = "review" => o.improved
      <4>1. KindOf(state.phase) = "measurement"
        BY <2>6 DEF KindOf
      <4> QED
        BY <2>2, <2>6, <3>1, <4>1 DEF Truthful
    <3>3. state'.phase = "review" => MeasuredAt(n, rev)
      BY <2>2, <2>6, <3>1, <3>2 DEF MeasuredAt
    <3>4. TestedAt(n - 1, rev)
      BY <2>3, <2>6 DEF TailInv
    <3>5. state'.phase = "review" => MeasuredAt(n, rev)' /\ TestedAt(n - 1, rev)'
      BY <1>b, <2>1, <3>3, <3>4
    <3> QED
      BY <1>a, <2>1, <3>1, <3>5
  <2>7. CASE o # Error /\ state.phase = "review"
    <3>1. /\ state'.phase = IF o.passed THEN "keep" ELSE "repair"
          /\ o.revision = rev /\ state'.workingRevision = rev
      BY <1>0, <2>1, <2>7, FinishFacts
    <3>2. o.passed => ReviewedAt(n, rev)
      BY <2>2, <2>7, <3>1 DEF ReviewedAt
    <3>3. MeasuredAt(n - 1, rev) /\ TestedAt(n - 2, rev)
      BY <2>3, <2>7 DEF TailInv
    <3>4. o.passed => ReviewedAt(n, rev)' /\ MeasuredAt(n - 1, rev)' /\ TestedAt(n - 2, rev)'
      BY <1>b, <2>1, <3>2, <3>3
    <3> QED
      BY <1>a, <2>1, <3>1, <3>4
  <2>8. CASE o # Error /\ state.phase \notin {"test", "measure", "review"}
    <3>1. state'.phase \notin {"measure", "review", "keep"}
      BY <1>0, <2>1, <2>8, FinishFacts DEF WorkPhases, CommandPhases, inferencePhases,
         UnlimitedPhases
    <3> QED
      BY <3>1 DEF TailInv
  <2> QED
    BY <2>4, <2>5, <2>6, <2>7, <2>8
<1>5. CASE Others /\ UNCHANGED <<log, runs, spent>>
  BY <1>5, <1>c, QuietFacts DEF Taken, Active
<1> QED
  BY <1>1, <1>2, <1>3, <1>4, <1>5, CampaignSteps

\* What every kept revision has behind it stays there.
LEMMA KeepsStep ==
  ASSUME IInv, CampaignTypeOK, LogInv, DetailInv, TailInv, KeepsInv,
         [CampaignNext]_campaignVars, ~StartChild
  PROVE  KeepsInv'
<1>0. Len(log) \in Nat /\ DOMAIN log = 1 .. Len(log)
  BY LogFacts
<1>1. CASE SaveLogged
  <2> DEFINE n == Len(log) + 1
  <2>1. /\ pc = "performed" /\ Taken = Len(log)
        /\ DOMAIN log' = 1 .. n
        /\ \A i \in DOMAIN log : log'[i] = log[i]
    BY <1>1, SavedFacts
  <2>2. /\ log'[n].phase = state.phase
        /\ log'[n].outcome \in {effect.outcome, Error}
        /\ MayFinish(state, state.sequence, log'[n].outcome)
        /\ log'[n].detail = effect.detail
    BY <1>1, SavedFacts
  <2>3. /\ n - 1 = Taken /\ n - 2 = Taken - 1 /\ n - 3 = Taken - 2
        /\ \A i \in DOMAIN log : i \in DOMAIN log' /\ i \in Nat
        /\ n \in Nat
    BY <1>0, <2>1
  <2>4. Keeps' = IF state.phase = "keep" /\ log'[n].outcome # Error
                 THEN Keeps \cup {n} ELSE Keeps
    BY <1>1, SavedPicks
  <2>5. Keeps \subseteq DOMAIN log
    BY DEF Keeps, Steps
  <2> HIDE DEF n
  <2>6. \A i, rev : /\ TestedAt(i, rev) => TestedAt(i, rev)'
                    /\ MeasuredAt(i, rev) => MeasuredAt(i, rev)'
                    /\ ReviewedAt(i, rev) => ReviewedAt(i, rev)'
    BY <2>1, <2>3, AtSaved
  <2>7. ASSUME NEW k \in Keeps, NEW rev, rev = log[k].outcome.revision
        PROVE  /\ log'[k].outcome.revision = rev
               /\ ReviewedAt(k - 1, rev)' /\ MeasuredAt(k - 2, rev)' /\ TestedAt(k - 3, rev)'
               /\ log'[k].detail = log'[k - 2].detail
    <3>1. log'[k] = log[k]
      BY <2>1, <2>5
    <3>2. /\ ReviewedAt(k - 1, rev) /\ MeasuredAt(k - 2, rev) /\ TestedAt(k - 3, rev)
          /\ log[k].detail = log[k - 2].detail
      BY <2>7 DEF KeepsInv
    <3>3. log'[k - 2] = log[k - 2]
      BY <2>1, <3>2 DEF MeasuredAt
    <3> QED
      BY <2>6, <2>7, <3>1, <3>2, <3>3
  <2>8. ASSUME NEW k, k = n, state.phase = "keep", log'[n].outcome # Error,
               NEW rev, rev = state.workingRevision
        PROVE  /\ log'[k].outcome.revision = rev
               /\ ReviewedAt(k - 1, rev)' /\ MeasuredAt(k - 2, rev)' /\ TestedAt(k - 3, rev)'
               /\ log'[k].detail = log'[k - 2].detail
    <3>1. /\ ReviewedAt(k - 1, rev) /\ MeasuredAt(k - 2, rev) /\ TestedAt(k - 3, rev)
      BY <2>3, <2>8 DEF TailInv
    <3>2. log'[k].outcome.revision = rev
      BY <2>2, <2>8 DEF MayFinish
    <3>3. log'[k].detail = results["measure"].detail
      BY <2>1, <2>2, <2>8 DEF DetailInv
    <3>4. results["measure"].detail = log[k - 2].detail
      <4>1. k - 2 \in DOMAIN log /\ log[k - 2].phase = "measure"
        BY <3>1 DEF MeasuredAt
      <4>2. results["measure"] # None /\ k - 2 <= results["measure"].step
        BY <4>1 DEF LogInv
      <4>3. /\ results["measure"].step \in DOMAIN log
            /\ log[results["measure"].step] = Saved("measure")
        BY <4>2 DEF LogInv, WorkPhases, CommandPhases
      <4> DEFINE j == results["measure"].step
      <4>4. log[j].phase = "measure" /\ log[j].detail = results["measure"].detail
        BY <4>3 DEF Saved
      <4>5. log[k - 1].phase = "review"
        BY <3>1 DEF ReviewedAt
      <4>6. j \in 1 .. Len(log) /\ k - 2 <= j /\ k = Len(log) + 1 /\ j # k - 1
        BY <1>0, <2>8, <4>2, <4>3, <4>4, <4>5 DEF n
      <4> HIDE DEF j
      <4>7. j = k - 2
        <5>1. \A l \in Nat : \A x \in 1 .. l : l + 1 - 2 <= x /\ x # l + 1 - 1 => x = l + 1 - 2
          OBVIOUS
        <5>2. Len(log) \in Nat
          BY <1>0
        <5>3. j \in 1 .. Len(log) /\ Len(log) + 1 - 2 <= j /\ j # Len(log) + 1 - 1
          BY <4>6
        <5>4. j = Len(log) + 1 - 2
          BY <5>1, <5>2, <5>3
        <5>5. k = Len(log) + 1
          BY <4>6
        <5> QED
          BY <5>4, <5>5
      <4> QED
        BY <4>4, <4>7
    <3>5. log'[k - 2] = log[k - 2]
      BY <2>1, <3>1 DEF MeasuredAt
    <3> QED
      BY <2>6, <3>1, <3>2, <3>3, <3>4, <3>5
  <2>9. \A k \in Keeps' : \E rev :
          /\ log'[k].outcome.revision = rev
          /\ ReviewedAt(k - 1, rev)' /\ MeasuredAt(k - 2, rev)' /\ TestedAt(k - 3, rev)'
          /\ log'[k].detail = log'[k - 2].detail
    BY <2>4, <2>7, <2>8
  <2> QED
    BY <2>9 DEF KeepsInv, ReviewedAt, MeasuredAt, TestedAt
<1>2. CASE UNCHANGED log
  BY <1>2 DEF KeepsInv, Keeps, Steps, ReviewedAt, MeasuredAt, TestedAt
<1> QED
  <2>1. BeginCounted => UNCHANGED log
    BY QuietFacts
  <2> QED
    BY <1>1, <1>2, <2>1, CampaignSteps

-------------------------------------------------------------------------------
(* The best revision.                                                      *)

\* A run does not change where it began.
LEMMA OriginSame ==
  ASSUME IInv, BudgetInv, [CampaignNext]_campaignVars, ~StartChild
  PROVE  Origin' = Origin /\ UNCHANGED parent
<1>1. state \in RunStates(Revisions)
  BY DEF IInv, TypeInv, TypeOK
<1>2. UNCHANGED parent /\ state'.initialRevision = state.initialRevision
  <2>1. CASE BeginCounted
    <3>1. ~Active /\ UNCHANGED parent
      BY <2>1, QuietFacts
    <3>2. PICK t \in state.elapsed .. MaxDuration : state' = beginSavedStep(state, t)
      BY <2>1 DEF BeginCounted, BeginStep
    <3>3. t \in Nat /\ state.activeStep = 0
          /\ state.attemptsStarted <= MaxAttempts /\ state.piCallsStarted <= MaxPiCalls
      BY <1>1, <3>1, <3>2 DEF RunStates, Active, BudgetInv
    <3> QED
      BY <1>1, <3>1, <3>2, <3>3, BeginCounts
  <2>2. CASE Advance \/ Recover
    <3>1. /\ UNCHANGED parent
          /\ MayFinish(state, state.sequence, results[state.phase].outcome)
          /\ state' = finishStep(state, results[state.phase].outcome)
      BY <2>2, QuietFacts
    <3> QED
      BY <1>1, <3>1, FinishTimeless
  <2>3. CASE performLiveStep \/ Others
    BY <2>3, QuietFacts
  <2>4. CASE SaveLogged
    <3>1. UNCHANGED <<state, parent>>
      BY <2>4, SaveFacts DEF SaveLogged, IInv, operator
    <3> QED
      BY <3>1
  <2> QED
    BY <2>1, <2>2, <2>3, <2>4, CampaignSteps
<1> QED
  BY <1>2 DEF Origin, Started

\* The best revision stays that of the last keep taken in.
LEMMA BestStep ==
  ASSUME IInv, CampaignTypeOK, LogInv, BudgetInv, BestInv,
         [CampaignNext]_campaignVars, ~StartChild
  PROVE  BestInv'
<1>0. /\ Len(log) \in Nat /\ DOMAIN log = 1 .. Len(log)
      /\ Taken \in 0 .. Len(log) /\ state \in RunStates(Revisions)
      /\ Keeps \in SUBSET (1 .. Len(log)) /\ KeptSoFar \in SUBSET (1 .. Len(log))
  BY LogFacts, TakenFacts, PickFacts DEF IInv, TypeInv, TypeOK, KeptSoFar
<1>1. Origin' = Origin
  BY OriginSame
<1>2. KeptSoFar # {} => LastOf(KeptSoFar) \in KeptSoFar /\ LastOf(KeptSoFar) \in DOMAIN log
  BY <1>0, LastOfFacts
<1>a. ASSUME KeptSoFar' = KeptSoFar, state'.bestRevision = state.bestRevision,
             \A i \in DOMAIN log : log'[i] = log[i]
      PROVE  BestInv'
  <2>1. LastOf(KeptSoFar)' = LastOf(KeptSoFar)
    BY <1>a DEF LastOf
  <2>2. KeptSoFar # {} => log'[LastOf(KeptSoFar)] = log[LastOf(KeptSoFar)]
    BY <1>2, <1>a
  <2> QED
    BY <1>1, <1>a, <2>1, <2>2 DEF BestInv
<1>3. CASE BeginCounted
  <2>1. UNCHANGED log /\ Taken' = Taken
    BY <1>3, QuietFacts
  <2>2. state'.bestRevision = state.bestRevision
    BY <1>3, BeginStepFacts DEF BeginCounted, IInv
  <2>3. KeptSoFar' = KeptSoFar
    BY <2>1 DEF KeptSoFar, Keeps, Steps
  <2> QED
    BY <1>a, <2>1, <2>2, <2>3
<1>4. CASE SaveLogged
  <2>1. /\ state' = state /\ Taken = Len(log) /\ Taken' = Taken
        /\ \A i \in DOMAIN log : log'[i] = log[i]
    BY <1>4, SavedFacts
  <2>2. Keeps \subseteq Keeps' /\ Keeps' \subseteq Keeps \cup {Len(log) + 1}
    BY <1>4, SavedPicks
  <2>3. ~(Len(log) + 1 <= Len(log))
    BY <1>0
  <2>4. KeptSoFar' = KeptSoFar
    BY <2>1, <2>2, <2>3 DEF KeptSoFar
  <2> QED
    BY <1>a, <2>1, <2>4
<1>5. CASE (performLiveStep \/ Others) /\ UNCHANGED <<log, runs, spent>>
  <2>1. UNCHANGED <<state, log>>
    BY <1>5, QuietFacts
  <2>2. KeptSoFar' = KeptSoFar
    BY <2>1 DEF KeptSoFar, Keeps, Steps, Taken, Active
  <2> QED
    BY <1>a, <2>1, <2>2
<1>6. CASE (Advance \/ Recover) /\ UNCHANGED <<log, runs, spent>>
  <2> SUFFICES ASSUME NEW n, n = Taken + 1, NEW o, o = results[state.phase].outcome
               PROVE  BestInv'
    OBVIOUS
  <2>0. Advance \/ Recover
    BY <1>6
  <2>1. /\ state.phase \in WorkPhases /\ UNCHANGED log
        /\ o \in Outcomes(Revisions) /\ MayFinish(state, state.sequence, o)
        /\ state' = finishStep(state, o) /\ Taken' = n
    <3>1. /\ state.phase \in WorkPhases
          /\ results[state.phase].outcome \in Outcomes(Revisions)
          /\ MayFinish(state, state.sequence, results[state.phase].outcome)
          /\ state' = finishStep(state, results[state.phase].outcome)
          /\ Taken' = Taken + 1
      BY <2>0, QuietFacts, ZenonT(30)
    <3>2. UNCHANGED log
      BY <1>6
    <3> QED
      BY <3>1, <3>2, Zenon
  <2>2. /\ n \in DOMAIN log /\ log[n].phase = state.phase /\ log[n].outcome = o
        /\ n = Len(log) /\ n \in Nat
    BY <1>0, <1>6, AdvanceEntry
  <2>3. o # Error => o.kind = KindOf(state.phase)
    BY <1>6, AdvanceEntry
  <2>4. KeptSoFar' = Keeps
    <3>1. \A k \in Keeps : k <= n
      BY <1>0, <2>2
    <3> QED
      BY <2>1, <3>1 DEF KeptSoFar, Keeps, Steps
  <2>5. CASE state.phase = "keep" /\ o # Error
    <3>1. state'.bestRevision = state.workingRevision /\ o.revision = state.workingRevision
      BY <1>0, <2>1, <2>5, FinishFacts
    <3>2. n \in Keeps
      BY <2>2, <2>3, <2>5 DEF Keeps, Steps, KindOf
    <3>3. LastOf(Keeps) = n
      <4>1. Keeps \in SUBSET (1 .. n) /\ \A y \in Keeps : y <= n
        BY <1>0, <2>2
      <4> QED
        BY <2>2, <3>2, <4>1, LastOfIs
    <3>4. LastOf(KeptSoFar)' = n /\ KeptSoFar' # {}
      BY <2>4, <3>2, <3>3 DEF LastOf
    <3> QED
      BY <2>1, <2>2, <3>1, <3>4 DEF BestInv
  <2>6. CASE ~(state.phase = "keep" /\ o # Error)
    <3>1. state'.bestRevision = state.bestRevision
      BY <1>0, <2>1, <2>6, FinishFacts
    <3>2. n \notin Keeps
      BY <2>2, <2>6 DEF Keeps, Steps, Error
    <3>3. KeptSoFar = Keeps
      <4>1. \A k \in Keeps : k <= Taken
        <5>1. \A k \in Keeps : k \in 1 .. n /\ k # n
          BY <1>0, <2>2, <3>2
        <5>2. Taken \in Nat /\ n = Taken + 1
          BY <1>0
        <5> QED
          BY <5>1, <5>2
      <4> QED
        BY <4>1 DEF KeptSoFar
    <3> QED
      BY <1>a, <2>1, <2>4, <3>1, <3>3
  <2> QED
    BY <2>5, <2>6
<1> QED
  BY <1>3, <1>4, <1>5, <1>6, CampaignSteps

-------------------------------------------------------------------------------
(* What the verification finds in the log.                                 *)

\* Behind every keep are the three results right before it.
LEMMA SupportIs ==
  ASSUME CampaignTypeOK, KeepsInv, NEW k \in Keeps
  PROVE  /\ k \in Nat /\ k > 3 /\ k \in DOMAIN log
         /\ Support(k, "test") = k - 3 /\ Support(k, "measure") = k - 2
         /\ Support(k, "review") = k - 1
         /\ Supported(k)
         /\ BestAfter(k) = log[k - 2].detail
         /\ log[k - 2].phase = "measure" /\ log[k - 2].outcome # Error
         /\ log[k - 2].outcome.valid /\ log[k - 2].outcome.improved
         /\ log[k - 2].outcome.revision = log[k].outcome.revision
<1> DEFINE rev == log[k].outcome.revision
<1>1. /\ ReviewedAt(k - 1, rev) /\ MeasuredAt(k - 2, rev) /\ TestedAt(k - 3, rev)
  BY DEF KeepsInv
<1>2. /\ k - 1 \in DOMAIN log /\ log[k - 1].phase = "review" /\ log[k - 1].outcome # Error
      /\ log[k - 1].outcome.passed /\ log[k - 1].outcome.revision = rev
      /\ k - 2 \in DOMAIN log /\ log[k - 2].phase = "measure" /\ log[k - 2].outcome # Error
      /\ log[k - 2].outcome.valid /\ log[k - 2].outcome.improved
      /\ log[k - 2].outcome.revision = rev
      /\ k - 3 \in DOMAIN log /\ log[k - 3].phase = "test" /\ log[k - 3].outcome # Error
      /\ log[k - 3].outcome.passed /\ log[k - 3].outcome.revision = rev
  BY <1>1 DEF ReviewedAt, MeasuredAt, TestedAt
<1>3. /\ Len(log) \in Nat /\ DOMAIN log = 1 .. Len(log)
      /\ k \in DOMAIN log /\ k \in Nat /\ k > 3
      /\ \A i \in Keeps : i \in DOMAIN log /\ log[i].phase = "keep"
  <2>1. Len(log) \in Nat /\ DOMAIN log = 1 .. Len(log)
    BY LogFacts
  <2>2. \A i \in Keeps : i \in DOMAIN log /\ log[i].phase = "keep"
    BY DEF Keeps, Steps
  <2>3. k \in 1 .. Len(log) /\ k - 3 \in 1 .. Len(log)
    BY <1>2, <2>1, <2>2
  <2> QED
    BY <2>1, <2>2, <2>3
<1> DEFINE p == PreviousKeep(k)
<1>4. p \in Nat /\ p < k - 3
  <2>1. /\ p \in 0 .. Len(log)
        /\ p # 0 => p \in Keeps /\ p < k
    BY PickFacts
  <2> HIDE DEF p
  <2>2. p # 0 => p # k - 1 /\ p # k - 2 /\ p # k - 3
    BY <1>2, <1>3, <2>1
  <2> QED
    BY <1>3, <2>1, <2>2
<1> DEFINE Good(i, ph) == /\ log[i].outcome # Error /\ log[i].outcome.revision = rev
                          /\ IF ph = "measure" THEN log[i].outcome.valid
                             ELSE log[i].outcome.passed
           S(ph) == {i \in Steps({ph}) : p < i /\ i < k /\ Good(i, ph)}
<1>5. \A ph : Support(k, ph) = LastOf(S(ph))
  BY Zenon DEF Support
<1>6. \A ph : S(ph) \in SUBSET (1 .. Len(log))
  BY <1>3 DEF Steps
<1>7. \A ph : \A y \in S(ph) : y \in Nat /\ y < k /\ log[y].phase = ph
  BY <1>3 DEF Steps
<1>8. k - 3 \in S("test") /\ k - 2 \in S("measure") /\ k - 1 \in S("review")
  <2>1. Good(k - 3, "test") /\ Good(k - 2, "measure") /\ Good(k - 1, "review")
    BY <1>2
  <2>2. /\ k - 3 \in Steps({"test"}) /\ k - 2 \in Steps({"measure"})
        /\ k - 1 \in Steps({"review"})
    BY <1>2 DEF Steps
  <2>3. /\ p < k - 3 /\ p < k - 2 /\ p < k - 1
        /\ k - 3 < k /\ k - 2 < k /\ k - 1 < k
    BY <1>3, <1>4
  <2> HIDE DEF Good, p
  <2> QED
    BY <2>1, <2>2, <2>3
<1> HIDE DEF S, p, rev
<1>9. Support(k, "test") = k - 3
  <2>1. \A y \in S("test") : y <= k - 3
    BY <1>2, <1>3, <1>7
  <2> QED
    BY <1>3, <1>5, <1>6, <1>8, <2>1, LastOfIs
<1>10. Support(k, "measure") = k - 2
  <2>1. \A y \in S("measure") : y <= k - 2
    BY <1>2, <1>3, <1>7
  <2> QED
    BY <1>3, <1>5, <1>6, <1>8, <2>1, LastOfIs
<1>11. Support(k, "review") = k - 1
  <2>1. \A y \in S("review") : y <= k - 1
    BY <1>3, <1>7
  <2> QED
    BY <1>3, <1>5, <1>6, <1>8, <2>1, LastOfIs
<1>12. Supported(k)
  BY <1>3, <1>9, <1>10, <1>11 DEF Supported
<1>13. BestAfter(k) = log[k - 2].detail
  BY <1>3, <1>10 DEF BestAfter
<1> QED
  BY <1>2, <1>3, <1>9, <1>10, <1>11, <1>12, <1>13 DEF rev

\* The baseline that the verification finds is the second result.
LEMMA RequalifiedIs ==
  ASSUME CampaignTypeOK, OpeningInv
  PROVE  Requalified = IF Qualified THEN log[2].detail ELSE None
<1> DEFINE found == {i \in Steps({"baseline"}) :
                       log[i].outcome.kind = "measurement" /\ log[i].outcome.valid}
<1>1. Requalified = IF found = {} THEN None ELSE log[Min(found)].detail
  BY Zenon DEF Requalified
<1>2. found \subseteq {2}
  BY DEF OpeningInv, Steps
<1>3. 2 \in found <=> Qualified
  <2>1. Error.kind # "measurement"
    BY DEF Error
  <2> QED
    BY <2>1 DEF Qualified, Valid, Steps
<1>4. Min({2}) = 2
  <2>1. \E x \in {2} : \A y \in {2} : x <= y
    OBVIOUS
  <2>2. Min({2}) \in {2}
    BY <2>1 DEF Min
  <2> QED
    BY <2>2
<1>5. CASE Qualified
  <2>1. found = {2}
    BY <1>2, <1>3, <1>5
  <2> HIDE DEF found
  <2> QED
    BY <1>1, <1>4, <1>5, <2>1
<1>6. CASE ~Qualified
  <2>1. found = {}
    BY <1>2, <1>3, <1>6
  <2> HIDE DEF found
  <2> QED
    BY <1>1, <1>6, <2>1
<1> QED
  BY <1>5, <1>6

\* What a candidate is held against is what the verification holds it against.
LEMMA YardstickIs ==
  ASSUME IInv, FailedInv, CampaignTypeOK, LogInv, OpeningInv, DetailInv, KeepsInv,
         state.phase = "measure"
  PROVE  /\ VerifiedInitial # None /\ BestAfter(LastOf(Keeps)) # None
         /\ \A m : Initial(m) = VerifiedInitial /\ Best(m) = BestAfter(LastOf(Keeps))
<1> DEFINE base == results["baseline"].detail
<1>0. /\ Len(log) \in Nat /\ DOMAIN log = 1 .. Len(log)
      /\ \A x \in Measured : x # None
  <2>1. Len(log) \in Nat /\ DOMAIN log = 1 .. Len(log)
    BY LogFacts
  <2>2. \A x \in Measured : x # None
    BY DEF Measured, None
  <2> QED
    BY <2>1, <2>2
<1>1. Qualified /\ 2 \in DOMAIN log /\ log[2].phase = "baseline" /\ Valid(log[2].outcome)
  BY DEF OpeningInv, Qualified
<1>2. base = log[2].detail /\ base \in Measured
  <2>1. results["baseline"] # None
    BY <1>1 DEF LogInv
  <2>2. /\ results["baseline"].step \in DOMAIN log
        /\ log[results["baseline"].step] = Saved("baseline")
    BY <2>1 DEF LogInv, WorkPhases, CommandPhases
  <2>3. log[results["baseline"].step].phase = "baseline"
    BY <2>2 DEF Saved
  <2>4. results["baseline"].step = 2
    BY <2>2, <2>3 DEF OpeningInv
  <2>5. base = log[2].detail
    BY <2>2, <2>4 DEF Saved
  <2> QED
    BY <1>1, <2>5 DEF DetailInv
<1>3. Requalified = base
  BY <1>1, <1>2, RequalifiedIs
<1> HIDE DEF base
<1>4. VerifiedInitial = IF parent # None /\ parent.initial # None THEN parent.initial ELSE base
  BY <1>3 DEF VerifiedInitial, KnownInitial
<1>5. \A m : Initial(m) = VerifiedInitial
  BY <1>4 DEF Initial, base
<1>6. VerifiedInitial # None
  BY <1>0, <1>2, <1>4
<1> DEFINE inherited == parent # None /\ parent.best # None
<1>7. inherited => parent.initial # None
  BY DEF DetailInv
<1>8. StartingBest = IF ~inherited THEN VerifiedInitial
                     ELSE IF base.h1 > parent.best.h1 THEN base ELSE parent.best
  BY <1>0, <1>2, <1>3, <1>7 DEF StartingBest, KnownInitial
<1>9. \A m : Best(m) = IF results["keep"] # None THEN results["keep"].detail
                       ELSE IF inherited /\ base.h1 > parent.best.h1 THEN base
                       ELSE IF inherited THEN parent.best
                       ELSE VerifiedInitial
  BY <1>5 DEF Best, base
<1>10. CASE results["keep"] = None
  <2>1. Keeps = {}
    <3>1. \A i \in DOMAIN log : log[i].phase # "keep"
      BY <1>10 DEF LogInv
    <3> QED
      BY <3>1 DEF Keeps, Steps
  <2>2. BestAfter(LastOf(Keeps)) = StartingBest
    BY <2>1 DEF LastOf, BestAfter
  <2>3. StartingBest # None
    BY <1>0, <1>2, <1>6, <1>8
  <2>4. \A m : Best(m) = StartingBest
    BY <1>8, <1>9, <1>10
  <2> QED
    BY <1>5, <1>6, <2>2, <2>3, <2>4
<1>11. CASE results["keep"] # None
  <2> SUFFICES ASSUME NEW j, j = results["keep"].step
               PROVE  /\ BestAfter(LastOf(Keeps)) # None
                      /\ \A m : Best(m) = BestAfter(LastOf(Keeps))
    BY <1>5, <1>6
  <2>1. j \in DOMAIN log /\ log[j] = Saved("keep")
    BY <1>11 DEF LogInv, WorkPhases, UnlimitedPhases
  <2>2. results["keep"].outcome # Error
    BY <1>11 DEF FailedInv, Ending, WorkPhases, UnlimitedPhases
  <2>3. /\ log[j].phase = "keep" /\ log[j].outcome # Error
        /\ log[j].detail = results["keep"].detail
    BY <2>1, <2>2 DEF Saved
  <2>4. j \in Keeps
    <3>1. log[j].outcome.kind = KindOf("keep")
      BY <2>1, <2>3 DEF LogInv
    <3>2. KindOf("keep") = "kept"
      BY DEF KindOf
    <3> QED
      BY <2>1, <2>3, <3>1, <3>2 DEF Keeps, Steps
  <2>5. \A y \in Keeps : y <= j
    BY <1>11 DEF Keeps, Steps, LogInv
  <2>6. LastOf(Keeps) = j
    BY <1>0, <2>4, <2>5, PickFacts, LastOfIs
  <2>7. BestAfter(j) = log[j - 2].detail /\ log[j].detail = log[j - 2].detail
    BY <2>4, SupportIs DEF KeepsInv
  <2>8. log[j - 2].detail \in Measured
    <3>1. /\ j - 2 \in DOMAIN log /\ log[j - 2].phase = "measure"
          /\ log[j - 2].outcome # Error /\ log[j - 2].outcome.valid
      BY <2>4 DEF KeepsInv, MeasuredAt
    <3>2. log[j - 2].outcome.kind = "measurement"
      BY <3>1 DEF LogInv, KindOf
    <3> QED
      BY <3>1, <3>2 DEF DetailInv, Valid
  <2> QED
    BY <1>0, <1>9, <1>11, <2>3, <2>6, <2>7, <2>8
<1> QED
  BY <1>10, <1>11

\* What a saved result leaves as it was.
LEMMA SavedSupports ==
  ASSUME IInv, CampaignTypeOK, LogInv, OpeningInv, KeepsInv, SaveLogged
  PROVE  /\ \A k \in Keeps \cup {0} : Qualified => BestAfter(k)' = BestAfter(k)
         /\ Qualified => VerifiedInitial' = VerifiedInitial
<1>0. /\ Len(log) \in Nat /\ DOMAIN log = 1 .. Len(log)
      /\ Keeps \in SUBSET (1 .. Len(log))
  BY LogFacts, PickFacts
<1>1. /\ parent' = parent
      /\ Len(log') = Len(log) + 1
      /\ DOMAIN log' = 1 .. Len(log) + 1
      /\ \A i \in DOMAIN log : log'[i] = log[i]
  BY SavedFacts
<1>2. ASSUME NEW k \in 1 .. Len(log)
      PROVE  Support(k, "measure")' = Support(k, "measure")
  <2> DEFINE S(p) == {i \in Steps({"measure"}) :
                        /\ p < i /\ i < k
                        /\ log[i].outcome # Error
                        /\ log[i].outcome.revision = log[k].outcome.revision
                        /\ log[i].outcome.valid}
  <2> SUFFICES ASSUME NEW p, p = PreviousKeep(k)
               PROVE  Support(k, "measure")' = Support(k, "measure")
    OBVIOUS
  <2>1. PreviousKeep(k)' = p
    <3>1. k \in 1 .. Len(log) + 1
      BY <1>0
    <3> QED
      BY <3>1, SavedPicks
  <2>2. Support(k, "measure") = LastOf(S(p))
    BY Zenon DEF Support
  <2>3. Support(k, "measure")' = LastOf(S(p)')
    BY <2>1, Zenon DEF Support
  <2>4. Steps({"measure"}) \subseteq 1 .. Len(log)
    BY PickFacts
  <2>5. /\ Steps({"measure"}) \subseteq Steps({"measure"})'
        /\ Steps({"measure"})' \subseteq Steps({"measure"}) \cup {Len(log) + 1}
    BY SavedPicks
  <2>6. S(p)' = S(p)
    <3>1. ~(Len(log) + 1 < k)
      BY <1>0
    <3> QED
      BY <1>0, <1>1, <2>4, <2>5, <3>1
  <2> HIDE DEF S
  <2> QED
    BY <2>2, <2>3, <2>6
<1>3. Qualified => Qualified' /\ log'[2] = log[2]
  BY <1>0, <1>1 DEF Qualified
<1>4. Qualified => Requalified' = Requalified
  <2>1. Requalified = IF Qualified THEN log[2].detail ELSE None
    BY RequalifiedIs
  <2>2. CampaignTypeOK' /\ OpeningInv'
    <3>1. [CampaignNext]_campaignVars /\ ~StartChild
      <4>1. pc = "performed"
        BY SavedFacts
      <4> QED
        BY <4>1, Zenon DEF CampaignNext, StartChild, Terminal
    <3> QED
      BY <3>1, CampaignTypeStep, OpeningStep
  <2>4. (CampaignTypeOK /\ OpeningInv
           => Requalified = IF Qualified THEN log[2].detail ELSE None)'
    BY RequalifiedIs, PTL
  <2> QED
    BY <1>3, <2>1, <2>2, <2>4
<1>5. Qualified => VerifiedInitial' = VerifiedInitial
  BY <1>1, <1>4 DEF VerifiedInitial, KnownInitial
<1>6. Qualified => StartingBest' = StartingBest
  BY <1>1, <1>4, <1>5 DEF StartingBest, KnownInitial
<1>7. ASSUME NEW k \in Keeps, Qualified PROVE BestAfter(k)' = BestAfter(k)
  <2>1. Support(k, "measure")' = Support(k, "measure")
    BY <1>0, <1>2
  <2>2. k # 0 /\ Support(k, "measure") \in DOMAIN log
    BY <1>0, SupportIs
  <2> QED
    BY <1>1, <2>1, <2>2 DEF BestAfter
<1>8. Qualified => BestAfter(0)' = BestAfter(0)
  BY <1>6 DEF BestAfter
<1> QED
  BY <1>5, <1>7, <1>8

\* What is saved of a candidate compares it to the best one.
LEMMA ComparedStep ==
  ASSUME IInv, FailedInv, CampaignTypeOK, LogInv, OpeningInv, DetailInv, KeepsInv,
         ComparedInv, [CampaignNext]_campaignVars, ~StartChild
  PROVE  ComparedInv'
<1>0. /\ Len(log) \in Nat /\ DOMAIN log = 1 .. Len(log)
      /\ Keeps \in SUBSET (1 .. Len(log))
  BY LogFacts, PickFacts
<1>1. CASE SaveLogged
  <2> SUFFICES ASSUME NEW i \in Steps({"measure"})', Valid(log'[i].outcome),
                      NEW p, p = PreviousKeep(i)
               PROVE  Compares(log'[i].outcome, VerifiedInitial', BestAfter(PreviousKeep(i))',
                               log'[i].detail)
    BY DEF ComparedInv, Valid
  <2>1. /\ \A x \in DOMAIN log : log'[x] = log[x]
        /\ pc = "performed" /\ Taken = Len(log)
        /\ log'[Len(log) + 1].phase = state.phase
        /\ log'[Len(log) + 1].outcome \in {effect.outcome, Error}
        /\ log'[Len(log) + 1].detail = effect.detail
    BY <1>1, SavedFacts
  <2>2. /\ Steps({"measure"})' = IF state.phase = "measure"
                                 THEN Steps({"measure"}) \cup {Len(log) + 1}
                                 ELSE Steps({"measure"})
        /\ \A k \in 1 .. Len(log) + 1 : PreviousKeep(k)' = PreviousKeep(k)
        /\ PreviousKeep(Len(log) + 1) = LastOf(Keeps)
    <3>1. \A ps : Steps(ps)' = IF state.phase \in ps THEN Steps(ps) \cup {Len(log) + 1}
                               ELSE Steps(ps)
      BY <1>1, SavedPicks
    <3> QED
      BY <1>1, <3>1, SavedPicks
  <2>3. Steps({"measure"}) \subseteq DOMAIN log
    BY DEF Steps
  <2>4. i \in 1 .. Len(log) + 1
    BY <1>0, <2>2, <2>3
  <2>5. p \in Keeps \cup {0}
    BY PickFacts
  <2>6. BestAfter(PreviousKeep(i))' = BestAfter(p)'
    BY <2>2, <2>4 DEF BestAfter
  <2>7. Qualified
    <3>1. CASE i \in DOMAIN log
      <4>1. log'[i] = log[i] /\ log[i].phase = "measure"
        BY <2>1, <3>1 DEF Steps
      <4> QED
        BY <3>1, <4>1 DEF OpeningInv
    <3>2. CASE i \notin DOMAIN log
      <4>1. state.phase = "measure"
        BY <2>2, <2>3, <3>2
      <4> QED
        BY <4>1 DEF OpeningInv
    <3> QED
      BY <3>1, <3>2
  <2>8. BestAfter(p)' = BestAfter(p) /\ VerifiedInitial' = VerifiedInitial
    BY <1>1, <2>5, <2>7, SavedSupports
  <2>9. CASE i \in DOMAIN log
    <3>1. log'[i] = log[i] /\ i \in Steps({"measure"})
      BY <2>1, <2>9 DEF Steps
    <3>2. Compares(log[i].outcome, VerifiedInitial, BestAfter(PreviousKeep(i)), log[i].detail)
      BY <3>1 DEF ComparedInv, Valid
    <3> QED
      BY <2>6, <2>8, <3>1, <3>2
  <2>10. CASE i \notin DOMAIN log
    <3>1. i = Len(log) + 1 /\ state.phase = "measure" /\ p = LastOf(Keeps)
      BY <2>2, <2>3, <2>10
    <3>2. log'[i].outcome = effect.outcome /\ log'[i].detail = effect.detail
      <4>1. ~Valid(Error)
        BY DEF Valid
      <4> QED
        BY <2>1, <3>1, <4>1
    <3>3. effect.outcome = Verdict(effect.detail)
      BY <2>1, <3>2 DEF DetailInv
    <3>4. /\ VerifiedInitial # None /\ BestAfter(p) # None
          /\ Initial(effect.detail) = VerifiedInitial /\ Best(effect.detail) = BestAfter(p)
      BY <3>1, YardstickIs
    <3>5. /\ Verdict(effect.detail).improved
                = assessCandidate(VerifiedInitial, BestAfter(p), effect.detail).improved
          /\ Verdict(effect.detail).targetMet
                = assessCandidate(VerifiedInitial, BestAfter(p), effect.detail).targetMet
      BY <3>4, Zenon DEF Verdict
    <3> QED
      BY <2>6, <2>8, <3>2, <3>3, <3>4, <3>5 DEF Compares
  <2> QED
    BY <2>9, <2>10
<1>2. CASE UNCHANGED <<log, parent>>
  <2>1. Steps({"measure"})' = Steps({"measure"}) /\ VerifiedInitial' = VerifiedInitial
    BY <1>2 DEF Steps, VerifiedInitial, KnownInitial, Requalified
  <2>2. \A i : BestAfter(PreviousKeep(i))' = BestAfter(PreviousKeep(i))
    BY <1>2, <2>1 DEF BestAfter, PreviousKeep, StartingBest, Support, Keeps, Steps,
                      KnownInitial, Requalified
  <2> QED
    BY <1>2, <2>1, <2>2 DEF ComparedInv, Valid
<1> QED
  <2>1. ~SaveLogged => UNCHANGED <<log, parent>>
    BY QuietFacts, CampaignSteps
  <2> QED
    BY <1>1, <1>2, <2>1

-------------------------------------------------------------------------------
(* The results lead from the origin of the run to its state.               *)

\* Before the time limit, beginning a step does not look at the time.
LEMMA BeginTimeless ==
  ASSUME NEW s \in RunStates(Revisions), NEW t \in Nat, t < MaxDuration
  PROVE  AtTime(beginSavedStep(s, t), 0) = beginSavedStep(AtTime(s, 0), 0)
<1>1. ASSUME NEW q \in RunStates(Revisions)
      PROVE  /\ checkLimits(q, t) = checkLimits(AtTime(q, 0), 0)
             /\ AtTime(WrapUp(q, t), 0) = WrapUp(AtTime(q, 0), 0)
             /\ AtTime(Reserve(q, t), 0) = Reserve(AtTime(q, 0), 0)
  <2>1. /\ AtTime(q, 0).phase = q.phase /\ AtTime(q, 0).attemptsStarted = q.attemptsStarted
        /\ AtTime(q, 0).repairsThisAttempt = q.repairsThisAttempt
        /\ AtTime(q, 0).piCallsStarted = q.piCallsStarted
    BY DEF AtTime, RunStates
  <2>2. ~(t >= MaxDuration) /\ ~(0 >= MaxDuration)
    BY LimitsAssumption
  <2>3. checkLimits(q, t) = checkLimits(AtTime(q, 0), 0)
    BY <2>1, <2>2 DEF checkLimits
  <2>4. AtTime(WrapUp(q, t), 0) = WrapUp(AtTime(q, 0), 0)
    BY <2>3 DEF WrapUp, AtTime, RunStates
  <2>5. AtTime(Reserve(q, t), 0) = Reserve(AtTime(q, 0), 0)
    BY DEF Reserve, AtTime, RunStates
  <2> QED
    BY <2>3, <2>4, <2>5
<1>2. ASSUME NEW q \in RunStates(Revisions)
      PROVE  /\ beginStep(q, t) \in RunStates(Revisions)
             /\ AtTime(beginStep(q, t), 0) = beginStep(AtTime(q, 0), 0)
  <2>1. CASE checkLimits(q, t) = {}
    <3>1. beginStep(q, t) = Reserve(q, t) /\ beginStep(AtTime(q, 0), 0) = Reserve(AtTime(q, 0), 0)
      BY <1>1, <2>1 DEF beginStep
    <3> QED
      BY <1>1, <3>1, ReserveFacts
  <2>2. CASE checkLimits(q, t) # {}
    <3>1. beginStep(q, t) = WrapUp(q, t) /\ beginStep(AtTime(q, 0), 0) = WrapUp(AtTime(q, 0), 0)
      BY <1>1, <2>2 DEF beginStep
    <3> QED
      BY <1>1, <2>2, <3>1, WrapUpFacts
  <2> QED
    BY <2>1, <2>2
<1> DEFINE first == beginStep(s, t)
<1>3. /\ first \in RunStates(Revisions) /\ AtTime(first, 0) = beginStep(AtTime(s, 0), 0)
      /\ AtTime(beginStep(first, t), 0) = beginStep(AtTime(first, 0), 0)
  BY <1>2
<1>4. beginSavedStep(s, t) = IF first.activeStep = 0 THEN beginStep(first, t) ELSE first
  BY DEF beginSavedStep
<1>5. beginSavedStep(AtTime(s, 0), 0)
        = IF AtTime(first, 0).activeStep = 0 THEN beginStep(AtTime(first, 0), 0) ELSE AtTime(first, 0)
  BY <1>3 DEF beginSavedStep
<1> HIDE DEF first
<1>6. AtTime(first, 0).activeStep = first.activeStep
  BY <1>3 DEF AtTime, RunStates
<1> QED
  BY <1>3, <1>4, <1>5, <1>6

\* What a state is whatever the time.
LEMMA AtFacts ==
  ASSUME NEW s \in RunStates(Revisions), NEW t \in Nat
  PROVE  /\ AtTime(s, t) \in RunStates(Revisions)
         /\ AtTime(s, t).phase = s.phase /\ AtTime(s, t).activeStep = s.activeStep
         /\ AtTime(s, t).sequence = s.sequence /\ AtTime(s, t).elapsed = t
         /\ AtTime(s, t).workingRevision = s.workingRevision
         /\ AtTime(s, t).bestRevision = s.bestRevision
         /\ AtTime(s, t).targetMet = s.targetMet
         /\ \A step, o : MayFinish(AtTime(s, t), step, o) <=> MayFinish(s, step, o)
         /\ \A u \in Nat : AtTime(AtTime(s, t), u) = AtTime(s, u)
<1>1. /\ AtTime(s, t) \in RunStates(Revisions)
      /\ AtTime(s, t).phase = s.phase /\ AtTime(s, t).activeStep = s.activeStep
      /\ AtTime(s, t).sequence = s.sequence /\ AtTime(s, t).elapsed = t
      /\ AtTime(s, t).workingRevision = s.workingRevision
      /\ AtTime(s, t).bestRevision = s.bestRevision
      /\ AtTime(s, t).targetMet = s.targetMet
  BY DEF AtTime, RunStates
<1>2. \A u \in Nat : AtTime(AtTime(s, t), u) = AtTime(s, u)
  BY DEF AtTime, RunStates
<1>3. \A step, o : MayFinish(AtTime(s, t), step, o) <=> MayFinish(s, step, o)
  BY <1>1 DEF MayFinish
<1> QED
  BY <1>1, <1>2, <1>3

\* The results still lead there.
LEMMA TrackStep ==
  ASSUME IInv, CampaignTypeOK, LogInv, BudgetInv, TrackInv,
         [CampaignNext]_campaignVars, ~StartChild
  PROVE  TrackInv'
<1> SUFFICES ASSUME state'.elapsed < MaxDuration
             PROVE  \E h : /\ TrackOf(h)'
                           /\ ~Active' => AtTime(state', 0) = h[Len(log')]
                           /\ Active' => /\ AtTime(state', 0) = beginSavedStep(h[Taken'], 0)
                                         /\ h[Taken'].phase # "done"
                                         /\ h[Taken'].activeStep = 0
  BY DEF TrackInv
<1>0. /\ Len(log) \in Nat /\ DOMAIN log = 1 .. Len(log)
      /\ Taken \in 0 .. Len(log) /\ state \in RunStates(Revisions)
      /\ state.elapsed \in Nat /\ MaxDuration \in Nat
      /\ Origin' = Origin
  BY LogFacts, TakenFacts, OriginSame, LimitsAssumption DEF IInv, TypeInv, TypeOK, RunStates
<1>a. ASSUME UNCHANGED log, NEW h, TrackOf(h) PROVE TrackOf(h)'
  BY <1>0, <1>a DEF TrackOf
<1>1. CASE BeginCounted
  <2>1. /\ ~Active /\ Active' /\ UNCHANGED log /\ Taken' = Taken
    BY <1>1, QuietFacts
  <2>2. Len(log) = Taken
    BY <2>1, TakenFacts DEF Pending
  <2>3. PICK t \in state.elapsed .. MaxDuration : state' = beginSavedStep(state, t)
    BY <1>1 DEF BeginCounted, BeginStep
  <2>4. t \in Nat /\ state.elapsed <= t /\ state'.elapsed = t
    <3>1. /\ t \in Nat /\ state.elapsed <= t
          /\ state.attemptsStarted <= MaxAttempts /\ state.piCallsStarted <= MaxPiCalls
          /\ state.activeStep = 0
      BY <1>0, <2>1 DEF BudgetInv, Active
    <3> QED
      BY <1>0, <2>3, <3>1, BeginCounts
  <2>5. t < MaxDuration /\ state.elapsed < MaxDuration
    BY <1>0, <2>4
  <2>6. PICK h : TrackOf(h) /\ AtTime(state, 0) = h[Len(log)]
    BY <2>1, <2>5 DEF TrackInv
  <2>7. AtTime(state', 0) = beginSavedStep(h[Taken], 0)
    BY <1>0, <2>2, <2>3, <2>4, <2>5, <2>6, BeginTimeless
  <2>8. h[Taken].phase # "done" /\ h[Taken].activeStep = 0
    <3>1. state.phase # "done" /\ state.activeStep = 0
      BY <1>1, <2>1 DEF BeginCounted, BeginStep, Active
    <3> QED
      BY <1>0, <2>2, <2>6, <3>1, AtFacts
  <2>9. TrackOf(h)'
    BY <1>a, <2>1, <2>6
  <2> QED
    BY <2>1, <2>7, <2>8, <2>9
<1>2. CASE SaveLogged
  <2>1. /\ state' = state /\ Active /\ Taken = Len(log) /\ Taken' = Taken
        /\ Len(log') = Len(log) + 1 /\ DOMAIN log' = 1 .. Len(log) + 1
        /\ \A i \in DOMAIN log : log'[i] = log[i]
    BY <1>2, SavedFacts
  <2>2. PICK e \in LogEntries :
          /\ log'[Len(log) + 1] = e
          /\ e.phase = state.phase /\ e.step = Len(log) + 1
          /\ state.sequence = Len(log) + 1
          /\ e.revision = state.workingRevision
          /\ MayFinish(state, state.sequence, e.outcome)
    BY <1>2, SavedFacts
  <2>3. PICK h : /\ TrackOf(h)
                 /\ AtTime(state, 0) = beginSavedStep(h[Taken], 0)
                 /\ h[Taken].phase # "done" /\ h[Taken].activeStep = 0
    BY <2>1 DEF TrackInv
  <2> DEFINE n == Len(log) + 1
             s == AtTime(state, 0)
             b == finishStep(s, e.outcome)
             g == [i \in 0 .. n |-> IF i = n THEN b ELSE h[i]]
  <2>4. s \in RunStates(Revisions) /\ MayFinish(s, s.sequence, e.outcome)
        /\ s.phase = state.phase /\ s.sequence = n /\ s.elapsed = 0
        /\ s.workingRevision = state.workingRevision
    BY <1>0, <2>2, AtFacts
  <2>5. b \in RunStates(Revisions) /\ b.elapsed = 0
    <3>1. e.outcome \in Outcomes(Revisions)
      BY DEF LogEntries
    <3> QED
      BY <2>4, <3>1, FinishFacts, FinishTimeless
  <2>6. Follows(h[n - 1], e, b)
    <3>1. n - 1 = Taken
      BY <1>0, <2>1
    <3>2. beginSavedStep(h[n - 1], 0) = s
      BY <2>3, <3>1
    <3> HIDE DEF s, b, n
    <3> QED
      BY <2>2, <2>3, <2>4, <3>1, <3>2 DEF Follows, b, n
  <2>7. h \in [0 .. Len(log) -> RunStates(Revisions)] /\ h[0] = Origin
        /\ (\A i \in DOMAIN log : Follows(h[i - 1], log[i], h[i]))
        /\ \A i \in 0 .. Len(log) : h[i].elapsed = 0
    BY <2>3 DEF TrackOf
  <2>8. n \in Nat /\ n # 0 /\ n - 1 = Len(log) /\ Len(log') = n
        /\ DOMAIN log' = 1 .. n /\ log'[n] = e
        /\ (\A i \in 0 .. n : i = n \/ i \in 0 .. Len(log))
        /\ \A i \in 1 .. n : i = n \/ (i \in DOMAIN log /\ i # n /\ i - 1 # n)
    BY <1>0, <2>1, <2>2
  <2> HIDE DEF n, s, b
  <2>9. PICK k \in [0 .. n -> RunStates(Revisions)] :
          k[n] = b /\ \A i \in 0 .. Len(log) : k[i] = h[i]
    <3>1. g \in [0 .. n -> RunStates(Revisions)]
      BY <2>5, <2>7, <2>8
    <3>2. g[n] = b /\ \A i \in 0 .. Len(log) : g[i] = h[i]
      BY <1>0, <2>8
    <3> HIDE DEF g
    <3> QED
      BY <3>1, <3>2
  <2>10. TrackOf(k)'
    <3>1. k[0] = Origin' /\ \A i \in 0 .. n : k[i].elapsed = 0
      BY <1>0, <2>5, <2>7, <2>8, <2>9
    <3>2. ASSUME NEW i \in 1 .. n PROVE Follows(k[i - 1], log'[i], k[i])
      <4>1. CASE i = n
        <5>1. k[i - 1] = h[n - 1]
          BY <1>0, <2>8, <2>9, <4>1
        <5> QED
          BY <2>6, <2>8, <2>9, <4>1, <5>1
      <4>2. CASE i \in DOMAIN log
        <5>1. i \in 0 .. Len(log) /\ i - 1 \in 0 .. Len(log) /\ log'[i] = log[i]
          BY <1>0, <2>1, <4>2
        <5> QED
          BY <2>7, <2>9, <4>2, <5>1
      <4> QED
        BY <2>8, <4>1, <4>2
    <3> QED
      BY <2>8, <2>9, <3>1, <3>2 DEF TrackOf
  <2>11. k[Taken'] = h[Taken] /\ Active'
    BY <1>0, <2>1, <2>9 DEF Active
  <2> QED
    BY <2>1, <2>3, <2>10, <2>11
<1>3. CASE (Advance \/ Recover) /\ UNCHANGED <<log, runs, spent>>
  <2> SUFFICES ASSUME NEW n, n = Taken + 1, NEW o, o = results[state.phase].outcome
               PROVE  \E h : /\ TrackOf(h)'
                             /\ ~Active' => AtTime(state', 0) = h[Len(log')]
                             /\ Active' => /\ AtTime(state', 0) = beginSavedStep(h[Taken'], 0)
                                           /\ h[Taken'].phase # "done"
                                           /\ h[Taken'].activeStep = 0
    OBVIOUS
  <2>0. Advance \/ Recover
    BY <1>3
  <2>1. /\ Active /\ ~Active' /\ UNCHANGED log
        /\ MayFinish(state, state.sequence, o)
        /\ state' = finishStep(state, o)
    <3>1. /\ Active /\ ~Active'
          /\ MayFinish(state, state.sequence, results[state.phase].outcome)
          /\ state' = finishStep(state, results[state.phase].outcome)
      BY <2>0, QuietFacts, ZenonT(30)
    <3>2. UNCHANGED log
      BY <1>3
    <3> QED
      BY <3>1, <3>2, Zenon
  <2>2. n \in DOMAIN log /\ n = Len(log) /\ log[n].outcome = o /\ n - 1 = Taken
    <3>1. n \in DOMAIN log /\ n = Len(log) /\ log[n].outcome = o
      BY <1>3, AdvanceEntry, Zenon
    <3>2. Taken \in Nat
      BY <1>0
    <3>3. n - 1 = Taken
      BY <3>2
    <3> QED
      BY <3>1, <3>3, Zenon
  <2>3. state'.elapsed = state.elapsed /\ finishStep(AtTime(state, 0), o) = AtTime(state', 0)
    BY <1>0, <2>1, FinishTimeless
  <2>4. PICK h : TrackOf(h) /\ AtTime(state, 0) = beginSavedStep(h[Taken], 0)
    BY <2>1, <2>3 DEF TrackInv
  <2>5. h[n] = finishStep(beginSavedStep(h[n - 1], 0), o)
    BY <2>2, <2>4 DEF TrackOf, Follows
  <2>6. h[n] = AtTime(state', 0)
    BY <2>2, <2>3, <2>4, <2>5
  <2>7. TrackOf(h)'
    BY <1>a, <2>1, <2>4
  <2> QED
    BY <2>1, <2>2, <2>6, <2>7
<1>4. CASE (performLiveStep \/ Others) /\ UNCHANGED <<log, runs, spent>>
  <2>1. UNCHANGED <<state, log>>
    BY <1>4, QuietFacts
  <2>2. Taken' = Taken /\ Active' = Active
    BY <2>1 DEF Taken, Active
  <2>3. PICK h : /\ TrackOf(h)
                 /\ ~Active => AtTime(state, 0) = h[Len(log)]
                 /\ Active => /\ AtTime(state, 0) = beginSavedStep(h[Taken], 0)
                              /\ h[Taken].phase # "done" /\ h[Taken].activeStep = 0
    BY <2>1 DEF TrackInv
  <2>4. TrackOf(h)'
    BY <1>a, <2>1, <2>3
  <2> QED
    BY <2>1, <2>2, <2>3, <2>4
<1> QED
  BY <1>1, <1>2, <1>3, <1>4, CampaignSteps

-------------------------------------------------------------------------------
(* The evidence, and the run that starts from it.                          *)

\* The measurements that the verification finds are some.
LEMMA FoundFacts ==
  ASSUME TypeInv, CampaignTypeOK, LogInv, OpeningInv, DetailInv, KeepsInv
  PROVE  /\ KnownInitial \in Measured \cup {None}
         /\ Requalified \in Measured \cup {None}
         /\ Qualified => Requalified \in Measured
         /\ VerifiedInitial \in Measured \cup {None}
         /\ StartingBest \in Measured \cup {None}
         /\ \A k \in Keeps : BestAfter(k) \in Measured /\ Qualified
         /\ BestAfter(LastOf(Keeps)) \in Measured \cup {None}
         /\ BestAfter(LastOf(Keeps)) # None => VerifiedInitial # None
         /\ Qualified => VerifiedInitial # None
         /\ \A x \in Measured : x # None
<1>1. \A x \in Measured : x # None
  BY DEF Measured, None
<1>2. parent # None => parent.initial \in Measured \cup {None} /\ parent.best \in Measured \cup {None}
  BY DEF TypeInv, TypeOK, Parents
<1>3. KnownInitial \in Measured \cup {None}
  BY <1>2 DEF KnownInitial
<1>4. /\ Requalified \in Measured \cup {None}
      /\ Qualified => Requalified \in Measured
  <2>1. Qualified => log[2].detail \in Measured
    BY DEF Qualified, DetailInv
  <2> QED
    BY <2>1, RequalifiedIs
<1>5. /\ VerifiedInitial \in Measured \cup {None}
      /\ Qualified => VerifiedInitial # None
      /\ KnownInitial # None => VerifiedInitial # None
  BY <1>1, <1>3, <1>4 DEF VerifiedInitial
<1>6. StartingBest \in Measured \cup {None}
  BY <1>2, <1>4, <1>5 DEF StartingBest
<1>7. StartingBest # None => VerifiedInitial # None
  <2>1. (parent # None /\ parent.best # None) => KnownInitial # None
    BY DEF DetailInv, KnownInitial
  <2> QED
    BY <1>5, <2>1 DEF StartingBest
<1>8. ASSUME NEW k \in Keeps PROVE BestAfter(k) \in Measured /\ Qualified
  <2>1. /\ BestAfter(k) = log[k - 2].detail
        /\ log[k - 2].phase = "measure" /\ log[k - 2].outcome # Error
        /\ log[k - 2].outcome.valid
    BY SupportIs
  <2>2. k - 2 \in DOMAIN log
    BY DEF KeepsInv, MeasuredAt
  <2>3. log[k - 2].outcome.kind = "measurement"
    BY <2>1, <2>2 DEF LogInv, KindOf
  <2>4. log[k - 2].detail \in Measured
    BY <2>1, <2>2, <2>3 DEF DetailInv, Valid
  <2>5. Qualified
    BY <2>1, <2>2 DEF OpeningInv
  <2> QED
    BY <2>1, <2>4, <2>5
<1>9. /\ BestAfter(LastOf(Keeps)) \in Measured \cup {None}
      /\ BestAfter(LastOf(Keeps)) # None => VerifiedInitial # None
  <2>1. CASE LastOf(Keeps) = 0
    <3>1. BestAfter(LastOf(Keeps)) = StartingBest
      BY <2>1 DEF BestAfter
    <3> QED
      BY <1>6, <1>7, <3>1
  <2>2. CASE LastOf(Keeps) # 0
    <3>1. LastOf(Keeps) \in Keeps
      BY <2>2, PickFacts
    <3> QED
      BY <1>5, <1>8, <3>1
  <2> QED
    BY <2>1, <2>2
<1> QED
  BY <1>1, <1>3, <1>4, <1>5, <1>6, <1>8, <1>9

\* The evidence of a run that stands still counts what the run has counted.
LEMMA EvidenceFacts ==
  ASSUME IInv, CampaignTypeOK, LogInv, BudgetInv, OpeningInv, DetailInv, KeepsInv
  PROVE  /\ Terminal => /\ Evidence.attemptsStarted = state.attemptsStarted
                        /\ Evidence.piCallsStarted = state.piCallsStarted
                        /\ ReservationsMatch
         /\ Terminal => Evidence \in Parents
         /\ Evidence # None
         /\ Evidence.best # None => Evidence.initial # None
         /\ Evidence.initial = VerifiedInitial /\ Evidence.best = BestAfter(LastOf(Keeps))
         /\ Evidence.bestRevision = state.bestRevision
<1>0. /\ state.bestRevision \in Revisions /\ state.initialRevision \in Revisions
      /\ state.attemptsStarted \in Nat /\ state.piCallsStarted \in Nat
  BY DEF IInv, TypeInv, TypeOK, RunStates
<1>1. /\ Evidence.initial = VerifiedInitial /\ Evidence.best = BestAfter(LastOf(Keeps))
      /\ Evidence.bestRevision = state.bestRevision
      /\ Evidence.attemptsStarted = Reserved("attemptsStarted", {"start-attempt"})
      /\ Evidence.piCallsStarted = Reserved("piCallsStarted", inferencePhases)
  BY DEF Evidence
<1>2. ASSUME Terminal
      PROVE  /\ Reserved("attemptsStarted", {"start-attempt"}) = state.attemptsStarted
             /\ Reserved("piCallsStarted", inferencePhases) = state.piCallsStarted
  <2>1. Active => ~StepSaved
    BY <1>2 DEF Terminal
  <2>2. \A ps : Counting(ps) = IF Active /\ state.phase \in ps THEN 1 ELSE 0
    BY <2>1 DEF Counting
  <2> QED
    BY <2>2 DEF BudgetInv, Reserved
<1>3. ASSUME Terminal PROVE ReservationsMatch
  BY <1>2, <1>3 DEF ReservationsMatch, BudgetInv
<1>4. /\ VerifiedInitial \in Measured \cup {None}
      /\ BestAfter(LastOf(Keeps)) \in Measured \cup {None}
      /\ BestAfter(LastOf(Keeps)) # None => VerifiedInitial # None
  BY FoundFacts DEF IInv
<1>5. ASSUME Terminal PROVE Evidence \in Parents
  BY <1>0, <1>2, <1>4, <1>5 DEF Evidence, Parents
<1>6. Evidence # None
  BY DEF Evidence, None
<1> QED
  BY <1>1, <1>2, <1>3, <1>4, <1>5, <1>6

\* The state in which a run begins that carries on from p.
LEMMA StartedFacts ==
  ASSUME NEW p \in Parents, NEW t \in Nat
  PROVE  LET s == Started(p)
             r == [s EXCEPT !.elapsed = t] IN
         /\ s \in RunStates(Revisions) /\ r \in RunStates(Revisions)
         /\ s.elapsed = 0 /\ r.elapsed = t /\ AtTime(r, 0) = s
         /\ r.phase = "prepare" /\ r.activeStep = 0 /\ r.sequence = 0
         /\ r.bestRevision = p.bestRevision /\ r.workingRevision = p.bestRevision
         /\ s.bestRevision = p.bestRevision
         /\ r.attemptsStarted = p.attemptsStarted /\ r.piCallsStarted = p.piCallsStarted
         /\ r.stopReason = "none" /\ ~r.targetMet
<1>1. /\ p.bestRevision \in Revisions /\ p.attemptsStarted \in Nat /\ p.piCallsStarted \in Nat
      /\ p.initial # None => p.initial.revision \in Revisions
  BY DEF Parents, Measured
<1> DEFINE i == IF p.initial # None THEN p.initial.revision ELSE p.bestRevision
<1>2. i \in Revisions
  BY <1>1
<1>3. Started(p) = [newRun(p.bestRevision) EXCEPT !.initialRevision = i,
                       !.attemptsStarted = p.attemptsStarted,
                       !.piCallsStarted = p.piCallsStarted]
  BY Zenon DEF Started
<1> HIDE DEF i
<1>4. newRun(p.bestRevision) \in RunStates(Revisions)
  BY <1>1 DEF newRun, RunStates, Phases, WorkPhases, CommandPhases, StopReasons
<1>5. Started(p) \in RunStates(Revisions)
  BY <1>1, <1>2, <1>3, <1>4 DEF RunStates
<1>6. /\ Started(p).elapsed = 0 /\ Started(p).phase = "prepare" /\ Started(p).activeStep = 0
      /\ Started(p).sequence = 0 /\ Started(p).bestRevision = p.bestRevision
      /\ Started(p).workingRevision = p.bestRevision
      /\ Started(p).attemptsStarted = p.attemptsStarted
      /\ Started(p).piCallsStarted = p.piCallsStarted
      /\ Started(p).stopReason = "none" /\ ~Started(p).targetMet
  BY <1>3 DEF newRun
<1> DEFINE s == Started(p)
<1>7. s \in RunStates(Revisions) /\ s.elapsed = 0
  BY <1>5, <1>6
<1>8. /\ s.phase = "prepare" /\ s.activeStep = 0
      /\ s.sequence = 0 /\ s.bestRevision = p.bestRevision
      /\ s.workingRevision = p.bestRevision
      /\ s.attemptsStarted = p.attemptsStarted
      /\ s.piCallsStarted = p.piCallsStarted
      /\ s.stopReason = "none" /\ ~s.targetMet
  BY <1>6
<1> HIDE DEF s
<1> DEFINE r == [s EXCEPT !.elapsed = t]
<1>9. /\ r \in RunStates(Revisions) /\ r.elapsed = t /\ AtTime(r, 0) = s
  BY <1>7 DEF RunStates, AtTime
<1>10. /\ r.phase = s.phase /\ r.activeStep = s.activeStep /\ r.sequence = s.sequence
       /\ r.bestRevision = s.bestRevision /\ r.workingRevision = s.workingRevision
       /\ r.attemptsStarted = s.attemptsStarted /\ r.piCallsStarted = s.piCallsStarted
       /\ r.stopReason = s.stopReason /\ r.targetMet = s.targetMet
  BY <1>7 DEF RunStates
<1> HIDE DEF r
<1> QED
  BY <1>7, <1>8, <1>9, <1>10 DEF s, r

\* The start of a run from the evidence of another satisfies the invariant.
LEMMA ChildStep ==
  ASSUME CampaignInv, StartChild
  PROVE  CampaignInv'
<1> USE DEF CampaignInv
<1> SUFFICES ASSUME NEW p, p = Evidence PROVE CampaignInv'
  OBVIOUS
<1>1. /\ Terminal /\ parent' = p /\ runs < MaxRuns /\ runs' = runs + 1
      /\ log' = <<>> /\ results' = [q \in WorkPhases |-> None] /\ report' = None
      /\ pc' = "loop" /\ git' = NoWorktree(git.next) /\ abandoned' = FALSE
      /\ piLogs' = FALSE /\ performed' = 0 /\ UNCHANGED <<effect, units, spent>>
  BY DEF StartChild
<1>2. PICK now \in state.elapsed .. MaxDuration - 1 :
        state' = [Started(p) EXCEPT !.elapsed = now]
  BY DEF StartChild
<1>3. /\ p \in Parents /\ p # None
      /\ p.attemptsStarted = state.attemptsStarted
      /\ p.piCallsStarted = state.piCallsStarted
      /\ p.best # None => p.initial # None
      /\ p.bestRevision = state.bestRevision
  BY <1>1, EvidenceFacts
<1>4. now \in Nat /\ units = {} /\ git.next \in Revisions
  BY <1>1, LimitsAssumption DEF IInv, TypeInv, TypeOK, RunStates, Terminal
<1>5. /\ Started(p) \in RunStates(Revisions) /\ state' \in RunStates(Revisions)
      /\ Started(p).elapsed = 0 /\ AtTime(state', 0) = Started(p)
      /\ state'.phase = "prepare" /\ state'.activeStep = 0 /\ state'.sequence = 0
      /\ state'.bestRevision = p.bestRevision /\ state'.workingRevision = p.bestRevision
      /\ Started(p).bestRevision = p.bestRevision
      /\ state'.attemptsStarted = p.attemptsStarted
      /\ state'.piCallsStarted = p.piCallsStarted
      /\ state'.stopReason = "none" /\ ~state'.targetMet
  BY <1>2, <1>3, <1>4, StartedFacts
<1>6. /\ git' \in GitStates /\ git'.worktree = "absent" /\ ~git'.dirty
  BY <1>1, <1>4 DEF NoWorktree, GitStates
<1>7. IInv'
  <2>1. TypeInv'
    <3>1. effect' \in Effects \cup {None} /\ units' \subseteq Units
      BY <1>1 DEF IInv, TypeInv, TypeOK
    <3> QED
      BY <1>1, <1>3, <1>5, <1>6, <3>1 DEF TypeInv, TypeOK, GitStates
  <2>2. StepInv' /\ SequenceInv'
    BY <1>1, <1>5 DEF StepInv, SequenceInv, Working, Active
  <2>3. GateInv'
    BY <1>1, <1>5 DEF GateInv, IInv
  <2>4. GitInv'
    BY <1>1, <1>5, <1>6 DEF GitInv, Lands, Refs, Active
  <2>5. UnitsInv'
    BY <1>1, <1>4, <1>5 DEF UnitsInv, Active, Ending
  <2> QED
    BY <2>1, <2>2, <2>3, <2>4, <2>5 DEF IInv
<1>8. ~Active' /\ Taken' = 0 /\ Len(log') = 0 /\ DOMAIN log' = {} /\ parent' # None
  BY <1>1, <1>3, <1>5 DEF Active, Taken
<1>9. FailedInv'
  BY <1>1, <1>5 DEF FailedInv
<1>10. CampaignTypeOK'
  <2>1. TypeOK'
    BY <1>7 DEF IInv, TypeInv
  <2>2. log' \in Seq(LogEntries)
    BY <1>1
  <2>3. runs' \in 1 .. MaxRuns /\ spent' \in [attempts: Nat, piCalls: Nat]
    BY <1>1, MaxRunsAssumption DEF CampaignTypeOK
  <2> QED
    BY <2>1, <2>2, <2>3 DEF CampaignTypeOK
<1>11. LogInv'
  BY <1>1, <1>5, <1>8 DEF LogInv
<1>12. BudgetInv'
  <2>1. \A ps : Steps(ps)' = {}
    BY <1>8 DEF Steps
  <2>2. Cardinality({}) = 0
    BY FS_EmptySet
  <2>3. \A ps : Counting(ps)' = 0
    BY <1>8 DEF Counting
  <2>4. /\ Carried("attemptsStarted")' = p.attemptsStarted
        /\ Carried("piCallsStarted")' = p.piCallsStarted
    BY <1>1, <1>8 DEF Carried
  <2>5. /\ spent' = [attempts |-> state'.attemptsStarted, piCalls |-> state'.piCallsStarted]
        /\ state'.attemptsStarted <= MaxAttempts /\ state'.piCallsStarted <= MaxPiCalls
    BY <1>1, <1>3, <1>5 DEF BudgetInv
  <2>6. state'.attemptsStarted \in Nat /\ state'.piCallsStarted \in Nat
    BY <1>5 DEF RunStates
  <2>7. /\ Cardinality(Steps({"start-attempt"}))' = 0
        /\ Cardinality(Steps(inferencePhases))' = 0
    BY <2>1, <2>2
  <2> QED
    BY <1>5, <2>3, <2>4, <2>5, <2>6, <2>7 DEF BudgetInv
<1>13. OpeningInv'
  BY <1>5, <1>8 DEF OpeningInv
<1>14. DetailInv'
  BY <1>1, <1>3, <1>8 DEF DetailInv
<1>15. TailInv'
  BY <1>5 DEF TailInv
<1>16. Keeps' = {} /\ Steps({"measure"})' = {}
  BY <1>8 DEF Keeps, Steps
<1>17. KeepsInv' /\ ComparedInv'
  BY <1>16 DEF KeepsInv, ComparedInv
<1>18. Origin' = Started(p)
  BY <1>1, <1>8 DEF Origin
<1>19. BestInv'
  <2>1. KeptSoFar' = {}
    BY <1>16 DEF KeptSoFar
  <2> QED
    BY <1>5, <1>18, <2>1 DEF BestInv
<1>20. TrackInv'
  <2> DEFINE g == [i \in 0 .. 0 |-> Started(p)]
  <2>1. PICK h \in [0 .. 0 -> RunStates(Revisions)] : h[0] = Started(p)
    <3>1. g \in [0 .. 0 -> RunStates(Revisions)] /\ g[0] = Started(p)
      BY <1>5
    <3> HIDE DEF g
    <3> QED
      BY <3>1
  <2>2. \A i \in 0 .. 0 : h[i].elapsed = 0
    BY <1>5, <2>1
  <2>3. TrackOf(h)'
    BY <1>8, <1>18, <2>1, <2>2 DEF TrackOf
  <2> QED
    BY <1>5, <1>8, <2>1, <2>3 DEF TrackInv
<1> QED
  BY <1>7, <1>9, <1>10, <1>11, <1>12, <1>13, <1>14, <1>15, <1>17, <1>19, <1>20

\* So does the first run.
LEMMA InitCampaignInv == CampaignInit => CampaignInv
<1> SUFFICES ASSUME CampaignInit PROVE CampaignInv
  OBVIOUS
<1>1. /\ Init /\ log = <<>> /\ runs = 1 /\ spent = [attempts |-> 0, piCalls |-> 0]
  BY DEF CampaignInit
<1>2. IInv
  BY <1>1, InitIInv
<1>3. /\ state = newRun(1) /\ parent = None /\ pc = "loop"
      /\ results = [q \in WorkPhases |-> None]
  BY <1>1 DEF Init
<1>4. /\ state.phase = "prepare" /\ state.activeStep = 0 /\ state.sequence = 0
      /\ state.stopReason = "none" /\ state.attemptsStarted = 0 /\ state.piCallsStarted = 0
      /\ state.elapsed = 0 /\ state.initialRevision = 1
  BY <1>3 DEF newRun
<1>5. state \in RunStates(Revisions) /\ AtTime(state, 0) = state
  BY <1>2, <1>3 DEF IInv, TypeInv, TypeOK, AtTime, newRun
<1>6. ~Active /\ Taken = 0 /\ Len(log) = 0 /\ DOMAIN log = {}
  BY <1>1, <1>4 DEF Active, Taken
<1>7. FailedInv
  BY <1>3, <1>4 DEF FailedInv
<1>8. CampaignTypeOK
  BY <1>1, <1>2, MaxRunsAssumption DEF CampaignTypeOK, IInv, TypeInv
<1>9. LogInv
  BY <1>3, <1>4, <1>6 DEF LogInv
<1>10. BudgetInv
  <2>1. \A ps : Steps(ps) = {} /\ Counting(ps) = 0
    BY <1>6 DEF Steps, Counting
  <2>2. Cardinality({}) = 0
    BY FS_EmptySet
  <2>3. /\ Carried("attemptsStarted") = 0 /\ Carried("piCallsStarted") = 0
    BY <1>3 DEF Carried
  <2>4. /\ Cardinality(Steps({"start-attempt"})) = 0
        /\ Cardinality(Steps(inferencePhases)) = 0
    BY <2>1, <2>2
  <2> QED
    BY <1>1, <1>4, <2>1, <2>3, <2>4, LimitsAssumption DEF BudgetInv
<1>11. OpeningInv
  BY <1>4, <1>6 DEF OpeningInv
<1>12. DetailInv
  BY <1>3, <1>6 DEF DetailInv
<1>13. TailInv
  BY <1>4 DEF TailInv
<1>14. Keeps = {} /\ Steps({"measure"}) = {}
  BY <1>6 DEF Keeps, Steps
<1>15. KeepsInv /\ ComparedInv
  BY <1>14 DEF KeepsInv, ComparedInv
<1>16. Origin = state
  BY <1>3, <1>4 DEF Origin
<1>17. BestInv
  <2>1. KeptSoFar = {}
    BY <1>14 DEF KeptSoFar
  <2> QED
    BY <1>16, <2>1 DEF BestInv
<1>18. TrackInv
  <2> DEFINE g == [i \in 0 .. 0 |-> state]
  <2>1. PICK h \in [0 .. 0 -> RunStates(Revisions)] : h[0] = state
    <3>1. g \in [0 .. 0 -> RunStates(Revisions)] /\ g[0] = state
      BY <1>5
    <3> HIDE DEF g
    <3> QED
      BY <3>1
  <2>2. \A i \in 0 .. 0 : h[i].elapsed = 0
    BY <1>4, <2>1
  <2>3. TrackOf(h)
    BY <1>6, <1>16, <2>1, <2>2 DEF TrackOf
  <2> QED
    BY <1>5, <1>6, <2>1, <2>3 DEF TrackInv
<1> QED
  BY <1>2, <1>7, <1>8, <1>9, <1>10, <1>11, <1>12, <1>13, <1>15, <1>17, <1>18 DEF CampaignInv

\* Every step preserves the invariant.
LEMMA StepCampaignInv == CampaignInv /\ [CampaignNext]_campaignVars => CampaignInv'
<1> SUFFICES ASSUME CampaignInv, [CampaignNext]_campaignVars PROVE CampaignInv'
  OBVIOUS
<1>1. CASE StartChild
  BY <1>1, ChildStep
<1>2. CASE ~StartChild
  <2>1. /\ IInv /\ FailedInv /\ CampaignTypeOK /\ LogInv /\ BudgetInv /\ OpeningInv
        /\ DetailInv /\ TailInv /\ KeepsInv /\ BestInv /\ ComparedInv /\ TrackInv
    BY DEF CampaignInv
  <2>2. [Next]_vars
    BY <1>2, RunStep
  <2>3. IInv' /\ FailedInv'
    BY <2>1, <2>2, StepIInv, FailedStep
  <2>4. CampaignTypeOK' /\ LogInv' /\ BudgetInv' /\ OpeningInv' /\ DetailInv' /\ TailInv'
    BY <1>2, <2>1, CampaignTypeStep, LogStep, BudgetStep, OpeningStep, DetailStep, TailStep
  <2>5. KeepsInv' /\ BestInv' /\ ComparedInv' /\ TrackInv'
    BY <1>2, <2>1, KeepsStep, BestStep, ComparedStep, TrackStep
  <2> QED
    BY <2>3, <2>4, <2>5 DEF CampaignInv
<1> QED
  BY <1>1, <1>2

\* The invariant holds all along a campaign.
LEMMA CampaignInvariance == CampaignSpec => []CampaignInv
<1>1. CampaignInit => CampaignInv
  BY InitCampaignInv
<1>2. CampaignInv /\ [CampaignNext]_campaignVars => CampaignInv'
  BY StepCampaignInv
<1> QED
  BY <1>1, <1>2, PTL DEF CampaignSpec

-------------------------------------------------------------------------------
(* The yardstick.                                                          *)

\* The best measurement of the log is one, and it is that of the last keep.
LEMMA BestIs ==
  CampaignInv =>
    /\ BestAfter(LastOf(Keeps)) \in Measured \cup {None}
    /\ Requalified \in Measured \cup {None}
    /\ \A k \in Keeps : BestAfter(k) = log[k - 2].detail
<1> SUFFICES ASSUME CampaignInv
             PROVE  /\ BestAfter(LastOf(Keeps)) \in Measured \cup {None}
                    /\ Requalified \in Measured \cup {None}
                    /\ \A k \in Keeps : BestAfter(k) = log[k - 2].detail
  OBVIOUS
<1>1. /\ TypeInv /\ CampaignTypeOK /\ LogInv /\ OpeningInv /\ DetailInv /\ KeepsInv
  BY DEF CampaignInv, IInv
<1>2. \A k \in Keeps : BestAfter(k) = log[k - 2].detail
  BY <1>1, SupportIs
<1> QED
  BY <1>1, <1>2, FoundFacts

\* A candidate that improves on the best one has a higher rate.
LEMMA ImprovementIsHigher ==
  ASSUME NEW first, NEW best \in Measured, NEW m \in Measured,
         assessCandidate(first, best, m).improved
  PROVE  m.h1 >= best.h1
<1>1. 100 * m.h1 > (100 + FloorPercent) * best.h1
  BY DEF assessCandidate, meetsFloor
<1>2. m.h1 \in Nat /\ best.h1 \in Nat
  BY RatesAssumption DEF Measured
<1>3. FloorPercent \in {3, 4, 5}
  BY PolicyAssumption
<1> QED
  BY <1>1, <1>2, <1>3

\* What a saved result makes of the best measurement.
LEMMA SavedStanding ==
  ASSUME CampaignInv, CampaignInv', SaveLogged
  PROVE  /\ Standing' >= Standing
         /\ VerifiedInitial # None => VerifiedInitial' = VerifiedInitial
<1>0. /\ IInv /\ TypeInv /\ CampaignTypeOK /\ LogInv /\ OpeningInv /\ DetailInv /\ KeepsInv
      /\ ComparedInv /\ FailedInv
  BY DEF CampaignInv, IInv
<1>1. /\ Len(log) \in Nat /\ DOMAIN log = 1 .. Len(log)
      /\ parent' = parent /\ Taken = Len(log)
      /\ \A i \in DOMAIN log : log'[i] = log[i]
  BY <1>0, LogFacts, SavedFacts
<1>2. /\ Requalified \in Measured \cup {None}
      /\ VerifiedInitial \in Measured \cup {None}
      /\ BestAfter(LastOf(Keeps)) \in Measured \cup {None}
      /\ \A k \in Keeps : Qualified
      /\ \A x \in Measured : x # None /\ x.h1 \in Nat
  BY <1>0, FoundFacts, RatesAssumption DEF Measured
<1>3. /\ BestAfter(LastOf(Keeps))' \in Measured \cup {None}
      /\ Requalified' \in Measured \cup {None}
      /\ \A k \in Keeps' : BestAfter(k)' = log'[k - 2].detail
  <2>1. (CampaignInv =>
           /\ BestAfter(LastOf(Keeps)) \in Measured \cup {None}
           /\ Requalified \in Measured \cup {None}
           /\ \A k \in Keeps : BestAfter(k) = log[k - 2].detail)'
    BY BestIs, PTL
  <2>2. (Measured \cup {None})' = Measured \cup {None}
    BY DEF Measured
  <2> QED
    BY <2>1, <2>2
<1>4. VerifiedInitial # None => VerifiedInitial' = VerifiedInitial
  <2>1. CASE Qualified
    BY <1>0, <2>1, SavedSupports
  <2>2. CASE ~Qualified
    <3>1. Requalified = None
      BY <1>0, <2>2, RequalifiedIs
    <3> QED
      BY <1>1, <3>1 DEF VerifiedInitial, KnownInitial
  <2> QED
    BY <2>1, <2>2
<1> SUFFICES ASSUME NEW x, x = BestAfter(LastOf(Keeps)), x # None,
                    NEW y, y = BestAfter(LastOf(Keeps))'
             PROVE  y # None /\ y.h1 >= x.h1
  <2>1. BestAfter(LastOf(Keeps)) # None =>
          /\ BestAfter(LastOf(Keeps))' # None
          /\ BestAfter(LastOf(Keeps))'.h1 >= BestAfter(LastOf(Keeps)).h1
    OBVIOUS
  <2> QED
    BY <1>2, <1>3, <1>4, <2>1 DEF Standing
<1>5. x \in Measured /\ x.h1 \in Nat
  BY <1>2
<1>6. SUFFICES ASSUME NEW n, n = Len(log) + 1, NEW l, l = LastOf(Keeps)
               PROVE  y # None /\ y.h1 >= x.h1
  OBVIOUS
<1>7. /\ l \in Keeps \cup {0} /\ x = BestAfter(l)
      /\ Keeps \in SUBSET (1 .. Len(log))
  BY <1>0, <1>6, PickFacts
<1>8. /\ Keeps' = IF state.phase = "keep" /\ log'[n].outcome # Error
                  THEN Keeps \cup {n} ELSE Keeps
      /\ LastOf(Keeps)' = IF state.phase = "keep" /\ log'[n].outcome # Error
                          THEN n ELSE LastOf(Keeps)
  BY <1>0, <1>6, SavedPicks
<1>9. CASE state.phase = "keep" /\ log'[n].outcome # Error
  <2>1. n \in Keeps' /\ LastOf(Keeps)' = n
    BY <1>8, <1>9
  <2>2. y = BestAfter(n)'
    BY <2>1 DEF BestAfter
  <2>3. n - 1 = Taken /\ n - 2 = Taken - 1 /\ n \in Nat
    BY <1>1, <1>6
  <2>4. /\ n - 2 \in DOMAIN log /\ log[n - 2].phase = "measure"
        /\ log[n - 2].outcome # Error
        /\ log[n - 2].outcome.valid /\ log[n - 2].outcome.improved
        /\ n - 1 \in DOMAIN log /\ log[n - 1].phase = "review"
    BY <1>9, <2>3 DEF CampaignInv, TailInv, MeasuredAt, ReviewedAt
  <2>5. y = log[n - 2].detail
    BY <1>1, <1>3, <2>1, <2>2, <2>4
  <2>6. Valid(log[n - 2].outcome)
    BY <1>0, <2>4 DEF LogInv, KindOf, Valid
  <2>7. y \in Measured
    BY <1>0, <2>4, <2>5, <2>6 DEF DetailInv
  <2>8. PreviousKeep(n - 2) = l
    <3>1. \A i \in Keeps : i < n - 2
      <4>1. \A i \in Keeps : i \in 1 .. Len(log) /\ i # n - 1 /\ i # n - 2
        BY <1>7, <2>4 DEF Keeps, Steps
      <4>2. Len(log) \in Nat /\ n = Len(log) + 1
        BY <1>1, <1>6
      <4> QED
        BY <4>1, <4>2
    <3>2. {i \in Keeps : i < n - 2} = Keeps
      BY <3>1
    <3> QED
      BY <1>6, <3>2 DEF PreviousKeep
  <2>9. Compares(log[n - 2].outcome, VerifiedInitial, x, y)
    <3>1. n - 2 \in Steps({"measure"})
      BY <2>4 DEF Steps
    <3>2. Compares(log[n - 2].outcome, VerifiedInitial, BestAfter(PreviousKeep(n - 2)),
                   log[n - 2].detail)
      BY <1>0, <2>6, <3>1 DEF ComparedInv
    <3> QED
      BY <1>7, <2>5, <2>8, <3>2
  <2>10. assessCandidate(VerifiedInitial, x, y).improved
    BY <2>4, <2>9 DEF Compares
  <2> QED
    BY <1>2, <1>5, <2>7, <2>10, ImprovementIsHigher
<1>10. CASE ~(state.phase = "keep" /\ log'[n].outcome # Error)
  <2>1. LastOf(Keeps)' = l
    BY <1>6, <1>8, <1>10
  <2>2. y = BestAfter(l)'
    BY <2>1 DEF BestAfter
  <2>3. CASE Qualified
    <3>1. BestAfter(l)' = BestAfter(l)
      BY <1>0, <1>7, <2>3, SavedSupports
    <3> QED
      BY <1>5, <1>7, <2>2, <3>1
  <2>4. CASE ~Qualified
    <3>1. l = 0
      BY <1>2, <1>7, <2>4
    <3>2. x = StartingBest /\ y = StartingBest'
      BY <1>7, <2>2, <3>1 DEF BestAfter
    <3>3. Requalified = None
      BY <1>0, <2>4, RequalifiedIs
    <3>4. CASE parent = None \/ parent.best = None
      <4>1. x = VerifiedInitial /\ y = VerifiedInitial'
        BY <1>1, <3>2, <3>4 DEF StartingBest
      <4> QED
        BY <1>4, <1>5, <4>1
    <3>5. CASE parent # None /\ parent.best # None
      <4>1. x = parent.best
        BY <3>2, <3>3, <3>5 DEF StartingBest
      <4>2. y = parent.best \/ (Requalified' # None /\ Requalified'.h1 > parent.best.h1
                                /\ y = Requalified')
        BY <1>1, <3>2, <3>5 DEF StartingBest
      <4> QED
        BY <1>2, <1>3, <1>5, <4>1, <4>2
    <3> QED
      BY <3>4, <3>5
  <2> QED
    BY <2>3, <2>4
<1> QED
  BY <1>9, <1>10

\* What the start of a run makes of it.
LEMMA ChildStanding ==
  ASSUME CampaignInv, CampaignInv', StartChild
  PROVE  /\ Standing' >= Standing
         /\ VerifiedInitial # None => VerifiedInitial' = VerifiedInitial
<1>1. /\ log' = <<>> /\ parent' = Evidence
  BY DEF StartChild
<1>2. /\ Evidence # None /\ Evidence.initial = VerifiedInitial
      /\ Evidence.best = BestAfter(LastOf(Keeps))
  BY EvidenceFacts DEF CampaignInv
<1>3. /\ BestAfter(LastOf(Keeps)) \in Measured \cup {None}
      /\ \A x \in Measured : x # None /\ x.h1 \in Nat
  BY FoundFacts, RatesAssumption DEF CampaignInv, IInv, Measured
<1>4. BestAfter(LastOf(Keeps))' \in Measured \cup {None}
  <2>1. (CampaignInv =>
           /\ BestAfter(LastOf(Keeps)) \in Measured \cup {None}
           /\ Requalified \in Measured \cup {None}
           /\ \A k \in Keeps : BestAfter(k) = log[k - 2].detail)'
    BY BestIs, PTL
  <2>2. (Measured \cup {None})' = Measured \cup {None}
    BY DEF Measured
  <2> QED
    BY <2>1, <2>2
<1>5. DOMAIN log' = {}
  BY <1>1
<1>6. Keeps' = {} /\ Requalified' = None
  BY <1>5 DEF Keeps, Steps, Requalified
<1>7. VerifiedInitial' = VerifiedInitial
  BY <1>1, <1>2, <1>6 DEF VerifiedInitial, KnownInitial
<1>8. BestAfter(LastOf(Keeps))' = StartingBest'
  BY <1>6 DEF BestAfter, LastOf
<1>9. BestAfter(LastOf(Keeps)) # None => StartingBest' = BestAfter(LastOf(Keeps))
  BY <1>1, <1>2, <1>6 DEF StartingBest, KnownInitial
<1>10. Standing' >= Standing
  BY <1>3, <1>4, <1>8, <1>9 DEF Standing
<1> QED
  BY <1>7, <1>10

\* Restarts and repeated measurements never lower what a candidate has to beat,
\* and never change the first measurement (run.ts, best; campaign.ts,
\* verifyParentEvidence).
THEOREM YardstickIsKept == CampaignSpec => YardstickHolds
<1>1. ASSUME CampaignInv, CampaignInv', [CampaignNext]_campaignVars,
             <<log, parent>>' # <<log, parent>>
      PROVE  /\ Standing' >= Standing
             /\ VerifiedInitial # None => VerifiedInitial' = VerifiedInitial
  <2>1. SaveLogged \/ StartChild
    <3>1. IInv
      BY <1>1 DEF CampaignInv
    <3> QED
      BY <1>1, <3>1, QuietFacts, CampaignSteps
  <2> QED
    BY <1>1, <2>1, SavedStanding, ChildStanding
<1>2. CampaignInv /\ CampaignInv' /\ [CampaignNext]_campaignVars
        => [<<log, parent>>' # <<log, parent>> =>
              /\ Standing' >= Standing
              /\ VerifiedInitial # None => VerifiedInitial' = VerifiedInitial]_campaignVars
  BY <1>1
<1> QED
  BY <1>2, CampaignInvariance, PTL DEF CampaignSpec, YardstickHolds

-------------------------------------------------------------------------------
(* The replay of the results.                                              *)

\* The replay makes of the entry i what it makes of it after the state before.
Replayed(i, before) ==
  LET elapsed == IF i = Len(log) THEN state.elapsed ELSE before.elapsed
      active == beginSavedStep(before, elapsed)
      step == log[i]
  IN  IF /\ before # None
         /\ MayBegin(before, elapsed)
         /\ step.step = active.sequence /\ step.phase = active.phase
         /\ step.revision = active.workingRevision
         /\ MayFinish(active, step.step, step.outcome)
      THEN finishStep(active, step.outcome)
      ELSE None

\* The replay is defined for any number of results.
LEMMA ReplayIs ==
  \A i \in Nat : Replay[i] = IF i = 0 THEN Origin ELSE Replayed(i, Replay[i - 1])
<1> DEFINE To(i, b) == IF i = 0 THEN Origin ELSE Replayed(i, b)
           Until(n, f) == f = [i \in 0 .. n |-> To(i, f[i - 1])]
           G(n) == CHOOSE f : Until(n, f)
           F == [n \in Nat |-> G(n)[n]]
           Full(f) == f = [i \in Nat |-> To(i, f[i - 1])]
<1>1. Replay = CHOOSE f : Full(f)
  BY Zenon DEF Replay, Replayed
<1>2. To(0, 0) = Origin /\ (\A b : To(0, b) = Origin)
      /\ \A i \in Nat \ {0} : \A b : To(i, b) = Replayed(i, b)
  OBVIOUS
<1> HIDE DEF To
<1>3. \A n \in Nat : \E f : Until(n, f)
  <2> DEFINE S == {n \in Nat : \E f : Until(n, f)}
  <2>1. 0 \in S
    <3> DEFINE f == [i \in 0 .. 0 |-> Origin]
    <3>1. Until(0, f)
      BY <1>2
    <3> QED
      BY <3>1
  <2>2. ASSUME NEW n \in Nat, n \in S PROVE n + 1 \in S
    <3>1. PICK f : Until(n, f)
      BY <2>2
    <3> DEFINE g == [i \in 0 .. n + 1 |-> IF i = n + 1 THEN To(n + 1, f[n]) ELSE f[i]]
    <3>2. \A i \in 0 .. n + 1 : g[i] = To(i, g[i - 1])
      <4> SUFFICES ASSUME NEW i \in 0 .. n + 1 PROVE g[i] = To(i, g[i - 1])
        OBVIOUS
      <4>1. CASE i = n + 1
        <5>1. n \in 0 .. n + 1 /\ n + 1 \in 0 .. n + 1 /\ n # n + 1 /\ (n + 1) - 1 = n
          OBVIOUS
        <5>2. g[n + 1] = To(n + 1, f[n]) /\ g[n] = f[n] /\ i - 1 = n
          BY <4>1, <5>1
        <5> HIDE DEF g
        <5> QED
          BY <4>1, <5>2
      <4>2. CASE i # n + 1 /\ i # 0
        <5>1. i \in 0 .. n /\ i - 1 \in 0 .. n /\ i - 1 # n + 1 /\ i - 1 \in 0 .. n + 1
          BY <4>2
        <5>2. g[i] = f[i] /\ g[i - 1] = f[i - 1]
          BY <4>2, <5>1
        <5>3. f[i] = To(i, f[i - 1])
          BY <3>1, <5>1
        <5> QED
          BY <5>2, <5>3
      <4>3. CASE i = 0
        <5>1. g[0] = f[0] /\ f[0] = To(0, f[0 - 1])
          BY <3>1
        <5> QED
          BY <1>2, <4>3, <5>1
      <4> QED
        BY <4>1, <4>2, <4>3
    <3>3. g = [i \in 0 .. n + 1 |-> g[i]]
      OBVIOUS
    <3> HIDE DEF g
    <3>4. Until(n + 1, g)
      BY <3>2, <3>3
    <3> QED
      BY <3>4
  <2> HIDE DEF S
  <2>3. Nat \subseteq S
    BY <2>1, <2>2, SetInduction
  <2> QED
    BY <2>3 DEF S
<1>4. ASSUME NEW n \in Nat, NEW m \in Nat, n <= m, NEW f, NEW g, Until(n, f), Until(m, g)
      PROVE  \A i \in 0 .. n : f[i] = g[i]
  <2>1. /\ \A i \in 0 .. n : f[i] = To(i, f[i - 1])
        /\ \A i \in 0 .. m : g[i] = To(i, g[i - 1])
    BY <1>4
  <2> DEFINE S == {i \in Nat : i <= n => f[i] = g[i]}
  <2>2. 0 \in S
    <3>1. f[0] = To(0, f[0 - 1]) /\ g[0] = To(0, g[0 - 1])
      BY <2>1
    <3> QED
      BY <1>2, <3>1
  <2>3. ASSUME NEW i \in Nat, i \in S PROVE i + 1 \in S
    <3> SUFFICES ASSUME i + 1 <= n PROVE f[i + 1] = g[i + 1]
      OBVIOUS
    <3>1. f[i] = g[i] /\ i + 1 \in 0 .. n /\ i + 1 \in 0 .. m /\ (i + 1) - 1 = i
      BY <1>4, <2>3
    <3>2. f[i + 1] = To(i + 1, f[i]) /\ g[i + 1] = To(i + 1, g[i])
      BY <2>1, <3>1
    <3> QED
      BY <3>1, <3>2
  <2> HIDE DEF S
  <2>4. Nat \subseteq S
    BY <2>2, <2>3, SetInduction
  <2> QED
    BY <2>4 DEF S
<1>5. \A n \in Nat : Until(n, G(n))
  <2> HIDE DEF Until
  <2> QED
    BY <1>3
<1> HIDE DEF G
<1>6. \A i \in Nat : F[i] = To(i, F[i - 1])
  <2> SUFFICES ASSUME NEW i \in Nat, NEW f, f = G(i), NEW g, g = G(i - 1)
               PROVE  F[i] = To(i, F[i - 1])
    OBVIOUS
  <2>1. F[i] = f[i] /\ Until(i, f)
    BY <1>5
  <2>2. f[i] = To(i, f[i - 1])
    BY <2>1
  <2> HIDE DEF F, Until
  <2>3. CASE i = 0
    <3>1. To(i, f[i - 1]) = Origin /\ To(i, F[i - 1]) = Origin
      BY <1>2, <2>3
    <3> QED
      BY <2>1, <2>2, <3>1
  <2>4. CASE i # 0
    <3>1. i - 1 \in Nat /\ i - 1 <= i /\ i - 1 \in 0 .. i - 1
      BY <2>4
    <3>2. F[i - 1] = g[i - 1] /\ Until(i - 1, g)
      BY <1>5, <3>1 DEF F
    <3>3. g[i - 1] = f[i - 1]
      BY <1>4, <2>1, <3>1, <3>2
    <3> QED
      BY <2>1, <2>2, <3>2, <3>3
  <2> QED
    BY <2>3, <2>4
<1>7. F = [i \in Nat |-> F[i]]
  OBVIOUS
<1> HIDE DEF F
<1>8. Full(F)
  BY <1>6, <1>7
<1>9. Full(Replay)
  <2> HIDE DEF Full
  <2> QED
    BY <1>1, <1>8
<1>10. \A i \in Nat : Replay[i] = To(i, Replay[i - 1])
  <2>1. Replay = [i \in Nat |-> To(i, Replay[i - 1])]
    BY <1>9
  <2> QED
    BY <2>1
<1> QED
  BY <1>10 DEF To

\* The time of a step is that at which it begins.
LEMMA BeginTime ==
  ASSUME NEW s \in RunStates(Revisions), NEW t \in Nat
  PROVE  beginSavedStep(s, t).elapsed = t
<1>1. ASSUME NEW q \in RunStates(Revisions)
      PROVE  /\ beginStep(q, t) \in RunStates(Revisions)
             /\ beginStep(q, t).elapsed = t
  <2>1. CASE checkLimits(q, t) = {}
    <3>1. beginStep(q, t) = Reserve(q, t)
      BY <2>1 DEF beginStep
    <3>2. Reserve(q, t).elapsed = t
      BY DEF Reserve, RunStates
    <3> QED
      BY <3>1, <3>2, ReserveFacts
  <2>2. CASE checkLimits(q, t) # {}
    <3>1. beginStep(q, t) = WrapUp(q, t)
      BY <2>2 DEF beginStep
    <3>2. WrapUp(q, t).elapsed = t
      BY DEF WrapUp, RunStates
    <3> QED
      BY <2>2, <3>1, <3>2, WrapUpFacts
  <2> QED
    BY <2>1, <2>2
<1> DEFINE first == beginStep(s, t)
<1>2. beginSavedStep(s, t) = IF first.activeStep = 0 THEN beginStep(first, t) ELSE first
  BY DEF beginSavedStep
<1> QED
  BY <1>1, <1>2

\* Before the time limit, the limits do not look at the time.
LEMMA LimitsTimeless ==
  ASSUME NEW q \in RunStates(Revisions), NEW t \in Nat, t < MaxDuration
  PROVE  checkLimits(q, t) = checkLimits(AtTime(q, 0), 0)
<1>1. /\ AtTime(q, 0).phase = q.phase /\ AtTime(q, 0).attemptsStarted = q.attemptsStarted
      /\ AtTime(q, 0).repairsThisAttempt = q.repairsThisAttempt
      /\ AtTime(q, 0).piCallsStarted = q.piCallsStarted
  BY DEF AtTime, RunStates
<1>2. ~(t >= MaxDuration) /\ ~(0 >= MaxDuration)
  BY LimitsAssumption
<1> QED
  BY <1>1, <1>2 DEF checkLimits

\* An entry that follows a state before the time limit is replayed.
LEMMA ReplayedFollows ==
  ASSUME NEW i \in Nat, NEW a \in RunStates(Revisions), a.elapsed = 0,
         NEW b \in RunStates(Revisions), b.elapsed = 0,
         log[i].outcome \in Outcomes(Revisions), Follows(a, log[i], b),
         state.elapsed \in Nat, state.elapsed < MaxDuration
  PROVE  Replayed(i, a) = IF i = Len(log) THEN AtTime(b, state.elapsed) ELSE b
<1> SUFFICES ASSUME NEW t, t = IF i = Len(log) THEN state.elapsed ELSE 0,
                    NEW active, active = beginSavedStep(a, t),
                    NEW e, e = log[i]
             PROVE  Replayed(i, a) = IF i = Len(log) THEN AtTime(b, state.elapsed) ELSE b
  OBVIOUS
<1>1. t \in Nat /\ t < MaxDuration /\ t >= a.elapsed
  BY LimitsAssumption
<1>2. Replayed(i, a) = IF /\ a # None
                          /\ MayBegin(a, t)
                          /\ e.step = active.sequence /\ e.phase = active.phase
                          /\ e.revision = active.workingRevision
                          /\ MayFinish(active, e.step, e.outcome)
                       THEN finishStep(active, e.outcome) ELSE None
  BY Zenon DEF Replayed
<1>3. a # None /\ MayBegin(a, t) /\ a.activeStep = 0
  <2>1. "phase" \in DOMAIN a /\ "phase" \notin DOMAIN None
    BY DEF RunStates, None
  <2>2. a # None
    BY <2>1
  <2> QED
    BY <1>1, <2>2 DEF Follows, MayBegin
<1> DEFINE active0 == beginSavedStep(a, 0)
<1>4. active \in RunStates(Revisions) /\ AtTime(active, 0) = active0
  <2>1. AtTime(a, 0) = a
    BY DEF AtTime, RunStates
  <2>2. AtTime(active, 0) = beginSavedStep(AtTime(a, 0), 0)
    BY <1>1, BeginTimeless
  <2>3. active \in RunStates(Revisions)
    BY <1>1, <1>3, BeginFacts
  <2> QED
    BY <2>1, <2>2, <2>3
<1>5. /\ e.step = active0.sequence /\ e.phase = active0.phase
      /\ e.revision = active0.workingRevision
      /\ MayFinish(active0, e.step, e.outcome)
      /\ b = finishStep(active0, e.outcome)
  BY Zenon DEF Follows
<1> HIDE DEF active0
<1>6. /\ e.step = active.sequence /\ e.phase = active.phase
      /\ e.revision = active.workingRevision
      /\ MayFinish(active, e.step, e.outcome)
  BY <1>4, <1>5, AtFacts
<1>7. Replayed(i, a) = finishStep(active, e.outcome)
  BY <1>2, <1>3, <1>6
<1>8. active.elapsed = t
  BY <1>1, <1>3, BeginTime
<1>9. PICK r : r = finishStep(active, e.outcome)
  OBVIOUS
<1>10. MayFinish(active, active.sequence, e.outcome) /\ r \in RunStates(Revisions)
  BY <1>4, <1>6, <1>9, FinishFacts
<1>11. AtTime(r, 0) = b /\ r.elapsed = t
  BY <1>4, <1>5, <1>8, <1>9, <1>10, FinishTimeless
<1>12. r = AtTime(b, t) /\ AtTime(b, 0) = b
  BY <1>10, <1>11 DEF AtTime, RunStates
<1> QED
  BY <1>7, <1>9, <1>12

\* The replay runs along the states that the results lead through.
LEMMA ReplayTrack ==
  ASSUME CampaignTypeOK, TypeInv, NEW h, TrackOf(h), state.elapsed < MaxDuration,
         NEW i \in 0 .. Len(log)
  PROVE  Replay[i] = IF i # 0 /\ i = Len(log) THEN AtTime(h[i], state.elapsed) ELSE h[i]
<1>1. /\ Len(log) \in Nat /\ DOMAIN log = 1 .. Len(log) /\ state.elapsed \in Nat
      /\ \A j \in DOMAIN log : log[j].outcome \in Outcomes(Revisions)
  BY LogFacts DEF TypeInv, TypeOK, RunStates
<1>2. /\ h \in [0 .. Len(log) -> RunStates(Revisions)] /\ h[0] = Origin
      /\ \A j \in DOMAIN log : Follows(h[j - 1], log[j], h[j])
      /\ \A j \in 0 .. Len(log) : h[j].elapsed = 0
  BY DEF TrackOf
<1> DEFINE Fits(j) == Replay[j] = IF j # 0 /\ j = Len(log) THEN AtTime(h[j], state.elapsed)
                                  ELSE h[j]
           S == {j \in Nat : j <= Len(log) => Fits(j)}
<1>3. 0 \in S
  BY <1>2, ReplayIs
<1>4. ASSUME NEW j \in Nat, j \in S PROVE j + 1 \in S
  <2> SUFFICES ASSUME j + 1 <= Len(log) PROVE Fits(j + 1)
    OBVIOUS
  <2> SUFFICES ASSUME NEW l, l = Len(log), NEW k, k = j + 1 PROVE Fits(k)
    OBVIOUS
  <2>1. /\ j \in 0 .. l /\ k \in DOMAIN log /\ k \in 0 .. l
        /\ k - 1 = j /\ j # l /\ k # 0 /\ j <= l /\ k \in Nat
    BY <1>1
  <2>2. Replay[j] = h[j]
    <3>1. Fits(j)
      BY <1>4, <2>1
    <3> QED
      BY <2>1, <3>1
  <2> HIDE DEF Fits, S
  <2>3. Replay[k] = Replayed(k, h[j])
    BY <2>1, <2>2, ReplayIs
  <2>4. PICK a, b : a = h[j] /\ b = h[k]
    OBVIOUS
  <2>5. Follows(a, log[k], b)
    <3>1. Follows(h[k - 1], log[k], h[k])
      BY <1>2, <2>1
    <3> QED
      BY <2>1, <2>4, <3>1
  <2>6. /\ a \in RunStates(Revisions) /\ a.elapsed = 0
        /\ b \in RunStates(Revisions) /\ b.elapsed = 0
        /\ log[k].outcome \in Outcomes(Revisions)
    BY <1>1, <1>2, <2>1, <2>4
  <2>7. Replayed(k, a) = IF k = Len(log) THEN AtTime(b, state.elapsed) ELSE b
    BY <1>1, <2>1, <2>5, <2>6, ReplayedFollows
  <2> QED
    BY <2>1, <2>3, <2>4, <2>7 DEF Fits
<1> HIDE DEF S
<1>5. Nat \subseteq S
  BY <1>3, <1>4, SetInduction
<1>6. i \in S /\ i <= Len(log)
  BY <1>1, <1>5
<1> QED
  BY <1>6 DEF S

\* At a stand, the replay finds the results to follow one another, and to lead to
\* the state unless a limit turned its step.
LEMMA ReplayHolds ==
  ASSUME CampaignInv, Terminal, state.elapsed < MaxDuration
  PROVE  StepsFollow /\ (InterruptedTurn \/ StateFollows)
<1>0. /\ IInv /\ TypeInv /\ CampaignTypeOK /\ LogInv /\ TrackInv
  BY DEF CampaignInv, IInv
<1>1. /\ Len(log) \in Nat /\ state \in RunStates(Revisions) /\ state.elapsed \in Nat
      /\ ~Pending
  BY <1>0, LogFacts DEF TypeInv, TypeOK, RunStates, Terminal, Pending
<1>2. /\ Taken = Len(log)
      /\ state.sequence = Len(log) + (IF Active THEN 1 ELSE 0)
  BY <1>0, <1>1, TakenFacts DEF Taken
<1>3. PICK h : /\ TrackOf(h)
               /\ ~Active => AtTime(state, 0) = h[Len(log)]
               /\ Active => /\ AtTime(state, 0) = beginSavedStep(h[Len(log)], 0)
                            /\ h[Len(log)].phase # "done" /\ h[Len(log)].activeStep = 0
  BY <1>0, <1>2 DEF TrackInv
<1>4. PICK a : a = h[Len(log)]
  OBVIOUS
<1>5. a \in RunStates(Revisions)
  BY <1>1, <1>3, <1>4 DEF TrackOf
<1>6. PICK r : r = Replay[Len(log)]
  OBVIOUS
<1>7. r = a \/ r = AtTime(a, state.elapsed)
  <2>1. Len(log) \in 0 .. Len(log)
    BY <1>1
  <2> QED
    BY <1>0, <1>3, <1>4, <1>6, <2>1, ReplayTrack
<1>8. /\ r \in RunStates(Revisions) /\ AtTime(r, 0) = AtTime(a, 0)
      /\ r.phase = a.phase /\ r.workingRevision = a.workingRevision
      /\ r.bestRevision = a.bestRevision /\ r.targetMet = a.targetMet
  BY <1>1, <1>5, <1>7, AtFacts
<1>9. StepsFollow
  <2>1. "phase" \in DOMAIN r /\ "phase" \notin DOMAIN None
    BY <1>8 DEF RunStates, None
  <2>2. r # None
    BY <2>1
  <2> QED
    BY <1>6, <2>2 DEF StepsFollow
<1>a. ASSUME NEW s \in RunStates(Revisions), AtTime(state, 0) = s
      PROVE  /\ state.phase = s.phase /\ state.workingRevision = s.workingRevision
             /\ state.bestRevision = s.bestRevision /\ state.targetMet = s.targetMet
  BY <1>1, <1>a, AtFacts
<1>b. ASSUME state.phase = r.phase, state.workingRevision = r.workingRevision,
             state.bestRevision = r.bestRevision, state.targetMet = r.targetMet,
             Active => r.phase # "done"
      PROVE  StateFollows
  <2>1. StateFollows <=>
          /\ state.sequence = Len(log) + (IF Active THEN 1 ELSE 0)
          /\ \A f \in {"phase", "workingRevision", "bestRevision", "targetMet"} :
                state[f] = r[f]
          /\ Active => r.phase # "done"
    BY <1>6, Zenon DEF StateFollows
  <2> QED
    BY <1>2, <1>b, <2>1
<1>10. CASE ~Active
  <2>1. StateFollows
    BY <1>3, <1>4, <1>5, <1>8, <1>10, <1>a, <1>b
  <2> QED
    BY <1>9, <2>1
<1>11. CASE Active
  <2>1. /\ AtTime(state, 0) = beginSavedStep(a, 0) /\ a.phase # "done" /\ a.activeStep = 0
    BY <1>3, <1>4, <1>11
  <2>2. PICK b : b = beginSavedStep(a, 0)
    OBVIOUS
  <2>3. /\ b \in RunStates(Revisions) /\ b.workingRevision = a.workingRevision
        /\ b.bestRevision = a.bestRevision /\ b.targetMet = a.targetMet
    BY <1>5, <2>1, <2>2, BeginFacts, BeginReasons
  <2>4. CASE checkLimits(r, state.elapsed) # {}
    BY <1>6, <1>9, <1>11, <2>4 DEF InterruptedTurn
  <2>5. CASE checkLimits(r, state.elapsed) = {}
    <3>1. checkLimits(a, 0) = {}
      <4>1. checkLimits(r, state.elapsed) = checkLimits(AtTime(r, 0), 0)
        BY <1>1, <1>8, LimitsTimeless
      <4>2. checkLimits(a, 0) = checkLimits(AtTime(a, 0), 0)
        BY <1>5, LimitsTimeless, LimitsAssumption
      <4> QED
        BY <1>8, <2>5, <4>1, <4>2
    <3>2. b = Reserve(a, 0) /\ b.phase = a.phase
      <4>1. beginStep(a, 0) = Reserve(a, 0)
        BY <3>1 DEF beginStep
      <4>2. Reserve(a, 0).phase = a.phase /\ Reserve(a, 0).activeStep # 0
        BY <1>5, ReserveFacts DEF RunStates
      <4> QED
        BY <2>2, <4>1, <4>2 DEF beginSavedStep
    <3>3. StateFollows
      BY <1>8, <2>1, <2>2, <2>3, <3>2, <1>a, <1>b
    <3> QED
      BY <1>9, <3>3
  <2> QED
    BY <2>4, <2>5
<1> QED
  BY <1>10, <1>11

\* Every revision kept has what it needs behind it, and was compared to the best
\* one before it.
LEMMA KeepsHold ==
  ASSUME CampaignInv, NEW k \in Keeps
  PROVE  Supported(k) /\ ComparisonHolds(k)
<1>0. /\ TypeInv /\ CampaignTypeOK /\ LogInv /\ OpeningInv /\ DetailInv /\ KeepsInv
      /\ ComparedInv
  BY DEF CampaignInv, IInv
<1>1. /\ k \in Nat /\ k > 3 /\ Supported(k) /\ Support(k, "measure") = k - 2
      /\ log[k - 2].phase = "measure" /\ log[k - 2].outcome # Error
      /\ log[k - 2].outcome.valid /\ log[k - 2].outcome.improved
  BY <1>0, SupportIs
<1>2. k - 1 \in DOMAIN log /\ log[k - 1].phase = "review" /\ k - 2 \in DOMAIN log
  BY <1>0 DEF KeepsInv, ReviewedAt, MeasuredAt
<1>3. PreviousKeep(k - 2) = PreviousKeep(k)
  <2>1. \A i \in Keeps : i \in Nat /\ log[i].phase = "keep"
    BY <1>0, LogFacts DEF Keeps, Steps
  <2>2. \A i \in Keeps : i # k - 1 /\ i # k - 2
    BY <1>1, <1>2, <2>1
  <2>3. \A i \in Keeps : i < k - 2 <=> i < k
    BY <1>1, <2>1, <2>2
  <2>4. {i \in Keeps : i < k - 2} = {i \in Keeps : i < k}
    BY <2>3
  <2> QED
    BY <2>4 DEF PreviousKeep
<1>4. Compares(log[k - 2].outcome, VerifiedInitial, BestAfter(PreviousKeep(k)),
               log[k - 2].detail)
  <2>1. log[k - 2].outcome.kind = "measurement"
    BY <1>0, <1>1, <1>2 DEF LogInv, KindOf
  <2>2. k - 2 \in Steps({"measure"}) /\ Valid(log[k - 2].outcome)
    BY <1>1, <1>2, <2>1 DEF Steps, Valid
  <2> QED
    BY <1>0, <1>3, <2>2 DEF ComparedInv
<1>5. ComparisonHolds(k) <=>
        /\ VerifiedInitial # None /\ BestAfter(PreviousKeep(k)) # None
        /\ assessCandidate(VerifiedInitial, BestAfter(PreviousKeep(k)),
                           log[k - 2].detail).improved
        /\ log[k - 2].outcome.improved
        /\ log[k - 2].outcome.targetMet
             = assessCandidate(VerifiedInitial, BestAfter(PreviousKeep(k)),
                               log[k - 2].detail).targetMet
  BY <1>1, Zenon DEF ComparisonHolds
<1> QED
  BY <1>1, <1>4, <1>5, Zenon DEF Compares

\* At a stand, the best revision is that of the last keep.
LEMMA BestHolds ==
  ASSUME CampaignInv, Terminal
  PROVE  BestIsKept
<1>0. /\ IInv /\ CampaignTypeOK /\ LogInv /\ BestInv
  BY DEF CampaignInv
<1>1. Len(log) \in Nat /\ Taken = Len(log) /\ Keeps \in SUBSET (1 .. Len(log))
  BY <1>0, LogFacts, PickFacts, TakenFacts DEF Terminal, Pending
<1>2. KeptSoFar = Keeps
  <2>1. \A k \in Keeps : k \in 1 .. Taken /\ k <= Taken
    BY <1>1
  <2> QED
    BY <2>1 DEF KeptSoFar
<1> QED
  BY <1>0, <1>2 DEF BestInv, BestIsKept, LastOf

\* The verification refuses the evidence of a run only for a reason.
LEMMA RefusalsKnown == CampaignInv => RestartKnown
<1> SUFFICES ASSUME CampaignInv, Terminal, state.elapsed < MaxDuration
             PROVE  Refusals \subseteq
                      {"initial tests", "no baseline", "best has changed",
                       "review cites nothing"}
                      \cup (IF InterruptedTurn THEN {"state does not follow"} ELSE {})
  BY Zenon DEF RestartKnown
<1>1. /\ ReservationsMatch /\ StepsFollow /\ (StateFollows \/ InterruptedTurn)
      /\ BestIsKept /\ \A k \in Keeps : Supported(k) /\ ComparisonHolds(k)
  <2>1. ReservationsMatch
    BY EvidenceFacts DEF CampaignInv
  <2> QED
    BY <2>1, ReplayHolds, BestHolds, KeepsHold
<1> DEFINE always == {<<"reservations", ReservationsMatch>>,
                      <<"initial tests", InitialTestsPassed>>,
                      <<"step does not follow", StepsFollow>>,
                      <<"state does not follow", StepsFollow => StateFollows>>,
                      <<"no baseline", HasBaseline>>,
                      <<"best is not kept", BestIsKept>>,
                      <<"best has changed", StillGood>>,
                      <<"unsupported", \A k \in Keeps : Supported(k)>>}
           supported == {<<"comparison", ComparisonHolds(k)>> :
                           k \in {i \in Keeps : Supported(i)}}
                        \cup {<<"review cites nothing",
                                log[Support(k, "review")].detail = Citing>> :
                           k \in {i \in Keeps : Supported(i)}}
<1>2. Refusals = {check[1] : check \in {c \in always \cup supported : ~c[2]}}
  BY Zenon DEF Refusals
<1>a. \A n, p : <<n, p>>[1] = n
  <2> HIDE DEF always, supported
  <2> QED
    OBVIOUS
<1>3. \A n :
        /\ <<n, ReservationsMatch>>[2] /\ <<n, StepsFollow>>[2] /\ <<n, BestIsKept>>[2]
        /\ <<n, \A k \in Keeps : Supported(k)>>[2]
        /\ InterruptedTurn \/ <<n, StepsFollow => StateFollows>>[2]
        /\ \A k \in Keeps : <<n, ComparisonHolds(k)>>[2]
  <2> HIDE DEF always, supported
  <2> QED
    BY <1>1
<1> DEFINE reasons == {"initial tests", "no baseline", "best has changed",
                       "review cites nothing"}
                      \cup (IF InterruptedTurn THEN {"state does not follow"} ELSE {})
<1>4. ASSUME NEW c \in always, ~c[2]
      PROVE  c[1] \in reasons
  <2>1. \/ c = <<"reservations", ReservationsMatch>>
        \/ c = <<"initial tests", InitialTestsPassed>>
        \/ c = <<"step does not follow", StepsFollow>>
        \/ c = <<"state does not follow", StepsFollow => StateFollows>>
        \/ c = <<"no baseline", HasBaseline>>
        \/ c = <<"best is not kept", BestIsKept>>
        \/ c = <<"best has changed", StillGood>>
        \/ c = <<"unsupported", \A k \in Keeps : Supported(k)>>
    BY Zenon
  <2> HIDE DEF always, supported
  <2>2. /\ c # <<"reservations", ReservationsMatch>>
        /\ c # <<"step does not follow", StepsFollow>>
        /\ c # <<"best is not kept", BestIsKept>>
        /\ c # <<"unsupported", \A k \in Keeps : Supported(k)>>
    BY <1>3, <1>4, Zenon
  <2>3. c = <<"state does not follow", StepsFollow => StateFollows>>
          => InterruptedTurn /\ c[1] = "state does not follow"
    BY <1>3, <1>4, <1>a, Zenon
  <2>4. /\ c = <<"initial tests", InitialTestsPassed>> => c[1] = "initial tests"
        /\ c = <<"no baseline", HasBaseline>> => c[1] = "no baseline"
        /\ c = <<"best has changed", StillGood>> => c[1] = "best has changed"
    BY <1>a, Zenon
  <2> QED
    BY <2>1, <2>2, <2>3, <2>4, Zenon
<1>5. ASSUME NEW c \in supported, ~c[2]
      PROVE  c[1] \in reasons
  <2>1. \/ \E k \in Keeps : c = <<"comparison", ComparisonHolds(k)>>
        \/ \E k \in Keeps : c = <<"review cites nothing",
                                 log[Support(k, "review")].detail = Citing>>
    BY Zenon
  <2> HIDE DEF always, supported
  <2>2. \A k \in Keeps : c # <<"comparison", ComparisonHolds(k)>>
    BY <1>3, <1>5, Zenon
  <2>3. ASSUME NEW k \in Keeps,
               c = <<"review cites nothing", log[Support(k, "review")].detail = Citing>>
        PROVE  c[1] = "review cites nothing"
    BY <1>a, <2>3, Zenon
  <2> QED
    BY <2>1, <2>2, <2>3, Zenon
<1> HIDE DEF always, supported
<1> QED
  BY <1>2, <1>4, <1>5, Zenon

\* Restarts neither leave the states of the schemas nor buy more work than the
\* campaign was given, and the evidence of a run, however it was interrupted,
\* recovered and resumed, is only ever refused for one of the reasons for which
\* a restart makes no sense (campaign.ts, verifyParentEvidence).
THEOREM CampaignIsSound == CampaignSpec => []CampaignSound
<1>1. CampaignInv => CampaignSound
  <2> SUFFICES ASSUME CampaignInv PROVE CampaignSound
    OBVIOUS
  <2>1. spent.attempts <= MaxAttempts /\ spent.piCalls <= MaxPiCalls
    BY DEF CampaignInv, BudgetInv
  <2> QED
    BY <2>1, RefusalsKnown DEF CampaignInv, CampaignSound, CampaignBudget
<1> QED
  BY <1>1, CampaignInvariance, PTL

-------------------------------------------------------------------------------
(* The runs of a campaign.                                                 *)

\* What holds of the states of a run holds in every run of a campaign, those that
\* start from the evidence of another included (startRun in run.ts).
THEOREM EveryRunIsSound == CampaignSpec => [](RunSound /\ WorktreeFollows)
<1>1. CampaignInv => RunSound /\ WorktreeFollows
  BY InvRunSound, InvWorktreeFollows DEF CampaignInv
<1> QED
  BY <1>1, CampaignInvariance, PTL

\* A run that starts from evidence has no result, no report and no target met.
LEMMA ChildHonest ==
  ASSUME CampaignInv, StartChild
  PROVE  HonestInv'
<1> SUFFICES ASSUME NEW p, p = Evidence PROVE HonestInv'
  OBVIOUS
<1>1. /\ Terminal /\ results' = [q \in WorkPhases |-> None] /\ report' = None
      /\ pc' = "loop"
  BY DEF StartChild
<1>2. PICK now \in state.elapsed .. MaxDuration - 1 :
        state' = [Started(p) EXCEPT !.elapsed = now]
  BY DEF StartChild
<1>3. p \in Parents
  BY <1>1, EvidenceFacts DEF CampaignInv
<1>4. now \in Nat
  BY LimitsAssumption DEF CampaignInv, IInv, TypeInv, TypeOK, RunStates
<1>5. /\ state'.phase = "prepare" /\ state'.activeStep = 0
      /\ state'.bestRevision = state'.workingRevision
      /\ state'.stopReason = "none" /\ ~state'.targetMet
  BY <1>2, <1>3, <1>4, StartedFacts
<1>6. \A q \in WorkPhases : results'[q] = None
  BY <1>1
<1>7. "prepare" \in WorkPhases /\ "keep" \in WorkPhases
  BY DEF WorkPhases, CommandPhases, UnlimitedPhases
<1>8. ~Active' /\ ~Prepared'
  BY <1>5, <1>6, <1>7 DEF Active, Prepared
<1> QED
  BY <1>1, <1>5, <1>6, <1>7, <1>8
     DEF HonestInv, FailedInv, FirstInv, BestRefInv, TargetInv, ReportInv, Ending

\* What a report of any run of a campaign claims is so, also where the goal and
\* the protections are held against the first measurement of an earlier run, which
\* a restart brings along (initial in measureCandidate and the report, run.ts).
THEOREM EveryReportIsHonest == CampaignSpec => []ReportHonest
<1>1. CampaignInit => HonestInv
  BY InitHonest DEF CampaignInit
<1>2. ASSUME CampaignInv, HonestInv, [CampaignNext]_campaignVars
      PROVE  HonestInv'
  <2>1. CASE StartChild
    BY <1>2, <2>1, ChildHonest
  <2>2. CASE ~StartChild
    <3>1. IInv /\ [Next]_vars
      BY <1>2, <2>2, RunStep DEF CampaignInv
    <3> QED
      BY <1>2, <3>1, HonestStep
  <2> QED
    BY <2>1, <2>2
<1>3. CampaignInv /\ HonestInv /\ [CampaignNext]_campaignVars => HonestInv'
  BY <1>2
<1>4. CampaignInv /\ HonestInv => ReportHonest
  BY InvReportHonest DEF CampaignInv
<1> QED
  BY <1>1, <1>3, <1>4, CampaignInvariance, PTL DEF CampaignSpec

\* The start of a run goes back to the best revision of the evidence.
LEMMA ChildReturns ==
  ASSUME CampaignInv, StartChild
  PROVE  /\ state'.bestRevision = state.bestRevision
         /\ state'.workingRevision = state.bestRevision
         /\ state'.phase = "prepare"
         /\ pc = "down"
<1> SUFFICES ASSUME NEW p, p = Evidence
             PROVE  /\ state'.bestRevision = state.bestRevision
                    /\ state'.workingRevision = state.bestRevision
                    /\ state'.phase = "prepare"
                    /\ pc = "down"
  OBVIOUS
<1>1. Terminal /\ pc = "down"
  BY DEF StartChild, Terminal
<1>2. p \in Parents /\ p.bestRevision = state.bestRevision
  BY <1>1, EvidenceFacts DEF CampaignInv
<1>3. PICK now \in state.elapsed .. MaxDuration - 1 :
        state' = [Started(p) EXCEPT !.elapsed = now]
  BY DEF StartChild
<1>4. now \in Nat
  BY LimitsAssumption DEF CampaignInv, IInv, TypeInv, TypeOK, RunStates
<1> QED
  BY <1>1, <1>2, <1>3, <1>4, StartedFacts

\* No revision becomes the best one in a campaign but on saved results of its own
\* run that earn it, and no effect of a step happens twice (state.ts, keep;
\* driver.ts, recoverSavedStep).
THEOREM EveryKeepIsEarned == CampaignSpec => KeepEarned /\ EffectOnce
<1>1. CampaignInv /\ [CampaignNext]_campaignVars => [Next]_vars \/ StartChild
  BY RunStep
<1>2. CampaignInv /\ [CampaignNext]_campaignVars =>
        [state'.bestRevision # state.bestRevision =>
         LET rev == state'.bestRevision
             tested == results["test"]
             measured == results["measure"]
             reviewed == results["review"]
             edits == {results[p] : p \in {"implement", "repair"}} \ {None}
         IN  /\ None \notin {tested, measured, reviewed}
             /\ \A r \in {tested, measured, reviewed} :
                   r.outcome # Error /\ r.outcome.revision = rev
             /\ tested.outcome.passed /\ reviewed.outcome.passed
             /\ measured.outcome.valid /\ measured.outcome.improved
             /\ \A e \in edits : e.step < tested.step
             /\ tested.step < measured.step /\ measured.step < reviewed.step
             /\ reviewed.step < state.sequence]_vars
  BY <1>1, EarnedStep, ChildReturns DEF CampaignInv
<1>3. CampaignInv /\ [CampaignNext]_campaignVars =>
        [(pc = "performing" /\ pc' = "performed") => performed < state.sequence]_vars
  BY <1>1, ChildReturns DEF CampaignInv, IInv, SequenceInv
<1> QED
  BY <1>2, <1>3, CampaignInvariance, PTL DEF CampaignSpec, KeepEarned, EffectOnce

\* A whole campaign implements the contract of a run: its runs together replace
\* the best revision only by a candidate that was edited, tested, measured and
\* approved, in that order, and a restart goes back to the best one.
THEOREM CampaignImplementation == CampaignSpec => ImplementsContract
<1>1. CampaignInit => Contract!Init
  BY ContractInit DEF CampaignInit
<1>2. ASSUME CampaignInv, [CampaignNext]_campaignVars
      PROVE  [Contract!Next]_(Contract!contractVars)
  <2>1. CASE StartChild
    <3>1. /\ state'.bestRevision = state.bestRevision
          /\ state'.workingRevision = state.bestRevision
          /\ state'.phase = "prepare"
      BY <1>2, <2>1, ChildReturns
    <3> QED
      BY <3>1 DEF Contract!Next, Contract!Return
  <2>2. CASE ~StartChild
    <3>1. IInv /\ [Next]_vars
      BY <1>2, <2>2, RunStep DEF CampaignInv
    <3> QED
      BY <3>1, ContractStep
  <2> QED
    BY <2>1, <2>2
<1>3. CampaignInv /\ [CampaignNext]_campaignVars => [Contract!Next]_(Contract!contractVars)
  BY <1>2
<1> QED
  BY <1>1, <1>3, CampaignInvariance, PTL DEF CampaignSpec, ImplementsContract, Contract!Spec

=============================================================================
