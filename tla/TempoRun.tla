------------------------------- MODULE TempoRun -------------------------------
(***************************************************************************)
(* One optimisation run of Tempo (driver.ts, run.ts, workspace.ts): the    *)
(* controller that repeats "reserve a step, perform it, save its result,   *)
(* advance the state" over a store that survives it, the Git worktree and  *)
(* refs it edits, and the systemd scopes its commands run in.  The         *)
(* controller may die between any two of its writes; an operator then      *)
(* recovers the interrupted step, if its result was saved, and resumes.    *)
(*                                                                         *)
(* An effect is one action, with every way it can end; what goes on inside *)
(* a command is the subject of TempoStep.                                  *)
(***************************************************************************)
EXTENDS TempoState

CONSTANTS
    Rates,          \* the h1 rates a measurement may yield
    GuardedRates,   \* the h2 rates a measurement may yield
    Rival,          \* the rate of the best competitor
    Proposals       \* the actions an analysis may propose

ASSUME RatesAssumption ==
    /\ Rates \subseteq Nat \ {0} /\ Rates # {}
    /\ GuardedRates \subseteq Nat \ {0} /\ GuardedRates # {}
    /\ Rival \in Nat
    /\ Proposals \subseteq {"change", "research", "profile", "stop"}

VARIABLES
    state,      \* the saved resource <run>-state
    results,    \* the saved step results, the latest of every phase
    report,     \* the saved resource <run>-report, or None
    pc,         \* where the controller is; "down": there is none
    effect,     \* what the controller holds of the step it has performed
    git,        \* the worktree and the refs under refs/tempo/<run>
    units,      \* the process scopes of the run that are alive
    abandoned,  \* the receipt abandoned.json is in the directory of the run
    piLogs,     \* the logs of the Pi process that a death interrupted exist
    parent,     \* what the verified evidence of a parent run says, or None
    performed   \* history: the last step whose effect took place

operator == <<abandoned, piLogs, parent>>
vars == <<state, results, report, pc, effect, git, units, operator, performed>>

Revisions == Nat \ {0}
Units == ({"pi", "test", "build"} \X Nat)
         \cup ({"bench", "repeat", "profile", "repl"} \X {0})
Measured == [revision: Revisions, h1: Rates, h2: GuardedRates, rival: {Rival}]
\* A review that cites the tests and the measurement of its candidate.
Citing == [cites |-> TRUE]
Details == Measured \cup {None, Citing}
Effects == [outcome: Outcomes(Revisions), detail: Details]
Records == [step: Nat, revision: Revisions, outcome: Outcomes(Revisions),
            detail: Details]
Reports == [valid: BOOLEAN, bestRevision: Revisions, targetMet: BOOLEAN]
Parents == [initial: Measured \cup {None}, best: Measured \cup {None},
            bestRevision: Revisions, initialRevision: Revisions,
            attemptsStarted: Nat, piCallsStarted: Nat]

TypeOK ==
    /\ state \in RunStates(Revisions)
    /\ state.activeStep \in {0, state.sequence}
    /\ results \in [WorkPhases -> Records \cup {None}]
    /\ report \in Reports \cup {None}
    /\ pc \in {"down", "loop", "performing", "performed", "saved"}
    /\ effect \in Effects \cup {None}
    /\ git \in [worktree: {"absent", "created", "saved"}, head: Nat,
                dirty: BOOLEAN, best: Nat, saved: SUBSET Revisions,
                next: Revisions]
    /\ units \subseteq Units
    /\ abandoned \in BOOLEAN /\ piLogs \in BOOLEAN
    /\ parent \in Parents \cup {None}
    /\ performed \in Nat

NoWorktree(next) == [worktree |-> "absent", head |-> 0, dirty |-> FALSE,
                     best |-> 0, saved |-> {}, next |-> next]

Init ==
    /\ state = newRun(1)
    /\ results = [p \in WorkPhases |-> None]
    /\ report = None
    /\ pc = "loop"
    /\ effect = None
    /\ git = NoWorktree(2)
    /\ units = {}
    /\ abandoned = FALSE /\ piLogs = FALSE
    /\ parent = None
    /\ performed = 0

-------------------------------------------------------------------------------
(* The worktree and its refs.                                              *)

\* createWorkspace: the initial ref and a detached worktree at that revision.
Opened(rev) == [git EXCEPT !.worktree = "created", !.head = rev,
                           !.saved = @ \cup {rev}]

\* verifyWorkspaceRevision
WorktreeIs(rev) == git.worktree = "saved" /\ git.head = rev /\ ~git.dirty

\* snapshotWorkspace: a commit if anything changed, under a ref of its own.
Snapshot(g) ==
    IF g.dirty
    THEN [g EXCEPT !.head = g.next, !.dirty = FALSE, !.next = @ + 1,
                   !.saved = @ \cup {g.next}]
    ELSE [g EXCEPT !.saved = @ \cup {g.head}]

\* Mutant: the worktree stays where it is.
SelectNothing(g, rev) == g

\* selectWorkspaceRevision, of a clean worktree.
Select(g, rev) == [g EXCEPT !.head = rev]

\* A command may leave files behind in the worktree.
Touched(g) == {g, [g EXCEPT !.dirty = TRUE]}

-------------------------------------------------------------------------------
(* The process scopes.                                                     *)

\* The scopes of the commands that the active step runs.  The two batches of
\* a benchmark have a scope each.
UnitsOf(s) ==
    CASE s.phase \in {"implement", "repair"} -> {<<"pi", s.sequence>>, <<"repl", 0>>}
      [] s.phase \in {"analyze", "research", "review"} -> {<<"pi", s.sequence>>}
      [] s.phase \in {"prepare", "test"} -> {<<"test", s.sequence>>}
      [] s.phase = "start-attempt" -> {<<"build", s.sequence>>}
      [] s.phase \in {"baseline", "measure"} -> {<<"bench", 0>>, <<"repeat", 0>>}
      [] s.phase = "profile" -> {<<"profile", 0>>}
      [] OTHER -> {}

\* What may be left of them: a second batch only starts when nothing is left
\* of the first.
LeftOf(s) == {left \in SUBSET UnitsOf(s) :
                 ~({<<"bench", 0>>, <<"repeat", 0>>} \subseteq left)}

\* Mutant: the REPL is forgotten.
ScopesStoppedButRepl ==
    {<<"bench", 0>>, <<"profile", 0>>}
    \cup {u \in units : u[1] \in {"pi", "test", "build"}}

\* The scopes that the finish step stops: those of the latest step of each
\* phase it lists, and those with the fixed names.  The second batches are
\* not among them.
ScopesStopped ==
    {<<"bench", 0>>, <<"profile", 0>>}
    \cup (IF git.worktree = "saved" THEN {<<"repl", 0>>} ELSE {})
    \cup {<<"pi", results[p].step>> :
              p \in {q \in inferencePhases : results[q] # None}}
    \cup {<<"test", results[p].step>> :
              p \in {q \in {"test", "prepare"} : results[q] # None}}
    \cup {<<"build", results[p].step>> :
              p \in {q \in {"start-attempt"} : results[q] # None}}

-------------------------------------------------------------------------------
(* The effects of performLiveStep.                                         *)

Failed == [outcome |-> Error, detail |-> None]

Performing(ps) ==
    /\ pc = "performing" /\ state.phase \in ps
    /\ pc' = "performed"
    /\ performed' = state.sequence
    /\ UNCHANGED <<state, results, report, operator>>

\* The step did its work; saving its detail or the check of the support
\* snapshot that follows may still turn it into an error.
Ends(o, detail) ==
    effect' \in {Failed, [outcome |-> o, detail |-> detail]}

\* The command of the step failed: its scopes may have survived it.
CommandFails ==
    /\ effect' = Failed
    /\ \E left \in LeftOf(state) : units' = units \cup left
    /\ git' \in Touched(git)

\* verifyWorkspaceRevision, or another check, throws before the work begins.
Refuse ==
    /\ Performing(WorkPhases \ {"prepare", "finish"})
    /\ effect' = Failed
    /\ UNCHANGED <<git, units>>

Prepare ==
    /\ Performing({"prepare"})
    /\ \/ \* createWorkspace throws, before or after it added the worktree
          /\ git' \in {git, Opened(state.workingRevision)}
          /\ effect' = Failed
          /\ UNCHANGED units
       \/ \* the initial build and tests do not pass
          /\ git' \in Touched([Opened(state.workingRevision)
                                  EXCEPT !.worktree = "saved"])
          /\ effect' = Failed
          /\ \E left \in LeftOf(state) : units' = units \cup left
       \/ /\ git' = [Opened(state.workingRevision)
                        EXCEPT !.worktree = "saved", !.best = state.bestRevision]
          /\ Ends([kind |-> "prepared"], None)
          /\ UNCHANGED units

\* A command that only has to succeed: the build of an attempt, a profile.
RunCommand ==
    /\ Performing({"start-attempt", "profile"})
    /\ WorktreeIs(state.workingRevision)
    /\ \/ CommandFails
       \/ /\ Ends([kind |-> KindOf(state.phase)], None)
          /\ UNCHANGED <<git, units>>

RunTests ==
    /\ Performing({"test"})
    /\ WorktreeIs(state.workingRevision)
    /\ \/ CommandFails
       \/ /\ \E passed \in BOOLEAN :
                Ends([kind |-> "tests", revision |-> state.workingRevision,
                      passed |-> passed], None)
          /\ UNCHANGED <<git, units>>

\* Inference that reads only: analysis, research, review.
Consult ==
    /\ Performing({"analyze", "research", "review"})
    /\ WorktreeIs(state.workingRevision)
    /\ \/ CommandFails
       \/ /\ state.phase = "analyze"
          /\ \E action \in Proposals :
                Ends([kind |-> "analysis", action |-> action], None)
          /\ UNCHANGED <<git, units>>
       \/ /\ state.phase = "research"
          /\ Ends([kind |-> "research"], None)
          /\ UNCHANGED <<git, units>>
       \/ /\ state.phase = "review"
          /\ \E passed \in BOOLEAN, detail \in {None, Citing} :
                /\ detail = Citing => passed
                /\ Ends([kind |-> "review", revision |-> state.workingRevision,
                         passed |-> passed], detail)
          /\ UNCHANGED <<git, units>>

\* Inference that edits.  The snapshot is taken once the process has stopped
\* and before its response is read, which may then turn out invalid; the REPL
\* is stopped last; until then it may write into the worktree again.
Edit ==
    /\ Performing({"implement", "repair"})
    /\ WorktreeIs(state.workingRevision)
    /\ \/ CommandFails
       \/ \E g \in Touched(git) :
             /\ git' \in Touched(Snapshot(g))
             /\ \/ /\ Ends([kind |-> "edited", revision |-> git'.head], None)
                   /\ UNCHANGED units
                \/ effect' = Failed /\ units' = units \cup {<<"repl", 0>>}

Initial(current) ==
    IF parent # None /\ parent.initial # None THEN parent.initial
    ELSE IF state.phase = "baseline" THEN current
    ELSE results["baseline"].detail

\* Mutant: what an earlier run has kept does not count.
BestOfThisRun(current) ==
    IF results["keep"] # None THEN results["keep"].detail ELSE Initial(current)

\* The measurement a candidate has to beat: that of the last kept revision;
\* before any is kept, the better one of the parent's and of this run's own
\* measurement of the parent's best revision.
Best(current) ==
    LET inherited == parent # None /\ parent.best # None IN
    IF results["keep"] # None THEN results["keep"].detail
    ELSE IF /\ inherited /\ state.phase = "measure"
            /\ results["baseline"].detail.h1 > parent.best.h1
    THEN results["baseline"].detail
    ELSE IF inherited THEN parent.best
    ELSE Initial(current)

Verdict(m) ==
    LET assessed == assessCandidate(Initial(m), Best(m), m) IN
    [kind |-> "measurement", revision |-> m.revision, valid |-> TRUE,
     inconclusive |-> FALSE, targetMet |-> assessed.targetMet,
     improved |-> assessed.improved]

NoMeasurement(inconclusive) ==
    [kind |-> "measurement", revision |-> state.workingRevision,
     valid |-> FALSE, inconclusive |-> inconclusive, targetMet |-> FALSE,
     improved |-> FALSE]

Requalifies(m) ==
    (parent # None /\ parent.initial # None)
        => protectedPerformance(parent.initial, m)

Measure ==
    /\ Performing({"baseline", "measure"})
    /\ WorktreeIs(state.workingRevision)
    /\ \/ CommandFails
       \/ \* a command of the benchmark fails: there is no measurement
          /\ Ends(NoMeasurement(state.phase = "baseline"), None)
          /\ \E left \in LeftOf(state) : units' = units \cup left
          /\ git' \in Touched(git)
       \/ \* the deadline passes, or the samples vary too much
          /\ \E inconclusive \in BOOLEAN : Ends(NoMeasurement(inconclusive), None)
          /\ UNCHANGED <<git, units>>
       \/ /\ \E h1 \in Rates, h2 \in GuardedRates :
                LET m == [revision |-> state.workingRevision, h1 |-> h1,
                          h2 |-> h2, rival |-> Rival]
                IN  IF state.phase = "baseline" /\ ~Requalifies(m)
                    THEN effect' = Failed
                    ELSE Ends(Verdict(m), m)
          /\ UNCHANGED <<git, units>>

Keep ==
    /\ Performing({"keep"})
    /\ WorktreeIs(state.workingRevision)
    /\ git' = [git EXCEPT !.best = state.workingRevision]
    /\ Ends([kind |-> "kept", revision |-> state.workingRevision],
            results["measure"].detail)
    /\ UNCHANGED units

Discard ==
    /\ Performing({"discard"})
    /\ WorktreeIs(state.workingRevision)
    /\ state.bestRevision \in Snapshot(git).saved
    /\ git' = Select(Snapshot(git), state.bestRevision)
    /\ Ends([kind |-> "discarded", revision |-> state.bestRevision], None)
    /\ UNCHANGED units

\* Bound: the cleanup of a run fails once, and every retry succeeds.
CleanupMayFail == results["finish"] = None

\* The finish step stops what is left of the run, saves the unfinished work
\* and goes back to the best revision.
Finish ==
    /\ Performing({"finish"})
    /\ \/ \* a scope cannot be stopped or Git refuses
          /\ CleanupMayFail
          /\ \E left \in SUBSET (units \cap ScopesStopped) :
                units' = (units \ ScopesStopped) \cup left
          /\ git' \in {git} \cup (IF git.worktree = "saved"
                                 THEN {Snapshot(git)} ELSE {})
          /\ effect' = Failed
       \/ /\ units' = units \ ScopesStopped
          /\ IF git.worktree = "saved"
             THEN /\ state.bestRevision \in Snapshot(git).saved
                  /\ git' = Select(Snapshot(git), state.bestRevision)
             ELSE UNCHANGED git
          /\ Ends([kind |-> "finished"], None)
          /\ effect' = Failed => CleanupMayFail

performLiveStep ==
    \/ Refuse \/ Prepare \/ RunCommand \/ RunTests \/ Consult \/ Edit \/ Measure
    \/ Keep \/ Discard \/ Finish

-------------------------------------------------------------------------------
(* The controller: runSavedStep in the loop of executeRun.                 *)

Active == state.activeStep # 0
StepSaved == /\ results[state.phase] # None
             /\ results[state.phase].step = state.sequence

\* The run is reserved a step, at a time no earlier than any before.
BeginStep ==
    /\ pc = "loop" /\ state.phase # "done"
    /\ \E t \in state.elapsed .. MaxDuration :
          /\ MayBegin(state, t)
          /\ state' = beginSavedStep(state, t)
    /\ pc' = "performing"
    /\ UNCHANGED <<results, report, effect, git, units, operator, performed>>

\* A result that would not complete the step is saved as an error.
SaveResult ==
    /\ pc = "performed"
    /\ results' =
         [results EXCEPT ![state.phase] =
            [step |-> state.sequence, revision |-> state.workingRevision,
             outcome |-> IF MayFinish(state, state.sequence, effect.outcome)
                         THEN effect.outcome ELSE Error,
             detail |-> effect.detail]]
    /\ pc' = "saved"
    /\ effect' = None
    /\ UNCHANGED <<state, report, git, units, operator, performed>>

\* The state advances; a failed finish step ends the controller.
Advance ==
    /\ pc = "saved"
    /\ state' = finishStep(state, results[state.phase].outcome)
    /\ pc' = IF state.phase = "finish" /\ state'.phase # "done" THEN "down"
             ELSE "loop"
    /\ UNCHANGED <<results, report, effect, git, units, operator, performed>>

\* outputs.prepare and outputs.baseline say that the best revision is sound.
BestVerified ==
    /\ results["prepare"] # None
    /\ results["prepare"].outcome.kind = "prepared"
    /\ results["baseline"] # None
    /\ results["baseline"].outcome.kind = "measurement"
    /\ results["baseline"].outcome.valid

WriteReport ==
    /\ pc = "loop" /\ state.phase = "done"
    /\ report' = [valid |-> /\ BestVerified
                            /\ state.stopReason \notin
                                  {"invalid-measurement", "error"},
                  bestRevision |-> state.bestRevision,
                  targetMet |-> state.targetMet]
    /\ pc' = "down"
    /\ UNCHANGED <<state, results, effect, git, units, operator, performed>>

\* The controller dies; a command it was running may outlive it.
Crash ==
    /\ pc # "down"
    /\ pc' = "down"
    /\ effect' = None
    /\ units' \in IF pc = "performing"
                  THEN {units \cup left : left \in LeftOf(state)} ELSE {units}
    /\ piLogs' \in IF pc = "performing" /\ units' = units THEN BOOLEAN
                   ELSE {TRUE}
    /\ UNCHANGED <<state, results, report, git, abandoned, parent, performed>>

\* Mutant: an interrupted step is performed again.
ResumeStep ==
    /\ pc = "down" /\ ~abandoned
    /\ pc' = IF Active THEN "performing" ELSE "loop"
    /\ piLogs' = FALSE
    /\ UNCHANGED <<state, results, report, effect, git, units, abandoned,
                   parent, performed>>

\* tempo.resume
Resume ==
    /\ pc = "down" /\ ~Active /\ ~abandoned
    /\ pc' = "loop"
    /\ piLogs' = FALSE
    /\ UNCHANGED <<state, results, report, effect, git, units, abandoned,
                   parent, performed>>

\* tempo.recover: only with the result of the very step, saved.
Recover ==
    /\ pc = "down" /\ Active /\ ~abandoned
    /\ StepSaved
    /\ results[state.phase].revision = state.workingRevision
    /\ MayFinish(state, state.sequence, results[state.phase].outcome)
    /\ state' = finishStep(state, results[state.phase].outcome)
    /\ UNCHANGED <<results, report, pc, effect, git, units, operator, performed>>

\* The operator, having seen that the controller is gone, stops what it left
\* running; and gives the run up, which an interrupted step allows.
StopChildren ==
    /\ pc = "down" /\ units # {}
    /\ units' = {}
    /\ UNCHANGED <<state, results, report, pc, effect, git, operator, performed>>

Abandon ==
    /\ pc = "down" /\ Active /\ ~abandoned /\ units = {}
    /\ abandoned' = TRUE
    /\ UNCHANGED <<state, results, report, pc, effect, git, units, piLogs,
                   parent, performed>>

Controller == BeginStep \/ performLiveStep \/ SaveResult \/ Advance \/ WriteReport

Operator == Resume \/ Recover \/ StopChildren \/ Abandon

Next == Controller \/ Crash \/ Operator

\* The controller runs on until it ends or dies; no operator has to come.
Spec == Init /\ [][Next]_vars /\ WF_vars(Controller)

-------------------------------------------------------------------------------
(* Properties.                                                             *)

\* A revision becomes the best one (state.ts, keep) only on the strength of
\* saved results of its own, in this order: passing tests, an improving
\* measurement, a passing review; and no edit came after the tests.
KeepEarned ==
    [][state'.bestRevision # state.bestRevision =>
         LET rev == state'.bestRevision
             tested == results["test"]
             measured == results["measure"]
             reviewed == results["review"]
             edits == {results[p] : p \in {"implement", "repair"}} \ {None}
         IN  /\ None \notin {tested, measured, reviewed}
             /\ \A r \in {tested, measured, reviewed} :
                   r.outcome # Error /\ r.outcome.revision = rev
             /\ tested.outcome.passed /\ reviewed.outcome.passed
             /\ measured.outcome.valid /\ measured.outcome.improved
             /\ \A e \in edits : e.step < tested.step
             /\ tested.step < measured.step /\ measured.step < reviewed.step
             /\ reviewed.step < state.sequence]_vars

\* Whatever the run went through, deaths and failed steps included, a run
\* that is done has left its worktree clean and at the best revision, and
\* has left none of its processes running (run.ts, finish), but for a repeated
\* batch of a benchmark, whose scope the finish step does not stop.
FinishedClean ==
    state.phase = "done" =>
        /\ git.worktree = "saved" => WorktreeIs(state.bestRevision)
        /\ units \subseteq {<<"repeat", 0>>}

\* What a run saves is always a state the schemas of schemas.ts describe, and
\* the last of them is what the worktree and the processes show.
RunSound == TypeOK /\ FinishedClean

\* The saved state and the worktree agree whenever a step is performed that
\* works on the code: it is at the revision that verifyWorkspaceRevision looks
\* for, and what the REPL still wrote after the snapshot of an edit is only
\* ever met by the tests that follow it.  A revision to go back to is always
\* kept by a ref.
WorktreeFollows ==
    pc = "performing" =>
        /\ state.phase \notin {"prepare", "finish"} =>
              /\ git.worktree = "saved" /\ git.head = state.workingRevision
              /\ git.dirty => state.phase = "test"
        /\ git.worktree = "saved" => state.bestRevision \in git.saved

\* A report that calls the run valid rests on no failed step, and the best
\* ref of Git is the revision it names; one that claims the target was met
\* names a revision whose own measurement met the goal, against the initial
\* measurement and with the protected workload unharmed.
ReportHonest ==
    (report # None /\ state.phase = "done") =>
        /\ report.valid =>
              /\ \A p \in WorkPhases : results[p] # None => results[p].outcome # Error
              /\ git.best = report.bestRevision
        /\ report.targetMet =>
              LET m == IF results["keep"] # None THEN results["keep"].detail
                       ELSE results["baseline"].detail
              IN  /\ m # None /\ m.revision = report.bestRevision
                  /\ assessGoal(Initial(m), m)
                  /\ protectedPerformance(Initial(m), m)

\* No step's effect takes place twice, whatever dies in between: a step whose
\* result was not saved is never performed again (driver.ts, recoverSavedStep
\* and the guard of beginStep).
EffectOnce ==
    [][(pc = "performing" /\ pc' = "performed")
         => performed < state.sequence]_vars

\* The run ends: left alone, the controller always comes to a stop, for every
\* cycle of phases uses up Pi calls or attempts (control.ts, checkLimits).
RunEnds == (pc # "down") ~> (pc = "down")

\* The order that the promise to accept only tested, measured and reviewed
\* code rests on.
Contract ==
    INSTANCE TempoContract WITH
        best <- state.bestRevision,
        candidate <- state.workingRevision,
        stage <- CASE state.phase = "test" -> "edited"
                   [] state.phase = "measure" -> "tested"
                   [] state.phase = "review" -> "measured"
                   [] state.phase = "keep" -> "approved"
                   [] OTHER -> "none"

\* The run implements the contract.
ImplementsContract == Contract!Spec

===============================================================================
