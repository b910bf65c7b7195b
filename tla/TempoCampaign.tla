----------------------------- MODULE TempoCampaign -----------------------------
(***************************************************************************)
(* A campaign of Tempo runs (campaign.ts, and startRun in run.ts): when a  *)
(* run is over, or was interrupted and given up, its evidence is exported  *)
(* and a new run may start from it, after the evidence has been verified:  *)
(* the saved step results are replayed from the first one and must lead to *)
(* the saved state, and every accepted revision must still be justified.   *)
(*                                                                         *)
(* Export and verification read only records that never change once the    *)
(* run is down, so they are one step together with the start of the new    *)
(* run.  Checksums, file identity and the equality of the configurations   *)
(* are left out: the evidence here is always the run's own.                *)
(***************************************************************************)
EXTENDS TempoRun, Sequences, FiniteSetsExt

CONSTANT MaxRuns    \* bound: the runs of a campaign

ASSUME MaxRunsAssumption == MaxRuns \in Nat \ {0}

VARIABLES
    log,    \* every step result that the present run has saved
    runs,   \* the runs started
    spent   \* history: attempts and Pi calls begun, over all runs

campaignVars == <<vars, log, runs, spent>>

LogEntries == [phase: WorkPhases, step: Nat, revision: Revisions,
               outcome: Outcomes(Revisions), detail: Details]

CampaignTypeOK ==
    /\ TypeOK
    /\ log \in Seq(LogEntries)
    /\ runs \in 1 .. MaxRuns
    /\ spent \in [attempts: Nat, piCalls: Nat]

CampaignInit ==
    /\ Init
    /\ log = <<>>
    /\ runs = 1
    /\ spent = [attempts |-> 0, piCalls |-> 0]

-------------------------------------------------------------------------------
(* Verification: verifyParentEvidence.                                     *)

\* The parent run stands still: it ended, or its interrupted step is known to
\* have saved nothing and was given up, with what its Pi process wrote.
Terminal ==
    /\ pc = "down" /\ units = {}
    /\ IF Active
       THEN /\ abandoned /\ ~StepSaved
            /\ state.phase \in inferencePhases => piLogs
       ELSE state.phase = "done" /\ ~abandoned

Carried(of) == IF parent = None THEN 0 ELSE parent[of]

Steps(ps) == {i \in DOMAIN log : log[i].phase \in ps}

\* Mutant: the interrupted step is forgotten.
ReservedSaved(of, ps) == Carried(of) + Cardinality(Steps(ps))

\* The attempts (or Pi calls) that the results and the active step account for.
Reserved(of, ps) ==
    Carried(of) + Cardinality(Steps(ps))
        + (IF Active /\ state.phase \in ps THEN 1 ELSE 0)

ReservationsMatch ==
    /\ Reserved("attemptsStarted", {"start-attempt"})
          = state.attemptsStarted
    /\ Reserved("piCallsStarted", inferencePhases) = state.piCallsStarted
    /\ state.attemptsStarted <= MaxAttempts
    /\ state.piCallsStarted <= MaxPiCalls

InitialTestsPassed ==
    IF log = <<>> THEN state.activeStep = 1 /\ state.phase = "prepare"
    ELSE log[1].phase = "prepare" /\ log[1].outcome.kind = "prepared"

KnownInitial == IF parent = None THEN None ELSE parent.initial

\* The state in which a run begins that carries on from p.
Started(p) ==
    [newRun(p.bestRevision) EXCEPT
        !.initialRevision = IF p.initial # None THEN p.initial.revision
                            ELSE p.bestRevision,
        !.attemptsStarted = p.attemptsStarted,
        !.piCallsStarted = p.piCallsStarted]

Origin == IF parent = None THEN newRun(state.initialRevision)
          ELSE Started(parent)

\* Where the first i results lead; None when one does not follow.  The times
\* of the steps are not saved, only that of the state.
Replay[i \in Nat] ==
    IF i = 0 THEN Origin
    ELSE LET before == Replay[i - 1]
             elapsed == IF i = Len(log) THEN state.elapsed ELSE before.elapsed
             active == beginSavedStep(before, elapsed)
             step == log[i]
         IN  IF /\ before # None
                /\ MayBegin(before, elapsed)
                /\ step.step = active.sequence /\ step.phase = active.phase
                /\ step.revision = active.workingRevision
                /\ MayFinish(active, step.step, step.outcome)
             THEN finishStep(active, step.outcome)
             ELSE None

StepsFollow == Replay[Len(log)] # None

StateFollows ==
    LET replay == Replay[Len(log)] IN
    /\ state.sequence = Len(log) + (IF Active THEN 1 ELSE 0)
    /\ \A f \in {"phase", "workingRevision", "bestRevision", "targetMet"} :
          state[f] = replay[f]
    /\ Active => replay.phase # "done"

\* The valid baseline of the run.  In a restarted one it measures the best
\* revision again.
Requalified ==
    LET found == {i \in Steps({"baseline"}) :
                    log[i].outcome.kind = "measurement" /\ log[i].outcome.valid}
    IN  IF found = {} THEN None ELSE log[Min(found)].detail

VerifiedInitial == IF KnownInitial # None THEN KnownInitial ELSE Requalified

HasBaseline ==
    IF KnownInitial # None THEN Requalified # None \/ Active
    ELSE VerifiedInitial # None \/ state.bestRevision = state.initialRevision

Distance(x, y) == IF x > y THEN x - y ELSE y - x

\* The best revision, measured again: the protected workload still unharmed,
\* and the optimised one within 5 percent of what it was.
StillGood ==
    (KnownInitial # None /\ parent.best # None /\ Requalified # None)
        => /\ protectedPerformance(KnownInitial, Requalified)
           /\ 100 * Distance(Requalified.h1, parent.best.h1)
                 <= 5 * parent.best.h1

\* The measurement that the first accepted candidate had to beat.
StartingBest ==
    IF parent = None \/ parent.best = None THEN VerifiedInitial
    ELSE IF /\ KnownInitial # None /\ Requalified # None
            /\ Requalified.h1 > parent.best.h1
    THEN Requalified
    ELSE parent.best

Keeps == {i \in Steps({"keep"}) : log[i].outcome.kind = "kept"}
LastOf(S) == IF S = {} THEN 0 ELSE Max(S)
PreviousKeep(k) == LastOf({i \in Keeps : i < k})

\* The last passing result for the revision kept at k, since the keep before.
Support(k, phase) ==
    LastOf({i \in Steps({phase}) :
              /\ PreviousKeep(k) < i /\ i < k
              /\ log[i].outcome # Error
              /\ log[i].outcome.revision = log[k].outcome.revision
              /\ IF phase = "measure" THEN log[i].outcome.valid
                 ELSE log[i].outcome.passed})

Supported(k) ==
    /\ 0 < Support(k, "test")
    /\ Support(k, "test") < Support(k, "measure")
    /\ Support(k, "measure") < Support(k, "review")

\* The best measurement once everything up to k was accepted.
BestAfter(k) == IF k = 0 THEN StartingBest
                ELSE log[Support(k, "measure")].detail

\* verifyAcceptedComparison
ComparisonHolds(k) ==
    LET measured == log[Support(k, "measure")]
        best == BestAfter(PreviousKeep(k))
        assessed == assessCandidate(VerifiedInitial, best, measured.detail)
    IN  /\ VerifiedInitial # None /\ best # None
        /\ assessed.improved /\ measured.outcome.improved
        /\ measured.outcome.targetMet = assessed.targetMet

BestIsKept ==
    state.bestRevision =
        IF Keeps # {} THEN log[Max(Keeps)].outcome.revision
        ELSE Origin.bestRevision

\* What verification finds wrong.
Refusals ==
    LET always == {<<"reservations", ReservationsMatch>>,
                   <<"initial tests", InitialTestsPassed>>,
                   <<"step does not follow", StepsFollow>>,
                   <<"state does not follow", StepsFollow => StateFollows>>,
                   <<"no baseline", HasBaseline>>,
                   <<"best is not kept", BestIsKept>>,
                   <<"best has changed", StillGood>>,
                   <<"unsupported", \A k \in Keeps : Supported(k)>>}
        supported == {<<"comparison", ComparisonHolds(k)>> :
                        k \in {i \in Keeps : Supported(i)}}
                     \cup {<<"review cites nothing",
                             log[Support(k, "review")].detail = Citing>> :
                        k \in {i \in Keeps : Supported(i)}}
    IN  {check[1] : check \in {c \in always \cup supported : ~c[2]}}

Evidence ==
    [initial |-> VerifiedInitial, best |-> BestAfter(LastOf(Keeps)),
     bestRevision |-> state.bestRevision,
     initialRevision |-> state.initialRevision,
     attemptsStarted |-> Reserved("attemptsStarted", {"start-attempt"}),
     piCallsStarted |-> Reserved("piCallsStarted", inferencePhases)]

-------------------------------------------------------------------------------
(* The campaign.                                                           *)

BudgetLeft == /\ state.elapsed < MaxDuration
              /\ state.attemptsStarted < MaxAttempts
              /\ state.piCallsStarted < MaxPiCalls

\* startRun with a parent, after exportParentEvidence: a new directory, a new
\* worktree, and what is left of the budget.
StartChild ==
    /\ runs < MaxRuns
    /\ Terminal /\ Refusals = {} /\ BudgetLeft
    /\ \E now \in state.elapsed .. MaxDuration - 1 :
          state' = [Started(Evidence) EXCEPT !.elapsed = now]
    /\ parent' = Evidence
    /\ runs' = runs + 1
    /\ log' = <<>>
    /\ results' = [p \in WorkPhases |-> None]
    /\ report' = None
    /\ pc' = "loop"
    /\ git' = NoWorktree(git.next)
    /\ abandoned' = FALSE /\ piLogs' = FALSE
    /\ performed' = 0
    /\ UNCHANGED <<effect, units, spent>>

BeginCounted ==
    /\ BeginStep
    /\ spent' = [attempts |-> spent.attempts
                    + (IF state'.phase = "start-attempt" THEN 1 ELSE 0),
                 piCalls |-> spent.piCalls
                    + (IF state'.phase \in inferencePhases THEN 1 ELSE 0)]
    /\ UNCHANGED <<log, runs>>

SaveLogged ==
    /\ SaveResult
    /\ log' = Append(log, [phase |-> state.phase,
                           step |-> results'[state.phase].step,
                           revision |-> results'[state.phase].revision,
                           outcome |-> results'[state.phase].outcome,
                           detail |-> results'[state.phase].detail])
    /\ UNCHANGED <<runs, spent>>

CampaignNext ==
    \/ BeginCounted
    \/ SaveLogged
    \/ /\ performLiveStep \/ Advance \/ WriteReport \/ Crash \/ Operator
       /\ UNCHANGED <<log, runs, spent>>
    \/ StartChild

CampaignSpec == CampaignInit /\ [][CampaignNext]_campaignVars

-------------------------------------------------------------------------------
(* Properties.                                                             *)

\* All runs of a campaign together stay within the limits of the first one,
\* the interrupted steps counted (README "reservations include all preceding
\* runs"; the counts in verifyParentEvidence and startRun).
CampaignBudget ==
    /\ spent.attempts <= MaxAttempts
    /\ spent.piCalls <= MaxPiCalls

\* The rate of h1 that an accepted candidate has to beat.
Standing ==
    LET kept == BestAfter(LastOf(Keeps)) IN IF kept = None THEN 0 ELSE kept.h1

\* Restarts and repeated measurements never lower what a candidate has to
\* beat, and never change the initial measurement that the goal and the
\* protections refer to (Best in run.ts and best in campaign.ts agree).
YardstickHolds ==
    [][<<log, parent>>' # <<log, parent>> =>
          /\ Standing' >= Standing
          /\ VerifiedInitial # None => VerifiedInitial' = VerifiedInitial]_campaignVars

\* A limit turned the step in which the run died.
InterruptedTurn ==
    Active /\ StepsFollow /\ checkLimits(Replay[Len(log)], state.elapsed) # {}

\* Evidence that a run of this program has left is only ever refused for one
\* of the reasons for which a restart makes no sense; it is never found
\* inconsistent, however the run was interrupted, recovered and resumed.  The
\* one exception is the interrupted turn, which the replay does not make.
RestartKnown ==
    (Terminal /\ state.elapsed < MaxDuration) =>
        Refusals \subseteq
            {"initial tests", "no baseline", "best has changed",
             "review cites nothing"}
            \cup (IF InterruptedTurn THEN {"state does not follow"} ELSE {})

\* Restarts neither leave the states that the schemas of state and evidence
\* describe nor buy more work than the campaign was given, and evidence is only
\* refused for a reason.
CampaignSound == CampaignTypeOK /\ CampaignBudget /\ RestartKnown
===============================================================================
