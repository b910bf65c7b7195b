------------------------------- MODULE TempoStep -------------------------------
(***************************************************************************)
(* One step of a Tempo run that starts processes: a build, the tests, a    *)
(* profile, a benchmark of two batches, and inference by Pi, which either  *)
(* only reads (consult) or edits the worktree with a REPL at its side      *)
(* (edit).  process.ts, repl.ts, test-runner.ts, benchmark-runner.ts,      *)
(* profile-runner.ts, pi-runner.ts, inference.ts, driver.ts.               *)
(*                                                                         *)
(* TempoRun has the whole of it as one action.  Here the processes run on  *)
(* their own while the controller waits for them, stops what they left,    *)
(* reads and saves what they made and decides on the outcome of the step.  *)
(* A command is a leader, whose exit the controller awaits, and helpers    *)
(* that may outlive it in the same systemd scope.                          *)
(***************************************************************************)
EXTENDS Naturals, Sequences, FiniteSets

CONSTANTS Kinds     \* the kinds of step under consideration

ASSUME KindsAssumption ==
    Kinds \subseteq {"build", "test", "profile", "measure", "edit", "consult"}

VARIABLES
    kind,       \* what the step does
    place,      \* where the controller is
    batch,      \* the command at hand, of those the step runs
    leader,     \* of every scope: its leader, or how it ended
    helpers,    \* the scopes with a process besides the leader
    begun,      \* the scopes whose command has left its start record
    cleanup,    \* how the scope of the last command was stopped
    error,      \* something was found wrong with the command
    written,    \* the scopes that changed the worktree since it was committed
    archived,   \* the commands whose logs are saved
    credentials,\* Pi's credentials in its private directory
    record,     \* the saved result: "none", "valid" or "invalid"
    snapped,    \* the edits of the step are committed
    expired,    \* the deadline of the run has passed
    outcome     \* what the step comes to

commandVars == <<kind, batch, cleanup, error, archived>>
processVars == <<leader, helpers, begun, written>>
resultVars == <<credentials, record, snapped, expired>>
stepVars == <<commandVars, processVars, resultVars, place, outcome>>

Scopes == {"build", "test", "profile", "bench", "repeat", "pi", "repl"}
PiKinds == {"edit", "consult"}

Commands == CASE kind = "measure" -> <<"bench", "repeat">>
              [] kind \in PiKinds -> <<"pi">>
              [] OTHER -> <<kind>>
scope == Commands[batch]

Success == {"built", "passed", "not passed", "profiled", "measured",
            "answered", "edited"}
StepOutcomes == Success \cup {"none", "error", "not measured"}
Places == {"begin", "prepare", "launch", "await", "describe", "stop", "check",
           "archive", "judge", "record", "withdraw", "snapshot", "read",
           "close", "done"}

StepTypeOK ==
    /\ kind \in Kinds
    /\ place \in Places
    /\ batch \in 1 .. 2 /\ batch <= Len(Commands)
    /\ leader \in [Scopes -> {"none", "launching", "running", "ok", "failed",
                              "killed"}]
    /\ helpers \subseteq Scopes
    /\ begun \subseteq Scopes
    /\ cleanup \in {"none", "absent", "stopped", "failed"}
    /\ error \in BOOLEAN
    /\ written \subseteq Scopes
    /\ archived \subseteq Scopes
    /\ credentials \in {"absent", "linked", "withdrawn"}
    /\ record \in {"none", "valid", "invalid"}
    /\ snapped \in BOOLEAN /\ expired \in BOOLEAN
    /\ outcome \in StepOutcomes

StepInit ==
    /\ kind \in Kinds
    /\ place = "begin"
    /\ batch = 1
    /\ leader = [s \in Scopes |-> "none"]
    /\ helpers = {} /\ begun = {}
    /\ cleanup = "none"
    /\ error = FALSE
    /\ written = {} /\ archived = {}
    /\ credentials = "absent"
    /\ record = "none"
    /\ snapped = FALSE
    /\ expired \in BOOLEAN
    /\ outcome = "none"

-------------------------------------------------------------------------------
(* The processes.                                                          *)

LeaderLives(s) == leader[s] \in {"launching", "running"}
Live(s) == LeaderLives(s) \/ s \in helpers

\* The wrapper inside the scope leaves the start record and executes the
\* command, or finds no such executable.
CommandStarts(s) ==
    /\ leader[s] = "launching"
    /\ \/ leader' = [leader EXCEPT ![s] = "running"] /\ begun' = begun \cup {s}
       \/ leader' = [leader EXCEPT ![s] = "failed"] /\ UNCHANGED begun
    /\ UNCHANGED <<helpers, written>>

LeaderExits(s) ==
    /\ leader[s] = "running"
    /\ \E status \in {"ok", "failed"} : leader' = [leader EXCEPT ![s] = status]
    /\ UNCHANGED <<helpers, begun, written>>

Fork(s) ==
    /\ leader[s] = "running"
    /\ helpers' = helpers \cup {s}
    /\ UNCHANGED <<leader, begun, written>>

HelperExits(s) ==
    /\ s \in helpers
    /\ helpers' = helpers \ {s}
    /\ UNCHANGED <<leader, begun, written>>

Write(s) ==
    /\ leader[s] = "running" \/ s \in helpers
    /\ written' = written \cup {s}
    /\ UNCHANGED <<leader, helpers, begun>>

CommandEnds(s) == /\ CommandStarts(s) \/ LeaderExits(s)
                  /\ UNCHANGED <<commandVars, resultVars, place, outcome>>
CommandActs(s) == /\ Fork(s) \/ HelperExits(s) \/ Write(s)
                  /\ UNCHANGED <<commandVars, resultVars, place, outcome>>

Processes == \E s \in Scopes : CommandEnds(s) \/ CommandActs(s)

DeadlinePasses ==
    /\ ~expired
    /\ expired' = TRUE
    /\ UNCHANGED <<commandVars, processVars, place, outcome, credentials, record,
                   snapped>>

-------------------------------------------------------------------------------
(* The controller.                                                         *)

At(from, to) == place = from /\ place' = to

\* What is thrown ends the step, once the credentials are withdrawn and the
\* REPL is stopped (the finally clauses).
Throw(to) == place' = to /\ outcome' = "error"

\* startRepl; when it throws, the REPL may not have let itself be stopped.
StartRepl ==
    /\ place = "begin" /\ kind = "edit"
    /\ \/ /\ place' = "prepare" /\ UNCHANGED outcome
          /\ leader' = [leader EXCEPT !["repl"] = "running"]
       \/ /\ Throw("done")
          /\ \E end \in {"none", "running", "killed"} :
                leader' = [leader EXCEPT !["repl"] = end]
    /\ UNCHANGED <<commandVars, helpers, begun, written, resultVars>>

\* The checkout is inspected, and the directory of the step is made.
Inspect ==
    /\ place = "begin" /\ kind # "edit"
    /\ \/ place' = (IF kind = "consult" THEN "prepare" ELSE "launch")
          /\ UNCHANGED outcome
       \/ Throw("done")
    /\ UNCHANGED <<commandVars, processVars, resultVars>>

\* preparePiStep: everything Pi will read is saved; the credentials, when the
\* user has any, are linked last.
PreparePi ==
    /\ place = "prepare"
    /\ \/ place' = "launch" /\ credentials' \in {"absent", "linked"}
          /\ UNCHANGED outcome
       \/ Throw("close") /\ UNCHANGED credentials
    /\ UNCHANGED <<commandVars, processVars, record, snapped, expired>>

\* No batch of a benchmark starts after the deadline.
DeadlineMissed ==
    /\ At("launch", "record") /\ kind = "measure" /\ expired
    /\ error' = TRUE
    /\ UNCHANGED <<kind, batch, cleanup, archived, processVars, resultVars, outcome>>

\* runCommand up to the spawn, or until it throws before; only a build does not
\* catch that.
Launch ==
    /\ place = "launch" /\ ~(kind = "measure" /\ expired)
    /\ \/ /\ place' = "await"
          /\ leader' = [leader EXCEPT ![scope] = "launching"]
          /\ UNCHANGED <<error, outcome>>
       \/ /\ IF kind = "build" THEN Throw("done")
             ELSE place' = "archive" /\ UNCHANGED outcome
          /\ error' = TRUE
          /\ UNCHANGED leader
    /\ cleanup' = "none"
    /\ UNCHANGED <<kind, batch, archived, helpers, begun, written, resultVars>>

\* Mutant: the whole scope is waited for.
AwaitScope ==
    /\ At("await", "describe")
    /\ ~Live(scope)
    /\ UNCHANGED <<commandVars, processVars, resultVars, outcome>>

AwaitLeader ==
    /\ At("await", "describe")
    /\ ~LeaderLives(scope)
    /\ UNCHANGED <<commandVars, processVars, resultVars, outcome>>

\* scopeDescription: is there anything to stop?
DescribeScope ==
    /\ place = "describe"
    /\ IF Live(scope)
       THEN place' = "stop" /\ UNCHANGED cleanup
       ELSE place' = "check" /\ cleanup' = "absent"
    /\ UNCHANGED <<kind, batch, error, archived, processVars, resultVars, outcome>>

\* stopProcessScope: the scope is stopped with everything in it; when that
\* fails, it may have gone in the meantime.
StopScope ==
    /\ At("stop", "check")
    /\ \/ Live(scope) /\ helpers' = helpers \ {scope} /\ cleanup' = "stopped"
       \/ Live(scope) /\ UNCHANGED helpers /\ cleanup' = "failed"
       \/ ~Live(scope) /\ UNCHANGED helpers /\ cleanup' = "absent"
    /\ UNCHANGED <<kind, batch, error, archived, leader, begun, written,
                   resultVars, outcome>>

\* The verdict of runCommand on the command.
CheckStarted ==
    /\ At("check", "archive")
    /\ error' = (cleanup = "failed" \/ scope \notin begun)
    /\ UNCHANGED <<kind, batch, cleanup, archived, processVars, resultVars, outcome>>

Succeeded == leader[scope] = "ok" /\ cleanup # "failed" /\ ~error

\* archiveLogs, which may throw.
Archive ==
    /\ place = "archive"
    /\ \/ place' = "judge" /\ archived' = archived \cup {scope} /\ UNCHANGED outcome
       \/ Throw(IF kind \in PiKinds THEN "withdraw" ELSE "done")
          /\ UNCHANGED archived
    /\ UNCHANGED <<kind, batch, cleanup, error, processVars, resultVars>>

\* Mutant: the worktree is not verified.
AcceptableAnyway == Succeeded

\* The command succeeded and the worktree is as it was.
Acceptable == Succeeded /\ written = {}

\* Mutant: the last batch is not the last.
JudgeEveryBatch ==
    /\ place = "judge" /\ kind = "measure"
    /\ Acceptable
    /\ place' = "launch" /\ batch' = batch + 1
    /\ UNCHANGED <<kind, cleanup, archived, processVars, resultVars, outcome, error>>

\* One batch of a benchmark.  The second one follows a good first one, if the
\* time may suffice.
JudgeBatch ==
    /\ place = "judge" /\ kind = "measure"
    /\ \/ /\ Acceptable /\ batch = 1 /\ ~expired
          /\ place' = "launch" /\ batch' = batch + 1
          /\ UNCHANGED error
       \/ /\ Acceptable /\ batch = 2
          /\ place' = "record"
          /\ UNCHANGED <<batch, error>>
       \/ \* it failed, its results or placement are not valid, or it is too late
          /\ error' = TRUE
          /\ place' = "record"
          /\ UNCHANGED batch
    /\ UNCHANGED <<kind, cleanup, archived, processVars, resultVars, outcome>>

\* The result of a benchmark is valid when both batches are, in time, and
\* their samples vary little enough.  Saving it may throw.
RecordBenchmark ==
    /\ At("record", "done") /\ kind = "measure"
    /\ \/ ~error /\ ~expired /\ record' = "valid" /\ outcome' = "measured"
       \/ record' = "invalid" /\ outcome' = "not measured"
       \/ UNCHANGED record /\ outcome' = "error"
    /\ UNCHANGED <<commandVars, processVars, credentials, snapped, expired>>

\* runTestEffect.  Tests that fail are a result, tests that could not be run as
\* they should are an error.
JudgeTests ==
    /\ At("judge", "done") /\ kind = "test"
    /\ \/ Acceptable /\ record' = "valid" /\ outcome' = "passed"
       \/ /\ ~error /\ leader[scope] = "failed" /\ written = {}
          /\ record' = "valid" /\ outcome' = "not passed"
       \/ record' \in {"none", "invalid"} /\ outcome' = "error"
    /\ UNCHANGED <<commandVars, processVars, credentials, snapped, expired>>

JudgeBuild ==
    /\ At("judge", "done") /\ kind = "build"
    /\ \/ Acceptable /\ record' = "valid" /\ outcome' = "built"
       \/ record' \in {"none", "invalid"} /\ outcome' = "error"
    /\ UNCHANGED <<commandVars, processVars, credentials, snapped, expired>>

\* runProfile, whose recording may also be invalid.
JudgeProfile ==
    /\ At("judge", "done") /\ kind = "profile"
    /\ \/ Acceptable /\ record' = "valid" /\ outcome' = "profiled"
       \/ record' \in {"none", "invalid"} /\ outcome' = "error"
    /\ UNCHANGED <<commandVars, processVars, credentials, snapped, expired>>

\* parsePiEvents: only one guarded session that settled is a response.
ParsePi ==
    /\ place = "judge" /\ kind \in PiKinds
    /\ \/ /\ place' = "record" /\ UNCHANGED outcome
          /\ error' \in (IF Succeeded THEN BOOLEAN ELSE {TRUE})
       \/ Throw("withdraw") /\ UNCHANGED error
    /\ UNCHANGED <<kind, batch, cleanup, archived, processVars, resultVars>>

\* saveInference: a response that does not have the form of its stage, or cites
\* what Pi was not given, is saved as invalid.
SaveInference ==
    /\ place = "record" /\ kind \in PiKinds
    /\ place' = "withdraw"
    /\ \/ record' \in (IF error THEN {"invalid"} ELSE {"valid", "invalid"})
          /\ UNCHANGED outcome
       \/ UNCHANGED record /\ outcome' = "error"
    /\ UNCHANGED <<commandVars, processVars, credentials, snapped, expired>>

\* Mutant: the private directory is always removed.
WithdrawAtOnce ==
    /\ place = "withdraw"
    /\ place' = IF outcome = "error" THEN "close" ELSE "snapshot"
    /\ credentials' = "withdrawn"
    /\ UNCHANGED <<commandVars, processVars, record, snapped, expired, outcome>>

\* The private directory is removed, unless Pi may still be using it.
WithdrawCredentials ==
    /\ place = "withdraw"
    /\ place' = IF outcome = "error" THEN "close" ELSE "snapshot"
    /\ IF cleanup # "failed" THEN credentials' = "withdrawn"
       ELSE UNCHANGED credentials
    /\ UNCHANGED <<commandVars, processVars, record, snapped, expired, outcome>>

\* The edits are committed even when the response is of no use, but not while
\* a process of Pi may still be writing.
SnapshotEdits ==
    /\ place = "snapshot" /\ kind = "edit"
    /\ \/ /\ cleanup # "failed"
          /\ written' = {} /\ snapped' = TRUE
          /\ place' = "read" /\ UNCHANGED outcome
       \/ Throw("close") /\ UNCHANGED <<written, snapped>>
    /\ UNCHANGED <<commandVars, leader, helpers, begun, credentials, record,
                   expired>>

NothingToSnapshot ==
    /\ place = "snapshot" /\ kind = "consult"
    /\ IF cleanup = "failed" THEN Throw("close")
       ELSE place' = "read" /\ UNCHANGED outcome
    /\ UNCHANGED <<commandVars, processVars, resultVars>>

\* readInferenceEffect
ReadResponse ==
    /\ At("read", "close")
    /\ outcome' = CASE record # "valid" -> "error"
                    [] record = "valid" /\ kind = "edit" -> "edited"
                    [] record = "valid" /\ kind = "consult" -> "answered"
    /\ UNCHANGED <<commandVars, processVars, resultVars>>

\* stopRepl, which may throw.
StopRepl ==
    /\ At("close", "done") /\ kind = "edit"
    /\ \/ /\ leader' = [leader EXCEPT !["repl"] = IF LeaderLives("repl")
                                                 THEN "killed" ELSE @]
          /\ helpers' = helpers \ {"repl"}
          /\ UNCHANGED outcome
       \/ outcome' = "error" /\ UNCHANGED <<leader, helpers>>
    /\ UNCHANGED <<commandVars, begun, written, resultVars>>

\* A step that only reads must have changed nothing.
VerifyUnchanged ==
    /\ At("close", "done") /\ kind = "consult"
    /\ outcome' = IF written # {} THEN "error" ELSE outcome
    /\ UNCHANGED <<commandVars, processVars, resultVars>>

StepController ==
    \/ StartRepl \/ Inspect \/ PreparePi \/ DeadlineMissed \/ Launch
    \/ AwaitLeader \/ DescribeScope \/ StopScope \/ CheckStarted \/ Archive
    \/ JudgeBatch \/ RecordBenchmark \/ JudgeTests \/ JudgeBuild \/ JudgeProfile
    \/ ParsePi \/ SaveInference \/ WithdrawCredentials \/ SnapshotEdits
    \/ NothingToSnapshot \/ ReadResponse \/ StopRepl \/ VerifyUnchanged

StepNext == StepController \/ Processes \/ DeadlinePasses

\* The commands end by themselves (they are builds, tests, load generators with
\* a duration, one Pi session); a process they leave behind need not.
Fairness ==
    /\ WF_stepVars(StepController)
    /\ \A s \in Scopes \ {"repl"} : WF_stepVars(CommandEnds(s))

StepSpec == StepInit /\ [][StepNext]_stepVars /\ Fairness

-------------------------------------------------------------------------------
(* Properties.                                                             *)

\* A step only succeeds when all of its commands did: each of them started,
\* ended well and left no process, its logs are saved, and nothing has changed
\* the worktree since it was verified or committed, except that a REPL may have
\* written into it until it was stopped.
VerdictIsReal ==
    (place = "done" /\ outcome \in Success) =>
        /\ record = "valid"
        /\ batch = Len(Commands)
        /\ \A i \in DOMAIN Commands :
              /\ Commands[i] \in begun \cap archived
              /\ leader[Commands[i]] = IF outcome = "not passed" THEN "failed"
                                       ELSE "ok"
        /\ \A s \in Scopes : ~Live(s)
        /\ written \subseteq (IF kind = "edit" THEN {"repl"} ELSE {})

\* Nothing of what Pi did to the worktree escapes the commit that the step
\* reports, and no process of Pi is left to change it afterwards.
SnapshotComplete ==
    /\ snapped => ~Live("pi") /\ "pi" \notin written
    /\ outcome = "edited" => snapped

\* The credentials do not outlive the step, except where a process of Pi may
\* still need them; they are never taken from a Pi that runs.
CredentialsWithdrawn ==
    /\ (place = "done" /\ credentials = "linked") => cleanup = "failed"
    /\ Live("pi") => credentials # "withdrawn"

\* Nothing of Pi outlives the step that ran it: edits, processes, credentials.
PiContained == SnapshotComplete /\ CredentialsWithdrawn

\* The step ends, whatever the commands leave running in the background: only
\* the leader of a command is waited for (process.ts, runCommand).
StepEnds == <>(place = "done")

===============================================================================
