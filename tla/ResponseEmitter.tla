-------------------------- MODULE ResponseEmitter --------------------------
(***************************************************************************)
(* The response emitter of one request (H2OResponseEmitter, response.clj): *)
(* which of several calls commits the final response and along which path  *)
(* it goes, when the response writer is made and stopped, and how close    *)
(* callbacks are collected, chained and run.  Application threads call it  *)
(* concurrently; the event-loop worker retires the request when it likes.  *)
(*                                                                         *)
(* Bodies are left out: a call is one of Calls.  "complete" is a response  *)
(* with a body that fits the fixed path, "head" a response map without     *)
(* close, "chunk" and "last" are body data without and with close.         *)
(***************************************************************************)
EXTENDS Integers, Sequences, SequencesExt

CONSTANTS Threads,
          MaxCalls    \* bound on the calls of all threads together

ASSUME EmitterAssumption == MaxCalls \in Nat

Calls == {"complete", "head", "chunk", "last", "inform", "close", "onClose"}

VARIABLES
  committed,        \* committed_: nothing, an informational mark, or the final head
  writer,           \* the delayed response writer: not realized, running, stopped
  phase, callbacks, \* lifecycle_
  tasks,            \* callback tasks in the order of callback-tail_'s chain
  ran,              \* callbacks run so far; a callback is its registration number
  registered,
  sent,             \* what the ring and the mailbox accepted, in order
  request,          \* "live" until native cleanup retires its entry
  accepting,        \* the worker's mailbox and receiver take messages
  workerPc,
  calls,                                \* made so far
  pc, call, seen, hasWriter, result     \* of each thread

lifeVars == <<phase, callbacks, tasks, ran, registered>>
workVars == <<request, accepting, workerPc>>
localVars == <<call, seen, hasWriter, calls, result>>
vars == <<committed, writer, lifeVars, sent, workVars, pc, localVars>>

ThreadPcs == {"idle", "open", "mark", "inform", "read", "commit", "cas", "fixed", "generic",
              "start", "stopWriter", "write", "blocked", "closeWriter", "beginClose",
              "outClose", "terminal", "register"}

TypeOK ==
  /\ committed \in {"nothing", "informational", "head"}
  /\ writer \in {"none", "running", "stopped"}
  /\ phase \in {"open", "closing", "closed"}
  /\ registered \in Nat /\ callbacks \in Seq(1..registered)
  /\ tasks \in Seq([ids : Seq(1..registered), stage : {"reserved", "submitted", "run"}])
  /\ ran \in Seq(1..registered)
  /\ sent \in Seq({"informational", "ring", "fixed", "start", "data"})
  /\ request \in {"live", "gone"} /\ accepting \in BOOLEAN
  /\ workerPc \in {"poll", "stopWriter", "terminal", "done"}
  /\ pc \in [Threads -> ThreadPcs] /\ call \in [Threads -> Calls \cup {"none"}]
  /\ seen \in [Threads -> {"nothing", "informational"}]
  /\ hasWriter \in [Threads -> BOOLEAN] /\ calls \in 0..MaxCalls
  /\ result \in [Threads -> {"none", "true", "false", "ignored", "closed", "threw"}]

Init ==
  /\ committed = "nothing" /\ writer = "none"
  /\ phase = "open" /\ callbacks = <<>> /\ tasks = <<>> /\ ran = <<>> /\ registered = 0
  /\ sent = <<>> /\ request = "live" /\ accepting = TRUE /\ workerPc = "poll"
  /\ pc = [t \in Threads |-> "idle"] /\ call = [t \in Threads |-> "none"]
  /\ seen = [t \in Threads |-> "nothing"] /\ hasWriter = [t \in Threads |-> FALSE]
  /\ calls = 0 /\ result = [t \in Threads |-> "none"]

-----------------------------------------------------------------------------
At(t, from, to) == pc[t] = from /\ pc' = [pc EXCEPT ![t] = to]
Returns(t, r) == result' = [result EXCEPT ![t] = r]
Created == writer # "none"
Realized == IF Created THEN writer ELSE "running"    \* forcing the delay

\* An application thread calls the emitter.
Call(t) ==
  /\ pc[t] = "idle" /\ calls < MaxCalls
  /\ \E c \in Calls :
       /\ call' = [call EXCEPT ![t] = c]
       /\ pc' = [pc EXCEPT ![t] = CASE c = "close" -> "closeWriter"
                                    [] c = "onClose" -> "register"
                                    [] OTHER -> "open"]
  /\ calls' = calls + 1
  /\ Returns(t, "none")
  /\ UNCHANGED <<committed, writer, lifeVars, sent, workVars, seen, hasWriter>>

\* open?: the first thing emit! asks.
IsOpen == phase = "open" /\ writer # "stopped"

Open(t) ==
  /\ At(t, "open", IF ~IsOpen THEN "idle" ELSE IF call[t] = "inform" THEN "mark"
                   ELSE IF call[t] \in {"chunk", "last"} THEN "read" ELSE "commit")
  /\ Returns(t, IF IsOpen THEN "none" ELSE "false")
  /\ UNCHANGED <<committed, writer, lifeVars, sent, workVars, call, seen, hasWriter, calls>>

\* mark-informational!
Mark(t) ==
  /\ At(t, "mark", IF committed = "head" THEN "idle" ELSE "inform")
  /\ committed' = IF committed = "head" THEN "head" ELSE "informational"
  /\ Returns(t, IF committed = "head" THEN "ignored" ELSE "none")
  /\ UNCHANGED <<writer, lifeVars, sent, workVars, call, seen, hasWriter, calls>>

Inform(t) ==
  /\ At(t, "inform", "idle")
  /\ sent' = IF accepting THEN Append(sent, "informational") ELSE sent
  /\ Returns(t, IF accepting THEN "true" ELSE "false")
  /\ UNCHANGED <<committed, writer, lifeVars, workVars, call, seen, hasWriter, calls>>

\* Body data asks for itself whether a head is committed.
Read(t) ==
  /\ At(t, "read", IF committed = "head" THEN "write" ELSE "commit")
  /\ UNCHANGED <<committed, writer, lifeVars, sent, workVars, localVars>>

\* commit-final! reads the state it means to replace.
Commit(t) ==
  /\ At(t, "commit", IF committed = "head" THEN "idle" ELSE "cas")
  /\ seen' = [seen EXCEPT ![t] = IF committed = "head" THEN @ ELSE committed]
  /\ Returns(t, IF committed = "head" THEN "ignored" ELSE "none")
  /\ UNCHANGED <<committed, writer, lifeVars, sent, workVars, call, hasWriter, calls>>

\* Mutant: the head is set without comparing.
CommitSet(t) ==
  /\ At(t, "cas", IF call[t] = "complete" THEN "fixed" ELSE "generic")
  /\ committed' = "head"
  /\ UNCHANGED <<writer, lifeVars, sent, workVars, localVars>>

\* Who fails the compare-and-set gets nil.
CommitCas(t) ==
  LET wins == committed = seen[t] IN
  /\ At(t, "cas", IF ~wins THEN "idle"
                  ELSE IF call[t] = "complete" THEN "fixed" ELSE "generic")
  /\ committed' = IF wins THEN "head" ELSE committed
  /\ Returns(t, IF wins THEN "none" ELSE "ignored")
  /\ UNCHANGED <<writer, lifeVars, sent, workVars, call, seen, hasWriter, calls>>

\* A fixed response goes through the ring, after an informational one through the
\* mailbox; either may be full, and then the generic path takes the response.
FixedAccepted(t) ==
  /\ At(t, "fixed", "stopWriter")
  /\ accepting
  /\ sent' = Append(sent, IF seen[t] = "nothing" THEN "ring" ELSE "fixed")
  /\ UNCHANGED <<committed, writer, lifeVars, workVars, localVars>>

FixedOverloaded(t) ==
  /\ At(t, "fixed", "generic")
  /\ accepting
  /\ UNCHANGED <<committed, writer, lifeVars, sent, workVars, localVars>>

FixedClosed(t) ==
  /\ At(t, "fixed", "stopWriter")
  /\ ~accepting /\ Returns(t, "closed")
  /\ UNCHANGED <<committed, writer, lifeVars, sent, workVars, call, seen, hasWriter, calls>>

\* A writer that another call made is stopped once the response needs none.
StopWriter(t) ==
  /\ At(t, "stopWriter", IF result[t] = "closed" THEN "idle" ELSE "closeWriter")
  /\ writer' = IF Created THEN "stopped" ELSE "none"
  /\ UNCHANGED <<committed, lifeVars, sent, workVars, localVars>>

MakeWriter(t) ==
  /\ At(t, "generic", "start")
  /\ writer' = Realized
  /\ UNCHANGED <<committed, lifeVars, sent, workVars, localVars>>

StartResponse(t) ==
  /\ At(t, "start", IF ~accepting THEN "stopWriter"
                    ELSE IF call[t] = "head" THEN "idle" ELSE "write")
  /\ sent' = IF accepting THEN Append(sent, "start") ELSE sent
  /\ Returns(t, IF ~accepting THEN "closed" ELSE IF call[t] = "head" THEN "true" ELSE "none")
  /\ UNCHANGED <<committed, writer, lifeVars, workVars, call, seen, hasWriter, calls>>

\* A stopped writer throws out of emit!.
Write(t) ==
  /\ At(t, "write", IF writer = "stopped" THEN "idle" ELSE "blocked")
  /\ writer' = Realized
  /\ Returns(t, IF writer = "stopped" THEN "threw" ELSE "none")
  /\ UNCHANGED <<committed, lifeVars, sent, workVars, call, seen, hasWriter, calls>>

Closes(t) == call[t] \in {"complete", "last"}

\* A write waits for space; the worker's drains make it as long as the request
\* lives, and the stop of the writer ends the wait.
WriteDone(t) ==
  /\ At(t, "blocked", IF Closes(t) THEN "closeWriter" ELSE "idle")
  /\ writer = "running" /\ request = "live"
  /\ sent' = Append(sent, "data")
  /\ Returns(t, IF Closes(t) THEN "none" ELSE "true")
  /\ UNCHANGED <<committed, writer, lifeVars, workVars, call, seen, hasWriter, calls>>

WriteStopped(t) ==
  /\ At(t, "blocked", "idle")
  /\ writer = "stopped" /\ Returns(t, "threw")
  /\ UNCHANGED <<committed, writer, lifeVars, sent, workVars, call, seen, hasWriter, calls>>

-----------------------------------------------------------------------------
(* close, and the end of a call that closes.                               *)

\* Before a committed response, close makes the writer it then closes.
CloseWriter(t) ==
  /\ At(t, "closeWriter", "beginClose")
  /\ writer' = IF committed = "head" THEN writer ELSE Realized
  /\ hasWriter' = [hasWriter EXCEPT ![t] = writer' # "none"]
  /\ UNCHANGED <<committed, lifeVars, sent, workVars, call, seen, calls, result>>

BeginClose(t) ==
  LET stopped == hasWriter[t] /\ writer = "stopped"
      begins == ~stopped /\ phase = "open" IN
  /\ At(t, "beginClose", IF begins /\ hasWriter[t] THEN "outClose"
                         ELSE IF begins \/ stopped THEN "terminal" ELSE "idle")
  /\ phase' = IF begins THEN "closing" ELSE phase
  /\ Returns(t, IF call[t] # "close" \/ begins THEN "true" ELSE "false")
  /\ UNCHANGED <<committed, writer, callbacks, tasks, ran, registered, sent, workVars,
                 call, seen, hasWriter, calls>>

\* Closing the stream queues the last chunk; a stop ends the wait here, too.
OutClose(t) ==
  /\ At(t, "outClose", "terminal")
  /\ writer = "stopped" \/ request = "live"
  /\ sent' = IF writer = "stopped" THEN sent ELSE Append(sent, "data")
  /\ UNCHANGED <<committed, writer, lifeVars, workVars, localVars>>

Reserved(ids) == [ids |-> ids, stage |-> "reserved"]

\* terminal!, under lifecycle-lock: the first one to close takes the callbacks.
Terminate ==
  /\ phase' = "closed" /\ callbacks' = <<>>
  /\ tasks' = IF phase = "closed" \/ callbacks = <<>> THEN tasks
              ELSE Append(tasks, Reserved(callbacks))
  /\ UNCHANGED <<ran, registered>>

Terminal(t) ==
  /\ At(t, "terminal", "idle")
  /\ Terminate
  /\ UNCHANGED <<committed, writer, sent, workVars, localVars>>

\* on-close: a closed emitter chains the callback at once.
Register(t) ==
  /\ At(t, "register", "idle")
  /\ registered' = registered + 1
  /\ callbacks' = IF phase = "closed" THEN callbacks ELSE Append(callbacks, registered')
  /\ tasks' = IF phase = "closed" THEN Append(tasks, Reserved(<<registered'>>)) ELSE tasks
  /\ Returns(t, "true")
  /\ UNCHANGED <<committed, writer, phase, ran, sent, workVars, call, seen, hasWriter, calls>>

\* The task is submitted outside the lock, by whoever reserved it.
Submit(k) ==
  /\ k \in 1..Len(tasks) /\ tasks[k].stage = "reserved"
  /\ tasks' = [tasks EXCEPT ![k].stage = "submitted"]
  /\ UNCHANGED <<committed, writer, phase, callbacks, ran, registered, sent, workVars, pc,
                 localVars>>

\* Mutant: a task does not wait for the one before it.
RunUnchained(k) ==
  /\ k \in 1..Len(tasks) /\ tasks[k].stage = "submitted"
  /\ tasks' = [tasks EXCEPT ![k].stage = "run"]
  /\ ran' = ran \o tasks[k].ids
  /\ UNCHANGED <<committed, writer, phase, callbacks, registered, sent, workVars, pc,
                 localVars>>

\* Each task waits for its predecessor in the chain; a callback that throws does
\* not keep the others from running.
Run(k) ==
  /\ k \in 1..Len(tasks) /\ tasks[k].stage = "submitted"
  /\ \A j \in 1..(k - 1) : tasks[j].stage = "run"
  /\ tasks' = [tasks EXCEPT ![k].stage = "run"]
  /\ ran' = ran \o tasks[k].ids
  /\ UNCHANGED <<committed, writer, phase, callbacks, registered, sent, workVars, pc,
                 localVars>>

-----------------------------------------------------------------------------
(* The worker: retirement of the request, and the end of the worker.       *)

WorkerAt(from, to) == workerPc = from /\ workerPc' = to

Retire ==
  /\ WorkerAt("poll", "stopWriter")
  /\ request' = "gone"
  /\ UNCHANGED <<committed, writer, lifeVars, sent, accepting, pc, localVars>>

\* stop-emitter stops the writer there is.
RetireWriter ==
  /\ WorkerAt("stopWriter", "terminal")
  /\ writer' = IF Created THEN "stopped" ELSE "none"
  /\ UNCHANGED <<committed, lifeVars, sent, request, accepting, pc, localVars>>

\* Mutant: retirement stops the writer and forgets the emitter.
RetireOnlyWriter ==
  /\ WorkerAt("terminal", "done")
  /\ UNCHANGED <<committed, writer, lifeVars, sent, request, accepting, pc, localVars>>

RetireEmitter ==
  /\ WorkerAt("terminal", "done")
  /\ Terminate
  /\ UNCHANGED <<committed, writer, sent, request, accepting, pc, localVars>>

\* A worker that ends, drained or crashed; finish! retires what it left behind.
WorkerEnds ==
  /\ accepting /\ accepting' = FALSE
  /\ UNCHANGED <<committed, writer, lifeVars, sent, request, workerPc, pc, localVars>>

-----------------------------------------------------------------------------
ThreadStep(t) ==
  \/ Open(t) \/ Mark(t) \/ Inform(t) \/ Read(t) \/ Commit(t) \/ CommitCas(t)
  \/ FixedAccepted(t) \/ FixedOverloaded(t) \/ FixedClosed(t) \/ StopWriter(t)
  \/ MakeWriter(t) \/ StartResponse(t) \/ Write(t) \/ WriteDone(t) \/ WriteStopped(t)
  \/ CloseWriter(t) \/ BeginClose(t) \/ OutClose(t) \/ Terminal(t) \/ Register(t)

TaskStep == \E k \in 1..Len(tasks) : Submit(k) \/ Run(k)
WorkerStep == RetireWriter \/ RetireEmitter

Next == \/ \E t \in Threads : Call(t) \/ ThreadStep(t)
        \/ TaskStep \/ Retire \/ WorkerStep \/ WorkerEnds

Spec == Init /\ [][Next]_vars

\* Threads and the executor run, and the worker finishes a retirement it began;
\* nothing makes a request end or the application call.
FairSpec == /\ Spec /\ (\A t \in Threads : WF_vars(ThreadStep(t)))
            /\ WF_vars(TaskStep) /\ WF_vars(WorkerStep)

-----------------------------------------------------------------------------
(* Properties.                                                             *)

FinalHeads == {"ring", "fixed", "start"}

\* Racing calls commit one final response between them, whatever path it takes:
\* "A status of at least 200 commits the only final response".
OneFinalHead == \A j, k \in 1..Len(sent) :
  sent[j] \in FinalHeads /\ sent[k] \in FinalHeads => j = k

\* A response that goes through the ring overtakes the mailbox, so it may only be
\* used for a request that has sent nothing else and will not (ADR 009).
RingAnswersAlone ==
  Contains(sent, "ring") => \A k \in 1..Len(sent) : sent[k] # "informational"

\* An emitter sends at most one final head, along one path, and the ring only if
\* nothing else is under way (response.clj, commit-final!).
EmitterSound == TypeOK /\ OneFinalHead /\ RingAnswersAlone

\* "Callbacks run exactly once", in the order they were registered, and not
\* before the emitter is closed.
CallbacksOnceInOrder ==
  /\ ran = [k \in 1..Len(ran) |-> k]
  /\ ran # <<>> => phase = "closed"

\* A closed emitter runs every callback it was ever given, early or late, and
\* the end of the request closes it whatever the application's threads do.
CallbacksRun == \A n \in 1..MaxCalls :
  (request = "gone" /\ n <= registered) ~> Contains(ran, n)
=============================================================================
