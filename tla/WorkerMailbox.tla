--------------------------- MODULE WorkerMailbox ---------------------------
(***************************************************************************)
(* The event-loop worker's bounded mailbox (evloop.clj) and the notifier   *)
(* thread that wakes the worker out of its native poll                     *)
(* (wake_notifier.clj).  Wakes are coalesced three times: by the mailbox   *)
(* signal, by the worker's sleep flag and by the endpoint's pending flag.  *)
(* Nothing else ends the native poll of an idle server, so a wake lost in  *)
(* any of them leaves an accepted message waiting for the next network     *)
(* event.                                                                  *)
(*                                                                         *)
(* A step holds one shared read or write, except where a comment says why  *)
(* several of them are one.                                                *)
(***************************************************************************)
EXTENDS Integers, Sequences, FiniteSets

CONSTANTS Senders,        \* threads that submit ordinary messages
          Retirer,        \* the lifecycle thread: it submits the receiver's retirement
          Stopper,        \* whoever runs request-stop!
          MailboxCapacity,\* 256 in start-worker!
          MaxSends,       \* bound on the messages of one sender
          StopFromLoop    \* TRUE: the worker's own loop function is the stopper, as in
                          \* generation.clj; FALSE: another thread is

ASSUME MailboxAssumption == /\ MailboxCapacity \in Nat \ {0}
                            /\ MaxSends \in Nat
                            /\ {Retirer, Stopper} \cap Senders = {} /\ Retirer # Stopper
                            /\ IsFiniteSet(Senders)
                            /\ StopFromLoop \in BOOLEAN

Submitters == Senders \cup {Retirer}
Threads == Submitters \cup {Stopper}
Messages == {"ordinary", "retirement"}

VARIABLES
  \* Worker record
  running, accepting, stopRequested, admissions,
  mailbox,
  signal,         \* mailbox-signal_ is odd: the batch has its wake
  waiters,        \* mailbox-waiters_
  unread, unseen, \* wake-generation_ differs from wake-requested, from wake-seen
  armed,          \* sleep-armed?_
  \* WakeEndpoint, the notifier's queue and its thread
  pending, queued, endpoint, wakesInFlight, notifierPc,
  \* the native receiver, and the event that ends h2o's poll
  receiver, nativeEvent,
  \* the submitting and stopping threads
  pc, sends,
  \* the worker's thread
  workerPc, handled, current,
  drained         \* nothing but the receiver holds the worker's context

gateVars == <<running, accepting, stopRequested, admissions>>
boxVars == <<mailbox, signal, waiters>>
wakeVars == <<unread, unseen, armed>>
notifierVars == <<pending, queued, endpoint, wakesInFlight, notifierPc>>
nativeVars == <<receiver, nativeEvent>>
threadVars == <<pc, sends>>
localVars == <<handled, current, drained>>
workerVars == <<workerPc, localVars>>
vars == <<gateVars, boxVars, wakeVars, notifierVars, nativeVars, threadVars, workerVars>>

SubmitterPcs == {"idle", "enter", "recheck", "offer", "refused", "announce", "await",
                 "parked", "signal", "wake", "readArmed", "request"}
StopperPcs == {"off", "space", "broadcast", "drainAdmissions", "stopRequest"}
WorkerPcs == {"poll", "handle", "awaitWakes", "clear", "pollAgain", "mark", "stopTest",
              "space", "broadcast", "readGeneration", "arm", "recheck", "disarm", "loop",
              "stopping", "sleep", "return", "exiting", "lastSpace", "lastBroadcast",
              "exited"}

TypeOK ==
  /\ {running, accepting, stopRequested, signal, unread, unseen, armed, pending, receiver,
      nativeEvent, handled, drained} \subseteq BOOLEAN
  /\ mailbox \in Seq(Messages) /\ Len(mailbox) <= MailboxCapacity
  /\ {admissions, waiters} \subseteq 0..Cardinality(Submitters)
  /\ queued \in 0..1 /\ wakesInFlight \in 0..1
  /\ endpoint \in {"open", "quiescing", "closed"}
  /\ notifierPc \in {"poll", "clear", "enter", "test", "call"}
  /\ pc \in [Threads -> SubmitterPcs \cup StopperPcs]
  /\ sends \in [Submitters -> 0..(MaxSends + 1)]
  /\ workerPc \in WorkerPcs /\ current \in Messages \cup {"none"}

Init ==
  /\ running = TRUE /\ accepting = TRUE /\ stopRequested = FALSE /\ admissions = 0
  /\ mailbox = <<>> /\ signal = FALSE /\ waiters = 0
  /\ unread = FALSE /\ unseen = FALSE /\ armed = FALSE
  /\ pending = FALSE /\ queued = 0 /\ endpoint = "open" /\ wakesInFlight = 0
  /\ notifierPc = "poll" /\ receiver = TRUE /\ nativeEvent = FALSE
  /\ pc = [t \in Threads |-> IF t = Stopper THEN "off" ELSE "idle"]
  /\ sends = [t \in Submitters |-> 0]
  /\ workerPc = "poll" /\ handled = FALSE /\ current = "none" /\ drained = FALSE

-----------------------------------------------------------------------------
(* Submitting a message: admit-message! and required-message!.             *)

At(t, from, to) == pc[t] = from /\ pc' = [pc EXCEPT ![t] = to]

\* A submitter starts with the check of the two flags; a closed worker answers
\* :closed at once.  The retirement is submitted once.
Submit(t) ==
  /\ At(t, "idle", "enter")
  /\ running /\ accepting
  /\ sends[t] < IF t = Retirer THEN 1 ELSE MaxSends
  /\ sends' = [sends EXCEPT ![t] = @ + 1]
  /\ UNCHANGED <<gateVars, boxVars, wakeVars, notifierVars, nativeVars, workerVars>>

EnterAdmission(t) ==
  /\ At(t, "enter", "recheck")
  /\ admissions' = admissions + 1
  /\ UNCHANGED <<running, accepting, stopRequested, boxVars, wakeVars, notifierVars,
                 nativeVars, sends, workerVars>>

RecheckAccepting(t) ==
  /\ At(t, "recheck", IF accepting THEN "offer" ELSE "refused")
  /\ admissions' = IF accepting THEN admissions ELSE admissions - 1
  /\ UNCHANGED <<running, accepting, stopRequested, boxVars, wakeVars, notifierVars,
                 nativeVars, sends, workerVars>>

\* The offer and the departure from the admission section are one step: only the
\* stopper looks at the count, and it waits for this departure.
Offer(t) ==
  LET fits == Len(mailbox) < MailboxCapacity
      message == IF t = Retirer THEN "retirement" ELSE "ordinary" IN
  /\ At(t, "offer", IF fits THEN "signal" ELSE "refused")
  /\ mailbox' = IF fits THEN Append(mailbox, message) ELSE mailbox
  /\ admissions' = admissions - 1
  /\ UNCHANGED <<running, accepting, stopRequested, signal, waiters, wakeVars, notifierVars,
                 nativeVars, sends, workerVars>>

\* :closed ends the call, :overloaded makes a required send wait for space.
Refused(t) ==
  /\ At(t, "refused", IF running /\ accepting THEN "announce" ELSE "idle")
  /\ UNCHANGED <<gateVars, boxVars, wakeVars, notifierVars, nativeVars, sends, workerVars>>

\* await-mailbox-space! raises the count before it takes the lock.
Announce(t) ==
  /\ At(t, "announce", "await")
  /\ waiters' = waiters + 1
  /\ UNCHANGED <<gateVars, mailbox, signal, wakeVars, notifierVars, nativeVars, sends,
                 workerVars>>

StillFull == running /\ accepting /\ Len(mailbox) = MailboxCapacity

\* The critical section of mailbox-lock: the test, and either the await, which
\* releases the lock, or the way out and back into admit-message!.  Its reads are
\* one step: a flag that falls between them is followed by a broadcast, which
\* needs the lock.
AwaitSpace(t) ==
  /\ At(t, "await", IF StillFull THEN "parked"
                    ELSE IF running /\ accepting THEN "enter" ELSE "idle")
  /\ waiters' = IF StillFull THEN waiters ELSE waiters - 1
  /\ UNCHANGED <<gateVars, mailbox, signal, wakeVars, notifierVars, nativeVars, sends,
                 workerVars>>

\* signal-mailbox! takes the even token by compare-and-set, and wakes.  An odd
\* one: this batch has its wake already.
SignalMailbox(t) ==
  /\ At(t, "signal", IF signal THEN "idle" ELSE "wake")
  /\ signal' = TRUE
  /\ UNCHANGED <<gateVars, mailbox, waiters, wakeVars, notifierVars, nativeVars, sends,
                 workerVars>>

\* running?_ only turns false on the worker's way out, so its test and the
\* increment of the generation share a step.
Wake(t) ==
  /\ At(t, "wake", IF running THEN "readArmed" ELSE "idle")
  /\ unread' = (unread \/ running) /\ unseen' = (unseen \/ running)
  /\ UNCHANGED <<gateVars, boxVars, armed, notifierVars, nativeVars, sends, workerVars>>

ReadArmed(t) ==
  /\ At(t, "readArmed", IF armed THEN "request" ELSE "idle")
  /\ UNCHANGED <<gateVars, boxVars, wakeVars, notifierVars, nativeVars, sends, workerVars>>

\* request! queues an endpoint that is not queued.  The notifier alone sees the
\* queue, so the flag and the entry may appear together.
Request(t) ==
  /\ At(t, "request", "idle")
  /\ pending' = (pending \/ endpoint = "open")
  /\ queued' = IF endpoint = "open" /\ ~pending THEN queued + 1 ELSE queued
  /\ UNCHANGED <<gateVars, boxVars, wakeVars, endpoint, wakesInFlight, notifierPc,
                 nativeVars, sends, workerVars>>

-----------------------------------------------------------------------------
(* The notifier thread: run-notifier! and wake-endpoint!.                  *)

NotifierAt(from, to) == notifierPc = from /\ notifierPc' = to

NotifierPoll ==
  /\ NotifierAt("poll", "clear")
  /\ queued > 0 /\ queued' = queued - 1
  /\ UNCHANGED <<gateVars, boxVars, wakeVars, pending, endpoint, wakesInFlight, nativeVars,
                 threadVars, workerVars>>

\* Mutant: the pending flag stays up.
NotifierKeepsPending ==
  /\ NotifierAt("clear", "enter")
  /\ UNCHANGED <<gateVars, boxVars, wakeVars, pending, queued, endpoint, wakesInFlight,
                 nativeVars, threadVars, workerVars>>

NotifierClear ==
  /\ NotifierAt("clear", "enter")
  /\ pending' = FALSE
  /\ UNCHANGED <<gateVars, boxVars, wakeVars, queued, endpoint, wakesInFlight, nativeVars,
                 threadVars, workerVars>>

NotifierEnter ==
  /\ NotifierAt("enter", "test")
  /\ wakesInFlight' = wakesInFlight + 1
  /\ UNCHANGED <<gateVars, boxVars, wakeVars, pending, queued, endpoint, nativeVars,
                 threadVars, workerVars>>

NotifierTest ==
  /\ NotifierAt("test", IF endpoint = "open" THEN "call" ELSE "poll")
  /\ wakesInFlight' = IF endpoint = "open" THEN wakesInFlight ELSE wakesInFlight - 1
  /\ UNCHANGED <<gateVars, boxVars, wakeVars, pending, queued, endpoint, nativeVars,
                 threadVars, workerVars>>

\* mt-wakeup: the native poll returns, now or when it is next entered.
NotifierCall ==
  /\ NotifierAt("call", "poll")
  /\ nativeEvent' = TRUE
  /\ wakesInFlight' = wakesInFlight - 1
  /\ UNCHANGED <<gateVars, boxVars, wakeVars, pending, queued, endpoint, receiver,
                 threadVars, workerVars>>

-----------------------------------------------------------------------------
(* The worker: drain-mailbox!, run-evloop-on-thread! and, of worker-loop,  *)
(* the poll and the stop.                                                  *)

WorkerAt(from, to) == workerPc = from /\ workerPc' = to
NotWorker == UNCHANGED <<gateVars, boxVars, wakeVars, notifierVars, nativeVars, threadVars>>

TakeMessage(from, present, absent) ==
  /\ WorkerAt(from, IF mailbox # <<>> THEN present ELSE absent)
  /\ current' = IF mailbox # <<>> THEN Head(mailbox) ELSE "none"
  /\ mailbox' = IF mailbox # <<>> THEN Tail(mailbox) ELSE <<>>
  /\ UNCHANGED <<gateVars, signal, waiters, wakeVars, notifierVars, nativeVars, threadVars,
                 handled, drained>>

Poll == TakeMessage("poll", "handle", "clear")

\* An ordinary message goes to its handler; the retirement quiesces the endpoint
\* first and waits for the notifier to be out of the native call.
Handle ==
  /\ WorkerAt("handle", IF current = "retirement" THEN "awaitWakes" ELSE "poll")
  /\ handled' = TRUE /\ current' = "none"
  /\ endpoint' = IF current = "retirement" /\ endpoint = "open" THEN "quiescing" ELSE endpoint
  /\ UNCHANGED <<gateVars, boxVars, wakeVars, pending, queued, wakesInFlight, notifierPc,
                 nativeVars, threadVars, drained>>

\* A handler that throws ends the loop; running?_ stays true.
Crash ==
  /\ WorkerAt("handle", "exiting")
  /\ current = "ordinary" /\ current' = "none"
  /\ NotWorker /\ UNCHANGED <<handled, drained>>

DestroyReceiver ==
  /\ WorkerAt("awaitWakes", "poll")
  /\ wakesInFlight = 0
  /\ endpoint' = "closed" /\ receiver' = FALSE
  /\ UNCHANGED <<gateVars, boxVars, wakeVars, pending, queued, wakesInFlight, notifierPc,
                 nativeEvent, threadVars, localVars>>

\* Mutant: the mailbox signal is left odd.
KeepSignal ==
  /\ WorkerAt("clear", "pollAgain")
  /\ NotWorker /\ UNCHANGED localVars

ClearSignal ==
  /\ WorkerAt("clear", "pollAgain")
  /\ signal' = FALSE
  /\ UNCHANGED <<gateVars, mailbox, waiters, wakeVars, notifierVars, nativeVars, threadVars,
                 localVars>>

PollAgain == TakeMessage("pollAgain", "mark", "stopTest")

MarkSignalled ==
  /\ WorkerAt("mark", "handle")
  /\ signal' = TRUE
  /\ UNCHANGED <<gateVars, mailbox, waiters, wakeVars, notifierVars, nativeVars, threadVars,
                 localVars>>

StopTest ==
  /\ WorkerAt("stopTest", IF handled THEN "space" ELSE "readGeneration")
  /\ running' = (running /\ ~stopRequested)
  /\ UNCHANGED <<accepting, stopRequested, admissions, boxVars, wakeVars, notifierVars,
                 nativeVars, threadVars, localVars>>

SpaceSignal ==
  /\ WorkerAt("space", IF waiters > 0 THEN "broadcast" ELSE "readGeneration")
  /\ NotWorker /\ UNCHANGED localVars

\* lock, signalAll, unlock: the parked threads will contend for the lock.
Unparked == [t \in Threads |-> IF pc[t] = "parked" THEN "await" ELSE pc[t]]

SpaceBroadcast ==
  /\ WorkerAt("broadcast", "readGeneration")
  /\ pc' = Unparked
  /\ UNCHANGED <<gateVars, boxVars, wakeVars, notifierVars, nativeVars, sends, localVars>>

\* After work, or a wake since the last pass, the pass does not wait.
ReadGeneration ==
  /\ WorkerAt("readGeneration", IF ~running THEN "exiting"
                                ELSE IF handled \/ unseen THEN "loop" ELSE "arm")
  /\ unread' = FALSE
  /\ UNCHANGED <<gateVars, boxVars, unseen, armed, notifierVars, nativeVars, threadVars,
                 localVars>>

Arm ==
  /\ WorkerAt("arm", "recheck")
  /\ armed' = TRUE
  /\ UNCHANGED <<gateVars, boxVars, unread, unseen, notifierVars, nativeVars, threadVars,
                 localVars>>

\* Mutant: the worker goes to sleep without looking back at the generation.
SleepBlindly ==
  /\ WorkerAt("recheck", "loop")
  /\ NotWorker /\ UNCHANGED localVars

\* With the flag up, look again at the mailbox and at the generation.
RecheckSleep ==
  /\ WorkerAt("recheck", IF mailbox # <<>> \/ unread THEN "disarm" ELSE "loop")
  /\ NotWorker /\ UNCHANGED localVars

Disarm ==
  /\ WorkerAt("disarm", "poll")
  /\ armed' = FALSE
  /\ UNCHANGED <<gateVars, boxVars, unread, unseen, notifierVars, nativeVars, threadVars,
                 localVars>>

\* worker-loop stops a worker whose context is drained and whose receiver is
\* destroyed.  It waits only in an idle pass and with no message in sight.
Loop ==
  /\ WorkerAt("loop", IF StopFromLoop /\ drained /\ pc[Stopper] = "off" THEN "stopping"
                      ELSE IF armed /\ mailbox = <<>> THEN "sleep" ELSE "return")
  /\ NotWorker /\ UNCHANGED localVars

StoppingDone ==
  /\ WorkerAt("stopping", "return")
  /\ pc[Stopper] = "idle"
  /\ NotWorker /\ UNCHANGED localVars

\* The poll returns for a native wake; a retired worker polls for 10 ms only.
WakeUp ==
  /\ WorkerAt("sleep", "return")
  /\ nativeEvent \/ ~receiver
  /\ NotWorker /\ UNCHANGED localVars

\* It also returns for the network, which owes this worker nothing.
NetworkEvent ==
  /\ WorkerAt("sleep", "return")
  /\ NotWorker /\ UNCHANGED localVars

\* A poll consumes the native event; the flag goes down.
PollReturns ==
  /\ WorkerAt("return", "poll")
  /\ nativeEvent' = FALSE /\ armed' = FALSE /\ unseen' = unread /\ handled' = FALSE
  /\ UNCHANGED <<gateVars, boxVars, unread, notifierVars, receiver, threadVars, current,
                 drained>>

\* The finally clause: close admission and wake those who wait for space.
CloseAdmission ==
  /\ WorkerAt("exiting", "lastSpace")
  /\ accepting' = FALSE
  /\ UNCHANGED <<running, stopRequested, admissions, boxVars, wakeVars, notifierVars,
                 nativeVars, threadVars, localVars>>

LastSpace ==
  /\ WorkerAt("lastSpace", IF waiters > 0 THEN "lastBroadcast" ELSE "exited")
  /\ NotWorker /\ UNCHANGED localVars

LastBroadcast ==
  /\ WorkerAt("lastBroadcast", "exited")
  /\ pc' = Unparked
  /\ UNCHANGED <<gateVars, boxVars, wakeVars, notifierVars, nativeVars, sends, localVars>>

\* The context's last connection and request are gone.  Nobody looks before the
\* receiver is destroyed.
ContextDrains ==
  /\ ~receiver /\ ~drained /\ drained' = TRUE
  /\ NotWorker /\ UNCHANGED <<workerPc, handled, current>>

-----------------------------------------------------------------------------
(* request-stop!, on the worker's thread or on another one.  Its wake is   *)
(* that of a submitter.                                                    *)

\* Closing admission twice answers :closed.
StopBegin ==
  /\ At(Stopper, "off", IF accepting THEN "space" ELSE "idle")
  /\ StopFromLoop => workerPc = "stopping"
  /\ accepting' = FALSE
  /\ UNCHANGED <<running, stopRequested, admissions, boxVars, wakeVars, notifierVars,
                 nativeVars, sends, workerVars>>

StopSpace ==
  /\ At(Stopper, "space", IF waiters > 0 THEN "broadcast" ELSE "drainAdmissions")
  /\ UNCHANGED <<gateVars, boxVars, wakeVars, notifierVars, nativeVars, sends, workerVars>>

StopBroadcast ==
  /\ pc[Stopper] = "broadcast"
  /\ pc' = [Unparked EXCEPT ![Stopper] = "drainAdmissions"]
  /\ UNCHANGED <<gateVars, boxVars, wakeVars, notifierVars, nativeVars, sends, workerVars>>

\* The spin ends when no submitter is inside its admission section.
StopAwaitsAdmissions ==
  /\ At(Stopper, "drainAdmissions", "stopRequest")
  /\ admissions = 0
  /\ UNCHANGED <<gateVars, boxVars, wakeVars, notifierVars, nativeVars, sends, workerVars>>

StopRequest ==
  /\ At(Stopper, "stopRequest", "wake")
  /\ stopRequested' = TRUE
  /\ UNCHANGED <<running, accepting, admissions, boxVars, wakeVars, notifierVars,
                 nativeVars, sends, workerVars>>

-----------------------------------------------------------------------------
WakeStep(t) == Wake(t) \/ ReadArmed(t) \/ Request(t)

SubmitterStep(t) ==
  \/ EnterAdmission(t) \/ RecheckAccepting(t) \/ Offer(t) \/ Refused(t) \/ Announce(t)
  \/ AwaitSpace(t) \/ SignalMailbox(t) \/ WakeStep(t)

NotifierStep == NotifierPoll \/ NotifierClear \/ NotifierEnter \/ NotifierTest \/ NotifierCall

WorkerStep ==
  \/ Poll \/ Handle \/ DestroyReceiver \/ ClearSignal \/ PollAgain \/ MarkSignalled
  \/ StopTest \/ SpaceSignal \/ SpaceBroadcast \/ ReadGeneration \/ Arm \/ RecheckSleep
  \/ Disarm \/ Loop \/ StoppingDone \/ WakeUp \/ PollReturns \/ CloseAdmission
  \/ LastSpace \/ LastBroadcast

StopStep == StopSpace \/ StopBroadcast \/ StopAwaitsAdmissions \/ StopRequest
            \/ WakeStep(Stopper)

Exited == workerPc = "exited"
Crashed == Exited /\ running

\* The worker is gone, and so is the work of everybody else.
Finished ==
  /\ Exited /\ \A t \in Threads : pc[t] \in {"idle", "off"}
  /\ notifierPc = "poll" /\ queued = 0
  /\ UNCHANGED vars

Next == \/ \E t \in Submitters : Submit(t) \/ SubmitterStep(t)
        \/ NotifierStep \/ WorkerStep \/ Crash \/ NetworkEvent \/ ContextDrains
        \/ StopBegin \/ StopStep \/ Finished

Spec == Init /\ [][Next]_vars

\* Threads run.  The lifecycle thread submits the retirement, the context drains;
\* no fairness makes the network, a sender or an external stopper act.
Fairness ==
  /\ \A t \in Submitters : WF_vars(SubmitterStep(t))
  /\ WF_vars(Submit(Retirer)) /\ WF_vars(ContextDrains)
  /\ WF_vars(NotifierStep) /\ WF_vars(WorkerStep)
  /\ WF_vars(StopFromLoop /\ StopBegin) /\ WF_vars(StopStep)

FairSpec == Spec /\ Fairness

-----------------------------------------------------------------------------
(* Properties.                                                             *)

\* "The worker drains every admitted mailbox message before it exits" (ADR 003):
\* a worker that left its loop without a crash left an empty mailbox, and no
\* submitter can still add to it.
NoAcceptedMessageLost ==
  (Exited /\ ~running) => mailbox = <<>> /\ \A t \in Threads : pc[t] # "offer"

\* A wake for the sleeping worker is on its way.
WakeUnderWay ==
  \/ nativeEvent \/ queued > 0 \/ notifierPc # "poll"
  \/ \E t \in Threads : pc[t] \in {"signal", "wake", "readArmed", "request"}

\* No lost wakeup: a worker in an unbounded native poll with a message in its
\* mailbox has a wake under way, whatever the three coalescing flags swallowed.
NoLostWakeup == (workerPc = "sleep" /\ receiver /\ mailbox # <<>>) => WakeUnderWay

\* mt-wakeup is never called on a receiver the worker has destroyed, although
\* stale endpoints stay queued (ADR 004).
NoWakeAfterDestroy == notifierPc = "call" => receiver

\* No accepted message is forgotten, by a worker that sleeps or by one that left
\* (evloop.clj, the sleep flag of run-evloop-on-thread! and request-stop!), and
\* the notifier wakes nobody who is gone.
MailboxSound == TypeOK /\ NoAcceptedMessageLost /\ NoLostWakeup /\ NoWakeAfterDestroy

\* An accepted message is handled without help from the network.
AcceptedMessagesHandled == mailbox # <<>> ~> (mailbox = <<>> \/ Crashed)

\* A submitter that waits for mailbox space does not wait forever: space, a stop
\* and a crash all release it.
WaitersReleased == \A t \in Submitters : pc[t] = "parked" ~> pc[t] # "parked"

\* Every submission settles: a submitter gets through or is turned away, and what
\* it got through is handled.
SubmissionsSettle == AcceptedMessagesHandled /\ WaitersReleased

\* Retirement completes: the receiver is destroyed, the context drains, and the
\* worker stops itself and leaves its loop.
RetirementCompletes == StopFromLoop => <>Exited
=============================================================================
