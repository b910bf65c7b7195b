------------------------- MODULE WorkerMailboxProofs -------------------------
(***************************************************************************)
(* Proofs about the worker's mailbox and its wake-ups, for any finite set  *)
(* of senders, any number of messages and any capacity, when the worker is *)
(* stopped by its own loop as in generation.clj (StopFromLoop).            *)
(*                                                                         *)
(* The safety property rests on one inductive invariant, IInv.  TypeInv    *)
(* and CountInv type the state and say what the two counters count.        *)
(* StopInv follows a stop from the closed admission to the empty mailbox.  *)
(* EndpointInv says who may touch the native receiver.  WakeInv is the     *)
(* heart: what an odd mailbox signal promises at each place of the         *)
(* worker's way from clearing it to the native poll.                       *)
(***************************************************************************)
EXTENDS WorkerMailbox, FiniteSetTheorems, TLAPS

TypeInv ==
  /\ {running, accepting, stopRequested, signal, unread, unseen, armed, pending, receiver,
      nativeEvent, handled, drained} \subseteq BOOLEAN
  /\ mailbox \in Seq(Messages) /\ Len(mailbox) <= MailboxCapacity
  /\ queued \in 0..1
  /\ endpoint \in {"open", "quiescing", "closed"}
  /\ notifierPc \in {"poll", "clear", "enter", "test", "call"}
  /\ pc \in [Threads -> SubmitterPcs \cup StopperPcs]
  /\ \A t \in Submitters : pc[t] \in SubmitterPcs
  /\ pc[Stopper] \in StopperPcs \cup {"wake", "readArmed", "request", "idle"}
  /\ sends \in [Submitters -> 0..(MaxSends + 1)]
  /\ workerPc \in WorkerPcs /\ current \in Messages \cup {"none"}

Admitted == {t \in Submitters : pc[t] \in {"recheck", "offer"}}
Waiting == {t \in Submitters : pc[t] \in {"await", "parked"}}

CountInv ==
  /\ admissions = Cardinality(Admitted)
  /\ waiters = Cardinality(Waiting)

\* The places of a worker that has found the stop and an empty mailbox.
LastPcs == {"space", "broadcast", "readGeneration", "exiting", "lastSpace",
            "lastBroadcast", "exited"}

StopInv ==
  /\ pc[Stopper] # "off" => ~accepting
  /\ pc[Stopper] \notin {"off", "idle"} => workerPc = "stopping"
  /\ pc[Stopper] \in {"off", "space", "broadcast", "drainAdmissions", "stopRequest"} =>
       ~stopRequested
  /\ stopRequested \/ pc[Stopper] = "stopRequest" => \A t \in Submitters : pc[t] # "offer"
  /\ stopRequested /\ workerPc = "stopTest" => mailbox = <<>>
  /\ ~running => stopRequested /\ mailbox = <<>> /\ workerPc \in LastPcs

EndpointInv ==
  /\ pending <=> queued = 1 \/ notifierPc = "clear"
  /\ notifierPc = "clear" => queued = 0
  /\ wakesInFlight = IF notifierPc \in {"test", "call"} THEN 1 ELSE 0
  /\ receiver <=> endpoint # "closed"
  /\ workerPc = "awaitWakes" => endpoint # "open"
  /\ endpoint = "quiescing" => workerPc = "awaitWakes"
  /\ notifierPc = "call" => receiver

ArmedPcs == {"recheck", "disarm", "loop", "sleep", "stopping", "return"}
Waking == \E t \in Threads : pc[t] = "wake"
Requesting == \E t \in Threads : pc[t] \in {"wake", "readArmed", "request"}
Delivering == nativeEvent \/ queued > 0 \/ notifierPc # "poll"

WakeInv ==
  /\ armed => workerPc \in ArmedPcs
  /\ workerPc \in {"recheck", "disarm", "sleep"} => armed
  \* until the worker reads the generation, the submitter's wake will be unseen
  /\ workerPc \in {"pollAgain", "stopTest", "space", "broadcast", "readGeneration"} =>
       (signal /\ running => Waking \/ unseen)
  \* then it will make the last look before the sleep turn back
  /\ workerPc \in {"arm", "recheck"} => (signal => Waking \/ unread)
  \* and then it finds the flag up and goes to the notifier
  /\ workerPc \in {"loop", "sleep"} /\ armed /\ endpoint = "open" =>
       /\ signal => Requesting \/ Delivering
       /\ workerPc = "sleep" /\ mailbox # <<>> =>
            Requesting \/ Delivering \/ \E t \in Threads : pc[t] = "signal"

IInv == TypeInv /\ CountInv /\ StopInv /\ EndpointInv /\ WakeInv

-----------------------------------------------------------------------------
(* The inductive invariant.                                                *)

LEMMA ThreadsAre ==
  /\ Stopper \notin Submitters /\ Stopper \in Threads /\ Submitters \subseteq Threads
  /\ IsFiniteSet(Submitters) /\ Retirer \in Submitters
<1>1. Stopper \notin Senders /\ Stopper # Retirer
  BY MailboxAssumption
<1>2. IsFiniteSet(Submitters)
  BY MailboxAssumption, FS_AddElement DEF Submitters
<1> QED
  BY <1>1, <1>2 DEF Submitters, Threads

LEMMA CountedFinite == IsFiniteSet(Admitted) /\ IsFiniteSet(Waiting)
<1>1. Admitted \in SUBSET Submitters /\ Waiting \in SUBSET Submitters
  BY DEF Admitted, Waiting
<1> QED
  BY <1>1, ThreadsAre, FS_Subset

\* What is left when the first message is taken.
LEMMA TakeHead ==
  ASSUME NEW q \in Seq(Messages), q # <<>>
  PROVE  /\ Head(q) \in Messages /\ Tail(q) \in Seq(Messages)
         /\ Len(Tail(q)) = Len(q) - 1
OBVIOUS

LEMMA InitInv == Init => IInv
<1> SUFFICES ASSUME Init PROVE IInv
  OBVIOUS
<1> USE MailboxAssumption, ThreadsAre DEF Init
<1>1. TypeInv
  <2>1. /\ mailbox \in Seq(Messages) /\ Len(mailbox) <= MailboxCapacity
    OBVIOUS
  <2>2. {running, accepting, stopRequested, signal, unread, unseen, armed, pending,
         receiver, nativeEvent, handled, drained} \subseteq BOOLEAN
    OBVIOUS
  <2>3. sends \in [Submitters -> 0..(MaxSends + 1)]
    OBVIOUS
  <2>4. /\ pc \in [Threads -> SubmitterPcs \cup StopperPcs]
        /\ \A t \in Submitters : pc[t] \in SubmitterPcs
        /\ pc[Stopper] \in StopperPcs \cup {"wake", "readArmed", "request", "idle"}
    BY DEF SubmitterPcs, StopperPcs
  <2>5. /\ queued \in 0..1 /\ endpoint \in {"open", "quiescing", "closed"}
        /\ notifierPc \in {"poll", "clear", "enter", "test", "call"}
        /\ workerPc \in WorkerPcs /\ current \in Messages \cup {"none"}
    BY DEF WorkerPcs
  <2> QED
    BY <2>1, <2>2, <2>3, <2>4, <2>5 DEF TypeInv
<1>2. CountInv
  <2>1. Admitted = {} /\ Waiting = {}
    BY DEF Admitted, Waiting
  <2> QED
    BY <2>1, FS_EmptySet DEF CountInv
<1>3. StopInv /\ EndpointInv
  BY DEF StopInv, EndpointInv
<1>4. WakeInv
  BY DEF WakeInv, ArmedPcs
<1> QED
  BY <1>1, <1>2, <1>3, <1>4 DEF IInv

\* Every step keeps the types.
LEMMA TypeStep ==
  ASSUME StopFromLoop, IInv, [Next]_vars
  PROVE  TypeInv'
<1> USE ThreadsAre, MailboxAssumption
<1> USE DEF IInv, TypeInv, SubmitterPcs, StopperPcs, WorkerPcs, EndpointInv,
       vars, gateVars, boxVars, wakeVars, notifierVars, nativeVars, threadVars,
       localVars, workerVars
<1>1. ASSUME NEW t \in Submitters, Submit(t) \/ SubmitterStep(t), ~WakeStep(t)
      PROVE  TypeInv'
  <2> USE DEF At
  <2>1. CASE Submit(t)
    BY <2>1 DEF Submit
  <2>2. CASE EnterAdmission(t)
    BY <2>2 DEF EnterAdmission
  <2>3. CASE RecheckAccepting(t)
    BY <2>3 DEF RecheckAccepting
  <2>4. CASE Offer(t)
    <3>1. mailbox' \in Seq(Messages) /\ Len(mailbox') <= MailboxCapacity
      <4>1. CASE Len(mailbox) < MailboxCapacity
        <5>1. PICK m \in Messages : mailbox' = Append(mailbox, m)
          BY <2>4, <4>1 DEF Offer, Messages
        <5> QED
          BY <4>1, <5>1
      <4>2. CASE ~(Len(mailbox) < MailboxCapacity)
        BY <2>4, <4>2 DEF Offer
      <4> QED
        BY <4>1, <4>2
    <3>2. /\ pc' \in [Threads -> SubmitterPcs \cup StopperPcs]
          /\ \A u \in Submitters : pc'[u] \in SubmitterPcs
          /\ pc'[Stopper] = pc[Stopper]
      BY <2>4 DEF Offer
    <3>3. UNCHANGED <<running, accepting, stopRequested, signal, unread, unseen, armed,
                      pending, receiver, nativeEvent, handled, drained, queued, endpoint,
                      notifierPc, sends, workerPc, current>>
      BY <2>4 DEF Offer
    <3> QED
      BY <3>1, <3>2, <3>3
  <2>5. CASE Refused(t)
    BY <2>5 DEF Refused
  <2>6. CASE Announce(t)
    BY <2>6 DEF Announce
  <2>7. CASE AwaitSpace(t)
    BY <2>7 DEF AwaitSpace, StillFull
  <2>8. CASE SignalMailbox(t)
    BY <2>8 DEF SignalMailbox
  <2> QED
    BY <1>1, <2>1, <2>2, <2>3, <2>4, <2>5, <2>6, <2>7, <2>8 DEF SubmitterStep
<1>2. ASSUME NEW t \in Threads, WakeStep(t)
      PROVE  TypeInv'
  <2> USE DEF At
  <2>1. CASE Wake(t)
    BY <2>1 DEF Wake
  <2>2. CASE ReadArmed(t)
    BY <2>2 DEF ReadArmed
  <2>3. CASE Request(t)
    BY <2>3 DEF Request
  <2> QED
    BY <1>2, <2>1, <2>2, <2>3 DEF WakeStep
<1>3. CASE NotifierStep
  <2> USE DEF NotifierAt
  <2>1. CASE NotifierPoll
    BY <2>1 DEF NotifierPoll
  <2>2. CASE NotifierClear
    BY <2>2 DEF NotifierClear
  <2>3. CASE NotifierEnter
    BY <2>3 DEF NotifierEnter
  <2>4. CASE NotifierTest
    BY <2>4 DEF NotifierTest
  <2>5. CASE NotifierCall
    BY <2>5 DEF NotifierCall
  <2> QED
    BY <1>3, <2>1, <2>2, <2>3, <2>4, <2>5 DEF NotifierStep
<1>4. CASE WorkerStep
  <2> USE DEF WorkerAt
  <2>1. CASE Poll
    <3>1. mailbox # <<>> => Head(mailbox) \in Messages /\ Tail(mailbox) \in Seq(Messages)
                           /\ Len(Tail(mailbox)) = Len(mailbox) - 1
      BY TakeHead
    <3> QED
      BY <2>1, <3>1 DEF Poll, TakeMessage
  <2>2. CASE Handle
    BY <2>2 DEF Handle
  <2>3. CASE DestroyReceiver
    BY <2>3 DEF DestroyReceiver
  <2>4. CASE ClearSignal
    BY <2>4 DEF ClearSignal
  <2>5. CASE PollAgain
    <3>1. mailbox # <<>> => Head(mailbox) \in Messages /\ Tail(mailbox) \in Seq(Messages)
                           /\ Len(Tail(mailbox)) = Len(mailbox) - 1
      BY TakeHead
    <3> QED
      BY <2>5, <3>1 DEF PollAgain, TakeMessage
  <2>6. CASE MarkSignalled
    BY <2>6 DEF MarkSignalled
  <2>7. CASE StopTest
    BY <2>7 DEF StopTest
  <2>8. CASE SpaceSignal
    BY <2>8 DEF SpaceSignal, NotWorker
  <2>9. CASE SpaceBroadcast
    BY <2>9 DEF SpaceBroadcast, Unparked
  <2>10. CASE ReadGeneration
    BY <2>10 DEF ReadGeneration
  <2>11. CASE Arm
    BY <2>11 DEF Arm
  <2>12. CASE RecheckSleep
    BY <2>12 DEF RecheckSleep, NotWorker
  <2>13. CASE Disarm
    BY <2>13 DEF Disarm
  <2>14. CASE Loop
    BY <2>14 DEF Loop, NotWorker
  <2>15. CASE StoppingDone
    BY <2>15 DEF StoppingDone, NotWorker
  <2>16. CASE WakeUp
    BY <2>16 DEF WakeUp, NotWorker
  <2>17. CASE PollReturns
    BY <2>17 DEF PollReturns
  <2>18. CASE CloseAdmission
    BY <2>18 DEF CloseAdmission
  <2>19. CASE LastSpace
    BY <2>19 DEF LastSpace, NotWorker
  <2>20. CASE LastBroadcast
    BY <2>20 DEF LastBroadcast, Unparked
  <2> QED
    BY <1>4, <2>1, <2>2, <2>3, <2>4, <2>5, <2>6, <2>7, <2>8, <2>9, <2>10, <2>11,
           <2>12, <2>13, <2>14, <2>15, <2>16, <2>17, <2>18, <2>19, <2>20 DEF
           WorkerStep
<1>5. CASE StopBegin \/ StopSpace \/ StopBroadcast \/ StopAwaitsAdmissions \/ StopRequest
  <2> USE DEF At
  <2>1. CASE StopBegin
    BY <2>1 DEF StopBegin
  <2>2. CASE StopSpace
    BY <2>2 DEF StopSpace
  <2>3. CASE StopBroadcast
    BY <2>3 DEF StopBroadcast, Unparked
  <2>4. CASE StopAwaitsAdmissions
    BY <2>4 DEF StopAwaitsAdmissions
  <2>5. CASE StopRequest
    BY <2>5 DEF StopRequest
  <2> QED
    BY <1>5, <2>1, <2>2, <2>3, <2>4, <2>5
<1>6. CASE Crash \/ NetworkEvent \/ ContextDrains
  <2> USE DEF WorkerAt
  <2>1. CASE Crash
    BY <2>1 DEF Crash, NotWorker
  <2>2. CASE NetworkEvent
    BY <2>2 DEF NetworkEvent, NotWorker
  <2>3. CASE ContextDrains
    BY <2>3 DEF ContextDrains, NotWorker
  <2> QED
    BY <1>6, <2>1, <2>2, <2>3
<1>7. CASE Finished \/ UNCHANGED vars
  BY <1>7 DEF Finished
<1>8. Submitters \subseteq Threads /\ Stopper \in Threads
  BY DEF Threads
<1> QED
  BY <1>1, <1>2, <1>3, <1>4, <1>5, <1>6, <1>7, <1>8 DEF Next, StopStep, SubmitterStep

\* A stop: the admission is closed, empties, and then the mailbox.
LEMMA StopInvStep ==
  ASSUME StopFromLoop, IInv, [Next]_vars
  PROVE  StopInv'
<1> USE ThreadsAre
<1> USE DEF IInv, TypeInv, StopInv, LastPcs, vars, gateVars, boxVars, wakeVars,
       notifierVars, nativeVars, threadVars, localVars, workerVars
<1>1. ASSUME NEW t \in Submitters, Submit(t) \/ SubmitterStep(t), ~WakeStep(t)
      PROVE  StopInv'
  <2> USE DEF At
  <2>1. CASE Submit(t)
    BY <2>1 DEF Submit
  <2>2. CASE EnterAdmission(t)
    BY <2>2 DEF EnterAdmission
  <2>3. CASE RecheckAccepting(t)
    BY <2>3 DEF RecheckAccepting
  <2>4. CASE Offer(t)
    BY <2>4 DEF Offer
  <2>5. CASE Refused(t)
    BY <2>5 DEF Refused
  <2>6. CASE Announce(t)
    BY <2>6 DEF Announce
  <2>7. CASE AwaitSpace(t)
    BY <2>7 DEF AwaitSpace, StillFull
  <2>8. CASE SignalMailbox(t)
    BY <2>8 DEF SignalMailbox
  <2> QED
    BY <1>1, <2>1, <2>2, <2>3, <2>4, <2>5, <2>6, <2>7, <2>8 DEF SubmitterStep
<1>2. ASSUME NEW t \in Threads, WakeStep(t)
      PROVE  StopInv'
  <2> USE DEF At
  <2>1. CASE Wake(t)
    BY <2>1 DEF Wake
  <2>2. CASE ReadArmed(t)
    BY <2>2 DEF ReadArmed
  <2>3. CASE Request(t)
    BY <2>3 DEF Request
  <2> QED
    BY <1>2, <2>1, <2>2, <2>3 DEF WakeStep
<1>3. CASE NotifierStep
  <2> USE DEF NotifierAt
  <2>1. CASE NotifierPoll
    BY <2>1 DEF NotifierPoll
  <2>2. CASE NotifierClear
    BY <2>2 DEF NotifierClear
  <2>3. CASE NotifierEnter
    BY <2>3 DEF NotifierEnter
  <2>4. CASE NotifierTest
    BY <2>4 DEF NotifierTest
  <2>5. CASE NotifierCall
    BY <2>5 DEF NotifierCall
  <2> QED
    BY <1>3, <2>1, <2>2, <2>3, <2>4, <2>5 DEF NotifierStep
<1>4. CASE WorkerStep
  <2> USE DEF WorkerAt
  <2>1. CASE Poll
    BY <2>1 DEF Poll, TakeMessage
  <2>2. CASE Handle
    BY <2>2 DEF Handle
  <2>3. CASE DestroyReceiver
    BY <2>3 DEF DestroyReceiver
  <2>4. CASE ClearSignal
    BY <2>4 DEF ClearSignal
  <2>5. CASE PollAgain
    BY <2>5 DEF PollAgain, TakeMessage
  <2>6. CASE MarkSignalled
    BY <2>6 DEF MarkSignalled
  <2>7. CASE StopTest
    BY <2>7 DEF StopTest
  <2>8. CASE SpaceSignal
    BY <2>8 DEF SpaceSignal, NotWorker
  <2>9. CASE SpaceBroadcast
    BY <2>9 DEF SpaceBroadcast, Unparked
  <2>10. CASE ReadGeneration
    BY <2>10 DEF ReadGeneration
  <2>11. CASE Arm
    BY <2>11 DEF Arm
  <2>12. CASE RecheckSleep
    BY <2>12 DEF RecheckSleep, NotWorker
  <2>13. CASE Disarm
    BY <2>13 DEF Disarm
  <2>14. CASE Loop
    BY <2>14 DEF Loop, NotWorker
  <2>15. CASE StoppingDone
    BY <2>15 DEF StoppingDone, NotWorker
  <2>16. CASE WakeUp
    BY <2>16 DEF WakeUp, NotWorker
  <2>17. CASE PollReturns
    BY <2>17 DEF PollReturns
  <2>18. CASE CloseAdmission
    BY <2>18 DEF CloseAdmission
  <2>19. CASE LastSpace
    BY <2>19 DEF LastSpace, NotWorker
  <2>20. CASE LastBroadcast
    BY <2>20 DEF LastBroadcast, Unparked
  <2> QED
    BY <1>4, <2>1, <2>2, <2>3, <2>4, <2>5, <2>6, <2>7, <2>8, <2>9, <2>10, <2>11,
           <2>12, <2>13, <2>14, <2>15, <2>16, <2>17, <2>18, <2>19, <2>20 DEF
           WorkerStep
<1>5. CASE StopBegin \/ StopSpace \/ StopBroadcast \/ StopAwaitsAdmissions \/ StopRequest
  <2> USE DEF At
  <2>1. CASE StopBegin
    BY <2>1 DEF StopBegin
  <2>2. CASE StopSpace
    BY <2>2 DEF StopSpace
  <2>3. CASE StopBroadcast
    BY <2>3 DEF StopBroadcast, Unparked
  <2>4. CASE StopAwaitsAdmissions
    <3>1. admissions = 0 => Admitted = {}
      BY CountedFinite, FS_EmptySet DEF CountInv
    <3>2. admissions = 0 => \A t \in Submitters : pc[t] # "offer"
      BY <3>1 DEF Admitted
    <3> QED
      BY <2>4, <3>2 DEF StopAwaitsAdmissions
  <2>5. CASE StopRequest
    BY <2>5 DEF StopRequest
  <2> QED
    BY <1>5, <2>1, <2>2, <2>3, <2>4, <2>5
<1>6. CASE Crash \/ NetworkEvent \/ ContextDrains
  <2> USE DEF WorkerAt
  <2>1. CASE Crash
    BY <2>1 DEF Crash, NotWorker
  <2>2. CASE NetworkEvent
    BY <2>2 DEF NetworkEvent, NotWorker
  <2>3. CASE ContextDrains
    BY <2>3 DEF ContextDrains, NotWorker
  <2> QED
    BY <1>6, <2>1, <2>2, <2>3
<1>7. CASE Finished \/ UNCHANGED vars
  BY <1>7 DEF Finished
<1>8. Submitters \subseteq Threads /\ Stopper \in Threads
  BY DEF Threads
<1> QED
  BY <1>1, <1>2, <1>3, <1>4, <1>5, <1>6, <1>7, <1>8 DEF Next, StopStep, SubmitterStep

\* The endpoint of the notifier and the native receiver.
LEMMA EndpointStep ==
  ASSUME StopFromLoop, IInv, [Next]_vars
  PROVE  EndpointInv'
<1> USE DEF IInv, TypeInv, EndpointInv, vars, gateVars, boxVars, wakeVars,
       notifierVars, nativeVars, threadVars, localVars, workerVars
<1>1. ASSUME NEW t \in Submitters, Submit(t) \/ SubmitterStep(t), ~WakeStep(t)
      PROVE  EndpointInv'
  <2> USE DEF At
  <2>1. CASE Submit(t)
    BY <2>1 DEF Submit
  <2>2. CASE EnterAdmission(t)
    BY <2>2 DEF EnterAdmission
  <2>3. CASE RecheckAccepting(t)
    BY <2>3 DEF RecheckAccepting
  <2>4. CASE Offer(t)
    BY <2>4 DEF Offer
  <2>5. CASE Refused(t)
    BY <2>5 DEF Refused
  <2>6. CASE Announce(t)
    BY <2>6 DEF Announce
  <2>7. CASE AwaitSpace(t)
    BY <2>7 DEF AwaitSpace, StillFull
  <2>8. CASE SignalMailbox(t)
    BY <2>8 DEF SignalMailbox
  <2> QED
    BY <1>1, <2>1, <2>2, <2>3, <2>4, <2>5, <2>6, <2>7, <2>8 DEF SubmitterStep
<1>2. ASSUME NEW t \in Threads, WakeStep(t)
      PROVE  EndpointInv'
  <2> USE DEF At
  <2>1. CASE Wake(t)
    BY <2>1 DEF Wake
  <2>2. CASE ReadArmed(t)
    BY <2>2 DEF ReadArmed
  <2>3. CASE Request(t)
    BY <2>3 DEF Request
  <2> QED
    BY <1>2, <2>1, <2>2, <2>3 DEF WakeStep
<1>3. CASE NotifierStep
  <2> USE DEF NotifierAt
  <2>1. CASE NotifierPoll
    BY <2>1 DEF NotifierPoll
  <2>2. CASE NotifierClear
    BY <2>2 DEF NotifierClear
  <2>3. CASE NotifierEnter
    BY <2>3 DEF NotifierEnter
  <2>4. CASE NotifierTest
    BY <2>4 DEF NotifierTest
  <2>5. CASE NotifierCall
    BY <2>5 DEF NotifierCall
  <2> QED
    BY <1>3, <2>1, <2>2, <2>3, <2>4, <2>5 DEF NotifierStep
<1>4. CASE WorkerStep
  <2> USE DEF WorkerAt
  <2>1. CASE Poll
    BY <2>1 DEF Poll, TakeMessage
  <2>2. CASE Handle
    BY <2>2 DEF Handle
  <2>3. CASE DestroyReceiver
    BY <2>3 DEF DestroyReceiver
  <2>4. CASE ClearSignal
    BY <2>4 DEF ClearSignal
  <2>5. CASE PollAgain
    BY <2>5 DEF PollAgain, TakeMessage
  <2>6. CASE MarkSignalled
    BY <2>6 DEF MarkSignalled
  <2>7. CASE StopTest
    BY <2>7 DEF StopTest
  <2>8. CASE SpaceSignal
    BY <2>8 DEF SpaceSignal, NotWorker
  <2>9. CASE SpaceBroadcast
    BY <2>9 DEF SpaceBroadcast, Unparked
  <2>10. CASE ReadGeneration
    BY <2>10 DEF ReadGeneration
  <2>11. CASE Arm
    BY <2>11 DEF Arm
  <2>12. CASE RecheckSleep
    BY <2>12 DEF RecheckSleep, NotWorker
  <2>13. CASE Disarm
    BY <2>13 DEF Disarm
  <2>14. CASE Loop
    BY <2>14 DEF Loop, NotWorker
  <2>15. CASE StoppingDone
    BY <2>15 DEF StoppingDone, NotWorker
  <2>16. CASE WakeUp
    BY <2>16 DEF WakeUp, NotWorker
  <2>17. CASE PollReturns
    BY <2>17 DEF PollReturns
  <2>18. CASE CloseAdmission
    BY <2>18 DEF CloseAdmission
  <2>19. CASE LastSpace
    BY <2>19 DEF LastSpace, NotWorker
  <2>20. CASE LastBroadcast
    BY <2>20 DEF LastBroadcast, Unparked
  <2> QED
    BY <1>4, <2>1, <2>2, <2>3, <2>4, <2>5, <2>6, <2>7, <2>8, <2>9, <2>10, <2>11,
           <2>12, <2>13, <2>14, <2>15, <2>16, <2>17, <2>18, <2>19, <2>20 DEF
           WorkerStep
<1>5. CASE StopBegin \/ StopSpace \/ StopBroadcast \/ StopAwaitsAdmissions \/ StopRequest
  <2> USE DEF At
  <2>1. CASE StopBegin
    BY <2>1 DEF StopBegin
  <2>2. CASE StopSpace
    BY <2>2 DEF StopSpace
  <2>3. CASE StopBroadcast
    BY <2>3 DEF StopBroadcast, Unparked
  <2>4. CASE StopAwaitsAdmissions
    BY <2>4 DEF StopAwaitsAdmissions
  <2>5. CASE StopRequest
    BY <2>5 DEF StopRequest
  <2> QED
    BY <1>5, <2>1, <2>2, <2>3, <2>4, <2>5
<1>6. CASE Crash \/ NetworkEvent \/ ContextDrains
  <2> USE DEF WorkerAt
  <2>1. CASE Crash
    BY <2>1 DEF Crash, NotWorker
  <2>2. CASE NetworkEvent
    BY <2>2 DEF NetworkEvent, NotWorker
  <2>3. CASE ContextDrains
    BY <2>3 DEF ContextDrains, NotWorker
  <2> QED
    BY <1>6, <2>1, <2>2, <2>3
<1>7. CASE Finished \/ UNCHANGED vars
  BY <1>7 DEF Finished
<1>8. Submitters \subseteq Threads /\ Stopper \in Threads
  BY DEF Threads
<1> QED
  BY <1>1, <1>2, <1>3, <1>4, <1>5, <1>6, <1>7, <1>8 DEF Next, StopStep, SubmitterStep

\* A step that counts nobody in or out.
LEMMA CountFrame ==
  ASSUME CountInv, UNCHANGED <<admissions, waiters>>,
         Admitted' = Admitted, Waiting' = Waiting
  PROVE  CountInv'
BY DEF CountInv

\* The two counters, one case per access to one of them.
LEMMA CountStep ==
  ASSUME StopFromLoop, IInv, [Next]_vars
  PROVE  CountInv'
<1> USE ThreadsAre
<1> USE DEF IInv, TypeInv, vars, gateVars, boxVars, wakeVars, notifierVars,
       nativeVars, threadVars, localVars, workerVars
<1>1. ASSUME NEW t \in Submitters, Submit(t) \/ SubmitterStep(t), ~WakeStep(t)
      PROVE  CountInv'
  <2> USE DEF At
  <2>1. CASE Submit(t)
    <3>1. UNCHANGED <<admissions, waiters>> /\ Admitted' = Admitted /\ Waiting' = Waiting
      BY <2>1 DEF Submit, Admitted, Waiting
    <3> QED
      BY <3>1, CountFrame
  <2>2. CASE EnterAdmission(t)
    <3>1. /\ admissions' = admissions + 1 /\ UNCHANGED waiters /\ Waiting' = Waiting
          /\ Admitted' = Admitted \cup {t} /\ t \notin Admitted
      BY <2>2 DEF EnterAdmission, Admitted, Waiting
    <3> QED
      BY <3>1, CountedFinite, FS_AddElement DEF CountInv
  <2>3. CASE RecheckAccepting(t)
    <3>1. CASE accepting
      <4>1. UNCHANGED <<admissions, waiters>> /\ Admitted' = Admitted /\ Waiting' = Waiting
        BY <2>3, <3>1 DEF RecheckAccepting, Admitted, Waiting
      <4> QED
        BY <4>1, CountFrame
    <3>2. CASE ~accepting
      <4>1. /\ admissions' = admissions - 1 /\ UNCHANGED waiters /\ Waiting' = Waiting
            /\ Admitted' = Admitted \ {t} /\ t \in Admitted
        BY <2>3, <3>2 DEF RecheckAccepting, Admitted, Waiting
      <4> QED
        BY <4>1, CountedFinite, FS_RemoveElement DEF CountInv
    <3> QED
      BY <3>1, <3>2
  <2>4. CASE Offer(t)
    <3>1. /\ admissions' = admissions - 1 /\ UNCHANGED waiters /\ Waiting' = Waiting
          /\ Admitted' = Admitted \ {t} /\ t \in Admitted
      BY <2>4 DEF Offer, Admitted, Waiting
    <3> QED
      BY <3>1, CountedFinite, FS_RemoveElement DEF CountInv
  <2>5. CASE Refused(t)
    <3>1. UNCHANGED <<admissions, waiters>> /\ Admitted' = Admitted /\ Waiting' = Waiting
      BY <2>5 DEF Refused, Admitted, Waiting
    <3> QED
      BY <3>1, CountFrame
  <2>6. CASE Announce(t)
    <3>1. /\ waiters' = waiters + 1 /\ UNCHANGED admissions /\ Admitted' = Admitted
          /\ Waiting' = Waiting \cup {t} /\ t \notin Waiting
      BY <2>6 DEF Announce, Admitted, Waiting
    <3> QED
      BY <3>1, CountedFinite, FS_AddElement DEF CountInv
  <2>7. CASE AwaitSpace(t)
    <3>1. CASE StillFull
      <4>1. UNCHANGED <<admissions, waiters>> /\ Admitted' = Admitted /\ Waiting' = Waiting
        BY <2>7, <3>1 DEF AwaitSpace, Admitted, Waiting
      <4> QED
        BY <4>1, CountFrame
    <3>2. CASE ~StillFull
      <4>1. /\ waiters' = waiters - 1 /\ UNCHANGED admissions /\ Admitted' = Admitted
            /\ Waiting' = Waiting \ {t} /\ t \in Waiting
        BY <2>7, <3>2 DEF AwaitSpace, Admitted, Waiting
      <4> QED
        BY <4>1, CountedFinite, FS_RemoveElement DEF CountInv
    <3> QED
      BY <3>1, <3>2
  <2>8. CASE SignalMailbox(t)
    <3>1. UNCHANGED <<admissions, waiters>> /\ Admitted' = Admitted /\ Waiting' = Waiting
      BY <2>8 DEF SignalMailbox, Admitted, Waiting
    <3> QED
      BY <3>1, CountFrame
  <2> QED
    BY <1>1, <2>1, <2>2, <2>3, <2>4, <2>5, <2>6, <2>7, <2>8 DEF SubmitterStep
<1>2. ASSUME NEW t \in Threads, WakeStep(t)
      PROVE  CountInv'
  <2> USE DEF At
  <2>1. CASE Wake(t)
    <3>1. UNCHANGED <<admissions, waiters>> /\ Admitted' = Admitted /\ Waiting' = Waiting
      BY <2>1 DEF Wake, Admitted, Waiting
    <3> QED
      BY <3>1, CountFrame
  <2>2. CASE ReadArmed(t)
    <3>1. UNCHANGED <<admissions, waiters>> /\ Admitted' = Admitted /\ Waiting' = Waiting
      BY <2>2 DEF ReadArmed, Admitted, Waiting
    <3> QED
      BY <3>1, CountFrame
  <2>3. CASE Request(t)
    <3>1. UNCHANGED <<admissions, waiters>> /\ Admitted' = Admitted /\ Waiting' = Waiting
      BY <2>3 DEF Request, Admitted, Waiting
    <3> QED
      BY <3>1, CountFrame
  <2> QED
    BY <1>2, <2>1, <2>2, <2>3 DEF WakeStep
<1>3. CASE NotifierStep
  <2> USE DEF NotifierAt
  <2>1. CASE NotifierPoll
    <3>1. UNCHANGED <<admissions, waiters>> /\ Admitted' = Admitted /\ Waiting' = Waiting
      BY <2>1 DEF NotifierPoll, Admitted, Waiting
    <3> QED
      BY <3>1, CountFrame
  <2>2. CASE NotifierClear
    <3>1. UNCHANGED <<admissions, waiters>> /\ Admitted' = Admitted /\ Waiting' = Waiting
      BY <2>2 DEF NotifierClear, Admitted, Waiting
    <3> QED
      BY <3>1, CountFrame
  <2>3. CASE NotifierEnter
    <3>1. UNCHANGED <<admissions, waiters>> /\ Admitted' = Admitted /\ Waiting' = Waiting
      BY <2>3 DEF NotifierEnter, Admitted, Waiting
    <3> QED
      BY <3>1, CountFrame
  <2>4. CASE NotifierTest
    <3>1. UNCHANGED <<admissions, waiters>> /\ Admitted' = Admitted /\ Waiting' = Waiting
      BY <2>4 DEF NotifierTest, Admitted, Waiting
    <3> QED
      BY <3>1, CountFrame
  <2>5. CASE NotifierCall
    <3>1. UNCHANGED <<admissions, waiters>> /\ Admitted' = Admitted /\ Waiting' = Waiting
      BY <2>5 DEF NotifierCall, Admitted, Waiting
    <3> QED
      BY <3>1, CountFrame
  <2> QED
    BY <1>3, <2>1, <2>2, <2>3, <2>4, <2>5 DEF NotifierStep
<1>4. CASE WorkerStep
  <2> USE DEF WorkerAt
  <2>1. CASE Poll
    <3>1. UNCHANGED <<admissions, waiters>> /\ Admitted' = Admitted /\ Waiting' = Waiting
      BY <2>1 DEF Poll, TakeMessage, Admitted, Waiting
    <3> QED
      BY <3>1, CountFrame
  <2>2. CASE Handle
    <3>1. UNCHANGED <<admissions, waiters>> /\ Admitted' = Admitted /\ Waiting' = Waiting
      BY <2>2 DEF Handle, Admitted, Waiting
    <3> QED
      BY <3>1, CountFrame
  <2>3. CASE DestroyReceiver
    <3>1. UNCHANGED <<admissions, waiters>> /\ Admitted' = Admitted /\ Waiting' = Waiting
      BY <2>3 DEF DestroyReceiver, Admitted, Waiting
    <3> QED
      BY <3>1, CountFrame
  <2>4. CASE ClearSignal
    <3>1. UNCHANGED <<admissions, waiters>> /\ Admitted' = Admitted /\ Waiting' = Waiting
      BY <2>4 DEF ClearSignal, Admitted, Waiting
    <3> QED
      BY <3>1, CountFrame
  <2>5. CASE PollAgain
    <3>1. UNCHANGED <<admissions, waiters>> /\ Admitted' = Admitted /\ Waiting' = Waiting
      BY <2>5 DEF PollAgain, TakeMessage, Admitted, Waiting
    <3> QED
      BY <3>1, CountFrame
  <2>6. CASE MarkSignalled
    <3>1. UNCHANGED <<admissions, waiters>> /\ Admitted' = Admitted /\ Waiting' = Waiting
      BY <2>6 DEF MarkSignalled, Admitted, Waiting
    <3> QED
      BY <3>1, CountFrame
  <2>7. CASE StopTest
    <3>1. UNCHANGED <<admissions, waiters>> /\ Admitted' = Admitted /\ Waiting' = Waiting
      BY <2>7 DEF StopTest, Admitted, Waiting
    <3> QED
      BY <3>1, CountFrame
  <2>8. CASE SpaceSignal
    <3>1. UNCHANGED <<admissions, waiters>> /\ Admitted' = Admitted /\ Waiting' = Waiting
      BY <2>8 DEF SpaceSignal, NotWorker, Admitted, Waiting
    <3> QED
      BY <3>1, CountFrame
  <2>9. CASE SpaceBroadcast
    <3>1. UNCHANGED <<admissions, waiters>> /\ Admitted' = Admitted /\ Waiting' = Waiting
      BY <2>9 DEF SpaceBroadcast, Unparked, Admitted, Waiting
    <3> QED
      BY <3>1, CountFrame
  <2>10. CASE ReadGeneration
    <3>1. UNCHANGED <<admissions, waiters>> /\ Admitted' = Admitted /\ Waiting' = Waiting
      BY <2>10 DEF ReadGeneration, Admitted, Waiting
    <3> QED
      BY <3>1, CountFrame
  <2>11. CASE Arm
    <3>1. UNCHANGED <<admissions, waiters>> /\ Admitted' = Admitted /\ Waiting' = Waiting
      BY <2>11 DEF Arm, Admitted, Waiting
    <3> QED
      BY <3>1, CountFrame
  <2>12. CASE RecheckSleep
    <3>1. UNCHANGED <<admissions, waiters>> /\ Admitted' = Admitted /\ Waiting' = Waiting
      BY <2>12 DEF RecheckSleep, NotWorker, Admitted, Waiting
    <3> QED
      BY <3>1, CountFrame
  <2>13. CASE Disarm
    <3>1. UNCHANGED <<admissions, waiters>> /\ Admitted' = Admitted /\ Waiting' = Waiting
      BY <2>13 DEF Disarm, Admitted, Waiting
    <3> QED
      BY <3>1, CountFrame
  <2>14. CASE Loop
    <3>1. UNCHANGED <<admissions, waiters>> /\ Admitted' = Admitted /\ Waiting' = Waiting
      BY <2>14 DEF Loop, NotWorker, Admitted, Waiting
    <3> QED
      BY <3>1, CountFrame
  <2>15. CASE StoppingDone
    <3>1. UNCHANGED <<admissions, waiters>> /\ Admitted' = Admitted /\ Waiting' = Waiting
      BY <2>15 DEF StoppingDone, NotWorker, Admitted, Waiting
    <3> QED
      BY <3>1, CountFrame
  <2>16. CASE WakeUp
    <3>1. UNCHANGED <<admissions, waiters>> /\ Admitted' = Admitted /\ Waiting' = Waiting
      BY <2>16 DEF WakeUp, NotWorker, Admitted, Waiting
    <3> QED
      BY <3>1, CountFrame
  <2>17. CASE PollReturns
    <3>1. UNCHANGED <<admissions, waiters>> /\ Admitted' = Admitted /\ Waiting' = Waiting
      BY <2>17 DEF PollReturns, Admitted, Waiting
    <3> QED
      BY <3>1, CountFrame
  <2>18. CASE CloseAdmission
    <3>1. UNCHANGED <<admissions, waiters>> /\ Admitted' = Admitted /\ Waiting' = Waiting
      BY <2>18 DEF CloseAdmission, Admitted, Waiting
    <3> QED
      BY <3>1, CountFrame
  <2>19. CASE LastSpace
    <3>1. UNCHANGED <<admissions, waiters>> /\ Admitted' = Admitted /\ Waiting' = Waiting
      BY <2>19 DEF LastSpace, NotWorker, Admitted, Waiting
    <3> QED
      BY <3>1, CountFrame
  <2>20. CASE LastBroadcast
    <3>1. UNCHANGED <<admissions, waiters>> /\ Admitted' = Admitted /\ Waiting' = Waiting
      BY <2>20 DEF LastBroadcast, Unparked, Admitted, Waiting
    <3> QED
      BY <3>1, CountFrame
  <2> QED
    BY <1>4, <2>1, <2>2, <2>3, <2>4, <2>5, <2>6, <2>7, <2>8, <2>9, <2>10, <2>11,
           <2>12, <2>13, <2>14, <2>15, <2>16, <2>17, <2>18, <2>19, <2>20 DEF
           WorkerStep
<1>5. CASE StopBegin \/ StopSpace \/ StopBroadcast \/ StopAwaitsAdmissions \/ StopRequest
  <2> USE DEF At
  <2>1. CASE StopBegin
    <3>1. UNCHANGED <<admissions, waiters>> /\ Admitted' = Admitted /\ Waiting' = Waiting
      BY <2>1 DEF StopBegin, Admitted, Waiting
    <3> QED
      BY <3>1, CountFrame
  <2>2. CASE StopSpace
    <3>1. UNCHANGED <<admissions, waiters>> /\ Admitted' = Admitted /\ Waiting' = Waiting
      BY <2>2 DEF StopSpace, Admitted, Waiting
    <3> QED
      BY <3>1, CountFrame
  <2>3. CASE StopBroadcast
    <3>1. UNCHANGED <<admissions, waiters>> /\ Admitted' = Admitted /\ Waiting' = Waiting
      BY <2>3 DEF StopBroadcast, Unparked, Admitted, Waiting
    <3> QED
      BY <3>1, CountFrame
  <2>4. CASE StopAwaitsAdmissions
    <3>1. UNCHANGED <<admissions, waiters>> /\ Admitted' = Admitted /\ Waiting' = Waiting
      BY <2>4 DEF StopAwaitsAdmissions, Admitted, Waiting
    <3> QED
      BY <3>1, CountFrame
  <2>5. CASE StopRequest
    <3>1. UNCHANGED <<admissions, waiters>> /\ Admitted' = Admitted /\ Waiting' = Waiting
      BY <2>5 DEF StopRequest, Admitted, Waiting
    <3> QED
      BY <3>1, CountFrame
  <2> QED
    BY <1>5, <2>1, <2>2, <2>3, <2>4, <2>5
<1>6. CASE Crash \/ NetworkEvent \/ ContextDrains
  <2> USE DEF WorkerAt
  <2>1. CASE Crash
    <3>1. UNCHANGED <<admissions, waiters>> /\ Admitted' = Admitted /\ Waiting' = Waiting
      BY <2>1 DEF Crash, NotWorker, Admitted, Waiting
    <3> QED
      BY <3>1, CountFrame
  <2>2. CASE NetworkEvent
    <3>1. UNCHANGED <<admissions, waiters>> /\ Admitted' = Admitted /\ Waiting' = Waiting
      BY <2>2 DEF NetworkEvent, NotWorker, Admitted, Waiting
    <3> QED
      BY <3>1, CountFrame
  <2>3. CASE ContextDrains
    <3>1. UNCHANGED <<admissions, waiters>> /\ Admitted' = Admitted /\ Waiting' = Waiting
      BY <2>3 DEF ContextDrains, NotWorker, Admitted, Waiting
    <3> QED
      BY <3>1, CountFrame
  <2> QED
    BY <1>6, <2>1, <2>2, <2>3
<1>7. CASE Finished \/ UNCHANGED vars
  <2>1. UNCHANGED <<admissions, waiters>> /\ Admitted' = Admitted /\ Waiting' = Waiting
    BY <1>7 DEF Finished, Admitted, Waiting
  <2> QED
    BY <2>1, CountFrame
<1>8. Submitters \subseteq Threads /\ Stopper \in Threads
  BY DEF Threads
<1> QED
  BY <1>1, <1>2, <1>3, <1>4, <1>5, <1>6, <1>7, <1>8 DEF Next, StopStep, SubmitterStep

\* A step that keeps the worker where it is and takes back no promise.
LEMMA WakeFrame ==
  ASSUME WakeInv, UNCHANGED <<workerPc, armed, endpoint, running, signal>>,
         unread => unread', unseen => unseen',
         Waking => Waking', Requesting => Requesting', Delivering => Delivering',
         mailbox' # <<>> => mailbox # <<>>,
         (\E t \in Threads : pc[t] = "signal") => \E t \in Threads : pc'[t] = "signal"
  PROVE  WakeInv'
BY DEF WakeInv

\* What changes of the program counters in a step of thread t.
LEMMA PromisesKept ==
  ASSUME NEW t \in Threads, \A u \in Threads \ {t} : pc'[u] = pc[u],
         pc[t] \notin {"signal", "wake", "readArmed", "request"}
  PROVE  /\ (Waking => Waking') /\ (Requesting => Requesting')
         /\ (\E u \in Threads : pc[u] = "signal") => \E u \in Threads : pc'[u] = "signal"
BY DEF Waking, Requesting

\* What an odd signal promises, from the clearing of the signal to the native poll.
LEMMA WakeInvStep ==
  ASSUME StopFromLoop, IInv, [Next]_vars
  PROVE  WakeInv'
<1> USE ThreadsAre
<1> USE DEF IInv, TypeInv, vars, gateVars, boxVars, wakeVars, notifierVars,
       nativeVars, threadVars, localVars, workerVars
<1>1. ASSUME NEW t \in Submitters, Submit(t) \/ SubmitterStep(t), ~WakeStep(t)
      PROVE  WakeInv'
  <2> USE DEF At
  <2>1. CASE Submit(t)
    <3>1. /\ \A u \in Threads \ {t} : pc'[u] = pc[u]
          /\ pc[t] \notin {"signal", "wake", "readArmed", "request"}
          /\ UNCHANGED <<workerPc, armed, endpoint, running, signal, unread, unseen, mailbox,
                         nativeEvent, queued, notifierPc>>
      BY <2>1 DEF Submit
    <3>2. Delivering' = Delivering
      BY <3>1 DEF Delivering
    <3> QED
      BY <3>1, <3>2, PromisesKept, WakeFrame
  <2>2. CASE EnterAdmission(t)
    <3>1. /\ \A u \in Threads \ {t} : pc'[u] = pc[u]
          /\ pc[t] \notin {"signal", "wake", "readArmed", "request"}
          /\ UNCHANGED <<workerPc, armed, endpoint, running, signal, unread, unseen, mailbox,
                         nativeEvent, queued, notifierPc>>
      BY <2>2 DEF EnterAdmission
    <3>2. Delivering' = Delivering
      BY <3>1 DEF Delivering
    <3> QED
      BY <3>1, <3>2, PromisesKept, WakeFrame
  <2>3. CASE RecheckAccepting(t)
    <3>1. /\ \A u \in Threads \ {t} : pc'[u] = pc[u]
          /\ pc[t] \notin {"signal", "wake", "readArmed", "request"}
          /\ UNCHANGED <<workerPc, armed, endpoint, running, signal, unread, unseen, mailbox,
                         nativeEvent, queued, notifierPc>>
      BY <2>3 DEF RecheckAccepting
    <3>2. Delivering' = Delivering
      BY <3>1 DEF Delivering
    <3> QED
      BY <3>1, <3>2, PromisesKept, WakeFrame
  <2>4. CASE Offer(t)
    <3>1. /\ \A u \in Threads \ {t} : pc'[u] = pc[u]
          /\ pc[t] = "offer" /\ (mailbox' = mailbox \/ pc'[t] = "signal")
          /\ UNCHANGED <<workerPc, armed, endpoint, running, signal, unread, unseen,
                         nativeEvent, queued, notifierPc>>
      BY <2>4 DEF Offer
    <3>2. Delivering' = Delivering /\ (Waking => Waking') /\ (Requesting => Requesting')
          /\ ((\E u \in Threads : pc[u] = "signal") => \E u \in Threads : pc'[u] = "signal")
      BY <3>1, PromisesKept DEF Delivering
    <3> QED
      BY <3>1, <3>2 DEF WakeInv
  <2>5. CASE Refused(t)
    <3>1. /\ \A u \in Threads \ {t} : pc'[u] = pc[u]
          /\ pc[t] \notin {"signal", "wake", "readArmed", "request"}
          /\ UNCHANGED <<workerPc, armed, endpoint, running, signal, unread, unseen, mailbox,
                         nativeEvent, queued, notifierPc>>
      BY <2>5 DEF Refused
    <3>2. Delivering' = Delivering
      BY <3>1 DEF Delivering
    <3> QED
      BY <3>1, <3>2, PromisesKept, WakeFrame
  <2>6. CASE Announce(t)
    <3>1. /\ \A u \in Threads \ {t} : pc'[u] = pc[u]
          /\ pc[t] \notin {"signal", "wake", "readArmed", "request"}
          /\ UNCHANGED <<workerPc, armed, endpoint, running, signal, unread, unseen, mailbox,
                         nativeEvent, queued, notifierPc>>
      BY <2>6 DEF Announce
    <3>2. Delivering' = Delivering
      BY <3>1 DEF Delivering
    <3> QED
      BY <3>1, <3>2, PromisesKept, WakeFrame
  <2>7. CASE AwaitSpace(t)
    <3>1. /\ \A u \in Threads \ {t} : pc'[u] = pc[u]
          /\ pc[t] \notin {"signal", "wake", "readArmed", "request"}
          /\ UNCHANGED <<workerPc, armed, endpoint, running, signal, unread, unseen, mailbox,
                         nativeEvent, queued, notifierPc>>
      BY <2>7 DEF AwaitSpace, StillFull
    <3>2. Delivering' = Delivering
      BY <3>1 DEF Delivering
    <3> QED
      BY <3>1, <3>2, PromisesKept, WakeFrame
  <2>8. CASE SignalMailbox(t)
    <3>1. /\ \A u \in Threads \ {t} : pc'[u] = pc[u]
          /\ pc[t] = "signal" /\ (pc'[t] = "wake" \/ signal) /\ signal'
          /\ UNCHANGED <<workerPc, armed, endpoint, running, mailbox, unread, unseen,
                         nativeEvent, queued, notifierPc>>
      BY <2>8 DEF SignalMailbox
    <3>2. Delivering' = Delivering /\ (Waking => Waking') /\ (Requesting => Requesting')
      BY <3>1 DEF Delivering, Waking, Requesting
    <3>3. signal \/ (Waking' /\ Requesting')
      BY <3>1 DEF Waking, Requesting
    <3> QED
      BY <3>1, <3>2, <3>3 DEF WakeInv
  <2> QED
    BY <1>1, <2>1, <2>2, <2>3, <2>4, <2>5, <2>6, <2>7, <2>8 DEF SubmitterStep
<1>2. ASSUME NEW t \in Threads, WakeStep(t)
      PROVE  WakeInv'
  <2> USE DEF At
  <2>1. CASE Wake(t)
    <3>1. /\ \A u \in Threads \ {t} : pc'[u] = pc[u]
          /\ pc[t] = "wake" /\ (running => pc'[t] = "readArmed" /\ unread' /\ unseen')
          /\ (unread => unread') /\ (unseen => unseen')
          /\ UNCHANGED <<workerPc, armed, endpoint, running, mailbox, signal,
                         nativeEvent, queued, notifierPc>>
      BY <2>1 DEF Wake
    <3>2. Delivering' = Delivering
          /\ ((\E u \in Threads : pc[u] = "signal") => \E u \in Threads : pc'[u] = "signal")
      BY <3>1 DEF Delivering
    <3>3. running => (Requesting => Requesting')
      BY <3>1 DEF Requesting
    <3>4. ~running => workerPc \in LastPcs
      BY DEF StopInv
    <3> QED
      BY <3>1, <3>2, <3>3, <3>4 DEF WakeInv, LastPcs
  <2>2. CASE ReadArmed(t)
    <3>1. /\ \A u \in Threads \ {t} : pc'[u] = pc[u]
          /\ pc[t] = "readArmed" /\ (armed => pc'[t] = "request")
          /\ UNCHANGED <<workerPc, armed, endpoint, running, mailbox, signal, unread, unseen,
                         nativeEvent, queued, notifierPc>>
      BY <2>2 DEF ReadArmed
    <3>2. Delivering' = Delivering /\ (Waking => Waking')
          /\ ((\E u \in Threads : pc[u] = "signal") => \E u \in Threads : pc'[u] = "signal")
      BY <3>1 DEF Delivering, Waking
    <3>3. armed => (Requesting => Requesting')
      BY <3>1 DEF Requesting
    <3> QED
      BY <3>1, <3>2, <3>3 DEF WakeInv
  <2>3. CASE Request(t)
    <3>1. /\ \A u \in Threads \ {t} : pc'[u] = pc[u]
          /\ pc[t] = "request"
          /\ UNCHANGED <<workerPc, armed, endpoint, running, mailbox, signal, unread, unseen,
                         nativeEvent, notifierPc>>
      BY <2>3 DEF Request
    <3>2. /\ Delivering => Delivering'
          /\ endpoint = "open" => Delivering'
      BY <2>3 DEF Request, Delivering, EndpointInv
    <3>3. (Waking => Waking')
          /\ ((\E u \in Threads : pc[u] = "signal") => \E u \in Threads : pc'[u] = "signal")
      BY <3>1 DEF Waking
    <3> QED
      BY <3>1, <3>2, <3>3 DEF WakeInv
  <2> QED
    BY <1>2, <2>1, <2>2, <2>3 DEF WakeStep
<1>3. CASE NotifierStep
  <2> USE DEF NotifierAt
  <2>1. CASE NotifierPoll
    <3>1. UNCHANGED <<workerPc, armed, endpoint, running, signal, unread, unseen, mailbox, pc>>
      BY <2>1 DEF NotifierPoll
    <3>2. Delivering => Delivering'
      BY <2>1 DEF NotifierPoll, Delivering
    <3> QED
      BY <3>1, <3>2, WakeFrame DEF Waking, Requesting
  <2>2. CASE NotifierClear
    <3>1. UNCHANGED <<workerPc, armed, endpoint, running, signal, unread, unseen, mailbox, pc>>
      BY <2>2 DEF NotifierClear
    <3>2. Delivering => Delivering'
      BY <2>2 DEF NotifierClear, Delivering
    <3> QED
      BY <3>1, <3>2, WakeFrame DEF Waking, Requesting
  <2>3. CASE NotifierEnter
    <3>1. UNCHANGED <<workerPc, armed, endpoint, running, signal, unread, unseen, mailbox, pc>>
      BY <2>3 DEF NotifierEnter
    <3>2. Delivering => Delivering'
      BY <2>3 DEF NotifierEnter, Delivering
    <3> QED
      BY <3>1, <3>2, WakeFrame DEF Waking, Requesting
  <2>4. CASE NotifierTest
    <3>1. UNCHANGED <<workerPc, armed, endpoint, running, signal, unread, unseen, mailbox, pc>>
      BY <2>4 DEF NotifierTest
    <3>2. endpoint = "open" => (Delivering => Delivering')
      BY <2>4 DEF NotifierTest, Delivering
    <3> QED
      BY <3>1, <3>2 DEF WakeInv, Waking, Requesting
  <2>5. CASE NotifierCall
    <3>1. UNCHANGED <<workerPc, armed, endpoint, running, signal, unread, unseen, mailbox, pc>>
      BY <2>5 DEF NotifierCall
    <3>2. Delivering => Delivering'
      BY <2>5 DEF NotifierCall, Delivering
    <3> QED
      BY <3>1, <3>2, WakeFrame DEF Waking, Requesting
  <2> QED
    BY <1>3, <2>1, <2>2, <2>3, <2>4, <2>5 DEF NotifierStep
<1>4. CASE WorkerStep
  <2> USE DEF WorkerAt
  <2>1. CASE Poll
    BY <2>1 DEF Poll, TakeMessage, WakeInv, ArmedPcs, Waking, Requesting,
           Delivering, EndpointInv
  <2>2. CASE Handle
    BY <2>2 DEF Handle, WakeInv, ArmedPcs, Waking, Requesting, Delivering,
           EndpointInv
  <2>3. CASE DestroyReceiver
    BY <2>3 DEF DestroyReceiver, WakeInv, ArmedPcs, Waking, Requesting, Delivering,
           EndpointInv
  <2>4. CASE ClearSignal
    BY <2>4 DEF ClearSignal, WakeInv, ArmedPcs, Waking, Requesting, Delivering,
           EndpointInv
  <2>5. CASE PollAgain
    BY <2>5 DEF PollAgain, TakeMessage, WakeInv, ArmedPcs, Waking, Requesting,
           Delivering, EndpointInv
  <2>6. CASE MarkSignalled
    BY <2>6 DEF MarkSignalled, WakeInv, ArmedPcs, Waking, Requesting, Delivering,
           EndpointInv
  <2>7. CASE StopTest
    BY <2>7 DEF StopTest, WakeInv, ArmedPcs, Waking, Requesting, Delivering,
           EndpointInv
  <2>8. CASE SpaceSignal
    BY <2>8 DEF SpaceSignal, NotWorker, WakeInv, ArmedPcs, Waking, Requesting,
           Delivering, EndpointInv
  <2>9. CASE SpaceBroadcast
    <3>1. \A u \in Threads : pc'[u] = pc[u] \/ pc[u] = "parked"
      BY <2>9 DEF SpaceBroadcast, Unparked
    <3>2. (Waking => Waking')
      BY <3>1 DEF Waking
    <3> QED
      BY <2>9, <3>2 DEF SpaceBroadcast, Unparked, WakeInv, ArmedPcs
  <2>10. CASE ReadGeneration
    BY <2>10 DEF ReadGeneration, WakeInv, ArmedPcs, Waking, Requesting, Delivering,
           EndpointInv
  <2>11. CASE Arm
    BY <2>11 DEF Arm, WakeInv, ArmedPcs, Waking, Requesting, Delivering, EndpointInv
  <2>12. CASE RecheckSleep
    BY <2>12 DEF RecheckSleep, NotWorker, WakeInv, ArmedPcs, Waking, Requesting,
           Delivering, EndpointInv
  <2>13. CASE Disarm
    BY <2>13 DEF Disarm, WakeInv, ArmedPcs, Waking, Requesting, Delivering,
           EndpointInv
  <2>14. CASE Loop
    BY <2>14 DEF Loop, NotWorker, WakeInv, ArmedPcs, Waking, Requesting, Delivering,
           EndpointInv
  <2>15. CASE StoppingDone
    BY <2>15 DEF StoppingDone, NotWorker, WakeInv, ArmedPcs, Waking, Requesting,
           Delivering, EndpointInv
  <2>16. CASE WakeUp
    BY <2>16 DEF WakeUp, NotWorker, WakeInv, ArmedPcs, Waking, Requesting,
           Delivering, EndpointInv
  <2>17. CASE PollReturns
    BY <2>17 DEF PollReturns, WakeInv, ArmedPcs, Waking, Requesting, Delivering,
           EndpointInv
  <2>18. CASE CloseAdmission
    BY <2>18 DEF CloseAdmission, WakeInv, ArmedPcs, Waking, Requesting, Delivering,
           EndpointInv
  <2>19. CASE LastSpace
    BY <2>19 DEF LastSpace, NotWorker, WakeInv, ArmedPcs, Waking, Requesting,
           Delivering, EndpointInv
  <2>20. CASE LastBroadcast
    <3>1. \A u \in Threads : pc'[u] = pc[u] \/ pc[u] = "parked"
      BY <2>20 DEF LastBroadcast, Unparked
    <3>2. (Waking => Waking')
      BY <3>1 DEF Waking
    <3> QED
      BY <2>20, <3>2 DEF LastBroadcast, Unparked, WakeInv, ArmedPcs
  <2> QED
    BY <1>4, <2>1, <2>2, <2>3, <2>4, <2>5, <2>6, <2>7, <2>8, <2>9, <2>10, <2>11,
           <2>12, <2>13, <2>14, <2>15, <2>16, <2>17, <2>18, <2>19, <2>20 DEF
           WorkerStep
<1>5. CASE StopBegin \/ StopSpace \/ StopBroadcast \/ StopAwaitsAdmissions \/ StopRequest
  <2> USE DEF At
  <2>1. CASE StopBegin
    <3>1. /\ \A u \in Threads \ {Stopper} : pc'[u] = pc[u]
          /\ pc[Stopper] \notin {"signal", "wake", "readArmed", "request"}
          /\ UNCHANGED <<workerPc, armed, endpoint, running, signal, unread, unseen, mailbox,
                         nativeEvent, queued, notifierPc>>
      BY <2>1 DEF StopBegin
    <3>2. Delivering' = Delivering
      BY <3>1 DEF Delivering
    <3> QED
      BY <3>1, <3>2, PromisesKept, WakeFrame
  <2>2. CASE StopSpace
    <3>1. /\ \A u \in Threads \ {Stopper} : pc'[u] = pc[u]
          /\ pc[Stopper] \notin {"signal", "wake", "readArmed", "request"}
          /\ UNCHANGED <<workerPc, armed, endpoint, running, signal, unread, unseen, mailbox,
                         nativeEvent, queued, notifierPc>>
      BY <2>2 DEF StopSpace
    <3>2. Delivering' = Delivering
      BY <3>1 DEF Delivering
    <3> QED
      BY <3>1, <3>2, PromisesKept, WakeFrame
  <2>3. CASE StopBroadcast
    BY <2>3 DEF StopBroadcast, Unparked, WakeInv, ArmedPcs, StopInv
  <2>4. CASE StopAwaitsAdmissions
    <3>1. /\ \A u \in Threads \ {Stopper} : pc'[u] = pc[u]
          /\ pc[Stopper] \notin {"signal", "wake", "readArmed", "request"}
          /\ UNCHANGED <<workerPc, armed, endpoint, running, signal, unread, unseen, mailbox,
                         nativeEvent, queued, notifierPc>>
      BY <2>4 DEF StopAwaitsAdmissions
    <3>2. Delivering' = Delivering
      BY <3>1 DEF Delivering
    <3> QED
      BY <3>1, <3>2, PromisesKept, WakeFrame
  <2>5. CASE StopRequest
    <3>1. /\ \A u \in Threads \ {Stopper} : pc'[u] = pc[u]
          /\ pc[Stopper] \notin {"signal", "wake", "readArmed", "request"}
          /\ UNCHANGED <<workerPc, armed, endpoint, running, signal, unread, unseen, mailbox,
                         nativeEvent, queued, notifierPc>>
      BY <2>5 DEF StopRequest
    <3>2. Delivering' = Delivering
      BY <3>1 DEF Delivering
    <3> QED
      BY <3>1, <3>2, PromisesKept, WakeFrame
  <2> QED
    BY <1>5, <2>1, <2>2, <2>3, <2>4, <2>5
<1>6. CASE Crash \/ NetworkEvent \/ ContextDrains
  <2> USE DEF WorkerAt
  <2>1. CASE Crash
    BY <2>1 DEF Crash, NotWorker, WakeInv, ArmedPcs, Waking, Requesting, Delivering,
           EndpointInv
  <2>2. CASE NetworkEvent
    BY <2>2 DEF NetworkEvent, NotWorker, WakeInv, ArmedPcs, Waking, Requesting,
           Delivering, EndpointInv
  <2>3. CASE ContextDrains
    BY <2>3 DEF ContextDrains, NotWorker, WakeInv, ArmedPcs, Waking, Requesting,
           Delivering, EndpointInv
  <2> QED
    BY <1>6, <2>1, <2>2, <2>3
<1>7. CASE Finished \/ UNCHANGED vars
  BY <1>7 DEF Finished, WakeInv, ArmedPcs, Waking, Requesting, Delivering
<1>8. Submitters \subseteq Threads /\ Stopper \in Threads
  BY DEF Threads
<1> QED
  BY <1>1, <1>2, <1>3, <1>4, <1>5, <1>6, <1>7, <1>8 DEF Next, StopStep, SubmitterStep

-----------------------------------------------------------------------------
(* Theorems.                                                               *)

\* The invariant holds in every reachable state of a worker that its own loop stops.
THEOREM Invariance == ASSUME StopFromLoop PROVE Spec => []IInv
<1>1. Init => IInv
  BY InitInv
<1>2. IInv /\ [Next]_vars => IInv'
  BY TypeStep, StopInvStep, EndpointStep, CountStep, WakeInvStep DEF IInv
<1> QED
  BY <1>1, <1>2, PTL DEF Spec

\* No accepted message is forgotten and nobody who is gone is woken: a worker in the
\* native poll with a message has a wake under way, a worker that left its loop left
\* an empty mailbox, and the notifier calls no destroyed receiver (evloop.clj,
\* run-evloop-on-thread! and request-stop!; wake_notifier.clj, wake-endpoint!).
THEOREM NoMessageForgotten == ASSUME StopFromLoop PROVE Spec => []MailboxSound
<1>1. IInv => MailboxSound
  <2> SUFFICES ASSUME IInv PROVE MailboxSound
    OBVIOUS
  <2>1. TypeOK
    <3>1. Admitted \in SUBSET Submitters /\ Waiting \in SUBSET Submitters
      BY DEF Admitted, Waiting
    <3>2. /\ Cardinality(Admitted) \in Nat /\ Cardinality(Waiting) \in Nat
          /\ Cardinality(Submitters) \in Nat
      BY CountedFinite, ThreadsAre, FS_CardinalityType
    <3>3. /\ Cardinality(Admitted) <= Cardinality(Submitters)
          /\ Cardinality(Waiting) <= Cardinality(Submitters)
      BY <3>1, ThreadsAre, FS_Subset
    <3>4. {admissions, waiters} \subseteq 0..Cardinality(Submitters)
      BY <3>2, <3>3 DEF IInv, CountInv
    <3>5. wakesInFlight \in 0..1
      BY DEF IInv, EndpointInv
    <3> QED
      BY <3>4, <3>5 DEF TypeOK, IInv, TypeInv
  <2>2. NoAcceptedMessageLost
    <3>1. ASSUME Exited, ~running
          PROVE  mailbox = <<>> /\ \A t \in Threads : pc[t] # "offer"
      <4>1. pc[Stopper] # "offer"
        BY DEF IInv, TypeInv, StopperPcs
      <4> QED
        BY <3>1, <4>1, ThreadsAre DEF IInv, StopInv, Threads
    <3> QED
      BY <3>1 DEF NoAcceptedMessageLost
  <2>3. NoLostWakeup
    <3>1. ASSUME workerPc = "sleep", receiver, mailbox # <<>>
          PROVE  WakeUnderWay
      <4>1. armed /\ endpoint = "open"
        BY <3>1 DEF IInv, TypeInv, EndpointInv, WakeInv
      <4>2. Requesting \/ Delivering \/ \E t \in Threads : pc[t] = "signal"
        BY <3>1, <4>1 DEF IInv, WakeInv
      <4> QED
        BY <4>2 DEF WakeUnderWay, Requesting, Delivering
    <3> QED
      BY <3>1 DEF NoLostWakeup
  <2>4. NoWakeAfterDestroy
    BY DEF NoWakeAfterDestroy, IInv, EndpointInv
  <2> QED
    BY <2>1, <2>2, <2>3, <2>4 DEF MailboxSound
<1> QED
  BY <1>1, Invariance, PTL
===============================================================================
