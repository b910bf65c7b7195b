---------------------------- MODULE ResponseProofs ----------------------------
(***************************************************************************)
(* Proofs about one request's response: its emitter, and the buffers that  *)
(* streamed responses share.                                               *)
(*                                                                         *)
(* The emitter, for any set of application threads and any number of       *)
(* calls: one request gets one final response head, the ring is used only  *)
(* where nothing else is sent, and the close callbacks run once each in    *)
(* the order of their registration.  HeadInv follows the commit: the       *)
(* thread that won the compare-and-set holds the right to send the head    *)
(* until it has sent it or found the mailbox closed.  RingInv says why     *)
(* such a thread may use the ring.  ChainInv says how the chained tasks    *)
(* divide up the registrations, PrefixInv how far the chain has run.       *)
(*                                                                         *)
(* The buffers, for any set of responses and of buffers and any limits: a  *)
(* buffer has one user, and h2o is given a response's own bytes, except    *)
(* where on-stop returns a buffer under its writer.  SeatInv gives every   *)
(* other buffer one seat; LocalInv says what a writer has in its hands at  *)
(* each place of its code, and BegunInv that the buffer it keeps between   *)
(* two calls is not empty, so that it is not cleared by another's borrow.  *)
(***************************************************************************)
EXTENDS ResponseEmitter, ResponseBuffers, SequenceTheorems, FiniteSetTheorems,
        WellFoundedInduction, TLAPS

-------------------------------------------------------------------------------
(* The emitter.                                                            *)

\* The winner of the compare-and-set, until it has sent the head or given up.
Holds(t) == pc[t] \in {"fixed", "generic", "start"}
Final(k) == sent[k] \in FinalHeads

HeadInv ==
  /\ committed # "head" => /\ \A t \in Threads : ~Holds(t)
                           /\ \A k \in 1..Len(sent) : ~Final(k)
  /\ \A t, u \in Threads : Holds(t) /\ Holds(u) => t = u
  /\ \A t \in Threads : Holds(t) => \A k \in 1..Len(sent) : ~Final(k)
  /\ \A j, k \in 1..Len(sent) : Final(j) /\ Final(k) => j = k

\* No informational response was sent and none is about to be.
Quiet == /\ \A k \in 1..Len(sent) : sent[k] # "informational"
         /\ \A t \in Threads : pc[t] # "inform"

RingInv ==
  /\ committed = "nothing" => Quiet
  /\ \A t \in Threads : pc[t] = "fixed" /\ seen[t] = "nothing" => Quiet
  /\ (\E k \in 1..Len(sent) : sent[k] = "ring") => Quiet

\* The registrations a task stands for are consecutive.
FirstId(k) == tasks[k].ids[1]
LastId(k) == FirstId(k) + Len(tasks[k].ids) - 1

ChainInv ==
  /\ phase # "closed" => tasks = <<>>
  /\ phase = "closed" => callbacks = <<>>
  /\ tasks = <<>> => /\ ran = <<>> /\ Len(callbacks) = registered
                     /\ \A k \in 1..Len(callbacks) : callbacks[k] = k
  /\ \A k \in 1..Len(tasks) : /\ tasks[k].ids # <<>>
                              /\ \A i \in 1..Len(tasks[k].ids) : tasks[k].ids[i] = FirstId(k) + i - 1
  /\ tasks # <<>> => FirstId(1) = 1 /\ LastId(Len(tasks)) = registered
  /\ \A k \in 1..Len(tasks) : k > 1 => FirstId(k) = LastId(k - 1) + 1
  /\ \A j, k \in 1..Len(tasks) : j < k => LastId(j) < FirstId(k)

PrefixInv ==
  /\ \A j, k \in 1..Len(tasks) : j < k /\ tasks[k].stage = "run" => tasks[j].stage = "run"
  /\ \A k \in 1..Len(tasks) : IF tasks[k].stage = "run" THEN LastId(k) <= Len(ran)
                                                        ELSE Len(ran) < FirstId(k)
  /\ \A i \in 1..Len(ran) : ran[i] = i
  /\ Len(ran) <= registered

EmitterInv == TypeOK /\ HeadInv /\ RingInv /\ ChainInv /\ PrefixInv

Task(n) == [ids : Seq(1..n), stage : {"reserved", "submitted", "run"}]

-----------------------------------------------------------------------------
(* Types.                                                                  *)

\* A task over the first m registrations is one over the first n, for m <= n.
LEMMA WiderTask ==
  ASSUME NEW m \in Nat, NEW n \in Nat, m <= n
  PROVE  Task(m) \subseteq Task(n)
<1>1. \A s \in Seq(1..m) : s \in Seq(1..n)
  BY 1..m \subseteq 1..n, SeqMonotonic
<1>. QED
  BY <1>1 DEF Task

\* What Append does to the elements of a sequence.
LEMMA AppendFacts ==
  ASSUME NEW S, NEW s \in Seq(S), NEW e
  PROVE  /\ Len(Append(s, e)) = Len(s) + 1 /\ Append(s, e) # <<>>
         /\ \A k \in 1..Len(s) : Append(s, e)[k] = s[k]
         /\ Append(s, e)[Len(s) + 1] = e
         /\ \A k \in 1..Len(Append(s, e)) : k \in 1..Len(s) \/ k = Len(s) + 1
  OBVIOUS

\* The part of the types that is about callbacks.
LEMMA TaskTypes ==
  ASSUME TypeOK
  PROVE  /\ registered \in Nat /\ callbacks \in Seq(1..registered)
         /\ ran \in Seq(1..registered) /\ tasks \in Seq(Task(registered))
         /\ \A k \in 1..Len(tasks) : /\ tasks[k].ids \in Seq(1..registered)
                                     /\ tasks[k] \in Task(registered)
<1>1. tasks \in Seq(Task(registered))
  BY DEF TypeOK, Task
<1>2. \A k \in 1..Len(tasks) : tasks[k] \in Task(registered)
  BY <1>1, ElementOfSeq
<1>3. \A k \in 1..Len(tasks) : tasks[k].ids \in Seq(1..registered)
  BY <1>2 DEF Task
<1>. QED
  BY <1>1, <1>2, <1>3 DEF TypeOK

\* A change of one task's stage leaves the tasks' registrations alone.
LEMMA StageStep ==
  ASSUME TypeOK, NEW k \in 1..Len(tasks), NEW st \in {"reserved", "submitted", "run"},
         tasks' = [tasks EXCEPT ![k].stage = st]
  PROVE  /\ tasks' \in Seq(Task(registered)) /\ Len(tasks') = Len(tasks)
         /\ \A j \in 1..Len(tasks) : tasks'[j].ids = tasks[j].ids
         /\ tasks'[k].stage = st
         /\ \A j \in 1..Len(tasks) : j # k => tasks'[j] = tasks[j]
<1>. DEFINE e == [tasks[k] EXCEPT !.stage = st]
<1>1. tasks \in Seq(Task(registered)) /\ tasks[k] \in Task(registered)
  BY TaskTypes
<1>2. e \in Task(registered) /\ e.ids = tasks[k].ids /\ e.stage = st
  BY <1>1 DEF Task
<1>3. tasks' = [tasks EXCEPT ![k] = e]
  OBVIOUS
<1>. HIDE DEF e
<1>4. /\ tasks' \in Seq(Task(registered)) /\ Len(tasks') = Len(tasks)
      /\ \A j \in 1..Len(tasks) : tasks'[j] = IF j = k THEN e ELSE tasks[j]
  BY ONLY <1>1, <1>2, <1>3, k \in 1..Len(tasks), ExceptSeq
<1>. QED
  BY ONLY <1>2, <1>4, k \in 1..Len(tasks)


\* Every step keeps the types.
LEMMA TypeStep ==
  ASSUME TypeOK, [Next]_vars
  PROVE  TypeOK'
<1>1. ASSUME NEW t \in Threads, Call(t) PROVE TypeOK'
  <2>1. PICK c \in Calls : /\ call' = [call EXCEPT ![t] = c]
                           /\ pc' = [pc EXCEPT ![t] = CASE c = "close" -> "closeWriter"
                                                         [] c = "onClose" -> "register"
                                                         [] OTHER -> "open"]
    BY <1>1 DEF Call
  <2>2. pc' \in [Threads -> ThreadPcs]
    BY <2>1 DEF TypeOK, ThreadPcs, Calls
  <2>3. call' \in [Threads -> Calls \cup {"none"}] /\ calls' \in 0..MaxCalls
    BY <1>1, <2>1, EmitterAssumption DEF TypeOK, Call
  <2>. QED
    BY <1>1, <2>2, <2>3 DEF TypeOK, Call, Returns, lifeVars, workVars
<1>2. ASSUME NEW t \in Threads, Open(t) PROVE TypeOK'
  BY <1>2 DEF TypeOK, Open, At, Returns, lifeVars, workVars, localVars, Calls, ThreadPcs
<1>3. ASSUME NEW t \in Threads, Mark(t) PROVE TypeOK'
  BY <1>3 DEF TypeOK, Mark, At, Returns, lifeVars, workVars, localVars, Calls, ThreadPcs
<1>4. ASSUME NEW t \in Threads, Inform(t) PROVE TypeOK'
  BY <1>4 DEF TypeOK, Inform, At, Returns, lifeVars, workVars, localVars, Calls, ThreadPcs
<1>5. ASSUME NEW t \in Threads, Read(t) PROVE TypeOK'
  BY <1>5 DEF TypeOK, Read, At, Returns, lifeVars, workVars, localVars, Calls, ThreadPcs
<1>6. ASSUME NEW t \in Threads, Commit(t) PROVE TypeOK'
  BY <1>6 DEF TypeOK, Commit, At, Returns, lifeVars, workVars, localVars, Calls, ThreadPcs
<1>7. ASSUME NEW t \in Threads, CommitCas(t) PROVE TypeOK'
  BY <1>7 DEF TypeOK, CommitCas, At, Returns, lifeVars, workVars, localVars, Calls, ThreadPcs
<1>8. ASSUME NEW t \in Threads, FixedAccepted(t) PROVE TypeOK'
  BY <1>8 DEF TypeOK, FixedAccepted, At, Returns, lifeVars, workVars, localVars, Calls, ThreadPcs
<1>9. ASSUME NEW t \in Threads, FixedOverloaded(t) PROVE TypeOK'
  BY <1>9 DEF TypeOK, FixedOverloaded, At, Returns, lifeVars, workVars, localVars, Calls, ThreadPcs
<1>10. ASSUME NEW t \in Threads, FixedClosed(t) PROVE TypeOK'
  BY <1>10 DEF TypeOK, FixedClosed, At, Returns, lifeVars, workVars, localVars, Calls, ThreadPcs
<1>11. ASSUME NEW t \in Threads, StopWriter(t) PROVE TypeOK'
  BY <1>11 DEF TypeOK, StopWriter, At, Returns, Created, lifeVars, workVars, localVars, Calls, ThreadPcs
<1>12. ASSUME NEW t \in Threads, MakeWriter(t) PROVE TypeOK'
  BY <1>12 DEF TypeOK, MakeWriter, At, Returns, Realized, Created, lifeVars, workVars, localVars, Calls, ThreadPcs
<1>13. ASSUME NEW t \in Threads, StartResponse(t) PROVE TypeOK'
  BY <1>13 DEF TypeOK, StartResponse, At, Returns, lifeVars, workVars, localVars, Calls, ThreadPcs
<1>14. ASSUME NEW t \in Threads, Write(t) PROVE TypeOK'
  BY <1>14 DEF TypeOK, Write, At, Returns, Realized, Created, lifeVars, workVars, localVars, Calls, ThreadPcs
<1>15. ASSUME NEW t \in Threads, WriteDone(t) PROVE TypeOK'
  BY <1>15 DEF TypeOK, WriteDone, At, Returns, lifeVars, workVars, localVars, Calls, ThreadPcs
<1>16. ASSUME NEW t \in Threads, WriteStopped(t) PROVE TypeOK'
  BY <1>16 DEF TypeOK, WriteStopped, At, Returns, lifeVars, workVars, localVars, Calls, ThreadPcs
<1>17. ASSUME NEW t \in Threads, CloseWriter(t) PROVE TypeOK'
  BY <1>17 DEF TypeOK, CloseWriter, At, Returns, Realized, Created, lifeVars, workVars, localVars, Calls, ThreadPcs
<1>18. ASSUME NEW t \in Threads, BeginClose(t) PROVE TypeOK'
  BY <1>18 DEF TypeOK, BeginClose, At, Returns, lifeVars, workVars, localVars, Calls, ThreadPcs
<1>19. ASSUME NEW t \in Threads, OutClose(t) PROVE TypeOK'
  BY <1>19 DEF TypeOK, OutClose, At, Returns, lifeVars, workVars, localVars, Calls, ThreadPcs
<1>20. ASSUME NEW t \in Threads, Terminal(t) PROVE TypeOK'
  <2>1. Terminate
    BY <1>20 DEF Terminal
  <2>2. callbacks # <<>> => Reserved(callbacks) \in Task(registered)
    BY TaskTypes DEF Reserved, Task
  <2>3. tasks' \in Seq(Task(registered))
    BY <2>1, <2>2, TaskTypes, AppendProperties DEF Terminate
  <2>4. callbacks' \in Seq(1..registered') /\ ran' \in Seq(1..registered') /\ registered' \in Nat
        /\ phase' = "closed" /\ tasks' \in Seq(Task(registered'))
    BY <2>1, <2>3, TaskTypes DEF Terminate
  <2>. QED
    BY <1>20, <2>4 DEF TypeOK, Terminal, At, workVars, localVars, Task, ThreadPcs
<1>21. ASSUME NEW t \in Threads, Register(t) PROVE TypeOK'
  <2>1. registered \in Nat /\ registered' = registered + 1 /\ registered' \in 1..registered'
    BY <1>21, TaskTypes DEF Register
  <2>2. 1..registered \subseteq 1..registered' /\ Task(registered) \subseteq Task(registered')
    BY <2>1, WiderTask
  <2>3. callbacks \in Seq(1..registered') /\ ran \in Seq(1..registered')
        /\ tasks \in Seq(Task(registered'))
    BY <2>2, SeqMonotonic, TaskTypes
  <2>4. callbacks' \in Seq(1..registered')
    BY <1>21, <2>1, <2>3, AppendProperties DEF Register
  <2>5. Reserved(<<registered'>>) \in Task(registered')
    BY <2>1 DEF Reserved, Task
  <2>6. tasks' \in Seq(Task(registered'))
    BY <1>21, <2>3, <2>5, AppendProperties DEF Register
  <2>. QED
    BY <1>21, <2>1, <2>3, <2>4, <2>6 DEF TypeOK, Register, At, Returns, workVars, ThreadPcs, Task
<1>22. ASSUME NEW k \in 1..Len(tasks), Submit(k) PROVE TypeOK'
  <2>0. tasks' = [tasks EXCEPT ![k].stage = "submitted"] /\ registered' = registered
    BY <1>22 DEF Submit
  <2>1. tasks' \in Seq(Task(registered'))
    BY <2>0, StageStep
  <2>. QED
    BY <1>22, <2>1 DEF TypeOK, Submit, localVars, workVars, lifeVars, Task
<1>23. ASSUME NEW k \in 1..Len(tasks), Run(k) PROVE TypeOK'
  <2>0. tasks' = [tasks EXCEPT ![k].stage = "run"] /\ registered' = registered
    BY <1>23 DEF Run
  <2>1. tasks' \in Seq(Task(registered'))
    BY <2>0, StageStep
  <2>2. ran' \in Seq(1..registered')
    BY <1>23, TaskTypes, ConcatProperties DEF Run
  <2>. QED
    BY <1>23, <2>1, <2>2 DEF TypeOK, Run, localVars, workVars, lifeVars, Task
<1>24. CASE Retire
  BY <1>24 DEF TypeOK, Retire, WorkerAt, lifeVars, workVars, localVars, Calls, ThreadPcs
<1>25. CASE RetireWriter
  BY <1>25 DEF TypeOK, RetireWriter, WorkerAt, Created, lifeVars, workVars, localVars, Calls, ThreadPcs
<1>26. CASE RetireEmitter
  <2>1. Terminate
    BY <1>26 DEF RetireEmitter
  <2>2. callbacks # <<>> => Reserved(callbacks) \in Task(registered)
    BY TaskTypes DEF Reserved, Task
  <2>3. tasks' \in Seq(Task(registered))
    BY <2>1, <2>2, TaskTypes, AppendProperties DEF Terminate
  <2>4. callbacks' \in Seq(1..registered') /\ ran' \in Seq(1..registered') /\ registered' \in Nat
        /\ phase' = "closed" /\ tasks' \in Seq(Task(registered'))
    BY <2>1, <2>3, TaskTypes DEF Terminate
  <2>. QED
    BY <1>26, <2>4 DEF TypeOK, RetireEmitter, WorkerAt, localVars, Task, ThreadPcs
<1>27. CASE WorkerEnds
  BY <1>27 DEF TypeOK, WorkerEnds, lifeVars, workVars, localVars, Calls, ThreadPcs
<1>28. CASE UNCHANGED vars
  BY <1>28 DEF TypeOK, vars, lifeVars, workVars, localVars, Calls, ThreadPcs
<1>29. QED
  BY <1>1, <1>2, <1>3, <1>4, <1>5, <1>6, <1>7, <1>8, <1>9, <1>10, <1>11, <1>12, <1>13, <1>14, <1>15, <1>16, <1>17, <1>18, <1>19, <1>20, <1>21, <1>22, <1>23, <1>24, <1>25, <1>26, <1>27, <1>28 DEF Next, ThreadStep, TaskStep, WorkerStep

-----------------------------------------------------------------------------
(* One final head.                                                         *)

\* A step that commits and sends nothing, and gives nobody the right to.
LEMMA HeadFrame ==
  ASSUME HeadInv, committed' = committed, sent' = sent,
         \A t \in Threads : Holds(t)' => Holds(t)
  PROVE  HeadInv'
BY DEF HeadInv, Final

\* What Append does to sent.
LEMMA SentAppend ==
  ASSUME TypeOK, NEW e, sent' = Append(sent, e)
  PROVE  /\ Len(sent) \in Nat /\ Len(sent') = Len(sent) + 1
         /\ \A k \in 1..Len(sent) : sent'[k] = sent[k]
         /\ sent'[Len(sent) + 1] = e
         /\ \A k \in 1..Len(sent') : k \in 1..Len(sent) \/ k = Len(sent) + 1
BY DEF TypeOK

\* A step that sends something that is no final head.
LEMMA HeadSend ==
  ASSUME TypeOK, HeadInv, NEW e, e \notin FinalHeads, sent' = Append(sent, e),
         committed' = committed, \A t \in Threads : Holds(t)' => Holds(t)
  PROVE  HeadInv'
<1>1. \A k \in 1..Len(sent') : Final(k)' => k \in 1..Len(sent) /\ Final(k)
  BY SentAppend DEF Final
<1>. QED
  BY <1>1 DEF HeadInv

\* The step in which the holder of the right sends the head, or nothing.
LEMMA HeadSends ==
  ASSUME TypeOK, HeadInv, NEW t \in Threads, Holds(t), NEW e,
         sent' = sent \/ sent' = Append(sent, e),
         committed' = committed, committed = "head",
         \A u \in Threads : Holds(u)' => Holds(u) /\ u # t
  PROVE  HeadInv'
<1>1. \A u \in Threads : ~Holds(u)'
  BY DEF HeadInv
<1>2. \A k \in 1..Len(sent) : ~Final(k)
  BY DEF HeadInv
<1>3. CASE sent' = sent
  BY <1>1, <1>2, <1>3 DEF HeadInv, Final
<1>4. CASE sent' = Append(sent, e)
  <2>1. \A k \in 1..Len(sent') : Final(k)' => k = Len(sent) + 1
    BY <1>2, <1>4, SentAppend DEF Final
  <2>. QED
    BY <1>1, <2>1 DEF HeadInv
<1>. QED
  BY <1>3, <1>4


\* The right to send the head has one holder, and is gone once a head was sent.
LEMMA HeadStep ==
  ASSUME TypeOK, HeadInv, [Next]_vars
  PROVE  HeadInv'
<1>1. ASSUME NEW t \in Threads, Call(t) PROVE HeadInv'
  <2>1. committed' = committed /\ sent' = sent
    BY <1>1 DEF Call
  <2>2. \A u \in Threads : Holds(u)' => Holds(u)
    BY <1>1 DEF TypeOK, Holds, Call
  <2>. QED
    BY <2>1, <2>2, HeadFrame
<1>2. ASSUME NEW t \in Threads, Open(t) PROVE HeadInv'
  <2>1. committed' = committed /\ sent' = sent
    BY <1>2 DEF Open
  <2>2. \A u \in Threads : Holds(u)' => Holds(u)
    BY <1>2 DEF TypeOK, Holds, Open, At, Returns, localVars
  <2>. QED
    BY <2>1, <2>2, HeadFrame
<1>3. ASSUME NEW t \in Threads, Mark(t) PROVE HeadInv'
  <2>1. sent' = sent /\ (committed' # "head" => committed # "head")
    BY <1>3 DEF Mark
  <2>2. \A u \in Threads : Holds(u)' => Holds(u)
    BY <1>3 DEF TypeOK, Holds, Mark, At
  <2>. QED
    BY <2>1, <2>2 DEF HeadInv, Final
<1>4. ASSUME NEW t \in Threads, Inform(t) PROVE HeadInv'
  <2>1. sent' = sent \/ sent' = Append(sent, "informational")
    BY <1>4 DEF Inform
  <2>2. committed' = committed /\ \A u \in Threads : Holds(u)' => Holds(u)
    BY <1>4 DEF TypeOK, Holds, Inform, At, localVars
  <2>. QED
    BY <2>1, <2>2, HeadFrame, HeadSend DEF FinalHeads
<1>5. ASSUME NEW t \in Threads, Read(t) PROVE HeadInv'
  <2>1. committed' = committed /\ sent' = sent
    BY <1>5 DEF Read
  <2>2. \A u \in Threads : Holds(u)' => Holds(u)
    BY <1>5 DEF TypeOK, Holds, Read, At, Returns, localVars
  <2>. QED
    BY <2>1, <2>2, HeadFrame
<1>6. ASSUME NEW t \in Threads, Commit(t) PROVE HeadInv'
  <2>1. committed' = committed /\ sent' = sent
    BY <1>6 DEF Commit
  <2>2. \A u \in Threads : Holds(u)' => Holds(u)
    BY <1>6 DEF TypeOK, Holds, Commit, At, Returns, localVars
  <2>. QED
    BY <2>1, <2>2, HeadFrame
<1>7. ASSUME NEW t \in Threads, CommitCas(t) PROVE HeadInv'
  <2>1. CASE committed # seen[t]
    <3>1. committed' = committed /\ sent' = sent
      BY <1>7, <2>1 DEF CommitCas
    <3>2. \A u \in Threads : Holds(u)' => Holds(u)
      BY <1>7, <2>1 DEF TypeOK, Holds, CommitCas, At
    <3>. QED
      BY <3>1, <3>2, HeadFrame
  <2>2. CASE committed = seen[t]
    <3>1. committed # "head" /\ committed' = "head" /\ sent' = sent
      BY <1>7, <2>2 DEF TypeOK, CommitCas
    <3>2. \A u \in Threads : ~Holds(u)
      BY <3>1 DEF HeadInv
    <3>3. \A u \in Threads : Holds(u)' => u = t
      BY <1>7, <2>2, <3>2 DEF TypeOK, Holds, CommitCas, At
    <3>. QED
      BY <3>1, <3>2, <3>3 DEF HeadInv, Final
  <2>. QED
    BY <2>1, <2>2
<1>8. ASSUME NEW t \in Threads, FixedAccepted(t) PROVE HeadInv'
  <2>1. Holds(t)
    BY <1>8 DEF Holds, FixedAccepted, At
  <2>2. \A u \in Threads : Holds(u)' => Holds(u) /\ u # t
    BY <1>8, <2>1 DEF TypeOK, HeadInv, Holds, FixedAccepted, At, localVars
  <2>3. committed' = committed /\ committed = "head"
    BY <1>8, <2>1 DEF HeadInv, FixedAccepted
  <2>. QED
    BY <1>8, <2>1, <2>2, <2>3, HeadSends DEF FixedAccepted
<1>9. ASSUME NEW t \in Threads, FixedOverloaded(t) PROVE HeadInv'
  <2>1. committed' = committed /\ sent' = sent
    BY <1>9 DEF FixedOverloaded
  <2>2. \A u \in Threads : Holds(u)' => Holds(u)
    BY <1>9 DEF TypeOK, Holds, FixedOverloaded, At, Returns, localVars
  <2>. QED
    BY <2>1, <2>2, HeadFrame
<1>10. ASSUME NEW t \in Threads, FixedClosed(t) PROVE HeadInv'
  <2>1. committed' = committed /\ sent' = sent
    BY <1>10 DEF FixedClosed
  <2>2. \A u \in Threads : Holds(u)' => Holds(u)
    BY <1>10 DEF TypeOK, Holds, FixedClosed, At, Returns, localVars
  <2>. QED
    BY <2>1, <2>2, HeadFrame
<1>11. ASSUME NEW t \in Threads, StopWriter(t) PROVE HeadInv'
  <2>1. committed' = committed /\ sent' = sent
    BY <1>11 DEF StopWriter
  <2>2. \A u \in Threads : Holds(u)' => Holds(u)
    BY <1>11 DEF TypeOK, Holds, StopWriter, At, Returns, localVars
  <2>. QED
    BY <2>1, <2>2, HeadFrame
<1>12. ASSUME NEW t \in Threads, MakeWriter(t) PROVE HeadInv'
  <2>1. committed' = committed /\ sent' = sent
    BY <1>12 DEF MakeWriter
  <2>2. \A u \in Threads : Holds(u)' => Holds(u)
    BY <1>12 DEF TypeOK, Holds, MakeWriter, At, Returns, localVars
  <2>. QED
    BY <2>1, <2>2, HeadFrame
<1>13. ASSUME NEW t \in Threads, StartResponse(t) PROVE HeadInv'
  <2>1. Holds(t)
    BY <1>13 DEF Holds, StartResponse, At
  <2>2. \A u \in Threads : Holds(u)' => Holds(u) /\ u # t
    BY <1>13, <2>1 DEF TypeOK, HeadInv, Holds, StartResponse, At, localVars
  <2>3. committed' = committed /\ committed = "head"
    BY <1>13, <2>1 DEF HeadInv, StartResponse
  <2>. QED
    BY <1>13, <2>1, <2>2, <2>3, HeadSends DEF StartResponse
<1>14. ASSUME NEW t \in Threads, Write(t) PROVE HeadInv'
  <2>1. committed' = committed /\ sent' = sent
    BY <1>14 DEF Write
  <2>2. \A u \in Threads : Holds(u)' => Holds(u)
    BY <1>14 DEF TypeOK, Holds, Write, At, Returns, localVars
  <2>. QED
    BY <2>1, <2>2, HeadFrame
<1>15. ASSUME NEW t \in Threads, WriteDone(t) PROVE HeadInv'
  <2>1. sent' = sent \/ sent' = Append(sent, "data")
    BY <1>15 DEF WriteDone
  <2>2. committed' = committed /\ \A u \in Threads : Holds(u)' => Holds(u)
    BY <1>15 DEF TypeOK, Holds, WriteDone, At, localVars
  <2>. QED
    BY <2>1, <2>2, HeadFrame, HeadSend DEF FinalHeads
<1>16. ASSUME NEW t \in Threads, WriteStopped(t) PROVE HeadInv'
  <2>1. committed' = committed /\ sent' = sent
    BY <1>16 DEF WriteStopped
  <2>2. \A u \in Threads : Holds(u)' => Holds(u)
    BY <1>16 DEF TypeOK, Holds, WriteStopped, At, Returns, localVars
  <2>. QED
    BY <2>1, <2>2, HeadFrame
<1>17. ASSUME NEW t \in Threads, CloseWriter(t) PROVE HeadInv'
  <2>1. committed' = committed /\ sent' = sent
    BY <1>17 DEF CloseWriter
  <2>2. \A u \in Threads : Holds(u)' => Holds(u)
    BY <1>17 DEF TypeOK, Holds, CloseWriter, At, Returns, localVars
  <2>. QED
    BY <2>1, <2>2, HeadFrame
<1>18. ASSUME NEW t \in Threads, BeginClose(t) PROVE HeadInv'
  <2>1. committed' = committed /\ sent' = sent
    BY <1>18 DEF BeginClose
  <2>2. \A u \in Threads : Holds(u)' => Holds(u)
    BY <1>18 DEF TypeOK, Holds, BeginClose, At, Returns, localVars
  <2>. QED
    BY <2>1, <2>2, HeadFrame
<1>19. ASSUME NEW t \in Threads, OutClose(t) PROVE HeadInv'
  <2>1. sent' = sent \/ sent' = Append(sent, "data")
    BY <1>19 DEF OutClose
  <2>2. committed' = committed /\ \A u \in Threads : Holds(u)' => Holds(u)
    BY <1>19 DEF TypeOK, Holds, OutClose, At, localVars
  <2>. QED
    BY <2>1, <2>2, HeadFrame, HeadSend DEF FinalHeads
<1>20. ASSUME NEW t \in Threads, Terminal(t) PROVE HeadInv'
  <2>1. committed' = committed /\ sent' = sent
    BY <1>20 DEF Terminal
  <2>2. \A u \in Threads : Holds(u)' => Holds(u)
    BY <1>20 DEF TypeOK, Holds, Terminal, At, Returns, localVars
  <2>. QED
    BY <2>1, <2>2, HeadFrame
<1>21. ASSUME NEW t \in Threads, Register(t) PROVE HeadInv'
  <2>1. committed' = committed /\ sent' = sent
    BY <1>21 DEF Register
  <2>2. \A u \in Threads : Holds(u)' => Holds(u)
    BY <1>21 DEF TypeOK, Holds, Register, At, Returns, localVars
  <2>. QED
    BY <2>1, <2>2, HeadFrame
<1>22. ASSUME NEW k \in 1..Len(tasks), Submit(k) PROVE HeadInv'
  BY <1>22, HeadFrame DEF Holds, Submit
<1>23. ASSUME NEW k \in 1..Len(tasks), Run(k) PROVE HeadInv'
  BY <1>23, HeadFrame DEF Holds, Run
<1>24. CASE Retire
  BY <1>24, HeadFrame DEF Holds, Retire
<1>25. CASE RetireWriter
  BY <1>25, HeadFrame DEF Holds, RetireWriter
<1>26. CASE RetireEmitter
  BY <1>26, HeadFrame DEF Holds, RetireEmitter
<1>27. CASE WorkerEnds
  BY <1>27, HeadFrame DEF Holds, WorkerEnds
<1>28. CASE UNCHANGED vars
  BY <1>28, HeadFrame DEF Holds, vars, localVars
<1>29. QED
  BY <1>1, <1>2, <1>3, <1>4, <1>5, <1>6, <1>7, <1>8, <1>9, <1>10, <1>11, <1>12, <1>13, <1>14, <1>15, <1>16, <1>17, <1>18, <1>19, <1>20, <1>21, <1>22, <1>23, <1>24, <1>25, <1>26, <1>27, <1>28 DEF Next, ThreadStep, TaskStep, WorkerStep

-----------------------------------------------------------------------------
(* The ring.                                                               *)

SeenNothing(t) == pc[t] = "fixed" /\ seen[t] = "nothing"
Ringed == \E k \in 1..Len(sent) : sent[k] = "ring"

\* Nobody comes to the ring or to an informational response.
NoNewcomer == \A t \in Threads : /\ pc'[t] = "inform" => pc[t] = "inform"
                                 /\ SeenNothing(t)' => SeenNothing(t)

\* A step that sends nothing.
LEMMA RingFrame ==
  ASSUME RingInv, sent' = sent, committed' = committed, NoNewcomer
  PROVE  RingInv'
BY DEF RingInv, SeenNothing, Quiet, NoNewcomer

\* A step that sends what is neither for the ring nor informational.
LEMMA RingSend ==
  ASSUME TypeOK, RingInv, NEW e, e \notin {"ring", "informational"},
         sent' = Append(sent, e), committed' = committed, NoNewcomer
  PROVE  RingInv'
<1>1. \A k \in 1..Len(sent') : sent'[k] \in {"ring", "informational"} =>
                                k \in 1..Len(sent) /\ sent[k] = sent'[k]
  BY SentAppend
<1>2. Quiet => Quiet'
  BY <1>1 DEF Quiet, NoNewcomer
<1>3. Ringed' => Ringed
  BY <1>1 DEF Ringed
<1>. QED
  BY <1>2, <1>3 DEF RingInv, SeenNothing, Ringed, NoNewcomer


\* Whoever may use the ring found nothing committed, so nobody informed before, and
\* once the head is committed nobody can.
LEMMA RingStep ==
  ASSUME TypeOK, HeadInv, RingInv, [Next]_vars
  PROVE  RingInv'
<1>1. ASSUME NEW t \in Threads, Call(t) PROVE RingInv'
  <2>1. (sent' = sent) /\ committed' = committed
    BY <1>1 DEF Call
  <2>2. NoNewcomer
    BY <1>1 DEF TypeOK, NoNewcomer, SeenNothing, Call, At, Returns
  <2>. QED
    BY <2>1, <2>2, RingFrame
<1>2. ASSUME NEW t \in Threads, Open(t) PROVE RingInv'
  <2>1. (sent' = sent) /\ committed' = committed
    BY <1>2 DEF Open, At, Returns, localVars
  <2>2. NoNewcomer
    BY <1>2 DEF TypeOK, NoNewcomer, SeenNothing, Open, At, Returns, localVars
  <2>. QED
    BY <2>1, <2>2, RingFrame
<1>3. ASSUME NEW t \in Threads, Mark(t) PROVE RingInv'
  <2>1. CASE committed = "head"
    <3>1. UNCHANGED <<sent, committed>>
      BY <1>3, <2>1 DEF Mark
    <3>2. NoNewcomer
      BY <1>3, <2>1 DEF TypeOK, NoNewcomer, SeenNothing, Mark, At
    <3>. QED
      BY <3>1, <3>2, RingFrame
  <2>2. CASE committed # "head"
    <3>1. committed' # "nothing" /\ UNCHANGED sent
      BY <1>3, <2>2 DEF Mark
    <3>2. \A u \in Threads : ~SeenNothing(u)'
      BY <1>3, <2>2 DEF TypeOK, SeenNothing, Holds, HeadInv, Mark, At
    <3>3. ~Ringed'
      BY <2>2, <3>1 DEF HeadInv, Final, FinalHeads, Ringed
    <3>. QED
      BY <3>1, <3>2, <3>3 DEF RingInv, SeenNothing, Ringed
  <2>. QED
    BY <2>1, <2>2
<1>4. ASSUME NEW t \in Threads, Inform(t) PROVE RingInv'
  <2>1. ~Quiet
    BY <1>4 DEF Quiet, Inform, At
  <2>2. committed' # "nothing" /\ ~Ringed
    BY <1>4, <2>1 DEF RingInv, Ringed, Inform
  <2>3. \A u \in Threads : ~SeenNothing(u)'
    BY <1>4, <2>1 DEF TypeOK, RingInv, SeenNothing, Inform, At
  <2>4. sent' = sent \/ sent' = Append(sent, "informational")
    BY <1>4 DEF Inform
  <2>5. ~Ringed'
    BY <2>2, <2>4, SentAppend DEF Ringed
  <2>. QED
    BY <2>2, <2>3, <2>5 DEF RingInv, SeenNothing, Ringed
<1>5. ASSUME NEW t \in Threads, Read(t) PROVE RingInv'
  <2>1. (sent' = sent) /\ committed' = committed
    BY <1>5 DEF Read, At, Returns, localVars
  <2>2. NoNewcomer
    BY <1>5 DEF TypeOK, NoNewcomer, SeenNothing, Read, At, Returns, localVars
  <2>. QED
    BY <2>1, <2>2, RingFrame
<1>6. ASSUME NEW t \in Threads, Commit(t) PROVE RingInv'
  <2>1. (sent' = sent) /\ committed' = committed
    BY <1>6 DEF Commit, At, Returns, localVars
  <2>2. NoNewcomer
    BY <1>6 DEF TypeOK, NoNewcomer, SeenNothing, Commit, At, Returns, localVars
  <2>. QED
    BY <2>1, <2>2, RingFrame
<1>7. ASSUME NEW t \in Threads, CommitCas(t) PROVE RingInv'
  <2>1. CASE committed # seen[t]
    <3>1. UNCHANGED <<sent, committed>>
      BY <1>7, <2>1 DEF CommitCas
    <3>2. NoNewcomer
      BY <1>7, <2>1 DEF TypeOK, NoNewcomer, SeenNothing, CommitCas, At
    <3>. QED
      BY <3>1, <3>2, RingFrame
  <2>2. CASE committed = seen[t]
    <3>1. committed # "head" /\ committed' = "head" /\ UNCHANGED <<sent, seen>>
      BY <1>7, <2>2 DEF TypeOK, CommitCas
    <3>2. Quiet => Quiet'
      BY <1>7, <3>1 DEF TypeOK, Quiet, CommitCas, At
    <3>3. ~Ringed'
      BY <3>1 DEF HeadInv, Final, FinalHeads, Ringed
    <3>4. \A u \in Threads : SeenNothing(u)' => u = t
      BY <1>7, <3>1 DEF TypeOK, HeadInv, Holds, SeenNothing, CommitCas, At
    <3>5. SeenNothing(t)' => committed = "nothing"
      BY <2>2, <3>1 DEF SeenNothing
    <3>. QED
      BY <3>1, <3>2, <3>3, <3>4, <3>5 DEF RingInv, SeenNothing, Ringed
  <2>. QED
    BY <2>1, <2>2
<1>8. ASSUME NEW t \in Threads, FixedAccepted(t) PROVE RingInv'
  <2>1. committed' # "nothing" /\ Holds(t)
    BY <1>8 DEF HeadInv, Holds, FixedAccepted, At
  <2>2. \A u \in Threads : ~SeenNothing(u)'
    BY <1>8, <2>1 DEF TypeOK, HeadInv, SeenNothing, Holds, FixedAccepted, At, localVars
  <2>3. CASE seen[t] = "nothing"
    <3>1. Quiet /\ sent' = Append(sent, "ring")
      BY <1>8, <2>3 DEF RingInv, FixedAccepted, At
    <3>2. Quiet'
      BY <1>8, <3>1, SentAppend DEF TypeOK, Quiet, FixedAccepted, At
    <3>. QED
      BY <2>1, <2>2, <3>2 DEF RingInv, SeenNothing
  <2>4. CASE seen[t] # "nothing"
    <3>1. sent' = Append(sent, "fixed") /\ committed' = committed
      BY <1>8, <2>4 DEF FixedAccepted
    <3>2. NoNewcomer
      BY <1>8, <2>2 DEF TypeOK, NoNewcomer, FixedAccepted, At
    <3>. QED
      BY <3>1, <3>2, RingSend
  <2>. QED
    BY <2>3, <2>4
<1>9. ASSUME NEW t \in Threads, FixedOverloaded(t) PROVE RingInv'
  <2>1. (sent' = sent) /\ committed' = committed
    BY <1>9 DEF FixedOverloaded, At, Returns, localVars
  <2>2. NoNewcomer
    BY <1>9 DEF TypeOK, NoNewcomer, SeenNothing, FixedOverloaded, At, Returns, localVars
  <2>. QED
    BY <2>1, <2>2, RingFrame
<1>10. ASSUME NEW t \in Threads, FixedClosed(t) PROVE RingInv'
  <2>1. (sent' = sent) /\ committed' = committed
    BY <1>10 DEF FixedClosed, At, Returns, localVars
  <2>2. NoNewcomer
    BY <1>10 DEF TypeOK, NoNewcomer, SeenNothing, FixedClosed, At, Returns, localVars
  <2>. QED
    BY <2>1, <2>2, RingFrame
<1>11. ASSUME NEW t \in Threads, StopWriter(t) PROVE RingInv'
  <2>1. (sent' = sent) /\ committed' = committed
    BY <1>11 DEF StopWriter, At, Returns, localVars
  <2>2. NoNewcomer
    BY <1>11 DEF TypeOK, NoNewcomer, SeenNothing, StopWriter, At, Returns, localVars
  <2>. QED
    BY <2>1, <2>2, RingFrame
<1>12. ASSUME NEW t \in Threads, MakeWriter(t) PROVE RingInv'
  <2>1. (sent' = sent) /\ committed' = committed
    BY <1>12 DEF MakeWriter, At, Returns, localVars
  <2>2. NoNewcomer
    BY <1>12 DEF TypeOK, NoNewcomer, SeenNothing, MakeWriter, At, Returns, localVars
  <2>. QED
    BY <2>1, <2>2, RingFrame
<1>13. ASSUME NEW t \in Threads, StartResponse(t) PROVE RingInv'
  <2>1. (sent' = sent \/ sent' = Append(sent, "start")) /\ committed' = committed
    BY <1>13 DEF StartResponse, At, Returns, localVars
  <2>2. NoNewcomer
    BY <1>13 DEF TypeOK, NoNewcomer, SeenNothing, StartResponse, At, Returns, localVars
  <2>. QED
    BY <2>1, <2>2, RingFrame, RingSend
<1>14. ASSUME NEW t \in Threads, Write(t) PROVE RingInv'
  <2>1. (sent' = sent) /\ committed' = committed
    BY <1>14 DEF Write, At, Returns, localVars
  <2>2. NoNewcomer
    BY <1>14 DEF TypeOK, NoNewcomer, SeenNothing, Write, At, Returns, localVars
  <2>. QED
    BY <2>1, <2>2, RingFrame
<1>15. ASSUME NEW t \in Threads, WriteDone(t) PROVE RingInv'
  <2>1. (sent' = sent \/ sent' = Append(sent, "data")) /\ committed' = committed
    BY <1>15 DEF WriteDone, At, Returns, localVars
  <2>2. NoNewcomer
    BY <1>15 DEF TypeOK, NoNewcomer, SeenNothing, WriteDone, At, Returns, localVars
  <2>. QED
    BY <2>1, <2>2, RingFrame, RingSend
<1>16. ASSUME NEW t \in Threads, WriteStopped(t) PROVE RingInv'
  <2>1. (sent' = sent) /\ committed' = committed
    BY <1>16 DEF WriteStopped, At, Returns, localVars
  <2>2. NoNewcomer
    BY <1>16 DEF TypeOK, NoNewcomer, SeenNothing, WriteStopped, At, Returns, localVars
  <2>. QED
    BY <2>1, <2>2, RingFrame
<1>17. ASSUME NEW t \in Threads, CloseWriter(t) PROVE RingInv'
  <2>1. (sent' = sent) /\ committed' = committed
    BY <1>17 DEF CloseWriter, At, Returns, localVars
  <2>2. NoNewcomer
    BY <1>17 DEF TypeOK, NoNewcomer, SeenNothing, CloseWriter, At, Returns, localVars
  <2>. QED
    BY <2>1, <2>2, RingFrame
<1>18. ASSUME NEW t \in Threads, BeginClose(t) PROVE RingInv'
  <2>1. (sent' = sent) /\ committed' = committed
    BY <1>18 DEF BeginClose, At, Returns, localVars
  <2>2. NoNewcomer
    BY <1>18 DEF TypeOK, NoNewcomer, SeenNothing, BeginClose, At, Returns, localVars
  <2>. QED
    BY <2>1, <2>2, RingFrame
<1>19. ASSUME NEW t \in Threads, OutClose(t) PROVE RingInv'
  <2>1. (sent' = sent \/ sent' = Append(sent, "data")) /\ committed' = committed
    BY <1>19 DEF OutClose, At, Returns, localVars
  <2>2. NoNewcomer
    BY <1>19 DEF TypeOK, NoNewcomer, SeenNothing, OutClose, At, Returns, localVars
  <2>. QED
    BY <2>1, <2>2, RingFrame, RingSend
<1>20. ASSUME NEW t \in Threads, Terminal(t) PROVE RingInv'
  <2>1. (sent' = sent) /\ committed' = committed
    BY <1>20 DEF Terminal, At, Returns, localVars
  <2>2. NoNewcomer
    BY <1>20 DEF TypeOK, NoNewcomer, SeenNothing, Terminal, At, Returns, localVars
  <2>. QED
    BY <2>1, <2>2, RingFrame
<1>21. ASSUME NEW t \in Threads, Register(t) PROVE RingInv'
  <2>1. (sent' = sent) /\ committed' = committed
    BY <1>21 DEF Register, At, Returns, localVars
  <2>2. NoNewcomer
    BY <1>21 DEF TypeOK, NoNewcomer, SeenNothing, Register, At, Returns, localVars
  <2>. QED
    BY <2>1, <2>2, RingFrame
<1>22. ASSUME NEW k \in 1..Len(tasks), Submit(k) PROVE RingInv'
  <2>1. UNCHANGED <<sent, committed, pc, seen>>
    BY <1>22 DEF Submit, localVars
  <2>. QED
    BY <2>1, RingFrame DEF NoNewcomer, SeenNothing
<1>23. ASSUME NEW k \in 1..Len(tasks), Run(k) PROVE RingInv'
  <2>1. UNCHANGED <<sent, committed, pc, seen>>
    BY <1>23 DEF Run, localVars
  <2>. QED
    BY <2>1, RingFrame DEF NoNewcomer, SeenNothing
<1>24. CASE Retire
  <2>1. UNCHANGED <<sent, committed, pc, seen>>
    BY <1>24 DEF Retire, localVars
  <2>. QED
    BY <2>1, RingFrame DEF NoNewcomer, SeenNothing
<1>25. CASE RetireWriter
  <2>1. UNCHANGED <<sent, committed, pc, seen>>
    BY <1>25 DEF RetireWriter, localVars
  <2>. QED
    BY <2>1, RingFrame DEF NoNewcomer, SeenNothing
<1>26. CASE RetireEmitter
  <2>1. UNCHANGED <<sent, committed, pc, seen>>
    BY <1>26 DEF RetireEmitter, localVars
  <2>. QED
    BY <2>1, RingFrame DEF NoNewcomer, SeenNothing
<1>27. CASE WorkerEnds
  <2>1. UNCHANGED <<sent, committed, pc, seen>>
    BY <1>27 DEF WorkerEnds, localVars
  <2>. QED
    BY <2>1, RingFrame DEF NoNewcomer, SeenNothing
<1>28. CASE UNCHANGED vars
  <2>1. UNCHANGED <<sent, committed, pc, seen>>
    BY <1>28 DEF vars, localVars
  <2>. QED
    BY <2>1, RingFrame DEF NoNewcomer, SeenNothing
<1>29. QED
  BY <1>1, <1>2, <1>3, <1>4, <1>5, <1>6, <1>7, <1>8, <1>9, <1>10, <1>11, <1>12, <1>13, <1>14, <1>15, <1>16, <1>17, <1>18, <1>19, <1>20, <1>21, <1>22, <1>23, <1>24, <1>25, <1>26, <1>27, <1>28 DEF Next, ThreadStep, TaskStep, WorkerStep

-----------------------------------------------------------------------------
(* The chain of callback tasks.                                            *)

\* The numbers a task stands for are among those given out.
LEMMA ChainBounds ==
  ASSUME TypeOK, ChainInv
  PROVE  \A k \in 1..Len(tasks) :
           /\ FirstId(k) \in Int /\ LastId(k) \in Int
           /\ FirstId(k) <= LastId(k) /\ LastId(k) <= registered
<1>1. Len(tasks) \in Nat /\ registered \in Nat
  BY TaskTypes, LenProperties
<1>2. ASSUME NEW k \in 1..Len(tasks)
      PROVE  FirstId(k) \in Int /\ LastId(k) \in Int /\ FirstId(k) <= LastId(k)
  <2>1. tasks[k].ids \in Seq(1..registered) /\ tasks[k].ids # <<>>
    BY TaskTypes DEF ChainInv
  <2>2. Len(tasks[k].ids) \in Nat \ {0} /\ tasks[k].ids[1] \in 1..registered
    BY <1>1, <2>1
  <2>. QED
    BY <1>1, <2>2 DEF FirstId, LastId
<1>3. ASSUME NEW k \in 1..Len(tasks) PROVE LastId(k) <= registered
  <2>1. tasks # <<>> /\ Len(tasks) \in 1..Len(tasks)
    BY <1>1
  <2>2. LastId(Len(tasks)) = registered
    BY <2>1 DEF ChainInv
  <2>3. k < Len(tasks) => LastId(k) < FirstId(Len(tasks))
    BY <2>1 DEF ChainInv
  <2>. QED
    BY <1>1, <1>2, <2>1, <2>2, <2>3
<1>. QED
  BY <1>2, <1>3

\* A step that leaves the callbacks and what the tasks stand for alone.
LEMMA ChainFrame ==
  ASSUME ChainInv, Len(tasks') = Len(tasks), tasks' = <<>> <=> tasks = <<>>,
         \A k \in 1..Len(tasks) : tasks'[k].ids = tasks[k].ids,
         UNCHANGED <<callbacks, registered>>, phase' = "closed" <=> phase = "closed",
         tasks = <<>> => ran' = ran, Len(tasks) \in Nat
  PROVE  ChainInv'
<1>1. \A k \in 1..Len(tasks) : FirstId(k)' = FirstId(k) /\ LastId(k)' = LastId(k)
  BY DEF FirstId, LastId
<1>2. tasks # <<>> => FirstId(1)' = FirstId(1) /\ LastId(Len(tasks))' = LastId(Len(tasks))
  BY DEF FirstId, LastId
<1>3. \A k \in 1..Len(tasks') : k > 1 => FirstId(k)' = LastId(k - 1)' + 1
  BY <1>1 DEF ChainInv
<1>. QED
  BY <1>1, <1>2, <1>3 DEF ChainInv

\* A stage moves.
LEMMA ChainStage ==
  ASSUME TypeOK, ChainInv, NEW k \in 1..Len(tasks), NEW st \in {"reserved", "submitted", "run"},
         tasks' = [tasks EXCEPT ![k].stage = st], UNCHANGED <<phase, callbacks, registered>>
  PROVE  ChainInv'
<1>1. Len(tasks) \in Nat /\ tasks # <<>>
  BY TaskTypes
<1>2. /\ tasks' \in Seq(Task(registered)) /\ Len(tasks') = Len(tasks)
      /\ \A j \in 1..Len(tasks) : tasks'[j].ids = tasks[j].ids
  BY StageStep
<1>3. tasks' # <<>>
  BY <1>1, <1>2
<1>. QED
  BY <1>1, <1>2, <1>3, ChainFrame

\* The first to close the emitter makes one task of all that was registered.
LEMMA ChainTerminate ==
  ASSUME TypeOK, ChainInv, PrefixInv, Terminate
  PROVE  ChainInv' /\ PrefixInv'
<1>1. /\ phase' = "closed" /\ callbacks' = <<>> /\ ran' = ran /\ registered' = registered
      /\ registered \in Nat /\ callbacks \in Seq(1..registered) /\ Len(callbacks) \in Nat
  BY TaskTypes DEF Terminate
<1>2. CASE phase = "closed" \/ callbacks = <<>>
  <2>1. tasks' = tasks
    BY <1>2 DEF Terminate
  <2>2. CASE phase = "closed"
    BY <1>1, <2>1, <2>2 DEF ChainInv, PrefixInv, FirstId, LastId
  <2>3. CASE phase # "closed" /\ callbacks = <<>>
    <3>1. tasks = <<>> /\ Len(tasks) = 0
      BY <2>3 DEF ChainInv
    <3>. QED
      BY <1>1, <2>1, <2>3, <3>1 DEF ChainInv, PrefixInv
  <2>. QED
    BY <1>2, <2>2, <2>3
<1>3. CASE phase # "closed" /\ callbacks # <<>>
  <2>1. tasks = <<>> /\ ran = <<>> /\ Len(callbacks) = registered
        /\ \A k \in 1..Len(callbacks) : callbacks[k] = k
    BY <1>3 DEF ChainInv
  <2>2. Len(callbacks) > 0
    BY <1>1, <1>3
  <2>3. tasks' = <<Reserved(callbacks)>>
    BY <1>3, <2>1 DEF Terminate
  <2>4. Len(tasks') = 1 /\ tasks' # <<>> /\ tasks'[1].ids = callbacks
        /\ tasks'[1].stage = "reserved"
    BY <2>3 DEF Reserved
  <2>5. FirstId(1)' = 1 /\ LastId(1)' = registered
    BY <1>1, <2>1, <2>2, <2>4 DEF FirstId, LastId
  <2>6. Len(ran') = 0
    BY <1>1, <2>1
  <2>7. ChainInv'
    BY <1>1, <1>3, <2>1, <2>4, <2>5 DEF ChainInv
  <2>8. PrefixInv'
    BY <1>1, <2>4, <2>5, <2>6 DEF PrefixInv
  <2>. QED
    BY <2>7, <2>8
<1>. QED
  BY <1>2, <1>3

\* A registration after the close makes a task of its own.
LEMMA ChainRegister ==
  ASSUME TypeOK, ChainInv, PrefixInv, NEW t \in Threads, Register(t)
  PROVE  ChainInv' /\ PrefixInv'
<1>0. /\ tasks \in Seq(Task(registered)) /\ callbacks \in Seq(1..registered)
      /\ ran \in Seq(1..registered)
  BY TaskTypes
<1>1. /\ phase' = phase /\ ran' = ran /\ registered' = registered + 1 /\ registered \in Nat
      /\ Len(tasks) \in Nat /\ Len(ran) \in Nat /\ Len(callbacks) \in Nat
  BY <1>0, TaskTypes, LenProperties DEF Register
<1>2. CASE phase # "closed"
  <2>1. tasks' = tasks /\ tasks = <<>> /\ ran = <<>> /\ Len(callbacks) = registered
        /\ \A k \in 1..Len(callbacks) : callbacks[k] = k
    BY <1>2 DEF Register, ChainInv
  <2>2. callbacks' = Append(callbacks, registered + 1)
    BY <1>1, <1>2 DEF Register
  <2>3. Len(callbacks') = registered + 1 /\ \A k \in 1..Len(callbacks') : callbacks'[k] = k
    BY <1>0, <1>1, <2>1, <2>2, AppendFacts
  <2>4. ChainInv'
    BY <1>1, <1>2, <2>1, <2>3 DEF ChainInv
  <2>5. PrefixInv'
    BY <1>1, <2>1 DEF PrefixInv
  <2>. QED
    BY <2>4, <2>5
<1>3. CASE phase = "closed"
  <2>0. PICK n \in Nat : n = Len(tasks)
    BY <1>1
  <2>1. callbacks' = callbacks /\ callbacks = <<>> /\ Len(callbacks) = 0
    BY <1>3 DEF Register, ChainInv
  <2>2. tasks' = Append(tasks, Reserved(<<registered + 1>>))
    BY <1>1, <1>3 DEF Register
  <2>3. /\ Len(tasks') = n + 1 /\ tasks' # <<>>
        /\ \A k \in 1..n : tasks'[k] = tasks[k]
        /\ tasks'[n + 1] = Reserved(<<registered + 1>>)
    <3>1. /\ Len(tasks') = Len(tasks) + 1 /\ tasks' # <<>>
          /\ \A k \in 1..Len(tasks) : tasks'[k] = tasks[k]
          /\ tasks'[Len(tasks) + 1] = Reserved(<<registered + 1>>)
      BY ONLY <1>0, <2>2, AppendFacts
    <3>. QED
      BY <2>0, <3>1
  <2>4. /\ tasks'[n + 1].stage = "reserved"
        /\ tasks'[n + 1].ids # <<>> /\ Len(tasks'[n + 1].ids) = 1
        /\ tasks'[n + 1].ids[1] = registered + 1
    BY <2>3 DEF Reserved
  <2>5. \A k \in 1..n : FirstId(k)' = FirstId(k) /\ LastId(k)' = LastId(k)
    BY <2>3 DEF FirstId, LastId
  <2>6. FirstId(n + 1)' = registered + 1 /\ LastId(n + 1)' = registered + 1
    BY <1>1, <2>4 DEF FirstId, LastId
  <2>7. \A k \in 1..n : /\ FirstId(k) \in Int /\ LastId(k) \in Int
                        /\ FirstId(k) <= LastId(k) /\ LastId(k) <= registered
    BY <2>0, ChainBounds
  <2>8. \A k \in 1..Len(tasks') : k \in 1..n \/ k = n + 1
    BY <2>0, <2>3
  <2>9. n > 0 => LastId(n) = registered /\ FirstId(1) = 1
    <3>1. n > 0 => tasks # <<>>
      BY <1>0, <2>0, EmptySeq
    <3>. QED
      BY <2>0, <3>1 DEF ChainInv
  <2>10. n = 0 => registered = 0
    <3>1. n = 0 => tasks = <<>>
      BY <1>0, <2>0, EmptySeq
    <3>. QED
      BY <2>1, <3>1 DEF ChainInv
  <2>11. \A k \in 1..n : k > 1 => FirstId(k)' = LastId(k - 1)' + 1
    <3>1. \A k \in 1..n : k > 1 => FirstId(k) = LastId(k - 1) + 1 /\ k - 1 \in 1..n
      BY <2>0 DEF ChainInv
    <3>. QED
      BY <2>5, <3>1
  <2>12. \A k \in 1..Len(tasks') : k > 1 => FirstId(k)' = LastId(k - 1)' + 1
    <3>1. n > 0 => LastId(n)' = registered
      BY <2>0, <2>5, <2>9
    <3>. QED
      BY <1>1, <2>0, <2>3, <2>6, <2>8, <2>11, <3>1
  <2>13. \A j, k \in 1..n : j < k => LastId(j)' < FirstId(k)'
    BY <2>0, <2>5 DEF ChainInv
  <2>14. \A j \in 1..n : LastId(j)' < FirstId(n + 1)'
    BY <1>1, <2>0, <2>5, <2>6, <2>7
  <2>15. \A j, k \in 1..Len(tasks') : j < k => LastId(j)' < FirstId(k)'
    BY <2>0, <2>3, <2>8, <2>13, <2>14
  <2>16. ASSUME NEW k \in 1..Len(tasks')
         PROVE  /\ tasks'[k].ids # <<>>
                /\ \A i \in 1..Len(tasks'[k].ids) : tasks'[k].ids[i] = FirstId(k)' + i - 1
    <3>1. CASE k \in 1..n
      BY <2>0, <2>3, <2>5, <3>1 DEF ChainInv
    <3>2. CASE k = n + 1
      <4>0. Len(tasks'[k].ids) = 1
        BY <2>4, <3>2
      <4>1. \A i \in 1..Len(tasks'[k].ids) : i = 1
        BY ONLY <4>0
      <4>. QED
        BY <1>1, <2>4, <2>6, <3>2, <4>1
    <3>. QED
      BY <2>8, <3>1, <3>2
  <2>17. FirstId(1)' = 1 /\ LastId(n + 1)' = registered'
    BY <1>1, <2>0, <2>5, <2>6, <2>9, <2>10
  <2>18. ChainInv'
    BY <1>1, <1>3, <2>1, <2>3, <2>12, <2>15, <2>16, <2>17 DEF ChainInv
  <2>19. Len(ran) <= registered
    BY DEF PrefixInv
  <2>20. ASSUME NEW k \in 1..Len(tasks')
         PROVE  IF tasks'[k].stage = "run" THEN LastId(k)' <= Len(ran) ELSE Len(ran) < FirstId(k)'
    <3>1. CASE k \in 1..n
      BY <2>0, <2>3, <2>5, <3>1 DEF PrefixInv
    <3>2. CASE k = n + 1
      BY <1>1, <2>4, <2>6, <2>19, <3>2
    <3>. QED
      BY <2>8, <3>1, <3>2
  <2>21. \A j, k \in 1..Len(tasks') :
           j < k /\ tasks'[k].stage = "run" => tasks'[j].stage = "run"
    <3>1. \A k \in 1..Len(tasks') :
            tasks'[k].stage = "run" => k \in 1..n /\ tasks[k].stage = "run"
      BY <2>3, <2>4, <2>8
    <3>2. \A j, k \in 1..n : j < k /\ tasks[k].stage = "run" => tasks[j].stage = "run"
      BY <2>0 DEF PrefixInv
    <3>. QED
      BY <2>0, <2>3, <2>8, <3>1, <3>2
  <2>22. PrefixInv'
    BY <1>1, <2>19, <2>20, <2>21 DEF PrefixInv
  <2>. QED
    BY <2>18, <2>22
<1>. QED
  BY <1>2, <1>3

\* A task runs when all before it have: what it runs are the next numbers.
LEMMA PrefixRun ==
  ASSUME TypeOK, ChainInv, PrefixInv, NEW k \in 1..Len(tasks), Run(k)
  PROVE  PrefixInv'
<1>0. /\ ran \in Seq(1..registered) /\ tasks[k].ids \in Seq(1..registered)
      /\ tasks \in Seq(Task(registered))
  BY TaskTypes
<1>1. /\ registered \in Nat /\ registered' = registered
      /\ Len(tasks) \in Nat /\ Len(ran) \in Nat /\ Len(tasks[k].ids) \in Nat
  BY <1>0, TaskTypes, LenProperties DEF Run
<1>2. /\ tasks' = [tasks EXCEPT ![k].stage = "run"] /\ ran' = ran \o tasks[k].ids
      /\ tasks[k].stage # "run"
      /\ \A j \in 1..(k - 1) : tasks[j].stage = "run"
  BY DEF Run
<1>3. /\ Len(tasks') = Len(tasks) /\ tasks'[k].stage = "run"
      /\ \A j \in 1..Len(tasks) : tasks'[j].ids = tasks[j].ids
      /\ \A j \in 1..Len(tasks) : j # k => tasks'[j] = tasks[j]
  BY <1>2, StageStep
<1>4. \A j \in 1..Len(tasks) : FirstId(j)' = FirstId(j) /\ LastId(j)' = LastId(j)
  BY <1>3 DEF FirstId, LastId
<1>5. \A j \in 1..Len(tasks) : /\ FirstId(j) \in Int /\ LastId(j) \in Int
                               /\ FirstId(j) <= LastId(j) /\ LastId(j) <= registered
  BY ChainBounds
<1>6. Len(ran) = FirstId(k) - 1
  <2>1. Len(ran) < FirstId(k)
    BY <1>2 DEF PrefixInv
  <2>2. CASE k = 1
    <3>1. FirstId(k) = 1
      BY <1>1, <2>2 DEF ChainInv
    <3>. QED
      BY <1>1, <2>1, <3>1
  <2>3. CASE k > 1
    <3>1. k - 1 \in 1..Len(tasks) /\ k - 1 \in 1..(k - 1)
      BY <1>1, <2>3
    <3>2. LastId(k - 1) <= Len(ran)
      BY <1>2, <3>1 DEF PrefixInv
    <3>3. FirstId(k) = LastId(k - 1) + 1
      BY <2>3 DEF ChainInv
    <3>. QED
      BY <1>1, <1>5, <2>1, <3>1, <3>2, <3>3
  <2>. QED
    BY <2>2, <2>3
<1>7. Len(ran') = LastId(k) /\ Len(ran) <= Len(ran')
  <2>1. Len(ran') = Len(ran) + Len(tasks[k].ids)
    BY <1>0, <1>2, ConcatProperties
  <2>. QED
    BY <1>1, <1>5, <1>6, <2>1 DEF LastId
<1>8. \A i \in 1..Len(ran') : ran'[i] = i
  <2>1. \A i \in 1..Len(ran') : ran'[i] = IF i <= Len(ran) THEN ran[i]
                                                          ELSE tasks[k].ids[i - Len(ran)]
    BY <1>0, <1>1, <1>2, ConcatProperties
  <2>2. Len(ran') = Len(ran) + Len(tasks[k].ids)
    BY <1>0, <1>1, <1>2, ConcatProperties
  <2>3. \A i \in 1..Len(ran) : ran[i] = i
    BY DEF PrefixInv
  <2>4. \A i \in 1..Len(tasks[k].ids) : tasks[k].ids[i] = FirstId(k) + i - 1
    BY DEF ChainInv
  <2>5. ASSUME NEW i \in 1..Len(ran'), i > Len(ran) PROVE ran'[i] = i
    <3>1. i - Len(ran) \in 1..Len(tasks[k].ids)
      BY <1>1, <2>2, <2>5
    <3>2. ran'[i] = FirstId(k) + (i - Len(ran)) - 1
      BY <1>1, <2>1, <2>4, <2>5, <3>1
    <3>. QED
      BY <1>1, <1>5, <1>6, <3>2
  <2>. QED
    BY <1>1, <2>1, <2>3, <2>5
<1>9. \A j \in 1..Len(tasks') : IF tasks'[j].stage = "run" THEN LastId(j)' <= Len(ran')
                                                          ELSE Len(ran') < FirstId(j)'
  <2>1. ASSUME NEW j \in 1..Len(tasks), j < k PROVE tasks[j].stage = "run" /\ LastId(j) <= Len(ran)
    <3>1. j \in 1..(k - 1)
      BY <1>1, <2>1
    <3>. QED
      BY <1>2, <3>1 DEF PrefixInv
  <2>2. ASSUME NEW j \in 1..Len(tasks), j > k
        PROVE  tasks[j].stage # "run" /\ LastId(k) < FirstId(j)
    BY <1>2, <2>2 DEF PrefixInv, ChainInv
  <2>3. ASSUME NEW j \in 1..Len(tasks)
        PROVE  IF tasks'[j].stage = "run" THEN LastId(j) <= Len(ran') ELSE Len(ran') < FirstId(j)
    <3>1. CASE j < k
      BY <1>1, <1>3, <1>5, <1>6, <1>7, <2>1, <3>1
    <3>2. CASE j = k
      BY <1>3, <1>5, <1>7, <3>2
    <3>3. CASE j > k
      BY <1>3, <1>5, <1>7, <2>2, <3>3
    <3>. QED
      BY <3>1, <3>2, <3>3
  <2>. QED
    BY <1>3, <1>4, <2>3
<1>10. \A i, j \in 1..Len(tasks') : i < j /\ tasks'[j].stage = "run" => tasks'[i].stage = "run"
  BY <1>1, <1>2, <1>3 DEF PrefixInv
<1>. QED
  BY <1>1, <1>5, <1>7, <1>8, <1>9, <1>10 DEF PrefixInv

\* Moving a task to the executor runs nothing.
LEMMA PrefixSubmit ==
  ASSUME TypeOK, ChainInv, PrefixInv, NEW k \in 1..Len(tasks), Submit(k)
  PROVE  PrefixInv'
<1>1. /\ tasks' = [tasks EXCEPT ![k].stage = "submitted"] /\ tasks[k].stage # "run"
      /\ UNCHANGED <<ran, registered>>
  BY DEF Submit
<1>2. /\ Len(tasks') = Len(tasks) /\ tasks'[k].stage = "submitted"
      /\ \A j \in 1..Len(tasks) : tasks'[j].ids = tasks[j].ids
      /\ \A j \in 1..Len(tasks) : j # k => tasks'[j] = tasks[j]
  BY <1>1, StageStep
<1>3. \A j \in 1..Len(tasks) : FirstId(j)' = FirstId(j) /\ LastId(j)' = LastId(j)
  BY <1>2 DEF FirstId, LastId
<1>4. \A j \in 1..Len(tasks) : tasks'[j].stage = "run" <=> tasks[j].stage = "run"
  BY <1>1, <1>2
<1>. QED
  BY <1>1, <1>2, <1>3, <1>4 DEF PrefixInv

\* A step that has nothing to do with callbacks.
LEMMA LifeFrame ==
  ASSUME ChainInv, PrefixInv, UNCHANGED lifeVars
  PROVE  ChainInv' /\ PrefixInv'
BY DEF ChainInv, PrefixInv, FirstId, LastId, lifeVars


\* Every registered callback is in one place, and the chain runs them in order.
LEMMA ChainStep ==
  ASSUME TypeOK, ChainInv, PrefixInv, [Next]_vars
  PROVE  ChainInv' /\ PrefixInv'
<1>1. ASSUME NEW t \in Threads, Call(t) PROVE ChainInv' /\ PrefixInv'
  <2>1. UNCHANGED lifeVars
    BY <1>1 DEF Call, lifeVars, localVars
  <2>. QED
    BY <2>1, LifeFrame
<1>2. ASSUME NEW t \in Threads, Open(t) PROVE ChainInv' /\ PrefixInv'
  <2>1. UNCHANGED lifeVars
    BY <1>2 DEF Open, lifeVars, localVars
  <2>. QED
    BY <2>1, LifeFrame
<1>3. ASSUME NEW t \in Threads, Mark(t) PROVE ChainInv' /\ PrefixInv'
  <2>1. UNCHANGED lifeVars
    BY <1>3 DEF Mark, lifeVars, localVars
  <2>. QED
    BY <2>1, LifeFrame
<1>4. ASSUME NEW t \in Threads, Inform(t) PROVE ChainInv' /\ PrefixInv'
  <2>1. UNCHANGED lifeVars
    BY <1>4 DEF Inform, lifeVars, localVars
  <2>. QED
    BY <2>1, LifeFrame
<1>5. ASSUME NEW t \in Threads, Read(t) PROVE ChainInv' /\ PrefixInv'
  <2>1. UNCHANGED lifeVars
    BY <1>5 DEF Read, lifeVars, localVars
  <2>. QED
    BY <2>1, LifeFrame
<1>6. ASSUME NEW t \in Threads, Commit(t) PROVE ChainInv' /\ PrefixInv'
  <2>1. UNCHANGED lifeVars
    BY <1>6 DEF Commit, lifeVars, localVars
  <2>. QED
    BY <2>1, LifeFrame
<1>7. ASSUME NEW t \in Threads, CommitCas(t) PROVE ChainInv' /\ PrefixInv'
  <2>1. UNCHANGED lifeVars
    BY <1>7 DEF CommitCas, lifeVars, localVars
  <2>. QED
    BY <2>1, LifeFrame
<1>8. ASSUME NEW t \in Threads, FixedAccepted(t) PROVE ChainInv' /\ PrefixInv'
  <2>1. UNCHANGED lifeVars
    BY <1>8 DEF FixedAccepted, lifeVars, localVars
  <2>. QED
    BY <2>1, LifeFrame
<1>9. ASSUME NEW t \in Threads, FixedOverloaded(t) PROVE ChainInv' /\ PrefixInv'
  <2>1. UNCHANGED lifeVars
    BY <1>9 DEF FixedOverloaded, lifeVars, localVars
  <2>. QED
    BY <2>1, LifeFrame
<1>10. ASSUME NEW t \in Threads, FixedClosed(t) PROVE ChainInv' /\ PrefixInv'
  <2>1. UNCHANGED lifeVars
    BY <1>10 DEF FixedClosed, lifeVars, localVars
  <2>. QED
    BY <2>1, LifeFrame
<1>11. ASSUME NEW t \in Threads, StopWriter(t) PROVE ChainInv' /\ PrefixInv'
  <2>1. UNCHANGED lifeVars
    BY <1>11 DEF StopWriter, lifeVars, localVars
  <2>. QED
    BY <2>1, LifeFrame
<1>12. ASSUME NEW t \in Threads, MakeWriter(t) PROVE ChainInv' /\ PrefixInv'
  <2>1. UNCHANGED lifeVars
    BY <1>12 DEF MakeWriter, lifeVars, localVars
  <2>. QED
    BY <2>1, LifeFrame
<1>13. ASSUME NEW t \in Threads, StartResponse(t) PROVE ChainInv' /\ PrefixInv'
  <2>1. UNCHANGED lifeVars
    BY <1>13 DEF StartResponse, lifeVars, localVars
  <2>. QED
    BY <2>1, LifeFrame
<1>14. ASSUME NEW t \in Threads, Write(t) PROVE ChainInv' /\ PrefixInv'
  <2>1. UNCHANGED lifeVars
    BY <1>14 DEF Write, lifeVars, localVars
  <2>. QED
    BY <2>1, LifeFrame
<1>15. ASSUME NEW t \in Threads, WriteDone(t) PROVE ChainInv' /\ PrefixInv'
  <2>1. UNCHANGED lifeVars
    BY <1>15 DEF WriteDone, lifeVars, localVars
  <2>. QED
    BY <2>1, LifeFrame
<1>16. ASSUME NEW t \in Threads, WriteStopped(t) PROVE ChainInv' /\ PrefixInv'
  <2>1. UNCHANGED lifeVars
    BY <1>16 DEF WriteStopped, lifeVars, localVars
  <2>. QED
    BY <2>1, LifeFrame
<1>17. ASSUME NEW t \in Threads, CloseWriter(t) PROVE ChainInv' /\ PrefixInv'
  <2>1. UNCHANGED lifeVars
    BY <1>17 DEF CloseWriter, lifeVars, localVars
  <2>. QED
    BY <2>1, LifeFrame
<1>18. ASSUME NEW t \in Threads, BeginClose(t) PROVE ChainInv' /\ PrefixInv'
  <2>1. UNCHANGED <<callbacks, tasks, ran, registered>> /\ (phase' = "closed" <=> phase = "closed")
    BY <1>18 DEF BeginClose
  <2>2. ChainInv'
    BY <2>1 DEF ChainInv, FirstId, LastId
  <2>3. PrefixInv'
    BY <2>1 DEF PrefixInv, FirstId, LastId
  <2>. QED
    BY <2>2, <2>3
<1>19. ASSUME NEW t \in Threads, OutClose(t) PROVE ChainInv' /\ PrefixInv'
  <2>1. UNCHANGED lifeVars
    BY <1>19 DEF OutClose, lifeVars, localVars
  <2>. QED
    BY <2>1, LifeFrame
<1>20. ASSUME NEW t \in Threads, Terminal(t) PROVE ChainInv' /\ PrefixInv'
  BY <1>20, ChainTerminate DEF Terminal
<1>21. ASSUME NEW t \in Threads, Register(t) PROVE ChainInv' /\ PrefixInv'
  BY <1>21, ChainRegister
<1>22. ASSUME NEW k \in 1..Len(tasks), Submit(k) PROVE ChainInv' /\ PrefixInv'
  <2>1. tasks' = [tasks EXCEPT ![k].stage = "submitted"] /\ UNCHANGED <<phase, callbacks, registered>>
    BY <1>22 DEF Submit
  <2>. QED
    BY <1>22, <2>1, ChainStage, PrefixSubmit
<1>23. ASSUME NEW k \in 1..Len(tasks), Run(k) PROVE ChainInv' /\ PrefixInv'
  <2>1. tasks' = [tasks EXCEPT ![k].stage = "run"] /\ UNCHANGED <<phase, callbacks, registered>>
    BY <1>23 DEF Run
  <2>. QED
    BY <1>23, <2>1, ChainStage, PrefixRun
<1>24. CASE Retire
  <2>1. UNCHANGED lifeVars
    BY <1>24 DEF Retire, lifeVars
  <2>. QED
    BY <2>1, LifeFrame
<1>25. CASE RetireWriter
  <2>1. UNCHANGED lifeVars
    BY <1>25 DEF RetireWriter, lifeVars
  <2>. QED
    BY <2>1, LifeFrame
<1>26. CASE RetireEmitter
  BY <1>26, ChainTerminate DEF RetireEmitter
<1>27. CASE WorkerEnds
  <2>1. UNCHANGED lifeVars
    BY <1>27 DEF WorkerEnds, lifeVars
  <2>. QED
    BY <2>1, LifeFrame
<1>28. CASE UNCHANGED vars
  <2>1. UNCHANGED lifeVars
    BY <1>28 DEF vars, lifeVars
  <2>. QED
    BY <2>1, LifeFrame
<1>29. QED
  BY <1>1, <1>2, <1>3, <1>4, <1>5, <1>6, <1>7, <1>8, <1>9, <1>10, <1>11, <1>12, <1>13, <1>14, <1>15, <1>16, <1>17, <1>18, <1>19, <1>20, <1>21, <1>22, <1>23, <1>24, <1>25, <1>26, <1>27, <1>28 DEF Next, ThreadStep, TaskStep, WorkerStep

-----------------------------------------------------------------------------
(* The theorems.                                                           *)

LEMMA EmitterStart == Init => EmitterInv
<1>. SUFFICES ASSUME Init PROVE EmitterInv
  OBVIOUS
<1>1. TypeOK
  BY EmitterAssumption DEF Init, TypeOK, ThreadPcs
<1>2. sent = <<>> /\ Len(sent) = 0 /\ tasks = <<>> /\ Len(tasks) = 0 /\ ran = <<>> /\ Len(ran) = 0
      /\ callbacks = <<>> /\ Len(callbacks) = 0 /\ registered = 0 /\ phase = "open"
      /\ committed = "nothing"
  BY DEF Init
<1>3. \A t \in Threads : pc[t] = "idle"
  BY DEF Init
<1>4. HeadInv /\ RingInv
  BY <1>2, <1>3 DEF HeadInv, Holds, Final, RingInv, Quiet
<1>5. ChainInv /\ PrefixInv
  BY <1>2 DEF ChainInv, PrefixInv
<1>. QED
  BY <1>1, <1>4, <1>5 DEF EmitterInv

LEMMA EmitterStep == EmitterInv /\ [Next]_vars => EmitterInv'
<1>. SUFFICES ASSUME EmitterInv, [Next]_vars PROVE EmitterInv'
  OBVIOUS
<1>. QED
  BY TypeStep, HeadStep, RingStep, ChainStep DEF EmitterInv

\* Every reachable state satisfies the inductive invariant.
THEOREM EmitterInvariant == Spec => []EmitterInv
BY EmitterStart, EmitterStep, PTL DEF Spec

\* Whatever threads race to answer a request, and whenever its worker retires it or
\* ends: at most one final head is sent, and the ring only for a request that was
\* sent no informational response (response.clj, commit-final!; ADR 009).
THEOREM EmitterIsSound == Spec => []EmitterSound
<1>1. EmitterInv => EmitterSound
  <2>. SUFFICES ASSUME EmitterInv PROVE EmitterSound
    OBVIOUS
  <2>1. TypeOK /\ OneFinalHead
    BY DEF EmitterInv, HeadInv, OneFinalHead, Final
  <2>2. RingAnswersAlone
    BY DEF EmitterInv, RingInv, Quiet, RingAnswersAlone, Contains
  <2>. QED
    BY <2>1, <2>2 DEF EmitterSound
<1>. QED
  BY <1>1, EmitterInvariant, PTL

\* The callbacks of on-close run at most once each, in the order of their
\* registration and after the close, whoever closes and whenever they are given
\* (response.clj, terminal! and on-close; callback-tail_).
THEOREM CallbacksRunInOrder == Spec => []CallbacksOnceInOrder
<1>1. EmitterInv => CallbacksOnceInOrder
  <2>. SUFFICES ASSUME EmitterInv PROVE CallbacksOnceInOrder
    OBVIOUS
  <2>1. ran \in Seq(1..registered) /\ \A i \in 1..Len(ran) : ran[i] = i
    BY TaskTypes DEF EmitterInv, PrefixInv
  <2>2. ran = [k \in 1..Len(ran) |-> k]
    BY <2>1
  <2>3. ran # <<>> => phase = "closed"
    BY DEF EmitterInv, ChainInv
  <2>. QED
    BY <2>2, <2>3 DEF CallbacksOnceInOrder
<1>. QED
  BY <1>1, EmitterInvariant, PTL

-------------------------------------------------------------------------------
(* The buffers of streamed responses.                                      *)

\* What a writer has in its hands at each place of its code.
LocalOf(s) ==
  /\ place[s] \in {"idle", "get", "flush", "close", "stale", "forget"} => held[s] = Nil
  /\ place[s] \in {"publish", "copy", "seal", "return"} => held[s] # Nil
  /\ place[s] = "publish" => current[s] = Nil
  /\ place[s] = "put" => current[s] \in torn \cup {Nil}
  /\ place[s] \in {"copy", "seal", "return"} =>
       current[s] = held[s] \/ (current[s] = Nil /\ held[s] \in torn)
  /\ stopPlace[s] = "return" => taken[s] # Nil
LocalInv == \A s \in Streams : LocalOf(s)

\* The buffer it works with has bytes, unless it is about to get the first.
Begun(s) ==
  (place[s] \notin {"copy", "forget"} /\ current[s] \notin torn \cup {Nil}) => filled[current[s]] # {}
BegunInv == \A s \in Streams : Begun(s)

\* The seats of a buffer: a position of the pool, of a queue or of what is in flight,
\* the hands of a writer, and what an on-stop has taken.
Sits(b, kind, s, i) ==
  \/ kind = "pool" /\ s = 0 /\ i \in 1..Len(pool) /\ pool[i] = b
  \/ kind = "queue" /\ s \in Streams /\ i \in 1..Len(queue[s]) /\ queue[s][i].buffer = b
  \/ kind = "flight" /\ s \in Streams /\ i \in 1..Len(inFlight[s]) /\ inFlight[s][i].buffer = b
  \/ kind = "hand" /\ s \in Streams /\ i = 0 /\ b \in InHand(s)
  \/ kind = "taken" /\ s \in Streams /\ i = 0 /\ taken[s] = b

OneSeat(b) ==
  \A k, l, s, t, i, j : Sits(b, k, s, i) /\ Sits(b, l, t, j) => k = l /\ s = t /\ i = j
SeatInv == \A b \in Buffers \ torn : OneSeat(b)

\* What a response keeps for h2o has bytes of that response only.
Keeps(s, b) == b \in InHand(s) \/ \E i \in 1..Len(queue[s]) : queue[s][i].buffer = b
OwnInv ==
  /\ \A s \in Streams, b \in Buffers \ torn : Keeps(s, b) => filled[b] \subseteq {s}
  /\ OwnBytes

BuffersInv == BuffersTypeOK /\ LocalInv /\ BegunInv /\ SeatInv /\ OwnInv

-------------------------------------------------------------------------------
(* The buffers of a chunk sequence.                                        *)

\* A set of numbers with 0 and each successor has them all.
LEMMA SetInduction ==
  ASSUME NEW S, 0 \in S, \A n \in Nat : n \in S => n + 1 \in S
  PROVE  Nat \subseteq S
<1> DEFINE T == Nat \ S
           R == OpToRel(<, Nat)
<1>1. SUFFICES ASSUME T # {} PROVE FALSE
  OBVIOUS
<1>2. IsWellFoundedOn(R, Nat)
  BY NatLessThanWellFounded
<1>3. T \subseteq Nat
  OBVIOUS
<1> HIDE DEF T, R
<1>4. PICK x \in T : \A y \in T : ~(<<y, x>> \in R)
  BY ONLY <1>1, <1>2, <1>3, WFMin
<1> USE DEF T
<1>5. x \in Nat /\ x \notin S
  OBVIOUS
<1>6. x # 0 /\ x - 1 \in Nat /\ x - 1 \in T
  BY <1>5
<1>7. <<x - 1, x>> \in R
  BY <1>5, <1>6 DEF R, OpToRel
<1> QED
  BY <1>4, <1>6, <1>7

\* The lists of the buffers of the first chunks, up to n of them.
ListedUpTo(h, c, n) ==
  /\ h[0] = <<>>
  /\ \A i \in 1..n : h[i] = IF c[i].buffer = Nil THEN h[i - 1] ELSE Append(h[i - 1], c[i].buffer)

LEMMA ListExists ==
  ASSUME NEW c \in Seq(Chunks)
  PROVE  \E h \in [0..Len(c) -> Seq(Buffers)] : ListedUpTo(h, c, Len(c))
<1> DEFINE S == {n \in Nat : n <= Len(c) =>
                   \E h \in [0..n -> Seq(Buffers)] : ListedUpTo(h, c, n)}
<1>c. Len(c) \in Nat /\ \A i \in 1..Len(c) : c[i].buffer \in Buffers \cup {Nil}
  <2>1. Len(c) \in Nat /\ \A i \in 1..Len(c) : c[i] \in Chunks
    BY LenProperties
  <2> QED
    BY <2>1 DEF Chunks
<1>1. 0 \in S
  <2> DEFINE z == [i \in 0..0 |-> <<>>]
  <2>1. z \in [0..0 -> Seq(Buffers)] /\ ListedUpTo(z, c, 0)
    BY EmptySeq DEF ListedUpTo
  <2> QED
    BY <2>1
<1>2. ASSUME NEW n \in Nat, n \in S PROVE n + 1 \in S
  <2> SUFFICES ASSUME n + 1 <= Len(c)
               PROVE  \E h \in [0..(n + 1) -> Seq(Buffers)] : ListedUpTo(h, c, n + 1)
    OBVIOUS
  <2>1. PICK f \in [0..n -> Seq(Buffers)] : ListedUpTo(f, c, n)
    BY <1>2, <1>c
  <2> DEFINE last == IF c[n + 1].buffer = Nil THEN f[n] ELSE Append(f[n], c[n + 1].buffer)
             g == [i \in 0..(n + 1) |-> IF i <= n THEN f[i] ELSE last]
  <2>2. last \in Seq(Buffers)
    <3>1. f[n] \in Seq(Buffers) /\ c[n + 1].buffer \in Buffers \cup {Nil}
      BY <1>c
    <3> QED
      BY <3>1, AppendProperties
  <2>3. g \in [0..(n + 1) -> Seq(Buffers)]
    <3> HIDE DEF last
    <3> QED
      BY <2>2
  <2>4. g[0] = <<>>
    BY <2>1 DEF ListedUpTo
  <2>5. ASSUME NEW i \in 1..(n + 1)
        PROVE  g[i] = IF c[i].buffer = Nil THEN g[i - 1] ELSE Append(g[i - 1], c[i].buffer)
    <3>1. CASE i = n + 1
      <4>1. g[i] = last /\ g[i - 1] = f[n]
        BY <3>1
      <4> QED
        BY <3>1, <4>1
    <3>2. CASE i # n + 1
      <4>1. i \in 1..n /\ i - 1 \in 0..n
        BY <3>2
      <4>2. g[i] = f[i] /\ g[i - 1] = f[i - 1]
        BY <4>1
      <4>3. f[i] = IF c[i].buffer = Nil THEN f[i - 1] ELSE Append(f[i - 1], c[i].buffer)
        BY <2>1, <4>1 DEF ListedUpTo
      <4> QED
        BY <4>2, <4>3
    <3> QED
      BY <3>1, <3>2
  <2> HIDE DEF g, last
  <2>6. ListedUpTo(g, c, n + 1)
    BY <2>4, <2>5 DEF ListedUpTo
  <2> QED
    BY <2>3, <2>6
<1> HIDE DEF S
<1>3. Nat \subseteq S
  BY <1>1, <1>2, SetInduction
<1>4. Len(c) \in S
  BY <1>3, <1>c
<1> QED
  BY <1>4, <1>c DEF S

\* r lists buffers of the first n chunks, one that is in a single chunk once.
ListOf(r, c, n) ==
  /\ r \in Seq(Buffers)
  /\ \A a \in 1..Len(r) : \E i \in 1..n : c[i].buffer = r[a]
  /\ \A b \in Buffers :
       (\A i, j \in 1..n : c[i].buffer = b /\ c[j].buffer = b => i = j) =>
         \A a, d \in 1..Len(r) : r[a] = b /\ r[d] = b => a = d

LEMMA ListNext ==
  ASSUME NEW c \in Seq(Chunks), NEW n \in Nat, n + 1 <= Len(c),
         NEW p, ListOf(p, c, n),
         NEW q, q = IF c[n + 1].buffer = Nil THEN p ELSE Append(p, c[n + 1].buffer)
  PROVE  ListOf(q, c, n + 1)
<1>1. p \in Seq(Buffers) /\ Len(p) \in Nat /\ c[n + 1].buffer \in Buffers \cup {Nil}
  <2>1. c[n + 1] \in Chunks
    <3>1. Len(c) \in Nat /\ n + 1 \in 1..Len(c)
      BY LenProperties
    <3> QED
      BY <3>1
  <2>2. p \in Seq(Buffers)
    BY DEF ListOf
  <2>3. Len(p) \in Nat
    BY <2>2, LenProperties
  <2>4. c[n + 1].buffer \in Buffers \cup {Nil}
    BY <2>1 DEF Chunks
  <2> QED
    BY <2>2, <2>3, <2>4
<1>2. CASE c[n + 1].buffer = Nil
  <2>1. q = p
    BY <1>2
  <2>2. \A i \in 1..n : i \in 1..(n + 1)
    OBVIOUS
  <2>3. \A a \in 1..Len(p) : \E i \in 1..(n + 1) : c[i].buffer = p[a]
    BY <2>2 DEF ListOf
  <2>4. \A b \in Buffers :
          (\A i, j \in 1..(n + 1) : c[i].buffer = b /\ c[j].buffer = b => i = j) =>
             \A a, d \in 1..Len(p) : p[a] = b /\ p[d] = b => a = d
    BY <2>2 DEF ListOf
  <2> QED
    BY ONLY <1>1, <2>1, <2>3, <2>4 DEF ListOf
<1>3. CASE c[n + 1].buffer # Nil
  <2> DEFINE m == c[n + 1].buffer
  <2>1. q \in Seq(Buffers) /\ Len(q) = Len(p) + 1 /\ q[Len(p) + 1] = m
        /\ \A a \in 1..Len(p) : q[a] = p[a]
    BY <1>1, <1>3, AppendProperties
  <2>2. \A a \in 1..Len(p) : \E i \in 1..n : c[i].buffer = p[a]
    BY DEF ListOf
  <2>3. ASSUME NEW a \in 1..Len(q) PROVE \E i \in 1..(n + 1) : c[i].buffer = q[a]
    <3>1. CASE a = Len(p) + 1
      <4>1. n + 1 \in 1..(n + 1) /\ q[a] = c[n + 1].buffer
        BY <2>1, <3>1
      <4> QED
        BY <4>1
    <3>2. CASE a # Len(p) + 1
      <4>1. a \in 1..Len(p)
        BY <1>1, <2>1, <3>2
      <4>2. PICK i \in 1..n : c[i].buffer = p[a]
        BY <2>2, <4>1
      <4>3. i \in 1..(n + 1)
        OBVIOUS
      <4>4. q[a] = p[a]
        BY <2>1, <4>1
      <4> QED
        BY <4>2, <4>3, <4>4
    <3> QED
      BY <3>1, <3>2
  <2>4. ASSUME NEW b \in Buffers,
               \A i, j \in 1..(n + 1) : c[i].buffer = b /\ c[j].buffer = b => i = j,
               NEW a \in 1..Len(q), NEW d \in 1..Len(q), q[a] = b, q[d] = b
        PROVE  a = d
    <3>1. \A x, y \in 1..Len(p) : p[x] = b /\ p[y] = b => x = y
      <4>1. \A i, j \in 1..n : c[i].buffer = b /\ c[j].buffer = b => i = j
        BY <2>4
      <4> QED
        BY <4>1 DEF ListOf
    <3>2. ASSUME m = b, NEW x \in 1..Len(p), p[x] = b PROVE FALSE
      <4>1. PICK i \in 1..n : c[i].buffer = p[x]
        BY <2>2
      <4>2. i \in 1..(n + 1) /\ n + 1 \in 1..(n + 1) /\ i # n + 1
        OBVIOUS
      <4> QED
        BY <2>4, <3>2, <4>1, <4>2
    <3> HIDE DEF m
    <3> QED
      BY <1>1, <2>1, <2>4, <3>1, <3>2
  <2> QED
    BY ONLY <2>1, <2>3, <2>4 DEF ListOf
<1> QED
  BY <1>2, <1>3

\* The buffers of a chunk sequence, in order.
LEMMA InOrderFacts ==
  ASSUME NEW c \in Seq(Chunks)
  PROVE  ListOf(InOrder(c), c, Len(c))
<1> DEFINE n == Len(c)
           Of[i \in 0..n] ==
             IF i = 0 THEN <<>>
             ELSE IF c[i].buffer = Nil THEN Of[i - 1] ELSE Append(Of[i - 1], c[i].buffer)
<1>c. n \in Nat
  BY LenProperties
<1>1. PICK h \in [0..n -> Seq(Buffers)] : ListedUpTo(h, c, n)
  BY ListExists
<1>2. h = [i \in 0..n |->
             IF i = 0 THEN <<>>
             ELSE IF c[i].buffer = Nil THEN h[i - 1] ELSE Append(h[i - 1], c[i].buffer)]
  <2>1. ASSUME NEW i \in 0..n
        PROVE  h[i] = IF i = 0 THEN <<>>
                      ELSE IF c[i].buffer = Nil THEN h[i - 1] ELSE Append(h[i - 1], c[i].buffer)
    <3>1. CASE i = 0
      BY <1>1, <3>1 DEF ListedUpTo
    <3>2. CASE i # 0
      <4>1. i \in 1..n
        BY <1>c, <3>2
      <4> QED
        BY ONLY <1>1, <3>2, <4>1 DEF ListedUpTo
    <3> QED
      BY <3>1, <3>2
  <2> QED
    BY <2>1
<1>3. Of = [i \in 0..n |->
              IF i = 0 THEN <<>>
              ELSE IF c[i].buffer = Nil THEN Of[i - 1] ELSE Append(Of[i - 1], c[i].buffer)]
  BY <1>2
<1>4. InOrder(c) = Of[n]
  BY DEF InOrder
<1> HIDE DEF Of
<1>5. Of[0] = <<>>
  BY <1>3, <1>c
<1>6. ASSUME NEW i \in 1..n
      PROVE  Of[i] = IF c[i].buffer = Nil THEN Of[i - 1] ELSE Append(Of[i - 1], c[i].buffer)
  <2>1. i \in 0..n /\ i # 0
    BY <1>c
  <2> DEFINE next(x) == IF x = 0 THEN <<>>
                        ELSE IF c[x].buffer = Nil THEN Of[x - 1]
                        ELSE Append(Of[x - 1], c[x].buffer)
  <2>2. Of = [x \in 0..n |-> next(x)]
    BY <1>3
  <2>3. Of[i] = next(i)
    <3> HIDE DEF next
    <3> QED
      BY ONLY <2>1, <2>2
  <2> QED
    BY ONLY <2>1, <2>3
<1> DEFINE S == {i \in Nat : i <= n => ListOf(Of[i], c, i)}
<1>7. 0 \in S
  <2>1. <<>> \in Seq(Buffers) /\ Len(<<>>) = 0
    BY EmptySeq
  <2>2. ListOf(<<>>, c, 0)
    BY ONLY <2>1 DEF ListOf
  <2> QED
    BY <1>5, <2>2
<1>8. ASSUME NEW i \in Nat, i \in S PROVE i + 1 \in S
  <2> SUFFICES ASSUME i + 1 <= n PROVE ListOf(Of[i + 1], c, i + 1)
    OBVIOUS
  <2>1. ListOf(Of[i], c, i)
    BY <1>8, <1>c
  <2>2. i + 1 \in 1..n /\ (i + 1) - 1 = i
    BY <1>c
  <2>3. Of[i + 1] = IF c[i + 1].buffer = Nil THEN Of[i] ELSE Append(Of[i], c[i + 1].buffer)
    BY <1>6, <2>2
  <2> QED
    BY <2>1, <2>3, ListNext
<1> HIDE DEF S
<1>9. n \in S
  BY <1>7, <1>8, <1>c, SetInduction
<1> QED
  BY <1>4, <1>9, <1>c DEF S

\* What a return adds lies behind what the pool has.
LEMMA BackFacts ==
  ASSUME pool \in Seq(Buffers), NEW r \in Seq(Buffers), BackToPool(r)
  PROVE  /\ pool' \in Seq(Buffers)
         /\ \A i \in 1..Len(pool') :
              \/ i \in 1..Len(pool) /\ pool'[i] = pool[i]
              \/ i > Len(pool) /\ i - Len(pool) \in 1..Len(r) /\ pool'[i] = r[i - Len(pool)]
<1> DEFINE x == Len(r)
           y == MaxIdle - Len(pool)
           m == Min({x, y})
           back == SubSeq(r, 1, m)
<1>1. x \in Nat /\ Len(pool) \in Nat /\ y \in Int
  BY BuffersAssumption, LenProperties
<1>2. m \in Int /\ m <= x
  <2>1. \E k \in {x, y} : \A l \in {x, y} : k <= l
    BY <1>1
  <2>2. m \in {x, y} /\ \A l \in {x, y} : m <= l
    BY <2>1 DEF Min
  <2> QED
    BY <1>1, <2>2
<1> HIDE DEF m, x, y
<1>3. /\ back \in Seq(Buffers) /\ Len(back) <= x
      /\ \A i \in 1..Len(back) : back[i] = r[i]
  <2>1. CASE m < 1
    <3>1. back = <<>>
      BY <1>2, <2>1, SubSeqEmpty
    <3> HIDE DEF back
    <3>2. back \in Seq(Buffers) /\ Len(back) = 0
      BY <3>1, EmptySeq
    <3> QED
      BY <3>2, <1>1
  <2>2. CASE m >= 1
    BY <1>1, <1>2, <2>2, SubSeqProperties DEF x
  <2> QED
    BY <1>2, <2>1, <2>2
<1>4. pool' = pool \o back
  BY DEF BackToPool, m, x, y
<1> HIDE DEF back
<1>5. /\ pool' \in Seq(Buffers) /\ Len(pool') = Len(pool) + Len(back)
      /\ \A i \in 1..Len(pool') : pool'[i] = IF i <= Len(pool) THEN pool[i] ELSE back[i - Len(pool)]
  BY <1>3, <1>4, ConcatProperties
<1> QED
  BY <1>1, <1>3, <1>5 DEF x

-------------------------------------------------------------------------------
(* Types, and what a writer has in its hands.                              *)

LEMMA FrontFacts ==
  ASSUME NEW S, NEW c \in Seq(S), c # <<>>
  PROVE  /\ Front(c) \in Seq(S) /\ Len(Front(c)) = Len(c) - 1 /\ Len(c) \in Nat \ {0}
         /\ \A i \in 1..(Len(c) - 1) : Front(c)[i] = c[i]
         /\ Last(c) \in S /\ Last(c) = c[Len(c)]
<1>1. Len(c) \in Nat \ {0} /\ \A i \in 1..Len(c) : c[i] \in S
  BY LenProperties, EmptySeq
<1>2. \A i \in 1..(Len(c) - 1) : c[i] \in S
  BY <1>1
<1> DEFINE n == Len(c) - 1
           f == SubSeq(c, 1, n)
<1>n. n \in Nat
  BY <1>1
<1>f. /\ f \in Seq(S) /\ Len(f) = IF 1 <= n THEN n - 1 + 1 ELSE 0
      /\ \A i \in 1..(n - 1 + 1) : f[i] = c[1 + i - 1]
  <2> HIDE DEF n
  <2> QED
    BY <1>n, <1>2, SubSeqProperties DEF n
<1>3. /\ Front(c) \in Seq(S) /\ Len(Front(c)) = Len(c) - 1
      /\ \A i \in 1..(Len(c) - 1) : Front(c)[i] = c[i]
  <2>1. Front(c) = f
    BY DEF Front
  <2> HIDE DEF f
  <2> QED
    BY <1>1, <1>f, <2>1
<1> QED
  BY <1>1, <1>3 DEF Last

LEMMA BuffersTypeStep ==
  ASSUME BuffersTypeOK, LocalInv, [BuffersNext]_bufferVars
  PROVE  BuffersTypeOK'
<1> USE DEF Moves, Hold, poolVars, streamVars, writerVars, stopVars, historyVars, Maybe
<1>1. CASE UNCHANGED bufferVars
  BY <1>1 DEF BuffersTypeOK, bufferVars
<1>2. ASSUME NEW s \in Streams, WriteOrFlush(s) PROVE BuffersTypeOK'
  BY <1>2 DEF WriteOrFlush, BuffersTypeOK
<1>3. ASSUME NEW s \in Streams, GetCurrent(s) PROVE BuffersTypeOK'
  BY <1>3 DEF GetCurrent, BuffersTypeOK
<1>4. ASSUME NEW s \in Streams, Borrow(s) PROVE BuffersTypeOK'
  <2>1. pool' \in Seq(Buffers)
    BY <1>4, FrontFacts DEF Borrow, BuffersTypeOK
  <2> QED
    BY <1>4, <2>1 DEF Borrow, BuffersTypeOK
<1>5. ASSUME NEW s \in Streams, Publish(s) PROVE BuffersTypeOK'
  BY <1>5 DEF Publish, BuffersTypeOK
<1>6. ASSUME NEW s \in Streams, Copy(s) PROVE BuffersTypeOK'
  <2>1. held[s] \in Buffers
    BY <1>6 DEF Copy, LocalInv, LocalOf, BuffersTypeOK
  <2>2. filled' \in [Buffers -> SUBSET Streams]
    BY <1>6, <2>1 DEF Copy, BuffersTypeOK
  <2>3. held' \in [Streams -> Buffers \cup {Nil}]
    BY <1>6 DEF Copy, BuffersTypeOK
  <2>4. place' \in [Streams -> {"idle", "get", "publish", "copy", "seal", "put",
                            "flush", "close", "stale", "return", "forget"}]
    BY <1>6 DEF Copy, BuffersTypeOK
  <2> QED
    BY <1>6, <2>2, <2>3, <2>4 DEF Copy, BuffersTypeOK
<1>7. ASSUME NEW s \in Streams, Flush(s) PROVE BuffersTypeOK'
  BY <1>7 DEF Flush, BuffersTypeOK
<1>8. ASSUME NEW s \in Streams, Seal(s) PROVE BuffersTypeOK'
  BY <1>8 DEF Seal, BuffersTypeOK
<1>9. ASSUME NEW s \in Streams, Put(s) PROVE BuffersTypeOK'
  <2>1. [buffer |-> held[s], final |-> final[s]] \in Chunks
    BY DEF BuffersTypeOK, Chunks
  <2>2. queue' \in [Streams -> Seq(Chunks)]
    <3> DEFINE c == [buffer |-> held[s], final |-> final[s]]
    <3>1. Append(queue[s], c) \in Seq(Chunks)
      BY <2>1, AppendProperties DEF BuffersTypeOK
    <3>2. queue' = queue \/ queue' = [queue EXCEPT ![s] = Append(@, c)]
      BY <1>9 DEF Put
    <3> HIDE DEF c
    <3> QED
      BY <3>1, <3>2 DEF BuffersTypeOK
  <2> QED
    BY <1>9, <2>2 DEF Put, BuffersTypeOK
<1>10. ASSUME NEW s \in Streams, Close(s) PROVE BuffersTypeOK'
  BY <1>10 DEF Close, BuffersTypeOK
<1>11. ASSUME NEW s \in Streams, CloseTakes(s) PROVE BuffersTypeOK'
  BY <1>11 DEF CloseTakes, BuffersTypeOK
<1>12. ASSUME NEW s \in Streams, CloseStopped(s) PROVE BuffersTypeOK'
  BY <1>12 DEF CloseStopped, BuffersTypeOK
<1>13. ASSUME NEW s \in Streams, StaleTake(s) PROVE BuffersTypeOK'
  BY <1>13 DEF StaleTake, BuffersTypeOK
<1>14. ASSUME NEW s \in Streams, StaleReturn(s) PROVE BuffersTypeOK'
  <2>1. held[s] \in Buffers
    BY <1>14 DEF StaleReturn, LocalInv, LocalOf, BuffersTypeOK
  <2>2. pool' \in Seq(Buffers)
    <3>1. <<held[s]>> \in Seq(Buffers)
      BY <2>1
    <3> QED
      BY <1>14, <3>1, BackFacts DEF StaleReturn, BuffersTypeOK
  <2> QED
    BY <1>14, <2>2 DEF StaleReturn, BuffersTypeOK
<1>15. ASSUME NEW s \in Streams, StaleForget(s) PROVE BuffersTypeOK'
  BY <1>15 DEF StaleForget, BuffersTypeOK
<1>16. ASSUME NEW s \in Streams, Send(s) PROVE BuffersTypeOK'
  <2>1. Last(queue[s]).final \in BOOLEAN
    <3>1. Last(queue[s]) \in Chunks
      BY <1>16, FrontFacts DEF Send, BuffersTypeOK
    <3> QED
      BY <3>1 DEF Chunks
  <2>2. UNION {filled[b] : b \in BuffersOf(queue[s])} \subseteq Streams
    <3>1. /\ DOMAIN queue[s] = 1..Len(queue[s])
          /\ \A i \in 1..Len(queue[s]) : queue[s][i] \in Chunks
      BY LenProperties DEF BuffersTypeOK
    <3>2. \A i \in 1..Len(queue[s]) : queue[s][i].buffer \in Buffers \cup {Nil}
      BY <3>1 DEF Chunks
    <3>3. BuffersOf(queue[s]) \subseteq Buffers
      BY <3>1, <3>2 DEF BuffersOf
    <3> QED
      BY <3>3 DEF BuffersTypeOK
  <2>3. <<>> \in Seq(Chunks)
    BY EmptySeq
  <2> QED
    BY <1>16, <2>1, <2>2, <2>3 DEF Send, BuffersTypeOK
<1>17. ASSUME NEW s \in Streams, ReleaseChunks(s) PROVE BuffersTypeOK'
  <2>1. InOrder(inFlight[s]) \in Seq(Buffers)
    BY InOrderFacts DEF BuffersTypeOK, ListOf
  <2>2. pool' \in Seq(Buffers)
    BY <1>17, <2>1, BackFacts DEF ReleaseChunks, BuffersTypeOK
  <2>3. <<>> \in Seq(Chunks)
    BY EmptySeq
  <2> QED
    BY <1>17, <2>2, <2>3 DEF ReleaseChunks, BuffersTypeOK
<1>18. ASSUME NEW s \in Streams, Stop(s) PROVE BuffersTypeOK'
  <2>1. stops' \in [Streams -> 0..2]
    <3>1. stops[s] + 1 \in 0..2
      <4>1. stops[s] \in 0..2
        BY DEF BuffersTypeOK
      <4>2. stops[s] < 2
        BY <1>18 DEF Stop
      <4> QED
        BY ONLY <4>1, <4>2
    <3>2. stops' = [stops EXCEPT ![s] = stops[s] + 1] /\ stops \in [Streams -> 0..2]
      BY <1>18 DEF Stop, BuffersTypeOK
    <3> QED
      BY <3>1, <3>2
  <2>2. stopPlace' \in [Streams -> {"run", "take", "return"}] /\ stopped' \in [Streams -> BOOLEAN]
    BY <1>18 DEF Stop, BuffersTypeOK
  <2> QED
    BY <1>18, <2>1, <2>2 DEF Stop, BuffersTypeOK
<1>19. ASSUME NEW s \in Streams, StopTake(s) PROVE BuffersTypeOK'
  BY <1>19 DEF StopTake, BuffersTypeOK
<1>20. ASSUME NEW s \in Streams, StopReturn(s) PROVE BuffersTypeOK'
  <2>1. taken[s] \in Buffers
    BY <1>20 DEF StopReturn, LocalInv, LocalOf, BuffersTypeOK
  <2>2. pool' \in Seq(Buffers)
    <3>1. <<taken[s]>> \in Seq(Buffers)
      BY <2>1
    <3> QED
      BY <1>20, <3>1, BackFacts DEF StopReturn, BuffersTypeOK
  <2> QED
    BY <1>20, <2>2 DEF StopReturn, BuffersTypeOK
<1> QED
  BY <1>1, <1>2, <1>3, <1>4, <1>5, <1>6, <1>7, <1>8, <1>9, <1>10, <1>11, <1>12, <1>13, <1>14,
     <1>15, <1>16, <1>17, <1>18, <1>19, <1>20 DEF BuffersNext, WriterStep, WorkerActs

\* What a step leaves of the places of the code: those of the other responses.
LEMMA LocalStep ==
  ASSUME BuffersTypeOK, LocalInv, BegunInv, [BuffersNext]_bufferVars
  PROVE  LocalInv'
<1> SUFFICES ASSUME NEW t \in Streams PROVE LocalOf(t)'
  BY DEF LocalInv
<1> USE DEF Moves, Hold, poolVars, streamVars, writerVars, stopVars, historyVars, Maybe,
            LocalInv, LocalOf
<1>1. CASE UNCHANGED bufferVars
  BY <1>1 DEF bufferVars
<1>2. ASSUME NEW s \in Streams, WriteOrFlush(s) PROVE LocalOf(t)'
  BY <1>2 DEF WriteOrFlush, BuffersTypeOK
<1>3. ASSUME NEW s \in Streams, GetCurrent(s) PROVE LocalOf(t)'
  BY <1>3 DEF GetCurrent, BuffersTypeOK
<1>4. ASSUME NEW s \in Streams, Borrow(s) PROVE LocalOf(t)'
  BY <1>4, BuffersAssumption DEF Borrow, BuffersTypeOK
<1>5. ASSUME NEW s \in Streams, Publish(s) PROVE LocalOf(t)'
  BY <1>5 DEF Publish, BuffersTypeOK
<1>6. ASSUME NEW s \in Streams, Copy(s) PROVE LocalOf(t)'
  BY <1>6 DEF Copy, BuffersTypeOK
<1>7. ASSUME NEW s \in Streams, Flush(s) PROVE LocalOf(t)'
  <2>1. /\ place[s] = "flush" /\ held[s] = Nil
        /\ UNCHANGED <<current, torn, stopPlace, taken>>
    BY <1>7 DEF Flush
  <2>2. CASE t # s
    <3>1. place'[t] = place[t] /\ held'[t] = held[t]
      BY <1>7, <2>2 DEF Flush, BuffersTypeOK
    <3> QED
      BY <2>1, <3>1
  <2>3. CASE t = s
    <3>1. \/ place'[s] = "seal" /\ held'[s] = current[s] /\ current[s] # Nil
          \/ place'[s] = "idle" /\ held'[s] = held[s]
      BY <1>7 DEF Flush, BuffersTypeOK
    <3> QED
      BY <2>1, <2>3, <3>1
  <2> QED
    BY <2>2, <2>3
<1>8. ASSUME NEW s \in Streams, Seal(s) PROVE LocalOf(t)'
  BY <1>8 DEF Seal, BuffersTypeOK
<1>9. ASSUME NEW s \in Streams, Put(s) PROVE LocalOf(t)'
  BY <1>9 DEF Put, BuffersTypeOK
<1>10. ASSUME NEW s \in Streams, Close(s) PROVE LocalOf(t)'
  BY <1>10 DEF Close, BuffersTypeOK
<1>11. ASSUME NEW s \in Streams, CloseTakes(s) PROVE LocalOf(t)'
  <2>1. /\ place[s] = "close" /\ held[s] = Nil
        /\ UNCHANGED <<current, torn, stopPlace, taken>>
    BY <1>11 DEF CloseTakes
  <2>2. CASE t # s
    <3>1. place'[t] = place[t] /\ held'[t] = held[t]
      BY <1>11, <2>2 DEF CloseTakes, BuffersTypeOK
    <3> QED
      BY <2>1, <3>1
  <2>3. CASE t = s
    <3>1. \/ place'[s] = "seal" /\ held'[s] = current[s] /\ current[s] # Nil
          \/ place'[s] = "put" /\ held'[s] = held[s] /\ (current[s] = Nil \/ filled[current[s]] = {})
      BY <1>11 DEF CloseTakes, BuffersTypeOK
    <3> QED
      BY <2>1, <2>3, <3>1 DEF BegunInv, Begun
  <2> QED
    BY <2>2, <2>3
<1>12. ASSUME NEW s \in Streams, CloseStopped(s) PROVE LocalOf(t)'
  BY <1>12 DEF CloseStopped, BuffersTypeOK
<1>13. ASSUME NEW s \in Streams, StaleTake(s) PROVE LocalOf(t)'
  BY <1>13 DEF StaleTake, BuffersTypeOK
<1>14. ASSUME NEW s \in Streams, StaleReturn(s) PROVE LocalOf(t)'
  BY <1>14 DEF StaleReturn, BuffersTypeOK
<1>15. ASSUME NEW s \in Streams, StaleForget(s) PROVE LocalOf(t)'
  BY <1>15 DEF StaleForget, BuffersTypeOK
<1>16. ASSUME NEW s \in Streams, Send(s) PROVE LocalOf(t)'
  BY <1>16 DEF Send, BuffersTypeOK
<1>17. ASSUME NEW s \in Streams, ReleaseChunks(s) PROVE LocalOf(t)'
  BY <1>17 DEF ReleaseChunks, BuffersTypeOK
<1>18. ASSUME NEW s \in Streams, Stop(s) PROVE LocalOf(t)'
  BY <1>18 DEF Stop, BuffersTypeOK
<1>19. ASSUME NEW s \in Streams, StopTake(s) PROVE LocalOf(t)'
  BY <1>19 DEF StopTake, BuffersTypeOK
<1>20. ASSUME NEW s \in Streams, StopReturn(s) PROVE LocalOf(t)'
  BY <1>20 DEF StopReturn, BuffersTypeOK
<1> QED
  BY <1>1, <1>2, <1>3, <1>4, <1>5, <1>6, <1>7, <1>8, <1>9, <1>10, <1>11, <1>12, <1>13, <1>14,
     <1>15, <1>16, <1>17, <1>18, <1>19, <1>20 DEF BuffersNext, WriterStep, WorkerActs

-------------------------------------------------------------------------------
(* One user of a buffer.                                                   *)

\* A buffer whose seats were its seats before, or that has one seat only.
LEMMA SeatKept ==
  ASSUME NEW b, OneSeat(b), \A k, s, i : Sits(b, k, s, i)' => Sits(b, k, s, i)
  PROVE  OneSeat(b)'
BY DEF OneSeat

LEMMA SeatTaken ==
  ASSUME NEW b, NEW l, NEW t, NEW j,
         \A k, s, i : Sits(b, k, s, i)' => k = l /\ s = t /\ i = j
  PROVE  OneSeat(b)'
BY DEF OneSeat

\* Seats change only where the variables do.
LEMMA SeatFrame ==
  ASSUME NEW b, NEW k, NEW s, NEW i, Sits(b, k, s, i)', ~Sits(b, k, s, i)
  PROVE  \/ k = "pool" /\ pool' # pool
         \/ k = "queue" /\ s \in Streams /\ queue'[s] # queue[s]
         \/ k = "flight" /\ s \in Streams /\ inFlight'[s] # inFlight[s]
         \/ k = "hand" /\ s \in Streams /\ b \in InHand(s)' /\ b \notin InHand(s)
         \/ k = "taken" /\ s \in Streams /\ taken'[s] # taken[s]
BY DEF Sits

\* A return gives each buffer that it adds one seat in the pool.
LEMMA SeatBack ==
  ASSUME BuffersTypeOK, NEW b \in Buffers, OneSeat(b), NEW r \in Seq(Buffers), BackToPool(r),
         \A x, y \in 1..Len(r) : r[x] = b /\ r[y] = b => x = y,
         \A k, s, i : k # "pool" /\ Sits(b, k, s, i)' => Sits(b, k, s, i),
         \A x \in 1..Len(r) : r[x] = b => /\ \A k, s, i : k # "pool" => ~Sits(b, k, s, i)'
                                         /\ \A i : ~Sits(b, "pool", 0, i)
  PROVE  OneSeat(b)'
<1>1. \A i \in 1..Len(pool') :
              \/ i \in 1..Len(pool) /\ pool'[i] = pool[i]
              \/ i > Len(pool) /\ i - Len(pool) \in 1..Len(r) /\ pool'[i] = r[i - Len(pool)]
  BY BackFacts DEF BuffersTypeOK
<1>n. Len(pool) \in Nat
  BY LenProperties DEF BuffersTypeOK
<1>2. CASE \E x \in 1..Len(r) : r[x] = b
  <2>1. PICK x \in 1..Len(r) : r[x] = b
    BY <1>2
  <2>n. PICK n : n = x + Len(pool)
    OBVIOUS
  <2>2. ASSUME NEW k, NEW s, NEW i, Sits(b, k, s, i)'
        PROVE  k = "pool" /\ s = 0 /\ i = n
    <3>k. k = "pool"
      BY <2>1, <2>2
    <3>1. s = 0 /\ i \in 1..Len(pool') /\ pool'[i] = b
      BY <2>2, <3>k DEF Sits
    <3>2. ~(i \in 1..Len(pool) /\ pool[i] = b)
      <4>1. ~Sits(b, "pool", 0, i)
        BY <2>1
      <4> QED
        BY <4>1 DEF Sits
    <3>3. i > Len(pool) /\ i - Len(pool) \in 1..Len(r) /\ b = r[i - Len(pool)]
      BY <1>1, <3>1, <3>2
    <3>4. i - Len(pool) = x
      BY <2>1, <3>3
    <3>5. i \in Int
      BY <3>1
    <3>6. i = n
      BY ONLY <1>n, <2>n, <3>4, <3>5
    <3> QED
      BY <3>k, <3>1, <3>6
  <2> QED
    BY ONLY <2>2 DEF OneSeat
<1>3. CASE ~\E x \in 1..Len(r) : r[x] = b
  <2>1. ASSUME NEW k, NEW s, NEW i, Sits(b, k, s, i)' PROVE Sits(b, k, s, i)
    <3>1. CASE k = "pool"
      <4>1. s = 0 /\ i \in 1..Len(pool') /\ pool'[i] = b
        BY <2>1, <3>1 DEF Sits
      <4>2. i \in 1..Len(pool) /\ pool[i] = b
        BY <1>1, <1>3, <4>1
      <4> QED
        BY <3>1, <4>1, <4>2 DEF Sits
    <3> QED
      BY <2>1, <3>1
  <2> QED
    BY <2>1, SeatKept
<1> QED
  BY <1>2, <1>3

LEMMA SeatStep ==
  ASSUME BuffersTypeOK, LocalInv, SeatInv, [BuffersNext]_bufferVars,
         NEW b \in Buffers, b \notin torn'
  PROVE  OneSeat(b)'
<1> USE DEF Moves, Hold, poolVars, streamVars, writerVars, stopVars, historyVars
<1>t. torn \subseteq torn'
  <2> USE DEF BuffersNext, WriterStep, WorkerActs, bufferVars
  <2> QED
    BY DEF WriteOrFlush, GetCurrent, Borrow, Publish, Copy, Flush, Seal, Put, Close, CloseTakes,
           CloseStopped, StaleTake, StaleReturn, StaleForget, Send, ReleaseChunks, Stop, StopTake,
           StopReturn
<1>o. OneSeat(b)
  BY <1>t DEF SeatInv
<1>b. b # Nil /\ b \notin torn
  BY <1>t, BuffersAssumption
<1>k. ASSUME UNCHANGED <<pool, queue, inFlight, taken>>,
             \A s \in Streams : b \in InHand(s)' => b \in InHand(s)
      PROVE  OneSeat(b)'
  BY <1>k, <1>o, SeatFrame, SeatKept
<1>1. CASE UNCHANGED bufferVars
  BY <1>1, <1>k DEF bufferVars, InHand
<1>2. ASSUME NEW s \in Streams, WriteOrFlush(s) PROVE OneSeat(b)'
  BY <1>2, <1>k DEF WriteOrFlush, BuffersTypeOK, InHand
<1>3. ASSUME NEW s \in Streams, GetCurrent(s) PROVE OneSeat(b)'
  BY <1>3, <1>k DEF GetCurrent, BuffersTypeOK, InHand
<1>4. ASSUME NEW s \in Streams, Borrow(s) PROVE OneSeat(b)'
  <2>1. PICK c \in Buffers :
          /\ IF pool = <<>> THEN c \notin Reachable /\ UNCHANGED pool
             ELSE c = Last(pool) /\ pool' = Front(pool)
          /\ held' = [held EXCEPT ![s] = c]
    BY <1>4 DEF Borrow
  <2>2. /\ UNCHANGED <<queue, inFlight, taken, current>> /\ place[s] = "get"
        /\ place' = [place EXCEPT ![s] = "publish"]
    BY <1>4 DEF Borrow
  <2>3. \A t \in Streams : b \in InHand(t)' => b \in InHand(t) \/ (t = s /\ b = c)
    BY <2>1, <2>2 DEF InHand, BuffersTypeOK
  <2>4. CASE pool = <<>>
    <3>1. CASE b = c
      <4>1. \A k, t, i : ~Sits(b, k, t, i)
        <5> SUFFICES ASSUME NEW k, NEW t, NEW i, Sits(b, k, t, i) PROVE FALSE
          OBVIOUS
        <5>1. b \notin Reachable
          BY <2>1, <2>4, <3>1
        <5>2. \A u \in Streams : /\ b \notin {current[u], held[u], taken[u]}
                                 /\ \A j \in DOMAIN queue[u] : queue[u][j].buffer # b
                                 /\ \A j \in DOMAIN inFlight[u] : inFlight[u][j].buffer # b
          BY <5>1, <1>b DEF Reachable, BuffersOf
        <5>3. \A u \in Streams : /\ DOMAIN queue[u] = 1..Len(queue[u])
                                 /\ DOMAIN inFlight[u] = 1..Len(inFlight[u])
          BY LenProperties DEF BuffersTypeOK
        <5>4. Len(pool) = 0
          BY <2>4, EmptySeq
        <5> QED
          BY <5>2, <5>3, <5>4 DEF Sits, InHand
      <4>2. \A k, t, i : Sits(b, k, t, i)' => k = "hand" /\ t = s /\ i = 0
        BY <2>1, <2>2, <2>3, <2>4, <4>1, SeatFrame DEF Sits
      <4> QED
        BY <4>2, SeatTaken
    <3>2. CASE b # c
      BY <2>1, <2>2, <2>3, <2>4, <3>2, <1>k
    <3> QED
      BY <3>1, <3>2
  <2>5. CASE pool # <<>>
    <3>1. /\ c = pool[Len(pool)] /\ Len(pool) \in Nat \ {0} /\ Len(pool') = Len(pool) - 1
          /\ \A i \in 1..(Len(pool) - 1) : pool'[i] = pool[i]
      BY <2>1, <2>5, FrontFacts DEF BuffersTypeOK
    <3>2. \A i : Sits(b, "pool", 0, i)' => Sits(b, "pool", 0, i) /\ i # Len(pool)
      BY <3>1 DEF Sits
    <3>3. CASE b = c
      <4>1. Sits(b, "pool", 0, Len(pool))
        BY <3>1, <3>3 DEF Sits
      <4>2. \A k, t, i : Sits(b, k, t, i) => k = "pool" /\ t = 0 /\ i = Len(pool)
        BY <1>o, <4>1 DEF OneSeat
      <4>3. ASSUME NEW k, NEW t, NEW i, Sits(b, k, t, i)' PROVE k = "hand" /\ t = s /\ i = 0
        <5>1. CASE k = "pool"
          <6>1. Sits(b, "pool", 0, i)'
            BY <4>3, <5>1 DEF Sits
          <6> QED
            BY <3>2, <4>2, <6>1
        <5>2. CASE k # "pool"
          <6>1. ~Sits(b, k, t, i)
            BY <4>2, <5>2
          <6>2. k = "hand" /\ t \in Streams /\ b \in InHand(t)' /\ b \notin InHand(t)
            BY <2>2, <4>3, <5>2, <6>1, SeatFrame
          <6> QED
            BY <2>3, <4>3, <6>2 DEF Sits
        <5> QED
          BY <5>1, <5>2
      <4> QED
        BY <4>3, SeatTaken
    <3>4. CASE b # c
      <4>1. ASSUME NEW k, NEW t, NEW i, Sits(b, k, t, i)' PROVE Sits(b, k, t, i)
        <5>1. CASE k = "pool"
          <6>1. t = 0
            BY <4>1, <5>1 DEF Sits
          <6> QED
            BY <3>2, <4>1, <5>1, <6>1
        <5>2. CASE k # "pool"
          BY <2>2, <2>3, <3>4, <4>1, <5>2, SeatFrame
        <5> QED
          BY <5>1, <5>2
      <4> QED
        BY <4>1, <1>o, SeatKept
    <3> QED
      BY <3>3, <3>4
  <2> QED
    BY <2>4, <2>5
<1>5. ASSUME NEW s \in Streams, Publish(s) PROVE OneSeat(b)'
  BY <1>5, <1>k DEF Publish, BuffersTypeOK, InHand
<1>6. ASSUME NEW s \in Streams, Copy(s) PROVE OneSeat(b)'
  <2>1. \A t \in Streams : b \in InHand(t)' => b \in InHand(t)
    BY <1>6, <1>b DEF Copy, BuffersTypeOK, InHand
  <2> QED
    BY <1>6, <2>1, <1>k DEF Copy
<1>7. ASSUME NEW s \in Streams, Flush(s) PROVE OneSeat(b)'
  <2>1. \A t \in Streams : b \in InHand(t)' => b \in InHand(t)
    <3>1. /\ current' = current /\ (\A t \in Streams \ {s} : held'[t] = held[t] /\ place'[t] = place[t])
          /\ held'[s] \in {held[s], current[s]} /\ place[s] = "flush"
      BY <1>7 DEF Flush, BuffersTypeOK
    <3> QED
      BY <3>1 DEF InHand
  <2> QED
    BY <1>7, <2>1, <1>k DEF Flush
<1>8. ASSUME NEW s \in Streams, Seal(s) PROVE OneSeat(b)'
  <2>1. \A t \in Streams : b \in InHand(t)' => b \in InHand(t)
    BY <1>8, <1>b DEF Seal, BuffersTypeOK, InHand
  <2> QED
    BY <1>8, <2>1, <1>k DEF Seal
<1>9. ASSUME NEW s \in Streams, Put(s) PROVE OneSeat(b)'
  <2>1. /\ place[s] = "put" /\ place' = [place EXCEPT ![s] = "idle"] /\ held' = [held EXCEPT ![s] = Nil]
        /\ UNCHANGED <<pool, inFlight, taken, current>> /\ current[s] \in torn \cup {Nil}
    BY <1>9 DEF Put, LocalInv, LocalOf
  <2>2. \A t \in Streams : b \in InHand(t)' => b \in InHand(t) /\ t # s
    BY <2>1, <1>b DEF InHand, BuffersTypeOK
  <2>3. CASE queue' = queue
    BY <2>1, <2>2, <2>3, <1>k
  <2>4. CASE queue' # queue
    <3> DEFINE c == [buffer |-> held[s], final |-> final[s]]
               n == Len(queue[s])
    <3>1. queue' = [queue EXCEPT ![s] = Append(@, c)]
      BY <1>9, <2>4 DEF Put
    <3>2. n \in Nat /\ queue[s] \in Seq(Chunks) /\ c \in Chunks
      BY LenProperties DEF BuffersTypeOK, Chunks, Maybe
    <3>3. /\ \A t \in Streams \ {s} : queue'[t] = queue[t]
          /\ queue'[s] = Append(queue[s], c)
      BY <3>1 DEF BuffersTypeOK
    <3> HIDE DEF c
    <3>4. /\ Len(queue'[s]) = n + 1 /\ queue'[s][n + 1] = c
          /\ \A i \in 1..n : queue'[s][i] = queue[s][i]
      BY <3>2, <3>3, AppendProperties
    <3>5. ASSUME NEW k, NEW t, NEW i, Sits(b, k, t, i)'
          PROVE  Sits(b, k, t, i) \/ (held[s] = b /\ k = "queue" /\ t = s /\ i = n + 1)
      <4>1. CASE k = "queue" /\ t = s
        <5>1. i \in 1..(n + 1) /\ queue'[s][i].buffer = b
          BY <3>4, <3>5, <4>1 DEF Sits
        <5>2. CASE i = n + 1
          BY <3>4, <4>1, <5>1, <5>2 DEF c
        <5>3. CASE i # n + 1
          BY <3>2, <3>4, <4>1, <5>1, <5>3 DEF Sits
        <5> QED
          BY <5>2, <5>3
      <4>2. CASE ~(k = "queue" /\ t = s)
        BY <2>1, <2>2, <3>3, <3>5, <4>2, SeatFrame
      <4> QED
        BY <4>1, <4>2
    <3>6. CASE held[s] = b
      <4>1. Sits(b, "hand", s, 0)
        BY <3>6 DEF Sits, InHand
      <4>2. \A k, t, i : Sits(b, k, t, i) => k = "hand" /\ t = s /\ i = 0
        BY <1>o, <4>1 DEF OneSeat
      <4>3. ~Sits(b, "hand", s, 0)'
        BY <2>2 DEF Sits
      <4>n. PICK m : m = n + 1
        OBVIOUS
      <4>4. \A k, t, i : Sits(b, k, t, i)' => k = "queue" /\ t = s /\ i = m
        BY <3>5, <4>2, <4>3, <4>n
      <4> QED
        BY <4>4, SeatTaken
    <3>7. CASE held[s] # b
      BY <3>5, <3>7, <1>o, SeatKept
    <3> QED
      BY <3>6, <3>7
  <2> QED
    BY <2>3, <2>4
<1>10. ASSUME NEW s \in Streams, Close(s) PROVE OneSeat(b)'
  BY <1>10, <1>k DEF Close, BuffersTypeOK, InHand
<1>11. ASSUME NEW s \in Streams, CloseTakes(s) PROVE OneSeat(b)'
  <2>1. \A t \in Streams : b \in InHand(t)' => b \in InHand(t)
    <3>1. /\ current' = current /\ (\A t \in Streams \ {s} : held'[t] = held[t] /\ place'[t] = place[t])
          /\ held'[s] \in {held[s], current[s]} /\ place[s] = "close"
      BY <1>11 DEF CloseTakes, BuffersTypeOK
    <3> QED
      BY <3>1 DEF InHand
  <2> QED
    BY <1>11, <2>1, <1>k DEF CloseTakes
<1>12. ASSUME NEW s \in Streams, CloseStopped(s) PROVE OneSeat(b)'
  BY <1>12, <1>k DEF CloseStopped, BuffersTypeOK, InHand
<1>13. ASSUME NEW s \in Streams, StaleTake(s) PROVE OneSeat(b)'
  <2>1. \A t \in Streams : b \in InHand(t)' => b \in InHand(t)
    <3>1. /\ current' = current /\ (\A t \in Streams \ {s} : held'[t] = held[t] /\ place'[t] = place[t])
          /\ held'[s] \in {held[s], current[s]} /\ place[s] = "stale"
      BY <1>13 DEF StaleTake, BuffersTypeOK
    <3> QED
      BY <3>1 DEF InHand
  <2> QED
    BY <1>13, <2>1, <1>k DEF StaleTake
<1>14. ASSUME NEW s \in Streams, StaleReturn(s) PROVE OneSeat(b)'
  <2>1. /\ place[s] = "return" /\ place' = [place EXCEPT ![s] = "forget"]
        /\ held' = [held EXCEPT ![s] = Nil] /\ held[s] \in Buffers
        /\ UNCHANGED <<queue, inFlight, taken, current>> /\ BackToPool(<<held[s]>>)
    BY <1>14 DEF StaleReturn, LocalInv, LocalOf, BuffersTypeOK, Maybe
  <2>2. \A t \in Streams : b \in InHand(t)' => b \in InHand(t) /\ t # s
    BY <2>1, <1>b DEF InHand, BuffersTypeOK
  <2>3. \A k, t, i : k # "pool" /\ Sits(b, k, t, i)' => Sits(b, k, t, i)
    BY <2>1, <2>2, SeatFrame
  <2>4. ASSUME held[s] = b
        PROVE  /\ \A k, t, i : k # "pool" => ~Sits(b, k, t, i)'
               /\ \A i : ~Sits(b, "pool", 0, i)
    <3>1. Sits(b, "hand", s, 0)
      BY <2>4 DEF Sits, InHand
    <3>2. \A k, t, i : Sits(b, k, t, i) => k = "hand" /\ t = s /\ i = 0
      BY <1>o, <3>1 DEF OneSeat
    <3>3. ~Sits(b, "hand", s, 0)'
      BY <2>2 DEF Sits
    <3> QED
      BY <2>3, <3>2, <3>3
  <2> DEFINE r == <<held[s]>>
  <2>5. r \in Seq(Buffers) /\ Len(r) = 1 /\ r[1] = held[s]
    BY <2>1
  <2>6. BackToPool(r)
    BY <2>1
  <2> HIDE DEF r
  <2>7. \A x \in 1..Len(r) : x = 1 /\ r[x] = held[s]
    BY <2>5
  <2> QED
    BY <2>3, <2>4, <2>5, <2>6, <2>7, <1>o, SeatBack
<1>15. ASSUME NEW s \in Streams, StaleForget(s) PROVE OneSeat(b)'
  <2>1. \A t \in Streams : b \in InHand(t)' => b \in InHand(t)
    BY <1>15, <1>b DEF StaleForget, BuffersTypeOK, InHand
  <2> QED
    BY <1>15, <2>1, <1>k DEF StaleForget
<1>16. ASSUME NEW s \in Streams, Send(s) PROVE OneSeat(b)'
  <2>1. /\ UNCHANGED <<pool, taken, current, held, place>>
        /\ inFlight' = [inFlight EXCEPT ![s] = queue[s]] /\ queue' = [queue EXCEPT ![s] = <<>>]
    BY <1>16 DEF Send
  <2>2. /\ inFlight'[s] = queue[s] /\ queue'[s] = <<>> /\ Len(queue'[s]) = 0
        /\ \A t \in Streams \ {s} : inFlight'[t] = inFlight[t] /\ queue'[t] = queue[t]
    BY <2>1, EmptySeq DEF BuffersTypeOK
  <2>3. \A t \in Streams : b \in InHand(t)' => b \in InHand(t)
    BY <2>1 DEF InHand
  <2>4. ASSUME NEW k, NEW t, NEW i, Sits(b, k, t, i)'
        PROVE  IF k = "flight" /\ t = s THEN Sits(b, "queue", s, i)
               ELSE Sits(b, k, t, i) /\ ~(k = "queue" /\ t = s)
    <3>1. CASE k = "flight" /\ t = s
      BY <2>2, <2>4, <3>1 DEF Sits
    <3>2. CASE k = "queue" /\ t = s
      BY <2>2, <2>4, <3>2 DEF Sits
    <3>3. CASE ~(k \in {"queue", "flight"} /\ t = s)
      BY <2>1, <2>2, <2>3, <2>4, <3>3, SeatFrame
    <3> QED
      BY <3>1, <3>2, <3>3
  <2>5. CASE \E i : Sits(b, "queue", s, i)
    <3>1. PICK j : Sits(b, "queue", s, j)
      BY <2>5
    <3>2. \A k, t, i : Sits(b, k, t, i) => k = "queue" /\ t = s /\ i = j
      BY <1>o, <3>1 DEF OneSeat
    <3>3. \A k, t, i : Sits(b, k, t, i)' => k = "flight" /\ t = s /\ i = j
      BY <2>4, <3>2
    <3> QED
      BY <3>3, SeatTaken
  <2>6. CASE ~\E i : Sits(b, "queue", s, i)
    BY <2>4, <2>6, <1>o, SeatKept
  <2> QED
    BY <2>5, <2>6
<1>17. ASSUME NEW s \in Streams, ReleaseChunks(s) PROVE OneSeat(b)'
  <2> DEFINE c == inFlight[s]
             r == InOrder(c)
  <2>1. /\ UNCHANGED <<queue, taken, current, held, place>>
        /\ inFlight' = [inFlight EXCEPT ![s] = <<>>] /\ BackToPool(r)
    BY <1>17 DEF ReleaseChunks
  <2>2. c \in Seq(Chunks) /\ ListOf(r, c, Len(c))
    BY InOrderFacts DEF BuffersTypeOK
  <2>3. \A t \in Streams : b \in InHand(t)' => b \in InHand(t)
    BY <2>1 DEF InHand
  <2>4. /\ Len(inFlight'[s]) = 0
        /\ \A t \in Streams \ {s} : inFlight'[t] = inFlight[t]
    BY <2>1, EmptySeq DEF BuffersTypeOK
  <2>5. ASSUME NEW k, NEW t, NEW i, k # "pool", Sits(b, k, t, i)'
        PROVE  Sits(b, k, t, i) /\ ~(k = "flight" /\ t = s)
    <3>1. CASE k = "flight" /\ t = s
      BY <2>4, <2>5, <3>1 DEF Sits
    <3>2. CASE ~(k = "flight" /\ t = s)
      BY <2>1, <2>3, <2>4, <2>5, <3>2, SeatFrame
    <3> QED
      BY <3>1, <3>2
  <2>6. \A i \in 1..Len(c) : c[i].buffer = b => Sits(b, "flight", s, i)
    BY DEF Sits
  <2> HIDE DEF r, c
  <2>7. \A i, j \in 1..Len(c) : c[i].buffer = b /\ c[j].buffer = b => i = j
    BY <2>6, <1>o DEF OneSeat
  <2>8. /\ r \in Seq(Buffers)
        /\ \A x, y \in 1..Len(r) : r[x] = b /\ r[y] = b => x = y
        /\ \A x \in 1..Len(r) : \E i \in 1..Len(c) : c[i].buffer = r[x]
    BY <2>2, <2>7 DEF ListOf
  <2>9. ASSUME \E x \in 1..Len(r) : r[x] = b
        PROVE  /\ \A k, t, i : k # "pool" => ~Sits(b, k, t, i)'
               /\ \A i : ~Sits(b, "pool", 0, i)
    <3>1. PICK j \in 1..Len(c) : c[j].buffer = b
      BY <2>8, <2>9
    <3>2. Sits(b, "flight", s, j)
      BY <2>6, <3>1
    <3>3. \A k, t, i : Sits(b, k, t, i) => k = "flight" /\ t = s
      BY <1>o, <3>2 DEF OneSeat
    <3> QED
      BY <2>5, <3>3
  <2> QED
    BY <2>1, <2>5, <2>8, <2>9, <1>o, SeatBack
<1>18. ASSUME NEW s \in Streams, Stop(s) PROVE OneSeat(b)'
  BY <1>18, <1>k DEF Stop, InHand
<1>19. ASSUME NEW s \in Streams, StopTake(s) PROVE OneSeat(b)'
  <2>1. /\ UNCHANGED <<pool, queue, inFlight, held, place>>
        /\ taken' = [taken EXCEPT ![s] = current[s]] /\ current' = [current EXCEPT ![s] = Nil]
    BY <1>19 DEF StopTake
  <2>2. \A t \in Streams : b \in InHand(t)' => b \in InHand(t)
    BY <2>1, <1>b DEF InHand, BuffersTypeOK
  <2>3. /\ taken'[s] = current[s]
        /\ \A t \in Streams \ {s} : taken'[t] = taken[t]
    BY <2>1 DEF BuffersTypeOK
  <2>4. CASE current[s] = b
    <3>1. place[s] \notin {"copy", "seal", "return", "forget"}
      BY <1>19, <1>b, <2>4 DEF StopTake
    <3>2. held[s] # b
      <4>1. LocalOf(s) /\ place[s] \in {"idle", "get", "publish", "put", "flush", "close", "stale"}
        BY <3>1 DEF LocalInv, BuffersTypeOK
      <4> QED
        BY <1>b, <2>4, <4>1 DEF LocalOf
    <3>3. b \notin InHand(s)'
      BY <1>b, <2>1, <3>2 DEF InHand, BuffersTypeOK
    <3>4. Sits(b, "hand", s, 0)
      BY <2>4, <3>1 DEF Sits, InHand
    <3>5. \A k, t, i : Sits(b, k, t, i) => k = "hand" /\ t = s /\ i = 0
      BY <1>o, <3>4 DEF OneSeat
    <3>6. ASSUME NEW k, NEW t, NEW i, Sits(b, k, t, i)' PROVE k = "taken" /\ t = s /\ i = 0
      <4>1. CASE Sits(b, k, t, i)
        <5>1. Sits(b, "hand", s, 0)'
          BY <3>5, <3>6, <4>1
        <5> QED
          BY <3>3, <5>1 DEF Sits
      <4>2. CASE ~Sits(b, k, t, i)
        <5>1. k = "taken" /\ t = s
          BY <2>1, <2>2, <2>3, <3>6, <4>2, SeatFrame
        <5> QED
          BY <3>6, <5>1 DEF Sits
      <4> QED
        BY <4>1, <4>2
    <3> QED
      BY <3>6, SeatTaken
  <2>5. CASE current[s] # b
    <3>1. ASSUME NEW k, NEW t, NEW i, Sits(b, k, t, i)' PROVE Sits(b, k, t, i)
      <4>1. CASE k = "taken" /\ t = s
        BY <2>3, <2>5, <3>1, <4>1 DEF Sits
      <4>2. CASE ~(k = "taken" /\ t = s)
        BY <2>1, <2>2, <2>3, <3>1, <4>2, SeatFrame
      <4> QED
        BY <4>1, <4>2
    <3> QED
      BY <3>1, <1>o, SeatKept
  <2> QED
    BY <2>4, <2>5
<1>20. ASSUME NEW s \in Streams, StopReturn(s) PROVE OneSeat(b)'
  <2>1. /\ UNCHANGED <<queue, inFlight, current, held, place>> /\ taken[s] \in Buffers
        /\ taken' = [taken EXCEPT ![s] = Nil] /\ BackToPool(<<taken[s]>>)
    BY <1>20 DEF StopReturn, LocalInv, LocalOf, BuffersTypeOK, Maybe
  <2>2. \A t \in Streams : b \in InHand(t)' => b \in InHand(t)
    BY <2>1 DEF InHand
  <2>3. taken'[s] # b /\ \A t \in Streams \ {s} : taken'[t] = taken[t]
    BY <1>b, <2>1 DEF BuffersTypeOK
  <2>4. ASSUME NEW k, NEW t, NEW i, k # "pool", Sits(b, k, t, i)'
        PROVE  Sits(b, k, t, i) /\ ~(k = "taken" /\ t = s)
    <3>1. CASE k = "taken" /\ t = s
      BY <2>3, <2>4, <3>1 DEF Sits
    <3>2. CASE ~(k = "taken" /\ t = s)
      BY <2>1, <2>2, <2>3, <2>4, <3>2, SeatFrame
    <3> QED
      BY <3>1, <3>2
  <2>5. ASSUME taken[s] = b
        PROVE  /\ \A k, t, i : k # "pool" => ~Sits(b, k, t, i)'
               /\ \A i : ~Sits(b, "pool", 0, i)
    <3>1. Sits(b, "taken", s, 0)
      BY <2>5 DEF Sits
    <3>2. \A k, t, i : Sits(b, k, t, i) => k = "taken" /\ t = s
      BY <1>o, <3>1 DEF OneSeat
    <3> QED
      BY <2>4, <3>2
  <2> DEFINE r == <<taken[s]>>
  <2>6. r \in Seq(Buffers) /\ Len(r) = 1 /\ r[1] = taken[s]
    BY <2>1
  <2>7. BackToPool(r)
    BY <2>1
  <2> HIDE DEF r
  <2>8. \A x \in 1..Len(r) : x = 1 /\ r[x] = taken[s]
    BY <2>6
  <2> QED
    BY <2>4, <2>5, <2>6, <2>7, <2>8, <1>o, SeatBack
<1> QED
  BY <1>1, <1>2, <1>3, <1>4, <1>5, <1>6, <1>7, <1>8, <1>9, <1>10, <1>11, <1>12, <1>13, <1>14,
     <1>15, <1>16, <1>17, <1>18, <1>19, <1>20 DEF BuffersNext, WriterStep, WorkerActs

-------------------------------------------------------------------------------
(* The bytes in a buffer.                                                  *)

\* What a writer has in hand or has put was in its hands before, or is borrowed.
LEMMA KeeperStep ==
  ASSUME BuffersTypeOK, LocalInv, [BuffersNext]_bufferVars, NEW t \in Streams,
         NEW b \in Buffers, b \notin torn', Keeps(t, b)'
  PROVE  Keeps(t, b) \/ (Borrow(t) /\ held' = [held EXCEPT ![t] = b])
<1> SUFFICES ASSUME ~Keeps(t, b), ~(Borrow(t) /\ held' = [held EXCEPT ![t] = b]) PROVE FALSE
  OBVIOUS
<1> USE DEF Moves, Hold, poolVars, streamVars, writerVars, stopVars, historyVars
<1>b. b # Nil
  BY BuffersAssumption
<1>l. Len(queue[t]) \in Nat
  BY LenProperties DEF BuffersTypeOK
<1>1. CASE queue'[t] = queue[t]
  <2>1. b \in InHand(t)' /\ b \notin InHand(t)
    BY <1>1 DEF Keeps
  <2>2. (b = held'[t] \/ (b = current'[t] /\ place'[t] # "forget"))
    BY <2>1 DEF InHand
  <2>3. b # held[t] /\ (b = current[t] => place[t] = "forget")
    BY <2>1 DEF InHand
  <2>4. PICK s \in Streams : WriterStep(s) \/ WorkerActs(s)
    BY <2>1 DEF BuffersNext, bufferVars, InHand
  <2>5. CASE WorkerActs(s)
    <3>1. held' = held /\ place' = place
      BY <2>5 DEF WorkerActs, Send, ReleaseChunks, Stop, StopTake, StopReturn
    <3>2. current'[t] \in {current[t], Nil}
      BY <2>5 DEF WorkerActs, Send, ReleaseChunks, Stop, StopTake, StopReturn, BuffersTypeOK
    <3> QED
      BY <1>b, <2>2, <2>3, <3>1, <3>2
  <2>6. CASE WriterStep(s) /\ s # t
    <3>1. held'[t] = held[t] /\ place'[t] = place[t] /\ current'[t] = current[t]
      <4> USE <2>6 DEF WriterStep, BuffersTypeOK
      <4> QED
        BY DEF WriteOrFlush, GetCurrent, Borrow, Publish, Copy, Flush, Seal, Put, Close,
               CloseTakes, CloseStopped, StaleTake, StaleReturn, StaleForget
    <3> QED
      BY <2>2, <2>3, <3>1
  <2>7. CASE WriterStep(t)
    <3>1. \/ held'[t] \in {held[t], Nil}
          \/ held'[t] = current[t] /\ place[t] # "forget"
          \/ Borrow(t)
      <4> USE <2>7 DEF WriterStep, BuffersTypeOK
      <4> QED
        BY DEF WriteOrFlush, GetCurrent, Publish, Copy, Flush, Seal, Put, Close,
               CloseTakes, CloseStopped, StaleTake, StaleReturn, StaleForget
    <3>2. current'[t] \in {current[t], Nil, held[t]}
      <4> USE <2>7 DEF WriterStep, BuffersTypeOK
      <4> QED
        BY DEF WriteOrFlush, GetCurrent, Borrow, Publish, Copy, Flush, Seal, Put, Close,
               CloseTakes, CloseStopped, StaleTake, StaleReturn, StaleForget
    <3>3. place[t] = "forget" => current'[t] = Nil /\ held'[t] = held[t]
      <4> USE <2>7 DEF WriterStep, BuffersTypeOK
      <4> QED
        BY DEF WriteOrFlush, GetCurrent, Borrow, Publish, Copy, Flush, Seal, Put, Close,
               CloseTakes, CloseStopped, StaleTake, StaleReturn, StaleForget
    <3>4. Borrow(t) => current'[t] = Nil /\ \E c \in Buffers : held' = [held EXCEPT ![t] = c]
      BY DEF Borrow
    <3>5. Borrow(t) => held'[t] # b
      BY <3>4 DEF BuffersTypeOK
    <3> QED
      BY <1>b, <2>2, <2>3, <3>1, <3>2, <3>3, <3>5
  <2> QED
    BY <2>4, <2>5, <2>6, <2>7
<1>2. CASE queue'[t] # queue[t]
  <2>1. PICK s \in Streams : Put(s) \/ Send(s)
    <3> USE DEF BuffersNext, WriterStep, WorkerActs, bufferVars
    <3> QED
      BY <1>2 DEF WriteOrFlush, GetCurrent, Borrow, Publish, Copy, Flush, Seal, Close, CloseTakes,
             CloseStopped, StaleTake, StaleReturn, StaleForget, ReleaseChunks, Stop, StopTake,
             StopReturn
  <2>2. s = t
    BY <1>2, <2>1 DEF Put, Send, BuffersTypeOK
  <2>3. CASE Put(t)
    <3>1. /\ queue'[t] = Append(queue[t], [buffer |-> held[t], final |-> final[t]])
          /\ held'[t] = Nil /\ current'[t] = current[t] /\ place[t] = "put"
      BY <1>2, <2>3 DEF Put, BuffersTypeOK
    <3>2. queue[t] \in Seq(Chunks) /\ [buffer |-> held[t], final |-> final[t]] \in Chunks
      BY DEF BuffersTypeOK, Chunks, Maybe
    <3>3. /\ Len(queue'[t]) = Len(queue[t]) + 1
          /\ queue'[t][Len(queue[t]) + 1].buffer = held[t]
          /\ \A i \in 1..Len(queue[t]) : queue'[t][i] = queue[t][i]
      BY <3>1, <3>2, AppendProperties
    <3>4. held[t] # b /\ current[t] # b
      BY <3>1 DEF Keeps, InHand
    <3>5. ~\E i \in 1..Len(queue'[t]) : queue'[t][i].buffer = b
      BY <1>l, <3>3, <3>4 DEF Keeps
    <3> QED
      BY <1>b, <3>1, <3>4, <3>5 DEF Keeps, InHand
  <2>4. CASE Send(t)
    <3>1. queue'[t] = <<>> /\ held' = held /\ current' = current /\ place' = place
      BY <2>4 DEF Send, BuffersTypeOK
    <3>2. Len(queue'[t]) = 0
      BY <3>1, EmptySeq
    <3> QED
      BY <3>1, <3>2 DEF Keeps, InHand
  <2> QED
    BY <2>1, <2>2, <2>3, <2>4
<1> QED
  BY <1>1, <1>2

\* Two who keep a buffer are one, unless it was torn from one of them.
LEMMA OneKeeper ==
  ASSUME NEW b, OneSeat(b), NEW s \in Streams, NEW t \in Streams, Keeps(s, b), b \in InHand(t)
  PROVE  s = t
<1>1. Sits(b, "hand", t, 0)
  BY DEF Sits
<1>2. CASE b \in InHand(s)
  <2>1. Sits(b, "hand", s, 0)
    BY <1>2 DEF Sits
  <2> QED
    BY <1>1, <2>1 DEF OneSeat
<1>3. CASE b \notin InHand(s)
  <2>1. PICK i \in 1..Len(queue[s]) : queue[s][i].buffer = b
    BY <1>3 DEF Keeps
  <2>2. Sits(b, "queue", s, i)
    BY <2>1 DEF Sits
  <2> QED
    BY <1>1, <2>2 DEF OneSeat
<1> QED
  BY <1>2, <1>3

\* Only a borrow and a copy change the bytes of buffers.
LEMMA FilledStep ==
  ASSUME [BuffersNext]_bufferVars
  PROVE  \/ filled' = filled
         \/ \E s \in Streams : Borrow(s) \/ Copy(s)
<1> USE DEF BuffersNext, WriterStep, WorkerActs, bufferVars, poolVars
<1> QED
  BY DEF WriteOrFlush, GetCurrent, Publish, Flush, Seal, Put, Close, CloseTakes,
         CloseStopped, StaleTake, StaleReturn, StaleForget, Send, ReleaseChunks, Stop, StopTake,
         StopReturn

LEMMA OwnStep ==
  ASSUME BuffersTypeOK, LocalInv, SeatInv, OwnInv, [BuffersNext]_bufferVars, SeatInv'
  PROVE  OwnInv'
<1>t. torn \subseteq torn'
  <2> USE DEF BuffersNext, WriterStep, WorkerActs, bufferVars, historyVars
  <2> QED
    BY DEF WriteOrFlush, GetCurrent, Borrow, Publish, Copy, Flush, Seal, Put, Close, CloseTakes,
           CloseStopped, StaleTake, StaleReturn, StaleForget, Send, ReleaseChunks, Stop, StopTake,
           StopReturn
<1>1. ASSUME NEW t \in Streams, NEW b \in Buffers, b \notin torn', Keeps(t, b)'
      PROVE  filled'[b] \subseteq {t}
  <2>t. b \notin torn
    BY <1>1, <1>t
  <2>1. CASE Borrow(t) /\ held' = [held EXCEPT ![t] = b]
    <3>1. PICK c \in Buffers : /\ filled' = [filled EXCEPT ![c] = {}]
                               /\ held' = [held EXCEPT ![t] = c]
      BY <2>1 DEF Borrow, Hold
    <3>2. b = c
      BY <2>1, <3>1 DEF BuffersTypeOK
    <3> QED
      BY <3>1, <3>2 DEF BuffersTypeOK
  <2>2. CASE Keeps(t, b)
    <3>1. filled[b] \subseteq {t}
      BY <2>2, <2>t DEF OwnInv
    <3>2. CASE filled' = filled
      BY <3>1, <3>2
    <3>3. ASSUME NEW s \in Streams, Borrow(s) PROVE filled'[b] \subseteq {t}
      <4>1. filled'[b] \in {filled[b], {}}
        BY <3>3 DEF Borrow, BuffersTypeOK
      <4> QED
        BY <3>1, <4>1
    <3>4. ASSUME NEW s \in Streams, Copy(s) PROVE filled'[b] \subseteq {t}
      <4>1. filled'[b] = IF b = held[s] THEN filled[b] \cup {s} ELSE filled[b]
        BY <3>4 DEF Copy, BuffersTypeOK
      <4>2. b = held[s] => s = t
        BY <2>t, <2>2, OneKeeper DEF SeatInv, InHand
      <4> QED
        BY <3>1, <4>1, <4>2
    <3> QED
      BY <3>2, <3>3, <3>4, FilledStep
  <2> QED
    BY <1>1, <2>1, <2>2, KeeperStep
<1>2. OwnBytes'
  <2> SUFFICES ASSUME torn' = {}, NEW t \in Streams PROVE given'[t] \subseteq {t}
    BY DEF OwnBytes
  <2>1. torn = {}
    BY <1>t
  <2>2. given[t] \subseteq {t}
    BY <2>1 DEF OwnInv, OwnBytes
  <2>3. CASE given' = given
    BY <2>2, <2>3
  <2>4. ASSUME NEW s \in Streams, Send(s) PROVE given'[t] \subseteq {t}
    <3>1. given' = [given EXCEPT ![s] = @ \cup UNION {filled[b] : b \in BuffersOf(queue[s])}]
      BY <2>4 DEF Send
    <3>2. CASE s # t
      BY <2>2, <3>1, <3>2 DEF BuffersTypeOK
    <3>3. CASE s = t
      <4>1. given'[t] = given[t] \cup UNION {filled[b] : b \in BuffersOf(queue[t])}
        BY <3>1, <3>3 DEF BuffersTypeOK
      <4>2. ASSUME NEW b \in BuffersOf(queue[t]) PROVE filled[b] \subseteq {t}
        <5>1. DOMAIN queue[t] = 1..Len(queue[t]) /\ \A i \in 1..Len(queue[t]) : queue[t][i] \in Chunks
          BY LenProperties DEF BuffersTypeOK
        <5>2. PICK i \in 1..Len(queue[t]) : queue[t][i].buffer = b /\ b # Nil
          BY <5>1 DEF BuffersOf
        <5>3. b \in Buffers
          BY <5>1, <5>2 DEF Chunks
        <5>4. Keeps(t, b)
          BY <5>2 DEF Keeps
        <5> QED
          BY <2>1, <5>3, <5>4 DEF OwnInv
      <4> QED
        BY <2>2, <4>1, <4>2
    <3> QED
      BY <3>2, <3>3
  <2>5. given' = given \/ \E s \in Streams : Send(s)
    <3> USE DEF BuffersNext, WriterStep, WorkerActs, bufferVars, historyVars
    <3> QED
      BY DEF WriteOrFlush, GetCurrent, Borrow, Publish, Copy, Flush, Seal, Put, Close, CloseTakes,
             CloseStopped, StaleTake, StaleReturn, StaleForget, ReleaseChunks, Stop, StopTake,
             StopReturn
  <2> QED
    BY <2>3, <2>4, <2>5
<1> QED
  BY <1>1, <1>2 DEF OwnInv

LEMMA BegunStep ==
  ASSUME BuffersTypeOK, LocalInv, BegunInv, [BuffersNext]_bufferVars, SeatInv'
  PROVE  BegunInv'
<1> SUFFICES ASSUME NEW t \in Streams, place'[t] \notin {"copy", "forget"},
                    current'[t] \notin torn' \cup {Nil}
             PROVE  filled'[current'[t]] # {}
  BY DEF BegunInv, Begun
<1> USE DEF Moves, Hold, poolVars, streamVars, writerVars, stopVars, historyVars
<1>c. current[t] \in Buffers \cup {Nil} /\ current'[t] \in Buffers
  BY BuffersTypeStep DEF BuffersTypeOK, Maybe
<1>1. ASSUME NEW s \in Streams, Borrow(s) PROVE filled'[current'[t]] # {}
  <2>1. PICK c \in Buffers : /\ filled' = [filled EXCEPT ![c] = {}]
                             /\ held' = [held EXCEPT ![s] = c]
    BY <1>1 DEF Borrow
  <2>2. /\ current' = current /\ torn' = torn /\ place' = [place EXCEPT ![s] = "publish"]
        /\ current[s] = Nil
    BY <1>1 DEF Borrow
  <2>3. s # t /\ place[t] = place'[t]
    BY <2>2 DEF BuffersTypeOK
  <2>4. filled[current[t]] # {}
    BY <2>2, <2>3 DEF BegunInv, Begun
  <2>5. current[t] # c
    <3> SUFFICES ASSUME current[t] = c PROVE FALSE
      OBVIOUS
    <3>1. c \in InHand(t)' /\ c \in InHand(s)'
      BY <2>1, <2>2 DEF InHand, BuffersTypeOK
    <3>2. Sits(c, "hand", t, 0)' /\ Sits(c, "hand", s, 0)'
      BY <3>1 DEF Sits
    <3>3. OneSeat(c)'
      BY <2>2 DEF SeatInv
    <3> QED
      BY <2>3, <3>2, <3>3 DEF OneSeat
  <2> QED
    BY <2>1, <2>2, <2>4, <2>5, <1>c DEF BuffersTypeOK
<1>2. ASSUME NEW s \in Streams, Copy(s) PROVE filled'[current'[t]] # {}
  <2>1. /\ filled' = [filled EXCEPT ![held[s]] = @ \cup {s}] /\ current' = current /\ torn' = torn
        /\ place[s] = "copy" /\ (\A u \in Streams \ {s} : place'[u] = place[u])
    BY <1>2 DEF Copy, BuffersTypeOK
  <2>2. CASE t = s
    <3>1. current[t] = held[t]
      BY <2>1, <2>2 DEF LocalInv, LocalOf
    <3> QED
      BY <2>1, <2>2, <3>1, <1>c DEF BuffersTypeOK
  <2>3. CASE t # s
    <3>1. filled[current[t]] # {}
      BY <2>1, <2>3 DEF BegunInv, Begun
    <3> QED
      BY <2>1, <3>1, <1>c DEF BuffersTypeOK
  <2> QED
    BY <2>2, <2>3
<1>3. ASSUME filled' = filled, \A s \in Streams : ~Copy(s) PROVE filled'[current'[t]] # {}
  <2>t. torn \subseteq torn'
    <3> USE DEF BuffersNext, WriterStep, WorkerActs, bufferVars
    <3> QED
      BY DEF WriteOrFlush, GetCurrent, Borrow, Publish, Copy, Flush, Seal, Put, Close, CloseTakes,
             CloseStopped, StaleTake, StaleReturn, StaleForget, Send, ReleaseChunks, Stop, StopTake,
             StopReturn
  <2>1. CASE current'[t] = current[t] /\ place[t] \notin {"copy", "forget"}
    BY <1>3, <1>c, <2>1, <2>t DEF BegunInv, Begun
  <2>2. CASE UNCHANGED bufferVars
    BY <2>1, <2>2 DEF bufferVars
  <2>3. ASSUME NEW s \in Streams, WorkerActs(s) PROVE filled'[current'[t]] # {}
    <3>1. place' = place
      BY <2>3 DEF WorkerActs, Send, ReleaseChunks, Stop, StopTake, StopReturn
    <3>2. current'[t] \in {current[t], Nil}
      BY <2>3 DEF WorkerActs, Send, ReleaseChunks, Stop, StopTake, StopReturn, BuffersTypeOK
    <3> QED
      BY <2>1, <3>1, <3>2, <1>c, BuffersAssumption
  <2>4. ASSUME NEW s \in Streams \ {t}, WriterStep(s) PROVE filled'[current'[t]] # {}
    <3>1. place'[t] = place[t] /\ current'[t] = current[t]
      <4> USE <2>4 DEF WriterStep, BuffersTypeOK
      <4> QED
        BY DEF WriteOrFlush, GetCurrent, Borrow, Publish, Copy, Flush, Seal, Put, Close,
               CloseTakes, CloseStopped, StaleTake, StaleReturn, StaleForget
    <3> QED
      BY <2>1, <3>1
  <2>5. ASSUME WriterStep(t) PROVE filled'[current'[t]] # {}
    <3>1. ~Copy(t)
      BY <1>3
    <3>2. place'[t] \in {"copy", "forget"} \/ current'[t] = Nil
          \/ (current'[t] = current[t] /\ place[t] \notin {"copy", "forget"})
      <4> USE <2>5, <3>1 DEF WriterStep, BuffersTypeOK
      <4> QED
        BY DEF WriteOrFlush, GetCurrent, Borrow, Publish, Flush, Seal, Put, Close,
               CloseTakes, CloseStopped, StaleTake, StaleReturn, StaleForget
    <3> QED
      BY <2>1, <3>2, <1>c, BuffersAssumption
  <2> QED
    BY <2>2, <2>3, <2>4, <2>5 DEF BuffersNext
<1> QED
  BY <1>1, <1>2, <1>3, FilledStep

-------------------------------------------------------------------------------
(* The invariant, and what it says of the pool and of what h2o is given.   *)

LEMMA BuffersStart ==
  ASSUME BuffersInit
  PROVE  BuffersInv
<1> USE DEF BuffersInit
<1>e. <<>> \in Seq(Buffers) /\ <<>> \in Seq(Chunks)
  BY EmptySeq
<1>1. BuffersTypeOK
  BY <1>e DEF BuffersTypeOK, Maybe
<1>2. LocalInv /\ BegunInv
  BY DEF LocalInv, LocalOf, BegunInv, Begun
<1>3. SeatInv
  <2> SUFFICES ASSUME NEW b \in Buffers, NEW k, NEW s, NEW i, Sits(b, k, s, i) PROVE FALSE
    BY DEF SeatInv, OneSeat
  <2>1. Len(<<>>) = 0
    BY EmptySeq
  <2>2. b # Nil
    BY BuffersAssumption
  <2> QED
    BY <2>1, <2>2 DEF Sits, InHand
<1>4. OwnInv
  BY DEF OwnInv, OwnBytes
<1> QED
  BY <1>1, <1>2, <1>3, <1>4 DEF BuffersInv

LEMMA BuffersStep ==
  ASSUME BuffersInv, [BuffersNext]_bufferVars
  PROVE  BuffersInv'
<1> USE DEF BuffersInv
<1>1. BuffersTypeOK'
  BY BuffersTypeStep
<1>2. LocalInv'
  BY LocalStep
<1>3. SeatInv'
  <2> SUFFICES ASSUME NEW b \in Buffers, b \notin torn' PROVE OneSeat(b)'
    BY DEF SeatInv
  <2> QED
    BY SeatStep
<1>4. BegunInv'
  BY <1>3, BegunStep
<1>5. OwnInv'
  BY <1>3, OwnStep
<1> QED
  BY <1>1, <1>2, <1>3, <1>4, <1>5

\* A set with one element at most.
LEMMA AtMostOne ==
  ASSUME NEW S, \A x, y \in S : x = y
  PROVE  Cardinality(S) \in {0, 1} /\ (S = {} => Cardinality(S) = 0)
<1>1. CASE S = {}
  BY <1>1, FS_EmptySet
<1>2. CASE S # {}
  <2>1. PICK x : S = {x}
    BY <1>2
  <2> QED
    BY <1>2, <2>1, FS_Singleton
<1> QED
  BY <1>1, <1>2

\* The number of users of a buffer, from its seats.
LEMMA OneUser ==
  ASSUME BuffersTypeOK, NEW b \in Buffers, OneSeat(b)
  PROVE  Users(b) <= 1
<1> DEFINE P == {i \in DOMAIN pool : pool[i] = b}
           Q == {s \in Streams : b \in BuffersOf(queue[s])}
           F == {s \in Streams : b \in BuffersOf(inFlight[s])}
           H == {s \in Streams : b \in InHand(s)}
           T == {s \in Streams : b = taken[s]}
<1>p. \A i \in P : Sits(b, "pool", 0, i)
  <2>1. DOMAIN pool = 1..Len(pool)
    BY LenProperties DEF BuffersTypeOK
  <2> QED
    BY <2>1 DEF Sits
<1>q. \A s \in Q : \E i : Sits(b, "queue", s, i)
  <2> SUFFICES ASSUME NEW s \in Q PROVE \E i : Sits(b, "queue", s, i)
    OBVIOUS
  <2>1. DOMAIN queue[s] = 1..Len(queue[s])
    BY LenProperties DEF BuffersTypeOK
  <2>2. PICK i \in 1..Len(queue[s]) : queue[s][i].buffer = b
    BY <2>1 DEF BuffersOf
  <2> QED
    BY <2>2 DEF Sits
<1>f. \A s \in F : \E i : Sits(b, "flight", s, i)
  <2> SUFFICES ASSUME NEW s \in F PROVE \E i : Sits(b, "flight", s, i)
    OBVIOUS
  <2>1. DOMAIN inFlight[s] = 1..Len(inFlight[s])
    BY LenProperties DEF BuffersTypeOK
  <2>2. PICK i \in 1..Len(inFlight[s]) : inFlight[s][i].buffer = b
    BY <2>1 DEF BuffersOf
  <2> QED
    BY <2>2 DEF Sits
<1>h. \A s \in H : Sits(b, "hand", s, 0)
  BY DEF Sits
<1>t. \A s \in T : Sits(b, "taken", s, 0)
  BY DEF Sits
<1> HIDE DEF P, Q, F, H, T
<1>1. /\ \A x, y \in P : x = y
      /\ \A x, y \in Q : x = y
      /\ \A x, y \in F : x = y
      /\ \A x, y \in H : x = y
      /\ \A x, y \in T : x = y
  BY <1>p, <1>q, <1>f, <1>h, <1>t DEF OneSeat
<1>2. /\ P # {} => Q = {} /\ F = {} /\ H = {} /\ T = {}
      /\ Q # {} => F = {} /\ H = {} /\ T = {}
      /\ F # {} => H = {} /\ T = {}
      /\ H # {} => T = {}
  <2>p. P # {} => \E i : Sits(b, "pool", 0, i)
    BY <1>p
  <2>q. Q # {} => \E s, i : Sits(b, "queue", s, i)
    BY <1>q
  <2>f. F # {} => \E s, i : Sits(b, "flight", s, i)
    BY <1>f
  <2>h. H # {} => \E s : Sits(b, "hand", s, 0)
    BY <1>h
  <2>t. T # {} => \E s : Sits(b, "taken", s, 0)
    BY <1>t
  <2>o. \A k, l, s, t, i, j : Sits(b, k, s, i) /\ Sits(b, l, t, j) => k = l
    BY DEF OneSeat
  <2> QED
    BY <2>p, <2>q, <2>f, <2>h, <2>t, <2>o
<1> DEFINE p == Cardinality(P)
           q == Cardinality(Q)
           f == Cardinality(F)
           h == Cardinality(H)
           t == Cardinality(T)
<1>3. /\ p \in {0, 1} /\ (P = {} => p = 0)
      /\ q \in {0, 1} /\ (Q = {} => q = 0)
      /\ f \in {0, 1} /\ (F = {} => f = 0)
      /\ h \in {0, 1} /\ (H = {} => h = 0)
      /\ t \in {0, 1} /\ (T = {} => t = 0)
  BY <1>1, AtMostOne
<1>4. Users(b) = p + q + f + h + t
  BY DEF Users, P, Q, F, H, T
<1> HIDE DEF p, q, f, h, t
<1> QED
  BY <1>2, <1>3, <1>4

\* The invariant of the buffers: types, what a writer has at each place, one seat
\* of every buffer that was not torn from its writer, and one response's bytes in it.
THEOREM BuffersInvariant == BuffersSpec => []BuffersInv
<1>1. BuffersInit => BuffersInv
  BY BuffersStart
<1>2. BuffersInv /\ [BuffersNext]_bufferVars => BuffersInv'
  BY BuffersStep
<1> QED
  BY <1>1, <1>2, PTL DEF BuffersSpec

\* A buffer of the pool is in one place only: idle in the pool, in one chunk of one
\* response, in the hands of one writer, or on its way back from on-stop, for any
\* number of responses and buffers; the exception are the buffers that on-stop
\* returns while their writer is using them (response_queue.clj, release-chunks and
\* on-stop; buffer_pool.clj, borrow and return).
THEOREM BuffersAreSound == BuffersSpec => []BuffersSound
<1>1. BuffersInv => BuffersSound
  <2> SUFFICES ASSUME BuffersInv, NEW b \in Buffers \ torn PROVE Users(b) <= 1
    BY DEF BuffersInv, BuffersSound
  <2> QED
    BY OneUser DEF BuffersInv, SeatInv
<1> QED
  BY <1>1, BuffersInvariant, PTL

\* h2o is never given, as bytes of a response, the bytes of another one, until the
\* first buffer that on-stop returns under its writer (response_queue.clj, send-vecs).
THEOREM BytesAreOwn == BuffersSpec => []OwnBytes
<1>1. BuffersInv => OwnBytes
  BY DEF BuffersInv, OwnInv
<1> QED
  BY <1>1, BuffersInvariant, PTL
===============================================================================
