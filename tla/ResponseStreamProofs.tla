------------------------ MODULE ResponseStreamProofs ------------------------
(***************************************************************************)
(* For every capacity, set of chunk sizes and number of chunks: the stream *)
(* is type correct, admits one sender at a time, sends only to a ready     *)
(* generator, strands no chunk, conserves the semaphore's permits, keeps   *)
(* its accounts exact, and implements the contract of an ordered, gapless, *)
(* flow-controlled byte channel.                                           *)
(***************************************************************************)
EXTENDS ResponseStream, SequenceTheorems, WellFoundedInduction, TLAPS

\* A producer that moved the marker from idle and has not posted its command,
\* or that found the worker closed and has not moved the marker back.
Holding == writerPc \in PostPcs \cup {"failStop", "failIdle"}

\* What h2o's generator and in-flight_ are at each point of the worker.
NativeInv ==
  /\ workerPc \in {"drain", "send", "empty", "retireCas"} => native = "ready" /\ ~inFlight
  /\ workerPc \in ProceedPcs => native = "ready"
  /\ workerPc = "proceeded" => ~inFlight
  /\ workerPc = "entry" => native \in {"ready", "gone"}
  /\ workerPc \in SentPcs => native \in {"sending", "final"}
  /\ inFlight => native # "ready" \/ workerPc = "release"
  /\ (native = "gone" /\ workerPc # "stopFlag") => stopped
  /\ workerPc \in StopPcs => native = "gone"
  /\ workerPc \in {"send"} \cup SentPcs => batch # <<>>
  /\ (native = "final" /\ workerPc \in SentPcs) => batch[Len(batch)].final
  /\ (native = "final" /\ workerPc \notin SentPcs) => stopped

\* A request is retired after its generator, and the worker after its request.
LifeInv ==
  /\ ~live => native = "gone"
  /\ ~accepting => ~live
  /\ writerPc \in FailPcs => ~accepting

\* The holders of an activation exclude each other and keep the marker busy;
\* handing over the final chunk consumes the activation for good.
HolderInv ==
  /\ commands \in {0, 1}
  /\ ~(Holding /\ CommandPending)
  /\ ~(Holding /\ WorkerSending)
  /\ ~(Holding /\ SendInFlight)
  /\ ~(CommandPending /\ WorkerSending)
  /\ ~(CommandPending /\ SendInFlight)
  /\ ~(WorkerSending /\ SendInFlight)
  /\ (Holding \/ CommandPending \/ WorkerSending \/ SendInFlight) => drainState # Idle
  /\ native = "final" => /\ ~Holding /\ ~CommandPending /\ ~WorkerSending
                         /\ drainState # Idle

\* A busy marker of a stream nobody stopped has a holder.
ActiveInv ==
  (drainState # Idle /\ ~stopped /\ native # "gone") =>
     Holding \/ CommandPending \/ WorkerSending \/ SendInFlight \/ workerPc \in SentPcs

WriterInv ==
  /\ writerPc = "closeCas" => sealed < MaxChunks
  /\ writerPc \in PutPcs => chunk \in Chunk
  /\ workerPc = "freePermits" => queueClosed

ControlInv == TypeOK /\ NativeInv /\ LifeInv /\ HolderInv /\ ActiveInv /\ NoStrandedChunk

IInv == ControlInv /\ WriterInv /\ PermitsConserved
-----------------------------------------------------------------------------

USE DEF Idle, Active, Signalled
USE CapacityAssumption, SizesAssumption, MaxChunksAssumption

\* A chunk has a natural number of bytes.
LEMMA ChunkBytes == ASSUME DataTypeOK PROVE chunk.bytes \in Nat
<1>1. {0} \cup Sizes \subseteq Nat
  OBVIOUS
<1>2. CASE chunk \in Chunk
  BY <1>1, <1>2 DEF Chunk
<1>3. CASE chunk = NoChunk
  BY <1>3 DEF NoChunk
<1> QED
  BY <1>2, <1>3 DEF DataTypeOK

\* Polling a non-empty queue yields a chunk and leaves a queue of chunks.
LEMMA QueueHead ==
  ASSUME DataTypeOK, queue # <<>>
  PROVE  /\ Head(queue) \in Chunk /\ Tail(queue) \in Seq(Chunk)
         /\ Head(queue).bytes \in Nat
         /\ Append(batch, Head(queue)) \in Seq(Chunk)
<1>1. queue \in Seq(Chunk) /\ batch \in Seq(Chunk)
  BY DEF DataTypeOK
<1>2. Head(queue) \in Chunk /\ Tail(queue) \in Seq(Chunk)
  BY <1>1
<1>3. \A c \in Chunk : c.bytes \in {0} \cup Sizes
  BY DEF Chunk
<1>4. {0} \cup Sizes \subseteq Nat
  OBVIOUS
<1>5. Append(batch, Head(queue)) \in Seq(Chunk)
  BY <1>1, <1>2
<1> QED
  BY <1>2, <1>3, <1>4, <1>5

\* Every step keeps h2o's generator where the worker expects it.
LEMMA NativeStep ==
  ASSUME TypeOK, NativeInv, HolderInv, [Next]_vars
  PROVE  NativeInv'
<1> USE DEF NativeInv, HolderInv, Holding, CommandPending, WorkerSending,
        SendInFlight, SendPcs, SentPcs, ProceedPcs, StopPcs, RetirePcs, TypeOK,
        FlagsTypeOK, WriterAt, WorkerAt, WriterThrows, Scheduled, ConsumeSignal,
        bbq, marks, writer, worker, outside, h2o
<1>1. CASE PutCheck \/ Acquire \/ Recheck \/ Count \/ Enqueue \/ MarkFinal
  BY <1>1 DEF PutCheck, Acquire, Recheck, Count, Enqueue, MarkFinal
<1>2. CASE Schedule \/ Activate \/ Signal \/ Track \/ TrackCheck \/ Untrack \/
           Post
  BY <1>2 DEF Schedule, Activate, Signal, Track, TrackCheck, Untrack, Post
<1>3. CASE FailStop \/ FailIdle \/ FailUntrack \/ WriteEnd \/ WriteBegin \/
           CloseBegin \/ CloseStopped
  BY <1>3 DEF FailStop, FailIdle, FailUntrack, WriteEnd, WriteBegin,
         CloseBegin, CloseStopped
<1>4. CASE HandleCommand
  BY <1>4 DEF HandleCommand
<1>5. CASE SendVecsEntry
  BY <1>5 DEF SendVecsEntry
<1>6. CASE DrainDone
  BY <1>6 DEF DrainDone
<1>7. CASE SendVec
  BY <1>7 DEF SendVec
<1>8. CASE FinishSend
  BY <1>8 DEF FinishSend
<1>9. CASE DrainOne \/ HoldInFlight \/ UnsignalAfterSend \/ EmptyDrain \/
           RetireCas
  BY <1>9 DEF DrainOne, HoldInFlight, UnsignalAfterSend, EmptyDrain, RetireCas
<1>10. CASE RetireUntrack \/ PendingDrain \/ PendingBytes \/ Retrack \/
           RetrackCheck
  BY <1>10 DEF RetireUntrack, PendingDrain, PendingBytes, Retrack,
         RetrackCheck
<1>11. CASE ReleaseInFlight \/ OnProceed \/ StopFlag \/ StopUntrack \/
           CloseQueue \/ FreePermits
  BY <1>11 DEF ReleaseInFlight, OnProceed, StopFlag, StopUntrack, CloseQueue,
         FreePermits
<1>12. CASE Proceed \/ Stop \/ Cleanup \/ WorkerExit \/ Finished
  BY <1>12 DEF Proceed, Stop, Cleanup, WorkerExit, Finished, vars
<1>13. ASSUME NEW b \in Sizes, SealChunk(b) PROVE NativeInv'
  BY <1>13 DEF SealChunk
<1>14. ASSUME NEW b \in {0} \cup Sizes, CloseSeal(b) PROVE NativeInv'
  BY <1>14 DEF CloseSeal
<1>15. CASE UNCHANGED vars
  BY <1>15 DEF vars
<1> QED
  BY <1>1, <1>2, <1>3, <1>4, <1>5, <1>6, <1>7, <1>8, <1>9, <1>10, <1>11,
     <1>12, <1>13, <1>14, <1>15 DEF Next, WriterStep, Application, WorkerStep

\* Every step keeps the order generator, entry, worker of what ends.
LEMMA LifeStep ==
  ASSUME NativeInv, LifeInv, [Next]_vars
  PROVE  LifeInv'
<1> USE DEF NativeInv, LifeInv, WriterPcs, WritePcs, PutPcs, SchedulePcs,
        PostPcs, FailPcs, SendPcs, SentPcs, ProceedPcs, StopPcs, WriterAt,
        WorkerAt, WriterThrows, Scheduled, ConsumeSignal, bbq, marks, writer,
        worker, outside, h2o
<1>1. CASE PutCheck \/ Acquire \/ Recheck \/ Count \/ Enqueue \/ MarkFinal
  BY <1>1 DEF PutCheck, Acquire, Recheck, Count, Enqueue, MarkFinal
<1>2. CASE Schedule \/ Activate \/ Signal \/ Track \/ TrackCheck \/ Untrack \/
           Post
  BY <1>2 DEF Schedule, Activate, Signal, Track, TrackCheck, Untrack, Post
<1>3. CASE FailStop \/ FailIdle \/ FailUntrack \/ WriteEnd \/ WriteBegin \/
           CloseBegin \/ CloseStopped
  BY <1>3 DEF FailStop, FailIdle, FailUntrack, WriteEnd, WriteBegin,
         CloseBegin, CloseStopped
<1>4. CASE HandleCommand \/ SendVecsEntry \/ DrainOne \/ DrainDone \/ SendVec
           \/ HoldInFlight \/ UnsignalAfterSend \/ FinishSend \/ EmptyDrain \/
           RetireCas
  BY <1>4 DEF HandleCommand, SendVecsEntry, DrainOne, DrainDone, SendVec,
         HoldInFlight, UnsignalAfterSend, FinishSend, EmptyDrain, RetireCas
<1>5. CASE RetireUntrack \/ PendingDrain \/ PendingBytes \/ Retrack \/
           RetrackCheck
  BY <1>5 DEF RetireUntrack, PendingDrain, PendingBytes, Retrack, RetrackCheck
<1>6. CASE ReleaseInFlight \/ OnProceed \/ StopFlag \/ StopUntrack \/
           CloseQueue \/ FreePermits
  BY <1>6 DEF ReleaseInFlight, OnProceed, StopFlag, StopUntrack, CloseQueue,
         FreePermits
<1>7. CASE Proceed \/ Stop \/ Cleanup \/ WorkerExit \/ Finished
  BY <1>7 DEF Proceed, Stop, Cleanup, WorkerExit, Finished, vars
<1>8. ASSUME NEW b \in Sizes, SealChunk(b) PROVE LifeInv'
  BY <1>8 DEF SealChunk
<1>9. ASSUME NEW b \in {0} \cup Sizes, CloseSeal(b) PROVE LifeInv'
  BY <1>9 DEF CloseSeal
<1>10. CASE UNCHANGED vars
  BY <1>10 DEF vars
<1> QED
  BY <1>1, <1>2, <1>3, <1>4, <1>5, <1>6, <1>7, <1>8, <1>9, <1>10 DEF Next,
     WriterStep, Application, WorkerStep

\* Every step hands the activation on to at most one holder.
LEMMA HolderStep ==
  ASSUME TypeOK, NativeInv, LifeInv, HolderInv, [Next]_vars
  PROVE  HolderInv'
<1> USE DEF TypeOK, FlagsTypeOK, NativeInv, LifeInv, HolderInv, Holding,
        CommandPending, WorkerSending, SendInFlight, PostPcs, FailPcs, SendPcs,
        SentPcs, ProceedPcs, StopPcs, RetirePcs, WriterAt, WorkerAt,
        WriterThrows, Scheduled, ConsumeSignal, bbq, marks, writer, worker,
        outside, h2o
<1>1. CASE PutCheck \/ Acquire \/ Recheck \/ Count \/ Enqueue \/ MarkFinal
  BY <1>1 DEF PutCheck, Acquire, Recheck, Count, Enqueue, MarkFinal
<1>2. CASE Schedule \/ Activate \/ Signal \/ Track \/ TrackCheck \/ Untrack \/
           Post
  BY <1>2 DEF Schedule, Activate, Signal, Track, TrackCheck, Untrack, Post
<1>3. CASE FailStop \/ FailIdle \/ FailUntrack \/ WriteEnd \/ WriteBegin \/
           CloseBegin \/ CloseStopped
  BY <1>3 DEF FailStop, FailIdle, FailUntrack, WriteEnd, WriteBegin,
         CloseBegin, CloseStopped
<1>4. CASE HandleCommand \/ SendVecsEntry \/ DrainOne \/ DrainDone \/ SendVec
           \/ HoldInFlight \/ UnsignalAfterSend \/ FinishSend \/ EmptyDrain \/
           RetireCas
  BY <1>4 DEF HandleCommand, SendVecsEntry, DrainOne, DrainDone, SendVec,
         HoldInFlight, UnsignalAfterSend, FinishSend, EmptyDrain, RetireCas
<1>5. CASE RetireUntrack \/ PendingDrain \/ PendingBytes \/ Retrack \/
           RetrackCheck
  BY <1>5 DEF RetireUntrack, PendingDrain, PendingBytes, Retrack, RetrackCheck
<1>6. CASE ReleaseInFlight \/ OnProceed \/ StopFlag \/ StopUntrack \/
           CloseQueue \/ FreePermits
  BY <1>6 DEF ReleaseInFlight, OnProceed, StopFlag, StopUntrack, CloseQueue,
         FreePermits
<1>7. CASE Proceed \/ Stop \/ Cleanup \/ WorkerExit \/ Finished
  BY <1>7 DEF Proceed, Stop, Cleanup, WorkerExit, Finished, vars
<1>8. ASSUME NEW b \in Sizes, SealChunk(b) PROVE HolderInv'
  BY <1>8 DEF SealChunk
<1>9. ASSUME NEW b \in {0} \cup Sizes, CloseSeal(b) PROVE HolderInv'
  BY <1>9 DEF CloseSeal
<1>10. CASE UNCHANGED vars
  BY <1>10 DEF vars
<1> QED
  BY <1>1, <1>2, <1>3, <1>4, <1>5, <1>6, <1>7, <1>8, <1>9, <1>10 DEF Next,
     WriterStep, Application, WorkerStep

\* Every step that drops an activation of a running stream idles the marker.
LEMMA ActiveStep ==
  ASSUME TypeOK, NativeInv, LifeInv, HolderInv, ActiveInv, [Next]_vars
  PROVE  ActiveInv'
<1> USE DEF TypeOK, FlagsTypeOK, ActiveInv, NativeInv, LifeInv, HolderInv,
        Holding, CommandPending, WorkerSending, SendInFlight, PostPcs, FailPcs,
        SendPcs, SentPcs, ProceedPcs, StopPcs, RetirePcs, WriterAt, WorkerAt,
        WriterThrows, Scheduled, ConsumeSignal, bbq, marks, writer, worker,
        outside, h2o
<1>1. CASE PutCheck \/ Acquire \/ Recheck \/ Count \/ Enqueue \/ MarkFinal
  BY <1>1 DEF PutCheck, Acquire, Recheck, Count, Enqueue, MarkFinal
<1>2. CASE Schedule \/ Activate \/ Signal \/ Track \/ TrackCheck \/ Untrack \/
           Post
  BY <1>2 DEF Schedule, Activate, Signal, Track, TrackCheck, Untrack, Post
<1>3. CASE FailStop \/ FailIdle \/ FailUntrack \/ WriteEnd \/ WriteBegin \/
           CloseBegin \/ CloseStopped
  BY <1>3 DEF FailStop, FailIdle, FailUntrack, WriteEnd, WriteBegin,
         CloseBegin, CloseStopped
<1>4. CASE HandleCommand \/ SendVecsEntry \/ DrainOne \/ DrainDone \/ SendVec
           \/ HoldInFlight \/ UnsignalAfterSend \/ FinishSend \/ EmptyDrain \/
           RetireCas
  BY <1>4 DEF HandleCommand, SendVecsEntry, DrainOne, DrainDone, SendVec,
         HoldInFlight, UnsignalAfterSend, FinishSend, EmptyDrain, RetireCas
<1>5. CASE RetireUntrack \/ PendingDrain \/ PendingBytes \/ Retrack \/
           RetrackCheck
  BY <1>5 DEF RetireUntrack, PendingDrain, PendingBytes, Retrack, RetrackCheck
<1>6. CASE ReleaseInFlight \/ OnProceed \/ StopFlag \/ StopUntrack \/
           CloseQueue \/ FreePermits
  BY <1>6 DEF ReleaseInFlight, OnProceed, StopFlag, StopUntrack, CloseQueue,
         FreePermits
<1>7. CASE Proceed \/ Stop \/ Cleanup \/ WorkerExit \/ Finished
  BY <1>7 DEF Proceed, Stop, Cleanup, WorkerExit, Finished, vars
<1>8. ASSUME NEW b \in Sizes, SealChunk(b) PROVE ActiveInv'
  BY <1>8 DEF SealChunk
<1>9. ASSUME NEW b \in {0} \cup Sizes, CloseSeal(b) PROVE ActiveInv'
  BY <1>9 DEF CloseSeal
<1>10. CASE UNCHANGED vars
  BY <1>10 DEF vars
<1> QED
  BY <1>1, <1>2, <1>3, <1>4, <1>5, <1>6, <1>7, <1>8, <1>9, <1>10 DEF Next,
     WriterStep, Application, WorkerStep

\* Every step keeps an enqueued chunk on somebody's way.
LEMMA StrandStep ==
  ASSUME TypeOK, NativeInv, LifeInv, HolderInv, ActiveInv, NoStrandedChunk, [Next]_vars
  PROVE  NoStrandedChunk'
<1> USE DEF TypeOK, FlagsTypeOK, NoStrandedChunk, WriterActivating,
        WriterWillSchedule, ActiveInv, NativeInv, LifeInv, HolderInv, Holding,
        CommandPending, WorkerSending, SendInFlight, PostPcs, FailPcs, SendPcs,
        SentPcs, ProceedPcs, StopPcs, RetirePcs, WriterAt, WorkerAt,
        WriterThrows, Scheduled, ConsumeSignal, bbq, marks, writer, worker,
        outside, h2o
<1>1. CASE PutCheck \/ Acquire \/ Recheck \/ Count \/ Enqueue \/ MarkFinal
  BY <1>1 DEF PutCheck, Acquire, Recheck, Count, Enqueue, MarkFinal
<1>2. CASE Schedule \/ Activate \/ Signal \/ Track \/ TrackCheck \/ Untrack \/
           Post
  BY <1>2 DEF Schedule, Activate, Signal, Track, TrackCheck, Untrack, Post
<1>3. CASE FailStop \/ FailIdle \/ FailUntrack \/ WriteEnd \/ WriteBegin \/
           CloseBegin \/ CloseStopped
  BY <1>3 DEF FailStop, FailIdle, FailUntrack, WriteEnd, WriteBegin,
         CloseBegin, CloseStopped
<1>4. CASE HandleCommand \/ SendVecsEntry \/ DrainOne \/ DrainDone \/ SendVec
           \/ HoldInFlight \/ UnsignalAfterSend \/ FinishSend \/ EmptyDrain \/
           RetireCas
  BY <1>4 DEF HandleCommand, SendVecsEntry, DrainOne, DrainDone, SendVec,
         HoldInFlight, UnsignalAfterSend, FinishSend, EmptyDrain, RetireCas
<1>5. CASE RetireUntrack \/ PendingDrain \/ PendingBytes \/ Retrack \/
           RetrackCheck
  BY <1>5 DEF RetireUntrack, PendingDrain, PendingBytes, Retrack, RetrackCheck
<1>6. CASE ReleaseInFlight \/ OnProceed \/ StopFlag \/ StopUntrack \/
           CloseQueue \/ FreePermits
  BY <1>6 DEF ReleaseInFlight, OnProceed, StopFlag, StopUntrack, CloseQueue,
         FreePermits
<1>7. CASE Proceed \/ Stop \/ Cleanup \/ WorkerExit \/ Finished
  BY <1>7 DEF Proceed, Stop, Cleanup, WorkerExit, Finished, vars
<1>8. ASSUME NEW b \in Sizes, SealChunk(b) PROVE NoStrandedChunk'
  BY <1>8 DEF SealChunk
<1>9. ASSUME NEW b \in {0} \cup Sizes, CloseSeal(b) PROVE NoStrandedChunk'
  BY <1>9 DEF CloseSeal
<1>10. CASE UNCHANGED vars
  BY <1>10 DEF vars
<1> QED
  BY <1>1, <1>2, <1>3, <1>4, <1>5, <1>6, <1>7, <1>8, <1>9, <1>10 DEF Next,
     WriterStep, Application, WorkerStep

\* Every step keeps the sum of free, queued and acquired bytes.
LEMMA PermitStep ==
  ASSUME TypeOK, WriterInv, PermitsConserved, [Next]_vars
  PROVE  PermitsConserved'
<1> USE DEF TypeOK, DataTypeOK, WriterInv, PermitsConserved, AcquiredBytes,
        ReleasedByClose, Chunk, NoChunk, WriterAt, WorkerAt, WriterThrows,
        Scheduled, ConsumeSignal, bbq, marks, writer, worker, outside, h2o
<1>1. CASE PutCheck
  BY <1>1, ChunkBytes DEF PutCheck
<1>2. CASE Acquire
  <2>1. AcquiredBytes = 0 /\ AcquiredBytes' = chunk.bytes
    BY <1>2 DEF Acquire
  <2>2. permits' = permits - chunk.bytes /\ queuedBytes' = queuedBytes
    BY <1>2 DEF Acquire
  <2>3. ReleasedByClose' = ReleasedByClose /\ ReleasedByClose \in Nat
    BY <1>2 DEF Acquire
  <2> QED
    BY <2>1, <2>2, <2>3, ChunkBytes
<1>3. CASE Recheck
  BY <1>3, ChunkBytes DEF Recheck
<1>4. CASE Count
  BY <1>4, ChunkBytes DEF Count
<1>5. CASE Enqueue \/ MarkFinal
  BY <1>5 DEF Enqueue, MarkFinal
<1>6. CASE Schedule \/ Activate \/ Signal \/ Track \/ TrackCheck \/ Untrack \/
           Post
  BY <1>6 DEF Schedule, Activate, Signal, Track, TrackCheck, Untrack, Post
<1>7. CASE FailStop \/ FailIdle \/ FailUntrack \/ WriteEnd \/ WriteBegin \/
           CloseBegin \/ CloseStopped
  BY <1>7 DEF FailStop, FailIdle, FailUntrack, WriteEnd, WriteBegin,
         CloseBegin, CloseStopped
<1>8. CASE DrainOne
  <2>1. PICK b \in Nat : permits' = permits + b /\ queuedBytes' = queuedBytes - b
    BY <1>8, QueueHead DEF DrainOne
  <2>2. AcquiredBytes' = AcquiredBytes /\ ReleasedByClose' = ReleasedByClose
    BY <1>8 DEF DrainOne
  <2>3. AcquiredBytes \in Nat /\ ReleasedByClose \in Nat
    BY ChunkBytes
  <2>4. permits \in Nat /\ queuedBytes \in Int
    OBVIOUS
  <2> HIDE DEF AcquiredBytes, ReleasedByClose, DataTypeOK
  <2> QED
    BY <2>1, <2>2, <2>3, <2>4
<1>9. CASE HandleCommand \/ SendVecsEntry \/ DrainDone \/ SendVec \/
           HoldInFlight \/ UnsignalAfterSend \/ FinishSend \/ EmptyDrain \/
           RetireCas
  <2>1. CASE HandleCommand
    BY <2>1 DEF HandleCommand
  <2>2. CASE SendVecsEntry
    BY <2>2 DEF SendVecsEntry
  <2>3. CASE DrainDone
    BY <2>3 DEF DrainDone
  <2>4. CASE SendVec
    BY <2>4 DEF SendVec
  <2>5. CASE HoldInFlight
    BY <2>5 DEF HoldInFlight
  <2>6. CASE UnsignalAfterSend
    BY <2>6 DEF UnsignalAfterSend
  <2>7. CASE FinishSend
    BY <2>7 DEF FinishSend
  <2>8. CASE EmptyDrain
    BY <2>8 DEF EmptyDrain
  <2>9. CASE RetireCas
    BY <2>9 DEF RetireCas
  <2> QED
    BY <1>9, <2>1, <2>2, <2>3, <2>4, <2>5, <2>6, <2>7, <2>8, <2>9
<1>10. CASE RetireUntrack \/ PendingDrain \/ PendingBytes \/ Retrack \/
           RetrackCheck
  BY <1>10 DEF RetireUntrack, PendingDrain, PendingBytes, Retrack,
         RetrackCheck
<1>11. CASE FreePermits
  <2>1. ReleasedByClose = 0 /\ ReleasedByClose' = Capacity
    BY <1>11 DEF FreePermits
  <2>2. permits' = permits + Capacity /\ queuedBytes' = queuedBytes
    BY <1>11 DEF FreePermits
  <2>3. AcquiredBytes' = AcquiredBytes /\ AcquiredBytes \in Nat
    BY <1>11, ChunkBytes DEF FreePermits
  <2>4. permits \in Nat /\ queuedBytes \in Int
    OBVIOUS
  <2> HIDE DEF AcquiredBytes, ReleasedByClose, DataTypeOK
  <2> QED
    BY <2>1, <2>2, <2>3, <2>4
<1>12. CASE ReleaseInFlight \/ OnProceed \/ StopFlag \/ StopUntrack \/
           CloseQueue
  BY <1>12 DEF ReleaseInFlight, OnProceed, StopFlag, StopUntrack, CloseQueue
<1>13. CASE Proceed \/ Stop \/ Cleanup \/ WorkerExit \/ Finished
  BY <1>13 DEF Proceed, Stop, Cleanup, WorkerExit, Finished, vars
<1>14. ASSUME NEW b \in Sizes, SealChunk(b) PROVE PermitsConserved'
  BY <1>14 DEF SealChunk
<1>15. ASSUME NEW b \in {0} \cup Sizes, CloseSeal(b) PROVE PermitsConserved'
  BY <1>15 DEF CloseSeal
<1>16. CASE UNCHANGED vars
  BY <1>16 DEF vars
<1> QED
  BY <1>1, <1>2, <1>3, <1>4, <1>5, <1>6, <1>7, <1>8, <1>9, <1>10, <1>11,
     <1>12, <1>13, <1>14, <1>15, <1>16 DEF Next, WriterStep, Application,
     WorkerStep

\* Every step keeps what put and close rely on.
LEMMA WriterStepInv ==
  ASSUME TypeOK, WriterInv, [Next]_vars
  PROVE  WriterInv'
<1> USE DEF TypeOK, DataTypeOK, WriterInv, PutPcs, WriterAt, WorkerAt,
        WriterThrows, Scheduled, ConsumeSignal, bbq, marks, writer, worker,
        outside, h2o
<1>1. CASE PutCheck \/ Acquire \/ Recheck \/ Count \/ Enqueue \/ MarkFinal
  BY <1>1 DEF PutCheck, Acquire, Recheck, Count, Enqueue, MarkFinal
<1>2. CASE Schedule \/ Activate \/ Signal \/ Track \/ TrackCheck \/ Untrack \/
           Post
  BY <1>2 DEF Schedule, Activate, Signal, Track, TrackCheck, Untrack, Post
<1>3. CASE FailStop \/ FailIdle \/ FailUntrack \/ WriteEnd \/ WriteBegin \/
           CloseBegin \/ CloseStopped
  BY <1>3 DEF FailStop, FailIdle, FailUntrack, WriteEnd, WriteBegin,
         CloseBegin, CloseStopped
<1>4. CASE HandleCommand \/ SendVecsEntry \/ DrainOne \/ DrainDone \/ SendVec
           \/ HoldInFlight \/ UnsignalAfterSend \/ FinishSend \/ EmptyDrain \/
           RetireCas
  BY <1>4 DEF HandleCommand, SendVecsEntry, DrainOne, DrainDone, SendVec,
         HoldInFlight, UnsignalAfterSend, FinishSend, EmptyDrain, RetireCas
<1>5. CASE RetireUntrack \/ PendingDrain \/ PendingBytes \/ Retrack \/
           RetrackCheck
  BY <1>5 DEF RetireUntrack, PendingDrain, PendingBytes, Retrack, RetrackCheck
<1>6. CASE ReleaseInFlight \/ OnProceed \/ StopFlag \/ StopUntrack \/
           CloseQueue \/ FreePermits
  BY <1>6 DEF ReleaseInFlight, OnProceed, StopFlag, StopUntrack, CloseQueue,
         FreePermits
<1>7. CASE Proceed \/ Stop \/ Cleanup \/ WorkerExit \/ Finished
  BY <1>7 DEF Proceed, Stop, Cleanup, WorkerExit, Finished, vars
<1>8. ASSUME NEW b \in Sizes, SealChunk(b) PROVE WriterInv'
  <2>1. sealed' \in 1..MaxChunks
    BY <1>8 DEF SealChunk
  <2>2. chunk' \in Chunk
    BY <1>8, <2>1 DEF SealChunk, Chunk
  <2> QED
    BY <1>8, <2>2 DEF SealChunk
<1>9. ASSUME NEW b \in {0} \cup Sizes, CloseSeal(b) PROVE WriterInv'
  <2>1. sealed' \in 1..MaxChunks
    BY <1>9 DEF CloseSeal
  <2>2. chunk' \in Chunk
    BY <1>9, <2>1 DEF CloseSeal, Chunk
  <2> QED
    BY <1>9, <2>2 DEF CloseSeal
<1>10. CASE UNCHANGED vars
  BY <1>10 DEF vars
<1> QED
  BY <1>1, <1>2, <1>3, <1>4, <1>5, <1>6, <1>7, <1>8, <1>9, <1>10 DEF Next,
     WriterStep, Application, WorkerStep

\* Every step keeps the types of the chunks and counters.
LEMMA DataStep ==
  ASSUME TypeOK, NativeInv, WriterInv, [Next]_vars
  PROVE  DataTypeOK'
<1> USE DEF TypeOK, DataTypeOK, WriterInv, PutPcs, Chunk, NoChunk, WriterAt,
        WorkerAt, WriterThrows, Scheduled, ConsumeSignal, bbq, marks, writer,
        worker, outside, h2o
<1>1. CASE Acquire
  BY <1>1, ChunkBytes DEF Acquire
<1>2. CASE Recheck
  BY <1>2, ChunkBytes DEF Recheck
<1>3. CASE Count
  BY <1>3, ChunkBytes DEF Count
<1>4. CASE Enqueue
  <2>1. queue \in Seq(Chunk) /\ chunk \in Chunk
    BY <1>4 DEF Enqueue
  <2>2. queue' \in Seq(Chunk)
    BY <1>4, <2>1 DEF Enqueue
  <2> QED
    BY <1>4, <2>2 DEF Enqueue
<1>5. CASE PutCheck \/ MarkFinal
  BY <1>5 DEF PutCheck, MarkFinal
<1>6. CASE Schedule \/ Activate \/ Signal \/ Track \/ TrackCheck \/ Untrack \/
           Post
  BY <1>6 DEF Schedule, Activate, Signal, Track, TrackCheck, Untrack, Post
<1>7. CASE FailStop \/ FailIdle \/ FailUntrack \/ WriteEnd \/ WriteBegin \/
           CloseBegin \/ CloseStopped
  BY <1>7 DEF FailStop, FailIdle, FailUntrack, WriteEnd, WriteBegin,
         CloseBegin, CloseStopped
<1>8. CASE HandleCommand
  BY <1>8 DEF HandleCommand
<1>9. CASE DrainOne
  <2>1. queue' \in Seq(Chunk) /\ batch' \in Seq(Chunk)
    BY <1>9, QueueHead DEF DrainOne
  <2>2. PICK b \in Nat : permits' = permits + b /\ queuedBytes' = queuedBytes - b
    BY <1>9, QueueHead DEF DrainOne
  <2>3. permits' \in Nat /\ queuedBytes' \in Int
    BY <2>2
  <2> QED
    BY <1>9, <2>1, <2>3 DEF DrainOne
<1>10. CASE SendVec
  BY <1>10 DEF SendVec
<1>11. CASE FinishSend
  BY <1>11 DEF FinishSend
<1>12. CASE SendVecsEntry \/ DrainDone \/ HoldInFlight \/ UnsignalAfterSend \/
           EmptyDrain \/ RetireCas
  BY <1>12 DEF SendVecsEntry, DrainDone, HoldInFlight, UnsignalAfterSend,
         EmptyDrain, RetireCas
<1>13. CASE RetireUntrack \/ PendingDrain \/ PendingBytes \/ Retrack \/
           RetrackCheck
  BY <1>13 DEF RetireUntrack, PendingDrain, PendingBytes, Retrack,
         RetrackCheck
<1>14. CASE ReleaseInFlight \/ OnProceed \/ StopFlag \/ StopUntrack \/
           CloseQueue \/ FreePermits
  BY <1>14 DEF ReleaseInFlight, OnProceed, StopFlag, StopUntrack, CloseQueue,
         FreePermits
<1>15. CASE Proceed \/ Stop \/ Cleanup \/ WorkerExit \/ Finished
  BY <1>15 DEF Proceed, Stop, Cleanup, WorkerExit, Finished, vars
<1>16. ASSUME NEW b \in Sizes, SealChunk(b) PROVE DataTypeOK'
  BY <1>16 DEF SealChunk
<1>17. ASSUME NEW b \in {0} \cup Sizes, CloseSeal(b) PROVE DataTypeOK'
  BY <1>17 DEF CloseSeal
<1>18. CASE UNCHANGED vars
  BY <1>18 DEF vars
<1> QED
  BY <1>1, <1>2, <1>3, <1>4, <1>5, <1>6, <1>7, <1>8, <1>9, <1>10, <1>11,
     <1>12, <1>13, <1>14, <1>15, <1>16, <1>17, <1>18 DEF Next, WriterStep,
     Application, WorkerStep

\* Every step keeps the types of the flags, markers and positions.
LEMMA FlagsStep ==
  ASSUME TypeOK, [Next]_vars
  PROVE  FlagsTypeOK'
<1> USE DEF TypeOK, FlagsTypeOK, WriterPcs, WritePcs, PutPcs, SchedulePcs,
        PostPcs, FailPcs, WorkerPcs, SendPcs, SentPcs, RetirePcs, ProceedPcs,
        StopPcs, WriterAt, WorkerAt, WriterThrows, Scheduled, ConsumeSignal,
        bbq, marks, writer, worker, outside, h2o
<1>1. CASE PutCheck
  BY <1>1 DEF PutCheck
<1>2. CASE Acquire
  BY <1>2 DEF Acquire
<1>3. CASE Recheck
  BY <1>3 DEF Recheck
<1>4. CASE Count
  BY <1>4 DEF Count
<1>5. CASE Enqueue
  BY <1>5 DEF Enqueue
<1>6. CASE MarkFinal
  BY <1>6 DEF MarkFinal
<1>7. CASE Schedule
  BY <1>7 DEF Schedule
<1>8. CASE Activate
  BY <1>8 DEF Activate
<1>9. CASE Signal
  BY <1>9 DEF Signal
<1>10. CASE Track
  BY <1>10 DEF Track
<1>11. CASE TrackCheck
  BY <1>11 DEF TrackCheck
<1>12. CASE Untrack
  BY <1>12 DEF Untrack
<1>13. CASE Post
  BY <1>13 DEF Post
<1>14. CASE FailStop
  BY <1>14 DEF FailStop
<1>15. CASE FailIdle
  BY <1>15 DEF FailIdle
<1>16. CASE FailUntrack
  BY <1>16 DEF FailUntrack
<1>17. CASE WriteEnd
  BY <1>17 DEF WriteEnd
<1>18. CASE WriteBegin
  BY <1>18 DEF WriteBegin
<1>19. CASE CloseBegin
  BY <1>19 DEF CloseBegin
<1>20. CASE CloseStopped
  BY <1>20 DEF CloseStopped
<1>21. CASE HandleCommand
  BY <1>21 DEF HandleCommand
<1>22. CASE SendVecsEntry
  BY <1>22 DEF SendVecsEntry
<1>23. CASE DrainOne
  BY <1>23 DEF DrainOne
<1>24. CASE DrainDone
  BY <1>24 DEF DrainDone
<1>25. CASE SendVec
  BY <1>25 DEF SendVec
<1>26. CASE HoldInFlight
  BY <1>26 DEF HoldInFlight
<1>27. CASE UnsignalAfterSend
  BY <1>27 DEF UnsignalAfterSend
<1>28. CASE FinishSend
  BY <1>28 DEF FinishSend
<1>29. CASE EmptyDrain
  BY <1>29 DEF EmptyDrain
<1>30. CASE RetireCas
  BY <1>30 DEF RetireCas
<1>31. CASE RetireUntrack
  BY <1>31 DEF RetireUntrack
<1>32. CASE PendingDrain
  BY <1>32 DEF PendingDrain
<1>33. CASE PendingBytes
  BY <1>33 DEF PendingBytes
<1>34. CASE Retrack
  BY <1>34 DEF Retrack
<1>35. CASE RetrackCheck
  BY <1>35 DEF RetrackCheck
<1>36. CASE ReleaseInFlight
  BY <1>36 DEF ReleaseInFlight
<1>37. CASE OnProceed
  BY <1>37 DEF OnProceed
<1>38. CASE StopFlag
  BY <1>38 DEF StopFlag
<1>39. CASE StopUntrack
  BY <1>39 DEF StopUntrack
<1>40. CASE CloseQueue
  BY <1>40 DEF CloseQueue
<1>41. CASE FreePermits
  BY <1>41 DEF FreePermits
<1>42. CASE Proceed
  BY <1>42 DEF Proceed
<1>43. CASE Stop
  BY <1>43 DEF Stop
<1>44. CASE Cleanup
  BY <1>44 DEF Cleanup
<1>45. CASE WorkerExit
  BY <1>45 DEF WorkerExit
<1>46. CASE Finished
  BY <1>46 DEF Finished, vars
<1>47. ASSUME NEW b \in Sizes, SealChunk(b) PROVE FlagsTypeOK'
  BY <1>47 DEF SealChunk
<1>48. ASSUME NEW b \in {0} \cup Sizes, CloseSeal(b) PROVE FlagsTypeOK'
  BY <1>48 DEF CloseSeal
<1>49. CASE UNCHANGED vars
  BY <1>49 DEF vars
<1> HIDE DEF FlagsTypeOK
<1> QED
  BY <1>1, <1>2, <1>3, <1>4, <1>5, <1>6, <1>7, <1>8, <1>9, <1>10, <1>11,
     <1>12, <1>13, <1>14, <1>15, <1>16, <1>17, <1>18, <1>19, <1>20, <1>21,
     <1>22, <1>23, <1>24, <1>25, <1>26, <1>27, <1>28, <1>29, <1>30, <1>31,
     <1>32, <1>33, <1>34, <1>35, <1>36, <1>37, <1>38, <1>39, <1>40, <1>41,
     <1>42, <1>43, <1>44, <1>45, <1>46, <1>47, <1>48, <1>49 DEF Next,
     WriterStep, Application, WorkerStep

\* The initial state of a response writer satisfies the inductive invariant.
LEMMA InitIInv == Init => IInv
<1> SUFFICES ASSUME Init PROVE IInv
  OBVIOUS
<1>1. FlagsTypeOK
  BY DEF Init, FlagsTypeOK, WriterPcs, WorkerPcs, WritePcs
<1>6. DataTypeOK
  BY DEF Init, DataTypeOK, NoChunk
<1>2. NativeInv /\ LifeInv
  BY DEF Init, NativeInv, LifeInv, SendPcs, SentPcs, ProceedPcs, StopPcs, FailPcs
<1>3. HolderInv /\ ActiveInv
  BY DEF Init, HolderInv, ActiveInv, Holding, CommandPending, WorkerSending, SendInFlight,
         PostPcs, SendPcs, SentPcs, ProceedPcs
<1>4. NoStrandedChunk
  BY DEF Init, NoStrandedChunk
<1>5. WriterInv /\ PermitsConserved
  BY DEF Init, WriterInv, PutPcs, PermitsConserved, AcquiredBytes, ReleasedByClose
<1> QED
  BY <1>1, <1>2, <1>3, <1>4, <1>5, <1>6 DEF IInv, ControlInv, TypeOK

\* The invariant is inductive.
LEMMA StepIInv == IInv /\ [Next]_vars => IInv'
<1> SUFFICES ASSUME IInv, [Next]_vars PROVE IInv'
  OBVIOUS
<1> USE DEF IInv, ControlInv
<1>1. TypeOK'
  BY FlagsStep, DataStep DEF TypeOK
<1>2. NativeInv' /\ LifeInv'
  BY NativeStep, LifeStep
<1>3. HolderInv' /\ ActiveInv' /\ NoStrandedChunk'
  BY HolderStep, ActiveStep, StrandStep
<1>4. WriterInv' /\ PermitsConserved'
  BY WriterStepInv, PermitStep
<1> QED
  BY <1>1, <1>2, <1>3, <1>4

\* The inductive invariant holds in every reachable state.
LEMMA Invariance == Spec => []IInv
  BY InitIInv, StepIInv, PTL DEF Spec

\* Type correctness of the streaming path.
THEOREM TypeCorrect == Spec => []TypeOK
<1>1. IInv => TypeOK
  BY DEF IInv, ControlInv
<1> QED
  BY <1>1, Invariance, PTL

\* At most one mailbox command, send-vecs call or native send exists at a time,
\* the drain marker is busy as long as one does, and h2o_sendvec is only called
\* on a generator whose previous send was consumed and that was neither finished
\* nor stopped.
THEOREM SingleSender == Spec => []SendsInTurn
<1>1. IInv => OneSender
  BY DEF IInv, ControlInv, HolderInv, OneSender, Holding, WriterActivating
<1>2. IInv => SendsToReadyGenerator
  BY DEF IInv, ControlInv, NativeInv, SendsToReadyGenerator
<1> QED
  BY <1>1, <1>2, Invariance, PTL DEF SendsInTurn

\* No interleaving of enqueue and retirement strands a queued chunk.
THEOREM NothingStranded == Spec => []NoStrandedChunk
<1>1. IInv => NoStrandedChunk
  BY DEF IInv, ControlInv
<1> QED
  BY <1>1, Invariance, PTL

\* The byte semaphore neither loses nor invents a permit.
THEOREM PermitConservation == Spec => []PermitsConserved
<1>1. IInv => PermitsConserved
  BY DEF IInv
<1> QED
  BY <1>1, Invariance, PTL

-----------------------------------------------------------------------------
(* The bytes of a sequence: what the recursive sum does.                   *)

\* A set of naturals that holds 0 and every successor of its members is Nat.
LEMMA SetInduction ==
  ASSUME NEW S, 0 \in S, \A n \in Nat : n \in S => n + 1 \in S
  PROVE  Nat \subseteq S
<1> DEFINE T == Nat \ S
           R == OpToRel(<, Nat)
<1>1. SUFFICES ASSUME T # {} PROVE FALSE
  OBVIOUS
<1>2. IsWellFoundedOn(R, Nat)
  BY NatLessThanWellFounded
<1>3. T \subseteq Nat
  OBVIOUS
<1> HIDE DEF T, R
<1>4. PICK x \in T : \A y \in T : ~(<<y, x>> \in R)
  BY ONLY <1>1, <1>2, <1>3, WFMin
<1> USE DEF T
<1>5. x \in Nat /\ x \notin S
  OBVIOUS
<1>6. x # 0 /\ x - 1 \in Nat /\ x - 1 \in T
  BY <1>5
<1>7. <<x - 1, x>> \in R
  BY <1>5, <1>6 DEF R, OpToRel
<1> QED
  BY <1>4, <1>6, <1>7

\* f holds the running sums of the bytes of the first n chunks of c.
SumsUpTo(f, c, n) ==
  f[0] = 0 /\ \A i \in 1..n : f[i] = f[i - 1] + c[i].bytes

\* Chunks carry natural numbers of bytes.
LEMMA BytesNat == ASSUME NEW c \in Chunk PROVE c.bytes \in Nat
<1>1. {0} \cup Sizes \subseteq Nat
  OBVIOUS
<1> QED
  BY <1>1 DEF Chunk

\* The running sums exist.
LEMMA SumsExist ==
  ASSUME NEW c \in Seq(Chunk)
  PROVE  \E f \in [0..Len(c) -> Nat] : SumsUpTo(f, c, Len(c))
<1> DEFINE S == {n \in Nat : n <= Len(c) => \E f \in [0..n -> Nat] : SumsUpTo(f, c, n)}
<1>c. Len(c) \in Nat /\ \A i \in 1..Len(c) : c[i].bytes \in Nat
  BY BytesNat, LenProperties, ElementOfSeq
<1>1. 0 \in S
  <2> DEFINE z == [i \in 0..0 |-> 0]
  <2>1. z \in [0..0 -> Nat] /\ SumsUpTo(z, c, 0)
    BY DEF SumsUpTo
  <2> QED
    BY <2>1
<1>2. ASSUME NEW n \in Nat, n \in S PROVE n + 1 \in S
  <2> SUFFICES ASSUME n + 1 <= Len(c)
               PROVE  \E f \in [0..(n + 1) -> Nat] : SumsUpTo(f, c, n + 1)
    OBVIOUS
  <2>1. PICK f \in [0..n -> Nat] : SumsUpTo(f, c, n)
    BY <1>2, <1>c
  <2> DEFINE g == [i \in 0..(n + 1) |-> IF i <= n THEN f[i] ELSE f[n] + c[n + 1].bytes]
  <2>2. f[n] + c[n + 1].bytes \in Nat
    BY <1>c
  <2>3. g \in [0..(n + 1) -> Nat]
    BY <2>2
  <2>4. g[0] = 0
    BY <2>1 DEF SumsUpTo
  <2>5. ASSUME NEW i \in 1..(n + 1) PROVE g[i] = g[i - 1] + c[i].bytes
    <3>1. CASE i = n + 1
      BY <3>1
    <3>2. CASE i # n + 1
      <4>1. i \in 1..n /\ i - 1 \in 0..n
        BY <3>2
      <4>2. f[i] = f[i - 1] + c[i].bytes
        BY <2>1, <4>1 DEF SumsUpTo
      <4> QED
        BY <4>1, <4>2
    <3> QED
      BY <3>1, <3>2
  <2> HIDE DEF g
  <2>6. SumsUpTo(g, c, n + 1)
    BY <2>4, <2>5 DEF SumsUpTo
  <2> QED
    BY <2>3, <2>6
<1> HIDE DEF S
<1>3. Nat \subseteq S
  BY <1>1, <1>2, SetInduction
<1>4. Len(c) \in S
  BY <1>3, <1>c
<1> QED
  BY <1>4, <1>c DEF S

\* Two running sums of the same chunks agree, and are naturals.
LEMMA SumsUnique ==
  ASSUME NEW c \in Seq(Chunk), NEW d \in Seq(Chunk), NEW n \in Nat,
         n <= Len(c), n <= Len(d), \A i \in 1..n : c[i] = d[i],
         NEW f, NEW g, SumsUpTo(f, c, n), SumsUpTo(g, d, n)
  PROVE  f[n] = g[n] /\ f[n] \in Nat
<1> DEFINE S == {i \in Nat : i <= n => f[i] = g[i] /\ f[i] \in Nat}
<1>c. Len(c) \in Nat /\ \A i \in 1..n : c[i].bytes \in Nat
  BY BytesNat, LenProperties, ElementOfSeq
<1>1. 0 \in S
  BY DEF SumsUpTo
<1>2. ASSUME NEW i \in Nat, i \in S PROVE i + 1 \in S
  <2> SUFFICES ASSUME i + 1 <= n PROVE f[i + 1] = g[i + 1] /\ f[i + 1] \in Nat
    OBVIOUS
  <2>1. i + 1 \in 1..n /\ (i + 1) - 1 = i
    OBVIOUS
  <2>2. f[i] = g[i] /\ f[i] \in Nat
    BY <1>2
  <2>3. f[i + 1] = f[i] + c[i + 1].bytes
    BY ONLY <2>1, SumsUpTo(f, c, n) DEF SumsUpTo
  <2>4. g[i + 1] = g[i] + d[i + 1].bytes
    BY ONLY <2>1, SumsUpTo(g, d, n) DEF SumsUpTo
  <2>5. c[i + 1] = d[i + 1] /\ c[i + 1].bytes \in Nat
    BY <2>1, <1>c
  <2> QED
    BY ONLY <2>2, <2>3, <2>4, <2>5
<1> HIDE DEF S
<1>3. n \in S
  BY <1>1, <1>2, SetInduction
<1> QED
  BY <1>3 DEF S

\* BytesOf is the last of the running sums, whichever function holds them.
LEMMA BytesOfIsSum ==
  ASSUME NEW c \in Seq(Chunk)
  PROVE  /\ BytesOf(c) \in Nat
         /\ \A f : SumsUpTo(f, c, Len(c)) => BytesOf(c) = f[Len(c)]
<1> DEFINE n == Len(c)
           sum[i \in 0..n] == IF i = 0 THEN 0 ELSE sum[i - 1] + c[i].bytes
<1>c. n \in Nat
  BY LenProperties
<1>1. PICK h \in [0..n -> Nat] : SumsUpTo(h, c, n)
  BY SumsExist
<1>2. h = [i \in 0..n |-> IF i = 0 THEN 0 ELSE h[i - 1] + c[i].bytes]
  <2>1. ASSUME NEW i \in 0..n
        PROVE  h[i] = IF i = 0 THEN 0 ELSE h[i - 1] + c[i].bytes
    BY <1>1, <1>c DEF SumsUpTo
  <2> QED
    BY <2>1
<1>3. sum = [i \in 0..n |-> IF i = 0 THEN 0 ELSE sum[i - 1] + c[i].bytes]
  BY <1>2
<1>4. SumsUpTo(sum, c, n)
  <2> HIDE DEF sum
  <2>1. sum[0] = 0
    BY <1>3, <1>c
  <2>2. ASSUME NEW i \in 1..n PROVE sum[i] = sum[i - 1] + c[i].bytes
    BY <1>3, <1>c
  <2> QED
    BY <2>1, <2>2 DEF SumsUpTo
<1>5. BytesOf(c) = sum[n]
  BY DEF BytesOf
<1> HIDE DEF sum
<1>6. ASSUME NEW f, SumsUpTo(f, c, n) PROVE sum[n] = f[n] /\ sum[n] \in Nat
  BY <1>4, <1>6, <1>c, SumsUnique
<1> QED
  BY <1>1, <1>5, <1>6

\* No chunks have no bytes.
LEMMA BytesOfEmpty == BytesOf(<<>>) = 0
<1>1. <<>> \in Seq(Chunk) /\ Len(<<>>) = 0
  BY EmptySeq
<1> DEFINE z == [i \in 0..0 |-> 0]
<1>2. SumsUpTo(z, <<>>, 0) /\ z[0] = 0
  BY DEF SumsUpTo
<1> HIDE DEF z
<1> QED
  BY <1>1, <1>2, BytesOfIsSum

\* A chunk at the end adds its bytes.
LEMMA BytesOfAppend ==
  ASSUME NEW c \in Seq(Chunk), NEW x \in Chunk
  PROVE  BytesOf(Append(c, x)) = BytesOf(c) + x.bytes
<1> DEFINE a == Append(c, x)
           n == Len(c)
<1>1. /\ a \in Seq(Chunk) /\ n \in Nat /\ Len(a) = n + 1
      /\ \A i \in 1..n : a[i] = c[i]
      /\ a[n + 1] = x
  BY AppendProperties, LenProperties
<1> HIDE DEF a, n
<1>2. PICK f \in [0..Len(a) -> Nat] : SumsUpTo(f, a, Len(a))
  BY <1>1, SumsExist
<1>3. SumsUpTo(f, c, n)
  <2>1. f[0] = 0
    BY <1>2 DEF SumsUpTo
  <2>2. ASSUME NEW i \in 1..n PROVE f[i] = f[i - 1] + c[i].bytes
    <3>1. i \in 1..Len(a) /\ a[i] = c[i]
      BY <1>1
    <3>2. f[i] = f[i - 1] + a[i].bytes
      BY ONLY <1>2, <3>1 DEF SumsUpTo
    <3> QED
      BY ONLY <3>1, <3>2
  <2> QED
    BY ONLY <2>1, <2>2 DEF SumsUpTo
<1>4. f[n + 1] = f[n] + x.bytes
  <2>1. n + 1 \in 1..(n + 1) /\ (n + 1) - 1 = n
    BY <1>1
  <2> QED
    BY <1>1, <1>2, <2>1 DEF SumsUpTo
<1>5. BytesOf(c) = f[n]
  BY <1>3, BytesOfIsSum DEF n
<1>6. BytesOf(a) = f[n + 1]
  BY <1>1, <1>2, BytesOfIsSum
<1> QED
  BY <1>4, <1>5, <1>6 DEF a

\* The head takes its bytes with it.
LEMMA BytesOfTail ==
  ASSUME NEW c \in Seq(Chunk), c # <<>>
  PROVE  BytesOf(Tail(c)) = BytesOf(c) - Head(c).bytes
<1> DEFINE t == Tail(c)
           n == Len(t)
           x == Head(c)
<1>1. /\ t \in Seq(Chunk) /\ n \in Nat /\ Len(c) = n + 1 /\ x \in Chunk /\ c[1] = x
      /\ \A i \in 1..n : t[i] = c[i + 1]
  <2>1. Len(c) \in Nat /\ t \in Seq(Chunk) /\ Len(t) = Len(c) - 1 /\ x \in Chunk
    BY HeadTailProperties, LenProperties
  <2>2. n \in Nat /\ Len(c) = n + 1
    BY <2>1, LenProperties
  <2>3. \A i \in 1..n : t[i] = c[i + 1]
    BY HeadTailProperties
  <2>4. c[1] = x
    OBVIOUS
  <2> QED
    BY <2>1, <2>2, <2>3, <2>4
<1> HIDE DEF t, n, x
<1>2. PICK f \in [0..Len(c) -> Nat] : SumsUpTo(f, c, Len(c))
  BY SumsExist
<1>3. x.bytes \in Nat /\ f[1] = x.bytes
  <2>1. 1 \in 1..(n + 1)
    BY <1>1
  <2>2. f[1] = f[1 - 1] + c[1].bytes /\ f[0] = 0
    BY ONLY <1>1, <1>2, <2>1 DEF SumsUpTo
  <2>3. x.bytes \in Nat
    BY <1>1, BytesNat
  <2> QED
    BY <1>1, <2>2, <2>3
<1> DEFINE g == [i \in 0..n |-> f[i + 1] - x.bytes]
<1>4. SumsUpTo(g, t, n)
  <2>1. g[0] = 0
    BY <1>1, <1>3
  <2>2. ASSUME NEW i \in 1..n PROVE g[i] = g[i - 1] + t[i].bytes
    <3>1. i + 1 \in 1..Len(c) /\ (i + 1) - 1 = i /\ i \in 0..n /\ i - 1 \in 0..n
      BY <1>1
    <3>2. f[i + 1] = f[i] + c[i + 1].bytes
      BY <1>2, <3>1 DEF SumsUpTo
    <3>3. t[i] = c[i + 1] /\ c[i + 1].bytes \in Nat
      BY <1>1, <3>1, ElementOfSeq, BytesNat
    <3>4. f[i] \in Nat /\ f[i + 1] \in Nat
      BY <1>1, <1>2, <3>1
    <3>5. g[i] = f[i + 1] - x.bytes /\ g[i - 1] = f[i] - x.bytes
      BY <3>1
    <3> HIDE DEF g
    <3> QED
      BY ONLY <1>3, <3>2, <3>3, <3>4, <3>5
  <2> HIDE DEF g
  <2> QED
    BY <2>1, <2>2 DEF SumsUpTo
<1>5. BytesOf(t) = g[n]
  <2> HIDE DEF g
  <2> QED
    BY <1>1, <1>4, BytesOfIsSum DEF n
<1>6. BytesOf(c) = f[n + 1]
  BY <1>1, <1>2, BytesOfIsSum
<1>7. g[n] = f[n + 1] - x.bytes
  BY <1>1
<1> QED
  BY <1>5, <1>6, <1>7 DEF t, x
-----------------------------------------------------------------------------
(* The account of a stream's work.                                         *)

\* queued-bytes_ is what the queue holds and the chunk being enqueued.
CountInv ==
  queuedBytes = BytesOf(queue) + (IF writerPc = "enqueue" THEN chunk.bytes ELSE 0)

\* An activated stream is in streaming-work but for its producer at the point of
\* adding it and a worker about to put it back; only a stopped stream's producer
\* removes it; a retired request's worker does nothing but stop, after which only
\* a producer about to undo its entry can have one.
TrackInv ==
  /\ (drainState # Idle /\ ~stopped /\ writerPc # "track"
        /\ workerPc \notin {"pendingDrain", "retrack"}) => tracked
  /\ writerPc \in {"untrack", "failIdle", "failUntrack"} => stopped
  /\ ~live => workerPc \in {"idle"} \cup StopPcs
  /\ (~live /\ workerPc \notin {"stopFlag", "stopUntrack"}
        /\ writerPc \notin {"trackCheck", "untrack"} \cup FailPcs) => ~tracked

AccountInv == IInv /\ CountInv /\ TrackInv

\* Every step keeps the queued bytes exact.
LEMMA CountStep ==
  ASSUME TypeOK, WriterInv, CountInv, [Next]_vars
  PROVE  CountInv'
<1> USE DEF CountInv, WriterAt, WorkerAt
<1>q. ASSUME UNCHANGED <<queue, queuedBytes, writerPc, chunk>> PROVE CountInv'
  BY <1>q
<1>w. ASSUME UNCHANGED <<queue, queuedBytes>>, writerPc # "enqueue", writerPc' # "enqueue"
      PROVE  CountInv'
  BY <1>w
<1>c. queue \in Seq(Chunk) /\ BytesOf(queue) \in Nat /\ chunk.bytes \in Nat
  BY BytesOfIsSum, ChunkBytes DEF TypeOK, DataTypeOK
<1>1. CASE PutCheck \/ Acquire \/ Recheck \/ MarkFinal
  BY <1>1, <1>w DEF PutCheck, Acquire, Recheck, MarkFinal, WriterThrows, bbq
<1>2. CASE Schedule \/ Activate \/ Signal \/ Track \/ TrackCheck \/ Untrack \/
           Post
  BY <1>2, <1>w DEF Schedule, Activate, Signal, Track, TrackCheck, Untrack, Post,
         Scheduled, bbq
<1>3. CASE FailStop \/ FailIdle \/ FailUntrack \/ WriteEnd \/ WriteBegin \/
           CloseBegin
  BY <1>3, <1>w DEF FailStop, FailIdle, FailUntrack, WriteEnd, WriteBegin,
         CloseBegin, WriterThrows, bbq
<1>4. ASSUME NEW b \in Sizes, SealChunk(b) PROVE CountInv'
  BY <1>4, <1>w DEF SealChunk, bbq
<1>5. ASSUME NEW b \in {0} \cup Sizes, CloseSeal(b) PROVE CountInv'
  BY <1>5, <1>w DEF CloseSeal, bbq
<1>6. CASE Count
  <2>1. /\ queuedBytes' = queuedBytes + chunk.bytes /\ queue' = queue
        /\ chunk' = chunk /\ writerPc = "count" /\ writerPc' = "enqueue"
    BY <1>6 DEF Count
  <2> QED
    BY <1>c, <2>1
<1>7. CASE Enqueue
  <2>1. /\ queue' = Append(queue, chunk) /\ queuedBytes' = queuedBytes
        /\ writerPc = "enqueue" /\ writerPc' # "enqueue" /\ chunk \in Chunk
    BY <1>7 DEF Enqueue, WriterInv, PutPcs
  <2>2. BytesOf(queue') = BytesOf(queue) + chunk.bytes
    BY <1>c, <2>1, BytesOfAppend
  <2> QED
    BY <1>c, <2>1, <2>2
<1>8. CASE DrainOne
  <2>1. /\ queue # <<>> /\ queue' = Tail(queue)
        /\ queuedBytes' = queuedBytes - Head(queue).bytes
        /\ UNCHANGED <<writerPc, chunk>>
    BY <1>8 DEF DrainOne, writer
  <2>2. BytesOf(queue') = BytesOf(queue) - Head(queue).bytes
    BY <1>c, <2>1, BytesOfTail
  <2>3. Head(queue).bytes \in Nat
    BY <1>c, <2>1, BytesNat, HeadTailProperties
  <2> QED
    BY <1>c, <2>1, <2>2, <2>3
<1>9. CASE WorkerStep /\ ~DrainOne
  <2>1. UNCHANGED <<queue, queuedBytes, writer>>
    BY <1>9 DEF WorkerStep, HandleCommand, SendVecsEntry, DrainDone,
           SendVec, HoldInFlight, UnsignalAfterSend, FinishSend, EmptyDrain,
           RetireCas, RetireUntrack, PendingDrain, PendingBytes, Retrack,
           RetrackCheck, ReleaseInFlight, OnProceed, StopFlag, StopUntrack,
           CloseQueue, FreePermits, bbq
  <2> QED
    BY <2>1, <1>q DEF writer
<1>10. CASE CloseStopped \/ Proceed \/ Stop \/ Cleanup \/ WorkerExit \/ Finished
            \/ UNCHANGED vars
  BY <1>10, <1>q DEF CloseStopped, Proceed, Stop, Cleanup, WorkerExit, Finished, vars,
         bbq, writer
<1> QED
  BY <1>1, <1>2, <1>3, <1>4, <1>5, <1>6, <1>7, <1>8, <1>9, <1>10 DEF Next, WriterStep,
     Application

\* Every step keeps the entry in streaming-work right.
LEMMA TrackStep ==
  ASSUME TypeOK, NativeInv, LifeInv, TrackInv, [Next]_vars
  PROVE  TrackInv'
<1> USE DEF TrackInv, StopPcs, FailPcs, WriterAt, WorkerAt
<1>l. ~live => native = "gone" /\ (workerPc # "stopFlag" => stopped)
  BY DEF NativeInv, LifeInv
<1>s. workerPc \in StopPcs \ {"stopFlag"} => stopped
  BY DEF NativeInv
<1>q. ASSUME UNCHANGED <<drainState, stopped, tracked, live, writerPc, workerPc>>
      PROVE  TrackInv'
  BY <1>q
<1>1. CASE PutCheck \/ Acquire \/ Recheck \/ Count \/ Enqueue \/ MarkFinal
  BY <1>1 DEF PutCheck, Acquire, Recheck, Count, Enqueue, MarkFinal, WriterThrows,
         marks, worker, outside
<1>2. CASE Schedule \/ Activate \/ Signal \/ Track
  <2>1. CASE Schedule
    BY <2>1 DEF Schedule, Scheduled, marks, worker, outside
  <2>2. CASE Activate
    BY <2>2 DEF Activate, Scheduled, marks, worker, outside
  <2>3. CASE Signal
    BY <2>3 DEF Signal, Scheduled, marks, worker, outside
  <2>4. CASE Track
    BY <2>4 DEF Track, Scheduled, marks, worker, outside
  <2> QED
    BY <1>2, <2>1, <2>2, <2>3, <2>4
<1>3. CASE TrackCheck \/ Untrack \/ Post
  <2>1. CASE TrackCheck
    BY <2>1, <1>l DEF TrackCheck, Scheduled, marks, worker, outside
  <2>2. CASE Untrack
    BY <2>2, <1>l DEF Untrack, Scheduled, marks, worker, outside
  <2>3. CASE Post
    BY <2>3, <1>l DEF Post, Scheduled, marks, worker, outside
  <2> QED
    BY <1>3, <2>1, <2>2, <2>3
<1>4. CASE FailStop \/ FailIdle \/ FailUntrack \/ WriteEnd \/ WriteBegin \/
           CloseBegin \/ CloseStopped
  <2>1. CASE FailStop
    BY <2>1 DEF FailStop, WriterThrows, marks, writer, worker, outside
  <2>2. CASE FailIdle
    BY <2>2 DEF FailIdle, WriterThrows, marks, writer, worker, outside
  <2>3. CASE FailUntrack
    BY <2>3 DEF FailUntrack, WriterThrows, marks, writer, worker, outside
  <2>4. CASE WriteEnd
    BY <2>4 DEF WriteEnd, WriterThrows, marks, writer, worker, outside
  <2>5. CASE WriteBegin
    BY <2>5 DEF WriteBegin, WriterThrows, marks, writer, worker, outside
  <2>6. CASE CloseBegin
    BY <2>6 DEF CloseBegin, WriterThrows, marks, writer, worker, outside
  <2>7. CASE CloseStopped
    BY <2>7 DEF CloseStopped, WriterThrows, marks, writer, worker, outside
  <2> QED
    BY <1>4, <2>1, <2>2, <2>3, <2>4, <2>5, <2>6, <2>7
<1>5. ASSUME NEW b \in Sizes, SealChunk(b) PROVE TrackInv'
  BY <1>5 DEF SealChunk, marks, worker, outside
<1>6. ASSUME NEW b \in {0} \cup Sizes, CloseSeal(b) PROVE TrackInv'
  BY <1>6 DEF CloseSeal, marks, worker, outside
<1>7. CASE HandleCommand \/ SendVecsEntry \/ DrainOne \/ DrainDone \/ SendVec \/
           HoldInFlight \/ UnsignalAfterSend \/ FinishSend
  <2>1. CASE HandleCommand
    BY <2>1 DEF HandleCommand, ConsumeSignal, marks, writer, worker, outside
  <2>2. CASE SendVecsEntry
    BY <2>2 DEF SendVecsEntry, ConsumeSignal, marks, writer, worker, outside
  <2>3. CASE DrainOne
    BY <2>3 DEF DrainOne, ConsumeSignal, marks, writer, worker, outside
  <2>4. CASE DrainDone
    BY <2>4 DEF DrainDone, ConsumeSignal, marks, writer, worker, outside
  <2>5. CASE SendVec
    BY <2>5 DEF SendVec, ConsumeSignal, marks, writer, worker, outside
  <2>6. CASE HoldInFlight
    BY <2>6 DEF HoldInFlight, ConsumeSignal, marks, writer, worker, outside
  <2>7. CASE UnsignalAfterSend
    BY <2>7 DEF UnsignalAfterSend, ConsumeSignal, marks, writer, worker, outside
  <2>8. CASE FinishSend
    BY <2>8 DEF FinishSend, ConsumeSignal, marks, writer, worker, outside
  <2> QED
    BY <1>7, <2>1, <2>2, <2>3, <2>4, <2>5, <2>6, <2>7, <2>8
<1>8. CASE EmptyDrain \/ RetireCas
  BY <1>8 DEF EmptyDrain, RetireCas, ConsumeSignal, marks, writer, worker, outside
<1>9. CASE RetireUntrack \/ PendingDrain \/ PendingBytes \/ Retrack \/ RetrackCheck
  <2>1. CASE RetireUntrack
    BY <2>1 DEF RetireUntrack, marks, writer, worker, outside
  <2>2. CASE PendingDrain
    BY <2>2 DEF PendingDrain, marks, writer, worker, outside
  <2>3. CASE PendingBytes
    BY <2>3 DEF PendingBytes, marks, writer, worker, outside
  <2>4. CASE Retrack
    BY <2>4 DEF Retrack, marks, writer, worker, outside
  <2>5. CASE RetrackCheck
    BY <2>5 DEF RetrackCheck, marks, writer, worker, outside
  <2> QED
    BY <1>9, <2>1, <2>2, <2>3, <2>4, <2>5
<1>10. CASE ReleaseInFlight \/ OnProceed \/ StopFlag \/ StopUntrack \/
            CloseQueue \/ FreePermits
  <2>1. CASE ReleaseInFlight
    BY <2>1 DEF ReleaseInFlight, marks, writer, worker, outside
  <2>2. CASE OnProceed
    BY <1>l, <1>s, <2>2 DEF OnProceed, marks, writer, worker, outside
  <2>3. CASE StopFlag
    BY <1>l, <1>s, <2>3 DEF StopFlag, marks, writer, worker, outside
  <2>4. CASE StopUntrack
    BY <1>l, <1>s, <2>4 DEF StopUntrack, marks, writer, worker, outside
  <2>5. CASE CloseQueue
    BY <1>l, <1>s, <2>5 DEF CloseQueue, marks, writer, worker, outside
  <2>6. CASE FreePermits
    BY <1>l, <1>s, <2>6 DEF FreePermits, marks, writer, worker, outside
  <2> QED
    BY <1>10, <2>1, <2>2, <2>3, <2>4, <2>5, <2>6
<1>11. CASE Proceed \/ Stop \/ Cleanup \/ WorkerExit \/ Finished \/ UNCHANGED vars
  BY <1>11, <1>q, <1>l DEF Proceed, Stop, Cleanup, WorkerExit, Finished, vars, marks,
         writer, worker, outside
<1> QED
  BY <1>1, <1>2, <1>3, <1>4, <1>5, <1>6, <1>7, <1>8, <1>9, <1>10, <1>11 DEF Next,
     WriterStep, Application, WorkerStep

\* For every capacity, set of sizes and number of chunks: queued-bytes_ is the sum
\* of the chunks in the queue and within the capacity until the queue is closed, an
\* activated stream is an entry of streaming-work whenever a worker could look, and
\* no entry of a retired request stays (byte_bounded_queue.clj; response_queue.clj,
\* track-work! and retire-work!).
THEOREM WorkIsAccounted == Spec => []WorkAccounted
<1>1. Init => AccountInv
  <2> SUFFICES ASSUME Init PROVE AccountInv
    OBVIOUS
  <2>1. CountInv
    BY BytesOfEmpty DEF Init, CountInv
  <2>2. TrackInv
    BY DEF Init, TrackInv
  <2> QED
    BY <2>1, <2>2, InitIInv DEF AccountInv
<1>2. AccountInv /\ [Next]_vars => AccountInv'
  <2> SUFFICES ASSUME AccountInv, [Next]_vars PROVE AccountInv'
    OBVIOUS
  <2>1. IInv /\ TypeOK /\ NativeInv /\ LifeInv /\ WriterInv
    BY DEF AccountInv, IInv, ControlInv
  <2>2. CountInv' /\ TrackInv'
    BY <2>1, CountStep, TrackStep DEF AccountInv
  <2>3. IInv'
    BY <2>1, StepIInv
  <2> QED
    BY <2>2, <2>3 DEF AccountInv
<1>3. AccountInv => WorkAccounted
  <2> SUFFICES ASSUME AccountInv PROVE WorkAccounted
    OBVIOUS
  <2>1. PendingIsTracked /\ RetiredIsUntracked
    BY DEF AccountInv, TrackInv, PendingIsTracked, RetiredIsUntracked
  <2>2. TypeOK /\ PermitsConserved /\ CountInv
    BY DEF AccountInv, IInv, ControlInv
  <2>3. chunk.bytes \in Nat /\ permits \in Nat /\ queuedBytes \in Int
    BY <2>2, ChunkBytes DEF TypeOK, DataTypeOK
  <2>4. ~queueClosed => queuedBytes <= Capacity
    BY <2>2, <2>3 DEF PermitsConserved, AcquiredBytes, ReleasedByClose
  <2> QED
    BY <2>1, <2>2, <2>4 DEF WorkAccounted, QueuedBytesExact, CountInv
<1> QED
  BY <1>1, <1>2, <1>3, PTL DEF Spec

-----------------------------------------------------------------------------
(* The refinement of the contract.                                         *)

\* The chunk in the writer's hands has been sealed and not yet queued.
Unqueued == PutPcs \ {"markFinal"}

\* Chunks are numbered as they are sealed; while the queue is open, and past the
\* second look at its flag, everything sealed before has been accepted.
SealedInv ==
  /\ writerPc \in Unqueued => chunk.id = sealed
  /\ (~queueClosed \/ writerPc \in {"count", "enqueue"}) =>
       Len(AcceptedChunks) = IF writerPc \in Unqueued THEN sealed - 1 ELSE sealed

\* The writer can still put a chunk: it has not put its final one.
Open ==
  \/ writerPc \in {"filling", "closeCas"} \cup Unqueued
  \/ writerPc \in SchedulePcs /\ ~chunk.final
  \/ writerPc = "idle" /\ ~closing

\* The final chunk is sealed under closing?_, and is the last one accepted.
FinalInv ==
  /\ (writerPc \in PutPcs \cup SchedulePcs /\ chunk.final) => closing
  /\ writerPc = "markFinal" => chunk.final
  /\ Open => \A i \in 1..Len(AcceptedChunks) : ~AcceptedChunks[i].final

RefInv == IInv /\ SealedInv /\ FinalInv

\* The batch until it is handed over: what AcceptedChunks has in the middle.
Carried == IF workerPc \in SentPcs THEN <<>> ELSE batch

\* The accepted chunks are a sequence of chunks with three parts.
LEMMA AcceptedParts ==
  ASSUME DataTypeOK
  PROVE  /\ AcceptedChunks = (sent \o Carried) \o queue
         /\ sent \in Seq(Chunk) /\ Carried \in Seq(Chunk) /\ queue \in Seq(Chunk)
         /\ sent \o Carried \in Seq(Chunk)
         /\ AcceptedChunks \in Seq(Chunk)
         /\ Len(sent) \in Nat /\ Len(AcceptedChunks) \in Nat
<1>1. sent \in Seq(Chunk) /\ Carried \in Seq(Chunk) /\ queue \in Seq(Chunk)
  BY DEF DataTypeOK, Carried
<1>2. sent \o Carried \in Seq(Chunk)
  BY <1>1, ConcatProperties
<1>3. AcceptedChunks = (sent \o Carried) \o queue
  BY DEF AcceptedChunks, Carried
<1>4. AcceptedChunks \in Seq(Chunk)
  BY <1>1, <1>2, <1>3, ConcatProperties
<1>5. Len(sent) \in Nat /\ Len(AcceptedChunks) \in Nat
  BY <1>1, <1>4, LenProperties
<1> QED
  BY <1>1, <1>2, <1>3, <1>4, <1>5

\* Polling the queue into the batch keeps the whole.
LEMMA PollKeepsWhole ==
  ASSUME sent \in Seq(Chunk), batch \in Seq(Chunk), queue \in Seq(Chunk), queue # <<>>
  PROVE  (sent \o Append(batch, Head(queue))) \o Tail(queue) = (sent \o batch) \o queue
<1>1. /\ Head(queue) \in Chunk /\ Tail(queue) \in Seq(Chunk)
      /\ Len(Tail(queue)) = Len(queue) - 1
      /\ \A i \in 1..Len(Tail(queue)) : Tail(queue)[i] = queue[i + 1]
  BY HeadTailProperties
<1>2. /\ <<Head(queue)>> \in Seq(Chunk)
      /\ Len(<<Head(queue)>>) = 1 /\ <<Head(queue)>>[1] = Head(queue)
  BY <1>1
<1>3. <<Head(queue)>> \o Tail(queue) = queue
  <2>1. /\ <<Head(queue)>> \o Tail(queue) \in Seq(Chunk)
        /\ Len(<<Head(queue)>> \o Tail(queue)) = 1 + Len(Tail(queue))
        /\ \A i \in 1..(1 + Len(Tail(queue))) : (<<Head(queue)>> \o Tail(queue))[i] =
              IF i <= 1 THEN <<Head(queue)>>[i] ELSE Tail(queue)[i - 1]
    BY <1>1, <1>2, ConcatProperties
  <2>2. Len(queue) \in Nat /\ queue[1] = Head(queue)
    BY LenProperties
  <2>3. \A i \in 1..Len(queue) : (<<Head(queue)>> \o Tail(queue))[i] = queue[i]
    <3> TAKE i \in 1..Len(queue)
    <3>1. CASE i = 1
      BY <3>1, <1>1, <1>2, <2>1, <2>2
    <3>2. CASE i # 1
      BY <3>2, <1>1, <2>1, <2>2
    <3> QED
      BY <3>1, <3>2
  <2> QED
    BY <1>1, <2>1, <2>2, <2>3, SeqEqual
<1>4. Append(batch, Head(queue)) = batch \o <<Head(queue)>>
  BY <1>1, AppendIsConcat
<1>5. sent \o (batch \o <<Head(queue)>>) = (sent \o batch) \o <<Head(queue)>>
  BY <1>2, ConcatAssociative
<1>6. sent \o batch \in Seq(Chunk)
  BY ConcatProperties
<1>7. ((sent \o batch) \o <<Head(queue)>>) \o Tail(queue)
        = (sent \o batch) \o (<<Head(queue)>> \o Tail(queue))
  BY <1>1, <1>2, <1>6, ConcatAssociative
<1> QED
  BY <1>3, <1>4, <1>5, <1>7

\* An enqueue accepts the writer's chunk.
LEMMA AcceptedGrows ==
  ASSUME TypeOK, WriterInv, Enqueue
  PROVE  AcceptedChunks' = Append(AcceptedChunks, chunk) /\ chunk \in Chunk
<1> USE DEF TypeOK
<1>1. /\ queue' = Append(queue, chunk) /\ sent' = sent /\ batch' = batch
      /\ workerPc' = workerPc /\ chunk \in Chunk
  BY DEF Enqueue, worker, h2o, WriterInv, WriterAt, PutPcs
<1>2. AcceptedChunks' = (sent \o Carried) \o Append(queue, chunk)
  BY <1>1 DEF AcceptedChunks, Carried
<1>3. /\ AcceptedChunks = (sent \o Carried) \o queue
      /\ sent \o Carried \in Seq(Chunk) /\ queue \in Seq(Chunk)
      /\ AcceptedChunks \in Seq(Chunk)
  BY AcceptedParts
<1>4. <<chunk>> \in Seq(Chunk)
  BY <1>1
<1>5. ((sent \o Carried) \o queue) \o <<chunk>>
        = (sent \o Carried) \o (queue \o <<chunk>>)
  BY ONLY <1>3, <1>4, ConcatAssociative
<1>6. Append(queue, chunk) = queue \o <<chunk>>
  BY <1>1, <1>3, AppendIsConcat
<1>7. Append(AcceptedChunks, chunk) = AcceptedChunks \o <<chunk>>
  BY <1>1, <1>3, AppendIsConcat
<1> QED
  BY ONLY <1>1, <1>2, <1>3, <1>5, <1>6, <1>7

\* No other step changes what was accepted.
LEMMA AcceptedKept ==
  ASSUME TypeOK, WriterInv, [Next]_vars
  PROVE  Enqueue \/ AcceptedChunks' = AcceptedChunks
<1> USE DEF TypeOK
<1>q. ASSUME UNCHANGED <<queue, batch, sent>>,
             workerPc' \in SentPcs <=> workerPc \in SentPcs
      PROVE  AcceptedChunks' = AcceptedChunks
  BY <1>q DEF AcceptedChunks
<1>w. ASSUME UNCHANGED <<queue, batch, sent, workerPc>>
      PROVE  AcceptedChunks' = AcceptedChunks
  BY <1>w DEF AcceptedChunks
<1>1. CASE PutCheck \/ Acquire \/ Recheck \/ Count \/ MarkFinal
  BY <1>1, <1>w DEF PutCheck, Acquire, Recheck, Count, MarkFinal, bbq, worker, h2o
<1>2. CASE Schedule \/ Activate \/ Signal \/ Track \/ TrackCheck \/ Untrack \/
           Post
  BY <1>2, <1>w DEF Schedule, Activate, Signal, Track, TrackCheck, Untrack, Post,
         bbq, worker, h2o
<1>3. CASE FailStop \/ FailIdle \/ FailUntrack \/ WriteEnd \/ WriteBegin \/
           CloseBegin \/ CloseStopped
  BY <1>3, <1>w DEF FailStop, FailIdle, FailUntrack, WriteEnd, WriteBegin,
         CloseBegin, CloseStopped, bbq, worker, h2o
<1>4. CASE HandleCommand \/ SendVecsEntry \/ DrainDone \/ HoldInFlight \/
           UnsignalAfterSend \/ EmptyDrain \/ RetireCas
  BY <1>4, <1>q DEF HandleCommand, SendVecsEntry, DrainDone, HoldInFlight,
         UnsignalAfterSend, EmptyDrain, RetireCas, WorkerAt, SentPcs, bbq, h2o
<1>5. CASE RetireUntrack \/ PendingDrain \/ PendingBytes \/ Retrack \/
           RetrackCheck
  BY <1>5, <1>q DEF RetireUntrack, PendingDrain, PendingBytes, Retrack,
         RetrackCheck, WorkerAt, SentPcs, bbq, h2o
<1>6. CASE ReleaseInFlight \/ OnProceed \/ StopFlag \/ StopUntrack \/
           CloseQueue \/ FreePermits
  BY <1>6, <1>q DEF ReleaseInFlight, OnProceed, StopFlag, StopUntrack, CloseQueue,
         FreePermits, WorkerAt, SentPcs, bbq, h2o
<1>7. CASE Proceed \/ Stop \/ Cleanup \/ WorkerExit \/ Finished
  BY <1>7, <1>q DEF Proceed, Stop, Cleanup, WorkerExit, Finished, WorkerAt, SentPcs,
         vars, bbq, worker, h2o
<1>8. ASSUME NEW b \in Sizes, SealChunk(b) PROVE AcceptedChunks' = AcceptedChunks
  BY <1>8, <1>w DEF SealChunk, bbq, worker, h2o
<1>9. ASSUME NEW b \in {0} \cup Sizes, CloseSeal(b)
      PROVE  AcceptedChunks' = AcceptedChunks
  BY <1>9, <1>w DEF CloseSeal, bbq, worker, h2o
<1>10. CASE UNCHANGED vars
  BY <1>10, <1>w DEF vars, bbq, worker, h2o
<1>11. CASE DrainOne
  <2>1. /\ queue \in Seq(Chunk) /\ queue # <<>> /\ batch \in Seq(Chunk)
        /\ sent \in Seq(Chunk)
    BY <1>11 DEF DrainOne, DataTypeOK
  <2>2. /\ queue' = Tail(queue) /\ batch' = Append(batch, Head(queue))
        /\ sent' = sent /\ workerPc = "drain" /\ workerPc' = "drain"
    BY <1>11 DEF DrainOne, h2o
  <2>3. AcceptedChunks = (sent \o batch) \o queue
    BY <2>2 DEF AcceptedChunks, SentPcs
  <2>4. AcceptedChunks' = (sent \o Append(batch, Head(queue))) \o Tail(queue)
    BY <2>2 DEF AcceptedChunks, SentPcs
  <2>5. (sent \o Append(batch, Head(queue))) \o Tail(queue) = (sent \o batch) \o queue
    BY ONLY <2>1, PollKeepsWhole
  <2> QED
    BY ONLY <2>3, <2>4, <2>5
<1>12. CASE SendVec
  <2>1. queue \in Seq(Chunk) /\ batch \in Seq(Chunk) /\ sent \in Seq(Chunk)
    BY DEF DataTypeOK
  <2>2. /\ queue' = queue /\ batch' = batch /\ sent' = sent \o batch
        /\ workerPc = "send" /\ workerPc' = "hold"
    BY <1>12 DEF SendVec, WorkerAt, bbq
  <2>3. AcceptedChunks = (sent \o batch) \o queue
    BY <2>2 DEF AcceptedChunks, SentPcs
  <2>4. AcceptedChunks' = ((sent \o batch) \o <<>>) \o queue
    BY <2>2 DEF AcceptedChunks, SentPcs
  <2>5. sent \o batch \in Seq(Chunk)
    BY <2>1, ConcatProperties
  <2>6. (sent \o batch) \o <<>> = sent \o batch
    BY <2>5, ConcatEmptySeq
  <2> QED
    BY <2>3, <2>4, <2>6
<1>13. CASE FinishSend
  <2>1. /\ queue' = queue /\ sent' = sent /\ batch' = <<>>
        /\ workerPc = "finish" /\ workerPc' = "idle"
    BY <1>13 DEF FinishSend, WorkerAt, bbq, h2o
  <2> QED
    BY <2>1 DEF AcceptedChunks, SentPcs
<1> QED
  BY <1>1, <1>2, <1>3, <1>4, <1>5, <1>6, <1>7, <1>8, <1>9, <1>10, <1>11, <1>12,
     <1>13 DEF Next, WriterStep, Application, WorkerStep

\* The writer's chunk is the last of the accepted ones after its enqueue.
LEMMA AcceptedAfterEnqueue ==
  ASSUME TypeOK, WriterInv, Enqueue
  PROVE  /\ Len(AcceptedChunks') = Len(AcceptedChunks) + 1
         /\ \A i \in 1..Len(AcceptedChunks') :
               AcceptedChunks'[i] =
                 IF i <= Len(AcceptedChunks) THEN AcceptedChunks[i] ELSE chunk
<1>1. AcceptedChunks' = Append(AcceptedChunks, chunk) /\ chunk \in Chunk
  BY AcceptedGrows
<1>2. AcceptedChunks \in Seq(Chunk)
  BY AcceptedParts DEF TypeOK
<1> QED
  BY ONLY <1>1, <1>2, AppendProperties

\* Every step keeps the numbering of the accepted chunks.
LEMMA SealedStep ==
  ASSUME TypeOK, WriterInv, SealedInv, [Next]_vars
  PROVE  SealedInv'
<1> USE DEF SealedInv, Unqueued, PutPcs
<1>c. sealed \in Nat /\ Len(AcceptedChunks) \in Nat
  BY AcceptedParts DEF TypeOK, DataTypeOK
<1>q. ASSUME AcceptedChunks' = AcceptedChunks, UNCHANGED writer,
             queueClosed => queueClosed'
      PROVE  SealedInv'
  BY <1>q DEF writer
<1>1. CASE Enqueue
  BY <1>1, <1>c, AcceptedAfterEnqueue DEF Enqueue, WriterAt, bbq
<1>2. ASSUME AcceptedChunks' = AcceptedChunks
      PROVE  SealedInv'
  <2> USE <1>2, <1>c
  <2>1. CASE PutCheck \/ Acquire \/ Recheck \/ Count \/ MarkFinal
    BY <2>1 DEF PutCheck, Acquire, Recheck, Count, MarkFinal, WriterAt,
           WriterThrows, bbq
  <2>2. CASE Schedule \/ Activate \/ Signal \/ Track \/ TrackCheck \/ Untrack \/
             Post
    BY <2>2 DEF Schedule, Activate, Signal, Track, TrackCheck, Untrack, Post,
           WriterAt, Scheduled, bbq
  <2>3. CASE FailStop \/ FailIdle \/ FailUntrack \/ WriteEnd \/ WriteBegin \/
             CloseBegin \/ CloseStopped
    BY <2>3 DEF FailStop, FailIdle, FailUntrack, WriteEnd, WriteBegin,
           CloseBegin, CloseStopped, WriterAt, WriterThrows, bbq, writer
  <2>4. ASSUME NEW b \in Sizes, SealChunk(b) PROVE SealedInv'
    BY <2>4 DEF SealChunk, WriterAt, bbq
  <2>5. ASSUME NEW b \in {0} \cup Sizes, CloseSeal(b) PROVE SealedInv'
    BY <2>5 DEF CloseSeal, WriterAt, bbq
  <2>6. CASE WorkerStep
    BY <2>6, <1>q DEF WorkerStep, HandleCommand, SendVecsEntry, DrainOne, DrainDone,
           SendVec, HoldInFlight, UnsignalAfterSend, FinishSend, EmptyDrain,
           RetireCas, RetireUntrack, PendingDrain, PendingBytes, Retrack,
           RetrackCheck, ReleaseInFlight, OnProceed, StopFlag, StopUntrack,
           CloseQueue, FreePermits, bbq
  <2>7. CASE Proceed \/ Stop \/ Cleanup \/ WorkerExit \/ Finished \/ UNCHANGED vars
    BY <2>7, <1>q DEF Proceed, Stop, Cleanup, WorkerExit, Finished, vars, bbq
  <2> QED
    BY <2>1, <2>2, <2>3, <2>4, <2>5, <2>6, <2>7, <1>1 DEF Next, WriterStep, Application
<1> QED
  BY <1>1, <1>2, AcceptedKept

\* Every step keeps the final chunk the last one.
LEMMA FinalStep ==
  ASSUME TypeOK, WriterInv, FinalInv, [Next]_vars
  PROVE  FinalInv'
<1> USE DEF FinalInv
<1>q. ASSUME AcceptedChunks' = AcceptedChunks, UNCHANGED <<writer, closing>>
      PROVE  FinalInv'
  BY <1>q DEF writer, Open
<1>o. ASSUME AcceptedChunks' = AcceptedChunks, Open' => Open
      PROVE  Open' => \A i \in 1..Len(AcceptedChunks') : ~AcceptedChunks'[i].final
  BY <1>o
<1> DEFINE Heads == /\ (writerPc \in PutPcs \cup SchedulePcs /\ chunk.final) => closing
                    /\ writerPc = "markFinal" => chunk.final
<1>1. CASE Enqueue
  <2>1. Heads'
    BY <1>1 DEF Enqueue, WriterAt, marks, PutPcs, SchedulePcs
  <2>2. ASSUME Open' PROVE ~chunk.final /\ Open
    BY <1>1, <2>2 DEF Enqueue, WriterAt, marks, Open, Unqueued, PutPcs, SchedulePcs,
           PostPcs, FailPcs
  <2>3. Open' => \A i \in 1..Len(AcceptedChunks') : ~AcceptedChunks'[i].final
    <3> SUFFICES ASSUME Open', NEW i \in 1..Len(AcceptedChunks')
                 PROVE  ~AcceptedChunks'[i].final
      OBVIOUS
    <3>1. Len(AcceptedChunks) \in Nat
      BY AcceptedParts DEF TypeOK
    <3>2. /\ ~chunk.final
          /\ \A j \in 1..Len(AcceptedChunks) : ~AcceptedChunks[j].final
      BY <2>2
    <3>3. i \in 1..Len(AcceptedChunks) \/ i > Len(AcceptedChunks)
      BY <3>1
    <3>4. AcceptedChunks'[i] =
            IF i <= Len(AcceptedChunks) THEN AcceptedChunks[i] ELSE chunk
      BY <1>1, AcceptedAfterEnqueue
    <3> QED
      BY ONLY <3>1, <3>2, <3>3, <3>4
  <2> QED
    BY <2>1, <2>3
<1>2. ASSUME AcceptedChunks' = AcceptedChunks
      PROVE  FinalInv'
  <2> USE DEF Open, Unqueued, PutPcs, SchedulePcs, PostPcs, FailPcs
  <2>1. CASE PutCheck \/ Acquire \/ Recheck \/ Count \/ MarkFinal
    <3>1. Heads' /\ (Open' => Open)
      BY <2>1 DEF PutCheck, Acquire, Recheck, Count, MarkFinal, WriterAt,
             WriterThrows, marks
    <3> QED
      BY <3>1, <1>2, <1>o
  <2>2. CASE Schedule \/ Activate \/ Signal \/ Track \/ TrackCheck \/ Untrack \/
             Post
    <3>1. Heads' /\ (Open' => Open)
      BY <2>2 DEF Schedule, Activate, Signal, Track, TrackCheck, Untrack, Post,
             WriterAt, Scheduled, marks
    <3> QED
      BY <3>1, <1>2, <1>o
  <2>3. CASE FailStop \/ FailIdle \/ FailUntrack \/ WriteEnd \/ WriteBegin \/
             CloseBegin \/ CloseStopped
    <3>1. Heads' /\ (Open' => Open)
      BY <2>3 DEF FailStop, FailIdle, FailUntrack, WriteEnd, WriteBegin,
             CloseBegin, CloseStopped, WriterAt, WriterThrows, marks, writer
    <3> QED
      BY <3>1, <1>2, <1>o
  <2>4. ASSUME NEW b \in Sizes, SealChunk(b) PROVE FinalInv'
    <3>1. Heads' /\ (Open' => Open)
      BY <2>4 DEF SealChunk, WriterAt, marks
    <3> QED
      BY <3>1, <1>2, <1>o
  <2>5. ASSUME NEW b \in {0} \cup Sizes, CloseSeal(b) PROVE FinalInv'
    <3>1. Heads' /\ (Open' => Open)
      BY <2>5 DEF CloseSeal, WriterAt
    <3> QED
      BY <3>1, <1>2, <1>o
  <2>6. CASE WorkerStep
    <3>1. UNCHANGED <<writer, closing>>
      BY <2>6 DEF WorkerStep, HandleCommand, SendVecsEntry, DrainOne, DrainDone,
             SendVec, HoldInFlight, UnsignalAfterSend, FinishSend, EmptyDrain,
             RetireCas, RetireUntrack, PendingDrain, PendingBytes, Retrack,
             RetrackCheck, ReleaseInFlight, OnProceed, StopFlag, StopUntrack,
             CloseQueue, FreePermits, marks
    <3> QED
      BY <3>1, <1>2, <1>q
  <2>7. CASE Proceed \/ Stop \/ Cleanup \/ WorkerExit \/ Finished \/ UNCHANGED vars
    BY <2>7, <1>2, <1>q DEF Proceed, Stop, Cleanup, WorkerExit, Finished, vars, marks
  <2> QED
    BY <2>1, <2>2, <2>3, <2>4, <2>5, <2>6, <2>7, <1>1 DEF Next, WriterStep, Application
<1> QED
  BY <1>1, <1>2, AcceptedKept

\* The initial state of the stream is one of the contract.
LEMMA InitRef == Init => RefInv /\ Contract!Init
<1> SUFFICES ASSUME Init PROVE RefInv /\ Contract!Init
  OBVIOUS
<1>1. AcceptedChunks = <<>>
  BY DEF Init, AcceptedChunks, SentPcs
<1>2. SealedInv /\ FinalInv
  BY <1>1 DEF Init, SealedInv, FinalInv, Unqueued, PutPcs, SchedulePcs, PostPcs, FailPcs
<1>3. Contract!Init
  BY <1>1 DEF Init, Contract!Init
<1> QED
  BY <1>2, <1>3, InitIInv DEF RefInv

\* The strengthened invariant is inductive.
LEMMA StepRef == RefInv /\ [Next]_vars => RefInv'
<1> SUFFICES ASSUME RefInv, [Next]_vars PROVE RefInv'
  OBVIOUS
<1>1. IInv /\ TypeOK /\ WriterInv
  BY DEF RefInv, IInv, ControlInv
<1>2. IInv'
  BY <1>1, StepIInv
<1>3. SealedInv' /\ FinalInv'
  BY <1>1, SealedStep, FinalStep DEF RefInv
<1> QED
  BY <1>2, <1>3 DEF RefInv

\* An enqueue is the contract's Accept of the next chunk.
LEMMA EnqueueAccepts == ASSUME RefInv, Enqueue PROVE Contract!Accept
<1>1. TypeOK /\ WriterInv /\ SealedInv /\ FinalInv
  BY DEF RefInv, IInv, ControlInv
<1>2. writerPc = "enqueue" /\ native' = native /\ sent' = sent
  BY DEF Enqueue, WriterAt, h2o
<1>3. chunk \in Chunk /\ AcceptedChunks' = Append(AcceptedChunks, chunk)
  BY <1>1, AcceptedGrows
<1>4. /\ Len(AcceptedChunks) \in Nat /\ sealed \in Nat
      /\ DOMAIN AcceptedChunks = 1..Len(AcceptedChunks)
  BY <1>1, AcceptedParts, LenProperties DEF TypeOK, DataTypeOK
<1>5. chunk.id = sealed /\ Len(AcceptedChunks) = sealed - 1
  BY <1>1, <1>2 DEF SealedInv, Unqueued, PutPcs
<1>6. chunk.id = Len(AcceptedChunks) + 1
  BY ONLY <1>4, <1>5
<1>7. \A i \in DOMAIN AcceptedChunks : ~AcceptedChunks[i].final
  BY <1>1, <1>2, <1>4 DEF FinalInv, Open, Unqueued, PutPcs
<1> QED
  BY <1>2, <1>3, <1>6, <1>7 DEF Contract!Accept

\* A native send is the contract's Deliver of the whole batch.
LEMMA SendDelivers == ASSUME RefInv, SendVec PROVE Contract!Deliver
<1>1. /\ TypeOK /\ WriterInv /\ NativeInv
      /\ sent \in Seq(Chunk) /\ batch \in Seq(Chunk) /\ queue \in Seq(Chunk)
  BY DEF RefInv, IInv, ControlInv, TypeOK, DataTypeOK
<1>2. /\ workerPc = "send" /\ sent' = sent \o batch
      /\ native' = IF batch[Len(batch)].final THEN "final" ELSE "sending"
  BY DEF SendVec, WorkerAt
<1>3. native = "ready" /\ batch # <<>>
  BY <1>1, <1>2 DEF NativeInv
<1>4. AcceptedChunks' = AcceptedChunks
  BY <1>1, AcceptedKept, <1>2 DEF SendVec, Next, WorkerStep, Enqueue, WorkerAt, bbq
<1>5. AcceptedChunks = (sent \o batch) \o queue
  BY <1>2 DEF AcceptedChunks, SentPcs
<1>6. Len(sent) \in Nat /\ Len(batch) \in Nat /\ Len(queue) \in Nat
  BY <1>1, LenProperties
<1>7. /\ sent \o batch \in Seq(Chunk)
      /\ Len(sent \o batch) = Len(sent) + Len(batch)
      /\ \A i \in 1..Len(sent) + Len(batch) : (sent \o batch)[i] =
            IF i <= Len(sent) THEN sent[i] ELSE batch[i - Len(sent)]
  BY ONLY <1>1, ConcatProperties
<1>8. /\ Len(AcceptedChunks) = Len(sent) + Len(batch) + Len(queue)
      /\ \A i \in 1..Len(sent \o batch) + Len(queue) : AcceptedChunks[i] =
            IF i <= Len(sent \o batch) THEN (sent \o batch)[i]
                                       ELSE queue[i - Len(sent \o batch)]
  BY ONLY <1>1, <1>5, <1>7, ConcatProperties
<1> DEFINE d == Len(sent) + Len(batch)
<1>9. Len(batch) > 0
  BY <1>1, <1>3, <1>6
<1>10. d \in (Len(sent) + 1)..Len(AcceptedChunks) /\ Len(sent') = d
  BY <1>2, <1>6, <1>7, <1>8, <1>9
<1>11. AcceptedChunks[d] = batch[Len(batch)]
  BY ONLY <1>6, <1>7, <1>8, <1>9
<1> HIDE DEF d
<1> QED
  BY <1>2, <1>3, <1>4, <1>10, <1>11 DEF Contract!Deliver

\* Every step of the stream is a step of the contract, or changes nothing of it.
LEMMA StepContract == RefInv /\ [Next]_vars => [Contract!Next]_(Contract!vars)
<1> SUFFICES ASSUME RefInv, [Next]_vars PROVE [Contract!Next]_(Contract!vars)
  OBVIOUS
<1>1. TypeOK /\ WriterInv /\ NativeInv
  BY DEF RefInv, IInv, ControlInv
<1>s. ASSUME AcceptedChunks' = AcceptedChunks, UNCHANGED <<sent, native>>
      PROVE  UNCHANGED Contract!vars
  BY <1>s DEF Contract!vars
<1>2. CASE Enqueue
  BY <1>2, EnqueueAccepts DEF Contract!Next
<1>3. CASE SendVec
  BY <1>3, SendDelivers DEF Contract!Next
<1>4. ASSUME AcceptedChunks' = AcceptedChunks, ~SendVec
      PROVE  [Contract!Next]_(Contract!vars)
  <2>1. CASE Proceed
    <3>1. /\ native = "sending" /\ native' = "ready" /\ sent' = sent
      BY <2>1 DEF Proceed
    <3> QED
      BY <3>1, <1>4 DEF Contract!Next, Contract!Acknowledge
  <2>2. CASE Stop \/ Cleanup
    <3>1. native' = "gone" /\ sent' = sent
      BY <2>2 DEF Stop, Cleanup
    <3>2. CASE native = "gone"
      BY <3>1, <3>2, <1>4, <1>s
    <3>3. CASE native # "gone"
      BY <3>1, <3>3, <1>4 DEF Contract!Next, Contract!Reset
    <3> QED
      BY <3>2, <3>3
  <2>3. CASE WriterStep \/ Application
    <3>1. UNCHANGED h2o
      BY <2>3 DEF WriterStep, Application, PutCheck, Acquire, Recheck, Count, Enqueue,
             MarkFinal, Schedule, Activate, Signal, Track, TrackCheck, Untrack, Post,
             FailStop, FailIdle, FailUntrack, WriteEnd, WriteBegin, CloseBegin,
             CloseStopped, SealChunk, CloseSeal
    <3> QED
      BY <3>1, <1>4, <1>s DEF h2o
  <2>4. CASE WorkerStep
    <3>1. UNCHANGED h2o
      BY <2>4, <1>4 DEF WorkerStep, HandleCommand, SendVecsEntry, DrainOne, DrainDone,
             HoldInFlight, UnsignalAfterSend, FinishSend, EmptyDrain,
             RetireCas, RetireUntrack, PendingDrain, PendingBytes, Retrack,
             RetrackCheck, ReleaseInFlight, OnProceed, StopFlag, StopUntrack,
             CloseQueue, FreePermits
    <3> QED
      BY <3>1, <1>4, <1>s DEF h2o
  <2>5. CASE WorkerExit \/ Finished \/ UNCHANGED vars
    <3>1. UNCHANGED h2o
      BY <2>5 DEF WorkerExit, Finished, vars
    <3> QED
      BY <3>1, <1>4, <1>s DEF h2o
  <2> QED
    BY <2>1, <2>2, <2>3, <2>4, <2>5 DEF Next
<1> QED
  BY <1>1, <1>2, <1>3, <1>4, AcceptedKept

\* For every capacity, set of sizes and number of chunks: what h2o is handed is
\* what the application wrote, in order, each chunk once and without a gap, a
\* hand-over waits for the one before, nothing follows the final chunk, and a
\* reset ends it (response_queue.clj, byte_bounded_queue.clj).
THEOREM StreamRefinesContract == Spec => ImplementsContract
<1>1. Init => RefInv /\ Contract!Init
  BY InitRef
<1>2. RefInv /\ [Next]_vars => RefInv'
  BY StepRef
<1>3. RefInv /\ [Next]_vars => [Contract!Next]_(Contract!vars)
  BY StepContract
<1> QED
  BY <1>1, <1>2, <1>3, PTL DEF Spec, ImplementsContract, Contract!Spec
=============================================================================
