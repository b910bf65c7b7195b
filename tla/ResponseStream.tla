--------------------------- MODULE ResponseStream ---------------------------
(***************************************************************************)
(* The streaming response path of one request: the byte-bounded queue      *)
(* between the application's writer thread and the event-loop worker, the  *)
(* three-state drain marker that admits one mailbox command or native send *)
(* at a time, and h2o's generator as the worker sees it.                   *)
(*                                                                         *)
(* Sources: byte_bounded_queue.clj, response_queue.clj, and the callers in *)
(* callback_dispatch.clj and generation.clj that reach them.  Every access *)
(* to a variable both threads touch is a step of its own.  The buffers     *)
(* chunks are aggregated in, and their pool, are left out: a chunk is its  *)
(* serial number, its size and its final flag.                             *)
(***************************************************************************)
EXTENDS Integers, Sequences

CONSTANTS Capacity,   \* output-buffer-size: the queue's capacity in bytes
          Sizes,      \* sizes a sealed, non-empty chunk may have
          MaxChunks   \* bound on the chunks the application seals

ASSUME CapacityAssumption == Capacity \in Nat \ {0}
ASSUME SizesAssumption    == Sizes \subseteq 1..Capacity
ASSUME MaxChunksAssumption == MaxChunks \in Nat

Idle == 0        \* drain-idle: no command or send is active
Active == 1      \* drain-active: a command, send-vecs call or native send is
Signalled == 2   \* drain-signalled: active, and a producer enqueued since

Chunk == [id : 1..MaxChunks, bytes : {0} \cup Sizes, final : BOOLEAN]
NoChunk == [id |-> 0, bytes |-> 0, final |-> FALSE]

VARIABLES
  \* ByteBoundedLinkedTransferQueue
  queue,          \* q: the chunks put and not yet polled
  permits,        \* permits: the semaphore's free bytes
  queuedBytes,    \* queued-bytes_
  queueClosed,    \* closed?_
  \* H2OResponseWriter
  drainState,     \* drain-state_
  inFlight,       \* in-flight_ holds the chunks of the last sendvec
  closing,        \* closing?_
  stopped,        \* stopped?_
  finalEnqueued,  \* final-enqueued?_
  tracked,        \* the writer is a key of the dispatch's streaming-work map
  \* the two threads
  writerPc, chunk, sealed,
  workerPc, batch,
  \* the worker around the stream
  commands,       \* :h2o/sendvec messages in the worker's mailbox
  live,           \* the request's callback-dispatch entry is registered
  accepting,      \* the worker admits messages
  \* h2o
  native,         \* the generator: ready, sending, final (sent) or gone
  sent            \* chunks handed to h2o_sendvec, in order

bbq == <<queue, permits, queuedBytes, queueClosed>>
marks == <<inFlight, closing, stopped, finalEnqueued>>
writer == <<writerPc, chunk, sealed>>
worker == <<workerPc, batch>>
outside == <<commands, live, accepting>>
h2o == <<native, sent>>
vars == <<bbq, marks, drainState, tracked, writer, worker, outside, h2o>>

\* Where the writer is: in write, in put, in schedule-drain!, or leaving.
WritePcs == {"idle", "filling", "closeCas"}
PutPcs == {"putCheck", "acquire", "recheck", "count", "enqueue", "markFinal"}
PostPcs == {"track", "trackCheck", "untrack", "post"}
FailPcs == {"failStop", "failIdle", "failUntrack"}
SchedulePcs == {"schedule", "casActive", "casSignal"} \cup PostPcs \cup FailPcs
WriterPcs == WritePcs \cup PutPcs \cup SchedulePcs

\* Where the worker is: in send-vecs up to and after the native call, in
\* retire-work!, in on-proceed, in on-stop, or between callbacks.
SendPcs == {"entry", "drain", "send", "empty", "retireCas"}
SentPcs == {"hold", "unsignal", "finish"}
RetirePcs == {"retire", "pendingDrain", "pendingBytes", "retrack", "retrackCheck"}
ProceedPcs == {"release", "proceeded"}
StopPcs == {"stopFlag", "stopUntrack", "closeQueue", "freePermits"}
WorkerPcs == {"idle"} \cup SendPcs \cup SentPcs \cup RetirePcs \cup ProceedPcs
                      \cup StopPcs

FlagsTypeOK ==
  /\ {queueClosed, inFlight, closing, stopped, finalEnqueued, tracked, live, accepting}
       \subseteq BOOLEAN
  /\ drainState \in {Idle, Active, Signalled}
  /\ native \in {"ready", "sending", "final", "gone"}
  /\ writerPc \in WriterPcs
  /\ workerPc \in WorkerPcs

DataTypeOK ==
  /\ {queue, batch, sent} \subseteq Seq(Chunk)
  /\ chunk \in Chunk \cup {NoChunk}
  /\ sealed \in 0..MaxChunks
  /\ permits \in Nat
  /\ queuedBytes \in Int
  /\ commands \in Nat

TypeOK == FlagsTypeOK /\ DataTypeOK

Init ==
  /\ queue = <<>> /\ permits = Capacity /\ queuedBytes = 0 /\ queueClosed = FALSE
  /\ drainState = Idle /\ tracked = FALSE
  /\ inFlight = FALSE /\ closing = FALSE /\ stopped = FALSE /\ finalEnqueued = FALSE
  /\ writerPc = "idle" /\ chunk = NoChunk /\ sealed = 0
  /\ workerPc = "idle" /\ batch = <<>>
  /\ commands = 0 /\ live = TRUE /\ accepting = TRUE
  /\ native = "ready" /\ sent = <<>>

-----------------------------------------------------------------------------
(* The writer: write, flush and close of the output stream.                *)

WriterAt(from, to) == writerPc = from /\ writerPc' = to

\* A thrown exception leaves the stream call; the application may call again.
WriterThrows == writerPc' = "idle"

\* write and flush test the two flags once, on entry; a closed stream throws.
WriteBegin ==
  /\ WriterAt("idle", "filling")
  /\ ~stopped /\ ~closing
  /\ UNCHANGED <<bbq, drainState, marks, tracked, chunk, sealed, worker, outside, h2o>>

\* The aggregation buffer filled up, or flush found bytes in it: seal a chunk.
SealChunk(bytes) ==
  /\ WriterAt("filling", "putCheck")
  /\ sealed < MaxChunks
  /\ sealed' = sealed + 1
  /\ chunk' = [id |-> sealed', bytes |-> bytes, final |-> FALSE]
  /\ UNCHANGED <<bbq, drainState, marks, tracked, worker, outside, h2o>>

WriteEnd ==
  /\ WriterAt("filling", "idle")
  /\ UNCHANGED <<bbq, drainState, marks, tracked, chunk, sealed, worker, outside, h2o>>

\* close of a stopped stream only marks it closing.
CloseStopped ==
  /\ writerPc = "idle" /\ stopped /\ ~closing
  /\ closing' = TRUE
  /\ UNCHANGED <<bbq, drainState, inFlight, stopped, finalEnqueued, tracked,
                 writer, worker, outside, h2o>>

\* close read stopped?_ as false; the compare-and-set of closing?_ follows.
CloseBegin ==
  /\ WriterAt("idle", "closeCas")
  /\ ~stopped /\ ~closing /\ sealed < MaxChunks
  /\ UNCHANGED <<bbq, drainState, marks, tracked, chunk, sealed, worker, outside, h2o>>

\* The last chunk carries the rest of the aggregation buffer, or nothing.
CloseSeal(bytes) ==
  /\ WriterAt("closeCas", "putCheck")
  /\ closing' = TRUE
  /\ sealed' = sealed + 1
  /\ chunk' = [id |-> sealed', bytes |-> bytes, final |-> TRUE]
  /\ UNCHANGED <<bbq, drainState, inFlight, stopped, finalEnqueued, tracked,
                 worker, outside, h2o>>

-----------------------------------------------------------------------------
(* put of the byte-bounded queue.                                          *)

PutCheck ==
  /\ writerPc = "putCheck"
  /\ IF queueClosed THEN WriterThrows
     ELSE writerPc' = IF chunk.bytes > 0 THEN "acquire" ELSE "recheck"
  /\ UNCHANGED <<bbq, drainState, marks, tracked, chunk, sealed, worker, outside, h2o>>

\* Mutant: the semaphore is reduced without waiting for the permits.
AcquireUnchecked ==
  /\ WriterAt("acquire", "recheck")
  /\ permits' = permits - chunk.bytes
  /\ UNCHANGED <<queue, queuedBytes, queueClosed, drainState, marks, tracked,
                 chunk, sealed, worker, outside, h2o>>

\* Blocks while the semaphore holds fewer permits than the chunk has bytes.
Acquire ==
  /\ WriterAt("acquire", "recheck")
  /\ permits >= chunk.bytes
  /\ permits' = permits - chunk.bytes
  /\ UNCHANGED <<queue, queuedBytes, queueClosed, drainState, marks, tracked,
                 chunk, sealed, worker, outside, h2o>>

\* Mutant: a put refused after its acquire keeps the permits.
RecheckKeepsPermits ==
  /\ WriterAt("recheck", IF queueClosed THEN "idle" ELSE "count")
  /\ UNCHANGED <<bbq, drainState, marks, tracked, chunk, sealed, worker, outside, h2o>>

\* The second look at closed?_; the catch clause gives the permits back.
Recheck ==
  /\ writerPc = "recheck"
  /\ IF queueClosed
     THEN permits' = permits + chunk.bytes /\ WriterThrows
     ELSE UNCHANGED permits /\ writerPc' = "count"
  /\ UNCHANGED <<queue, queuedBytes, queueClosed, drainState, marks, tracked,
                 chunk, sealed, worker, outside, h2o>>

Count ==
  /\ WriterAt("count", "enqueue")
  /\ queuedBytes' = queuedBytes + chunk.bytes
  /\ UNCHANGED <<queue, permits, queueClosed, drainState, marks, tracked,
                 chunk, sealed, worker, outside, h2o>>

Enqueue ==
  /\ WriterAt("enqueue", IF chunk.final THEN "markFinal" ELSE "schedule")
  /\ queue' = Append(queue, chunk)
  /\ UNCHANGED <<permits, queuedBytes, queueClosed, drainState, marks, tracked,
                 chunk, sealed, worker, outside, h2o>>

MarkFinal ==
  /\ WriterAt("markFinal", "schedule")
  /\ finalEnqueued' = TRUE
  /\ UNCHANGED <<bbq, drainState, inFlight, closing, stopped, tracked,
                 chunk, sealed, worker, outside, h2o>>

-----------------------------------------------------------------------------
(* schedule-drain!: activate an idle drain and post one command, or leave  *)
(* a signal for the drain that is active.                                  *)

\* After the last chunk close returns; in the middle of a write it goes on.
Scheduled == writerPc' = IF chunk.final THEN "idle" ELSE "filling"

Schedule ==
  /\ writerPc = "schedule"
  /\ \/ drainState = Idle /\ writerPc' = "casActive"
     \/ drainState = Active /\ writerPc' = "casSignal"
     \/ drainState = Signalled /\ Scheduled
  /\ UNCHANGED <<bbq, drainState, marks, tracked, chunk, sealed, worker, outside, h2o>>

Activate ==
  /\ WriterAt("casActive", "track")
  /\ drainState = Idle
  /\ drainState' = Active
  /\ UNCHANGED <<bbq, marks, tracked, chunk, sealed, worker, outside, h2o>>

\* A failed compare-and-set reads the marker again.
Signal ==
  /\ writerPc = "casSignal"
  /\ IF drainState = Active
     THEN drainState' = Signalled /\ Scheduled
     ELSE UNCHANGED drainState /\ writerPc' = "schedule"
  /\ UNCHANGED <<bbq, marks, tracked, chunk, sealed, worker, outside, h2o>>

\* track-work! publishes the writer and undoes it when a stop came first.
Track ==
  /\ WriterAt("track", "trackCheck")
  /\ tracked' = TRUE
  /\ UNCHANGED <<bbq, drainState, marks, chunk, sealed, worker, outside, h2o>>

TrackCheck ==
  /\ WriterAt("trackCheck", IF stopped THEN "untrack" ELSE "post")
  /\ UNCHANGED <<bbq, drainState, marks, tracked, chunk, sealed, worker, outside, h2o>>

Untrack ==
  /\ WriterAt("untrack", "post")
  /\ tracked' = FALSE
  /\ UNCHANGED <<bbq, drainState, marks, chunk, sealed, worker, outside, h2o>>

\* send-required-msg accepts, or reports a worker that is no longer accepting.
Post ==
  /\ writerPc = "post"
  /\ IF accepting
     THEN commands' = commands + 1 /\ Scheduled
     ELSE UNCHANGED commands /\ writerPc' = "failStop"
  /\ UNCHANGED <<bbq, drainState, marks, tracked, chunk, sealed, worker,
                 live, accepting, h2o>>

FailStop ==
  /\ WriterAt("failStop", "failIdle")
  /\ stopped' = TRUE
  /\ UNCHANGED <<bbq, drainState, inFlight, closing, finalEnqueued, tracked,
                 chunk, sealed, worker, outside, h2o>>

FailIdle ==
  /\ WriterAt("failIdle", "failUntrack")
  /\ drainState' = Idle
  /\ UNCHANGED <<bbq, marks, tracked, chunk, sealed, worker, outside, h2o>>

FailUntrack ==
  /\ writerPc = "failUntrack" /\ WriterThrows
  /\ tracked' = FALSE
  /\ UNCHANGED <<bbq, drainState, marks, chunk, sealed, worker, outside, h2o>>

-----------------------------------------------------------------------------
(* The worker: the mailbox command and send-vecs.                          *)

WorkerAt(from, to) == workerPc = from /\ workerPc' = to

\* with-live-request drops the command of a request that is gone.
HandleCommand ==
  /\ WorkerAt("idle", IF live THEN "entry" ELSE "idle")
  /\ commands > 0
  /\ commands' = commands - 1
  /\ UNCHANGED <<bbq, drainState, marks, tracked, writer, batch, live, accepting, h2o>>

SendVecsEntry ==
  /\ WorkerAt("entry", IF stopped \/ inFlight THEN "idle" ELSE "drain")
  /\ UNCHANGED <<bbq, drainState, marks, tracked, writer, batch, outside, h2o>>

\* Mutant: the batch is built in reverse, as a list conj would.
DrainOneReversed ==
  /\ workerPc = "drain" /\ queue # <<>>
  /\ queue' = Tail(queue)
  /\ batch' = <<Head(queue)>> \o batch
  /\ queuedBytes' = queuedBytes - Head(queue).bytes
  /\ permits' = permits + Head(queue).bytes
  /\ UNCHANGED <<queueClosed, drainState, marks, tracked, writer, workerPc, outside, h2o>>

\* drain polls until the queue is empty, a permit release for every chunk:
\* what the writer puts meanwhile joins the same batch.
DrainOne ==
  /\ workerPc = "drain" /\ queue # <<>>
  /\ queue' = Tail(queue)
  /\ batch' = Append(batch, Head(queue))
  /\ queuedBytes' = queuedBytes - Head(queue).bytes
  /\ permits' = permits + Head(queue).bytes
  /\ UNCHANGED <<queueClosed, drainState, marks, tracked, writer, workerPc, outside, h2o>>

DrainDone ==
  /\ WorkerAt("drain", IF batch # <<>> THEN "send" ELSE "empty")
  /\ queue = <<>>
  /\ UNCHANGED <<bbq, drainState, marks, tracked, writer, batch, outside, h2o>>

\* h2o_sendvec with the final flag of the last chunk of the batch.
SendVec ==
  /\ WorkerAt("send", "hold")
  /\ sent' = sent \o batch
  /\ native' = IF batch[Len(batch)].final THEN "final" ELSE "sending"
  /\ UNCHANGED <<bbq, drainState, marks, tracked, writer, batch, outside>>

HoldInFlight ==
  /\ WorkerAt("hold", "unsignal")
  /\ inFlight' = TRUE
  /\ UNCHANGED <<bbq, drainState, closing, stopped, finalEnqueued, tracked,
                 writer, batch, outside, h2o>>

ConsumeSignal == drainState' = IF drainState = Signalled THEN Active ELSE drainState

\* Mutant: the marker returns to idle as soon as the send is posted.
IdleAfterSend ==
  /\ WorkerAt("unsignal", "finish")
  /\ drainState' = Idle
  /\ UNCHANGED <<bbq, marks, tracked, writer, batch, outside, h2o>>

UnsignalAfterSend ==
  /\ WorkerAt("unsignal", "finish")
  /\ ConsumeSignal
  /\ UNCHANGED <<bbq, marks, tracked, writer, batch, outside, h2o>>

FinishSend ==
  /\ WorkerAt("finish", "idle")
  /\ stopped' = (stopped \/ batch[Len(batch)].final)
  /\ batch' = <<>>
  /\ UNCHANGED <<bbq, drainState, inFlight, closing, finalEnqueued, tracked,
                 writer, outside, h2o>>

\* Nothing was queued: an active drain tries to retire, a signalled one
\* consumes the signal and looks at the queue again.
EmptyDrain ==
  /\ workerPc = "empty"
  /\ CASE drainState = Active    -> UNCHANGED drainState /\ workerPc' = "retireCas"
       [] drainState = Signalled -> ConsumeSignal /\ workerPc' = "drain"
       [] OTHER                  -> UNCHANGED drainState /\ workerPc' = "idle"
  /\ UNCHANGED <<bbq, marks, tracked, writer, batch, outside, h2o>>

\* Mutant: a plain set of the marker in place of the compare-and-set.
RetireSet ==
  /\ WorkerAt("retireCas", "retire")
  /\ drainState' = Idle
  /\ UNCHANGED <<bbq, marks, tracked, writer, batch, outside, h2o>>

RetireCas ==
  /\ workerPc = "retireCas"
  /\ IF drainState = Active
     THEN drainState' = Idle /\ workerPc' = "retire"
     ELSE UNCHANGED drainState /\ workerPc' = "drain"
  /\ UNCHANGED <<bbq, marks, tracked, writer, batch, outside, h2o>>

-----------------------------------------------------------------------------
(* retire-work!: remove the writer from streaming-work, unless a producer  *)
(* activated it in between.                                                *)

\* Mutant: retire-work! does not look for a producer it may have overtaken.
RetireBlindly ==
  /\ WorkerAt("retire", "idle")
  /\ tracked' = FALSE
  /\ UNCHANGED <<bbq, drainState, marks, writer, batch, outside, h2o>>

RetireUntrack ==
  /\ WorkerAt("retire", "pendingDrain")
  /\ tracked' = FALSE
  /\ UNCHANGED <<bbq, drainState, marks, writer, batch, outside, h2o>>

\* pending-work? reads the marker, in-flight_ and then the queued bytes.
PendingDrain ==
  /\ WorkerAt("pendingDrain",
              IF drainState # Idle \/ inFlight THEN "retrack" ELSE "pendingBytes")
  /\ UNCHANGED <<bbq, drainState, marks, tracked, writer, batch, outside, h2o>>

PendingBytes ==
  /\ WorkerAt("pendingBytes", IF queuedBytes > 0 THEN "retrack" ELSE "idle")
  /\ UNCHANGED <<bbq, drainState, marks, tracked, writer, batch, outside, h2o>>

Retrack ==
  /\ WorkerAt("retrack", "retrackCheck")
  /\ tracked' = TRUE
  /\ UNCHANGED <<bbq, drainState, marks, writer, batch, outside, h2o>>

RetrackCheck ==
  /\ WorkerAt("retrackCheck", "idle")
  /\ tracked' = (tracked /\ ~stopped)
  /\ UNCHANGED <<bbq, drainState, marks, writer, batch, outside, h2o>>

-----------------------------------------------------------------------------
(* h2o's callbacks, all on the worker thread between two of its messages.  *)

\* h2o consumed the batch: clj_generator_proceed, then on-proceed.
Proceed ==
  /\ WorkerAt("idle", "release")
  /\ native = "sending" /\ live
  /\ native' = "ready"
  /\ UNCHANGED <<bbq, drainState, marks, tracked, writer, batch, outside, sent>>

ReleaseInFlight ==
  /\ WorkerAt("release", "proceeded")
  /\ inFlight' = FALSE
  /\ UNCHANGED <<bbq, drainState, closing, stopped, finalEnqueued, tracked,
                 writer, batch, outside, h2o>>

OnProceed ==
  /\ WorkerAt("proceeded", IF stopped THEN "idle" ELSE "entry")
  /\ tracked' = (tracked /\ ~stopped)
  /\ UNCHANGED <<bbq, drainState, marks, writer, batch, outside, h2o>>

\* The stream or connection was reset: clj_generator_stop, then on-stop.
Stop ==
  /\ WorkerAt("idle", "stopFlag")
  /\ native \in {"ready", "sending"}
  /\ native' = "gone"
  /\ UNCHANGED <<bbq, drainState, marks, tracked, writer, batch, outside, sent>>

\* Mutant: cleanup removes the entry without closing it.
CleanupWithoutStop ==
  /\ workerPc = "idle"
  /\ native \in {"final", "gone"} /\ live
  /\ live' = FALSE
  /\ native' = "gone"
  /\ UNCHANGED <<bbq, drainState, marks, tracked, writer, worker, commands, accepting, sent>>

\* The request is disposed of after its last send or its stop: cleanup
\* retires the entry, and stop-emitter runs on-stop (again).
Cleanup ==
  /\ WorkerAt("idle", "stopFlag")
  /\ native \in {"final", "gone"} /\ live
  /\ live' = FALSE
  /\ native' = "gone"
  /\ UNCHANGED <<bbq, drainState, marks, tracked, writer, batch, commands, accepting, sent>>

StopFlag ==
  /\ WorkerAt("stopFlag", "stopUntrack")
  /\ stopped' = TRUE
  /\ UNCHANGED <<bbq, drainState, inFlight, closing, finalEnqueued, tracked,
                 writer, batch, outside, h2o>>

StopUntrack ==
  /\ WorkerAt("stopUntrack", "closeQueue")
  /\ tracked' = FALSE
  /\ UNCHANGED <<bbq, drainState, marks, writer, batch, outside, h2o>>

\* close of the queue: the first call releases a whole capacity of permits.
CloseQueue ==
  /\ WorkerAt("closeQueue", IF queueClosed THEN "idle" ELSE "freePermits")
  /\ queueClosed' = TRUE
  /\ UNCHANGED <<queue, permits, queuedBytes, drainState, marks, tracked,
                 writer, batch, outside, h2o>>

FreePermits ==
  /\ WorkerAt("freePermits", "idle")
  /\ permits' = permits + Capacity
  /\ UNCHANGED <<queue, queuedBytes, queueClosed, drainState, marks, tracked,
                 writer, batch, outside, h2o>>

\* A retiring worker stops accepting once it has no live entry left.
WorkerExit ==
  /\ workerPc = "idle" /\ ~live /\ accepting
  /\ accepting' = FALSE
  /\ UNCHANGED <<bbq, drainState, marks, tracked, writer, worker, commands, live, h2o>>

-----------------------------------------------------------------------------
WriterStep ==
  \/ PutCheck \/ Acquire \/ Recheck \/ Count \/ Enqueue \/ MarkFinal
  \/ Schedule \/ Activate \/ Signal \/ Track \/ TrackCheck \/ Untrack \/ Post
  \/ FailStop \/ FailIdle \/ FailUntrack \/ WriteEnd
  \/ \E b \in {0} \cup Sizes : CloseSeal(b)

Application ==
  \/ WriteBegin \/ CloseBegin \/ CloseStopped
  \/ \E b \in Sizes : SealChunk(b)

WorkerStep ==
  \/ HandleCommand \/ SendVecsEntry \/ DrainOne \/ DrainDone \/ SendVec
  \/ HoldInFlight \/ UnsignalAfterSend \/ FinishSend \/ EmptyDrain \/ RetireCas
  \/ RetireUntrack \/ PendingDrain \/ PendingBytes \/ Retrack \/ RetrackCheck
  \/ ReleaseInFlight \/ OnProceed
  \/ StopFlag \/ StopUntrack \/ CloseQueue \/ FreePermits

\* The response is over: the entry is retired and the application is done.
Finished ==
  /\ writerPc = "idle" /\ workerPc = "idle" /\ ~live /\ ~accepting /\ closing
  /\ UNCHANGED vars

Next == \/ WriterStep \/ Application \/ WorkerStep
        \/ Proceed \/ Stop \/ Cleanup \/ WorkerExit \/ Finished

Spec == Init /\ [][Next]_vars

\* The writer's thread and the worker run; h2o either drains what it was given
\* or resets the stream, and disposes of a request it is done with.
Fairness ==
  /\ WF_vars(WriterStep)
  /\ WF_vars(WorkerStep)
  /\ WF_vars(Proceed \/ (native = "sending" /\ Stop))
  /\ WF_vars(Cleanup)

FairSpec == Spec /\ Fairness
-----------------------------------------------------------------------------
(* Safety.                                                                 *)

\* The four places an activation of the drain can be.  Once h2o has the final
\* chunk, or the stream is stopped, the activation is never given back.
WriterActivating == writerPc \in PostPcs
CommandPending   == commands > 0
WorkerSending    == workerPc \in SendPcs \cup ProceedPcs
SendInFlight     == native = "sending"

\* One sender at a time (response_queue.clj:49-59): a command in the mailbox,
\* a producer about to post one, a send-vecs call before its native send, and a
\* native send in progress exclude each other, and each keeps the marker from
\* idle, so that no producer can start a second one.
OneSender ==
  /\ commands <= 1
  /\ ~(WriterActivating /\ CommandPending)
  /\ ~(WriterActivating /\ WorkerSending)
  /\ ~(WriterActivating /\ SendInFlight)
  /\ ~(CommandPending /\ WorkerSending)
  /\ ~(CommandPending /\ SendInFlight)
  /\ ~(WorkerSending /\ SendInFlight)
  /\ (WriterActivating \/ CommandPending \/ WorkerSending \/ SendInFlight)
        => drainState # Idle

\* h2o_sendvec requires a generator that has finished its previous send and was
\* neither finished nor stopped, whatever commands are still in the mailbox.
SendsToReadyGenerator == workerPc = "send" => native = "ready"

\* Sends follow each other: one at a time, and each to a generator that waits
\* for it.
SendsInTurn == OneSender /\ SendsToReadyGenerator

\* The writer will look at the marker after what it has just enqueued.
WriterWillSchedule == writerPc \in {"markFinal", "schedule", "casActive", "casSignal"}

\* No stranded chunk: a chunk in the queue of a stream that nobody stopped is
\* on somebody's way.  Either its producer has yet to look at the marker, or
\* an activation exists that will drain the queue; a drain that has seen the
\* queue empty retires only if no producer left a signal.
NoStrandedChunk ==
  (queue # <<>> /\ ~stopped /\ native # "gone") =>
     \/ WriterWillSchedule
     \/ WriterActivating \/ CommandPending \/ SendInFlight
     \/ workerPc \in {"entry", "drain", "send"} \cup ProceedPcs
     \/ drainState = Signalled /\ workerPc \in {"empty", "retireCas"}
     \/ workerPc \in SentPcs

\* What the writer took from the semaphore and has not queued yet.
AcquiredBytes == IF writerPc \in {"recheck", "count"} THEN chunk.bytes ELSE 0

\* What close of the queue added to the semaphore.
ReleasedByClose == IF queueClosed /\ workerPc # "freePermits" THEN Capacity ELSE 0

\* Permits are neither lost nor created: on every path, the refused put and the
\* close included, free, queued and acquired bytes add up to the capacity.
PermitsConserved ==
  permits + queuedBytes + AcquiredBytes = Capacity + ReleasedByClose

\* The bytes of a sequence of chunks.
BytesOf(chunks) ==
  LET sum[i \in 0..Len(chunks)] == IF i = 0 THEN 0 ELSE sum[i - 1] + chunks[i].bytes
  IN sum[Len(chunks)]

\* queued-bytes_ is what the queue holds (and the chunk being enqueued), and
\* stays within the capacity until a close opens the gate.
QueuedBytesExact ==
  /\ queuedBytes = BytesOf(queue) + (IF writerPc = "enqueue" THEN chunk.bytes ELSE 0)
  /\ ~queueClosed => queuedBytes <= Capacity

\* A generation is drained only when streaming-work is empty (generation.clj).
\* While the worker is between callbacks, where it looks, an activated stream
\* is in that map unless its producer is at the very point of adding it.
PendingIsTracked ==
  (drainState # Idle /\ ~stopped /\ workerPc = "idle" /\ writerPc # "track") => tracked

\* And nothing stays there: after the entry is retired and both threads are
\* past their updates the stream is out of the map, or the generation would
\* wait for it forever.
RetiredIsUntracked ==
  (~live /\ workerPc = "idle" /\ writerPc \notin {"trackCheck", "untrack"} \cup FailPcs)
     => ~tracked

\* What the runtime knows of a stream is what is there: the queued bytes and the
\* entry in streaming-work, on which a generation's drain depends
\* (response_queue.clj, track-work! and retire-work!; byte_bounded_queue.clj).
WorkAccounted == QueuedBytesExact /\ PendingIsTracked /\ RetiredIsUntracked

-----------------------------------------------------------------------------
(* Refinement and liveness.                                                *)

\* Everything the queue ever accepted, and the batch that is on its way.
AcceptedChunks == sent \o (IF workerPc \in SentPcs THEN <<>> ELSE batch) \o queue

Contract == INSTANCE StreamContract WITH accepted <- AcceptedChunks,
                                         delivered <- Len(sent),
                                         wire <- native

\* The stream implements the contract of an ordered, gapless, flow-controlled
\* byte channel that can be reset.
ImplementsContract == Contract!Spec

\* A writer blocked on backpressure is released: by the client's progress or
\* by the stop of the stream (runtime-model.adoc, "When the client cannot keep up").
BlockedWriterReleased == writerPc = "acquire" ~> writerPc # "acquire"

\* Whatever is queued is handed to h2o, or the stream is stopped.
QueueDrains == queue # <<>> ~> (queue = <<>> \/ stopped)

\* A closed response leaves streaming-work for good, so a generation whose
\* responses all close is drained.
ClosedStreamRetires == closing ~> []~tracked

\* Nobody waits for a stream forever: not its writer, not what is queued, and not
\* the generation that drains.
StreamSettles == BlockedWriterReleased /\ QueueDrains /\ ClosedStreamRetires
=============================================================================
