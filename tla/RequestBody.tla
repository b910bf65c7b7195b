----------------------------- MODULE RequestBody -----------------------------
(***************************************************************************)
(* The body of one streaming request (request.clj): the event loop puts    *)
(* the chunks that h2o hands over into a queue of two elements, a handler  *)
(* reads them from its virtual thread through an InputStream, and asks the *)
(* event loop for the next chunk when it has read one to its end.          *)
(*                                                                         *)
(* Handler and event loop may both close the channel: the handler when it  *)
(* has read enough, the event loop when it retires the request.  closed?   *)
(* and current-buf are volatiles, the queue is a LinkedBlockingQueue; each *)
(* access to one of them is a step.                                        *)
(***************************************************************************)
EXTENDS Naturals, Sequences

CONSTANTS Chunks,      \* bound on the chunks of a body
          QueueSize    \* (LinkedBlockingQueue. 2)

ASSUME BodyAssumption == Chunks \in Nat \ {0} /\ QueueSize \in Nat \ {0}

\* Chunks are numbered from 1; the end marker, no chunk and an empty current-buf.
Eof == 0
NoChunk == 0
Nil == [chunk |-> NoChunk, left |-> 0]
\* A chunk is read in one piece or in two, as the reader's buffer has it.
Pieces == 2
Reader == "reader"
Worker == "worker"

VARIABLES
  queue, closed, current,   \* queue, closed?, current-buf
  live,                     \* the request's entry in the dispatch table
  wanted,                   \* h2o may hand over the next chunk
  handed, ended,            \* chunks handed over, end of the stream handed over
  workerPc, item,           \* the event loop, and the arguments of write-chunk
  proceeds,                 \* :h2o/proceed-request messages in the mailbox
  readerPc, result,         \* the handler's thread, and what its last call gave it
  closing,                  \* where a thread is in close
  delivered,                \* the pieces read, in order
  consumed                  \* chunks read to their end

queueVars == <<queue, closed, current>>
h2oVars == <<live, wanted, handed, ended>>
workerVars == <<workerPc, item, proceeds>>
readerVars == <<readerPc, result, delivered, consumed>>
vars == <<queueVars, h2oVars, workerVars, readerVars, closing>>

TypeOK ==
  /\ queue \in Seq(0..Chunks) /\ Len(queue) <= QueueSize
  /\ {closed, live, wanted, ended} \subseteq BOOLEAN
  /\ current \in [chunk: 0..Chunks, left: 0..Pieces]
  /\ {handed, consumed} \subseteq 0..Chunks
  /\ workerPc \in {"loop", "check", "putChunk", "putEof"}
  /\ item \in [chunk: 0..Chunks, last: BOOLEAN]
  /\ proceeds \in 0..Chunks
  /\ readerPc \in {"idle", "load", "exhausted", "take", "recheck", "copy", "proceed", "done"}
  /\ result \in {"none", "data", "eof", "closed", "error"}
  /\ closing \in [{Reader, Worker} -> {"no", "clear", "offer", "drop"}]
  /\ delivered \in Seq((1..Chunks) \X (1..Pieces))

\* request_handler, once the handler is submitted: the bytes that came with
\* the head are handed over at once, or h2o is asked to proceed.
Init ==
  /\ queue = <<>> /\ closed = FALSE /\ current = Nil
  /\ live = TRUE /\ wanted = TRUE /\ handed = 0 /\ ended = FALSE
  /\ workerPc = "loop" /\ item = [chunk |-> NoChunk, last |-> FALSE] /\ proceeds = 0
  /\ readerPc = "idle" /\ result = "none" /\ delivered = <<>> /\ consumed = 0
  /\ closing = [t \in {Reader, Worker} |-> "no"]

WorkerIdle == workerPc = "loop" /\ closing[Worker] = "no"

\* h2o hands over a chunk, the end of the stream or both.
BodyCallback ==
  /\ WorkerIdle /\ live /\ wanted /\ ~ended
  /\ \E chunk \in {NoChunk, handed + 1}, last \in BOOLEAN :
       /\ chunk = NoChunk => last
       /\ chunk <= Chunks /\ (chunk = Chunks => last)
       /\ item' = [chunk |-> chunk, last |-> last]
       /\ handed' = IF chunk = NoChunk THEN handed ELSE chunk
       /\ ended' = last
  /\ wanted' = FALSE
  /\ workerPc' = "check"
  /\ UNCHANGED <<queueVars, live, proceeds, readerVars, closing>>

\* Mutant: the end of the stream goes before the chunk it comes with.
EofBeforeChunk ==
  /\ workerPc = "check"
  /\ workerPc' = IF closed THEN "loop" ELSE IF item.last THEN "putEof" ELSE "putChunk"
  /\ UNCHANGED <<queueVars, h2oVars, item, proceeds, readerVars, closing>>

\* write-chunk: the channel is looked at once, before the first put.
WriteChunk ==
  /\ workerPc = "check"
  /\ workerPc' = IF closed THEN "loop" ELSE IF item.chunk # NoChunk THEN "putChunk" ELSE "putEof"
  /\ UNCHANGED <<queueVars, h2oVars, item, proceeds, readerVars, closing>>

\* Both puts wait while the queue is full.
PutChunk ==
  /\ workerPc = "putChunk" /\ Len(queue) < QueueSize
  /\ queue' = Append(queue, item.chunk)
  /\ workerPc' = IF item.last THEN "putEof" ELSE "loop"
  /\ UNCHANGED <<closed, current, h2oVars, item, proceeds, readerVars, closing>>

PutEof ==
  /\ workerPc = "putEof" /\ Len(queue) < QueueSize
  /\ queue' = Append(queue, Eof)
  /\ workerPc' = "loop"
  /\ UNCHANGED <<closed, current, h2oVars, item, proceeds, readerVars, closing>>

\* The :h2o/proceed-request message: dropped if the request is gone.
HandleProceed ==
  /\ WorkerIdle /\ proceeds > 0
  /\ proceeds' = proceeds - 1
  /\ wanted' = (wanted \/ live)
  /\ UNCHANGED <<queueVars, live, handed, ended, workerPc, item, readerVars, closing>>

\* The request is over, answered or given up by the client: close-entry!
\* closes its input stream.
Cleanup ==
  /\ WorkerIdle /\ live
  /\ live' = FALSE
  /\ closed' = TRUE
  /\ closing' = [closing EXCEPT ![Worker] = "clear"]
  /\ UNCHANGED <<queue, current, wanted, handed, ended, workerVars, readerVars>>

ReaderIdle == readerPc = "idle" /\ closing[Reader] = "no"

\* The handler is done with the body before its end, or after it.
CloseBody ==
  /\ ReaderIdle
  /\ closed' = TRUE
  /\ closing' = [closing EXCEPT ![Reader] = "clear"]
  /\ UNCHANGED <<queue, current, h2oVars, workerVars, readerVars>>

CloseClear(t) ==
  /\ closing[t] = "clear"
  /\ queue' = <<>>
  /\ closing' = [closing EXCEPT ![t] = "offer"]
  /\ UNCHANGED <<closed, current, h2oVars, workerVars, readerVars>>

\* Mutant: a close that leaves no end marker behind.
OfferNothing(t) ==
  /\ closing[t] = "offer"
  /\ closing' = [closing EXCEPT ![t] = "drop"]
  /\ UNCHANGED <<queueVars, h2oVars, workerVars, readerVars>>

\* offer gives up where put would wait.
CloseOffer(t) ==
  /\ closing[t] = "offer"
  /\ queue' = IF Len(queue) < QueueSize THEN Append(queue, Eof) ELSE queue
  /\ closing' = [closing EXCEPT ![t] = "drop"]
  /\ UNCHANGED <<closed, current, h2oVars, workerVars, readerVars>>

CloseDrop(t) ==
  /\ closing[t] = "drop"
  /\ current' = Nil
  /\ closing' = [closing EXCEPT ![t] = "no"]
  /\ UNCHANGED <<queue, closed, h2oVars, workerVars, readerVars>>

Return(r) == readerPc' = "idle" /\ result' = r

\* read throws on a channel that is closed, at its end too.
Read ==
  /\ ReaderIdle
  /\ IF closed THEN Return("closed") ELSE readerPc' = "load" /\ UNCHANGED result
  /\ UNCHANGED <<queueVars, h2oVars, workerVars, delivered, consumed, closing>>

Load ==
  /\ readerPc = "load"
  /\ readerPc' = IF current = Nil THEN "take" ELSE "exhausted"
  /\ UNCHANGED <<queueVars, h2oVars, workerVars, result, delivered, consumed, closing>>

\* current-buf is read again: a close in between makes it nil, and the read
\* fail with a NullPointerException.
Exhausted ==
  /\ readerPc = "exhausted"
  /\ IF current = Nil
     THEN Return("error")
     ELSE readerPc' = (IF current.left = 0 THEN "take" ELSE "recheck") /\ UNCHANGED result
  /\ UNCHANGED <<queueVars, h2oVars, workerVars, delivered, consumed, closing>>

\* The reader waits here for the event loop.
Take ==
  /\ readerPc = "take" /\ queue # <<>>
  /\ queue' = Tail(queue)
  /\ IF Head(queue) = Eof
     THEN closed' = TRUE /\ UNCHANGED current
     ELSE current' = [chunk |-> Head(queue), left |-> Pieces] /\ UNCHANGED closed
  /\ readerPc' = "recheck"
  /\ UNCHANGED <<h2oVars, workerVars, result, delivered, consumed, closing>>

Recheck ==
  /\ readerPc = "recheck"
  /\ IF closed THEN Return("eof") ELSE readerPc' = "copy" /\ UNCHANGED result
  /\ UNCHANGED <<queueVars, h2oVars, workerVars, delivered, consumed, closing>>

Copy ==
  /\ readerPc = "copy"
  /\ IF current = Nil
     THEN Return("error") /\ UNCHANGED <<current, delivered, consumed>>
     ELSE \E n \in 1..current.left :
            LET first == Pieces - current.left + 1 IN
            /\ current' = [current EXCEPT !.left = @ - n]
            /\ delivered' = delivered \o
                 [i \in 1..n |-> <<current.chunk, first + i - 1>>]
            /\ IF n = current.left
               THEN consumed' = consumed + 1 /\ readerPc' = "proceed" /\ UNCHANGED result
               ELSE Return("data") /\ UNCHANGED consumed
  /\ UNCHANGED <<queue, closed, h2oVars, workerVars, closing>>

\* The proceed callback: the message is accepted, or the worker is closed,
\* which it only is after it has retired its requests, and read throws.
Proceed ==
  /\ readerPc = "proceed"
  /\ \/ Return("data") /\ proceeds' = proceeds + 1
     \/ ~live /\ Return("error") /\ UNCHANGED proceeds
  /\ UNCHANGED <<queueVars, h2oVars, workerPc, item, delivered, consumed, closing>>

HandlerReturns ==
  /\ ReaderIdle
  /\ readerPc' = "done"
  /\ UNCHANGED <<queueVars, h2oVars, workerVars, result, delivered, consumed, closing>>

Closing(t) == CloseClear(t) \/ CloseOffer(t) \/ CloseDrop(t)
WorkerSteps == WriteChunk \/ PutChunk \/ PutEof \/ HandleProceed \/ Closing(Worker)
ReaderSteps ==
  \/ Load \/ Exhausted \/ Take \/ Recheck \/ Copy \/ Proceed \/ Closing(Reader)

Next ==
  \/ BodyCallback \/ Cleanup \/ WorkerSteps
  \/ Read \/ CloseBody \/ HandlerReturns \/ ReaderSteps

Spec == Init /\ [][Next]_vars

\* The event loop and the handler's thread run.  A client sends the rest of
\* its body, or h2o's timeout ends the request: BodyCallback or Cleanup.
FairSpec ==
  /\ Spec
  /\ WF_vars(WorkerSteps) /\ WF_vars(ReaderSteps) /\ WF_vars(BodyCallback)

-------------------------------------------------------------------------------
\* runtime-model.adoc: "Busker asks the network side for another request-body
\* chunk as the handler consumes the current chunk instead of copying the
\* entire upload into JVM memory first."  At most one chunk waits to be read.
OneChunkAhead == handed <= consumed + 1

\* The pieces a handler reads are those the client sent, from the first on and
\* without a gap; and a read only returns -1 before the end of the body if the
\* request is over (request.clj, read and close).
BodySound ==
  /\ TypeOK /\ OneChunkAhead
  /\ \A i \in 1..Len(delivered) :
       delivered[i] = <<((i - 1) \div Pieces) + 1, ((i - 1) % Pieces) + 1>>
  /\ (result = "eof" /\ live) => ended /\ Len(delivered) = Pieces * handed

\* Whoever waits for a chunk gets one, or the end, also when the request is
\* retired under it (callback_dispatch.clj, close-entry!).
ReaderServed == readerPc = "take" ~> readerPc # "take"

\* request_test.clj: "a final chunk and EOF can be delivered before the handler
\* reads"; runtime-model.adoc: handlers park "leaving the event loops free to
\* serve other connections".  The event loop never waits for a queue that
\* nobody will empty.
EventLoopFree ==
  ~(/\ workerPc \in {"putChunk", "putEof"} /\ Len(queue) = QueueSize
    /\ readerPc = "done" /\ closing[Reader] = "no")
===============================================================================
