--------------------------- MODULE ResponseBuffers ---------------------------
(***************************************************************************)
(* The aggregation buffers of the streaming responses of a runtime         *)
(* (response_queue.clj): a writer borrows one from the pool, fills it,     *)
(* seals it into a chunk and forgets it; the worker copies the chunks into *)
(* native memory, and returns their buffers when h2o has consumed them.    *)
(*                                                                         *)
(* current-buffer_ is the writer's, but on-stop, on the worker, takes the  *)
(* buffer out of it and returns it, whatever the writer is doing.  Several *)
(* responses share the pool, so a buffer that is used after its return is  *)
(* another response's.  The pool (buffer_pool.clj) is one stack of buffers *)
(* of one size, and a borrow or a return is one step of it; ResponseStream *)
(* has the scheduling of the drain.                                        *)
(***************************************************************************)
EXTENDS Integers, FiniteSets, SequencesExt

CONSTANTS Streams,    \* responses that are streamed at the same time
          Buffers,    \* identities of buffers: bounds how many are in use
          MaxIdle,    \* :max-bucket-size of the pool
          MaxQueued   \* bound on the chunks of a queue

Nil == "nil"

ASSUME BuffersAssumption ==
  /\ IsFiniteSet(Streams) /\ IsFiniteSet(Buffers) /\ Nil \notin Buffers
  /\ {MaxIdle, MaxQueued} \subseteq Nat \ {0}

VARIABLES
  pool,       \* the idle buffers, the top last
  filled,     \* whose bytes are in a buffer, since it was last cleared
  current,    \* current-buffer_
  queue,      \* the chunks of the byte-bounded queue
  inFlight,   \* in-flight_: the chunks h2o has not consumed
  stopped, closing,
  place, held,  \* the writer's thread, and its local buf
  final,      \* whether the chunk it is sealing is the last one
  stopPlace, taken,  \* on-stop, and the buffer it took
  stops,      \* times it was called: for h2o's stop, and for the cleanup
  given,      \* whose bytes h2o was given as a response's
  torn        \* buffers that on-stop returned under their writer

poolVars == <<pool, filled>>
streamVars == <<current, queue, inFlight, stopped, closing>>
writerVars == <<place, held, final>>
stopVars == <<stopPlace, taken, stops>>
historyVars == <<given, torn>>
bufferVars == <<poolVars, streamVars, writerVars, stopVars, historyVars>>

Chunks == [buffer: Buffers \cup {Nil}, final: BOOLEAN]
Maybe == Buffers \cup {Nil}

BuffersTypeOK ==
  /\ pool \in Seq(Buffers) /\ filled \in [Buffers -> SUBSET Streams]
  /\ current \in [Streams -> Maybe]
  /\ queue \in [Streams -> Seq(Chunks)] /\ inFlight \in [Streams -> Seq(Chunks)]
  /\ {stopped, closing, final} \subseteq [Streams -> BOOLEAN]
  /\ place \in [Streams -> {"idle", "get", "publish", "copy", "seal", "put",
                            "flush", "close", "stale", "return", "forget"}]
  /\ held \in [Streams -> Maybe] /\ taken \in [Streams -> Maybe]
  /\ stopPlace \in [Streams -> {"run", "take", "return"}]
  /\ stops \in [Streams -> 0..2]
  /\ given \in [Streams -> SUBSET Streams] /\ torn \subseteq Buffers

BuffersInit ==
  /\ pool = <<>> /\ filled = [b \in Buffers |-> {}]
  /\ current = [s \in Streams |-> Nil]
  /\ queue = [s \in Streams |-> <<>>] /\ inFlight = [s \in Streams |-> <<>>]
  /\ stopped = [s \in Streams |-> FALSE] /\ closing = [s \in Streams |-> FALSE]
  /\ place = [s \in Streams |-> "idle"] /\ held = [s \in Streams |-> Nil]
  /\ final = [s \in Streams |-> FALSE]
  /\ stopPlace = [s \in Streams |-> "run"] /\ taken = [s \in Streams |-> Nil]
  /\ stops = [s \in Streams |-> 0]
  /\ given = [s \in Streams |-> {}] /\ torn = {}

\* The buffers of a chunk sequence, in order; the last chunk may have none.
InOrder(chunks) ==
  LET Of[n \in 0..Len(chunks)] ==
        IF n = 0 THEN <<>>
        ELSE IF chunks[n].buffer = Nil THEN Of[n - 1] ELSE Append(Of[n - 1], chunks[n].buffer)
  IN  Of[Len(chunks)]
BuffersOf(chunks) == {chunks[i].buffer : i \in DOMAIN chunks} \ {Nil}
\* Buffers that somebody still has; the others are garbage.
Reachable ==
  ToSet(pool) \cup UNION {BuffersOf(queue[s]) \cup BuffersOf(inFlight[s])
                          \cup ({current[s], held[s], taken[s]} \ {Nil}) : s \in Streams}

Moves(s, from, to) == place[s] = from /\ place' = [place EXCEPT ![s] = to]
Hold(s, b) == held' = [held EXCEPT ![s] = b]
\* A pool that is full leaves a buffer to the garbage collector.
BackToPool(buffers) ==
  pool' = pool \o SubSeq(buffers, 1, Min({Len(buffers), MaxIdle - Len(pool)}))

-------------------------------------------------------------------------------
(* The writer.                                                             *)

\* write and flush look at the two flags first, and throw if one is up.  A write
\* of several buffers is one per buffer here: between them the writer only puts.
WriteOrFlush(s) ==
  /\ ~stopped[s] /\ ~closing[s]
  /\ Moves(s, "idle", "get") \/ Moves(s, "idle", "flush")
  /\ UNCHANGED <<poolVars, streamVars, held, final, stopVars, historyVars>>

\* The buffer of the last write, or one from the pool.
GetCurrent(s) ==
  /\ current[s] # Nil /\ Moves(s, "get", "copy") /\ Hold(s, current[s])
  /\ UNCHANGED <<poolVars, streamVars, final, stopVars, historyVars>>

\* Mutant: the buffer is not cleared.
BorrowAsItIs(s) ==
  /\ current[s] = Nil /\ Moves(s, "get", "publish")
  /\ \E b \in Buffers :
       /\ IF pool = <<>> THEN b \notin Reachable /\ UNCHANGED pool
          ELSE b = Last(pool) /\ pool' = Front(pool)
       /\ Hold(s, b)
  /\ UNCHANGED <<filled, streamVars, final, stopVars, historyVars>>

Borrow(s) ==
  /\ current[s] = Nil /\ Moves(s, "get", "publish")
  /\ \E b \in Buffers :
       /\ IF pool = <<>> THEN b \notin Reachable /\ UNCHANGED pool
          ELSE b = Last(pool) /\ pool' = Front(pool)
       /\ filled' = [filled EXCEPT ![b] = {}]
       /\ Hold(s, b)
  /\ UNCHANGED <<streamVars, final, stopVars, historyVars>>

Publish(s) ==
  /\ Moves(s, "publish", "copy")
  /\ current' = [current EXCEPT ![s] = held[s]]
  /\ UNCHANGED <<poolVars, queue, inFlight, stopped, closing, held, final, stopVars,
                 historyVars>>

\* The bytes fill the buffer, which is then sealed, or do not.
Copy(s) ==
  /\ \/ Moves(s, "copy", "seal") /\ UNCHANGED held
     \/ Moves(s, "copy", "idle") /\ Hold(s, Nil)
  /\ filled' = [filled EXCEPT ![held[s]] = @ \cup {s}]
  /\ UNCHANGED <<pool, streamVars, final, stopVars, historyVars>>

Flush(s) ==
  /\ IF current[s] # Nil /\ filled[current[s]] # {}
     THEN Moves(s, "flush", "seal") /\ Hold(s, current[s])
     ELSE Moves(s, "flush", "idle") /\ UNCHANGED held
  /\ UNCHANGED <<poolVars, streamVars, final, stopVars, historyVars>>

Seal(s) ==
  /\ Moves(s, "seal", "put")
  /\ current' = [current EXCEPT ![s] = Nil]
  /\ UNCHANGED <<poolVars, queue, inFlight, stopped, closing, held, final, stopVars,
                 historyVars>>

\* put throws if on-stop has closed the queue, and the chunk is lost.
Put(s) ==
  /\ Moves(s, "put", "idle") /\ Hold(s, Nil)
  /\ IF stopped[s] THEN UNCHANGED queue
     ELSE /\ Len(queue[s]) < MaxQueued
          /\ queue' = [queue EXCEPT ![s] = Append(@, [buffer |-> held[s], final |-> final[s]])]
  /\ UNCHANGED <<poolVars, current, inFlight, stopped, closing, final, stopVars, historyVars>>

\* close: the last chunk takes the rest of the buffer.
Close(s) ==
  /\ ~stopped[s] /\ ~closing[s] /\ Moves(s, "idle", "close")
  /\ closing' = [closing EXCEPT ![s] = TRUE]
  /\ final' = [final EXCEPT ![s] = TRUE]
  /\ UNCHANGED <<poolVars, current, queue, inFlight, stopped, held, stopVars, historyVars>>

CloseTakes(s) ==
  /\ IF current[s] # Nil /\ filled[current[s]] # {}
     THEN Moves(s, "close", "seal") /\ Hold(s, current[s])
     ELSE Moves(s, "close", "put") /\ UNCHANGED held
  /\ UNCHANGED <<poolVars, streamVars, final, stopVars, historyVars>>

\* close of a stopped stream: the buffer goes back to the pool.
CloseStopped(s) ==
  /\ stopped[s] /\ Moves(s, "idle", "stale")
  /\ UNCHANGED <<poolVars, streamVars, held, final, stopVars, historyVars>>

StaleTake(s) ==
  /\ IF current[s] = Nil THEN Moves(s, "stale", "idle") /\ UNCHANGED held
     ELSE Moves(s, "stale", "return") /\ Hold(s, current[s])
  /\ closing' = [closing EXCEPT ![s] = @ \/ current[s] = Nil]
  /\ UNCHANGED <<poolVars, current, queue, inFlight, stopped, final, stopVars, historyVars>>

StaleReturn(s) ==
  /\ Moves(s, "return", "forget") /\ BackToPool(<<held[s]>>) /\ Hold(s, Nil)
  /\ UNCHANGED <<filled, streamVars, final, stopVars, historyVars>>

StaleForget(s) ==
  /\ Moves(s, "forget", "idle")
  /\ current' = [current EXCEPT ![s] = Nil]
  /\ closing' = [closing EXCEPT ![s] = TRUE]
  /\ UNCHANGED <<poolVars, queue, inFlight, stopped, held, final, stopVars, historyVars>>

-------------------------------------------------------------------------------
(* The worker.                                                             *)

\* send-vecs: package-chunks copies the bytes and h2o is given the copies.
Send(s) ==
  /\ stopPlace[s] = "run" /\ ~stopped[s]
  /\ inFlight[s] = <<>> /\ queue[s] # <<>>
  /\ inFlight' = [inFlight EXCEPT ![s] = queue[s]]
  /\ queue' = [queue EXCEPT ![s] = <<>>]
  /\ given' = [given EXCEPT ![s] = @ \cup UNION {filled[b] : b \in BuffersOf(queue[s])}]
  /\ stopped' = [stopped EXCEPT ![s] = Last(queue[s]).final]
  /\ UNCHANGED <<poolVars, current, closing, writerVars, stopVars, torn>>

\* Mutant: the chunks that were released stay in in-flight_.
ReleaseAndKeep(s) ==
  /\ stopPlace[s] = "run" /\ inFlight[s] # <<>>
  /\ BackToPool(InOrder(inFlight[s]))
  /\ UNCHANGED <<filled, streamVars, writerVars, stopVars, historyVars>>

\* on-proceed: release-chunks.
ReleaseChunks(s) ==
  /\ stopPlace[s] = "run" /\ inFlight[s] # <<>>
  /\ BackToPool(InOrder(inFlight[s]))
  /\ inFlight' = [inFlight EXCEPT ![s] = <<>>]
  /\ UNCHANGED <<filled, current, queue, stopped, closing, writerVars, stopVars, historyVars>>

\* on-stop: the flag and the queue, then the writer's buffer.
Stop(s) ==
  /\ stopPlace[s] = "run" /\ stops[s] < 2
  /\ stopped' = [stopped EXCEPT ![s] = TRUE]
  /\ stops' = [stops EXCEPT ![s] = @ + 1]
  /\ stopPlace' = [stopPlace EXCEPT ![s] = "take"]
  /\ UNCHANGED <<poolVars, current, queue, inFlight, closing, writerVars, taken, historyVars>>

StopTake(s) ==
  /\ stopPlace[s] = "take"
  /\ taken' = [taken EXCEPT ![s] = current[s]]
  /\ current' = [current EXCEPT ![s] = Nil]
  /\ stopPlace' = [stopPlace EXCEPT ![s] = IF current[s] = Nil THEN "run" ELSE "return"]
  /\ torn' = torn \cup
       (IF place[s] \in {"copy", "seal", "return", "forget"} THEN {current[s]} \ {Nil} ELSE {})
  /\ UNCHANGED <<poolVars, queue, inFlight, stopped, closing, writerVars, stops, given>>

StopReturn(s) ==
  /\ stopPlace[s] = "return"
  /\ BackToPool(<<taken[s]>>)
  /\ taken' = [taken EXCEPT ![s] = Nil]
  /\ stopPlace' = [stopPlace EXCEPT ![s] = "run"]
  /\ UNCHANGED <<filled, streamVars, writerVars, stops, historyVars>>

WriterStep(s) ==
  \/ WriteOrFlush(s) \/ GetCurrent(s) \/ Borrow(s) \/ Publish(s) \/ Copy(s)
  \/ Flush(s) \/ Seal(s) \/ Put(s) \/ Close(s) \/ CloseTakes(s)
  \/ CloseStopped(s) \/ StaleTake(s) \/ StaleReturn(s) \/ StaleForget(s)
WorkerActs(s) == Send(s) \/ ReleaseChunks(s) \/ Stop(s) \/ StopTake(s) \/ StopReturn(s)

BuffersNext == \E s \in Streams : WriterStep(s) \/ WorkerActs(s)
BuffersSpec == BuffersInit /\ [][BuffersNext]_bufferVars

-------------------------------------------------------------------------------
\* The buffer a writer works with; one that it has returned it only has to forget.
InHand(s) == {held[s]} \cup (IF place[s] = "forget" THEN {} ELSE {current[s]})

\* The places a buffer is in that may write, send or lend it.
Users(b) ==
  Cardinality({i \in DOMAIN pool : pool[i] = b})
  + Cardinality({s \in Streams : b \in BuffersOf(queue[s])})
  + Cardinality({s \in Streams : b \in BuffersOf(inFlight[s])})
  + Cardinality({s \in Streams : b \in InHand(s)})
  + Cardinality({s \in Streams : b = taken[s]})

\* A buffer belongs to one response or to the pool, and holds the bytes of one
\* response only, unless on-stop returned it while the writer was using it.
BuffersSound ==
  /\ BuffersTypeOK
  /\ \A b \in Buffers \ torn : Users(b) <= 1

\* No response is given bytes of another, as long as on-stop has not returned a
\* buffer under its writer.
OwnBytes == torn = {} => \A s \in Streams : given[s] \subseteq {s}
===============================================================================
