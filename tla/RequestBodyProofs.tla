-------------------------- MODULE RequestBodyProofs --------------------------
(***************************************************************************)
(* Proofs about the body of a request, for bodies and queues of any size.  *)
(*                                                                         *)
(* The safety property rests on one inductive invariant, IInv.  TypeInv    *)
(* types the state.  TokenInv: the permission to hand over the next chunk  *)
(* is one token, which is with h2o, in the mailbox, with the reader or     *)
(* spent on a chunk not yet read.  ChunkInv: such a chunk is in one place, *)
(* and what was delivered ends right before it.  CloseInv: who closed the  *)
(* channel.  EofInv: an end marker is behind everything, while nobody has  *)
(* closed.                                                                 *)
(***************************************************************************)
EXTENDS RequestBody, TLAPS

TypeInv ==
  /\ queue \in Seq(0..Chunks) /\ Len(queue) <= QueueSize
  /\ {closed, live, wanted, ended} \subseteq BOOLEAN
  /\ current \in [chunk: 0..Chunks, left: 0..Pieces]
  /\ handed \in 0..Chunks /\ consumed \in 0..Chunks
  /\ workerPc \in {"loop", "check", "putChunk", "putEof"}
  /\ item \in [chunk: 0..Chunks, last: BOOLEAN]
  /\ proceeds \in Nat
  /\ readerPc \in {"idle", "load", "exhausted", "take", "recheck", "copy", "proceed", "done"}
  /\ result \in {"none", "data", "eof", "closed", "error"}
  /\ closing \in [{Reader, Worker} -> {"no", "clear", "offer", "drop"}]
  /\ delivered \in Seq((1..Chunks) \X (1..Pieces))

One(b) == IF b THEN 1 ELSE 0
Ahead == handed - consumed

TokenInv ==
  /\ Ahead \in 0..1
  /\ One(wanted) + proceeds + One(readerPc = "proceed") + Ahead <= 1

\* A chunk that is handed over and not read is with the worker, in the queue or current.
WithWorker == workerPc \in {"check", "putChunk"} /\ item.chunk # NoChunk
IsCurrent == current.left > 0

ChunkInv ==
  /\ (workerPc # "loop" /\ ~item.last) => item.chunk # NoChunk
  /\ workerPc = "putChunk" => item.chunk # NoChunk
  /\ workerPc = "putEof" => item.last
  /\ WithWorker => item.chunk = handed /\ Ahead = 1
  /\ \A i \in 1..Len(queue) : queue[i] # Eof =>
       queue[i] = handed /\ Ahead = 1 /\ ~WithWorker
  /\ \A i, j \in 1..Len(queue) : queue[i] # Eof /\ queue[j] # Eof => i = j
  /\ IsCurrent => /\ current.chunk = handed /\ Ahead = 1 /\ ~WithWorker
                  /\ \A i \in 1..Len(queue) : queue[i] = Eof
                  /\ Len(delivered) = Pieces * consumed + (Pieces - current.left)
  /\ (WithWorker \/ \E i \in 1..Len(queue) : queue[i] # Eof)
       => Len(delivered) = Pieces * consumed
  /\ Ahead = 0 => Len(delivered) = Pieces * consumed
  /\ readerPc = "take" => ~IsCurrent

PiecesInv ==
  \A i \in 1..Len(delivered) :
    delivered[i] = <<((i - 1) \div Pieces) + 1, ((i - 1) % Pieces) + 1>>

Closed == closing[Reader] # "no" \/ closing[Worker] # "no"

CloseInv ==
  /\ Closed => closed
  /\ closing[Reader] # "no" => readerPc = "idle"
  /\ ~live => closed
  /\ closing[Worker] # "no" => ~live
  /\ readerPc \in {"load", "exhausted", "take", "copy", "proceed"} /\ live => ~closed

\* Nothing is left to be read.
AllRead == ended /\ Ahead = 0

EofInv ==
  /\ workerPc # "loop" => item.last = ended
  /\ ~closed /\ Ahead = 1 =>
       WithWorker \/ IsCurrent \/ \E i \in 1..Len(queue) : queue[i] # Eof
  /\ ~closed => \A i \in 1..Len(queue) : queue[i] = Eof =>
       ended /\ i = Len(queue) /\ workerPc = "loop"
  /\ readerPc = "recheck" /\ closed /\ live => AllRead
  /\ result = "eof" /\ live => AllRead /\ closed

IInv == TypeInv /\ TokenInv /\ ChunkInv /\ PiecesInv /\ CloseInv /\ EofInv

-----------------------------------------------------------------------------
(* The inductive invariant.                                                *)

\* The queue with an element at its end.
LEMMA AppendIs ==
  ASSUME NEW S, NEW q \in Seq(S), NEW x \in S
  PROVE  /\ Append(q, x) \in Seq(S) /\ Len(Append(q, x)) = Len(q) + 1
         /\ \A i \in 1..Len(q) : Append(q, x)[i] = q[i]
         /\ Append(q, x)[Len(q) + 1] = x
OBVIOUS

\* The queue without its head.
LEMMA TakeIs ==
  ASSUME NEW S, NEW q \in Seq(S), q # <<>>
  PROVE  /\ Head(q) = q[1] /\ Head(q) \in S /\ Len(q) \in Nat \ {0}
         /\ Tail(q) \in Seq(S) /\ Len(Tail(q)) = Len(q) - 1
         /\ \A i \in 1..Len(Tail(q)) : Tail(q)[i] = q[i + 1]
OBVIOUS

\* One sequence after the other.
LEMMA ConcatIs ==
  ASSUME NEW S, NEW p \in Seq(S), NEW q \in Seq(S)
  PROVE  /\ p \o q \in Seq(S) /\ Len(p \o q) = Len(p) + Len(q)
         /\ \A i \in 1..Len(p) : (p \o q)[i] = p[i]
         /\ \A i \in 1..Len(q) : (p \o q)[Len(p) + i] = q[i]
OBVIOUS

\* What a copy delivers.
LEMMA CopyIs ==
  ASSUME IInv, NEW n \in 1..current.left, current # Nil
  PROVE  LET first == Pieces - current.left + 1
             pieces == [i \in 1..n |-> <<current.chunk, first + i - 1>>] IN
         /\ pieces \in Seq((1..Chunks) \X (1..Pieces))
         /\ delivered \o pieces \in Seq((1..Chunks) \X (1..Pieces))
         /\ Len(delivered \o pieces) = Len(delivered) + n
         /\ \A i \in 1..Len(delivered) : (delivered \o pieces)[i] = delivered[i]
         /\ \A i \in 1..n : (delivered \o pieces)[Len(delivered) + i]
                              = <<current.chunk, first + i - 1>>
<1> DEFINE first == Pieces - current.left + 1
           pieces == [i \in 1..n |-> <<current.chunk, first + i - 1>>]
<1>1. /\ current.chunk \in 1..Chunks /\ current.left \in 1..Pieces /\ n \in Nat
  BY BodyAssumption DEF IInv, TypeInv, ChunkInv, TokenInv, Ahead, IsCurrent, Pieces
<1>2. \A i \in 1..n : <<current.chunk, first + i - 1>> \in (1..Chunks) \X (1..Pieces)
  BY <1>1 DEF Pieces
<1>3. pieces \in Seq((1..Chunks) \X (1..Pieces)) /\ Len(pieces) = n
  <2> HIDE DEF first
  <2> QED
    BY <1>1, <1>2
<1>4. delivered \in Seq((1..Chunks) \X (1..Pieces))
  BY DEF IInv, TypeInv
<1>5. \A i \in 1..n : pieces[i] = <<current.chunk, first + i - 1>>
  OBVIOUS
<1> HIDE DEF pieces
<1>6. /\ delivered \o pieces \in Seq((1..Chunks) \X (1..Pieces))
      /\ Len(delivered \o pieces) = Len(delivered) + n
      /\ \A i \in 1..Len(delivered) : (delivered \o pieces)[i] = delivered[i]
      /\ \A i \in 1..n : (delivered \o pieces)[Len(delivered) + i] = pieces[i]
  <2> DEFINE S == (1..Chunks) \X (1..Pieces)
  <2>1. delivered \in Seq(S) /\ pieces \in Seq(S) /\ Len(pieces) = n
    BY <1>3, <1>4
  <2> HIDE DEF S
  <2>2. /\ delivered \o pieces \in Seq(S)
        /\ Len(delivered \o pieces) = Len(delivered) + n
        /\ \A i \in 1..Len(delivered) : (delivered \o pieces)[i] = delivered[i]
        /\ \A i \in 1..n : (delivered \o pieces)[Len(delivered) + i] = pieces[i]
    BY <2>1, ConcatIs
  <2> QED
    BY <2>2 DEF S
<1> QED
  BY <1>3, <1>5, <1>6 DEF pieces

LEMMA InitInv == Init => IInv
<1> SUFFICES ASSUME Init PROVE IInv
  OBVIOUS
<1> USE BodyAssumption DEF Init, Nil, NoChunk, Eof, Pieces
<1>1. TypeInv
  <2>1. queue \in Seq(0..Chunks) /\ delivered \in Seq((1..Chunks) \X (1..Pieces)) /\ Len(queue) = 0
    OBVIOUS
  <2>2. closing \in [{Reader, Worker} -> {"no", "clear", "offer", "drop"}]
    OBVIOUS
  <2>3. /\ current \in [chunk: 0..Chunks, left: 0..Pieces]
        /\ item \in [chunk: 0..Chunks, last: BOOLEAN]
    OBVIOUS
  <2>4. closed \in BOOLEAN /\ live \in BOOLEAN /\ wanted \in BOOLEAN /\ ended \in BOOLEAN
    OBVIOUS
  <2>5. /\ Len(queue) <= QueueSize /\ handed \in 0..Chunks /\ consumed \in 0..Chunks
        /\ workerPc = "loop" /\ proceeds \in Nat /\ readerPc = "idle" /\ result = "none"
    BY <2>1
  <2> HIDE DEF Init
  <2> QED
    BY <2>1, <2>2, <2>3, <2>4, <2>5 DEF TypeInv
<1>2. TokenInv
  BY DEF TokenInv, One, Ahead
<1>3. ChunkInv
  BY DEF ChunkInv, WithWorker, IsCurrent, Ahead
<1>4. PiecesInv /\ CloseInv /\ EofInv
  BY DEF PiecesInv, CloseInv, EofInv, Closed, Ahead
<1> QED
  BY <1>1, <1>2, <1>3, <1>4 DEF IInv

\* Every step keeps the types.
LEMMA TypeStep ==
  ASSUME IInv, [Next]_vars
  PROVE  TypeInv'
<1> USE BodyAssumption
<1> USE DEF TypeInv, Nil, NoChunk, Eof, Pieces, vars, queueVars, h2oVars,
       workerVars, readerVars
<1>0. TypeInv /\ TokenInv /\ ChunkInv
  BY DEF IInv
<1> USE <1>0
<1>1. CASE BodyCallback
  <2>1. item' \in [chunk: 0..Chunks, last: BOOLEAN] /\ handed' \in 0..Chunks
        /\ ended' \in BOOLEAN
    <3> PICK chunk \in {NoChunk, handed + 1}, last \in BOOLEAN :
          /\ chunk <= Chunks
          /\ item' = [chunk |-> chunk, last |-> last]
          /\ handed' = IF chunk = NoChunk THEN handed ELSE chunk
          /\ ended' = last
      BY <1>1 DEF BodyCallback, WorkerIdle
    <3> QED
      OBVIOUS
  <2>2. UNCHANGED <<queueVars, live, proceeds, readerVars, closing>> /\ wanted' = FALSE
        /\ workerPc' = "check"
    BY <1>1 DEF BodyCallback, WorkerIdle
  <2> QED
    BY <2>1, <2>2
<1>2. CASE Cleanup
  BY <1>2 DEF Cleanup, WorkerIdle
<1>3. CASE WriteChunk
  BY <1>3 DEF WriteChunk
<1>4. CASE PutChunk
  <2>1. queue' \in Seq(0..Chunks) /\ Len(queue') = Len(queue) + 1
    BY <1>4, AppendIs DEF PutChunk
  <2> QED
    BY <1>4, <2>1 DEF PutChunk
<1>5. CASE PutEof
  <2>1. queue' \in Seq(0..Chunks) /\ Len(queue') = Len(queue) + 1
    BY <1>5, AppendIs DEF PutEof
  <2> QED
    BY <1>5, <2>1 DEF PutEof
<1>6. CASE HandleProceed
  BY <1>6 DEF HandleProceed, WorkerIdle
<1>7. CASE Read
  BY <1>7 DEF Read, ReaderIdle, Return
<1>8. CASE CloseBody
  BY <1>8 DEF CloseBody, ReaderIdle
<1>9. CASE HandlerReturns
  BY <1>9 DEF HandlerReturns, ReaderIdle
<1>10. CASE Load
  BY <1>10 DEF Load
<1>11. CASE Exhausted
  BY <1>11 DEF Exhausted, Return
<1>12. CASE Take
  <2>1. Head(queue) \in 0..Chunks /\ Tail(queue) \in Seq(0..Chunks)
        /\ Len(Tail(queue)) = Len(queue) - 1 /\ Len(queue) \in Nat
    <3>1. queue \in Seq(0..Chunks) /\ queue # <<>>
      BY <1>12 DEF Take
    <3> HIDE <1>0
    <3> QED
      BY <3>1, TakeIs
  <2>2. queue' = Tail(queue) /\ readerPc' = "recheck"
        /\ UNCHANGED <<h2oVars, workerVars, result, delivered, consumed, closing>>
    BY <1>12 DEF Take
  <2>3. closed' \in BOOLEAN /\ current' \in [chunk: 0..Chunks, left: 0..Pieces]
    <3>1. CASE Head(queue) = Eof
      BY <1>12, <3>1 DEF Take
    <3>2. CASE Head(queue) # Eof
      <4>1. current' = [chunk |-> Head(queue), left |-> Pieces] /\ closed' = closed
        BY <1>12, <3>2 DEF Take
      <4>2. closed' \in BOOLEAN
        BY <4>1
      <4>3. Pieces \in 0..Pieces
        OBVIOUS
      <4>4. current' \in [chunk: 0..Chunks, left: 0..Pieces]
        <5>1. Head(queue) \in 0..Chunks
          BY ONLY <2>1, Zenon
        <5> QED
          BY ONLY <4>1, <4>3, <5>1
      <4> QED
        BY <4>2, <4>4
    <3> QED
      BY <3>1, <3>2
  <2>4. queue' \in Seq(0..Chunks) /\ Len(queue') <= QueueSize
    <3>1. Len(queue) <= QueueSize /\ QueueSize \in Nat
      OBVIOUS
    <3>2. Len(queue) - 1 <= QueueSize
      BY <2>1, <3>1
    <3> HIDE <1>0
    <3> QED
      BY <2>1, <2>2, <3>2
  <2> QED
    BY <2>2, <2>3, <2>4
<1>13. CASE Recheck
  BY <1>13 DEF Recheck, Return
<1>14. CASE Copy
  <2>1. CASE current = Nil
    BY <1>14, <2>1 DEF Copy, Return
  <2>2. CASE current # Nil
    <3>1. PICK n \in 1..current.left :
            /\ current' = [current EXCEPT !.left = @ - n]
            /\ delivered' = delivered \o [i \in 1..n |->
                 <<current.chunk, (Pieces - current.left + 1) + i - 1>>]
            /\ IF n = current.left
               THEN consumed' = consumed + 1 /\ readerPc' = "proceed" /\ UNCHANGED result
               ELSE Return("data") /\ UNCHANGED consumed
      BY <1>14, <2>2 DEF Copy
    <3>2. delivered' \in Seq((1..Chunks) \X (1..Pieces))
      BY <2>2, <3>1, CopyIs
    <3>3. current.left > 0 /\ consumed + 1 <= handed
      <4>0. current.left > 0
        OBVIOUS
      <4>1. Ahead = 1
        BY ONLY <1>0, <4>0 DEF ChunkInv, IsCurrent
      <4>2. handed \in Nat /\ consumed \in Nat
        OBVIOUS
      <4> QED
        BY ONLY <4>0, <4>1, <4>2 DEF Ahead
    <3>4. current' \in [chunk: 0..Chunks, left: 0..Pieces]
      <4>1. current.left - n \in 0..Pieces
        OBVIOUS
      <4> QED
        BY <3>1, <4>1
    <3>5. consumed' \in 0..Chunks /\ readerPc' \in {"idle", "proceed"}
          /\ result' \in {"none", "data", "eof", "closed", "error"}
      BY <3>1, <3>3 DEF Return
    <3>6. UNCHANGED <<queue, closed, h2oVars, workerVars, closing>>
      BY <1>14 DEF Copy
    <3> QED
      BY <3>2, <3>4, <3>5, <3>6
  <2> QED
    BY <2>1, <2>2
<1>15. CASE Proceed
  BY <1>15 DEF Proceed, Return
<1>16. ASSUME NEW t \in {Reader, Worker}, Closing(t)
       PROVE  TypeInv'
  <2>1. CASE CloseClear(t)
    BY <2>1 DEF CloseClear
  <2>2. CASE CloseOffer(t)
    <3>1. CASE Len(queue) < QueueSize
      <4>1. queue' \in Seq(0..Chunks) /\ Len(queue') = Len(queue) + 1
        BY <2>2, <3>1, AppendIs DEF CloseOffer
      <4> QED
        BY <2>2, <3>1, <4>1 DEF CloseOffer
    <3>2. CASE ~(Len(queue) < QueueSize)
      BY <2>2, <3>2 DEF CloseOffer
    <3> QED
      BY <3>1, <3>2
  <2>3. CASE CloseDrop(t)
    BY <2>3 DEF CloseDrop
  <2> QED
    BY <1>16, <2>1, <2>2, <2>3 DEF Closing
<1>17. CASE UNCHANGED vars
  BY <1>17
<1> QED
  BY <1>1, <1>2, <1>3, <1>4, <1>5, <1>6, <1>7, <1>8, <1>9, <1>10, <1>11, <1>12,
         <1>13, <1>14, <1>15, <1>16, <1>17 DEF Next, WorkerSteps, ReaderSteps

\* There is one token.
LEMMA TokenStep ==
  ASSUME IInv, [Next]_vars
  PROVE  TokenInv'
<1> USE DEF TokenInv, One, Ahead, NoChunk, vars, queueVars, h2oVars, workerVars,
       readerVars
<1>0. /\ ChunkInv /\ TokenInv
      /\ handed \in Nat /\ consumed \in Nat /\ Len(delivered) \in Nat
      /\ proceeds \in Nat /\ wanted \in BOOLEAN
      /\ Len(queue) \in Nat /\ queue \in Seq(0..Chunks)
      /\ item.chunk \in 0..Chunks /\ current.left \in 0..2 /\ item.last \in BOOLEAN
  BY BodyAssumption DEF IInv, TypeInv, Pieces
<1> USE <1>0
<1>1. CASE BodyCallback
  <2>0. handed' \in {handed, handed + 1}
    BY <1>1 DEF BodyCallback, WorkerIdle
  <2>1. wanted /\ wanted' = FALSE /\ handed' \in {handed, handed + 1}
        /\ UNCHANGED <<consumed, proceeds, readerPc>>
    BY <1>1, <2>0 DEF BodyCallback, WorkerIdle
  <2>2. Ahead = 0 /\ proceeds = 0 /\ readerPc # "proceed" /\ One(readerPc = "proceed") = 0
    <3>1. wanted
      BY <2>1
    <3>2. CASE readerPc = "proceed"
      BY <3>1, <3>2
    <3>3. CASE readerPc # "proceed"
      BY <3>1, <3>3
    <3> QED
      BY <3>2, <3>3
  <2>3. handed - consumed = 0 /\ proceeds = 0
    BY <2>2
  <2> HIDE DEF TokenInv, One, Ahead
  <2>4. handed' - consumed' \in 0..1
    <3>1. consumed' = consumed
      BY <2>1
    <3>2. CASE handed' = handed
      BY <2>3, <3>1, <3>2
    <3>3. CASE handed' = handed + 1
      <4>1. (handed + 1) - consumed = 1
        BY <2>3
      <4> QED
        BY <3>1, <3>3, <4>1
    <3> QED
      BY <2>1, <3>2, <3>3
  <2>5. Ahead' \in 0..1 /\ One(wanted') = 0 /\ One(readerPc' = "proceed") = 0 /\ proceeds' = 0
    BY <2>1, <2>2, <2>4 DEF One, Ahead
  <2> QED
    BY <2>5 DEF TokenInv
<1>2. CASE Cleanup
  BY <1>2 DEF Cleanup, WorkerIdle
<1>3. CASE WriteChunk
  BY <1>3 DEF WriteChunk
<1>4. CASE PutChunk
  BY <1>4 DEF PutChunk
<1>5. CASE PutEof
  BY <1>5 DEF PutEof
<1>6. CASE HandleProceed
  BY <1>6 DEF HandleProceed, WorkerIdle
<1>7. CASE Read
  BY <1>7 DEF Read, ReaderIdle, Return
<1>8. CASE CloseBody
  BY <1>8 DEF CloseBody, ReaderIdle
<1>9. CASE HandlerReturns
  BY <1>9 DEF HandlerReturns, ReaderIdle
<1>10. CASE Load
  BY <1>10 DEF Load
<1>11. CASE Exhausted
  BY <1>11 DEF Exhausted, Return
<1>12. CASE Take
  BY <1>12 DEF Take
<1>13. CASE Recheck
  BY <1>13 DEF Recheck, Return
<1>14. CASE Copy
  <2>1. CASE current = Nil
    BY <1>14, <2>1 DEF Copy, Return
  <2>2. CASE current # Nil
    <3> PICK n \in 1..current.left :
          IF n = current.left
          THEN consumed' = consumed + 1 /\ readerPc' = "proceed" /\ UNCHANGED result
          ELSE Return("data") /\ UNCHANGED consumed
      BY <1>14, <2>2 DEF Copy
    <3>1. /\ UNCHANGED <<handed, wanted, proceeds>> /\ readerPc = "copy"
          /\ \/ consumed' = consumed + 1 /\ readerPc' = "proceed" /\ current.left > 0
             \/ consumed' = consumed /\ readerPc' = "idle"
      BY <1>14 DEF Copy, Return
    <3>2. current.left > 0 => Ahead = 1
      BY DEF ChunkInv, IsCurrent
    <3> QED
      BY <3>1, <3>2
  <2> QED
    BY <2>1, <2>2
<1>15. CASE Proceed
  <2>1. /\ readerPc = "proceed" /\ readerPc' = "idle" /\ proceeds' \in {proceeds, proceeds + 1}
        /\ UNCHANGED <<handed, consumed, wanted>>
    BY <1>15 DEF Proceed, Return
  <2>2. Ahead = 0 /\ proceeds = 0 /\ ~wanted
    BY <2>1
  <2>3. handed - consumed = 0 /\ proceeds' \in {0, 1}
    BY <2>1, <2>2
  <2> HIDE DEF TokenInv, One, Ahead
  <2>4. Ahead' = 0 /\ One(wanted') = 0 /\ One(readerPc' = "proceed") = 0
    BY <2>1, <2>2, <2>3 DEF One, Ahead
  <2> QED
    BY <2>3, <2>4 DEF TokenInv
<1>16. ASSUME NEW t \in {Reader, Worker}, Closing(t)
       PROVE  TokenInv'
  <2>1. CASE CloseClear(t)
    BY <2>1 DEF CloseClear
  <2>2. CASE CloseOffer(t)
    BY <2>2 DEF CloseOffer
  <2>3. CASE CloseDrop(t)
    BY <2>3 DEF CloseDrop
  <2> QED
    BY <1>16, <2>1, <2>2, <2>3 DEF Closing
<1>17. CASE UNCHANGED vars
  BY <1>17
<1> QED
  BY <1>1, <1>2, <1>3, <1>4, <1>5, <1>6, <1>7, <1>8, <1>9, <1>10, <1>11, <1>12,
         <1>13, <1>14, <1>15, <1>16, <1>17 DEF Next, WorkerSteps, ReaderSteps

\* What ChunkInv speaks of is left alone.
LEMMA ChunkFrame ==
  ASSUME ChunkInv, UNCHANGED <<queue, current, delivered, handed, consumed, workerPc, item>>,
         readerPc' = "take" => readerPc = "take" \/ ~IsCurrent
  PROVE  ChunkInv'
BY DEF ChunkInv, WithWorker, IsCurrent, Ahead

\* A chunk is in one place until it is read.
LEMMA ChunkStep ==
  ASSUME IInv, [Next]_vars
  PROVE  ChunkInv'
<1> USE DEF vars, queueVars, h2oVars, workerVars, readerVars
<1>0. /\ ChunkInv /\ TokenInv
      /\ handed \in Nat /\ consumed \in Nat /\ Len(delivered) \in Nat
      /\ proceeds \in Nat /\ wanted \in BOOLEAN
      /\ Len(queue) \in Nat /\ queue \in Seq(0..Chunks)
      /\ item.chunk \in 0..Chunks /\ current.left \in 0..2 /\ item.last \in BOOLEAN
  BY BodyAssumption DEF IInv, TypeInv, Pieces
<1> USE <1>0
<1>1. CASE BodyCallback
  <2>1. /\ wanted /\ workerPc = "loop" /\ workerPc' = "check"
        /\ UNCHANGED <<queue, current, delivered, consumed, readerPc>>
        /\ \/ item'.chunk = NoChunk /\ item'.last /\ handed' = handed
           \/ item'.chunk = handed + 1 /\ handed' = handed + 1
    <3> PICK chunk \in {NoChunk, handed + 1}, last \in BOOLEAN :
          /\ chunk = NoChunk => last
          /\ item' = [chunk |-> chunk, last |-> last]
          /\ handed' = IF chunk = NoChunk THEN handed ELSE chunk
      BY <1>1 DEF BodyCallback, WorkerIdle
    <3>1. item'.chunk = chunk /\ item'.last = last
      OBVIOUS
    <3>2. \/ item'.chunk = NoChunk /\ item'.last /\ handed' = handed
          \/ item'.chunk = handed + 1 /\ handed' = handed + 1
      BY <3>1 DEF NoChunk
    <3> QED
      BY <1>1, <3>2 DEF BodyCallback, WorkerIdle
  <2>2. Ahead = 0
    BY <2>1 DEF TokenInv, One, Ahead
  <2>3. Ahead' = handed' - consumed
    BY <2>1 DEF Ahead
  <2>4. /\ ~IsCurrent /\ \A i \in 1..Len(queue) : queue[i] = Eof
        /\ Len(delivered) = Pieces * consumed
    BY <2>2 DEF ChunkInv
  <2> QED
    BY <2>1, <2>2, <2>3, <2>4 DEF ChunkInv, WithWorker, IsCurrent, Ahead, NoChunk
<1>2. CASE Cleanup
  <2>1. /\ UNCHANGED <<queue, current, delivered, handed, consumed, workerPc, item>>
        /\ readerPc' = "take" => readerPc = "take"
    BY <1>2 DEF Cleanup, WorkerIdle, Return
  <2> QED
    BY <2>1, ChunkFrame
<1>3. CASE WriteChunk
  BY <1>3 DEF WriteChunk, ChunkInv, WithWorker, IsCurrent, Ahead
<1>4. CASE PutChunk
  <2>1. /\ workerPc = "putChunk" /\ workerPc' \in {"putEof", "loop"}
        /\ workerPc' = "putEof" => item.last
        /\ UNCHANGED <<current, delivered, handed, consumed, readerPc, item>>
        /\ queue' = Append(queue, item.chunk)
    BY <1>4 DEF PutChunk
  <2>2. item.chunk = handed /\ item.chunk # NoChunk /\ Ahead = 1 /\ WithWorker
    BY <2>1 DEF ChunkInv, WithWorker
  <2>3. /\ Len(queue') = Len(queue) + 1 /\ Len(queue) \in Nat
        /\ \A i \in 1..Len(queue) : queue'[i] = queue[i]
        /\ queue'[Len(queue) + 1] = handed
    BY <2>1, <2>2, AppendIs
  <2>4. /\ ~IsCurrent /\ \A i \in 1..Len(queue) : queue[i] = Eof
        /\ Len(delivered) = Pieces * consumed
    BY <2>2 DEF ChunkInv
  <2>5. ASSUME NEW i \in 1..Len(queue'), i # Len(queue) + 1
        PROVE  queue'[i] = Eof
    <3>1. i \in 1..Len(queue)
      BY <2>3, <2>5
    <3> QED
      BY <2>3, <2>4, <3>1
  <2>6. Ahead' = 1 /\ ~IsCurrent' /\ ~WithWorker'
    BY <2>1, <2>2, <2>4 DEF Ahead, IsCurrent, WithWorker
  <2> QED
    BY <2>1, <2>2, <2>3, <2>4, <2>5, <2>6 DEF ChunkInv
<1>5. CASE PutEof
  <2>1. /\ workerPc = "putEof" /\ workerPc' = "loop"
        /\ UNCHANGED <<current, delivered, handed, consumed, readerPc, item>>
        /\ queue' = Append(queue, Eof)
    BY <1>5 DEF PutEof
  <2>2. /\ Len(queue') = Len(queue) + 1 /\ Len(queue) \in Nat
        /\ \A i \in 1..Len(queue) : queue'[i] = queue[i]
        /\ queue'[Len(queue) + 1] = Eof
    BY <2>1, AppendIs DEF Eof
  <2>3. \A i \in 1..Len(queue') : queue'[i] # Eof => i \in 1..Len(queue) /\ queue[i] = queue'[i]
    BY <2>2
  <2>4. ~WithWorker /\ ~WithWorker' /\ IsCurrent' = IsCurrent /\ Ahead' = Ahead
    BY <2>1 DEF Ahead, IsCurrent, WithWorker
  <2> QED
    BY <2>1, <2>3, <2>4 DEF ChunkInv
<1>6. CASE HandleProceed
  <2>1. /\ UNCHANGED <<queue, current, delivered, handed, consumed, workerPc, item>>
        /\ readerPc' = "take" => readerPc = "take"
    BY <1>6 DEF HandleProceed, WorkerIdle, Return
  <2> QED
    BY <2>1, ChunkFrame
<1>7. CASE Read
  <2>1. /\ UNCHANGED <<queue, current, delivered, handed, consumed, workerPc, item>>
        /\ readerPc' = "take" => readerPc = "take"
    BY <1>7 DEF Read, ReaderIdle, Return
  <2> QED
    BY <2>1, ChunkFrame
<1>8. CASE CloseBody
  <2>1. /\ UNCHANGED <<queue, current, delivered, handed, consumed, workerPc, item>>
        /\ readerPc' = "take" => readerPc = "take"
    BY <1>8 DEF CloseBody, ReaderIdle, Return
  <2> QED
    BY <2>1, ChunkFrame
<1>9. CASE HandlerReturns
  <2>1. /\ UNCHANGED <<queue, current, delivered, handed, consumed, workerPc, item>>
        /\ readerPc' = "take" => readerPc = "take"
    BY <1>9 DEF HandlerReturns, ReaderIdle, Return
  <2> QED
    BY <2>1, ChunkFrame
<1>10. CASE Load
  <2>1. /\ UNCHANGED <<queue, current, delivered, handed, consumed, workerPc, item>>
        /\ readerPc' = "take" => ~IsCurrent
    BY <1>10 DEF Load, Return, Nil, IsCurrent
  <2> QED
    BY <2>1, ChunkFrame
<1>11. CASE Exhausted
  <2>1. /\ UNCHANGED <<queue, current, delivered, handed, consumed, workerPc, item>>
        /\ readerPc' = "take" => ~IsCurrent
    BY <1>11 DEF Exhausted, Return, Nil, IsCurrent
  <2> QED
    BY <2>1, ChunkFrame
<1>12. CASE Take
  <2>1. /\ readerPc = "take" /\ readerPc' = "recheck" /\ queue # <<>> /\ queue' = Tail(queue)
        /\ UNCHANGED <<delivered, handed, consumed, item, workerPc>>
    BY <1>12 DEF Take
  <2>2. /\ Head(queue) = queue[1] /\ Len(queue) \in Nat \ {0} /\ Len(queue') = Len(queue) - 1
        /\ \A i \in 1..Len(queue') : queue'[i] = queue[i + 1] /\ i + 1 \in 1..Len(queue)
    BY <2>1, TakeIs
  <2>3. CASE Head(queue) = Eof
    <3>1. current' = current
      BY <1>12, <2>3 DEF Take
    <3>2. WithWorker' = WithWorker /\ IsCurrent' = IsCurrent /\ Ahead' = Ahead /\ ~IsCurrent
      BY <2>1, <3>1 DEF Ahead, IsCurrent, WithWorker, ChunkInv
    <3>3. \A i \in 1..Len(queue') : i + 1 \in 1..Len(queue) /\ queue'[i] = queue[i + 1]
      BY <2>2
    <3>4. \A i, j \in 1..Len(queue') : i + 1 = j + 1 => i = j
      BY <2>2
    <3> HIDE <2>2
    <3> QED
      BY <2>1, <3>1, <3>2, <3>3, <3>4 DEF ChunkInv
  <2>4. CASE Head(queue) # Eof
    <3>1. current' = [chunk |-> queue[1], left |-> Pieces]
      BY <1>12, <2>2, <2>4 DEF Take
    <3>2. /\ queue[1] = handed /\ Ahead = 1 /\ ~WithWorker /\ 1 \in 1..Len(queue)
          /\ Len(delivered) = Pieces * consumed
      BY <2>2, <2>4 DEF ChunkInv
    <3>3. ASSUME NEW i \in 1..Len(queue')
          PROVE  queue'[i] = Eof
      <4>1. queue'[i] = queue[i + 1] /\ i + 1 \in 1..Len(queue) /\ i + 1 # 1
        BY <2>2
      <4>2. queue[1] # Eof
        BY <2>2, <2>4
      <4>3. \A j, k \in 1..Len(queue) : queue[j] # Eof /\ queue[k] # Eof => j = k
        BY DEF ChunkInv
      <4>4. 1 \in 1..Len(queue)
        BY <3>2
      <4>5. queue[i + 1] = Eof
        BY <4>1, <4>2, <4>3, <4>4
      <4> QED
        BY <4>1, <4>5
    <3>4. IsCurrent' /\ current'.chunk = handed /\ current'.left = Pieces
      BY <3>1, <3>2 DEF IsCurrent, Pieces
    <3>5. /\ Ahead' = 1 /\ ~WithWorker'
          /\ Len(delivered) = Pieces * consumed + (Pieces - current'.left)
      BY <2>1, <3>2, <3>4 DEF Ahead, WithWorker, Pieces
    <3> QED
      BY <2>1, <3>2, <3>3, <3>4, <3>5 DEF ChunkInv
  <2> QED
    BY <2>3, <2>4
<1>13. CASE Recheck
  <2>1. /\ UNCHANGED <<queue, current, delivered, handed, consumed, workerPc, item>>
        /\ readerPc' = "take" => readerPc = "take"
    BY <1>13 DEF Recheck, Return
  <2> QED
    BY <2>1, ChunkFrame
<1>14. CASE Copy
  <2>1. CASE current = Nil
    <3>1. /\ UNCHANGED <<queue, current, delivered, handed, consumed, workerPc, item>>
          /\ readerPc' # "take"
      BY <1>14, <2>1 DEF Copy, Return
    <3> QED
      BY <3>1, ChunkFrame
  <2>2. CASE current # Nil
    <3>1. PICK n \in 1..current.left :
            /\ current' = [current EXCEPT !.left = @ - n]
            /\ delivered' = delivered \o [i \in 1..n |->
                 <<current.chunk, (Pieces - current.left + 1) + i - 1>>]
            /\ IF n = current.left
               THEN consumed' = consumed + 1 /\ readerPc' = "proceed" /\ UNCHANGED result
               ELSE Return("data") /\ UNCHANGED consumed
      BY <1>14, <2>2 DEF Copy
    <3>2. Len(delivered') = Len(delivered) + n /\ Len(delivered) \in Nat /\ n \in Nat
      BY <2>2, <3>1, CopyIs
    <3>3. /\ current.chunk = handed /\ Ahead = 1 /\ ~WithWorker
          /\ (\A i \in 1..Len(queue) : queue[i] = Eof)
          /\ Len(delivered) = Pieces * consumed + (Pieces - current.left)
      BY <3>1 DEF ChunkInv, IsCurrent
    <3>4. /\ UNCHANGED <<queue, handed, workerPc, item>> /\ readerPc' # "take"
      BY <1>14, <3>1 DEF Copy, Return
    <3>5. current'.chunk = current.chunk /\ current'.left = current.left - n
      BY <3>1
    <3>6. CASE n = current.left
      <4>1. consumed' = consumed + 1
        BY <3>1, <3>6
      <4>2. Ahead' = 0
        BY <3>3, <3>4, <4>1 DEF Ahead
      <4>3. ~IsCurrent'
        BY <3>5, <3>6 DEF IsCurrent
      <4>4. Len(delivered') = Pieces * consumed'
        BY <3>2, <3>3, <3>6, <4>1 DEF Pieces
      <4> QED
        BY <3>3, <3>4, <4>1, <4>2, <4>3, <4>4 DEF ChunkInv, WithWorker
    <3>7. CASE n # current.left
      <4>1. consumed' = consumed /\ IsCurrent' /\ Ahead' = 1
            /\ Len(delivered') = Pieces * consumed + (Pieces - current'.left)
        BY <3>1, <3>2, <3>3, <3>4, <3>5, <3>7 DEF IsCurrent, Ahead, Pieces
      <4> QED
        BY <3>3, <3>4, <3>5, <4>1 DEF ChunkInv, WithWorker
    <3> QED
      BY <3>6, <3>7
  <2> QED
    BY <2>1, <2>2
<1>15. CASE Proceed
  <2>1. /\ UNCHANGED <<queue, current, delivered, handed, consumed, workerPc, item>>
        /\ readerPc' = "take" => readerPc = "take"
    BY <1>15 DEF Proceed, Return
  <2> QED
    BY <2>1, ChunkFrame
<1>16. ASSUME NEW t \in {Reader, Worker}, Closing(t)
       PROVE  ChunkInv'
  <2>1. CASE CloseClear(t)
    <3>1. /\ UNCHANGED <<current, delivered, handed, consumed, readerPc, item, workerPc>>
          /\ \A i \in 1..Len(queue') : FALSE
      BY <2>1 DEF CloseClear
    <3> QED
      BY <3>1 DEF ChunkInv, WithWorker, IsCurrent, Ahead
  <2>2. CASE CloseOffer(t)
    <3>1. /\ UNCHANGED <<current, delivered, handed, consumed, readerPc, item, workerPc>>
          /\ queue' = Append(queue, Eof) \/ queue' = queue
      BY <2>2 DEF CloseOffer
    <3>2. \A i \in 1..Len(queue') : queue'[i] # Eof => i \in 1..Len(queue) /\ queue[i] = queue'[i]
      <4>1. /\ Len(Append(queue, Eof)) = Len(queue) + 1 /\ Len(queue) \in Nat
            /\ \A i \in 1..Len(queue) : Append(queue, Eof)[i] = queue[i]
            /\ Append(queue, Eof)[Len(queue) + 1] = Eof
        BY AppendIs DEF Eof
      <4>2. \A i \in 1..Len(Append(queue, Eof)) : i \in 1..Len(queue) \/ i = Len(queue) + 1
        BY <4>1
      <4> QED
        BY <3>1, <4>1, <4>2
    <3>3. WithWorker' = WithWorker /\ IsCurrent' = IsCurrent /\ Ahead' = Ahead
      BY <3>1 DEF Ahead, IsCurrent, WithWorker
    <3> QED
      BY <3>1, <3>2, <3>3 DEF ChunkInv
  <2>3. CASE CloseDrop(t)
    <3>1. /\ UNCHANGED <<queue, delivered, handed, consumed, readerPc, item, workerPc>>
          /\ ~IsCurrent'
      BY <2>3 DEF CloseDrop, IsCurrent, Nil
    <3> QED
      BY <3>1 DEF ChunkInv, WithWorker, Ahead
  <2> QED
    BY <1>16, <2>1, <2>2, <2>3 DEF Closing
<1>17. CASE UNCHANGED vars
  BY <1>17, ChunkFrame
<1> QED
  BY <1>1, <1>2, <1>3, <1>4, <1>5, <1>6, <1>7, <1>8, <1>9, <1>10, <1>11, <1>12,
         <1>13, <1>14, <1>15, <1>16, <1>17 DEF Next, WorkerSteps, ReaderSteps

\* What is delivered stays, and a copy continues it.
LEMMA PiecesStep ==
  ASSUME IInv, [Next]_vars
  PROVE  PiecesInv'
<1> USE DEF vars, queueVars, h2oVars, workerVars, readerVars
<1>0. /\ ChunkInv /\ TokenInv /\ PiecesInv
      /\ handed \in Nat /\ consumed \in Nat /\ Len(delivered) \in Nat
      /\ proceeds \in Nat /\ wanted \in BOOLEAN
      /\ Len(queue) \in Nat /\ queue \in Seq(0..Chunks)
      /\ item.chunk \in 0..Chunks /\ current.left \in 0..2 /\ item.last \in BOOLEAN
  BY BodyAssumption DEF IInv, TypeInv, Pieces
<1> USE <1>0
<1>1. CASE BodyCallback
  <2>1. delivered' = delivered
    BY <1>1 DEF BodyCallback, WorkerIdle, Return
  <2> QED
    BY <2>1 DEF PiecesInv
<1>2. CASE Cleanup
  <2>1. delivered' = delivered
    BY <1>2 DEF Cleanup, WorkerIdle, Return
  <2> QED
    BY <2>1 DEF PiecesInv
<1>3. CASE WriteChunk
  <2>1. delivered' = delivered
    BY <1>3 DEF WriteChunk, Return
  <2> QED
    BY <2>1 DEF PiecesInv
<1>4. CASE PutChunk
  <2>1. delivered' = delivered
    BY <1>4 DEF PutChunk, Return
  <2> QED
    BY <2>1 DEF PiecesInv
<1>5. CASE PutEof
  <2>1. delivered' = delivered
    BY <1>5 DEF PutEof, Return
  <2> QED
    BY <2>1 DEF PiecesInv
<1>6. CASE HandleProceed
  <2>1. delivered' = delivered
    BY <1>6 DEF HandleProceed, WorkerIdle, Return
  <2> QED
    BY <2>1 DEF PiecesInv
<1>7. CASE Read
  <2>1. delivered' = delivered
    BY <1>7 DEF Read, ReaderIdle, Return
  <2> QED
    BY <2>1 DEF PiecesInv
<1>8. CASE CloseBody
  <2>1. delivered' = delivered
    BY <1>8 DEF CloseBody, ReaderIdle, Return
  <2> QED
    BY <2>1 DEF PiecesInv
<1>9. CASE HandlerReturns
  <2>1. delivered' = delivered
    BY <1>9 DEF HandlerReturns, ReaderIdle, Return
  <2> QED
    BY <2>1 DEF PiecesInv
<1>10. CASE Load
  <2>1. delivered' = delivered
    BY <1>10 DEF Load, Return
  <2> QED
    BY <2>1 DEF PiecesInv
<1>11. CASE Exhausted
  <2>1. delivered' = delivered
    BY <1>11 DEF Exhausted, Return
  <2> QED
    BY <2>1 DEF PiecesInv
<1>12. CASE Take
  <2>1. delivered' = delivered
    BY <1>12 DEF Take, Return
  <2> QED
    BY <2>1 DEF PiecesInv
<1>13. CASE Recheck
  <2>1. delivered' = delivered
    BY <1>13 DEF Recheck, Return
  <2> QED
    BY <2>1 DEF PiecesInv
<1>14. CASE Copy
  <2>1. CASE current = Nil
    <3>1. delivered' = delivered
      BY <1>14, <2>1 DEF Copy
    <3> QED
      BY <3>1 DEF PiecesInv
  <2>2. CASE current # Nil
    <3>1. PICK n \in 1..current.left :
            delivered' = delivered \o [i \in 1..n |->
              <<current.chunk, (Pieces - current.left + 1) + i - 1>>]
      BY <1>14, <2>2 DEF Copy
    <3>2. /\ Len(delivered') = Len(delivered) + n /\ Len(delivered) \in Nat /\ n \in Nat
          /\ \A i \in 1..Len(delivered) : delivered'[i] = delivered[i]
          /\ \A i \in 1..n : delivered'[Len(delivered) + i]
                              = <<current.chunk, (Pieces - current.left + 1) + i - 1>>
      BY <2>2, <3>1, CopyIs
    <3>3. /\ current.chunk = consumed + 1 /\ consumed \in Nat /\ current.left \in 1..2
          /\ Len(delivered) = 2 * consumed + (2 - current.left)
      BY <3>1 DEF ChunkInv, IsCurrent, TokenInv, Ahead, Pieces
    <3>4. ASSUME NEW i \in 1..n
          PROVE  delivered'[Len(delivered) + i]
                   = <<((Len(delivered) + i - 1) \div 2) + 1, ((Len(delivered) + i - 1) % 2) + 1>>
      <4>1. (Pieces - current.left + 1) + i - 1 = (2 - current.left + i - 1) + 1
        BY <3>3, <3>4 DEF Pieces
      <4>2. 2 - current.left + i - 1 \in {0, 1}
        BY <3>1, <3>3, <3>4
      <4>3. Len(delivered) + i - 1 = 2 * consumed + (2 - current.left + i - 1)
        BY <3>3
      <4>4. delivered'[Len(delivered) + i]
              = <<consumed + 1, (2 - current.left + i - 1) + 1>>
        BY <3>2, <3>3, <4>1
      <4>5. ASSUME NEW k \in {0, 1}, NEW m \in Nat
            PROVE  (2 * m + k) \div 2 = m /\ (2 * m + k) % 2 = k
        BY <4>5
      <4>6. /\ (Len(delivered) + i - 1) \div 2 = consumed
            /\ (Len(delivered) + i - 1) % 2 = 2 - current.left + i - 1
        BY <3>3, <4>2, <4>3, <4>5
      <4> QED
        BY <4>4, <4>6
    <3>5. \A i \in 1..Len(delivered') : i \in 1..Len(delivered) \/ i - Len(delivered) \in 1..n
      BY <3>2
    <3> QED
      <4>1. ASSUME NEW i \in 1..Len(delivered')
            PROVE  delivered'[i] = <<((i - 1) \div 2) + 1, ((i - 1) % 2) + 1>>
        <5>1. CASE i \in 1..Len(delivered)
          BY <3>2, <5>1 DEF PiecesInv, Pieces
        <5>2. CASE i - Len(delivered) \in 1..n
          <6> DEFINE j == i - Len(delivered)
          <6>1. Len(delivered) + j = i /\ j \in 1..n
            BY <3>2, <5>2
          <6> HIDE DEF j
          <6>2. delivered'[Len(delivered) + j]
                  = <<((Len(delivered) + j - 1) \div 2) + 1, ((Len(delivered) + j - 1) % 2) + 1>>
            BY <3>4, <6>1
          <6>3. delivered'[i] = <<((Len(delivered) + j - 1) \div 2) + 1,
                                  ((Len(delivered) + j - 1) % 2) + 1>>
            BY <6>1, <6>2
          <6>4. Len(delivered) + j - 1 = i - 1
            BY <6>1
          <6> HIDE <1>0
          <6> QED
            BY ONLY <6>3, <6>4
        <5> QED
          BY <3>5, <5>1, <5>2
      <4> QED
        BY <4>1 DEF PiecesInv, Pieces
  <2> QED
    BY <2>1, <2>2
<1>15. CASE Proceed
  <2>1. delivered' = delivered
    BY <1>15 DEF Proceed, Return
  <2> QED
    BY <2>1 DEF PiecesInv
<1>16. ASSUME NEW t \in {Reader, Worker}, Closing(t)
       PROVE  PiecesInv'
  <2>1. CASE CloseClear(t)
    <3>1. delivered' = delivered
      BY <2>1 DEF CloseClear, Return
    <3> QED
      BY <3>1 DEF PiecesInv
  <2>2. CASE CloseOffer(t)
    <3>1. delivered' = delivered
      BY <2>2 DEF CloseOffer, Return
    <3> QED
      BY <3>1 DEF PiecesInv
  <2>3. CASE CloseDrop(t)
    <3>1. delivered' = delivered
      BY <2>3 DEF CloseDrop, Return
    <3> QED
      BY <3>1 DEF PiecesInv
  <2> QED
    BY <1>16, <2>1, <2>2, <2>3 DEF Closing
<1>17. CASE UNCHANGED vars
  BY <1>17 DEF PiecesInv
<1> QED
  BY <1>1, <1>2, <1>3, <1>4, <1>5, <1>6, <1>7, <1>8, <1>9, <1>10, <1>11, <1>12,
         <1>13, <1>14, <1>15, <1>16, <1>17 DEF Next, WorkerSteps, ReaderSteps

\* Who closed the channel.
LEMMA CloseStep ==
  ASSUME IInv, [Next]_vars
  PROVE  CloseInv'
<1> USE DEF IInv, TypeInv, CloseInv, Closed, Reader, Worker, vars, queueVars,
       h2oVars, workerVars, readerVars
<1>1. CASE BodyCallback
  BY <1>1 DEF BodyCallback, WorkerIdle, Return
<1>2. CASE Cleanup
  BY <1>2 DEF Cleanup, WorkerIdle, Return
<1>3. CASE WriteChunk
  BY <1>3 DEF WriteChunk, Return
<1>4. CASE PutChunk
  BY <1>4 DEF PutChunk, Return
<1>5. CASE PutEof
  BY <1>5 DEF PutEof, Return
<1>6. CASE HandleProceed
  BY <1>6 DEF HandleProceed, WorkerIdle, Return
<1>7. CASE Read
  BY <1>7 DEF Read, ReaderIdle, Return
<1>8. CASE CloseBody
  BY <1>8 DEF CloseBody, ReaderIdle, Return
<1>9. CASE HandlerReturns
  BY <1>9 DEF HandlerReturns, ReaderIdle, Return
<1>10. CASE Load
  BY <1>10 DEF Load, Return
<1>11. CASE Exhausted
  BY <1>11 DEF Exhausted, Return
<1>12. CASE Take
  BY <1>12 DEF Take, Return
<1>13. CASE Recheck
  BY <1>13 DEF Recheck, Return
<1>14. CASE Copy
  BY <1>14 DEF Copy, Return
<1>15. CASE Proceed
  BY <1>15 DEF Proceed, Return
<1>16. ASSUME NEW t \in {Reader, Worker}, Closing(t)
       PROVE  CloseInv'
  <2>1. CASE CloseClear(t)
    BY <2>1 DEF CloseClear
  <2>2. CASE CloseOffer(t)
    BY <2>2 DEF CloseOffer
  <2>3. CASE CloseDrop(t)
    BY <2>3 DEF CloseDrop
  <2> QED
    BY <1>16, <2>1, <2>2, <2>3 DEF Closing
<1>17. CASE UNCHANGED vars
  BY <1>17
<1> QED
  BY <1>1, <1>2, <1>3, <1>4, <1>5, <1>6, <1>7, <1>8, <1>9, <1>10, <1>11, <1>12,
         <1>13, <1>14, <1>15, <1>16, <1>17 DEF Next, WorkerSteps, ReaderSteps

\* What EofInv speaks of is left alone.
LEMMA EofFrame ==
  ASSUME EofInv,
         UNCHANGED <<queue, closed, current, ended, handed, consumed, live, workerPc, item>>,
         readerPc' = "recheck" => readerPc = "recheck",
         result' = "eof" => result = "eof"
  PROVE  EofInv'
BY DEF EofInv, AllRead, WithWorker, IsCurrent, Ahead

\* The channel is closed, and what a reader of a live request was told stays true.
LEMMA EofClosed ==
  ASSUME EofInv, closed',
         UNCHANGED <<ended, handed, consumed, workerPc, item>>,
         live' => live,
         readerPc' = "recheck" /\ live' => (closed /\ readerPc = "recheck") \/ AllRead,
         result' = "eof" => result = "eof"
  PROVE  EofInv'
<1>1. AllRead' = AllRead
  BY DEF AllRead, Ahead
<1> QED
  BY <1>1 DEF EofInv

\* The end marker is behind everything.
LEMMA EofStep ==
  ASSUME IInv, [Next]_vars
  PROVE  EofInv'
<1> USE DEF vars, queueVars, h2oVars, workerVars, readerVars
<1>0. /\ ChunkInv /\ TokenInv /\ CloseInv /\ EofInv
      /\ handed \in Nat /\ consumed \in Nat /\ Len(delivered) \in Nat
      /\ proceeds \in Nat /\ wanted \in BOOLEAN
      /\ Len(queue) \in Nat /\ queue \in Seq(0..Chunks)
      /\ item.chunk \in 0..Chunks /\ current.left \in 0..2 /\ item.last \in BOOLEAN
  BY BodyAssumption DEF IInv, TypeInv, Pieces
<1> USE <1>0
<1>1. CASE BodyCallback
  <2>1. /\ wanted /\ ~ended /\ workerPc = "loop" /\ workerPc' = "check" /\ live
        /\ UNCHANGED <<queue, closed, current, consumed, live, readerPc, result>>
    BY <1>1 DEF BodyCallback, WorkerIdle
  <2>2. item'.last = ended' /\ (item'.chunk = NoChunk => handed' = handed)
    <3> PICK chunk \in {NoChunk, handed + 1}, last \in BOOLEAN :
          /\ item' = [chunk |-> chunk, last |-> last] /\ ended' = last
          /\ handed' = IF chunk = NoChunk THEN handed ELSE chunk
      BY <1>1 DEF BodyCallback, WorkerIdle
    <3> QED
      OBVIOUS
  <2>3. Ahead = 0
    BY <2>1 DEF TokenInv, One, Ahead
  <2>4. ~AllRead /\ (Ahead' = 1 => WithWorker')
    BY <2>1, <2>2, <2>3 DEF AllRead, Ahead, WithWorker
  <2>5. ~closed => \A i \in 1..Len(queue) : queue[i] # Eof
    BY <2>1 DEF EofInv
  <2> QED
    BY <2>1, <2>2, <2>4, <2>5 DEF EofInv
<1>2. CASE Cleanup
  <2>1. /\ closed' /\ UNCHANGED <<ended, handed, consumed, workerPc, item>> /\ (live' => live)
        /\ readerPc' = "recheck" /\ live' => (closed /\ readerPc = "recheck") \/ AllRead
        /\ result' = "eof" => result = "eof"
    BY <1>2 DEF Cleanup, WorkerIdle, CloseInv, Closed, Reader, Worker
  <2> QED
    BY <2>1, EofClosed
<1>3. CASE WriteChunk
  <2>1. /\ workerPc = "check"
        /\ workerPc' = IF closed THEN "loop"
                        ELSE IF item.chunk # NoChunk THEN "putChunk" ELSE "putEof"
        /\ UNCHANGED <<queue, closed, current, ended, handed, consumed, live, readerPc,
                       result, item>>
    BY <1>3 DEF WriteChunk
  <2>2. AllRead' = AllRead /\ IsCurrent' = IsCurrent /\ Ahead' = Ahead
    BY <2>1 DEF AllRead, IsCurrent, Ahead
  <2>3. ~closed => (WithWorker' <=> WithWorker)
    BY <2>1 DEF WithWorker
  <2>4. ~closed => \A i \in 1..Len(queue) : queue[i] # Eof
    BY <2>1 DEF EofInv
  <2> QED
    BY <2>1, <2>2, <2>3, <2>4 DEF EofInv
<1>4. CASE PutChunk
  <2>1. /\ workerPc = "putChunk" /\ workerPc' = (IF item.last THEN "putEof" ELSE "loop")
        /\ queue' = Append(queue, item.chunk)
        /\ UNCHANGED <<closed, current, ended, handed, consumed, live, readerPc, result, item>>
    BY <1>4 DEF PutChunk
  <2>2. /\ Len(queue') = Len(queue) + 1 /\ queue'[Len(queue')] = item.chunk
        /\ Len(queue') \in 1..Len(queue')
        /\ \A i \in 1..Len(queue) : queue'[i] = queue[i] /\ i \in 1..Len(queue')
        /\ \A i \in 1..Len(queue') : i \in 1..Len(queue) \/ i = Len(queue')
    BY <2>1, AppendIs
  <2>3. item.chunk # Eof
    BY <2>1 DEF ChunkInv, NoChunk, Eof
  <2>4. AllRead' = AllRead /\ IsCurrent' = IsCurrent /\ Ahead' = Ahead
    BY <2>1 DEF AllRead, IsCurrent, Ahead
  <2>5. ~closed => \A i \in 1..Len(queue') : queue'[i] # Eof
    <3>1. ~closed => \A i \in 1..Len(queue) : queue[i] # Eof
      BY <2>1 DEF EofInv
    <3> QED
      BY <2>2, <2>3, <3>1
  <2> QED
    BY <2>1, <2>2, <2>3, <2>4, <2>5 DEF EofInv
<1>5. CASE PutEof
  <2>1. /\ workerPc = "putEof" /\ workerPc' = "loop" /\ queue' = Append(queue, Eof)
        /\ UNCHANGED <<closed, current, ended, handed, consumed, live, readerPc, result, item>>
    BY <1>5 DEF PutEof
  <2>2. /\ Len(queue') = Len(queue) + 1 /\ queue'[Len(queue')] = Eof
        /\ \A i \in 1..Len(queue) : queue'[i] = queue[i] /\ i \in 1..Len(queue')
        /\ \A i \in 1..Len(queue') : i \in 1..Len(queue) \/ i = Len(queue')
    BY <2>1, AppendIs DEF Eof
  <2>3. ended /\ ~WithWorker
    BY <2>1 DEF ChunkInv, EofInv, WithWorker
  <2>4. AllRead' = AllRead /\ IsCurrent' = IsCurrent /\ Ahead' = Ahead
    BY <2>1 DEF AllRead, IsCurrent, Ahead
  <2>5. ~closed => \A i \in 1..Len(queue') : queue'[i] = Eof => i = Len(queue')
    <3>1. ~closed => \A i \in 1..Len(queue) : queue[i] # Eof
      BY <2>1 DEF EofInv
    <3> QED
      BY <2>2, <3>1
  <2>6. ~closed /\ Ahead = 1 => IsCurrent \/ \E i \in 1..Len(queue') : queue'[i] # Eof
    BY <2>2, <2>3 DEF EofInv
  <2> QED
    BY <2>1, <2>3, <2>4, <2>5, <2>6 DEF EofInv
<1>6. CASE HandleProceed
  <2>1. /\ UNCHANGED <<queue, closed, current, ended, handed, consumed, live, workerPc, item>>
        /\ readerPc' = "recheck" => readerPc = "recheck"
        /\ result' = "eof" => result = "eof"
    BY <1>6 DEF HandleProceed, WorkerIdle, Return
  <2> QED
    BY <2>1, EofFrame
<1>7. CASE Read
  <2>1. /\ UNCHANGED <<queue, closed, current, ended, handed, consumed, live, workerPc, item>>
        /\ readerPc' = "recheck" => readerPc = "recheck"
        /\ result' = "eof" => result = "eof"
    BY <1>7 DEF Read, ReaderIdle, Return
  <2> QED
    BY <2>1, EofFrame
<1>8. CASE CloseBody
  <2>1. /\ closed' /\ UNCHANGED <<ended, handed, consumed, workerPc, item>> /\ (live' => live)
        /\ readerPc' = "recheck" /\ live' => (closed /\ readerPc = "recheck") \/ AllRead
        /\ result' = "eof" => result = "eof"
    BY <1>8 DEF CloseBody, ReaderIdle, CloseInv, Closed, Reader, Worker
  <2> QED
    BY <2>1, EofClosed
<1>9. CASE HandlerReturns
  <2>1. /\ UNCHANGED <<queue, closed, current, ended, handed, consumed, live, workerPc, item>>
        /\ readerPc' = "recheck" => readerPc = "recheck"
        /\ result' = "eof" => result = "eof"
    BY <1>9 DEF HandlerReturns, ReaderIdle, Return
  <2> QED
    BY <2>1, EofFrame
<1>10. CASE Load
  <2>1. /\ UNCHANGED <<queue, closed, current, ended, handed, consumed, live, workerPc, item>>
        /\ readerPc' = "recheck" => readerPc = "recheck"
        /\ result' = "eof" => result = "eof"
    BY <1>10 DEF Load, Return
  <2> QED
    BY <2>1, EofFrame
<1>11. CASE Exhausted
  <2>1. /\ UNCHANGED <<queue, closed, current, ended, handed, consumed, live, workerPc, item>>
        /\ readerPc = "exhausted" /\ (result' = "eof" => result = "eof")
    BY <1>11 DEF Exhausted, Return
  <2>2. /\ AllRead' = AllRead /\ IsCurrent' = IsCurrent /\ Ahead' = Ahead
        /\ WithWorker' = WithWorker
    BY <2>1 DEF AllRead, IsCurrent, Ahead, WithWorker
  <2>3. live => ~closed
    BY <2>1 DEF CloseInv
  <2> QED
    BY <2>1, <2>2, <2>3 DEF EofInv
<1>12. CASE Take
  <2>1. /\ readerPc = "take" /\ readerPc' = "recheck" /\ queue # <<>> /\ queue' = Tail(queue)
        /\ UNCHANGED <<ended, handed, consumed, item, workerPc, live, result>>
    BY <1>12 DEF Take
  <2>2. /\ Head(queue) = queue[1] /\ 1 \in 1..Len(queue) /\ Len(queue') = Len(queue) - 1
        /\ \A i \in 1..Len(queue') : queue'[i] = queue[i + 1] /\ i + 1 \in 1..Len(queue)
    BY <2>1, TakeIs
  <2>3. AllRead' = AllRead /\ WithWorker' = WithWorker /\ Ahead' = Ahead
    BY <2>1 DEF AllRead, WithWorker, Ahead
  <2>4. ~IsCurrent
    BY <2>1 DEF ChunkInv
  <2>5. CASE Head(queue) = Eof
    <3>1. closed'
      BY <1>12, <2>5 DEF Take
    <3>2. live => ~closed
      BY <2>1 DEF CloseInv
    <3>3. live => AllRead
      <4> SUFFICES ASSUME live PROVE AllRead
        OBVIOUS
      <4>0. queue[1] = Eof /\ ~closed /\ 1 \in 1..Len(queue)
        BY <2>2, <2>5, <3>2
      <4>1. ended /\ 1 = Len(queue) /\ workerPc = "loop"
        BY <4>0 DEF EofInv
      <4>2. ~WithWorker /\ (\A i \in 1..Len(queue) : queue[i] = Eof)
        <5>1. 1..Len(queue) = 1..1
          BY <4>1
        <5>2. \A i \in 1..1 : i = 1
          OBVIOUS
        <5> QED
          BY <4>0, <4>1, <5>1, <5>2 DEF WithWorker
      <4>3. Ahead # 1
        BY <2>4, <4>0, <4>2 DEF EofInv
      <4>4. Ahead = 0
        BY <4>3 DEF TokenInv
      <4> QED
        BY <4>1, <4>4 DEF AllRead
    <3> QED
      BY <2>1, <3>1, <3>3, EofClosed
  <2>6. CASE Head(queue) # Eof
    <3>1. current' = [chunk |-> Head(queue), left |-> Pieces] /\ closed' = closed
      BY <1>12, <2>6 DEF Take
    <3>2. IsCurrent'
      BY <3>1 DEF IsCurrent, Pieces
    <3>3. live => ~closed
      BY <2>1 DEF CloseInv
    <3>4. ~closed => \A i \in 1..Len(queue') : queue'[i] = Eof =>
            ended /\ i = Len(queue') /\ workerPc = "loop"
      <4> SUFFICES ASSUME ~closed, NEW i \in 1..Len(queue'), queue'[i] = Eof
                   PROVE  ended /\ i = Len(queue') /\ workerPc = "loop"
        OBVIOUS
      <4>1. queue[i + 1] = Eof /\ i + 1 \in 1..Len(queue)
        BY <2>2
      <4>2. ended /\ i + 1 = Len(queue) /\ workerPc = "loop"
        BY <4>1 DEF EofInv
      <4> QED
        BY <2>2, <4>2
    <3> QED
      BY <2>1, <2>3, <3>1, <3>2, <3>3, <3>4 DEF EofInv
  <2> QED
    BY <2>5, <2>6
<1>13. CASE Recheck
  <2>1. /\ readerPc = "recheck" /\ readerPc' \in {"idle", "copy"}
        /\ UNCHANGED <<queue, closed, current, ended, handed, consumed, live, workerPc, item>>
        /\ result' = "eof" => closed \/ result = "eof"
    BY <1>13 DEF Recheck, Return
  <2>2. /\ AllRead' = AllRead /\ IsCurrent' = IsCurrent /\ Ahead' = Ahead
        /\ WithWorker' = WithWorker
    BY <2>1 DEF AllRead, IsCurrent, Ahead, WithWorker
  <2> QED
    BY <2>1, <2>2 DEF EofInv
<1>14. CASE Copy
  <2>1. CASE current = Nil
    <3>1. /\ UNCHANGED <<queue, closed, current, ended, handed, consumed, live, workerPc, item>>
          /\ readerPc' # "recheck" /\ result' # "eof"
      BY <1>14, <2>1 DEF Copy, Return
    <3> QED
      BY <3>1, EofFrame
  <2>2. CASE current # Nil
    <3>1. PICK n \in 1..current.left :
            /\ current' = [current EXCEPT !.left = @ - n]
            /\ IF n = current.left
               THEN consumed' = consumed + 1 /\ readerPc' = "proceed" /\ UNCHANGED result
               ELSE Return("data") /\ UNCHANGED consumed
      BY <1>14, <2>2 DEF Copy
    <3>2. /\ UNCHANGED <<queue, closed, ended, handed, live, workerPc, item>>
          /\ readerPc' # "recheck" /\ (result' = "eof" => result = "eof")
      BY <1>14, <3>1 DEF Copy, Return
    <3>3. IsCurrent /\ Ahead = 1 /\ n \in Nat
      BY <3>1 DEF ChunkInv, IsCurrent
    <3>4. current'.left = current.left - n
      BY <3>1
    <3>5. Ahead' = 1 => IsCurrent'
      <4>1. CASE n = current.left
        BY <3>1, <3>2, <3>3, <4>1 DEF Ahead
      <4>2. CASE n # current.left
        BY <3>1, <3>3, <3>4, <4>2 DEF IsCurrent
      <4> QED
        BY <4>1, <4>2
    <3>6. ~AllRead
      BY <3>3 DEF AllRead
    <3> QED
      BY <3>2, <3>5, <3>6 DEF EofInv
  <2> QED
    BY <2>1, <2>2
<1>15. CASE Proceed
  <2>1. /\ UNCHANGED <<queue, closed, current, ended, handed, consumed, live, workerPc, item>>
        /\ readerPc' = "recheck" => readerPc = "recheck"
        /\ result' = "eof" => result = "eof"
    BY <1>15 DEF Proceed, Return
  <2> QED
    BY <2>1, EofFrame
<1>16. ASSUME NEW t \in {Reader, Worker}, Closing(t)
       PROVE  EofInv'
  <2>1. CASE CloseClear(t)
    <3>1. /\ closed' /\ UNCHANGED <<ended, handed, consumed, workerPc, item>> /\ (live' => live)
          /\ readerPc' = "recheck" /\ live' => (closed /\ readerPc = "recheck") \/ AllRead
          /\ result' = "eof" => result = "eof"
      BY <2>1 DEF CloseClear, CloseInv, Closed, Reader, Worker
    <3> QED
      BY <3>1, EofClosed
  <2>2. CASE CloseOffer(t)
    <3>1. /\ closed' /\ UNCHANGED <<ended, handed, consumed, workerPc, item>> /\ (live' => live)
          /\ readerPc' = "recheck" /\ live' => (closed /\ readerPc = "recheck") \/ AllRead
          /\ result' = "eof" => result = "eof"
      BY <2>2 DEF CloseOffer, CloseInv, Closed, Reader, Worker
    <3> QED
      BY <3>1, EofClosed
  <2>3. CASE CloseDrop(t)
    <3>1. /\ closed' /\ UNCHANGED <<ended, handed, consumed, workerPc, item>> /\ (live' => live)
          /\ readerPc' = "recheck" /\ live' => (closed /\ readerPc = "recheck") \/ AllRead
          /\ result' = "eof" => result = "eof"
      BY <2>3 DEF CloseDrop, CloseInv, Closed, Reader, Worker
    <3> QED
      BY <3>1, EofClosed
  <2> QED
    BY <1>16, <2>1, <2>2, <2>3 DEF Closing
<1>17. CASE UNCHANGED vars
  BY <1>17, EofFrame
<1> QED
  BY <1>1, <1>2, <1>3, <1>4, <1>5, <1>6, <1>7, <1>8, <1>9, <1>10, <1>11, <1>12,
         <1>13, <1>14, <1>15, <1>16, <1>17 DEF Next, WorkerSteps, ReaderSteps

-----------------------------------------------------------------------------
(* What the run checks, for every body and every queue.                    *)

\* Every state a behaviour reaches satisfies the inductive invariant.
THEOREM Invariance == Spec => []IInv
<1>1. IInv /\ [Next]_vars => IInv'
  BY TypeStep, TokenStep, ChunkStep, PiecesStep, CloseStep, EofStep DEF IInv
<1> QED
  BY InitInv, <1>1, PTL DEF Spec

\* What a handler reads of a body is what the client sent, in order and without
\* a gap, at most one chunk is held for it, and an end of the body it is told
\* while the request lives is the end (request.clj, read, write-chunk and close).
THEOREM BodyIsWhole == Spec => []BodySound
<1>1. IInv => BodySound
  <2> SUFFICES ASSUME IInv PROVE BodySound
    OBVIOUS
  <2> USE BodyAssumption
  <2>1. TypeInv /\ TokenInv /\ ChunkInv /\ PiecesInv /\ EofInv
    BY DEF IInv
  <2>2. handed \in Nat /\ consumed \in Nat /\ proceeds \in Nat /\ Ahead \in 0..1
    BY <2>1 DEF TypeInv, TokenInv
  <2>3. proceeds \in 0..Chunks
    <3>1. One(wanted) \in Nat /\ One(readerPc = "proceed") \in Nat
      BY DEF One
    <3>2. proceeds <= 1
      BY <2>1, <2>2, <3>1 DEF TokenInv
    <3> QED
      BY <2>2, <3>2
  <2>4. TypeOK
    BY <2>1, <2>3 DEF TypeInv, TypeOK
  <2>5. OneChunkAhead
    BY <2>2 DEF OneChunkAhead, Ahead
  <2>6. result = "eof" /\ live => ended /\ Len(delivered) = Pieces * handed
    <3> SUFFICES ASSUME result = "eof", live
                 PROVE  ended /\ Len(delivered) = Pieces * handed
      OBVIOUS
    <3>1. ended /\ Ahead = 0
      BY <2>1 DEF EofInv, AllRead
    <3>2. Len(delivered) = Pieces * consumed
      BY <2>1, <3>1 DEF ChunkInv
    <3>3. consumed = handed
      BY <2>2, <3>1 DEF Ahead
    <3> QED
      BY <3>1, <3>2, <3>3
  <2> QED
    BY <2>1, <2>4, <2>5, <2>6 DEF BodySound, PiecesInv
<1> QED
  BY Invariance, <1>1, PTL
===============================================================================
