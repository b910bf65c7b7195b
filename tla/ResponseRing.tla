---------------------------- MODULE ResponseRing ----------------------------
(***************************************************************************)
(* The ring of native response slots (shim.c) through which handler        *)
(* threads hand complete responses to the event-loop worker, with the read *)
(* and write lock around it (try-publish-direct-response!) and its         *)
(* destruction when the worker's context has drained.                      *)
(*                                                                         *)
(* Each handler answers the request of its own name; a slot's data is the  *)
(* identity and the payload of one answer.  A request may be cleaned up at *)
(* any time, its handler running on.  A step holds one shared access.      *)
(***************************************************************************)
EXTENDS Integers, Sequences, FiniteSets

CONSTANTS Handlers, RingCapacity, none

ASSUME RingAssumption == /\ IsFiniteSet(Handlers) /\ none \notin Handlers
                         /\ RingCapacity \in Nat \ {0}

Slots == 1..RingCapacity

VARIABLES
  \* clj_mt_receiver_t
  state, data,        \* of each slot: its state word and whose answer it holds
  claimed, ready,     \* ring_claimed, ring_ready
  cursor,             \* claim_cursor, of which the remainder matters
  alive,              \* the receiver's memory is allocated
  requests,           \* request_buckets: the requests that can be answered
  \* Worker record
  open,               \* response-receiver-open?_
  receiver,           \* response-receiver_ is set
  readers, writing,   \* response-receiver-lock
  woken,              \* a wake the worker has not consumed
  \* handlers: program counter, slot in hand, slots left to try, result
  pc, slot, attempts, outcome,
  \* worker: program counter, slot being drained, request to be answered
  workerPc, index, target,
  shuttingDown, answers

ringVars == <<state, data, claimed, ready, cursor, alive>>
lockVars == <<open, receiver, readers, writing>>
handlerVars == <<pc, slot, attempts, outcome>>
workerVars == <<workerPc, index, target>>
requestVars == <<requests, shuttingDown, answers>>
vars == <<ringVars, lockVars, woken, handlerVars, workerVars, requestVars>>

HandlerPcs == {"start", "lock", "recheck", "claim", "try", "count", "pack", "publish",
               "publishCas", "uncount", "abort", "abortUncount", "wake", "unlock",
               "lastWake", "done"}
WorkerPcs == {"poll", "dispose", "close", "writeLock", "pending", "destroy", "forget",
              "writeUnlock", "drain", "take", "find", "apply", "free", "uncount"}

TypeOK ==
  /\ state \in [Slots -> {"free", "claimed", "ready", "draining"}]
  /\ data \in [Slots -> Handlers \cup {none}]
  /\ claimed \in Nat /\ ready \in Nat /\ cursor \in Slots
  /\ {alive, open, receiver, writing, woken, shuttingDown} \subseteq BOOLEAN
  /\ readers \subseteq Handlers /\ requests \subseteq Handlers
  /\ pc \in [Handlers -> HandlerPcs] /\ slot \in [Handlers -> Slots]
  /\ attempts \in [Handlers -> 0..RingCapacity]
  /\ outcome \in [Handlers -> {"none", "accepted", "overloaded", "closed", "failed"}]
  /\ workerPc \in WorkerPcs /\ index \in 1..(RingCapacity + 1)
  /\ target \in Handlers \cup {none}
  /\ answers \in [Handlers -> Seq(Handlers)]

Init ==
  /\ state = [s \in Slots |-> "free"] /\ data = [s \in Slots |-> none]
  /\ claimed = 0 /\ ready = 0 /\ cursor = 1 /\ alive = TRUE
  /\ open = TRUE /\ receiver = TRUE /\ readers = {} /\ writing = FALSE /\ woken = FALSE
  /\ pc = [h \in Handlers |-> "start"] /\ slot = [h \in Handlers |-> 1]
  /\ attempts = [h \in Handlers |-> 0] /\ outcome = [h \in Handlers |-> "none"]
  /\ workerPc = "poll" /\ index = 1 /\ target = none
  /\ requests = Handlers /\ shuttingDown = FALSE
  /\ answers = [h \in Handlers |-> <<>>]

-----------------------------------------------------------------------------
(* A handler: try-publish-direct-response!.                                *)

At(h, from, to) == pc[h] = from /\ pc' = [pc EXCEPT ![h] = to]
Result(h, r) == outcome' = [outcome EXCEPT ![h] = r]
NextSlot(s) == (s % RingCapacity) + 1

Start(h) ==
  /\ At(h, "start", IF open THEN "lock" ELSE "done")
  /\ Result(h, IF open THEN "none" ELSE "closed")
  /\ UNCHANGED <<ringVars, lockVars, woken, slot, attempts, workerVars, requestVars>>

\* tryLock of the read lock fails only while the worker holds the write lock.
ReadLock(h) ==
  /\ At(h, "lock", IF writing THEN "done" ELSE "recheck")
  /\ Result(h, IF writing THEN "closed" ELSE "none")
  /\ readers' = IF writing THEN readers ELSE readers \cup {h}
  /\ UNCHANGED <<ringVars, open, receiver, writing, woken, slot, attempts, workerVars,
                 requestVars>>

Recheck(h) ==
  /\ At(h, "recheck", IF open /\ receiver THEN "claim" ELSE "unlock")
  /\ Result(h, IF open /\ receiver THEN "none" ELSE "closed")
  /\ UNCHANGED <<ringVars, lockVars, woken, slot, attempts, workerVars, requestVars>>

\* try_claim starts at the cursor and tries every slot once.
ClaimCursor(h) ==
  /\ At(h, "claim", "try")
  /\ slot' = [slot EXCEPT ![h] = cursor]
  /\ cursor' = NextSlot(cursor)
  /\ attempts' = [attempts EXCEPT ![h] = RingCapacity]
  /\ UNCHANGED <<state, data, claimed, ready, alive, lockVars, woken, outcome, workerVars,
                 requestVars>>

\* A won slot is the handler's own: its identity is erased with the same step.
ClaimSlot(h) ==
  /\ At(h, "try", "count")
  /\ state[slot[h]] = "free" /\ attempts[h] > 0
  /\ state' = [state EXCEPT ![slot[h]] = "claimed"]
  /\ data' = [data EXCEPT ![slot[h]] = none]
  /\ attempts' = [attempts EXCEPT ![h] = 0]
  /\ UNCHANGED <<claimed, ready, cursor, alive, lockVars, woken, slot, outcome, workerVars,
                 requestVars>>

SlotTaken(h) ==
  /\ At(h, "try", "try")
  /\ state[slot[h]] # "free" /\ attempts[h] > 0
  /\ attempts' = [attempts EXCEPT ![h] = @ - 1]
  /\ slot' = [slot EXCEPT ![h] = NextSlot(@)]
  /\ UNCHANGED <<ringVars, lockVars, woken, outcome, workerVars, requestVars>>

Overloaded(h) ==
  /\ At(h, "try", "unlock")
  /\ attempts[h] = 0 /\ Result(h, "overloaded")
  /\ UNCHANGED <<ringVars, lockVars, woken, slot, attempts, workerVars, requestVars>>

CountClaim(h) ==
  /\ At(h, "count", "pack")
  /\ claimed' = claimed + 1
  /\ UNCHANGED <<state, data, ready, cursor, alive, lockVars, woken, slot, attempts,
                 outcome, workerVars, requestVars>>

\* Packing writes the payload, then the identity; a response that does not fit
\* throws.  What it packed passes response_slot_data_valid.
Pack(h) ==
  /\ At(h, "pack", "publish")
  /\ data' = [data EXCEPT ![slot[h]] = h]
  /\ UNCHANGED <<state, claimed, ready, cursor, alive, lockVars, woken, slot, attempts,
                 outcome, workerVars, requestVars>>

PackFails(h) ==
  /\ At(h, "pack", "abort")
  /\ Result(h, "failed")
  /\ UNCHANGED <<ringVars, lockVars, woken, slot, attempts, workerVars, requestVars>>

\* The ready count rises before the slot can be seen as ready.
PublishCount(h) ==
  /\ At(h, "publish", "publishCas")
  /\ ready' = ready + 1
  /\ UNCHANGED <<state, data, claimed, cursor, alive, lockVars, woken, slot, attempts,
                 outcome, workerVars, requestVars>>

PublishCas(h) ==
  /\ At(h, "publishCas", "uncount")
  /\ state' = [state EXCEPT ![slot[h]] = "ready"]
  /\ UNCHANGED <<data, claimed, ready, cursor, alive, lockVars, woken, slot, attempts,
                 outcome, workerVars, requestVars>>

PublishUncount(h) ==
  /\ At(h, "uncount", "wake")
  /\ claimed' = claimed - 1
  /\ Result(h, "accepted")
  /\ UNCHANGED <<state, data, ready, cursor, alive, lockVars, woken, slot, attempts,
                 workerVars, requestVars>>

AbortCas(h) ==
  /\ At(h, "abort", "abortUncount")
  /\ state' = [state EXCEPT ![slot[h]] = "free"]
  /\ UNCHANGED <<data, claimed, ready, cursor, alive, lockVars, woken, slot, attempts,
                 outcome, workerVars, requestVars>>

AbortUncount(h) ==
  /\ At(h, "abortUncount", "unlock")
  /\ claimed' = claimed - 1
  /\ UNCHANGED <<state, data, ready, cursor, alive, lockVars, woken, slot, attempts,
                 outcome, workerVars, requestVars>>

\* Mutant: a publication without a wake.
NoWake(h) ==
  /\ At(h, "wake", "unlock")
  /\ UNCHANGED <<ringVars, lockVars, woken, slot, attempts, outcome, workerVars, requestVars>>

WakeWorker(h) ==
  /\ At(h, "wake", "unlock")
  /\ woken' = TRUE
  /\ UNCHANGED <<ringVars, lockVars, slot, attempts, outcome, workerVars, requestVars>>

ReadUnlock(h) ==
  /\ At(h, "unlock", "lastWake")
  /\ readers' = readers \ {h}
  /\ UNCHANGED <<ringVars, open, receiver, writing, woken, slot, attempts, outcome,
                 workerVars, requestVars>>

\* The worker may have failed to lock because of this handler.
LastWake(h) ==
  /\ At(h, "lastWake", "done")
  /\ woken' = (woken \/ ~open)
  /\ UNCHANGED <<ringVars, lockVars, slot, attempts, outcome, workerVars, requestVars>>

-----------------------------------------------------------------------------
(* The worker: one pass of worker-loop, and h2o's callbacks in its poll.   *)

WorkerAt(from, to) == workerPc = from /\ workerPc' = to
Pending == claimed + ready

\* The poll ends with a wake, and after 10 ms once the worker is shutting down.
\* A destroyed receiver ends the ring's part in the loop.
EndPoll ==
  /\ WorkerAt("poll", IF shuttingDown THEN "dispose" ELSE "drain")
  /\ receiver /\ (woken \/ shuttingDown)
  /\ woken' = FALSE
  /\ UNCHANGED <<ringVars, lockVars, handlerVars, index, target, requestVars>>

\* ready-to-dispose? reads the two counts without the lock.
ReadyToDispose ==
  /\ WorkerAt("dispose", IF requests = {} /\ Pending = 0 THEN "close" ELSE "drain")
  /\ UNCHANGED <<ringVars, lockVars, woken, handlerVars, index, target, requestVars>>

CloseAdmission ==
  /\ WorkerAt("close", "writeLock")
  /\ open' = FALSE
  /\ UNCHANGED <<ringVars, receiver, readers, writing, woken, handlerVars, index, target,
                 requestVars>>

\* Mutant: the lock is not what keeps the handlers out.
WriteLockAlways ==
  /\ WorkerAt("writeLock", "pending")
  /\ writing' = TRUE
  /\ UNCHANGED <<ringVars, open, receiver, readers, woken, handlerVars, index, target,
                 requestVars>>

WriteLock ==
  /\ WorkerAt("writeLock", IF readers = {} THEN "pending" ELSE "drain")
  /\ writing' = (readers = {})
  /\ UNCHANGED <<ringVars, open, receiver, readers, woken, handlerVars, index, target,
                 requestVars>>

\* With the lock in hand the counts cannot rise any more.
PendingAgain ==
  /\ WorkerAt("pending", IF Pending = 0 THEN "destroy" ELSE "writeUnlock")
  /\ UNCHANGED <<ringVars, lockVars, woken, handlerVars, index, target, requestVars>>

Destroy ==
  /\ WorkerAt("destroy", "forget")
  /\ alive' = FALSE
  /\ UNCHANGED <<state, data, claimed, ready, cursor, lockVars, woken, handlerVars, index,
                 target, requestVars>>

ForgetReceiver ==
  /\ WorkerAt("forget", "writeUnlock")
  /\ receiver' = FALSE
  /\ UNCHANGED <<ringVars, open, readers, writing, woken, handlerVars, index, target,
                 requestVars>>

WriteUnlock ==
  /\ WorkerAt("writeUnlock", IF receiver THEN "drain" ELSE "poll")
  /\ writing' = FALSE
  /\ UNCHANGED <<ringVars, open, receiver, readers, woken, handlerVars, index, target,
                 requestVars>>

\* ring_drain: nothing to do without a ready slot, else one look at every slot.
DrainStart ==
  /\ WorkerAt("drain", IF ready = 0 THEN "poll" ELSE "take")
  /\ index' = 1
  /\ UNCHANGED <<ringVars, lockVars, woken, handlerVars, target, requestVars>>

\* Mutant: the slot is free for the next claim before it has been read.
TakeReadyFrees ==
  /\ WorkerAt("take", IF index > RingCapacity THEN "poll"
                      ELSE IF state[index] = "ready" THEN "find" ELSE "take")
  /\ state' = IF index <= RingCapacity /\ state[index] = "ready"
              THEN [state EXCEPT ![index] = "free"] ELSE state
  /\ index' = IF index <= RingCapacity /\ state[index] # "ready" THEN index + 1 ELSE index
  /\ UNCHANGED <<data, claimed, ready, cursor, alive, lockVars, woken, handlerVars, target,
                 requestVars>>

TakeReady ==
  /\ WorkerAt("take", IF index > RingCapacity THEN "poll"
                      ELSE IF state[index] = "ready" THEN "find" ELSE "take")
  /\ state' = IF index <= RingCapacity /\ state[index] = "ready"
              THEN [state EXCEPT ![index] = "draining"] ELSE state
  /\ index' = IF index <= RingCapacity /\ state[index] # "ready" THEN index + 1 ELSE index
  /\ UNCHANGED <<data, claimed, ready, cursor, alive, lockVars, woken, handlerVars, target,
                 requestVars>>

\* Invalid data and the identity of a request that is gone are dropped.
FindRequest ==
  /\ WorkerAt("find", IF data[index] \in requests THEN "apply" ELSE "free")
  /\ target' = IF data[index] \in requests THEN data[index] ELSE none
  /\ UNCHANGED <<ringVars, lockVars, woken, handlerVars, index, requestVars>>

\* clj_h2o_send_fixed_final with the slot's payload.
Apply ==
  /\ WorkerAt("apply", "free")
  /\ answers' = [answers EXCEPT ![target] = Append(@, data[index])]
  /\ target' = none
  /\ UNCHANGED <<ringVars, lockVars, woken, handlerVars, index, requests, shuttingDown>>

FreeSlot ==
  /\ WorkerAt("free", "uncount")
  /\ state' = [state EXCEPT ![index] = "free"]
  /\ UNCHANGED <<data, claimed, ready, cursor, alive, lockVars, woken, handlerVars, index,
                 target, requestVars>>

UncountReady ==
  /\ WorkerAt("uncount", "take")
  /\ ready' = ready - 1 /\ index' = index + 1
  /\ UNCHANGED <<state, data, claimed, cursor, alive, lockVars, woken, handlerVars, target,
                 requestVars>>

\* cleanup_request, answered or not, in the poll.
Cleanup(h) ==
  /\ workerPc = "poll" /\ h \in requests
  /\ requests' = requests \ {h}
  /\ UNCHANGED <<ringVars, lockVars, woken, handlerVars, workerVars, shuttingDown, answers>>

BeginShutdown ==
  /\ ~shuttingDown /\ shuttingDown' = TRUE
  /\ UNCHANGED <<ringVars, lockVars, woken, handlerVars, workerVars, requests, answers>>

-----------------------------------------------------------------------------
HandlerStep(h) ==
  \/ Start(h) \/ ReadLock(h) \/ Recheck(h) \/ ClaimCursor(h) \/ ClaimSlot(h)
  \/ SlotTaken(h) \/ Overloaded(h) \/ CountClaim(h) \/ Pack(h) \/ PackFails(h)
  \/ PublishCount(h) \/ PublishCas(h) \/ PublishUncount(h) \/ AbortCas(h)
  \/ AbortUncount(h) \/ WakeWorker(h) \/ ReadUnlock(h) \/ LastWake(h)

WorkerStep ==
  \/ EndPoll \/ ReadyToDispose \/ CloseAdmission \/ WriteLock \/ PendingAgain \/ Destroy
  \/ ForgetReceiver \/ WriteUnlock \/ DrainStart \/ TakeReady \/ FindRequest \/ Apply
  \/ FreeSlot \/ UncountReady

\* The receiver is destroyed and every handler has its result.
Finished ==
  /\ ~receiver /\ workerPc = "poll" /\ \A h \in Handlers : pc[h] = "done"
  /\ UNCHANGED vars

Next == \/ \E h \in Handlers : HandlerStep(h) \/ Cleanup(h)
        \/ WorkerStep \/ BeginShutdown \/ Finished

Spec == Init /\ [][Next]_vars

-----------------------------------------------------------------------------
(* Properties.                                                             *)

\* The handlers and slots that ring_claimed and ring_ready have to cover.
Claimants == {h \in Handlers : pc[h] \in {"pack", "publish", "publishCas", "uncount",
                                          "abort", "abortUncount"}}
Publishers == {h \in Handlers : pc[h] = "publishCas"}
FullSlots == {s \in Slots : state[s] \in {"ready", "draining"}}

\* Claim, publish, abort and drain keep the two counters exact: neither wraps
\* below zero, and a pending count of zero means that the ring is at rest.
CountersExact ==
  /\ claimed = Cardinality(Claimants)
  /\ ready = Cardinality(Publishers) + Cardinality(FullSlots)
             + (IF workerPc = "uncount" THEN 1 ELSE 0)

InNativeCall(h) == pc[h] \in {"claim", "try", "count", "pack", "publish", "publishCas",
                              "uncount", "abort", "abortUncount"}

\* No handler works in a ring the worker has freed, although a handler may
\* outlive its request, its connection and the worker's context.
ReceiverOutlivesUse == \A h \in Handlers : InNativeCall(h) => alive

\* What clj_h2o_mt_destroy_response_receiver asserts: a ring at rest, and no
\* request that could still be answered.
DestroyedAtRest ==
  ~alive => requests = {} /\ Pending = 0 /\ \A s \in Slots : state[s] = "free"

\* What the ring counts is what it holds, and it is freed only when that is nothing
\* and nobody uses it (shim.c, ring_claimed and ring_ready;
\* clj_h2o_mt_destroy_response_receiver).
RingConsistent == TypeOK /\ CountersExact /\ DestroyedAtRest /\ ReceiverOutlivesUse

\* A request is answered at most once, with its own handler's response, and only
\* after that handler published it: one told :overloaded, :closed or an error
\* sends its response along another path, which must be the only one.
AnsweredAsPublished ==
  \A h \in Handlers :
    /\ answers[h] \in {<<>>, <<h>>}
    /\ answers[h] # <<>> => pc[h] = "uncount" \/ outcome[h] = "accepted"

\* The worker will look at a slot that is ready: a wake is still to come or to be
\* consumed, the poll ends by itself, or the pass over the slots has not come to
\* it yet, however publications interleave with the drain (shim.c, ring_drain).
NoSlotForgotten ==
  \A s \in Slots : state[s] = "ready" =>
    \/ woken \/ shuttingDown
    \/ \E h \in Handlers : slot[h] = s /\ pc[h] \in {"uncount", "wake"}
    \/ workerPc = "drain"
    \/ workerPc \in {"take", "find", "apply", "free", "uncount"} /\ index <= s
=============================================================================
