-------------------------- MODULE ResponseRingProofs --------------------------
(***************************************************************************)
(* Proofs about the ring of response slots, for any finite set of handlers *)
(* and any number of slots.                                                *)
(*                                                                         *)
(* The properties rest on one inductive invariant, IInv, a conjunction of  *)
(* parts that speak of one mechanism each.  LockInv: a native call is made *)
(* under the read lock, the ring is destroyed under the write lock.        *)
(* OwnInv: a slot that is claimed has one owner, one that is drained is    *)
(* the worker's.  CountersExact: the two counters.  RestInv: what the      *)
(* worker found on its way to the destruction still holds when it gets     *)
(* there.  AnswerInv: which answer is in which slot.  WakeInv: who will    *)
(* look at a ready slot.                                                   *)
(***************************************************************************)
EXTENDS ResponseRing, FiniteSetTheorems, TLAPS

LockPcs == {"recheck", "claim", "try", "count", "pack", "publish", "publishCas",
            "uncount", "abort", "abortUncount", "wake", "unlock"}
OwnPcs == {"count", "pack", "publish", "publishCas", "abort"}

LockInv ==
  /\ \A h \in Handlers : h \in readers <=> pc[h] \in LockPcs
  /\ writing <=> workerPc \in {"pending", "destroy", "forget", "writeUnlock"}
  /\ writing => readers = {}
  /\ \A h \in Handlers : InNativeCall(h) => receiver
  /\ ~receiver => workerPc \in {"writeUnlock", "poll"}
  /\ alive <=> receiver /\ workerPc # "forget"

OwnInv ==
  /\ \A h \in Handlers : pc[h] \in OwnPcs => state[slot[h]] = "claimed"
  /\ \A g, h \in Handlers :
       pc[g] \in OwnPcs /\ pc[h] \in OwnPcs /\ slot[g] = slot[h] => g = h
  /\ \A s \in Slots :
       state[s] = "claimed" => \E h \in Handlers : pc[h] \in OwnPcs /\ slot[h] = s
  /\ workerPc \in {"find", "apply", "free"} => index \in Slots /\ state[index] = "draining"
  /\ workerPc = "uncount" => index \in Slots
  /\ \A s \in Slots :
       state[s] = "draining" => workerPc \in {"find", "apply", "free"} /\ index = s

RestInv ==
  /\ workerPc \in {"close", "writeLock", "pending", "destroy", "forget"} => requests = {}
  /\ workerPc \in {"destroy", "forget"} \/ ~alive =>
       requests = {} /\ Pending = 0 /\ \A s \in Slots : state[s] = "free"

Published(h) == pc[h] = "uncount" \/ outcome[h] = "accepted"

AnswerInv ==
  /\ \A h \in Handlers :
       /\ answers[h] \in {<<>>, <<h>>}
       /\ answers[h] # <<>> => Published(h)
       /\ outcome[h] = "accepted" => pc[h] \in {"wake", "unlock", "lastWake", "done"}
       /\ pc[h] \in {"publish", "publishCas"} => data[slot[h]] = h
  /\ \A s \in FullSlots :
       /\ data[s] \in Handlers /\ Published(data[s])
       /\ answers[data[s]] # <<>> => workerPc = "free" /\ index = s
       /\ \A r \in FullSlots : data[r] = data[s] => r = s
  /\ workerPc = "apply" => target \in Handlers /\ target = data[index]

WakeInv ==
  \A s \in Slots : state[s] = "ready" =>
    \/ woken \/ shuttingDown
    \/ \E h \in Handlers : slot[h] = s /\ pc[h] \in {"uncount", "wake"}
    \/ workerPc = "drain"
    \/ workerPc = "take" /\ index <= s
    \/ workerPc \in {"find", "apply", "free", "uncount"} /\ index < s

\* TypeOK without the counters, which CountersExact types.
TypeInv ==
  /\ state \in [Slots -> {"free", "claimed", "ready", "draining"}]
  /\ data \in [Slots -> Handlers \cup {none}]
  /\ cursor \in Slots
  /\ {alive, open, receiver, writing, woken, shuttingDown} \subseteq BOOLEAN
  /\ readers \subseteq Handlers /\ requests \subseteq Handlers
  /\ pc \in [Handlers -> HandlerPcs] /\ slot \in [Handlers -> Slots]
  /\ attempts \in [Handlers -> 0..RingCapacity]
  /\ outcome \in [Handlers -> {"none", "accepted", "overloaded", "closed", "failed"}]
  /\ workerPc \in WorkerPcs /\ index \in 1..(RingCapacity + 1)
  /\ target \in Handlers \cup {none}
  /\ answers \in [Handlers -> Seq(Handlers)]

IInv == TypeInv /\ LockInv /\ OwnInv /\ CountersExact /\ RestInv /\ AnswerInv /\ WakeInv

-----------------------------------------------------------------------------
(* The inductive invariant.                                                *)

LEMMA SlotsFinite == IsFiniteSet(Slots)
BY RingAssumption, FS_Interval DEF Slots

LEMMA NextSlotType == ASSUME NEW s \in Slots PROVE NextSlot(s) \in Slots
BY RingAssumption DEF NextSlot, Slots

\* The sets behind the two counters are finite, so that their sizes are numbers.
LEMMA CountedFinite ==
  ASSUME TypeInv
  PROVE  IsFiniteSet(Claimants) /\ IsFiniteSet(Publishers) /\ IsFiniteSet(FullSlots)
<1>1. Claimants \in SUBSET Handlers /\ Publishers \in SUBSET Handlers
  BY DEF Claimants, Publishers
<1>2. FullSlots \in SUBSET Slots
  BY DEF FullSlots
<1> QED
  BY <1>1, <1>2, SlotsFinite, RingAssumption, FS_Subset

LEMMA InitInv == Init => IInv
<1> SUFFICES ASSUME Init PROVE IInv
  OBVIOUS
<1> USE RingAssumption DEF Init, Slots
<1>1. TypeInv
  <2>1. answers \in [Handlers -> Seq(Handlers)]
    OBVIOUS
  <2>2. {alive, open, receiver, writing, woken, shuttingDown} \subseteq BOOLEAN
    OBVIOUS
  <2>3. /\ state \in [Slots -> {"free", "claimed", "ready", "draining"}]
        /\ data \in [Slots -> Handlers \cup {none}]
        /\ cursor \in Slots /\ index \in 1..(RingCapacity + 1)
        /\ slot \in [Handlers -> Slots] /\ attempts \in [Handlers -> 0..RingCapacity]
    OBVIOUS
  <2> QED
    BY <2>1, <2>2, <2>3 DEF TypeInv, HandlerPcs, WorkerPcs
<1>2. LockInv /\ OwnInv
  BY DEF LockInv, OwnInv, LockPcs, OwnPcs, InNativeCall
<1>3. CountersExact
  <2>1. Claimants = {} /\ Publishers = {} /\ FullSlots = {}
    BY DEF Claimants, Publishers, FullSlots
  <2> QED
    BY <2>1, FS_EmptySet DEF CountersExact
<1>4. RestInv /\ AnswerInv /\ WakeInv
  BY DEF RestInv, AnswerInv, WakeInv, Published, FullSlots, Pending
<1> QED
  BY <1>1, <1>2, <1>3, <1>4 DEF IInv

LEMMA SumIsZero ==
  ASSUME NEW a \in Nat, NEW b \in Nat, NEW c \in Nat, NEW d \in Nat, a + (b + c + d) = 0
  PROVE  a = 0 /\ b = 0 /\ c = 0
OBVIOUS

\* A pending count of zero: no claim is counted and no slot is full.
LEMMA NothingPending ==
  ASSUME IInv, Pending = 0
  PROVE  Claimants = {} /\ Publishers = {} /\ FullSlots = {}
<1>1. /\ Cardinality(Claimants) \in Nat /\ Cardinality(Publishers) \in Nat
      /\ Cardinality(FullSlots) \in Nat
  BY CountedFinite, FS_CardinalityType DEF IInv
<1>2. /\ Cardinality(Claimants) = 0 /\ Cardinality(Publishers) = 0
      /\ Cardinality(FullSlots) = 0
  <2>1. (IF workerPc = "uncount" THEN 1 ELSE 0) \in Nat
    OBVIOUS
  <2>2. PICK u \in Nat :
          Cardinality(Claimants)
            + (Cardinality(Publishers) + Cardinality(FullSlots) + u) = 0
    BY <2>1 DEF IInv, CountersExact, Pending
  <2> QED
    BY <1>1, <2>2, SumIsZero
<1> QED
  BY <1>2, CountedFinite, FS_EmptySet DEF IInv

\* The ready count covers every full slot.
LEMMA NothingReady ==
  ASSUME IInv, ready = 0
  PROVE  FullSlots = {}
<1>1. Cardinality(Publishers) \in Nat /\ Cardinality(FullSlots) \in Nat
  BY CountedFinite, FS_CardinalityType DEF IInv
<1>2. Cardinality(FullSlots) = 0
  BY <1>1 DEF IInv, CountersExact
<1> QED
  BY <1>2, CountedFinite, FS_EmptySet DEF IInv

\* Every step keeps the types.
LEMMA TypeStep ==
  ASSUME IInv, [Next]_vars
  PROVE  TypeInv'
<1> USE RingAssumption
<1> USE DEF IInv, TypeInv, Slots, HandlerPcs, WorkerPcs, vars, ringVars,
       lockVars, handlerVars, workerVars, requestVars
<1>1. ASSUME NEW h \in Handlers, HandlerStep(h)
      PROVE  TypeInv'
  <2> USE DEF At, Result
  <2>1. CASE Start(h)
    BY <2>1 DEF Start
  <2>2. CASE ReadLock(h)
    BY <2>2 DEF ReadLock
  <2>3. CASE Recheck(h)
    BY <2>3 DEF Recheck
  <2>4. CASE ClaimCursor(h)
    <3>1. NextSlot(cursor) \in Slots
      BY NextSlotType
    <3> QED
      BY <2>4, <3>1 DEF ClaimCursor
  <2>5. CASE ClaimSlot(h)
    BY <2>5 DEF ClaimSlot
  <2>6. CASE SlotTaken(h)
    <3>1. NextSlot(slot[h]) \in Slots
      BY NextSlotType
    <3> QED
      BY <2>6, <3>1 DEF SlotTaken
  <2>7. CASE Overloaded(h)
    BY <2>7 DEF Overloaded
  <2>8. CASE CountClaim(h)
    BY <2>8 DEF CountClaim
  <2>9. CASE Pack(h)
    BY <2>9 DEF Pack
  <2>10. CASE PackFails(h)
    BY <2>10 DEF PackFails
  <2>11. CASE PublishCount(h)
    BY <2>11 DEF PublishCount
  <2>12. CASE PublishCas(h)
    BY <2>12 DEF PublishCas
  <2>13. CASE PublishUncount(h)
    BY <2>13 DEF PublishUncount
  <2>14. CASE AbortCas(h)
    BY <2>14 DEF AbortCas
  <2>15. CASE AbortUncount(h)
    BY <2>15 DEF AbortUncount
  <2>16. CASE WakeWorker(h)
    BY <2>16 DEF WakeWorker
  <2>17. CASE ReadUnlock(h)
    BY <2>17 DEF ReadUnlock
  <2>18. CASE LastWake(h)
    BY <2>18 DEF LastWake
  <2> QED
    BY <1>1, <2>1, <2>2, <2>3, <2>4, <2>5, <2>6, <2>7, <2>8, <2>9, <2>10,
    <2>11, <2>12, <2>13, <2>14, <2>15, <2>16, <2>17, <2>18 DEF HandlerStep
<1>2. ASSUME NEW h \in Handlers, Cleanup(h)
      PROVE  TypeInv'
  BY <1>2 DEF Cleanup
<1>3. CASE WorkerStep
  <2> USE DEF WorkerAt
  <2>1. CASE EndPoll
    BY <2>1 DEF EndPoll
  <2>2. CASE ReadyToDispose
    BY <2>2 DEF ReadyToDispose
  <2>3. CASE CloseAdmission
    BY <2>3 DEF CloseAdmission
  <2>4. CASE WriteLock
    BY <2>4 DEF WriteLock
  <2>5. CASE PendingAgain
    BY <2>5 DEF PendingAgain
  <2>6. CASE Destroy
    BY <2>6 DEF Destroy
  <2>7. CASE ForgetReceiver
    BY <2>7 DEF ForgetReceiver
  <2>8. CASE WriteUnlock
    BY <2>8 DEF WriteUnlock
  <2>9. CASE DrainStart
    BY <2>9 DEF DrainStart
  <2>10. CASE TakeReady
    BY <2>10 DEF TakeReady
  <2>11. CASE FindRequest
    BY <2>11 DEF FindRequest, OwnInv
  <2>12. CASE Apply
    BY <2>12 DEF Apply, OwnInv, AnswerInv
  <2>13. CASE FreeSlot
    BY <2>13 DEF FreeSlot, OwnInv
  <2>14. CASE UncountReady
    BY <2>14 DEF UncountReady, OwnInv
  <2> QED
    BY <1>3, <2>1, <2>2, <2>3, <2>4, <2>5, <2>6, <2>7, <2>8, <2>9, <2>10,
    <2>11, <2>12, <2>13, <2>14 DEF WorkerStep
<1>4. CASE BeginShutdown
  BY <1>4 DEF BeginShutdown
<1>5. CASE Finished \/ UNCHANGED vars
  BY <1>5 DEF Finished
<1> QED
  BY <1>1, <1>2, <1>3, <1>4, <1>5 DEF Next

\* The lock: who reads, who writes, and that the receiver is there for readers.
LEMMA LockStep ==
  ASSUME IInv, [Next]_vars
  PROVE  LockInv'
<1> USE DEF IInv, TypeInv, LockInv, LockPcs, InNativeCall, vars, ringVars,
       lockVars, handlerVars, workerVars, requestVars
<1>1. ASSUME NEW h \in Handlers, HandlerStep(h)
      PROVE  LockInv'
  <2> USE DEF At, Result
  <2>1. CASE Start(h)
    BY <2>1 DEF Start
  <2>2. CASE ReadLock(h)
    BY <2>2 DEF ReadLock
  <2>3. CASE Recheck(h)
    BY <2>3 DEF Recheck
  <2>4. CASE ClaimCursor(h)
    BY <2>4 DEF ClaimCursor
  <2>5. CASE ClaimSlot(h)
    BY <2>5 DEF ClaimSlot
  <2>6. CASE SlotTaken(h)
    BY <2>6 DEF SlotTaken
  <2>7. CASE Overloaded(h)
    BY <2>7 DEF Overloaded
  <2>8. CASE CountClaim(h)
    BY <2>8 DEF CountClaim
  <2>9. CASE Pack(h)
    BY <2>9 DEF Pack
  <2>10. CASE PackFails(h)
    BY <2>10 DEF PackFails
  <2>11. CASE PublishCount(h)
    BY <2>11 DEF PublishCount
  <2>12. CASE PublishCas(h)
    BY <2>12 DEF PublishCas
  <2>13. CASE PublishUncount(h)
    BY <2>13 DEF PublishUncount
  <2>14. CASE AbortCas(h)
    BY <2>14 DEF AbortCas
  <2>15. CASE AbortUncount(h)
    BY <2>15 DEF AbortUncount
  <2>16. CASE WakeWorker(h)
    BY <2>16 DEF WakeWorker
  <2>17. CASE ReadUnlock(h)
    BY <2>17 DEF ReadUnlock
  <2>18. CASE LastWake(h)
    BY <2>18 DEF LastWake
  <2> QED
    BY <1>1, <2>1, <2>2, <2>3, <2>4, <2>5, <2>6, <2>7, <2>8, <2>9, <2>10,
    <2>11, <2>12, <2>13, <2>14, <2>15, <2>16, <2>17, <2>18 DEF HandlerStep
<1>2. ASSUME NEW h \in Handlers, Cleanup(h)
      PROVE  LockInv'
  BY <1>2 DEF Cleanup
<1>3. CASE WorkerStep
  <2> USE DEF WorkerAt
  <2>1. CASE EndPoll
    BY <2>1 DEF EndPoll
  <2>2. CASE ReadyToDispose
    BY <2>2 DEF ReadyToDispose
  <2>3. CASE CloseAdmission
    BY <2>3 DEF CloseAdmission
  <2>4. CASE WriteLock
    BY <2>4 DEF WriteLock
  <2>5. CASE PendingAgain
    BY <2>5 DEF PendingAgain
  <2>6. CASE Destroy
    BY <2>6 DEF Destroy
  <2>7. CASE ForgetReceiver
    BY <2>7 DEF ForgetReceiver
  <2>8. CASE WriteUnlock
    BY <2>8 DEF WriteUnlock
  <2>9. CASE DrainStart
    BY <2>9 DEF DrainStart
  <2>10. CASE TakeReady
    BY <2>10 DEF TakeReady
  <2>11. CASE FindRequest
    BY <2>11 DEF FindRequest
  <2>12. CASE Apply
    BY <2>12 DEF Apply
  <2>13. CASE FreeSlot
    BY <2>13 DEF FreeSlot
  <2>14. CASE UncountReady
    BY <2>14 DEF UncountReady
  <2> QED
    BY <1>3, <2>1, <2>2, <2>3, <2>4, <2>5, <2>6, <2>7, <2>8, <2>9, <2>10,
    <2>11, <2>12, <2>13, <2>14 DEF WorkerStep
<1>4. CASE BeginShutdown
  BY <1>4 DEF BeginShutdown
<1>5. CASE Finished \/ UNCHANGED vars
  BY <1>5 DEF Finished
<1> QED
  BY <1>1, <1>2, <1>3, <1>4, <1>5 DEF Next

\* A step that leaves every owner where it was and the slots and the worker alone.
LEMMA OwnFrame ==
  ASSUME OwnInv, UNCHANGED <<state, workerPc, index>>,
         \A h \in Handlers : pc'[h] \in OwnPcs <=> pc[h] \in OwnPcs,
         \A h \in Handlers : pc[h] \in OwnPcs => slot'[h] = slot[h]
  PROVE  OwnInv'
BY DEF OwnInv

\* The owner of a claimed slot, and the worker's slot.
LEMMA OwnStep ==
  ASSUME IInv, [Next]_vars
  PROVE  OwnInv'
<1> USE RingAssumption
<1> USE DEF IInv, TypeInv, vars, ringVars, lockVars, handlerVars, workerVars,
       requestVars
<1>1. ASSUME NEW h \in Handlers, HandlerStep(h)
      PROVE  OwnInv'
  <2> USE DEF At, Result
  <2>1. CASE Start(h)
    <3>1. /\ UNCHANGED <<state, workerPc, index>>
          /\ \A g \in Handlers : pc'[g] \in OwnPcs <=> pc[g] \in OwnPcs
          /\ \A g \in Handlers : pc[g] \in OwnPcs => slot'[g] = slot[g]
      BY <2>1 DEF Start, OwnPcs
    <3> QED
      BY <3>1, OwnFrame
  <2>2. CASE ReadLock(h)
    <3>1. /\ UNCHANGED <<state, workerPc, index>>
          /\ \A g \in Handlers : pc'[g] \in OwnPcs <=> pc[g] \in OwnPcs
          /\ \A g \in Handlers : pc[g] \in OwnPcs => slot'[g] = slot[g]
      BY <2>2 DEF ReadLock, OwnPcs
    <3> QED
      BY <3>1, OwnFrame
  <2>3. CASE Recheck(h)
    <3>1. /\ UNCHANGED <<state, workerPc, index>>
          /\ \A g \in Handlers : pc'[g] \in OwnPcs <=> pc[g] \in OwnPcs
          /\ \A g \in Handlers : pc[g] \in OwnPcs => slot'[g] = slot[g]
      BY <2>3 DEF Recheck, OwnPcs
    <3> QED
      BY <3>1, OwnFrame
  <2>4. CASE ClaimCursor(h)
    <3>1. /\ UNCHANGED <<state, workerPc, index>>
          /\ \A g \in Handlers : pc'[g] \in OwnPcs <=> pc[g] \in OwnPcs
          /\ \A g \in Handlers : pc[g] \in OwnPcs => slot'[g] = slot[g]
      BY <2>4 DEF ClaimCursor, OwnPcs
    <3> QED
      BY <3>1, OwnFrame
  <2>5. CASE ClaimSlot(h)
    <3>1. /\ state[slot[h]] = "free" /\ pc' = [pc EXCEPT ![h] = "count"]
          /\ state' = [state EXCEPT ![slot[h]] = "claimed"]
          /\ UNCHANGED <<slot, workerPc, index>>
      BY <2>5 DEF ClaimSlot
    <3>2. \A g \in Handlers : pc[g] \in OwnPcs => slot[g] # slot[h]
      BY <3>1 DEF OwnInv
    <3>3. \A g \in Handlers : pc'[g] \in OwnPcs <=> pc[g] \in OwnPcs \/ g = h
      BY <3>1 DEF OwnPcs
    <3>4. /\ slot[h] \in Slots /\ state'[slot[h]] = "claimed"
          /\ \A s \in Slots : s # slot[h] => state'[s] = state[s]
      BY <3>1
    <3> HIDE DEF TypeInv
    <3>5. /\ \A g \in Handlers : pc'[g] \in OwnPcs => state'[slot'[g]] = "claimed"
          /\ \A f, g \in Handlers :
               pc'[f] \in OwnPcs /\ pc'[g] \in OwnPcs /\ slot'[f] = slot'[g] => f = g
      <4>1. \A g \in Handlers : slot'[g] = slot[g] /\ slot[g] \in Slots
        BY <3>1 DEF TypeInv
      <4> QED
        BY <3>2, <3>3, <3>4, <4>1 DEF OwnInv
    <3>6. \A s \in Slots : state'[s] = "claimed" =>
            \E g \in Handlers : pc'[g] \in OwnPcs /\ slot'[g] = s
      BY <3>1, <3>3, <3>4 DEF OwnInv
    <3> QED
      BY <3>1, <3>4, <3>5, <3>6 DEF OwnInv
  <2>6. CASE SlotTaken(h)
    <3>1. /\ UNCHANGED <<state, workerPc, index>>
          /\ \A g \in Handlers : pc'[g] \in OwnPcs <=> pc[g] \in OwnPcs
          /\ \A g \in Handlers : pc[g] \in OwnPcs => slot'[g] = slot[g]
      BY <2>6 DEF SlotTaken, OwnPcs
    <3> QED
      BY <3>1, OwnFrame
  <2>7. CASE Overloaded(h)
    <3>1. /\ UNCHANGED <<state, workerPc, index>>
          /\ \A g \in Handlers : pc'[g] \in OwnPcs <=> pc[g] \in OwnPcs
          /\ \A g \in Handlers : pc[g] \in OwnPcs => slot'[g] = slot[g]
      BY <2>7 DEF Overloaded, OwnPcs
    <3> QED
      BY <3>1, OwnFrame
  <2>8. CASE CountClaim(h)
    <3>1. /\ UNCHANGED <<state, workerPc, index>>
          /\ \A g \in Handlers : pc'[g] \in OwnPcs <=> pc[g] \in OwnPcs
          /\ \A g \in Handlers : pc[g] \in OwnPcs => slot'[g] = slot[g]
      BY <2>8 DEF CountClaim, OwnPcs
    <3> QED
      BY <3>1, OwnFrame
  <2>9. CASE Pack(h)
    <3>1. /\ UNCHANGED <<state, workerPc, index>>
          /\ \A g \in Handlers : pc'[g] \in OwnPcs <=> pc[g] \in OwnPcs
          /\ \A g \in Handlers : pc[g] \in OwnPcs => slot'[g] = slot[g]
      BY <2>9 DEF Pack, OwnPcs
    <3> QED
      BY <3>1, OwnFrame
  <2>10. CASE PackFails(h)
    <3>1. /\ UNCHANGED <<state, workerPc, index>>
          /\ \A g \in Handlers : pc'[g] \in OwnPcs <=> pc[g] \in OwnPcs
          /\ \A g \in Handlers : pc[g] \in OwnPcs => slot'[g] = slot[g]
      BY <2>10 DEF PackFails, OwnPcs
    <3> QED
      BY <3>1, OwnFrame
  <2>11. CASE PublishCount(h)
    <3>1. /\ UNCHANGED <<state, workerPc, index>>
          /\ \A g \in Handlers : pc'[g] \in OwnPcs <=> pc[g] \in OwnPcs
          /\ \A g \in Handlers : pc[g] \in OwnPcs => slot'[g] = slot[g]
      BY <2>11 DEF PublishCount, OwnPcs
    <3> QED
      BY <3>1, OwnFrame
  <2>12. CASE PublishCas(h)
    <3>1. /\ pc[h] \in OwnPcs /\ pc' = [pc EXCEPT ![h] = "uncount"]
          /\ state' = [state EXCEPT ![slot[h]] = "ready"]
          /\ UNCHANGED <<slot, workerPc, index>>
      BY <2>12 DEF PublishCas, OwnPcs
    <3>2. /\ state[slot[h]] = "claimed"
          /\ \A g \in Handlers : pc[g] \in OwnPcs /\ g # h => slot[g] # slot[h]
      BY <3>1 DEF OwnInv
    <3>3. \A g \in Handlers : pc'[g] \in OwnPcs <=> pc[g] \in OwnPcs /\ g # h
      BY <3>1 DEF OwnPcs
    <3>4. /\ slot[h] \in Slots /\ state'[slot[h]] = "ready"
          /\ \A s \in Slots : s # slot[h] => state'[s] = state[s]
      BY <3>1
    <3> HIDE DEF TypeInv
    <3>5. /\ \A g \in Handlers : pc'[g] \in OwnPcs => state'[slot'[g]] = "claimed"
          /\ \A f, g \in Handlers :
               pc'[f] \in OwnPcs /\ pc'[g] \in OwnPcs /\ slot'[f] = slot'[g] => f = g
      <4>1. \A g \in Handlers : slot'[g] = slot[g] /\ slot[g] \in Slots
        BY <3>1 DEF TypeInv
      <4> QED
        BY <3>2, <3>3, <3>4, <4>1 DEF OwnInv
    <3>6. \A s \in Slots : state'[s] = "claimed" =>
            \E g \in Handlers : pc'[g] \in OwnPcs /\ slot'[g] = s
      BY <3>1, <3>3, <3>4 DEF OwnInv
    <3> QED
      BY <3>1, <3>2, <3>4, <3>5, <3>6 DEF OwnInv
  <2>13. CASE PublishUncount(h)
    <3>1. /\ UNCHANGED <<state, workerPc, index>>
          /\ \A g \in Handlers : pc'[g] \in OwnPcs <=> pc[g] \in OwnPcs
          /\ \A g \in Handlers : pc[g] \in OwnPcs => slot'[g] = slot[g]
      BY <2>13 DEF PublishUncount, OwnPcs
    <3> QED
      BY <3>1, OwnFrame
  <2>14. CASE AbortCas(h)
    <3>1. /\ pc[h] \in OwnPcs /\ pc' = [pc EXCEPT ![h] = "abortUncount"]
          /\ state' = [state EXCEPT ![slot[h]] = "free"]
          /\ UNCHANGED <<slot, workerPc, index>>
      BY <2>14 DEF AbortCas, OwnPcs
    <3>2. /\ state[slot[h]] = "claimed"
          /\ \A g \in Handlers : pc[g] \in OwnPcs /\ g # h => slot[g] # slot[h]
      BY <3>1 DEF OwnInv
    <3>3. \A g \in Handlers : pc'[g] \in OwnPcs <=> pc[g] \in OwnPcs /\ g # h
      BY <3>1 DEF OwnPcs
    <3>4. /\ slot[h] \in Slots /\ state'[slot[h]] = "free"
          /\ \A s \in Slots : s # slot[h] => state'[s] = state[s]
      BY <3>1
    <3> HIDE DEF TypeInv
    <3>5. /\ \A g \in Handlers : pc'[g] \in OwnPcs => state'[slot'[g]] = "claimed"
          /\ \A f, g \in Handlers :
               pc'[f] \in OwnPcs /\ pc'[g] \in OwnPcs /\ slot'[f] = slot'[g] => f = g
      <4>1. \A g \in Handlers : slot'[g] = slot[g] /\ slot[g] \in Slots
        BY <3>1 DEF TypeInv
      <4> QED
        BY <3>2, <3>3, <3>4, <4>1 DEF OwnInv
    <3>6. \A s \in Slots : state'[s] = "claimed" =>
            \E g \in Handlers : pc'[g] \in OwnPcs /\ slot'[g] = s
      BY <3>1, <3>3, <3>4 DEF OwnInv
    <3> QED
      BY <3>1, <3>2, <3>4, <3>5, <3>6 DEF OwnInv
  <2>15. CASE AbortUncount(h)
    <3>1. /\ UNCHANGED <<state, workerPc, index>>
          /\ \A g \in Handlers : pc'[g] \in OwnPcs <=> pc[g] \in OwnPcs
          /\ \A g \in Handlers : pc[g] \in OwnPcs => slot'[g] = slot[g]
      BY <2>15 DEF AbortUncount, OwnPcs
    <3> QED
      BY <3>1, OwnFrame
  <2>16. CASE WakeWorker(h)
    <3>1. /\ UNCHANGED <<state, workerPc, index>>
          /\ \A g \in Handlers : pc'[g] \in OwnPcs <=> pc[g] \in OwnPcs
          /\ \A g \in Handlers : pc[g] \in OwnPcs => slot'[g] = slot[g]
      BY <2>16 DEF WakeWorker, OwnPcs
    <3> QED
      BY <3>1, OwnFrame
  <2>17. CASE ReadUnlock(h)
    <3>1. /\ UNCHANGED <<state, workerPc, index>>
          /\ \A g \in Handlers : pc'[g] \in OwnPcs <=> pc[g] \in OwnPcs
          /\ \A g \in Handlers : pc[g] \in OwnPcs => slot'[g] = slot[g]
      BY <2>17 DEF ReadUnlock, OwnPcs
    <3> QED
      BY <3>1, OwnFrame
  <2>18. CASE LastWake(h)
    <3>1. /\ UNCHANGED <<state, workerPc, index>>
          /\ \A g \in Handlers : pc'[g] \in OwnPcs <=> pc[g] \in OwnPcs
          /\ \A g \in Handlers : pc[g] \in OwnPcs => slot'[g] = slot[g]
      BY <2>18 DEF LastWake, OwnPcs
    <3> QED
      BY <3>1, OwnFrame
  <2> QED
    BY <1>1, <2>1, <2>2, <2>3, <2>4, <2>5, <2>6, <2>7, <2>8, <2>9, <2>10,
    <2>11, <2>12, <2>13, <2>14, <2>15, <2>16, <2>17, <2>18 DEF HandlerStep
<1>2. ASSUME NEW h \in Handlers, Cleanup(h)
      PROVE  OwnInv'
  BY <1>2, OwnFrame DEF Cleanup
<1>3. CASE WorkerStep
  <2> USE DEF WorkerAt
  <2>1. CASE EndPoll
    BY <2>1 DEF EndPoll, OwnPcs, OwnInv, Slots
  <2>2. CASE ReadyToDispose
    BY <2>2 DEF ReadyToDispose, OwnPcs, OwnInv, Slots
  <2>3. CASE CloseAdmission
    BY <2>3 DEF CloseAdmission, OwnPcs, OwnInv, Slots
  <2>4. CASE WriteLock
    BY <2>4 DEF WriteLock, OwnPcs, OwnInv, Slots
  <2>5. CASE PendingAgain
    BY <2>5 DEF PendingAgain, OwnPcs, OwnInv, Slots
  <2>6. CASE Destroy
    BY <2>6 DEF Destroy, OwnPcs, OwnInv, Slots
  <2>7. CASE ForgetReceiver
    BY <2>7 DEF ForgetReceiver, OwnPcs, OwnInv, Slots
  <2>8. CASE WriteUnlock
    BY <2>8 DEF WriteUnlock, OwnPcs, OwnInv, Slots
  <2>9. CASE DrainStart
    BY <2>9 DEF DrainStart, OwnPcs, OwnInv, Slots
  <2>10. CASE TakeReady
    BY <2>10 DEF TakeReady, OwnPcs, OwnInv, Slots
  <2>11. CASE FindRequest
    BY <2>11 DEF FindRequest, OwnPcs, OwnInv, Slots
  <2>12. CASE Apply
    BY <2>12 DEF Apply, OwnPcs, OwnInv, Slots
  <2>13. CASE FreeSlot
    BY <2>13 DEF FreeSlot, OwnPcs, OwnInv, Slots
  <2>14. CASE UncountReady
    BY <2>14 DEF UncountReady, OwnPcs, OwnInv, Slots
  <2> QED
    BY <1>3, <2>1, <2>2, <2>3, <2>4, <2>5, <2>6, <2>7, <2>8, <2>9, <2>10,
    <2>11, <2>12, <2>13, <2>14 DEF WorkerStep
<1>4. CASE BeginShutdown
  BY <1>4, OwnFrame DEF BeginShutdown
<1>5. CASE Finished \/ UNCHANGED vars
  BY <1>5, OwnFrame DEF Finished
<1> QED
  BY <1>1, <1>2, <1>3, <1>4, <1>5 DEF Next

\* What the worker found before it destroys the ring stays true until it has.
LEMMA RestStep ==
  ASSUME IInv, [Next]_vars
  PROVE  RestInv'
<1> USE DEF IInv, TypeInv, LockInv, LockPcs, InNativeCall, OwnInv, OwnPcs,
       RestInv, Pending, vars, ringVars, lockVars, handlerVars, workerVars,
       requestVars
<1>1. ASSUME NEW h \in Handlers, HandlerStep(h)
      PROVE  RestInv'
  <2> USE DEF At, Result
  <2>1. CASE Start(h)
    BY <2>1 DEF Start
  <2>2. CASE ReadLock(h)
    BY <2>2 DEF ReadLock
  <2>3. CASE Recheck(h)
    BY <2>3 DEF Recheck
  <2>4. CASE ClaimCursor(h)
    BY <2>4 DEF ClaimCursor
  <2>5. CASE ClaimSlot(h)
    BY <2>5 DEF ClaimSlot
  <2>6. CASE SlotTaken(h)
    BY <2>6 DEF SlotTaken
  <2>7. CASE Overloaded(h)
    BY <2>7 DEF Overloaded
  <2>8. CASE CountClaim(h)
    BY <2>8 DEF CountClaim
  <2>9. CASE Pack(h)
    BY <2>9 DEF Pack
  <2>10. CASE PackFails(h)
    BY <2>10 DEF PackFails
  <2>11. CASE PublishCount(h)
    BY <2>11 DEF PublishCount
  <2>12. CASE PublishCas(h)
    BY <2>12 DEF PublishCas
  <2>13. CASE PublishUncount(h)
    BY <2>13 DEF PublishUncount
  <2>14. CASE AbortCas(h)
    BY <2>14 DEF AbortCas
  <2>15. CASE AbortUncount(h)
    BY <2>15 DEF AbortUncount
  <2>16. CASE WakeWorker(h)
    BY <2>16 DEF WakeWorker
  <2>17. CASE ReadUnlock(h)
    BY <2>17 DEF ReadUnlock
  <2>18. CASE LastWake(h)
    BY <2>18 DEF LastWake
  <2> QED
    BY <1>1, <2>1, <2>2, <2>3, <2>4, <2>5, <2>6, <2>7, <2>8, <2>9, <2>10,
    <2>11, <2>12, <2>13, <2>14, <2>15, <2>16, <2>17, <2>18 DEF HandlerStep
<1>2. ASSUME NEW h \in Handlers, Cleanup(h)
      PROVE  RestInv'
  BY <1>2 DEF Cleanup
<1>3. CASE WorkerStep
  <2> USE DEF WorkerAt
  <2>1. CASE EndPoll
    BY <2>1 DEF EndPoll
  <2>2. CASE ReadyToDispose
    BY <2>2 DEF ReadyToDispose
  <2>3. CASE CloseAdmission
    BY <2>3 DEF CloseAdmission
  <2>4. CASE WriteLock
    BY <2>4 DEF WriteLock
  <2>5. CASE PendingAgain
    <3>1. Pending = 0 => FullSlots = {} /\ Claimants = {}
      BY NothingPending
    <3> QED
      BY <2>5, <3>1 DEF PendingAgain, FullSlots, Claimants
  <2>6. CASE Destroy
    BY <2>6 DEF Destroy
  <2>7. CASE ForgetReceiver
    BY <2>7 DEF ForgetReceiver
  <2>8. CASE WriteUnlock
    BY <2>8 DEF WriteUnlock
  <2>9. CASE DrainStart
    BY <2>9 DEF DrainStart
  <2>10. CASE TakeReady
    BY <2>10 DEF TakeReady
  <2>11. CASE FindRequest
    BY <2>11 DEF FindRequest
  <2>12. CASE Apply
    BY <2>12 DEF Apply
  <2>13. CASE FreeSlot
    BY <2>13 DEF FreeSlot
  <2>14. CASE UncountReady
    BY <2>14 DEF UncountReady
  <2> QED
    BY <1>3, <2>1, <2>2, <2>3, <2>4, <2>5, <2>6, <2>7, <2>8, <2>9, <2>10,
    <2>11, <2>12, <2>13, <2>14 DEF WorkerStep
<1>4. CASE BeginShutdown
  BY <1>4 DEF BeginShutdown
<1>5. CASE Finished \/ UNCHANGED vars
  BY <1>5 DEF Finished
<1> QED
  BY <1>1, <1>2, <1>3, <1>4, <1>5 DEF Next

\* Which answer is in which slot, and that it is sent once.
LEMMA AnswerStep ==
  ASSUME IInv, [Next]_vars
  PROVE  AnswerInv'
<1> USE DEF IInv, TypeInv, OwnInv, OwnPcs, AnswerInv, Published, FullSlots,
       vars, ringVars, lockVars, handlerVars, workerVars, requestVars
<1>1. ASSUME NEW h \in Handlers, HandlerStep(h)
      PROVE  AnswerInv'
  <2> USE DEF At, Result
  <2>1. CASE Start(h)
    BY <2>1 DEF Start
  <2>2. CASE ReadLock(h)
    BY <2>2 DEF ReadLock
  <2>3. CASE Recheck(h)
    <3>1. /\ pc[h] = "recheck"
          /\ UNCHANGED <<state, data, slot, answers, workerPc, index, target>>
      <4> HIDE DEF IInv
      <4> QED
        BY <2>3 DEF Recheck
    <3>2. ~Published(h) /\ answers[h] = <<>> /\ \A s \in FullSlots : data[s] # h
      <4>1. ~Published(h)
        BY <3>1
      <4>2. answers[h] = <<>>
        BY <4>1
      <4>3. ASSUME NEW s \in FullSlots PROVE data[s] # h
        BY <4>1
      <4> QED
        BY <4>1, <4>2, <4>3
    <3>3. CASE open /\ receiver
      <4>1. /\ pc' = [pc EXCEPT ![h] = "claim"]
            /\ outcome' = [outcome EXCEPT ![h] = "none"]
        BY <2>3, <3>3 DEF Recheck
      <4> QED
        BY <3>1, <3>2, <4>1
    <3>4. CASE ~(open /\ receiver)
      <4>1. /\ pc' = [pc EXCEPT ![h] = "unlock"]
            /\ outcome' = [outcome EXCEPT ![h] = "closed"]
        BY <2>3, <3>4 DEF Recheck
      <4> QED
        BY <3>1, <3>2, <4>1
    <3> QED
      BY <3>3, <3>4
  <2>4. CASE ClaimCursor(h)
    BY <2>4 DEF ClaimCursor
  <2>5. CASE ClaimSlot(h)
    BY <2>5 DEF ClaimSlot
  <2>6. CASE SlotTaken(h)
    BY <2>6 DEF SlotTaken
  <2>7. CASE Overloaded(h)
    BY <2>7 DEF Overloaded
  <2>8. CASE CountClaim(h)
    BY <2>8 DEF CountClaim
  <2>9. CASE Pack(h)
    BY <2>9 DEF Pack
  <2>10. CASE PackFails(h)
    BY <2>10 DEF PackFails
  <2>11. CASE PublishCount(h)
    BY <2>11 DEF PublishCount
  <2>12. CASE PublishCas(h)
    <3>1. /\ state' = [state EXCEPT ![slot[h]] = "ready"] /\ slot[h] \in Slots
          /\ pc[h] = "publishCas" /\ pc' = [pc EXCEPT ![h] = "uncount"]
          /\ UNCHANGED <<data, slot, outcome, answers, workerPc, index, target>>
      BY <2>12 DEF PublishCas
    <3>2. state[slot[h]] = "claimed" /\ data[slot[h]] = h /\ answers[h] = <<>>
      BY <3>1
    <3>3. \A s \in FullSlots : data[s] # h /\ s # slot[h]
      BY <3>1, <3>2
    <3>4. FullSlots' = FullSlots \cup {slot[h]}
      BY <3>1
    <3>5. \A g \in Handlers : (Published(g) => Published(g)') /\ Published(h)'
      BY <3>1
    <3>6. \A s \in FullSlots' :
            /\ data'[s] \in Handlers /\ Published(data[s])'
            /\ answers'[data'[s]] # <<>> => workerPc' = "free" /\ index' = s
            /\ \A r \in FullSlots' : data'[r] = data'[s] => r = s
      <4> HIDE DEF FullSlots, Published, TypeInv
      <4> QED
        BY <3>1, <3>2, <3>3, <3>4, <3>5
    <3>7. \A g \in Handlers :
            /\ answers'[g] \in {<<>>, <<g>>}
            /\ answers'[g] # <<>> => Published(g)'
            /\ outcome'[g] = "accepted" => pc'[g] \in {"wake", "unlock", "lastWake", "done"}
            /\ pc'[g] \in {"publish", "publishCas"} => data'[slot'[g]] = g
      BY <3>1
    <3> QED
      BY <3>1, <3>6, <3>7
  <2>13. CASE PublishUncount(h)
    BY <2>13 DEF PublishUncount
  <2>14. CASE AbortCas(h)
    BY <2>14 DEF AbortCas
  <2>15. CASE AbortUncount(h)
    BY <2>15 DEF AbortUncount
  <2>16. CASE WakeWorker(h)
    BY <2>16 DEF WakeWorker
  <2>17. CASE ReadUnlock(h)
    BY <2>17 DEF ReadUnlock
  <2>18. CASE LastWake(h)
    BY <2>18 DEF LastWake
  <2> QED
    BY <1>1, <2>1, <2>2, <2>3, <2>4, <2>5, <2>6, <2>7, <2>8, <2>9, <2>10,
    <2>11, <2>12, <2>13, <2>14, <2>15, <2>16, <2>17, <2>18 DEF HandlerStep
<1>2. ASSUME NEW h \in Handlers, Cleanup(h)
      PROVE  AnswerInv'
  BY <1>2 DEF Cleanup
<1>3. CASE WorkerStep
  <2> USE DEF WorkerAt
  <2>1. CASE EndPoll
    BY <2>1 DEF EndPoll
  <2>2. CASE ReadyToDispose
    BY <2>2 DEF ReadyToDispose
  <2>3. CASE CloseAdmission
    BY <2>3 DEF CloseAdmission
  <2>4. CASE WriteLock
    BY <2>4 DEF WriteLock
  <2>5. CASE PendingAgain
    BY <2>5 DEF PendingAgain
  <2>6. CASE Destroy
    BY <2>6 DEF Destroy
  <2>7. CASE ForgetReceiver
    BY <2>7 DEF ForgetReceiver
  <2>8. CASE WriteUnlock
    BY <2>8 DEF WriteUnlock
  <2>9. CASE DrainStart
    BY <2>9 DEF DrainStart
  <2>10. CASE TakeReady
    BY <2>10 DEF TakeReady
  <2>11. CASE FindRequest
    BY <2>11 DEF FindRequest
  <2>12. CASE Apply
    <3>1. /\ index \in FullSlots /\ target \in Handlers /\ data[index] = target
          /\ workerPc = "apply" /\ workerPc' = "free" /\ target' = none
          /\ answers' = [answers EXCEPT ![target] = Append(answers[target], target)]
          /\ UNCHANGED <<state, data, pc, slot, outcome, index>>
      BY <2>12 DEF Apply
    <3>2. answers[target] = <<>> /\ Published(target)
      BY <3>1
    <3>3. answers' = [answers EXCEPT ![target] = <<target>>]
      BY <3>1, <3>2
    <3>4. \A s \in FullSlots : data[s] = target => s = index
      BY <3>1
    <3> QED
      BY <3>1, <3>2, <3>3, <3>4
  <2>13. CASE FreeSlot
    BY <2>13 DEF FreeSlot
  <2>14. CASE UncountReady
    BY <2>14 DEF UncountReady
  <2> QED
    BY <1>3, <2>1, <2>2, <2>3, <2>4, <2>5, <2>6, <2>7, <2>8, <2>9, <2>10,
    <2>11, <2>12, <2>13, <2>14 DEF WorkerStep
<1>4. CASE BeginShutdown
  BY <1>4 DEF BeginShutdown
<1>5. CASE Finished \/ UNCHANGED vars
  BY <1>5 DEF Finished
<1> QED
  BY <1>1, <1>2, <1>3, <1>4, <1>5 DEF Next

\* A step that makes no slot ready and takes back no promise to look at one.
LEMMA WakeFrame ==
  ASSUME WakeInv, UNCHANGED <<workerPc, index>>,
         woken => woken', shuttingDown => shuttingDown',
         \A s \in Slots : state'[s] = "ready" => state[s] = "ready",
         \A h \in Handlers : pc[h] \in {"uncount", "wake"} =>
              woken' \/ (pc'[h] \in {"uncount", "wake"} /\ slot'[h] = slot[h])
  PROVE  WakeInv'
BY DEF WakeInv

\* Who will look at a ready slot.
LEMMA WakeStep ==
  ASSUME IInv, [Next]_vars
  PROVE  WakeInv'
<1> USE RingAssumption
<1> USE DEF IInv, TypeInv, vars, ringVars, lockVars, handlerVars, workerVars,
       requestVars
<1>1. ASSUME NEW h \in Handlers, HandlerStep(h)
      PROVE  WakeInv'
  <2> USE DEF At, Result
  <2>1. CASE Start(h)
    <3>1. /\ UNCHANGED <<workerPc, index>>
          /\ (woken => woken') /\ (shuttingDown => shuttingDown')
          /\ \A s \in Slots : state'[s] = "ready" => state[s] = "ready"
          /\ \A g \in Handlers : pc[g] \in {"uncount", "wake"} =>
               woken' \/ (pc'[g] \in {"uncount", "wake"} /\ slot'[g] = slot[g])
      BY <2>1 DEF Start
    <3> QED
      BY <3>1, WakeFrame
  <2>2. CASE ReadLock(h)
    <3>1. /\ UNCHANGED <<workerPc, index>>
          /\ (woken => woken') /\ (shuttingDown => shuttingDown')
          /\ \A s \in Slots : state'[s] = "ready" => state[s] = "ready"
          /\ \A g \in Handlers : pc[g] \in {"uncount", "wake"} =>
               woken' \/ (pc'[g] \in {"uncount", "wake"} /\ slot'[g] = slot[g])
      BY <2>2 DEF ReadLock
    <3> QED
      BY <3>1, WakeFrame
  <2>3. CASE Recheck(h)
    <3>1. /\ UNCHANGED <<workerPc, index>>
          /\ (woken => woken') /\ (shuttingDown => shuttingDown')
          /\ \A s \in Slots : state'[s] = "ready" => state[s] = "ready"
          /\ \A g \in Handlers : pc[g] \in {"uncount", "wake"} =>
               woken' \/ (pc'[g] \in {"uncount", "wake"} /\ slot'[g] = slot[g])
      BY <2>3 DEF Recheck
    <3> QED
      BY <3>1, WakeFrame
  <2>4. CASE ClaimCursor(h)
    <3>1. /\ UNCHANGED <<workerPc, index>>
          /\ (woken => woken') /\ (shuttingDown => shuttingDown')
          /\ \A s \in Slots : state'[s] = "ready" => state[s] = "ready"
          /\ \A g \in Handlers : pc[g] \in {"uncount", "wake"} =>
               woken' \/ (pc'[g] \in {"uncount", "wake"} /\ slot'[g] = slot[g])
      BY <2>4 DEF ClaimCursor
    <3> QED
      BY <3>1, WakeFrame
  <2>5. CASE ClaimSlot(h)
    <3>1. /\ UNCHANGED <<workerPc, index>>
          /\ (woken => woken') /\ (shuttingDown => shuttingDown')
          /\ \A s \in Slots : state'[s] = "ready" => state[s] = "ready"
          /\ \A g \in Handlers : pc[g] \in {"uncount", "wake"} =>
               woken' \/ (pc'[g] \in {"uncount", "wake"} /\ slot'[g] = slot[g])
      BY <2>5 DEF ClaimSlot
    <3> QED
      BY <3>1, WakeFrame
  <2>6. CASE SlotTaken(h)
    <3>1. /\ UNCHANGED <<workerPc, index>>
          /\ (woken => woken') /\ (shuttingDown => shuttingDown')
          /\ \A s \in Slots : state'[s] = "ready" => state[s] = "ready"
          /\ \A g \in Handlers : pc[g] \in {"uncount", "wake"} =>
               woken' \/ (pc'[g] \in {"uncount", "wake"} /\ slot'[g] = slot[g])
      BY <2>6 DEF SlotTaken
    <3> QED
      BY <3>1, WakeFrame
  <2>7. CASE Overloaded(h)
    <3>1. /\ UNCHANGED <<workerPc, index>>
          /\ (woken => woken') /\ (shuttingDown => shuttingDown')
          /\ \A s \in Slots : state'[s] = "ready" => state[s] = "ready"
          /\ \A g \in Handlers : pc[g] \in {"uncount", "wake"} =>
               woken' \/ (pc'[g] \in {"uncount", "wake"} /\ slot'[g] = slot[g])
      BY <2>7 DEF Overloaded
    <3> QED
      BY <3>1, WakeFrame
  <2>8. CASE CountClaim(h)
    <3>1. /\ UNCHANGED <<workerPc, index>>
          /\ (woken => woken') /\ (shuttingDown => shuttingDown')
          /\ \A s \in Slots : state'[s] = "ready" => state[s] = "ready"
          /\ \A g \in Handlers : pc[g] \in {"uncount", "wake"} =>
               woken' \/ (pc'[g] \in {"uncount", "wake"} /\ slot'[g] = slot[g])
      BY <2>8 DEF CountClaim
    <3> QED
      BY <3>1, WakeFrame
  <2>9. CASE Pack(h)
    <3>1. /\ UNCHANGED <<workerPc, index>>
          /\ (woken => woken') /\ (shuttingDown => shuttingDown')
          /\ \A s \in Slots : state'[s] = "ready" => state[s] = "ready"
          /\ \A g \in Handlers : pc[g] \in {"uncount", "wake"} =>
               woken' \/ (pc'[g] \in {"uncount", "wake"} /\ slot'[g] = slot[g])
      BY <2>9 DEF Pack
    <3> QED
      BY <3>1, WakeFrame
  <2>10. CASE PackFails(h)
    <3>1. /\ UNCHANGED <<workerPc, index>>
          /\ (woken => woken') /\ (shuttingDown => shuttingDown')
          /\ \A s \in Slots : state'[s] = "ready" => state[s] = "ready"
          /\ \A g \in Handlers : pc[g] \in {"uncount", "wake"} =>
               woken' \/ (pc'[g] \in {"uncount", "wake"} /\ slot'[g] = slot[g])
      BY <2>10 DEF PackFails
    <3> QED
      BY <3>1, WakeFrame
  <2>11. CASE PublishCount(h)
    <3>1. /\ UNCHANGED <<workerPc, index>>
          /\ (woken => woken') /\ (shuttingDown => shuttingDown')
          /\ \A s \in Slots : state'[s] = "ready" => state[s] = "ready"
          /\ \A g \in Handlers : pc[g] \in {"uncount", "wake"} =>
               woken' \/ (pc'[g] \in {"uncount", "wake"} /\ slot'[g] = slot[g])
      BY <2>11 DEF PublishCount
    <3> QED
      BY <3>1, WakeFrame
  <2>12. CASE PublishCas(h)
    BY <2>12 DEF PublishCas, WakeInv
  <2>13. CASE PublishUncount(h)
    <3>1. /\ UNCHANGED <<workerPc, index>>
          /\ (woken => woken') /\ (shuttingDown => shuttingDown')
          /\ \A s \in Slots : state'[s] = "ready" => state[s] = "ready"
          /\ \A g \in Handlers : pc[g] \in {"uncount", "wake"} =>
               woken' \/ (pc'[g] \in {"uncount", "wake"} /\ slot'[g] = slot[g])
      BY <2>13 DEF PublishUncount
    <3> QED
      BY <3>1, WakeFrame
  <2>14. CASE AbortCas(h)
    <3>1. /\ UNCHANGED <<workerPc, index>>
          /\ (woken => woken') /\ (shuttingDown => shuttingDown')
          /\ \A s \in Slots : state'[s] = "ready" => state[s] = "ready"
          /\ \A g \in Handlers : pc[g] \in {"uncount", "wake"} =>
               woken' \/ (pc'[g] \in {"uncount", "wake"} /\ slot'[g] = slot[g])
      BY <2>14 DEF AbortCas
    <3> QED
      BY <3>1, WakeFrame
  <2>15. CASE AbortUncount(h)
    <3>1. /\ UNCHANGED <<workerPc, index>>
          /\ (woken => woken') /\ (shuttingDown => shuttingDown')
          /\ \A s \in Slots : state'[s] = "ready" => state[s] = "ready"
          /\ \A g \in Handlers : pc[g] \in {"uncount", "wake"} =>
               woken' \/ (pc'[g] \in {"uncount", "wake"} /\ slot'[g] = slot[g])
      BY <2>15 DEF AbortUncount
    <3> QED
      BY <3>1, WakeFrame
  <2>16. CASE WakeWorker(h)
    <3>1. /\ UNCHANGED <<workerPc, index>>
          /\ (woken => woken') /\ (shuttingDown => shuttingDown')
          /\ \A s \in Slots : state'[s] = "ready" => state[s] = "ready"
          /\ \A g \in Handlers : pc[g] \in {"uncount", "wake"} =>
               woken' \/ (pc'[g] \in {"uncount", "wake"} /\ slot'[g] = slot[g])
      BY <2>16 DEF WakeWorker
    <3> QED
      BY <3>1, WakeFrame
  <2>17. CASE ReadUnlock(h)
    <3>1. /\ UNCHANGED <<workerPc, index>>
          /\ (woken => woken') /\ (shuttingDown => shuttingDown')
          /\ \A s \in Slots : state'[s] = "ready" => state[s] = "ready"
          /\ \A g \in Handlers : pc[g] \in {"uncount", "wake"} =>
               woken' \/ (pc'[g] \in {"uncount", "wake"} /\ slot'[g] = slot[g])
      BY <2>17 DEF ReadUnlock
    <3> QED
      BY <3>1, WakeFrame
  <2>18. CASE LastWake(h)
    <3>1. /\ UNCHANGED <<workerPc, index>>
          /\ (woken => woken') /\ (shuttingDown => shuttingDown')
          /\ \A s \in Slots : state'[s] = "ready" => state[s] = "ready"
          /\ \A g \in Handlers : pc[g] \in {"uncount", "wake"} =>
               woken' \/ (pc'[g] \in {"uncount", "wake"} /\ slot'[g] = slot[g])
      BY <2>18 DEF LastWake
    <3> QED
      BY <3>1, WakeFrame
  <2> QED
    BY <1>1, <2>1, <2>2, <2>3, <2>4, <2>5, <2>6, <2>7, <2>8, <2>9, <2>10,
    <2>11, <2>12, <2>13, <2>14, <2>15, <2>16, <2>17, <2>18 DEF HandlerStep
<1>2. ASSUME NEW h \in Handlers, Cleanup(h)
      PROVE  WakeInv'
  BY <1>2, WakeFrame DEF Cleanup
<1>3. CASE WorkerStep
  <2> USE DEF WorkerAt
  <2>1. CASE EndPoll
    BY <2>1 DEF EndPoll, WakeInv, OwnInv, Slots
  <2>2. CASE ReadyToDispose
    BY <2>2 DEF ReadyToDispose, WakeInv, OwnInv, Slots
  <2>3. CASE CloseAdmission
    BY <2>3 DEF CloseAdmission, WakeInv, OwnInv, Slots
  <2>4. CASE WriteLock
    BY <2>4 DEF WriteLock, WakeInv, OwnInv, Slots
  <2>5. CASE PendingAgain
    BY <2>5 DEF PendingAgain, WakeInv, OwnInv, Slots
  <2>6. CASE Destroy
    BY <2>6 DEF Destroy, WakeInv, OwnInv, Slots
  <2>7. CASE ForgetReceiver
    BY <2>7 DEF ForgetReceiver, WakeInv, OwnInv, Slots
  <2>8. CASE WriteUnlock
    BY <2>8 DEF WriteUnlock, WakeInv, OwnInv, Slots
  <2>9. CASE DrainStart
    <3>1. UNCHANGED <<state, woken, shuttingDown, pc, slot>> /\ index' = 1
      BY <2>9 DEF DrainStart
    <3>2. CASE ready = 0
      BY <3>1, <3>2, NothingReady DEF FullSlots, WakeInv
    <3>3. CASE ready # 0
      <4>1. workerPc' = "take"
        BY <2>9, <3>3 DEF DrainStart
      <4>2. \A s \in Slots : 1 <= s
        BY DEF Slots
      <4> QED
        BY <3>1, <4>1, <4>2 DEF WakeInv
    <3> QED
      BY <3>2, <3>3
  <2>10. CASE TakeReady
    <3>1. workerPc = "take" /\ UNCHANGED <<woken, shuttingDown, pc, slot>>
      BY <2>10 DEF TakeReady
    <3>2. index \in Nat /\ \A s \in Slots : s \in Nat /\ s <= RingCapacity
      BY DEF Slots
    <3>3. CASE index > RingCapacity
      <4>1. UNCHANGED state
        BY <2>10, <3>2, <3>3 DEF TakeReady
      <4>2. \A s \in Slots : ~(index <= s)
        BY <3>2, <3>3
      <4> QED
        BY <3>1, <4>1, <4>2 DEF WakeInv
    <3>4. CASE index <= RingCapacity /\ state[index] = "ready"
      <4>1. workerPc' = "find" /\ index' = index
            /\ state' = [state EXCEPT ![index] = "draining"]
        BY <2>10, <3>2, <3>4 DEF TakeReady
      <4>2. \A s \in Slots : state'[s] = "ready" => state[s] = "ready" /\ s # index
        BY <4>1
      <4>3. \A s \in Slots : index <= s /\ s # index => index < s
        BY <3>2
      <4> QED
        BY <3>1, <4>1, <4>2, <4>3 DEF WakeInv
    <3>5. CASE index <= RingCapacity /\ state[index] # "ready"
      <4>1. workerPc' = "take" /\ index' = index + 1 /\ UNCHANGED state
        BY <2>10, <3>2, <3>5 DEF TakeReady
      <4>2. \A s \in Slots : index <= s /\ s # index => index + 1 <= s
        BY <3>2
      <4> QED
        BY <3>1, <3>5, <4>1, <4>2 DEF WakeInv
    <3> QED
      BY <3>2, <3>3, <3>4, <3>5
  <2>11. CASE FindRequest
    BY <2>11 DEF FindRequest, WakeInv, OwnInv, Slots
  <2>12. CASE Apply
    BY <2>12 DEF Apply, WakeInv, OwnInv, Slots
  <2>13. CASE FreeSlot
    BY <2>13 DEF FreeSlot, WakeInv, OwnInv, Slots
  <2>14. CASE UncountReady
    BY <2>14 DEF UncountReady, WakeInv, OwnInv, Slots
  <2> QED
    BY <1>3, <2>1, <2>2, <2>3, <2>4, <2>5, <2>6, <2>7, <2>8, <2>9, <2>10,
    <2>11, <2>12, <2>13, <2>14 DEF WorkerStep
<1>4. CASE BeginShutdown
  BY <1>4, WakeFrame DEF BeginShutdown
<1>5. CASE Finished \/ UNCHANGED vars
  BY <1>5, WakeFrame DEF Finished
<1> QED
  BY <1>1, <1>2, <1>3, <1>4, <1>5 DEF Next

\* The worker's part in the ready count.
InUncount == IF workerPc = "uncount" THEN 1 ELSE 0

\* A step that keeps the counted sets, their counters and the worker's part.
LEMMA CountFrame ==
  ASSUME CountersExact, UNCHANGED <<claimed, ready>>, InUncount' = InUncount,
         Claimants' = Claimants, Publishers' = Publishers, FullSlots' = FullSlots
  PROVE  CountersExact'
BY DEF CountersExact, InUncount

\* The two counters, one case per access to a counter or a slot.
LEMMA CountStep ==
  ASSUME IInv, [Next]_vars
  PROVE  CountersExact'
<1>0. /\ IsFiniteSet(Claimants) /\ IsFiniteSet(Publishers) /\ IsFiniteSet(FullSlots)
      /\ Cardinality(Claimants) \in Nat /\ Cardinality(Publishers) \in Nat
      /\ Cardinality(FullSlots) \in Nat
  BY CountedFinite, FS_CardinalityType DEF IInv
<1> USE <1>0
<1> USE DEF IInv, TypeInv, vars, ringVars, lockVars, handlerVars, workerVars,
       requestVars
<1>1. ASSUME NEW h \in Handlers, HandlerStep(h)
      PROVE  CountersExact'
  <2> USE DEF At, Result
  <2>1. CASE Start(h)
    <3>1. /\ UNCHANGED <<claimed, ready, state, workerPc>>
          /\ Claimants' = Claimants /\ Publishers' = Publishers
      BY <2>1 DEF Start, Claimants, Publishers
    <3> QED
      BY <3>1, CountFrame DEF FullSlots, InUncount
  <2>2. CASE ReadLock(h)
    <3>1. /\ UNCHANGED <<claimed, ready, state, workerPc>>
          /\ Claimants' = Claimants /\ Publishers' = Publishers
      BY <2>2 DEF ReadLock, Claimants, Publishers
    <3> QED
      BY <3>1, CountFrame DEF FullSlots, InUncount
  <2>3. CASE Recheck(h)
    <3>1. /\ UNCHANGED <<claimed, ready, state, workerPc>>
          /\ Claimants' = Claimants /\ Publishers' = Publishers
      BY <2>3 DEF Recheck, Claimants, Publishers
    <3> QED
      BY <3>1, CountFrame DEF FullSlots, InUncount
  <2>4. CASE ClaimCursor(h)
    <3>1. /\ UNCHANGED <<claimed, ready, state, workerPc>>
          /\ Claimants' = Claimants /\ Publishers' = Publishers
      BY <2>4 DEF ClaimCursor, Claimants, Publishers
    <3> QED
      BY <3>1, CountFrame DEF FullSlots, InUncount
  <2>5. CASE ClaimSlot(h)
    <3>1. /\ UNCHANGED <<claimed, ready, workerPc>> /\ FullSlots' = FullSlots
          /\ Claimants' = Claimants /\ Publishers' = Publishers
      BY <2>5 DEF ClaimSlot, Claimants, Publishers, FullSlots, OwnInv, OwnPcs
    <3> QED
      BY <3>1, CountFrame DEF InUncount
  <2>6. CASE SlotTaken(h)
    <3>1. /\ UNCHANGED <<claimed, ready, state, workerPc>>
          /\ Claimants' = Claimants /\ Publishers' = Publishers
      BY <2>6 DEF SlotTaken, Claimants, Publishers
    <3> QED
      BY <3>1, CountFrame DEF FullSlots, InUncount
  <2>7. CASE Overloaded(h)
    <3>1. /\ UNCHANGED <<claimed, ready, state, workerPc>>
          /\ Claimants' = Claimants /\ Publishers' = Publishers
      BY <2>7 DEF Overloaded, Claimants, Publishers
    <3> QED
      BY <3>1, CountFrame DEF FullSlots, InUncount
  <2>8. CASE CountClaim(h)
    <3>1. /\ UNCHANGED <<ready, state, workerPc>> /\ claimed' = claimed + 1
          /\ Claimants' = Claimants \cup {h} /\ h \notin Claimants
          /\ Publishers' = Publishers
      BY <2>8 DEF CountClaim, Claimants, Publishers
    <3>2. Cardinality(Claimants') = Cardinality(Claimants) + 1
      BY <3>1, FS_AddElement
    <3> QED
      BY <3>1, <3>2 DEF CountersExact, FullSlots
  <2>9. CASE Pack(h)
    <3>1. /\ UNCHANGED <<claimed, ready, state, workerPc>>
          /\ Claimants' = Claimants /\ Publishers' = Publishers
      BY <2>9 DEF Pack, Claimants, Publishers
    <3> QED
      BY <3>1, CountFrame DEF FullSlots, InUncount
  <2>10. CASE PackFails(h)
    <3>1. /\ UNCHANGED <<claimed, ready, state, workerPc>>
          /\ Claimants' = Claimants /\ Publishers' = Publishers
      BY <2>10 DEF PackFails, Claimants, Publishers
    <3> QED
      BY <3>1, CountFrame DEF FullSlots, InUncount
  <2>11. CASE PublishCount(h)
    <3>1. /\ UNCHANGED <<claimed, state, workerPc>> /\ ready' = ready + 1
          /\ Publishers' = Publishers \cup {h} /\ h \notin Publishers
          /\ Claimants' = Claimants
      BY <2>11 DEF PublishCount, Claimants, Publishers
    <3>2. Cardinality(Publishers') = Cardinality(Publishers) + 1
      BY <3>1, FS_AddElement
    <3>3. FullSlots' = FullSlots /\ InUncount' = InUncount /\ InUncount \in Nat
      BY <3>1 DEF FullSlots, InUncount
    <3>4. claimed = Cardinality(Claimants)
          /\ ready = Cardinality(Publishers) + Cardinality(FullSlots) + InUncount
      BY DEF CountersExact, InUncount
    <3>5. claimed' = Cardinality(Claimants')
          /\ ready' = Cardinality(Publishers') + Cardinality(FullSlots') + InUncount'
      BY <3>1, <3>2, <3>3, <3>4
    <3> QED
      BY <3>5 DEF CountersExact, InUncount
  <2>12. CASE PublishCas(h)
    <3>1. /\ UNCHANGED <<claimed, ready, workerPc>>
          /\ Publishers' = Publishers \ {h} /\ h \in Publishers
          /\ Claimants' = Claimants
      BY <2>12 DEF PublishCas, Claimants, Publishers
    <3>2. FullSlots' = FullSlots \cup {slot[h]} /\ slot[h] \notin FullSlots
      BY <2>12 DEF PublishCas, FullSlots, OwnInv, OwnPcs
    <3>3. Cardinality(Publishers') = Cardinality(Publishers) - 1
      BY <3>1, FS_RemoveElement
    <3>4. Cardinality(FullSlots') = Cardinality(FullSlots) + 1
      BY <3>2, FS_AddElement
    <3>5. InUncount' = InUncount /\ InUncount \in Nat
      BY <3>1 DEF InUncount
    <3>6. claimed = Cardinality(Claimants)
          /\ ready = Cardinality(Publishers) + Cardinality(FullSlots) + InUncount
      BY DEF CountersExact, InUncount
    <3>7. claimed' = Cardinality(Claimants')
          /\ ready' = Cardinality(Publishers') + Cardinality(FullSlots') + InUncount'
      BY <3>1, <3>3, <3>4, <3>5, <3>6
    <3> QED
      BY <3>7 DEF CountersExact, InUncount
  <2>13. CASE PublishUncount(h)
    <3>1. /\ UNCHANGED <<ready, state, workerPc>> /\ claimed' = claimed - 1
          /\ Claimants' = Claimants \ {h} /\ h \in Claimants
          /\ Publishers' = Publishers
      BY <2>13 DEF PublishUncount, Claimants, Publishers
    <3>2. Cardinality(Claimants') = Cardinality(Claimants) - 1
      BY <3>1, FS_RemoveElement
    <3> QED
      BY <3>1, <3>2 DEF CountersExact, FullSlots
  <2>14. CASE AbortCas(h)
    <3>1. /\ UNCHANGED <<claimed, ready, workerPc>> /\ FullSlots' = FullSlots
          /\ Claimants' = Claimants /\ Publishers' = Publishers
      BY <2>14 DEF AbortCas, Claimants, Publishers, FullSlots, OwnInv, OwnPcs
    <3> QED
      BY <3>1, CountFrame DEF InUncount
  <2>15. CASE AbortUncount(h)
    <3>1. /\ UNCHANGED <<ready, state, workerPc>> /\ claimed' = claimed - 1
          /\ Claimants' = Claimants \ {h} /\ h \in Claimants
          /\ Publishers' = Publishers
      BY <2>15 DEF AbortUncount, Claimants, Publishers
    <3>2. Cardinality(Claimants') = Cardinality(Claimants) - 1
      BY <3>1, FS_RemoveElement
    <3> QED
      BY <3>1, <3>2 DEF CountersExact, FullSlots
  <2>16. CASE WakeWorker(h)
    <3>1. /\ UNCHANGED <<claimed, ready, state, workerPc>>
          /\ Claimants' = Claimants /\ Publishers' = Publishers
      BY <2>16 DEF WakeWorker, Claimants, Publishers
    <3> QED
      BY <3>1, CountFrame DEF FullSlots, InUncount
  <2>17. CASE ReadUnlock(h)
    <3>1. /\ UNCHANGED <<claimed, ready, state, workerPc>>
          /\ Claimants' = Claimants /\ Publishers' = Publishers
      BY <2>17 DEF ReadUnlock, Claimants, Publishers
    <3> QED
      BY <3>1, CountFrame DEF FullSlots, InUncount
  <2>18. CASE LastWake(h)
    <3>1. /\ UNCHANGED <<claimed, ready, state, workerPc>>
          /\ Claimants' = Claimants /\ Publishers' = Publishers
      BY <2>18 DEF LastWake, Claimants, Publishers
    <3> QED
      BY <3>1, CountFrame DEF FullSlots, InUncount
  <2> QED
    BY <1>1, <2>1, <2>2, <2>3, <2>4, <2>5, <2>6, <2>7, <2>8, <2>9, <2>10,
    <2>11, <2>12, <2>13, <2>14, <2>15, <2>16, <2>17, <2>18 DEF HandlerStep
<1>2. ASSUME NEW h \in Handlers, Cleanup(h)
      PROVE  CountersExact'
  <2>1. UNCHANGED <<claimed, ready, state, workerPc, pc>>
    BY <1>2 DEF Cleanup
  <2> QED
    BY <2>1, CountFrame DEF Claimants, Publishers, FullSlots, InUncount
<1>3. CASE WorkerStep
  <2> USE DEF WorkerAt
  <2>1. CASE EndPoll
    <3>1. /\ UNCHANGED <<claimed, ready, pc>> /\ FullSlots' = FullSlots
          /\ workerPc # "uncount" /\ workerPc' # "uncount"
      BY <2>1 DEF EndPoll, FullSlots
    <3> QED
      BY <3>1, CountFrame DEF Claimants, Publishers, InUncount
  <2>2. CASE ReadyToDispose
    <3>1. /\ UNCHANGED <<claimed, ready, pc>> /\ FullSlots' = FullSlots
          /\ workerPc # "uncount" /\ workerPc' # "uncount"
      BY <2>2 DEF ReadyToDispose, FullSlots
    <3> QED
      BY <3>1, CountFrame DEF Claimants, Publishers, InUncount
  <2>3. CASE CloseAdmission
    <3>1. /\ UNCHANGED <<claimed, ready, pc>> /\ FullSlots' = FullSlots
          /\ workerPc # "uncount" /\ workerPc' # "uncount"
      BY <2>3 DEF CloseAdmission, FullSlots
    <3> QED
      BY <3>1, CountFrame DEF Claimants, Publishers, InUncount
  <2>4. CASE WriteLock
    <3>1. /\ UNCHANGED <<claimed, ready, pc>> /\ FullSlots' = FullSlots
          /\ workerPc # "uncount" /\ workerPc' # "uncount"
      BY <2>4 DEF WriteLock, FullSlots
    <3> QED
      BY <3>1, CountFrame DEF Claimants, Publishers, InUncount
  <2>5. CASE PendingAgain
    <3>1. /\ UNCHANGED <<claimed, ready, pc>> /\ FullSlots' = FullSlots
          /\ workerPc # "uncount" /\ workerPc' # "uncount"
      BY <2>5 DEF PendingAgain, FullSlots
    <3> QED
      BY <3>1, CountFrame DEF Claimants, Publishers, InUncount
  <2>6. CASE Destroy
    <3>1. /\ UNCHANGED <<claimed, ready, pc>> /\ FullSlots' = FullSlots
          /\ workerPc # "uncount" /\ workerPc' # "uncount"
      BY <2>6 DEF Destroy, FullSlots
    <3> QED
      BY <3>1, CountFrame DEF Claimants, Publishers, InUncount
  <2>7. CASE ForgetReceiver
    <3>1. /\ UNCHANGED <<claimed, ready, pc>> /\ FullSlots' = FullSlots
          /\ workerPc # "uncount" /\ workerPc' # "uncount"
      BY <2>7 DEF ForgetReceiver, FullSlots
    <3> QED
      BY <3>1, CountFrame DEF Claimants, Publishers, InUncount
  <2>8. CASE WriteUnlock
    <3>1. /\ UNCHANGED <<claimed, ready, pc>> /\ FullSlots' = FullSlots
          /\ workerPc # "uncount" /\ workerPc' # "uncount"
      BY <2>8 DEF WriteUnlock, FullSlots
    <3> QED
      BY <3>1, CountFrame DEF Claimants, Publishers, InUncount
  <2>9. CASE DrainStart
    <3>1. /\ UNCHANGED <<claimed, ready, pc>> /\ FullSlots' = FullSlots
          /\ workerPc # "uncount" /\ workerPc' # "uncount"
      BY <2>9 DEF DrainStart, FullSlots
    <3> QED
      BY <3>1, CountFrame DEF Claimants, Publishers, InUncount
  <2>10. CASE TakeReady
    <3>1. /\ UNCHANGED <<claimed, ready, pc>> /\ FullSlots' = FullSlots
          /\ workerPc # "uncount" /\ workerPc' # "uncount"
      BY <2>10 DEF TakeReady, FullSlots
    <3> QED
      BY <3>1, CountFrame DEF Claimants, Publishers, InUncount
  <2>11. CASE FindRequest
    <3>1. /\ UNCHANGED <<claimed, ready, pc>> /\ FullSlots' = FullSlots
          /\ workerPc # "uncount" /\ workerPc' # "uncount"
      BY <2>11 DEF FindRequest, FullSlots
    <3> QED
      BY <3>1, CountFrame DEF Claimants, Publishers, InUncount
  <2>12. CASE Apply
    <3>1. /\ UNCHANGED <<claimed, ready, pc>> /\ FullSlots' = FullSlots
          /\ workerPc # "uncount" /\ workerPc' # "uncount"
      BY <2>12 DEF Apply, FullSlots
    <3> QED
      BY <3>1, CountFrame DEF Claimants, Publishers, InUncount
  <2>13. CASE FreeSlot
    <3>1. /\ UNCHANGED <<claimed, ready, pc>> /\ InUncount = 0 /\ InUncount' = 1
          /\ FullSlots' = FullSlots \ {index} /\ index \in FullSlots
      BY <2>13 DEF FreeSlot, FullSlots, OwnInv, InUncount
    <3>2. Cardinality(FullSlots') = Cardinality(FullSlots) - 1
      BY <3>1, FS_RemoveElement
    <3>3. Claimants' = Claimants /\ Publishers' = Publishers
      BY <3>1 DEF Claimants, Publishers
    <3>4. claimed = Cardinality(Claimants)
          /\ ready = Cardinality(Publishers) + Cardinality(FullSlots) + InUncount
      BY DEF CountersExact, InUncount
    <3>5. claimed' = Cardinality(Claimants')
          /\ ready' = Cardinality(Publishers') + Cardinality(FullSlots') + InUncount'
      BY <3>1, <3>2, <3>3, <3>4
    <3> QED
      BY <3>5 DEF CountersExact, InUncount
  <2>14. CASE UncountReady
    <3>1. /\ UNCHANGED <<claimed, pc, state>> /\ ready' = ready - 1
          /\ InUncount = 1 /\ InUncount' = 0
      BY <2>14 DEF UncountReady, InUncount
    <3>2. Claimants' = Claimants /\ Publishers' = Publishers /\ FullSlots' = FullSlots
      BY <3>1 DEF Claimants, Publishers, FullSlots
    <3>4. claimed = Cardinality(Claimants)
          /\ ready = Cardinality(Publishers) + Cardinality(FullSlots) + InUncount
      BY DEF CountersExact, InUncount
    <3>5. claimed' = Cardinality(Claimants')
          /\ ready' = Cardinality(Publishers') + Cardinality(FullSlots') + InUncount'
      BY <3>1, <3>2, <3>4
    <3> QED
      BY <3>5 DEF CountersExact, InUncount
  <2> QED
    BY <1>3, <2>1, <2>2, <2>3, <2>4, <2>5, <2>6, <2>7, <2>8, <2>9, <2>10,
    <2>11, <2>12, <2>13, <2>14 DEF WorkerStep
<1>4. CASE BeginShutdown
  <2>1. UNCHANGED <<claimed, ready, state, workerPc, pc>>
    BY <1>4 DEF BeginShutdown
  <2> QED
    BY <2>1, CountFrame DEF Claimants, Publishers, FullSlots, InUncount
<1>5. CASE Finished \/ UNCHANGED vars
  <2>1. UNCHANGED <<claimed, ready, state, workerPc, pc>>
    BY <1>5 DEF Finished
  <2> QED
    BY <2>1, CountFrame DEF Claimants, Publishers, FullSlots, InUncount
<1> QED
  BY <1>1, <1>2, <1>3, <1>4, <1>5 DEF Next

-----------------------------------------------------------------------------
(* Theorems.                                                               *)

\* The invariant holds in every reachable state.
THEOREM Invariance == Spec => []IInv
<1>1. Init => IInv
  BY InitInv
<1>2. IInv /\ [Next]_vars => IInv'
  BY TypeStep, LockStep, OwnStep, CountStep, RestStep, AnswerStep, WakeStep DEF IInv
<1> QED
  BY <1>1, <1>2, PTL DEF Spec

\* The counters are exact, so that a disposal that reads zero finds the ring at
\* rest, and the receiver is freed when nobody is in it and no request is left
\* (shim.c, ring_claimed and ring_ready, clj_h2o_mt_destroy_response_receiver).
THEOREM RingIsConsistent == Spec => []RingConsistent
<1>1. IInv => RingConsistent
  <2> SUFFICES ASSUME IInv PROVE RingConsistent
    OBVIOUS
  <2>1. CountersExact
    BY DEF IInv
  <2>2. claimed \in Nat /\ ready \in Nat
    <3>1. /\ Cardinality(Claimants) \in Nat /\ Cardinality(Publishers) \in Nat
          /\ Cardinality(FullSlots) \in Nat
      BY CountedFinite, FS_CardinalityType DEF IInv
    <3> QED
      BY <2>1, <3>1 DEF CountersExact
  <2>3. TypeOK
    BY <2>2 DEF TypeOK, IInv, TypeInv
  <2>4. DestroyedAtRest
    BY DEF DestroyedAtRest, IInv, RestInv
  <2>5. ReceiverOutlivesUse
    BY DEF ReceiverOutlivesUse, IInv, LockInv, LockPcs, InNativeCall
  <2> QED
    BY <2>1, <2>3, <2>4, <2>5 DEF RingConsistent
<1> QED
  BY <1>1, Invariance, PTL

\* A request gets at most one answer, that of its own handler, and only if the
\* handler was told so (fixed_final.clj, try-publish-direct-response!).
THEOREM AnswersArePublished == Spec => []AnsweredAsPublished
<1>1. IInv => AnsweredAsPublished
  BY DEF IInv, AnswerInv, AnsweredAsPublished, Published
<1> QED
  BY <1>1, Invariance, PTL

\* Every ready slot will be looked at, however publications and drains interleave
\* (fixed_final.clj, the wake after publish; shim.c, clj_h2o_response_ring_drain).
THEOREM SlotsAreRemembered == Spec => []NoSlotForgotten
<1>1. IInv => NoSlotForgotten
  <2> SUFFICES ASSUME IInv, NEW s \in Slots, state[s] = "ready"
               PROVE  \/ woken \/ shuttingDown
                      \/ \E h \in Handlers : slot[h] = s /\ pc[h] \in {"uncount", "wake"}
                      \/ workerPc = "drain"
                      \/ /\ workerPc \in {"take", "find", "apply", "free", "uncount"}
                         /\ index <= s
    BY DEF NoSlotForgotten
  <2>1. index \in Nat /\ s \in Nat
    BY RingAssumption DEF IInv, TypeInv, Slots
  <2>2. index < s => index <= s
    BY <2>1
  <2> QED
    BY <2>2 DEF IInv, WakeInv
<1> QED
  BY <1>1, Invariance, PTL
===============================================================================
