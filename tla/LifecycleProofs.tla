--------------------------- MODULE LifecycleProofs ---------------------------
(***************************************************************************)
(* Proofs about reload and stop, for any number of generations, any set of *)
(* configs and listener keys, with and without crashes of workers.         *)
(*                                                                         *)
(* PlaceInv and StageInv tie the stage of every generation to the place of *)
(* the lifecycle executor and to the runtime's state.  CertInv and         *)
(* TicketInv say why a service that a drain decided to stop is nobody      *)
(* else's, though it is stopped outside the gate.  ClaimInv counts claims; *)
(* PoolInv relates entries and sockets of the listener pool, between the   *)
(* release of an entry and the close of its socket, too.                   *)
(***************************************************************************)
EXTENDS Lifecycle, FiniteSetTheorems, TLAPS

BuildPcs == {"cert", "tickets", "claims", "register", "publish", "cleanup", "giveUp"}
RetirePcs == {"beginStop", "awaitAccept"}
StopPcs == {"awaitDrains", "stopCerts", "stopTickets", "stopEnd", "stopFailed"}
EndPcs == {"stopCerts", "stopTickets", "stopEnd", "stopped"}

Running == {"live", "stopping", "quiet"}
Leaving == {"draining", "release", "close", "released", "failed"}
Left == {"stopCert", "stopTickets", "done"}

\* Published, and not handed to a drain.
Serving(g) == g = active \/ (pc \in RetirePcs /\ g = retiring)

PlaceInv ==
  /\ next > 1 /\ active = IF phase = "running" THEN next - 1 ELSE 0
  /\ phase = "running" <=> pc \in {"idle"} \cup BuildPcs \cup RetirePcs
  /\ phase = "stopping" <=> pc \in StopPcs
  /\ pc \in BuildPcs => next <= MaxGenerations
  /\ pc \in RetirePcs => retiring \in 1..(next - 1)
  /\ draining \subseteq 1..(next - 1) /\ awaited \subseteq 1..(next - 1)
  /\ \A g \in draining : ~Serving(g)
  /\ pc \in {"awaitDrains"} \cup EndPcs => draining \subseteq awaited
  /\ pc \in EndPcs => draining = {}

\* The stages of the generation that a reload builds.
Candidate ==
  CASE pc \in {"cert", "tickets", "claims"} -> {"building"}
    [] pc \in {"register", "publish"} -> {"live"}
    [] pc = "cleanup" -> {"release", "close", "released"}
    [] pc = "giveUp" -> {"building", "released"}
    [] OTHER -> {"none"}

Stages(g) ==
  IF g > next THEN {"none"}
  ELSE IF g = next THEN Candidate
  ELSE IF Serving(g) THEN IF pc = "awaitAccept" /\ g = retiring THEN {"stopping", "quiet"} ELSE {"live"}
  ELSE IF g \in draining THEN Leaving ELSE Left

StageInv == \A g \in Generations : stage[g] \in Stages(g)

\* What a generation has before it acquires it.
FreshInv ==
  /\ \A g \in Generations : stage[g] = "none" => cert[g] = 0 /\ tickets[g] = 0 /\ claims[g] = {}
  /\ pc = "cert" => cert[next] = 0
  /\ pc \in {"cert", "tickets"} => tickets[next] = 0 /\ claims[next] = {}

Using(g) == stage[g] \in {"building"} \cup Running \cup Leaving
CertUser(g) == Using(g) \/ (pc \in {"awaitDrains", "stopCerts"} /\ g \in awaited)
StopsACert(g) == stage[g] = "stopCert" /\ "cert" \in decided[g]

CertInv ==
  /\ \A g \in Generations : cert[g] <= g
  /\ \A g \in Generations : CertUser(g) /\ cert[g] # 0 => cert[g] \in certs
  /\ \A g \in Generations : StopsACert(g) => cert[g] \in certs
  /\ \A g, h \in Generations : StopsACert(g) /\ CertUser(h) => cert[h] # cert[g]
  /\ \A g, h \in Generations : StopsACert(g) /\ StopsACert(h) /\ g # h => cert[h] # cert[g]
  /\ \A c \in Generations : certStops[c] <= IF c \in certs THEN 0 ELSE 1

StopsAService(g) == stage[g] \in {"stopCert", "stopTickets"} /\ "tickets" \in decided[g]

TicketInv ==
  /\ \A g \in Generations : tickets[g] <= g
  /\ \A g \in Generations : Using(g) /\ tickets[g] # 0 => tickets[g] \in services
  /\ \A g, h \in Generations : StopsAService(g) /\ Using(h) => tickets[h] # tickets[g]
  /\ \A g \in Generations : StopsAService(g) => tickets[g] # 0
  /\ phase = "running" => service = tickets[active]

\* A generation is attached after its registration and until it is told to stop.
AttachInv ==
  \A g \in attached : stage[g] = "live" /\ tickets[g] # 0 /\ (g < next \/ pc = "publish")

Claimants(k) == {g \in Generations : k \in claims[g]}

ClaimInv ==
  /\ \A k \in Keys : pool[k].count = Cardinality(Claimants(k))
  /\ failed \subseteq crashed /\ failed \subseteq 1..(next - 1)
  /\ \A g \in Generations : stage[g] = "failed" => g \in failed
  /\ \A g \in Generations : stage[g] \in {"released"} \cup Left /\ g \notin failed => claims[g] = {}
  /\ \A g \in Generations : stage[g] = "building" => claims[g] \subseteq config[g].keys
  /\ \A g \in Generations : stage[g] = "live" => claims[g] = config[g].keys
  /\ pc = "giveUp" => claims[next] = {}
  /\ notifier <=> phase # "stopped"

PoolInv ==
  /\ \A g \in Generations : closing[g] # <<>> <=> stage[g] = "close"
  /\ \A k \in Keys : pool[k].resource <= next
  /\ \A k \in Keys : pool[k].resource = next => \A g \in Claimants(k) : g = next
  /\ \A g \in Generations : stage[g] = "close" =>
       /\ closing[g][2] <= next /\ (closing[g][2] = next => g = next)
       /\ closing[g][2] # pool[closing[g][1]].resource
  /\ \A k \in Keys : pool[k] # NoEntry => pool[k].resource \in handles[k]
  /\ \A k \in Keys : pool[k] # NoEntry /\ k \notin UnixKeys => linked[k] = pool[k].resource
  /\ \A k \in Keys : \A r \in handles[k] :
       r = pool[k].resource \/ \E g \in Generations : stage[g] = "close" /\ closing[g] = <<k, r>>

IInv == /\ TypeOK /\ PlaceInv /\ StageInv /\ FreshInv
        /\ CertInv /\ TicketInv /\ AttachInv /\ ClaimInv /\ PoolInv

-----------------------------------------------------------------------------
(* Where the generations are.                                              *)

\* The types that the places and the stages depend on.
LEMMA CoreTypes ==
  ASSUME TypeOK
  PROVE  /\ MaxGenerations \in Nat /\ next \in 1..(MaxGenerations + 1)
         /\ active \in 0..MaxGenerations /\ retiring \in 0..MaxGenerations
         /\ draining \subseteq Generations /\ awaited \subseteq Generations
         /\ stage = [g \in Generations |-> stage[g]]
BY LifecycleAssumption DEF TypeOK

\* What StageInv says of one generation.
LEMMA DrainingStages ==
  ASSUME TypeOK, PlaceInv, StageInv
  PROVE  \A g \in draining : g \in Generations /\ g < next /\ stage[g] \in Leaving
<1>. SUFFICES ASSUME NEW g \in draining
              PROVE  g \in Generations /\ g < next /\ stage[g] \in Leaving
  OBVIOUS
<1>1. next \in Int /\ g \in Int /\ g \in Generations /\ g < next /\ ~Serving(g)
  BY DEF TypeOK, PlaceInv, Generations
<1>2. Stages(g) = Leaving
  BY <1>1 DEF Stages
<1>. QED
  BY <1>1, <1>2 DEF StageInv

\* What the stages of a moment say of one generation.
LEMMA StageFacts ==
  ASSUME TypeOK, PlaceInv, StageInv, NEW g \in Generations
  PROVE  /\ stage[g] \in Left => g < next
         /\ stage[g] = "building" => g = next /\ pc \in {"cert", "tickets", "claims", "giveUp"}
         /\ g < next => stage[g] \in Running \cup Leaving \cup Left
         /\ stage[g] \in Leaving /\ g < next => g \in draining
         /\ stage[g] \in {"draining", "failed"} => g < next
         /\ g > next => stage[g] = "none"
         /\ g < next /\ pc \notin RetirePcs /\ stage[g] \in Running => g = active
<1>. next \in Int /\ g \in Int
  BY DEF TypeOK, Generations
<1>. QED
  BY DEF PlaceInv, StageInv, Stages, Candidate, Serving, Running, Leaving, Left, RetirePcs


\* The stages of the two generations the executor works on.
LEMMA ExecutorStages ==
  ASSUME TypeOK, PlaceInv, StageInv
  PROVE  /\ pc \in BuildPcs => next \in Generations /\ stage[next] \in Candidate
         /\ pc \in {"cert", "tickets", "claims"} => stage[next] = "building"
         /\ pc \in {"register", "publish"} => stage[next] = "live"
         /\ pc \in RetirePcs => retiring \in Generations /\ retiring < next /\ stage[retiring] \in Running
<1>1. next \in Int
  BY DEF TypeOK
<1>2. ASSUME pc \in BuildPcs PROVE next \in Generations /\ stage[next] \in Candidate
  BY <1>1, <1>2, LifecycleAssumption DEF PlaceInv, StageInv, Stages, Generations
<1>3. ASSUME pc \in RetirePcs
      PROVE  retiring \in Generations /\ retiring < next /\ stage[retiring] \in Running
  BY <1>1, <1>3, LifecycleAssumption
     DEF TypeOK, PlaceInv, StageInv, Stages, Serving, Running, Generations
<1>. QED
  BY <1>2, <1>3 DEF BuildPcs, Candidate

\* The executor's place goes with the runtime's state.
LEMMA PlaceStep ==
  ASSUME TypeOK, PlaceInv, StageInv, [Next]_vars
  PROVE  PlaceInv'
<1>1. CASE Reload
  BY <1>1
     DEF PlaceInv, Serving, TypeOK, BuildPcs, RetirePcs, StopPcs, EndPcs, Reload, At, Set,
         stateVars, poolVars, serviceVars, drainVars
<1>2. CASE Stop
  BY <1>2
     DEF PlaceInv, Serving, TypeOK, BuildPcs, RetirePcs, StopPcs, EndPcs, Stop, At, stateVars,
         genVars, poolVars, serviceVars, drainVars
<1>3. CASE AcquireCert
  BY <1>3
     DEF PlaceInv, Serving, TypeOK, BuildPcs, RetirePcs, StopPcs, EndPcs, AcquireCert, At, Set,
         stateVars, poolVars, drainVars
<1>4. CASE AcquireCertFails
  BY <1>4
     DEF PlaceInv, Serving, TypeOK, BuildPcs, RetirePcs, StopPcs, EndPcs, AcquireCertFails, At,
         stateVars, genVars, poolVars, serviceVars, drainVars
<1>5. CASE AcquireTickets
  BY <1>5
     DEF PlaceInv, Serving, TypeOK, BuildPcs, RetirePcs, StopPcs, EndPcs, AcquireTickets, At,
         Set, stateVars, poolVars, drainVars
<1>6. CASE AcquireTicketsFails
  BY <1>6
     DEF PlaceInv, Serving, TypeOK, BuildPcs, RetirePcs, StopPcs, EndPcs, AcquireTicketsFails,
         At, stateVars, genVars, poolVars, serviceVars, drainVars
<1>7. ASSUME NEW k \in Keys, AcquireClaim(k) PROVE PlaceInv'
  BY <1>7
     DEF PlaceInv, Serving, TypeOK, BuildPcs, RetirePcs, StopPcs, EndPcs, AcquireClaim, Set,
         stateVars, serviceVars, drainVars, execVars
<1>8. CASE StartFails
  BY <1>8
     DEF PlaceInv, Serving, TypeOK, BuildPcs, RetirePcs, StopPcs, EndPcs, StartFails, At, Set,
         stateVars, poolVars, serviceVars, drainVars
<1>9. CASE Started
  BY <1>9
     DEF PlaceInv, Serving, TypeOK, BuildPcs, RetirePcs, StopPcs, EndPcs, Started, At, Set,
         stateVars, poolVars, serviceVars, drainVars
<1>10. CASE Register
  BY <1>10
     DEF PlaceInv, Serving, TypeOK, BuildPcs, RetirePcs, StopPcs, EndPcs, Register, At,
         stateVars, genVars, poolVars, drainVars
<1>11. CASE RegisterFails
  BY <1>11
     DEF PlaceInv, Serving, TypeOK, BuildPcs, RetirePcs, StopPcs, EndPcs, RegisterFails, At,
         Set, stateVars, poolVars, serviceVars, drainVars
<1>12. CASE CleanedUp
  BY <1>12
     DEF PlaceInv, Serving, TypeOK, BuildPcs, RetirePcs, StopPcs, EndPcs, CleanedUp, At,
         stateVars, genVars, poolVars, serviceVars, drainVars
<1>13. CASE GiveUp
  BY <1>13
     DEF PlaceInv, Serving, TypeOK, BuildPcs, RetirePcs, StopPcs, EndPcs, GiveUp, At, Set,
         stateVars, poolVars, drainVars
<1>14. CASE Publish
  BY <1>14
     DEF PlaceInv, Serving, TypeOK, BuildPcs, RetirePcs, StopPcs, EndPcs, Publish, At, genVars,
         poolVars, serviceVars, drainVars
<1>15. CASE BeginStop
  BY <1>15
     DEF PlaceInv, Serving, TypeOK, BuildPcs, RetirePcs, StopPcs, EndPcs, BeginStop, At, Set,
         stateVars, poolVars, drainVars
<1>16. CASE BeginDrain
  <2>1. /\ pc = "awaitAccept" /\ phase = "running" /\ active = next - 1 /\ next \in Nat
        /\ retiring \in 1..(next - 1) /\ next' = next /\ retiring' = retiring
        /\ draining' = draining \cup {retiring}
    BY <1>16 DEF PlaceInv, TypeOK, BeginDrain, RetirePcs
  <2>2. CASE retiring = active
    <3>1. pc' = "awaitDrains" /\ phase' = "stopping" /\ active' = 0 /\ awaited' = draining'
      BY <1>16, <2>2 DEF BeginDrain
    <3>. QED
      BY <2>1, <3>1 DEF PlaceInv, Serving, BuildPcs, RetirePcs, StopPcs, EndPcs
  <2>3. CASE retiring # active
    <3>1. pc' = "idle" /\ UNCHANGED <<phase, active, awaited>>
      BY <1>16, <2>3 DEF BeginDrain
    <3>2. \A g \in draining' : g # active
      BY <2>1, <2>3 DEF PlaceInv, Serving
    <3>. QED
      BY <2>1, <3>1, <3>2 DEF PlaceInv, Serving, BuildPcs, RetirePcs, StopPcs, EndPcs
  <2>. QED
    BY <2>2, <2>3
<1>17. CASE AwaitDrains
  <2>1. draining = {}
    <3>1. \A g \in draining : stage[g] = "done"
      BY <1>17 DEF AwaitDrains, At, PlaceInv, EndPcs
    <3>2. \A g \in draining : stage[g] # "done"
      BY DrainingStages DEF Leaving
    <3>. QED
      BY <3>1, <3>2
  <2>. QED
    BY <1>17, <2>1
       DEF PlaceInv, Serving, BuildPcs, RetirePcs, StopPcs, EndPcs, AwaitDrains, At, stateVars
<1>18. CASE AwaitThrows
  BY <1>18
     DEF PlaceInv, Serving, TypeOK, BuildPcs, RetirePcs, StopPcs, EndPcs, AwaitThrows, At,
         stateVars, genVars, poolVars, serviceVars, drainVars
<1>19. CASE StopCerts
  BY <1>19
     DEF PlaceInv, Serving, TypeOK, BuildPcs, RetirePcs, StopPcs, EndPcs, StopCerts, At,
         stateVars, genVars, poolVars, drainVars
<1>20. CASE StopService
  BY <1>20
     DEF PlaceInv, Serving, TypeOK, BuildPcs, RetirePcs, StopPcs, EndPcs, StopService, At,
         stateVars, genVars, poolVars, drainVars
<1>21. CASE StopEnd
  BY <1>21
     DEF PlaceInv, Serving, TypeOK, BuildPcs, RetirePcs, StopPcs, EndPcs, StopEnd, At, genVars,
         poolVars, drainVars
<1>22. ASSUME NEW g \in Generations, WorkersStopAccepting(g) PROVE PlaceInv'
  BY <1>22
     DEF PlaceInv, Serving, TypeOK, BuildPcs, RetirePcs, StopPcs, EndPcs, WorkersStopAccepting,
         Set, stateVars, poolVars, serviceVars, drainVars, execVars
<1>23. ASSUME NEW g \in Generations, Drained(g) PROVE PlaceInv'
  BY <1>23
     DEF PlaceInv, Serving, TypeOK, BuildPcs, RetirePcs, StopPcs, EndPcs, Drained, Set,
         stateVars, poolVars, serviceVars, drainVars, execVars
<1>24. ASSUME NEW g \in Generations, DrainThrows(g) PROVE PlaceInv'
  BY <1>24
     DEF PlaceInv, Serving, TypeOK, BuildPcs, RetirePcs, StopPcs, EndPcs, DrainThrows, Set,
         stateVars, poolVars, serviceVars, execVars
<1>25. ASSUME NEW g \in Generations, NEW k \in Keys, Release(g, k) PROVE PlaceInv'
  BY <1>25
     DEF PlaceInv, Serving, TypeOK, BuildPcs, RetirePcs, StopPcs, EndPcs, Release, Set,
         stateVars, serviceVars, drainVars, execVars
<1>26. ASSUME NEW g \in Generations, CloseResource(g) PROVE PlaceInv'
  BY <1>26
     DEF PlaceInv, Serving, TypeOK, BuildPcs, RetirePcs, StopPcs, EndPcs, CloseResource, Set,
         stateVars, serviceVars, drainVars, execVars
<1>27. ASSUME NEW g \in Generations, Released(g) PROVE PlaceInv'
  BY <1>27
     DEF PlaceInv, Serving, TypeOK, BuildPcs, RetirePcs, StopPcs, EndPcs, Released, Set,
         stateVars, poolVars, serviceVars, drainVars, execVars
<1>28. ASSUME NEW g \in Generations, Finalize(g) PROVE PlaceInv'
  BY <1>28
     DEF PlaceInv, Serving, TypeOK, BuildPcs, RetirePcs, StopPcs, EndPcs, Finalize, Leaves,
         Decision, Set, poolVars, serviceVars, execVars
<1>29. ASSUME NEW g \in Generations, StopCert(g) PROVE PlaceInv'
  BY <1>29
     DEF PlaceInv, Serving, TypeOK, BuildPcs, RetirePcs, StopPcs, EndPcs, StopCert, Set,
         stateVars, poolVars, drainVars, execVars
<1>30. ASSUME NEW g \in Generations, StopTickets(g) PROVE PlaceInv'
  BY <1>30
     DEF PlaceInv, Serving, TypeOK, BuildPcs, RetirePcs, StopPcs, EndPcs, StopTickets, Set,
         stateVars, poolVars, drainVars, execVars
<1>31. ASSUME NEW g \in Generations, WorkerCrashes(g) PROVE PlaceInv'
  BY <1>31
     DEF PlaceInv, Serving, TypeOK, BuildPcs, RetirePcs, StopPcs, EndPcs, WorkerCrashes,
         stateVars, genVars, poolVars, serviceVars, execVars
<1>32. CASE UNCHANGED vars
  BY <1>32
     DEF PlaceInv, Serving, TypeOK, BuildPcs, RetirePcs, StopPcs, EndPcs, vars, stateVars,
         genVars, poolVars, serviceVars, drainVars, execVars
<1>33. QED
  BY <1>1, <1>2, <1>3, <1>4, <1>5, <1>6, <1>7, <1>8, <1>9, <1>10, <1>11, <1>12, <1>13, <1>14,
     <1>15, <1>16, <1>17, <1>18, <1>19, <1>20, <1>21, <1>22, <1>23, <1>24, <1>25, <1>26, <1>27,
     <1>28, <1>29, <1>30, <1>31, <1>32 DEF Next, Executor, Generation

\* Every generation is where the executor's place and the runtime's state say.
LEMMA StageStep ==
  ASSUME TypeOK, PlaceInv, StageInv, [Next]_vars
  PROVE  StageInv'
<1>1. CASE Reload
  BY <1>1, CoreTypes
     DEF PlaceInv, StageInv, Stages, Candidate, Serving, Generations, BuildPcs, RetirePcs,
         StopPcs, EndPcs, Running, Leaving, Left, Reload, At, Set, stateVars, poolVars,
         serviceVars, drainVars
<1>2. CASE Stop
  BY <1>2, CoreTypes
     DEF PlaceInv, StageInv, Stages, Candidate, Serving, Generations, BuildPcs, RetirePcs,
         StopPcs, EndPcs, Running, Leaving, Left, Stop, At, stateVars, genVars, poolVars,
         serviceVars, drainVars
<1>3. CASE AcquireCert
  BY <1>3, CoreTypes
     DEF PlaceInv, StageInv, Stages, Candidate, Serving, Generations, BuildPcs, RetirePcs,
         StopPcs, EndPcs, Running, Leaving, Left, AcquireCert, At, Set, stateVars, poolVars,
         drainVars
<1>4. CASE AcquireCertFails
  BY <1>4, CoreTypes
     DEF PlaceInv, StageInv, Stages, Candidate, Serving, Generations, BuildPcs, RetirePcs,
         StopPcs, EndPcs, Running, Leaving, Left, AcquireCertFails, At, stateVars, genVars,
         poolVars, serviceVars, drainVars
<1>5. CASE AcquireTickets
  BY <1>5, CoreTypes
     DEF PlaceInv, StageInv, Stages, Candidate, Serving, Generations, BuildPcs, RetirePcs,
         StopPcs, EndPcs, Running, Leaving, Left, AcquireTickets, At, Set, stateVars, poolVars,
         drainVars
<1>6. CASE AcquireTicketsFails
  BY <1>6, CoreTypes
     DEF PlaceInv, StageInv, Stages, Candidate, Serving, Generations, BuildPcs, RetirePcs,
         StopPcs, EndPcs, Running, Leaving, Left, AcquireTicketsFails, At, stateVars, genVars,
         poolVars, serviceVars, drainVars
<1>7. ASSUME NEW k \in Keys, AcquireClaim(k) PROVE StageInv'
  BY <1>7, CoreTypes
     DEF PlaceInv, StageInv, Stages, Candidate, Serving, Generations, BuildPcs, RetirePcs,
         StopPcs, EndPcs, Running, Leaving, Left, AcquireClaim, Set, stateVars, serviceVars,
         drainVars, execVars
<1>8. CASE StartFails
  BY <1>8, CoreTypes
     DEF PlaceInv, StageInv, Stages, Candidate, Serving, Generations, BuildPcs, RetirePcs,
         StopPcs, EndPcs, Running, Leaving, Left, StartFails, At, Set, stateVars, poolVars,
         serviceVars, drainVars
<1>9. CASE Started
  BY <1>9, CoreTypes
     DEF PlaceInv, StageInv, Stages, Candidate, Serving, Generations, BuildPcs, RetirePcs,
         StopPcs, EndPcs, Running, Leaving, Left, Started, At, Set, stateVars, poolVars,
         serviceVars, drainVars
<1>10. CASE Register
  BY <1>10, CoreTypes
     DEF PlaceInv, StageInv, Stages, Candidate, Serving, Generations, BuildPcs, RetirePcs,
         StopPcs, EndPcs, Running, Leaving, Left, Register, At, stateVars, genVars, poolVars,
         drainVars
<1>11. CASE RegisterFails
  BY <1>11, CoreTypes
     DEF PlaceInv, StageInv, Stages, Candidate, Serving, Generations, BuildPcs, RetirePcs,
         StopPcs, EndPcs, Running, Leaving, Left, RegisterFails, At, Set, stateVars, poolVars,
         serviceVars, drainVars
<1>12. CASE CleanedUp
  BY <1>12, CoreTypes
     DEF PlaceInv, StageInv, Stages, Candidate, Serving, Generations, BuildPcs, RetirePcs,
         StopPcs, EndPcs, Running, Leaving, Left, CleanedUp, At, stateVars, genVars, poolVars,
         serviceVars, drainVars
<1>13. CASE GiveUp
  BY <1>13, CoreTypes
     DEF PlaceInv, StageInv, Stages, Candidate, Serving, Generations, BuildPcs, RetirePcs,
         StopPcs, EndPcs, Running, Leaving, Left, GiveUp, At, Set, stateVars, poolVars,
         drainVars
<1>14. CASE Publish
  BY <1>14, CoreTypes
     DEF PlaceInv, StageInv, Stages, Candidate, Serving, Generations, BuildPcs, RetirePcs,
         StopPcs, EndPcs, Running, Leaving, Left, Publish, At, genVars, poolVars, serviceVars,
         drainVars
<1>15. CASE BeginStop
  BY <1>15, CoreTypes
     DEF PlaceInv, StageInv, Stages, Candidate, Serving, Generations, BuildPcs, RetirePcs,
         StopPcs, EndPcs, Running, Leaving, Left, BeginStop, At, Set, stateVars, poolVars,
         drainVars
<1>16. CASE BeginDrain
  BY <1>16, CoreTypes
     DEF PlaceInv, StageInv, Stages, Candidate, Serving, Generations, BuildPcs, RetirePcs,
         StopPcs, EndPcs, Running, Leaving, Left, BeginDrain, Set, poolVars, serviceVars,
         drainVars
<1>17. CASE AwaitDrains
  BY <1>17, CoreTypes
     DEF PlaceInv, StageInv, Stages, Candidate, Serving, Generations, BuildPcs, RetirePcs,
         StopPcs, EndPcs, Running, Leaving, Left, AwaitDrains, At, stateVars, genVars, poolVars,
         serviceVars, drainVars
<1>18. CASE AwaitThrows
  BY <1>18, CoreTypes
     DEF PlaceInv, StageInv, Stages, Candidate, Serving, Generations, BuildPcs, RetirePcs,
         StopPcs, EndPcs, Running, Leaving, Left, AwaitThrows, At, stateVars, genVars, poolVars,
         serviceVars, drainVars
<1>19. CASE StopCerts
  BY <1>19, CoreTypes
     DEF PlaceInv, StageInv, Stages, Candidate, Serving, Generations, BuildPcs, RetirePcs,
         StopPcs, EndPcs, Running, Leaving, Left, StopCerts, At, stateVars, genVars, poolVars,
         drainVars
<1>20. CASE StopService
  BY <1>20, CoreTypes
     DEF PlaceInv, StageInv, Stages, Candidate, Serving, Generations, BuildPcs, RetirePcs,
         StopPcs, EndPcs, Running, Leaving, Left, StopService, At, stateVars, genVars, poolVars,
         drainVars
<1>21. CASE StopEnd
  BY <1>21, CoreTypes
     DEF PlaceInv, StageInv, Stages, Candidate, Serving, Generations, BuildPcs, RetirePcs,
         StopPcs, EndPcs, Running, Leaving, Left, StopEnd, At, genVars, poolVars, drainVars
<1>22. ASSUME NEW g \in Generations, WorkersStopAccepting(g) PROVE StageInv'
  BY <1>22, CoreTypes
     DEF PlaceInv, StageInv, Stages, Candidate, Serving, Generations, BuildPcs, RetirePcs,
         StopPcs, EndPcs, Running, Leaving, Left, WorkersStopAccepting, Set, stateVars,
         poolVars, serviceVars, drainVars, execVars
<1>23. ASSUME NEW g \in Generations, Drained(g) PROVE StageInv'
  BY <1>23, CoreTypes
     DEF PlaceInv, StageInv, Stages, Candidate, Serving, Generations, BuildPcs, RetirePcs,
         StopPcs, EndPcs, Running, Leaving, Left, Drained, Set, stateVars, poolVars,
         serviceVars, drainVars, execVars
<1>24. ASSUME NEW g \in Generations, DrainThrows(g) PROVE StageInv'
  BY <1>24, CoreTypes
     DEF PlaceInv, StageInv, Stages, Candidate, Serving, Generations, BuildPcs, RetirePcs,
         StopPcs, EndPcs, Running, Leaving, Left, DrainThrows, Set, stateVars, poolVars,
         serviceVars, execVars
<1>25. ASSUME NEW g \in Generations, NEW k \in Keys, Release(g, k) PROVE StageInv'
  BY <1>25, CoreTypes
     DEF PlaceInv, StageInv, Stages, Candidate, Serving, Generations, BuildPcs, RetirePcs,
         StopPcs, EndPcs, Running, Leaving, Left, Release, Set, stateVars, serviceVars,
         drainVars, execVars
<1>26. ASSUME NEW g \in Generations, CloseResource(g) PROVE StageInv'
  BY <1>26, CoreTypes
     DEF PlaceInv, StageInv, Stages, Candidate, Serving, Generations, BuildPcs, RetirePcs,
         StopPcs, EndPcs, Running, Leaving, Left, CloseResource, Set, stateVars, serviceVars,
         drainVars, execVars
<1>27. ASSUME NEW g \in Generations, Released(g) PROVE StageInv'
  BY <1>27, CoreTypes
     DEF PlaceInv, StageInv, Stages, Candidate, Serving, Generations, BuildPcs, RetirePcs,
         StopPcs, EndPcs, Running, Leaving, Left, Released, Set, stateVars, poolVars,
         serviceVars, drainVars, execVars
<1>28. ASSUME NEW g \in Generations, Finalize(g) PROVE StageInv'
  BY <1>28, CoreTypes
     DEF PlaceInv, StageInv, Stages, Candidate, Serving, Generations, BuildPcs, RetirePcs,
         StopPcs, EndPcs, Running, Leaving, Left, Finalize, Leaves, Decision, Set, poolVars,
         serviceVars, execVars
<1>29. ASSUME NEW g \in Generations, StopCert(g) PROVE StageInv'
  BY <1>29, CoreTypes
     DEF PlaceInv, StageInv, Stages, Candidate, Serving, Generations, BuildPcs, RetirePcs,
         StopPcs, EndPcs, Running, Leaving, Left, StopCert, Set, stateVars, poolVars, drainVars,
         execVars
<1>30. ASSUME NEW g \in Generations, StopTickets(g) PROVE StageInv'
  BY <1>30, CoreTypes
     DEF PlaceInv, StageInv, Stages, Candidate, Serving, Generations, BuildPcs, RetirePcs,
         StopPcs, EndPcs, Running, Leaving, Left, StopTickets, Set, stateVars, poolVars,
         drainVars, execVars
<1>31. ASSUME NEW g \in Generations, WorkerCrashes(g) PROVE StageInv'
  BY <1>31, CoreTypes
     DEF PlaceInv, StageInv, Stages, Candidate, Serving, Generations, BuildPcs, RetirePcs,
         StopPcs, EndPcs, Running, Leaving, Left, WorkerCrashes, stateVars, genVars, poolVars,
         serviceVars, execVars
<1>32. CASE UNCHANGED vars
  BY <1>32
     DEF StageInv, Stages, Candidate, Serving, vars, stateVars, genVars, poolVars, serviceVars,
         drainVars, execVars
<1>33. QED
  BY <1>1, <1>2, <1>3, <1>4, <1>5, <1>6, <1>7, <1>8, <1>9, <1>10, <1>11, <1>12, <1>13, <1>14,
     <1>15, <1>16, <1>17, <1>18, <1>19, <1>20, <1>21, <1>22, <1>23, <1>24, <1>25, <1>26, <1>27,
     <1>28, <1>29, <1>30, <1>31, <1>32 DEF Next, Executor, Generation

\* A number that is given to a candidate comes with nothing.
LEMMA FreshStep ==
  ASSUME TypeOK, PlaceInv, StageInv, FreshInv, ClaimInv, [Next]_vars
  PROVE  FreshInv'
<1>1. CASE Reload
  <2>1. /\ next \in Generations /\ stage[next] = "none" /\ pc = "idle" /\ pc' = "cert" /\ next' = next
        /\ stage' = Set(stage, next, "building")
        /\ UNCHANGED <<cert, tickets, claims>>
    BY <1>1, LifecycleAssumption
       DEF Reload, At, stateVars, PlaceInv, StageInv, Stages, Candidate, TypeOK, Generations
  <2>. QED
    BY <2>1 DEF FreshInv, TypeOK, Set
<1>2. CASE Stop
  BY <1>2
     DEF FreshInv, PlaceInv, StageInv, Stages, Candidate, TypeOK, BuildPcs, RetirePcs, Leaving,
         Stop, At, stateVars, genVars, poolVars, serviceVars, drainVars
<1>3. CASE AcquireCert
  BY <1>3
     DEF FreshInv, PlaceInv, StageInv, Stages, Candidate, TypeOK, BuildPcs, RetirePcs, Leaving,
         AcquireCert, At, Set, stateVars, poolVars, drainVars
<1>4. CASE AcquireCertFails
  BY <1>4
     DEF FreshInv, PlaceInv, StageInv, Stages, Candidate, TypeOK, BuildPcs, RetirePcs, Leaving,
         AcquireCertFails, At, stateVars, genVars, poolVars, serviceVars, drainVars
<1>5. CASE AcquireTickets
  BY <1>5
     DEF FreshInv, PlaceInv, StageInv, Stages, Candidate, TypeOK, BuildPcs, RetirePcs, Leaving,
         AcquireTickets, At, Set, stateVars, poolVars, drainVars
<1>6. CASE AcquireTicketsFails
  BY <1>6
     DEF FreshInv, PlaceInv, StageInv, Stages, Candidate, TypeOK, BuildPcs, RetirePcs, Leaving,
         AcquireTicketsFails, At, stateVars, genVars, poolVars, serviceVars, drainVars
<1>7. ASSUME NEW k \in Keys, AcquireClaim(k) PROVE FreshInv'
  BY <1>7
     DEF FreshInv, PlaceInv, StageInv, Stages, Candidate, TypeOK, BuildPcs, RetirePcs, Leaving,
         AcquireClaim, Set, stateVars, serviceVars, drainVars, execVars
<1>8. CASE StartFails
  BY <1>8
     DEF FreshInv, PlaceInv, StageInv, Stages, Candidate, TypeOK, BuildPcs, RetirePcs, Leaving,
         StartFails, At, Set, stateVars, poolVars, serviceVars, drainVars
<1>9. CASE Started
  BY <1>9
     DEF FreshInv, PlaceInv, StageInv, Stages, Candidate, TypeOK, BuildPcs, RetirePcs, Leaving,
         Started, At, Set, stateVars, poolVars, serviceVars, drainVars
<1>10. CASE Register
  BY <1>10
     DEF FreshInv, PlaceInv, StageInv, Stages, Candidate, TypeOK, BuildPcs, RetirePcs, Leaving,
         Register, At, stateVars, genVars, poolVars, drainVars
<1>11. CASE RegisterFails
  BY <1>11
     DEF FreshInv, PlaceInv, StageInv, Stages, Candidate, TypeOK, BuildPcs, RetirePcs, Leaving,
         RegisterFails, At, Set, stateVars, poolVars, serviceVars, drainVars
<1>12. CASE CleanedUp
  BY <1>12
     DEF FreshInv, PlaceInv, StageInv, Stages, Candidate, TypeOK, BuildPcs, RetirePcs, Leaving,
         CleanedUp, At, stateVars, genVars, poolVars, serviceVars, drainVars
<1>13. CASE GiveUp
  <2>1. next \in Generations /\ claims[next] = {} /\ claims' = claims /\ pc' = "idle"
    BY <1>13, LifecycleAssumption
       DEF GiveUp, At, genVars, PlaceInv, BuildPcs, ClaimInv, TypeOK, Generations
  <2>2. /\ stage' = Set(stage, next, "none")
        /\ cert' = Set(cert, next, 0) /\ tickets' = Set(tickets, next, 0)
    BY <1>13 DEF GiveUp
  <2>. QED
    BY <2>1, <2>2 DEF FreshInv, TypeOK, Set
<1>14. CASE Publish
  BY <1>14
     DEF FreshInv, PlaceInv, StageInv, Stages, Candidate, TypeOK, BuildPcs, RetirePcs, Leaving,
         Publish, At, genVars, poolVars, serviceVars, drainVars
<1>15. CASE BeginStop
  BY <1>15
     DEF FreshInv, PlaceInv, StageInv, Stages, Candidate, TypeOK, BuildPcs, RetirePcs, Leaving,
         BeginStop, At, Set, stateVars, poolVars, drainVars
<1>16. CASE BeginDrain
  BY <1>16
     DEF FreshInv, PlaceInv, StageInv, Stages, Candidate, TypeOK, BuildPcs, RetirePcs, Leaving,
         BeginDrain, Set, poolVars, serviceVars, drainVars
<1>17. CASE AwaitDrains
  BY <1>17
     DEF FreshInv, PlaceInv, StageInv, Stages, Candidate, TypeOK, BuildPcs, RetirePcs, Leaving,
         AwaitDrains, At, stateVars, genVars, poolVars, serviceVars, drainVars
<1>18. CASE AwaitThrows
  BY <1>18
     DEF FreshInv, PlaceInv, StageInv, Stages, Candidate, TypeOK, BuildPcs, RetirePcs, Leaving,
         AwaitThrows, At, stateVars, genVars, poolVars, serviceVars, drainVars
<1>19. CASE StopCerts
  BY <1>19
     DEF FreshInv, PlaceInv, StageInv, Stages, Candidate, TypeOK, BuildPcs, RetirePcs, Leaving,
         StopCerts, At, stateVars, genVars, poolVars, drainVars
<1>20. CASE StopService
  BY <1>20
     DEF FreshInv, PlaceInv, StageInv, Stages, Candidate, TypeOK, BuildPcs, RetirePcs, Leaving,
         StopService, At, stateVars, genVars, poolVars, drainVars
<1>21. CASE StopEnd
  BY <1>21
     DEF FreshInv, PlaceInv, StageInv, Stages, Candidate, TypeOK, BuildPcs, RetirePcs, Leaving,
         StopEnd, At, genVars, poolVars, drainVars
<1>22. ASSUME NEW g \in Generations, WorkersStopAccepting(g) PROVE FreshInv'
  BY <1>22
     DEF FreshInv, PlaceInv, StageInv, Stages, Candidate, TypeOK, BuildPcs, RetirePcs, Leaving,
         WorkersStopAccepting, Set, stateVars, poolVars, serviceVars, drainVars, execVars
<1>23. ASSUME NEW g \in Generations, Drained(g) PROVE FreshInv'
  BY <1>23
     DEF FreshInv, PlaceInv, StageInv, Stages, Candidate, TypeOK, BuildPcs, RetirePcs, Leaving,
         Drained, Set, stateVars, poolVars, serviceVars, drainVars, execVars
<1>24. ASSUME NEW g \in Generations, DrainThrows(g) PROVE FreshInv'
  BY <1>24
     DEF FreshInv, PlaceInv, StageInv, Stages, Candidate, TypeOK, BuildPcs, RetirePcs, Leaving,
         DrainThrows, Set, stateVars, poolVars, serviceVars, execVars
<1>25. ASSUME NEW g \in Generations, NEW k \in Keys, Release(g, k) PROVE FreshInv'
  BY <1>25
     DEF FreshInv, PlaceInv, StageInv, Stages, Candidate, TypeOK, BuildPcs, RetirePcs, Leaving,
         Release, Set, stateVars, serviceVars, drainVars, execVars
<1>26. ASSUME NEW g \in Generations, CloseResource(g) PROVE FreshInv'
  BY <1>26
     DEF FreshInv, PlaceInv, StageInv, Stages, Candidate, TypeOK, BuildPcs, RetirePcs, Leaving,
         CloseResource, Set, stateVars, serviceVars, drainVars, execVars
<1>27. ASSUME NEW g \in Generations, Released(g) PROVE FreshInv'
  BY <1>27
     DEF FreshInv, PlaceInv, StageInv, Stages, Candidate, TypeOK, BuildPcs, RetirePcs, Leaving,
         Released, Set, stateVars, poolVars, serviceVars, drainVars, execVars
<1>28. ASSUME NEW g \in Generations, Finalize(g) PROVE FreshInv'
  BY <1>28
     DEF FreshInv, PlaceInv, StageInv, Stages, Candidate, TypeOK, BuildPcs, RetirePcs, Leaving,
         Finalize, Leaves, Decision, Set, poolVars, serviceVars, execVars
<1>29. ASSUME NEW g \in Generations, StopCert(g) PROVE FreshInv'
  BY <1>29
     DEF FreshInv, PlaceInv, StageInv, Stages, Candidate, TypeOK, BuildPcs, RetirePcs, Leaving,
         StopCert, Set, stateVars, poolVars, drainVars, execVars
<1>30. ASSUME NEW g \in Generations, StopTickets(g) PROVE FreshInv'
  BY <1>30
     DEF FreshInv, PlaceInv, StageInv, Stages, Candidate, TypeOK, BuildPcs, RetirePcs, Leaving,
         StopTickets, Set, stateVars, poolVars, drainVars, execVars
<1>31. ASSUME NEW g \in Generations, WorkerCrashes(g) PROVE FreshInv'
  BY <1>31
     DEF FreshInv, PlaceInv, StageInv, Stages, Candidate, TypeOK, BuildPcs, RetirePcs, Leaving,
         WorkerCrashes, stateVars, genVars, poolVars, serviceVars, execVars
<1>32. CASE UNCHANGED vars
  BY <1>32
     DEF FreshInv, PlaceInv, StageInv, Stages, Candidate, TypeOK, BuildPcs, RetirePcs, Leaving,
         vars, stateVars, genVars, poolVars, serviceVars, drainVars, execVars
<1>33. QED
  BY <1>1, <1>2, <1>3, <1>4, <1>5, <1>6, <1>7, <1>8, <1>9, <1>10, <1>11, <1>12, <1>13, <1>14,
     <1>15, <1>16, <1>17, <1>18, <1>19, <1>20, <1>21, <1>22, <1>23, <1>24, <1>25, <1>26, <1>27,
     <1>28, <1>29, <1>30, <1>31, <1>32 DEF Next, Executor, Generation

-----------------------------------------------------------------------------
(* Ticket services.                                                        *)

\* A step that changes no service, and brings no user and no decision to stop one.
LEMMA TicketFrame ==
  ASSUME TicketInv, UNCHANGED <<tickets, services>>,
         phase' = "running" => phase = "running" /\ active' = active /\ service' = service,
         \A h \in Generations : (Using(h)' => Using(h)) /\ (StopsAService(h)' => StopsAService(h))
  PROVE  TicketInv'
<1>1. phase' = "running" => service' = tickets'[active']
  BY DEF TicketInv
<1>2. \A g \in Generations : Using(g)' /\ tickets[g] # 0 => tickets[g] \in services
  BY DEF TicketInv
<1>3. \A g, h \in Generations : StopsAService(g)' /\ Using(h)' => tickets[h] # tickets[g]
  BY DEF TicketInv
<1>4. \A g \in Generations : StopsAService(g)' => tickets[g] # 0
  BY DEF TicketInv
<1>. QED
  BY <1>1, <1>2, <1>3, <1>4 DEF TicketInv

\* Under the gate the runtime's state lists every user but the one that leaves.
LEMMA UsersAreAsked ==
  ASSUME TypeOK, PlaceInv, StageInv, GateFree, NEW g \in Generations, NEW h \in Generations,
         h # g, Using(h)
  PROVE  h \in ({active} \ {0}) \cup (draining \ {g})
<1>1. next \in Int /\ h \in Int /\ h > 0
  BY DEF TypeOK, Generations
<1>2. pc \notin BuildPcs /\ pc \notin RetirePcs
  BY DEF GateFree, BuildPcs, RetirePcs
<1>3. Candidate = {"none"}
  BY <1>2 DEF Candidate, BuildPcs
<1>4. h < next /\ stage[h] \in Running \cup Leaving
  BY <1>1, <1>3 DEF StageInv, Stages, Using, Running, Leaving, Left
<1>5. h = active \/ h \in draining
  BY <1>1, <1>2, <1>4 DEF StageInv, Stages, Serving, Running, Leaving, Left
<1>. QED
  BY <1>1, <1>5

\* Nobody uses anything once every drain has been awaited.
LEMMA NobodyUses ==
  ASSUME TypeOK, PlaceInv, StageInv, pc \in EndPcs, NEW h \in Generations
  PROVE  ~Using(h)
<1>1. next \in Int /\ h \in Int /\ h > 0 /\ active = 0 /\ draining = {} /\ pc \notin RetirePcs
  BY DEF TypeOK, Generations, PlaceInv, EndPcs, BuildPcs, RetirePcs, StopPcs
<1>2. Candidate = {"none"}
  BY DEF Candidate, EndPcs
<1>. QED
  BY <1>1, <1>2 DEF StageInv, Stages, Serving, Using, Running, Leaving, Left

\* While a candidate is built the active generation serves.
LEMMA ActiveServes ==
  ASSUME TypeOK, PlaceInv, StageInv, phase = "running"
  PROVE  /\ active \in Generations /\ active \in Nat /\ next \in Nat /\ active < next
         /\ stage[active] \in Running
         /\ ~(pc = "awaitAccept" /\ retiring = active) => stage[active] = "live"
<1>1. active \in Generations /\ active \in Nat /\ next \in Nat /\ active < next
  BY LifecycleAssumption DEF TypeOK, Generations, PlaceInv
<1>. QED
  BY <1>1 DEF StageInv, Stages, Serving, Running


\* A ticket service that is to be stopped has no user left, and the state names the one
\* of the active generation.
LEMMA TicketStep ==
  ASSUME TypeOK, PlaceInv, StageInv, FreshInv, TicketInv, [Next]_vars
  PROVE  TicketInv'
<1>1. CASE Reload
  <2>1. /\ next \in Generations /\ stage[next] = "none" /\ stage' = Set(stage, next, "building")
        /\ UNCHANGED <<stateVars, tickets, services, decided>>
    BY <1>1, LifecycleAssumption
       DEF Reload, At, stateVars, serviceVars, drainVars, PlaceInv, StageInv, Stages, Candidate,
           TypeOK, Generations
  <2>2. tickets[next] = 0
    BY <2>1 DEF FreshInv
  <2>3. phase' = "running" => service' = tickets'[active']
    BY <2>1 DEF TicketInv, stateVars
  <2>4. \A g \in Generations : StopsAService(g)' => StopsAService(g)
    BY <2>1 DEF StopsAService, Set, TypeOK
  <2>5. \A h \in Generations : Using(h)' => h = next \/ Using(h)
    BY <2>1 DEF Using, Set, TypeOK
  <2>. QED
    BY <2>1, <2>2, <2>3, <2>4, <2>5 DEF TicketInv
<1>2. CASE Stop
  BY <1>2, TicketFrame
     DEF TypeOK, PlaceInv, BuildPcs, RetirePcs, StopPcs, Using, StopsAService, Running, Leaving,
         Stop, At, stateVars, genVars, poolVars, serviceVars, drainVars
<1>3. CASE AcquireCert
  BY <1>3, TicketFrame
     DEF TypeOK, PlaceInv, BuildPcs, RetirePcs, StopPcs, Using, StopsAService, Running, Leaving,
         AcquireCert, At, Set, stateVars, poolVars, drainVars
<1>4. CASE AcquireCertFails
  BY <1>4, TicketFrame
     DEF TypeOK, PlaceInv, BuildPcs, RetirePcs, StopPcs, Using, StopsAService, Running, Leaving,
         AcquireCertFails, At, stateVars, genVars, poolVars, serviceVars, drainVars
<1>5. CASE AcquireTickets
  <2>1. /\ next \in Generations /\ phase = "running" /\ pc = "tickets"
        /\ UNCHANGED <<phase, active, service, next, stage, decided>>
    BY <1>5, LifecycleAssumption
       DEF AcquireTickets, At, stateVars, drainVars, PlaceInv, BuildPcs, TypeOK, Generations
  <2>2. PICK s : /\ s \in {0, service, next}
                 /\ tickets' = Set(tickets, next, s) /\ services' = services \cup ({s} \ {0})
    BY <1>5 DEF AcquireTickets
  <2>3. /\ active \in Generations /\ active \in Nat /\ next \in Nat /\ active < next
        /\ service = tickets[active] /\ Using(active)
    BY <2>1, ActiveServes DEF TicketInv, Using
  <2>4. \A g \in Generations : StopsAService(g) => g < next
    BY StageFacts DEF StopsAService, Left
  <2>5. \A g \in Generations : (StopsAService(g)' <=> StopsAService(g)) /\ (Using(g)' <=> Using(g))
    BY <2>1 DEF StopsAService, Using
  <2>6. s <= next
    BY <2>2, <2>3 DEF TicketInv, TypeOK
  <2>7. s # 0 => s \in services'
    BY <2>2
  <2>8. \A g \in Generations : StopsAService(g) => s # tickets[g]
    <3>. SUFFICES ASSUME NEW g \in Generations, StopsAService(g) PROVE s # tickets[g]
      OBVIOUS
    <3>1. tickets[g] # 0 /\ tickets[g] # service /\ tickets[g] <= g /\ g < next
      BY <2>3, <2>4 DEF TicketInv
    <3>. QED
      BY <2>1, <2>2, <3>1 DEF Generations, TypeOK
  <2>9. \A g \in Generations : tickets'[g] = IF g = next THEN s ELSE tickets[g]
    BY <2>2 DEF Set, TypeOK
  <2>10. \A g \in Generations : tickets'[g] <= g
    BY <2>6, <2>9 DEF TicketInv
  <2>11. \A g \in Generations : Using(g)' /\ tickets'[g] # 0 => tickets'[g] \in services'
    BY <2>2, <2>5, <2>7, <2>9 DEF TicketInv
  <2>12. \A g \in Generations : StopsAService(g)' => g # next /\ tickets'[g] = tickets[g]
    BY <2>4, <2>5, <2>3, <2>9
  <2>13. \A g, h \in Generations : StopsAService(g)' /\ Using(h)' => tickets'[h] # tickets'[g]
    BY <2>5, <2>8, <2>9, <2>12 DEF TicketInv
  <2>14. \A g \in Generations : StopsAService(g)' => tickets'[g] # 0
    BY <2>5, <2>12 DEF TicketInv
  <2>15. service' = tickets'[active']
    BY <2>1, <2>3, <2>9
  <2>. QED
    BY <2>10, <2>11, <2>13, <2>14, <2>15 DEF TicketInv
<1>6. CASE AcquireTicketsFails
  BY <1>6, TicketFrame
     DEF TypeOK, PlaceInv, BuildPcs, RetirePcs, StopPcs, Using, StopsAService, Running, Leaving,
         AcquireTicketsFails, At, stateVars, genVars, poolVars, serviceVars, drainVars
<1>7. ASSUME NEW k \in Keys, AcquireClaim(k) PROVE TicketInv'
  BY <1>7, TicketFrame
     DEF TypeOK, PlaceInv, BuildPcs, RetirePcs, StopPcs, Using, StopsAService, Running, Leaving,
         AcquireClaim, Set, stateVars, serviceVars, drainVars, execVars
<1>8. CASE StartFails
  BY <1>8, TicketFrame, ExecutorStages
     DEF TypeOK, PlaceInv, BuildPcs, RetirePcs, StopPcs, Using, StopsAService, Running, Leaving,
         StartFails, At, Set, stateVars, poolVars, serviceVars, drainVars
<1>9. CASE Started
  BY <1>9, TicketFrame, ExecutorStages
     DEF TypeOK, PlaceInv, BuildPcs, RetirePcs, StopPcs, Using, StopsAService, Running, Leaving,
         Started, At, Set, stateVars, poolVars, serviceVars, drainVars
<1>10. CASE Register
  BY <1>10, TicketFrame
     DEF TypeOK, PlaceInv, BuildPcs, RetirePcs, StopPcs, Using, StopsAService, Running, Leaving,
         Register, At, stateVars, genVars, poolVars, drainVars
<1>11. CASE RegisterFails
  BY <1>11, TicketFrame, ExecutorStages
     DEF TypeOK, PlaceInv, BuildPcs, RetirePcs, StopPcs, Using, StopsAService, Running, Leaving,
         RegisterFails, At, Set, stateVars, poolVars, serviceVars, drainVars
<1>12. CASE CleanedUp
  BY <1>12, TicketFrame
     DEF TypeOK, PlaceInv, BuildPcs, RetirePcs, StopPcs, Using, StopsAService, Running, Leaving,
         CleanedUp, At, stateVars, genVars, poolVars, serviceVars, drainVars
<1>13. CASE GiveUp
  <2>1. /\ next \in Generations /\ phase = "running" /\ UNCHANGED <<stateVars, decided>>
        /\ services' = services \ {next} /\ tickets' = Set(tickets, next, 0)
        /\ stage' = Set(stage, next, "none")
    BY <1>13, LifecycleAssumption
       DEF GiveUp, At, drainVars, PlaceInv, BuildPcs, TypeOK, Generations
  <2>2. /\ active \in Generations /\ next \in Nat /\ active < next
        /\ phase' = phase /\ service' = service /\ active' = active
    BY <2>1, ActiveServes DEF stateVars
  <2>3. \A h \in Generations : Using(h)' => Using(h) /\ h < next
    <3>1. \A h \in Generations : Using(h)' => Using(h) /\ h # next
      BY <2>1 DEF Using, Running, Leaving, Set, TypeOK
    <3>2. \A h \in Generations : Using(h) => h <= next
      BY <2>2, StageFacts DEF Using, Running, Leaving, Generations
    <3>. QED
      BY <3>1, <3>2, <2>2 DEF Generations
  <2>4. \A g \in Generations : StopsAService(g)' => StopsAService(g) /\ g # next
    BY <2>1 DEF StopsAService, Set, TypeOK
  <2>5. \A g \in Generations : tickets'[g] = IF g = next THEN 0 ELSE tickets[g]
    BY <2>1 DEF Set, TypeOK
  <2>6. \A g \in Generations : tickets'[g] <= g
    BY <2>5 DEF TicketInv, Generations
  <2>7. \A h \in Generations : Using(h)' /\ tickets'[h] # 0 => tickets'[h] \in services'
    <3>. SUFFICES ASSUME NEW h \in Generations, Using(h)', tickets'[h] # 0
                  PROVE  tickets'[h] \in services'
      OBVIOUS
    <3>1. Using(h) /\ h < next /\ tickets'[h] = tickets[h] /\ tickets[h] <= h
      BY <2>2, <2>3, <2>5 DEF TicketInv, Generations
    <3>2. tickets[h] # next /\ tickets[h] \in services
      BY <2>2, <3>1 DEF TicketInv, TypeOK, Generations
    <3>. QED
      BY <2>1, <3>1, <3>2
  <2>8. \A g, h \in Generations : StopsAService(g)' /\ Using(h)' => tickets'[h] # tickets'[g]
    BY <2>2, <2>3, <2>4, <2>5 DEF TicketInv, Generations
  <2>9. \A g \in Generations : StopsAService(g)' => tickets'[g] # 0
    BY <2>4, <2>5 DEF TicketInv
  <2>10. service' = tickets'[active']
    BY <2>1, <2>2, <2>5 DEF TicketInv
  <2>. QED
    BY <2>6, <2>7, <2>8, <2>9, <2>10 DEF TicketInv
<1>14. CASE Publish
  <2>1. /\ UNCHANGED <<tickets, services, stage, decided>> /\ active' = next /\ service' = tickets[next]
    BY <1>14 DEF Publish, genVars, serviceVars, drainVars
  <2>2. \A g \in Generations : (StopsAService(g)' <=> StopsAService(g)) /\ (Using(g)' <=> Using(g))
    BY <2>1 DEF StopsAService, Using
  <2>3. service' = tickets'[active']
    BY <2>1
  <2>. QED
    BY <2>1, <2>2, <2>3 DEF TicketInv
<1>15. CASE BeginStop
  BY <1>15, TicketFrame, ExecutorStages
     DEF TypeOK, PlaceInv, BuildPcs, RetirePcs, StopPcs, Using, StopsAService, Running, Leaving,
         BeginStop, At, Set, stateVars, poolVars, drainVars
<1>16. CASE BeginDrain
  BY <1>16, TicketFrame, ExecutorStages
     DEF TypeOK, PlaceInv, BuildPcs, RetirePcs, StopPcs, Using, StopsAService, Running, Leaving,
         BeginDrain, Set, poolVars, serviceVars, drainVars
<1>17. CASE AwaitDrains
  BY <1>17, TicketFrame
     DEF TypeOK, PlaceInv, BuildPcs, RetirePcs, StopPcs, Using, StopsAService, Running, Leaving,
         AwaitDrains, At, stateVars, genVars, poolVars, serviceVars, drainVars
<1>18. CASE AwaitThrows
  BY <1>18, TicketFrame
     DEF TypeOK, PlaceInv, BuildPcs, RetirePcs, StopPcs, Using, StopsAService, Running, Leaving,
         AwaitThrows, At, stateVars, genVars, poolVars, serviceVars, drainVars
<1>19. CASE StopCerts
  BY <1>19, TicketFrame
     DEF TypeOK, PlaceInv, BuildPcs, RetirePcs, StopPcs, Using, StopsAService, Running, Leaving,
         StopCerts, At, stateVars, genVars, poolVars, drainVars
<1>20. CASE StopService
  <2>1. /\ UNCHANGED <<stateVars, tickets, stage, decided>> /\ pc = "stopTickets" /\ phase = "stopping"
        /\ services' = services \ {captured}
    BY <1>20 DEF StopService, At, genVars, drainVars, PlaceInv, StopPcs
  <2>2. \A g \in Generations : (StopsAService(g)' <=> StopsAService(g)) /\ (Using(g)' <=> Using(g))
    BY <2>1 DEF StopsAService, Using
  <2>3. \A h \in Generations : ~Using(h)
    BY <2>1, NobodyUses DEF EndPcs
  <2>4. phase' # "running"
    BY <2>1 DEF stateVars
  <2>. QED
    BY <2>1, <2>2, <2>3, <2>4 DEF TicketInv
<1>21. CASE StopEnd
  BY <1>21, TicketFrame
     DEF TypeOK, PlaceInv, BuildPcs, RetirePcs, StopPcs, Using, StopsAService, Running, Leaving,
         StopEnd, At, genVars, poolVars, drainVars
<1>22. ASSUME NEW g \in Generations, WorkersStopAccepting(g) PROVE TicketInv'
  BY <1>22, TicketFrame
     DEF TypeOK, PlaceInv, BuildPcs, RetirePcs, StopPcs, Using, StopsAService, Running, Leaving,
         WorkersStopAccepting, Set, stateVars, poolVars, serviceVars, drainVars, execVars
<1>23. ASSUME NEW g \in Generations, Drained(g) PROVE TicketInv'
  BY <1>23, TicketFrame
     DEF TypeOK, PlaceInv, BuildPcs, RetirePcs, StopPcs, Using, StopsAService, Running, Leaving,
         Drained, Set, stateVars, poolVars, serviceVars, drainVars, execVars
<1>24. ASSUME NEW g \in Generations, DrainThrows(g) PROVE TicketInv'
  BY <1>24, TicketFrame
     DEF TypeOK, PlaceInv, BuildPcs, RetirePcs, StopPcs, Using, StopsAService, Running, Leaving,
         DrainThrows, Set, stateVars, poolVars, serviceVars, execVars
<1>25. ASSUME NEW g \in Generations, NEW k \in Keys, Release(g, k) PROVE TicketInv'
  BY <1>25, TicketFrame
     DEF TypeOK, PlaceInv, BuildPcs, RetirePcs, StopPcs, Using, StopsAService, Running, Leaving,
         Release, Set, stateVars, serviceVars, drainVars, execVars
<1>26. ASSUME NEW g \in Generations, CloseResource(g) PROVE TicketInv'
  BY <1>26, TicketFrame
     DEF TypeOK, PlaceInv, BuildPcs, RetirePcs, StopPcs, Using, StopsAService, Running, Leaving,
         CloseResource, Set, stateVars, serviceVars, drainVars, execVars
<1>27. ASSUME NEW g \in Generations, Released(g) PROVE TicketInv'
  BY <1>27, TicketFrame
     DEF TypeOK, PlaceInv, BuildPcs, RetirePcs, StopPcs, Using, StopsAService, Running, Leaving,
         Released, Set, stateVars, poolVars, serviceVars, drainVars, execVars
<1>28. ASSUME NEW g \in Generations, Finalize(g) PROVE TicketInv'
  <2>. DEFINE stops == Decision(StopsCert(g), StopsTickets(g))
  <2>1. /\ stage[g] \in {"released", "failed"} /\ GateFree /\ ("tickets" \in stops <=> StopsTickets(g))
    BY <1>28 DEF Finalize, Leaves, Decision
  <2>2. /\ decided' = Set(decided, g, stops) /\ stage' = Set(stage, g, "stopCert")
        /\ UNCHANGED <<phase, active, tickets, services>>
        /\ service' = IF "tickets" \in stops /\ tickets[g] = service THEN 0 ELSE service
    BY <1>28 DEF Finalize, Leaves, serviceVars
  <2>. HIDE DEF stops
  <2>3. Using(g) /\ ~Using(g)' /\ (StopsAService(g)' => StopsTickets(g))
    <3>1. stage'[g] = "stopCert" /\ decided'[g] = stops
      BY <2>2 DEF Set, TypeOK
    <3>2. Using(g) /\ ~Using(g)'
      BY <2>1, <3>1 DEF Using, Running, Leaving
    <3>3. StopsAService(g)' => StopsTickets(g)
      BY <2>1, <3>1 DEF StopsAService
    <3>. QED
      BY <3>2, <3>3
  <2>4. \A h \in Generations : h # g => (Using(h)' <=> Using(h)) /\ (StopsAService(h)' <=> StopsAService(h))
    BY <2>2 DEF Using, StopsAService, Set, TypeOK
  <2>5. StopsTickets(g) => /\ tickets[g] # 0
                           /\ \A h \in ({active} \ {0}) \cup (draining \ {g}) : tickets[h] # tickets[g]
    BY DEF StopsTickets, InUse
  <2>6. StopsTickets(g) => \A h \in Generations : h # g /\ Using(h) => tickets[h] # tickets[g]
    BY <2>1, <2>5, UsersAreAsked
  <2>7. phase' = "running" => service' = tickets'[active']
    <3>. SUFFICES ASSUME phase = "running" PROVE service' = tickets[active]
      BY <2>2
    <3>1. service = tickets[active] /\ active # 0
      BY ActiveServes DEF TicketInv, Generations
    <3>2. "tickets" \in stops => tickets[active] # tickets[g]
      BY <2>1, <2>5, <3>1, UsersAreAsked, ActiveServes DEF Using
    <3>. QED
      BY <2>2, <3>1, <3>2
  <2>8. \A a, h \in Generations : StopsAService(a)' /\ Using(h)' => tickets[h] # tickets[a]
    BY <2>3, <2>4, <2>6 DEF TicketInv
  <2>9. \A a \in Generations : StopsAService(a)' => tickets[a] # 0
    BY <2>3, <2>4, <2>5 DEF TicketInv
  <2>10. \A h \in Generations : Using(h)' => Using(h)
    BY <2>3, <2>4
  <2>. QED
    BY <2>2, <2>7, <2>8, <2>9, <2>10 DEF TicketInv
<1>29. ASSUME NEW g \in Generations, StopCert(g) PROVE TicketInv'
  BY <1>29, TicketFrame
     DEF TypeOK, PlaceInv, BuildPcs, RetirePcs, StopPcs, Using, StopsAService, Running, Leaving,
         StopCert, Set, stateVars, poolVars, drainVars, execVars
<1>30. ASSUME NEW g \in Generations, StopTickets(g) PROVE TicketInv'
  <2>1. /\ stage[g] = "stopTickets" /\ stage' = Set(stage, g, "done")
        /\ services' = IF "tickets" \in decided[g] THEN services \ {tickets[g]} ELSE services
        /\ UNCHANGED <<phase, active, service, tickets, decided>>
    BY <1>30 DEF StopTickets, stateVars, drainVars
  <2>2. \A h \in Generations : (Using(h)' => Using(h)) /\ (StopsAService(h)' => StopsAService(h))
    BY <2>1 DEF Using, StopsAService, Running, Leaving, Set, TypeOK
  <2>3. \A h \in Generations : Using(h)' /\ tickets[h] # 0 => tickets[h] \in services'
    <3>. SUFFICES ASSUME NEW h \in Generations, Using(h)', tickets[h] # 0
                  PROVE  tickets[h] \in services'
      OBVIOUS
    <3>1. tickets[h] \in services
      BY <2>2 DEF TicketInv
    <3>2. "tickets" \in decided[g] => tickets[h] # tickets[g]
      BY <2>1, <2>2 DEF StopsAService, TicketInv
    <3>. QED
      BY <2>1, <3>1, <3>2
  <2>4. phase' = "running" => service' = tickets'[active']
    BY <2>1 DEF TicketInv
  <2>5. \A a, h \in Generations : StopsAService(a)' /\ Using(h)' => tickets[h] # tickets[a]
    BY <2>2 DEF TicketInv
  <2>6. \A a \in Generations : StopsAService(a)' => tickets[a] # 0
    BY <2>2 DEF TicketInv
  <2>. QED
    BY <2>1, <2>3, <2>4, <2>5, <2>6 DEF TicketInv
<1>31. ASSUME NEW g \in Generations, WorkerCrashes(g) PROVE TicketInv'
  BY <1>31, TicketFrame
     DEF TypeOK, PlaceInv, BuildPcs, RetirePcs, StopPcs, Using, StopsAService, Running, Leaving,
         WorkerCrashes, stateVars, genVars, poolVars, serviceVars, execVars
<1>32. CASE UNCHANGED vars
  BY <1>32, TicketFrame
     DEF Using, StopsAService, Running, Leaving, vars, stateVars, genVars, poolVars,
         serviceVars, drainVars, execVars
<1>33. QED
  BY <1>1, <1>2, <1>3, <1>4, <1>5, <1>6, <1>7, <1>8, <1>9, <1>10, <1>11, <1>12, <1>13, <1>14,
     <1>15, <1>16, <1>17, <1>18, <1>19, <1>20, <1>21, <1>22, <1>23, <1>24, <1>25, <1>26, <1>27,
     <1>28, <1>29, <1>30, <1>31, <1>32 DEF Next, Executor, Generation

\* The ticket keys of a generation are rotated while it serves, no longer.
LEMMA AttachStep ==
  ASSUME TypeOK, PlaceInv, StageInv, FreshInv, TicketInv, AttachInv, [Next]_vars
  PROVE  AttachInv'
<1>1. CASE Reload
  BY <1>1
     DEF AttachInv, FreshInv, PlaceInv, StageInv, Stages, Candidate, TypeOK, BuildPcs,
         RetirePcs, Leaving, Reload, At, Set, stateVars, poolVars, serviceVars, drainVars
<1>2. CASE Stop
  BY <1>2
     DEF AttachInv, FreshInv, PlaceInv, StageInv, Stages, Candidate, TypeOK, BuildPcs,
         RetirePcs, Leaving, Stop, At, stateVars, genVars, poolVars, serviceVars, drainVars
<1>3. CASE AcquireCert
  BY <1>3
     DEF AttachInv, FreshInv, PlaceInv, StageInv, Stages, Candidate, TypeOK, BuildPcs,
         RetirePcs, Leaving, AcquireCert, At, Set, stateVars, poolVars, drainVars
<1>4. CASE AcquireCertFails
  BY <1>4
     DEF AttachInv, FreshInv, PlaceInv, StageInv, Stages, Candidate, TypeOK, BuildPcs,
         RetirePcs, Leaving, AcquireCertFails, At, stateVars, genVars, poolVars, serviceVars,
         drainVars
<1>5. CASE AcquireTickets
  BY <1>5
     DEF AttachInv, FreshInv, PlaceInv, StageInv, Stages, Candidate, TypeOK, BuildPcs,
         RetirePcs, Leaving, AcquireTickets, At, Set, stateVars, poolVars, drainVars
<1>6. CASE AcquireTicketsFails
  BY <1>6
     DEF AttachInv, FreshInv, PlaceInv, StageInv, Stages, Candidate, TypeOK, BuildPcs,
         RetirePcs, Leaving, AcquireTicketsFails, At, stateVars, genVars, poolVars, serviceVars,
         drainVars
<1>7. ASSUME NEW k \in Keys, AcquireClaim(k) PROVE AttachInv'
  BY <1>7
     DEF AttachInv, FreshInv, PlaceInv, StageInv, Stages, Candidate, TypeOK, BuildPcs,
         RetirePcs, Leaving, AcquireClaim, Set, stateVars, serviceVars, drainVars, execVars
<1>8. CASE StartFails
  BY <1>8
     DEF AttachInv, FreshInv, PlaceInv, StageInv, Stages, Candidate, TypeOK, BuildPcs,
         RetirePcs, Leaving, StartFails, At, Set, stateVars, poolVars, serviceVars, drainVars
<1>9. CASE Started
  BY <1>9
     DEF AttachInv, FreshInv, PlaceInv, StageInv, Stages, Candidate, TypeOK, BuildPcs,
         RetirePcs, Leaving, Started, At, Set, stateVars, poolVars, serviceVars, drainVars
<1>10. CASE Register
  <2>1. /\ next \in Generations /\ stage[next] = "live" /\ pc' = "publish" /\ UNCHANGED <<stage, tickets, next>>
        /\ attached' = IF tickets[next] = 0 THEN attached ELSE attached \cup {next}
        /\ pc # "publish"
    BY <1>10, LifecycleAssumption
       DEF Register, At, stateVars, genVars, PlaceInv, StageInv, Stages, Candidate, BuildPcs,
           TypeOK, Generations
  <2>. QED
    BY <2>1 DEF AttachInv
<1>11. CASE RegisterFails
  BY <1>11
     DEF AttachInv, FreshInv, PlaceInv, StageInv, Stages, Candidate, TypeOK, BuildPcs,
         RetirePcs, Leaving, RegisterFails, At, Set, stateVars, poolVars, serviceVars, drainVars
<1>12. CASE CleanedUp
  BY <1>12
     DEF AttachInv, FreshInv, PlaceInv, StageInv, Stages, Candidate, TypeOK, BuildPcs,
         RetirePcs, Leaving, CleanedUp, At, stateVars, genVars, poolVars, serviceVars, drainVars
<1>13. CASE GiveUp
  BY <1>13
     DEF AttachInv, FreshInv, PlaceInv, StageInv, Stages, Candidate, TypeOK, BuildPcs,
         RetirePcs, Leaving, GiveUp, At, Set, stateVars, poolVars, drainVars
<1>14. CASE Publish
  <2>1. /\ next \in Nat /\ next' = next + 1 /\ UNCHANGED <<stage, tickets, attached>>
    BY <1>14 DEF Publish, genVars, serviceVars, TypeOK
  <2>2. \A g \in attached : g \in Int /\ g <= next
    <3>. SUFFICES ASSUME NEW g \in attached PROVE g \in Int /\ g <= next
      OBVIOUS
    <3>1. g \in Generations /\ g \in Int /\ next \in Int /\ stage[g] = "live"
      BY DEF AttachInv, TypeOK, Generations
    <3>2. ~(g > next)
      BY <3>1, StageFacts
    <3>. QED
      BY <3>1, <3>2
  <2>3. \A g \in attached' : g < next'
    BY <2>1, <2>2
  <2>. QED
    BY <2>1, <2>3 DEF AttachInv
<1>15. CASE BeginStop
  BY <1>15
     DEF AttachInv, FreshInv, PlaceInv, StageInv, Stages, Candidate, TypeOK, BuildPcs,
         RetirePcs, Leaving, BeginStop, At, Set, stateVars, poolVars, drainVars
<1>16. CASE BeginDrain
  BY <1>16
     DEF AttachInv, FreshInv, PlaceInv, StageInv, Stages, Candidate, TypeOK, BuildPcs,
         RetirePcs, Leaving, BeginDrain, Set, poolVars, serviceVars, drainVars
<1>17. CASE AwaitDrains
  BY <1>17
     DEF AttachInv, FreshInv, PlaceInv, StageInv, Stages, Candidate, TypeOK, BuildPcs,
         RetirePcs, Leaving, AwaitDrains, At, stateVars, genVars, poolVars, serviceVars,
         drainVars
<1>18. CASE AwaitThrows
  BY <1>18
     DEF AttachInv, FreshInv, PlaceInv, StageInv, Stages, Candidate, TypeOK, BuildPcs,
         RetirePcs, Leaving, AwaitThrows, At, stateVars, genVars, poolVars, serviceVars,
         drainVars
<1>19. CASE StopCerts
  BY <1>19
     DEF AttachInv, FreshInv, PlaceInv, StageInv, Stages, Candidate, TypeOK, BuildPcs,
         RetirePcs, Leaving, StopCerts, At, stateVars, genVars, poolVars, drainVars
<1>20. CASE StopService
  BY <1>20
     DEF AttachInv, FreshInv, PlaceInv, StageInv, Stages, Candidate, TypeOK, BuildPcs,
         RetirePcs, Leaving, StopService, At, stateVars, genVars, poolVars, drainVars
<1>21. CASE StopEnd
  BY <1>21
     DEF AttachInv, FreshInv, PlaceInv, StageInv, Stages, Candidate, TypeOK, BuildPcs,
         RetirePcs, Leaving, StopEnd, At, genVars, poolVars, drainVars
<1>22. ASSUME NEW g \in Generations, WorkersStopAccepting(g) PROVE AttachInv'
  BY <1>22
     DEF AttachInv, FreshInv, PlaceInv, StageInv, Stages, Candidate, TypeOK, BuildPcs,
         RetirePcs, Leaving, WorkersStopAccepting, Set, stateVars, poolVars, serviceVars,
         drainVars, execVars
<1>23. ASSUME NEW g \in Generations, Drained(g) PROVE AttachInv'
  BY <1>23
     DEF AttachInv, FreshInv, PlaceInv, StageInv, Stages, Candidate, TypeOK, BuildPcs,
         RetirePcs, Leaving, Drained, Set, stateVars, poolVars, serviceVars, drainVars, execVars
<1>24. ASSUME NEW g \in Generations, DrainThrows(g) PROVE AttachInv'
  BY <1>24
     DEF AttachInv, FreshInv, PlaceInv, StageInv, Stages, Candidate, TypeOK, BuildPcs,
         RetirePcs, Leaving, DrainThrows, Set, stateVars, poolVars, serviceVars, execVars
<1>25. ASSUME NEW g \in Generations, NEW k \in Keys, Release(g, k) PROVE AttachInv'
  BY <1>25
     DEF AttachInv, FreshInv, PlaceInv, StageInv, Stages, Candidate, TypeOK, BuildPcs,
         RetirePcs, Leaving, Release, Set, stateVars, serviceVars, drainVars, execVars
<1>26. ASSUME NEW g \in Generations, CloseResource(g) PROVE AttachInv'
  BY <1>26
     DEF AttachInv, FreshInv, PlaceInv, StageInv, Stages, Candidate, TypeOK, BuildPcs,
         RetirePcs, Leaving, CloseResource, Set, stateVars, serviceVars, drainVars, execVars
<1>27. ASSUME NEW g \in Generations, Released(g) PROVE AttachInv'
  BY <1>27
     DEF AttachInv, FreshInv, PlaceInv, StageInv, Stages, Candidate, TypeOK, BuildPcs,
         RetirePcs, Leaving, Released, Set, stateVars, poolVars, serviceVars, drainVars,
         execVars
<1>28. ASSUME NEW g \in Generations, Finalize(g) PROVE AttachInv'
  BY <1>28
     DEF AttachInv, FreshInv, PlaceInv, StageInv, Stages, Candidate, TypeOK, BuildPcs,
         RetirePcs, Leaving, Finalize, Leaves, Decision, Set, poolVars, serviceVars, execVars
<1>29. ASSUME NEW g \in Generations, StopCert(g) PROVE AttachInv'
  BY <1>29
     DEF AttachInv, FreshInv, PlaceInv, StageInv, Stages, Candidate, TypeOK, BuildPcs,
         RetirePcs, Leaving, StopCert, Set, stateVars, poolVars, drainVars, execVars
<1>30. ASSUME NEW g \in Generations, StopTickets(g) PROVE AttachInv'
  BY <1>30
     DEF AttachInv, FreshInv, PlaceInv, StageInv, Stages, Candidate, TypeOK, BuildPcs,
         RetirePcs, Leaving, StopTickets, Set, stateVars, poolVars, drainVars, execVars
<1>31. ASSUME NEW g \in Generations, WorkerCrashes(g) PROVE AttachInv'
  BY <1>31
     DEF AttachInv, FreshInv, PlaceInv, StageInv, Stages, Candidate, TypeOK, BuildPcs,
         RetirePcs, Leaving, WorkerCrashes, stateVars, genVars, poolVars, serviceVars, execVars
<1>32. CASE UNCHANGED vars
  BY <1>32
     DEF AttachInv, FreshInv, PlaceInv, StageInv, Stages, Candidate, TypeOK, BuildPcs,
         RetirePcs, Leaving, vars, stateVars, genVars, poolVars, serviceVars, drainVars,
         execVars
<1>33. QED
  BY <1>1, <1>2, <1>3, <1>4, <1>5, <1>6, <1>7, <1>8, <1>9, <1>10, <1>11, <1>12, <1>13, <1>14,
     <1>15, <1>16, <1>17, <1>18, <1>19, <1>20, <1>21, <1>22, <1>23, <1>24, <1>25, <1>26, <1>27,
     <1>28, <1>29, <1>30, <1>31, <1>32 DEF Next, Executor, Generation

-----------------------------------------------------------------------------
(* Certificate runtimes.                                                   *)

\* A step that changes no runtime, and brings no user and no decision to stop one.
LEMMA CertFrame ==
  ASSUME CertInv, UNCHANGED <<cert, certs, certStops>>,
         \A h \in Generations : CertUser(h)' => CertUser(h),
         \A h \in Generations : StopsACert(h)' => StopsACert(h)
  PROVE  CertInv'
<1>1. \A g \in Generations : CertUser(g)' /\ cert[g] # 0 => cert[g] \in certs
  BY DEF CertInv
<1>2. \A g \in Generations : StopsACert(g)' => cert[g] \in certs
  BY DEF CertInv
<1>3. \A g, h \in Generations : StopsACert(g)' /\ CertUser(h)' => cert[h] # cert[g]
  BY DEF CertInv
<1>4. \A g, h \in Generations : StopsACert(g)' /\ StopsACert(h)' /\ g # h => cert[h] # cert[g]
  BY DEF CertInv
<1>. QED
  BY <1>1, <1>2, <1>3, <1>4 DEF CertInv


\* A certificate runtime that is to be stopped has no user left and has not been stopped.
LEMMA CertStep ==
  ASSUME TypeOK, PlaceInv, StageInv, FreshInv, CertInv, [Next]_vars
  PROVE  CertInv'
<1>1. CASE Reload
  <2>1. /\ next \in Generations /\ stage[next] = "none" /\ stage' = Set(stage, next, "building")
        /\ pc = "idle" /\ pc' = "cert" /\ UNCHANGED <<cert, certs, certStops, decided>>
    BY <1>1, LifecycleAssumption
       DEF Reload, At, stateVars, serviceVars, drainVars, PlaceInv, StageInv, Stages, Candidate,
           TypeOK, Generations
  <2>2. cert[next] = 0
    BY <2>1 DEF FreshInv
  <2>3. \A g \in Generations : StopsACert(g)' => StopsACert(g)
    BY <2>1 DEF StopsACert, Set, TypeOK
  <2>4. \A h \in Generations : CertUser(h)' => h = next \/ CertUser(h)
    BY <2>1 DEF CertUser, Using, Set, TypeOK
  <2>5. \A g \in Generations : StopsACert(g) => cert[g] # 0
    BY DEF CertInv, TypeOK, Generations
  <2>. QED
    BY <2>1, <2>2, <2>3, <2>4, <2>5 DEF CertInv
<1>2. CASE Stop
  BY <1>2, CertFrame
     DEF TypeOK, CertUser, Using, StopsACert, Running, Leaving, Stop, At, stateVars, genVars,
         poolVars, serviceVars, drainVars
<1>3. CASE AcquireCert
  <2>1. /\ next \in Generations /\ phase = "running" /\ pc = "cert" /\ pc' = "tickets"
        /\ UNCHANGED <<active, next, stage, decided>>
    BY <1>3, LifecycleAssumption
       DEF AcquireCert, At, stateVars, drainVars, PlaceInv, BuildPcs, TypeOK, Generations
  <2>2. PICK r : /\ r \in {0, next} \/ (r = cert[active] /\ r # 0)
                 /\ cert' = Set(cert, next, r) /\ certs' = certs \cup ({r} \ {0})
                 /\ certStops' = IF r = next THEN Set(certStops, next, 0) ELSE certStops
    BY <1>3 DEF AcquireCert, SameRuntime
  <2>3. /\ active \in Generations /\ active \in Nat /\ next \in Nat /\ active < next
        /\ CertUser(active)
    BY <2>1, ActiveServes DEF CertUser, Using
  <2>4. \A g \in Generations : StopsACert(g) => g < next
    BY StageFacts DEF StopsACert, Left
  <2>5. \A g \in Generations : (StopsACert(g)' <=> StopsACert(g)) /\ (CertUser(g)' <=> CertUser(g))
    BY <2>1 DEF StopsACert, CertUser, Using
  <2>6. r \in Nat /\ r <= next
    BY <2>2, <2>3 DEF CertInv, TypeOK
  <2>7. r # 0 => r \in certs'
    BY <2>2
  <2>8. \A g \in Generations : StopsACert(g) => r # cert[g]
    <3>. SUFFICES ASSUME NEW g \in Generations, StopsACert(g) PROVE r # cert[g]
      OBVIOUS
    <3>1. cert[g] \in Generations /\ cert[g] # cert[active] /\ cert[g] <= g /\ g < next
      BY <2>3, <2>4 DEF CertInv, TypeOK
    <3>. QED
      BY <2>2, <2>3, <3>1 DEF Generations
  <2>9. \A g \in Generations : cert'[g] = IF g = next THEN r ELSE cert[g]
    BY <2>2 DEF Set, TypeOK
  <2>10. \A g \in Generations : cert'[g] <= g
    BY <2>6, <2>9 DEF CertInv
  <2>11. \A g \in Generations : CertUser(g)' /\ cert'[g] # 0 => cert'[g] \in certs'
    BY <2>2, <2>5, <2>7, <2>9 DEF CertInv
  <2>12. \A g \in Generations : StopsACert(g)' => StopsACert(g) /\ g # next /\ cert'[g] = cert[g]
    BY <2>3, <2>4, <2>5, <2>9
  <2>13. \A g \in Generations : StopsACert(g)' => cert'[g] \in certs'
    BY <2>2, <2>12 DEF CertInv
  <2>14. \A g, h \in Generations : StopsACert(g)' /\ CertUser(h)' => cert'[h] # cert'[g]
    BY <2>5, <2>8, <2>9, <2>12 DEF CertInv
  <2>15. \A g, h \in Generations : StopsACert(g)' /\ StopsACert(h)' /\ g # h => cert'[h] # cert'[g]
    BY <2>12 DEF CertInv
  <2>16. \A c \in Generations : certStops'[c] <= IF c \in certs' THEN 0 ELSE 1
    <3>1. CASE r = next
      <4>1. \A c \in Generations : certStops'[c] = IF c = next THEN 0 ELSE certStops[c]
        BY <2>2, <3>1 DEF Set, TypeOK
      <4>2. \A c \in Generations : c # next => (c \in certs' <=> c \in certs)
        BY <2>2, <3>1
      <4>. QED
        BY <4>1, <4>2 DEF CertInv
    <3>2. CASE r # next
      <4>1. certs' = certs
        <5>1. r # 0 => r \in certs
          BY <2>2, <2>3, <3>2 DEF CertInv
        <5>. QED
          BY <2>2, <5>1
      <4>. QED
        BY <2>2, <3>2, <4>1 DEF CertInv
    <3>. QED
      BY <3>1, <3>2
  <2>. QED
    BY <2>10, <2>11, <2>13, <2>14, <2>15, <2>16 DEF CertInv
<1>4. CASE AcquireCertFails
  BY <1>4, CertFrame
     DEF TypeOK, CertUser, Using, StopsACert, Running, Leaving, AcquireCertFails, At, stateVars,
         genVars, poolVars, serviceVars, drainVars
<1>5. CASE AcquireTickets
  BY <1>5, CertFrame
     DEF TypeOK, CertUser, Using, StopsACert, Running, Leaving, AcquireTickets, At, Set,
         stateVars, poolVars, drainVars
<1>6. CASE AcquireTicketsFails
  BY <1>6, CertFrame
     DEF TypeOK, CertUser, Using, StopsACert, Running, Leaving, AcquireTicketsFails, At,
         stateVars, genVars, poolVars, serviceVars, drainVars
<1>7. ASSUME NEW k \in Keys, AcquireClaim(k) PROVE CertInv'
  BY <1>7, CertFrame
     DEF TypeOK, CertUser, Using, StopsACert, Running, Leaving, AcquireClaim, Set, stateVars,
         serviceVars, drainVars, execVars
<1>8. CASE StartFails
  BY <1>8, CertFrame, ExecutorStages
     DEF TypeOK, CertUser, Using, StopsACert, Running, Leaving, BuildPcs, RetirePcs, StartFails,
         At, Set, stateVars, poolVars, serviceVars, drainVars
<1>9. CASE Started
  BY <1>9, CertFrame, ExecutorStages
     DEF TypeOK, CertUser, Using, StopsACert, Running, Leaving, BuildPcs, RetirePcs, Started,
         At, Set, stateVars, poolVars, serviceVars, drainVars
<1>10. CASE Register
  BY <1>10, CertFrame
     DEF TypeOK, CertUser, Using, StopsACert, Running, Leaving, Register, At, stateVars,
         genVars, poolVars, drainVars
<1>11. CASE RegisterFails
  BY <1>11, CertFrame, ExecutorStages
     DEF TypeOK, CertUser, Using, StopsACert, Running, Leaving, BuildPcs, RetirePcs,
         RegisterFails, At, Set, stateVars, poolVars, serviceVars, drainVars
<1>12. CASE CleanedUp
  BY <1>12, CertFrame
     DEF TypeOK, CertUser, Using, StopsACert, Running, Leaving, CleanedUp, At, stateVars,
         genVars, poolVars, serviceVars, drainVars
<1>13. CASE GiveUp
  <2>1. /\ next \in Generations /\ pc' = "idle" /\ UNCHANGED <<next, decided>>
        /\ certs' = certs \ {next} /\ cert' = Set(cert, next, 0)
        /\ certStops' = IF next \in certs THEN Set(certStops, next, certStops[next] + 1) ELSE certStops
        /\ stage' = Set(stage, next, "none")
    BY <1>13, ExecutorStages DEF GiveUp, At, stateVars, drainVars, BuildPcs
  <2>2. next \in Nat
    BY DEF TypeOK
  <2>3. \A h \in Generations : CertUser(h)' => CertUser(h) /\ h < next
    <3>1. \A h \in Generations : CertUser(h)' => Using(h) /\ h # next
      BY <2>1 DEF CertUser, Using, Running, Leaving, Set, TypeOK
    <3>2. \A h \in Generations : Using(h) => h <= next
      BY <2>2, StageFacts DEF Using, Running, Leaving, Generations
    <3>. QED
      BY <3>1, <3>2, <2>2 DEF Generations, CertUser
  <2>4. \A g \in Generations : StopsACert(g)' => StopsACert(g) /\ g < next
    <3>1. \A g \in Generations : StopsACert(g)' => StopsACert(g)
      BY <2>1 DEF StopsACert, Set, TypeOK
    <3>. QED
      BY <3>1, StageFacts DEF StopsACert, Left
  <2>5. \A g \in Generations : cert'[g] = IF g = next THEN 0 ELSE cert[g]
    BY <2>1 DEF Set, TypeOK
  <2>6. \A g \in Generations : cert'[g] <= g
    BY <2>5 DEF CertInv, Generations
  <2>7. \A g \in Generations : g < next => cert'[g] = cert[g] /\ cert[g] # next
    BY <2>2, <2>5 DEF CertInv, TypeOK, Generations
  <2>8. \A h \in Generations : CertUser(h)' /\ cert'[h] # 0 => cert'[h] \in certs'
    BY <2>1, <2>3, <2>7 DEF CertInv
  <2>9. \A g \in Generations : StopsACert(g)' => cert'[g] \in certs'
    BY <2>1, <2>4, <2>7 DEF CertInv
  <2>10. \A g, h \in Generations : StopsACert(g)' /\ CertUser(h)' => cert'[h] # cert'[g]
    BY <2>3, <2>4, <2>7 DEF CertInv
  <2>11. \A g, h \in Generations : StopsACert(g)' /\ StopsACert(h)' /\ g # h => cert'[h] # cert'[g]
    BY <2>4, <2>7 DEF CertInv
  <2>12. \A c \in Generations : certStops'[c] <= IF c \in certs' THEN 0 ELSE 1
    <3>1. CASE next \in certs
      <4>1. certStops[next] <= 0 /\ certStops[next] \in Nat
        BY <2>1, <3>1 DEF CertInv, TypeOK
      <4>2. \A c \in Generations : certStops'[c] = IF c = next THEN certStops[next] + 1 ELSE certStops[c]
        BY <2>1, <3>1 DEF Set, TypeOK
      <4>3. \A c \in Generations : c # next => (c \in certs' <=> c \in certs)
        BY <2>1
      <4>4. next \notin certs'
        BY <2>1
      <4>. QED
        BY <4>1, <4>2, <4>3, <4>4 DEF CertInv
    <3>2. CASE next \notin certs
      <4>1. certs' = certs /\ certStops' = certStops
        BY <2>1, <3>2
      <4>. QED
        BY <4>1 DEF CertInv
    <3>. QED
      BY <3>1, <3>2
  <2>. QED
    BY <2>6, <2>8, <2>9, <2>10, <2>11, <2>12 DEF CertInv
<1>14. CASE Publish
  BY <1>14, CertFrame
     DEF TypeOK, CertUser, Using, StopsACert, Running, Leaving, Publish, At, genVars, poolVars,
         serviceVars, drainVars
<1>15. CASE BeginStop
  BY <1>15, CertFrame, ExecutorStages
     DEF TypeOK, CertUser, Using, StopsACert, Running, Leaving, BuildPcs, RetirePcs, BeginStop,
         At, Set, stateVars, poolVars, drainVars
<1>16. CASE BeginDrain
  <2>1. /\ pc = "awaitAccept" /\ stage[retiring] = "quiet" /\ retiring \in Generations
        /\ stage' = Set(stage, retiring, "draining") /\ UNCHANGED <<cert, certs, certStops, decided>>
        /\ pc' = "idle" \/ (pc' = "awaitDrains" /\ awaited' = draining \cup {retiring})
    BY <1>16, ExecutorStages DEF BeginDrain, serviceVars, drainVars, RetirePcs
  <2>2. \A h \in Generations : Using(h)' <=> Using(h)
    BY <2>1 DEF Using, Running, Leaving, Set, TypeOK
  <2>3. Using(retiring) /\ \A h \in draining : Using(h)
    BY <2>1, DrainingStages DEF Using, Running
  <2>4. \A h \in Generations : CertUser(h)' => CertUser(h)
    BY <2>1, <2>2, <2>3 DEF CertUser
  <2>5. \A g \in Generations : StopsACert(g)' => StopsACert(g)
    BY <2>1 DEF StopsACert, Set, TypeOK
  <2>. QED
    BY <2>1, <2>4, <2>5, CertFrame
<1>17. CASE AwaitDrains
  BY <1>17, CertFrame
     DEF TypeOK, CertUser, Using, StopsACert, Running, Leaving, AwaitDrains, At, stateVars,
         genVars, poolVars, serviceVars, drainVars
<1>18. CASE AwaitThrows
  BY <1>18, CertFrame
     DEF TypeOK, CertUser, Using, StopsACert, Running, Leaving, AwaitThrows, At, stateVars,
         genVars, poolVars, serviceVars, drainVars
<1>19. CASE StopCerts
  <2>. DEFINE theirs == {cert[g] : g \in awaited}
  <2>1. /\ pc = "stopCerts" /\ pc' = "stopTickets" /\ certs' = certs \ theirs
        /\ certStops' = [g \in Generations |-> certStops[g] + IF g \in theirs THEN 1 ELSE 0]
        /\ UNCHANGED <<cert, stage, decided>>
    BY <1>19 DEF StopCerts, At, genVars, drainVars
  <2>2. \A c : c \in theirs => \E g \in Generations : CertUser(g) /\ c = cert[g]
    BY <2>1 DEF CertUser, TypeOK
  <2>. HIDE DEF theirs
  <2>3. \A h \in Generations : ~CertUser(h)'
    <3>1. \A h \in Generations : ~Using(h)
      BY <2>1, NobodyUses DEF EndPcs
    <3>. QED
      BY <2>1, <3>1 DEF CertUser, Using
  <2>4. \A h \in Generations : StopsACert(h)' <=> StopsACert(h)
    BY <2>1 DEF StopsACert
  <2>5. \A h \in Generations : StopsACert(h)' => cert[h] \in certs'
    BY <2>1, <2>2, <2>4 DEF CertInv
  <2>6. \A a, h \in Generations : StopsACert(a)' /\ StopsACert(h)' /\ a # h => cert[h] # cert[a]
    BY <2>4 DEF CertInv
  <2>7. \A c \in Generations : certStops'[c] <= IF c \in certs' THEN 0 ELSE 1
    <3>. SUFFICES ASSUME NEW c \in Generations
                  PROVE  certStops'[c] <= IF c \in certs' THEN 0 ELSE 1
      OBVIOUS
    <3>1. certStops[c] \in Nat /\ certStops[c] <= IF c \in certs THEN 0 ELSE 1
      BY DEF CertInv, TypeOK
    <3>2. CASE c \in theirs
      <4>1. c \in certs
        BY <2>2, <3>2 DEF CertInv, Generations
      <4>2. certStops'[c] = certStops[c] + 1
        BY <2>1, <3>2
      <4>. QED
        BY <2>1, <3>1, <3>2, <4>1, <4>2
    <3>3. CASE c \notin theirs
      <4>1. certStops'[c] = certStops[c]
        BY <2>1, <3>1, <3>3
      <4>. QED
        BY <2>1, <3>1, <3>3, <4>1
    <3>. QED
      BY <3>2, <3>3
  <2>. QED
    BY <2>1, <2>3, <2>5, <2>6, <2>7 DEF CertInv
<1>20. CASE StopService
  BY <1>20, CertFrame
     DEF TypeOK, CertUser, Using, StopsACert, Running, Leaving, StopService, At, stateVars,
         genVars, poolVars, drainVars
<1>21. CASE StopEnd
  BY <1>21, CertFrame
     DEF TypeOK, CertUser, Using, StopsACert, Running, Leaving, StopEnd, At, genVars, poolVars,
         drainVars
<1>22. ASSUME NEW g \in Generations, WorkersStopAccepting(g) PROVE CertInv'
  BY <1>22, CertFrame
     DEF TypeOK, CertUser, Using, StopsACert, Running, Leaving, WorkersStopAccepting, Set,
         stateVars, poolVars, serviceVars, drainVars, execVars
<1>23. ASSUME NEW g \in Generations, Drained(g) PROVE CertInv'
  BY <1>23, CertFrame
     DEF TypeOK, CertUser, Using, StopsACert, Running, Leaving, Drained, Set, stateVars,
         poolVars, serviceVars, drainVars, execVars
<1>24. ASSUME NEW g \in Generations, DrainThrows(g) PROVE CertInv'
  BY <1>24, CertFrame
     DEF TypeOK, CertUser, Using, StopsACert, Running, Leaving, DrainThrows, Set, stateVars,
         poolVars, serviceVars, execVars
<1>25. ASSUME NEW g \in Generations, NEW k \in Keys, Release(g, k) PROVE CertInv'
  BY <1>25, CertFrame
     DEF TypeOK, CertUser, Using, StopsACert, Running, Leaving, Release, Set, stateVars,
         serviceVars, drainVars, execVars
<1>26. ASSUME NEW g \in Generations, CloseResource(g) PROVE CertInv'
  BY <1>26, CertFrame
     DEF TypeOK, CertUser, Using, StopsACert, Running, Leaving, CloseResource, Set, stateVars,
         serviceVars, drainVars, execVars
<1>27. ASSUME NEW g \in Generations, Released(g) PROVE CertInv'
  BY <1>27, CertFrame
     DEF TypeOK, CertUser, Using, StopsACert, Running, Leaving, Released, Set, stateVars,
         poolVars, serviceVars, drainVars, execVars
<1>28. ASSUME NEW g \in Generations, Finalize(g) PROVE CertInv'
  <2>. DEFINE stops == Decision(StopsCert(g), StopsTickets(g))
  <2>1. /\ stage[g] \in {"released", "failed"} /\ GateFree /\ ("cert" \in stops <=> StopsCert(g))
    BY <1>28 DEF Finalize, Leaves, Decision
  <2>2. /\ decided' = Set(decided, g, stops) /\ stage' = Set(stage, g, "stopCert")
        /\ UNCHANGED <<phase, pc, awaited, cert, certs, certStops>>
    BY <1>28 DEF Finalize, Leaves, serviceVars, execVars
  <2>. HIDE DEF stops
  <2>3. Using(g) /\ (StopsACert(g)' => StopsCert(g))
    <3>1. stage'[g] = "stopCert" /\ decided'[g] = stops
      BY <2>2 DEF Set, TypeOK
    <3>2. Using(g)
      BY <2>1 DEF Using, Running, Leaving
    <3>3. StopsACert(g)' => StopsCert(g)
      BY <2>1, <3>1 DEF StopsACert
    <3>. QED
      BY <3>2, <3>3
  <2>4. \A h \in Generations : h # g => (CertUser(h)' <=> CertUser(h)) /\ (StopsACert(h)' <=> StopsACert(h))
    BY <2>2 DEF CertUser, Using, StopsACert, Set, TypeOK
  <2>5. StopsCert(g) => /\ cert[g] # 0
                        /\ phase = "running"
                        /\ \A h \in ({active} \ {0}) \cup (draining \ {g}) : cert[h] # cert[g]
    BY DEF StopsCert, InUse
  <2>6. phase = "running" => \A h \in Generations : CertUser(h) => Using(h)
    BY DEF CertUser, PlaceInv, BuildPcs, RetirePcs
  <2>7. StopsCert(g) => \A h \in Generations : h # g /\ CertUser(h) => cert[h] # cert[g]
    BY <2>1, <2>5, <2>6, UsersAreAsked
  <2>8. CertUser(g)' => CertUser(g) /\ ~StopsCert(g)
    <3>1. ~Using(g)'
      BY <2>2 DEF Using, Running, Leaving, Set, TypeOK
    <3>2. CertUser(g)' => pc \in {"awaitDrains", "stopCerts"}
      BY <2>2, <3>1 DEF CertUser
    <3>3. StopsCert(g) => pc \notin {"awaitDrains", "stopCerts"}
      BY <2>5 DEF PlaceInv, BuildPcs, RetirePcs
    <3>. QED
      BY <2>3, <3>2, <3>3 DEF CertUser
  <2>9. \A h \in Generations : CertUser(h)' => CertUser(h)
    BY <2>4, <2>8
  <2>10. \A a \in Generations : StopsACert(a)' => cert[a] \in certs
    BY <2>3, <2>4, <2>5 DEF CertInv, CertUser
  <2>11. \A a, h \in Generations : StopsACert(a)' /\ CertUser(h)' => cert[h] # cert[a]
    <3>. SUFFICES ASSUME NEW a \in Generations, NEW h \in Generations, StopsACert(a)', CertUser(h)'
                  PROVE  cert[h] # cert[a]
      OBVIOUS
    <3>1. CASE a = g
      BY <2>3, <2>7, <2>8, <2>9, <3>1
    <3>2. CASE a # g
      BY <2>4, <2>9, <3>2 DEF CertInv
    <3>. QED
      BY <3>1, <3>2
  <2>12. \A a, h \in Generations : StopsACert(a)' /\ StopsACert(h)' /\ a # h => cert[h] # cert[a]
    <3>. SUFFICES ASSUME NEW a \in Generations, NEW h \in Generations,
                         StopsACert(a)', StopsACert(h)', a # h
                  PROVE  cert[h] # cert[a]
      OBVIOUS
    <3>1. CertUser(g)
      BY <2>3 DEF CertUser
    <3>2. CASE a = g
      BY <2>4, <3>1, <3>2 DEF CertInv
    <3>3. CASE h = g
      BY <2>4, <3>1, <3>3 DEF CertInv
    <3>4. CASE a # g /\ h # g
      BY <2>4, <3>4 DEF CertInv
    <3>. QED
      BY <3>2, <3>3, <3>4
  <2>. QED
    BY <2>2, <2>9, <2>10, <2>11, <2>12 DEF CertInv
<1>29. ASSUME NEW g \in Generations, StopCert(g) PROVE CertInv'
  <2>1. /\ stage[g] = "stopCert" /\ stage' = Set(stage, g, "stopTickets")
        /\ UNCHANGED <<pc, awaited, cert, decided>>
    BY <1>29 DEF StopCert, drainVars, execVars
  <2>2. \A h \in Generations : CertUser(h)' => CertUser(h)
    BY <2>1 DEF CertUser, Using, Running, Leaving, Set, TypeOK
  <2>3. \A h \in Generations : StopsACert(h)' => StopsACert(h) /\ h # g
    BY <2>1 DEF StopsACert, Set, TypeOK
  <2>4. CASE "cert" \in decided[g]
    <3>1. certs' = certs \ {cert[g]} /\ certStops' = [certStops EXCEPT ![cert[g]] = @ + 1]
      BY <1>29, <2>4 DEF StopCert
    <3>2. StopsACert(g)
      BY <2>1, <2>4 DEF StopsACert
    <3>3. cert[g] \in certs /\ cert[g] \in Generations
      BY <3>2 DEF CertInv, TypeOK
    <3>4. \A h \in Generations : CertUser(h)' /\ cert[h] # 0 => cert[h] \in certs'
      BY <2>2, <3>1, <3>2 DEF CertInv
    <3>5. \A h \in Generations : StopsACert(h)' => cert[h] \in certs'
      BY <2>3, <3>1, <3>2 DEF CertInv
    <3>6. \A a, h \in Generations : StopsACert(a)' /\ CertUser(h)' => cert[h] # cert[a]
      BY <2>2, <2>3 DEF CertInv
    <3>7. \A a, h \in Generations : StopsACert(a)' /\ StopsACert(h)' /\ a # h => cert[h] # cert[a]
      BY <2>3 DEF CertInv
    <3>8. \A c \in Generations : certStops'[c] <= IF c \in certs' THEN 0 ELSE 1
      <4>1. certStops[cert[g]] <= 0 /\ certStops[cert[g]] \in Nat
        BY <3>3 DEF CertInv, TypeOK
      <4>2. \A c \in Generations : certStops'[c] = IF c = cert[g] THEN certStops[cert[g]] + 1 ELSE certStops[c]
        BY <3>1, <3>3 DEF TypeOK
      <4>3. \A c \in Generations : c \in certs' <=> c \in certs /\ c # cert[g]
        BY <3>1
      <4>. QED
        BY <4>1, <4>2, <4>3 DEF CertInv
    <3>. QED
      BY <2>1, <3>4, <3>5, <3>6, <3>7, <3>8 DEF CertInv
  <2>5. CASE "cert" \notin decided[g]
    <3>1. UNCHANGED <<certs, certStops>>
      BY <1>29, <2>5 DEF StopCert
    <3>. QED
      BY <2>1, <2>2, <2>3, <3>1, CertFrame
  <2>. QED
    BY <2>4, <2>5
<1>30. ASSUME NEW g \in Generations, StopTickets(g) PROVE CertInv'
  BY <1>30, CertFrame
     DEF TypeOK, CertUser, Using, StopsACert, Running, Leaving, StopTickets, Set, stateVars,
         poolVars, drainVars, execVars
<1>31. ASSUME NEW g \in Generations, WorkerCrashes(g) PROVE CertInv'
  BY <1>31, CertFrame
     DEF TypeOK, CertUser, Using, StopsACert, Running, Leaving, WorkerCrashes, stateVars,
         genVars, poolVars, serviceVars, execVars
<1>32. CASE UNCHANGED vars
  BY <1>32, CertFrame
     DEF CertUser, Using, StopsACert, Running, Leaving, vars, stateVars, genVars, poolVars,
         serviceVars, drainVars, execVars
<1>33. QED
  BY <1>1, <1>2, <1>3, <1>4, <1>5, <1>6, <1>7, <1>8, <1>9, <1>10, <1>11, <1>12, <1>13, <1>14,
     <1>15, <1>16, <1>17, <1>18, <1>19, <1>20, <1>21, <1>22, <1>23, <1>24, <1>25, <1>26, <1>27,
     <1>28, <1>29, <1>30, <1>31, <1>32 DEF Next, Executor, Generation

-----------------------------------------------------------------------------
(* Claims.                                                                 *)

LEMMA ClaimantsFinite ==
  ASSUME NEW k \in Keys
  PROVE  /\ IsFiniteSet(Claimants(k)) /\ Cardinality(Claimants(k)) \in Nat
         /\ Cardinality(Claimants(k)) <= MaxGenerations
<1>1. IsFiniteSet(Generations) /\ Cardinality(Generations) = MaxGenerations
  BY FS_Interval, LifecycleAssumption DEF Generations
<1>2. Claimants(k) \subseteq Generations
  BY DEF Claimants
<1>. QED
  BY <1>1, <1>2, FS_Subset, FS_CardinalityType

\* A claim that is taken, and one that is left.
LEMMA ClaimAdded ==
  ASSUME NEW k \in Keys, NEW g \in Generations, TypeOK, k \notin claims[g],
         claims' = Set(claims, g, claims[g] \cup {k})
  PROVE  /\ Claimants(k)' = Claimants(k) \cup {g} /\ Cardinality(Claimants(k)') = Cardinality(Claimants(k)) + 1
         /\ \A l \in Keys : l # k => Claimants(l)' = Claimants(l)
<1>1. Claimants(k)' = Claimants(k) \cup {g} /\ g \notin Claimants(k)
  BY DEF Claimants, Set, TypeOK
<1>2. Cardinality(Claimants(k) \cup {g}) = Cardinality(Claimants(k)) + 1
  BY <1>1, ClaimantsFinite, FS_AddElement
<1>3. \A l \in Keys : l # k => Claimants(l)' = Claimants(l)
  BY DEF Claimants, Set, TypeOK
<1>. QED
  BY <1>1, <1>2, <1>3

LEMMA ClaimRemoved ==
  ASSUME NEW k \in Keys, NEW g \in Generations, TypeOK, k \in claims[g],
         claims' = Set(claims, g, claims[g] \ {k})
  PROVE  /\ Claimants(k)' = Claimants(k) \ {g} /\ Cardinality(Claimants(k)') = Cardinality(Claimants(k)) - 1
         /\ Cardinality(Claimants(k)) > 0
         /\ \A l \in Keys : l # k => Claimants(l)' = Claimants(l)
<1>1. Claimants(k)' = Claimants(k) \ {g} /\ g \in Claimants(k)
  BY DEF Claimants, Set, TypeOK
<1>2. Cardinality(Claimants(k) \ {g}) = Cardinality(Claimants(k)) - 1
  BY <1>1, ClaimantsFinite, FS_RemoveElement
<1>3. IsFiniteSet(Claimants(k)) /\ Cardinality(Claimants(k)) \in Nat /\ Claimants(k) # {}
  BY <1>1, ClaimantsFinite
<1>4. Cardinality(Claimants(k)) # 0
  BY <1>3, FS_EmptySet
<1>5. \A l \in Keys : l # k => Claimants(l)' = Claimants(l)
  BY DEF Claimants, Set, TypeOK
<1>. QED
  BY <1>1, <1>2, <1>3, <1>4, <1>5

\* An entry is there while somebody claims it.
LEMMA ClaimedEntry ==
  ASSUME TypeOK, ClaimInv, NEW k \in Keys
  PROVE  /\ pool[k].count \in Nat /\ pool[k].resource \in 0..MaxGenerations
         /\ pool[k] = NoEntry <=> pool[k].count = 0
         /\ pool[k] = NoEntry <=> Claimants(k) = {}
         /\ pool[k] # NoEntry => pool[k].resource \in Generations /\ pool[k] \in Entry
<1>1. pool[k] \in Entry \cup {NoEntry}
  BY DEF TypeOK
<1>2. /\ pool[k].count \in Nat /\ pool[k].resource \in 0..MaxGenerations
      /\ (pool[k] = NoEntry <=> pool[k].count = 0)
      /\ (pool[k] # NoEntry => pool[k].resource \in Generations /\ pool[k] \in Entry)
  BY <1>1, LifecycleAssumption DEF Entry, NoEntry, Generations
<1>3. Cardinality(Claimants(k)) = 0 <=> Claimants(k) = {}
  BY ClaimantsFinite, FS_EmptySet
<1>. QED
  BY <1>2, <1>3 DEF ClaimInv

\* A step that takes and leaves no claim.
LEMMA ClaimFrame ==
  ASSUME ClaimInv, UNCHANGED <<claims, pool>>,
         /\ failed' \subseteq crashed' /\ failed' \subseteq 1..(next' - 1)
         /\ \A g \in Generations : stage'[g] = "failed" => g \in failed'
         /\ \A g \in Generations : stage'[g] \in {"released"} \cup Left /\ g \notin failed' => claims[g] = {}
         /\ \A g \in Generations : stage'[g] = "building" => claims[g] \subseteq config'[g].keys
         /\ \A g \in Generations : stage'[g] = "live" => claims[g] = config'[g].keys
         /\ pc' = "giveUp" => claims[next'] = {}
         /\ notifier' <=> phase' # "stopped"
  PROVE  ClaimInv'
<1>1. \A k \in Keys : Claimants(k)' = Claimants(k)
  BY DEF Claimants
<1>. QED
  BY <1>1 DEF ClaimInv


\* Claims go with the stage of their generation, and the pool counts them.
LEMMA ClaimStep ==
  ASSUME TypeOK, PlaceInv, StageInv, FreshInv, ClaimInv, [Next]_vars
  PROVE  ClaimInv'
<1>1. CASE Reload
  <2>1. UNCHANGED <<claims, pool>>
    BY <1>1 DEF Reload, At, Set, stateVars, poolVars, serviceVars, drainVars
  <2>2. failed' \subseteq crashed' /\ failed' \subseteq 1..(next' - 1)
    BY <1>1, ExecutorStages, StageFacts
       DEF ClaimInv, TypeOK, FreshInv, BuildPcs, RetirePcs, Reload, At, Set, stateVars,
           poolVars, serviceVars, drainVars
  <2>3. \A h \in Generations : stage'[h] = "failed" => h \in failed'
    BY <1>1, ExecutorStages, StageFacts
       DEF ClaimInv, TypeOK, FreshInv, BuildPcs, RetirePcs, Reload, At, Set, stateVars,
           poolVars, serviceVars, drainVars
  <2>4. \A h \in Generations : stage'[h] \in {"released"} \cup Left /\ h \notin failed' => claims[h] = {}
    BY <1>1, ExecutorStages, StageFacts
       DEF ClaimInv, TypeOK, Left, FreshInv, BuildPcs, RetirePcs, Reload, At, Set, stateVars,
           poolVars, serviceVars, drainVars
  <2>5. \A h \in Generations : stage'[h] = "building" => claims[h] \subseteq config'[h].keys
    <3>1. next \in Generations /\ claims[next] = {} /\ config'[next] = config'[next]
      <4>1. next \in Generations /\ stage[next] = "none"
        BY <1>1, LifecycleAssumption
           DEF Reload, At, PlaceInv, StageInv, Stages, Candidate, TypeOK, Generations
      <4>. QED
        BY <4>1 DEF FreshInv
    <3>2. \A h \in Generations : h # next => stage'[h] = stage[h] /\ config'[h] = config[h]
      BY <1>1, <3>1 DEF Reload, Set, TypeOK
    <3>. QED
      BY <3>1, <3>2 DEF ClaimInv
  <2>6. \A h \in Generations : stage'[h] = "live" => claims[h] = config'[h].keys
    BY <1>1, ExecutorStages, StageFacts
       DEF ClaimInv, TypeOK, FreshInv, BuildPcs, RetirePcs, Reload, At, Set, stateVars,
           poolVars, serviceVars, drainVars
  <2>7. pc' = "giveUp" => claims[next'] = {}
    BY <1>1, ExecutorStages, StageFacts
       DEF ClaimInv, TypeOK, FreshInv, BuildPcs, RetirePcs, Reload, At, Set, stateVars,
           poolVars, serviceVars, drainVars
  <2>8. notifier' <=> phase' # "stopped"
    BY <1>1, ExecutorStages, StageFacts
       DEF ClaimInv, PlaceInv, BuildPcs, RetirePcs, StopPcs, EndPcs, Reload, At, Set, stateVars,
           poolVars, serviceVars, drainVars
  <2>. QED
    BY <2>1, <2>2, <2>3, <2>4, <2>5, <2>6, <2>7, <2>8, ClaimFrame
<1>2. CASE Stop
  BY <1>2, ClaimFrame, ExecutorStages, StageFacts
     DEF ClaimInv, FreshInv, PlaceInv, TypeOK, Left, BuildPcs, RetirePcs, StopPcs, EndPcs, Stop,
         At, stateVars, genVars, poolVars, serviceVars, drainVars
<1>3. CASE AcquireCert
  BY <1>3, ClaimFrame, ExecutorStages, StageFacts
     DEF ClaimInv, FreshInv, PlaceInv, TypeOK, Left, BuildPcs, RetirePcs, StopPcs, EndPcs,
         AcquireCert, At, Set, stateVars, poolVars, drainVars
<1>4. CASE AcquireCertFails
  BY <1>4, ClaimFrame, ExecutorStages, StageFacts
     DEF ClaimInv, FreshInv, PlaceInv, TypeOK, Left, BuildPcs, RetirePcs, StopPcs, EndPcs,
         AcquireCertFails, At, stateVars, genVars, poolVars, serviceVars, drainVars
<1>5. CASE AcquireTickets
  BY <1>5, ClaimFrame, ExecutorStages, StageFacts
     DEF ClaimInv, FreshInv, PlaceInv, TypeOK, Left, BuildPcs, RetirePcs, StopPcs, EndPcs,
         AcquireTickets, At, Set, stateVars, poolVars, drainVars
<1>6. CASE AcquireTicketsFails
  BY <1>6, ClaimFrame, ExecutorStages, StageFacts
     DEF ClaimInv, FreshInv, PlaceInv, TypeOK, Left, BuildPcs, RetirePcs, StopPcs, EndPcs,
         AcquireTicketsFails, At, stateVars, genVars, poolVars, serviceVars, drainVars
<1>7. ASSUME NEW k \in Keys, AcquireClaim(k) PROVE ClaimInv'
  <2>1. /\ next \in Generations /\ stage[next] = "building" /\ k \in config[next].keys /\ k \notin claims[next]
        /\ claims' = Set(claims, next, claims[next] \cup {k})
        /\ pool' = IF pool[k] # NoEntry THEN [pool EXCEPT ![k].count = @ + 1]
                   ELSE Set(pool, k, [resource |-> next, count |-> 1])
        /\ pc = "claims"
        /\ UNCHANGED <<phase, next, config, stage, crashed, failed, pc, notifier>>
    BY <1>7, ExecutorStages
       DEF AcquireClaim, stateVars, serviceVars, drainVars, execVars, BuildPcs
  <2>2. \A l \in Keys : pool'[l].count = Cardinality(Claimants(l)')
    <3>1. pool'[k].count = pool[k].count + 1
      <4>1. CASE pool[k] # NoEntry
        BY <2>1, <4>1, ClaimedEntry DEF TypeOK, Entry
      <4>2. CASE pool[k] = NoEntry
        BY <2>1, <4>2 DEF TypeOK, Set, NoEntry
      <4>. QED
        BY <4>1, <4>2
    <3>2. \A l \in Keys : l # k => pool'[l] = pool[l]
      BY <2>1 DEF TypeOK, Set
    <3>3. Cardinality(Claimants(k)') = Cardinality(Claimants(k)) + 1
      BY <2>1, ClaimAdded
    <3>4. \A l \in Keys : l # k => Claimants(l)' = Claimants(l)
      BY <2>1, ClaimAdded
    <3>. QED
      BY <3>1, <3>2, <3>3, <3>4 DEF ClaimInv
  <2>3. \A h \in Generations : claims'[h] = IF h = next THEN claims[next] \cup {k} ELSE claims[h]
    BY <2>1 DEF Set, TypeOK
  <2>4. \A h \in Generations : stage'[h] \in {"released"} \cup Left /\ h \notin failed' => claims'[h] = {}
    BY <2>1, <2>3 DEF ClaimInv, Left
  <2>5. /\ \A h \in Generations : stage'[h] = "building" => claims'[h] \subseteq config'[h].keys
        /\ \A h \in Generations : stage'[h] = "live" => claims'[h] = config'[h].keys
    BY <2>1, <2>3 DEF ClaimInv
  <2>6. /\ failed' \subseteq crashed' /\ failed' \subseteq 1..(next' - 1)
        /\ \A h \in Generations : stage'[h] = "failed" => h \in failed'
        /\ pc' # "giveUp" /\ (notifier' <=> phase' # "stopped")
    BY <2>1 DEF ClaimInv
  <2>. QED
    BY <2>2, <2>4, <2>5, <2>6 DEF ClaimInv
<1>8. CASE StartFails
  <2>1. UNCHANGED <<claims, pool>>
    BY <1>8 DEF StartFails, At, Set, stateVars, poolVars, serviceVars, drainVars
  <2>2. failed' \subseteq crashed' /\ failed' \subseteq 1..(next' - 1)
    BY <1>8, ExecutorStages, StageFacts
       DEF ClaimInv, TypeOK, FreshInv, BuildPcs, RetirePcs, StartFails, At, Set, stateVars,
           poolVars, serviceVars, drainVars
  <2>3. \A h \in Generations : stage'[h] = "failed" => h \in failed'
    BY <1>8, ExecutorStages, StageFacts
       DEF ClaimInv, TypeOK, FreshInv, BuildPcs, RetirePcs, StartFails, At, Set, stateVars,
           poolVars, serviceVars, drainVars
  <2>4. \A h \in Generations : stage'[h] \in {"released"} \cup Left /\ h \notin failed' => claims[h] = {}
    BY <1>8, ExecutorStages, StageFacts
       DEF ClaimInv, TypeOK, Left, FreshInv, BuildPcs, RetirePcs, StartFails, At, Set,
           stateVars, poolVars, serviceVars, drainVars
  <2>5. \A h \in Generations : stage'[h] = "building" => claims[h] \subseteq config'[h].keys
    BY <1>8, ExecutorStages, StageFacts
       DEF ClaimInv, TypeOK, FreshInv, BuildPcs, RetirePcs, StartFails, At, Set, stateVars,
           poolVars, serviceVars, drainVars
  <2>6. \A h \in Generations : stage'[h] = "live" => claims[h] = config'[h].keys
    BY <1>8, ExecutorStages, StageFacts
       DEF ClaimInv, TypeOK, FreshInv, BuildPcs, RetirePcs, StartFails, At, Set, stateVars,
           poolVars, serviceVars, drainVars
  <2>7. pc' = "giveUp" => claims[next'] = {}
    BY <1>8, ExecutorStages, StageFacts
       DEF ClaimInv, TypeOK, FreshInv, BuildPcs, RetirePcs, StartFails, At, Set, stateVars,
           poolVars, serviceVars, drainVars
  <2>8. notifier' <=> phase' # "stopped"
    BY <1>8, ExecutorStages, StageFacts
       DEF ClaimInv, PlaceInv, BuildPcs, RetirePcs, StopPcs, EndPcs, StartFails, At, Set,
           stateVars, poolVars, serviceVars, drainVars
  <2>. QED
    BY <2>1, <2>2, <2>3, <2>4, <2>5, <2>6, <2>7, <2>8, ClaimFrame
<1>9. CASE Started
  <2>1. UNCHANGED <<claims, pool>>
    BY <1>9 DEF Started, At, Set, stateVars, poolVars, serviceVars, drainVars
  <2>2. failed' \subseteq crashed' /\ failed' \subseteq 1..(next' - 1)
    BY <1>9, ExecutorStages, StageFacts
       DEF ClaimInv, TypeOK, FreshInv, BuildPcs, RetirePcs, Started, At, Set, stateVars,
           poolVars, serviceVars, drainVars
  <2>3. \A h \in Generations : stage'[h] = "failed" => h \in failed'
    BY <1>9, ExecutorStages, StageFacts
       DEF ClaimInv, TypeOK, FreshInv, BuildPcs, RetirePcs, Started, At, Set, stateVars,
           poolVars, serviceVars, drainVars
  <2>4. \A h \in Generations : stage'[h] \in {"released"} \cup Left /\ h \notin failed' => claims[h] = {}
    BY <1>9, ExecutorStages, StageFacts
       DEF ClaimInv, TypeOK, Left, FreshInv, BuildPcs, RetirePcs, Started, At, Set, stateVars,
           poolVars, serviceVars, drainVars
  <2>5. \A h \in Generations : stage'[h] = "building" => claims[h] \subseteq config'[h].keys
    BY <1>9, ExecutorStages, StageFacts
       DEF ClaimInv, TypeOK, FreshInv, BuildPcs, RetirePcs, Started, At, Set, stateVars,
           poolVars, serviceVars, drainVars
  <2>6. \A h \in Generations : stage'[h] = "live" => claims[h] = config'[h].keys
    BY <1>9, ExecutorStages, StageFacts
       DEF ClaimInv, TypeOK, FreshInv, BuildPcs, RetirePcs, Started, At, Set, stateVars,
           poolVars, serviceVars, drainVars
  <2>7. pc' = "giveUp" => claims[next'] = {}
    BY <1>9, ExecutorStages, StageFacts
       DEF ClaimInv, TypeOK, FreshInv, BuildPcs, RetirePcs, Started, At, Set, stateVars,
           poolVars, serviceVars, drainVars
  <2>8. notifier' <=> phase' # "stopped"
    BY <1>9, ExecutorStages, StageFacts
       DEF ClaimInv, PlaceInv, BuildPcs, RetirePcs, StopPcs, EndPcs, Started, At, Set,
           stateVars, poolVars, serviceVars, drainVars
  <2>. QED
    BY <2>1, <2>2, <2>3, <2>4, <2>5, <2>6, <2>7, <2>8, ClaimFrame
<1>10. CASE Register
  BY <1>10, ClaimFrame, ExecutorStages, StageFacts
     DEF ClaimInv, FreshInv, PlaceInv, TypeOK, Left, BuildPcs, RetirePcs, StopPcs, EndPcs,
         Register, At, stateVars, genVars, poolVars, drainVars
<1>11. CASE RegisterFails
  <2>1. UNCHANGED <<claims, pool>>
    BY <1>11 DEF RegisterFails, At, Set, stateVars, poolVars, serviceVars, drainVars
  <2>2. failed' \subseteq crashed' /\ failed' \subseteq 1..(next' - 1)
    BY <1>11, ExecutorStages, StageFacts
       DEF ClaimInv, TypeOK, FreshInv, BuildPcs, RetirePcs, RegisterFails, At, Set, stateVars,
           poolVars, serviceVars, drainVars
  <2>3. \A h \in Generations : stage'[h] = "failed" => h \in failed'
    BY <1>11, ExecutorStages, StageFacts
       DEF ClaimInv, TypeOK, FreshInv, BuildPcs, RetirePcs, RegisterFails, At, Set, stateVars,
           poolVars, serviceVars, drainVars
  <2>4. \A h \in Generations : stage'[h] \in {"released"} \cup Left /\ h \notin failed' => claims[h] = {}
    BY <1>11, ExecutorStages, StageFacts
       DEF ClaimInv, TypeOK, Left, FreshInv, BuildPcs, RetirePcs, RegisterFails, At, Set,
           stateVars, poolVars, serviceVars, drainVars
  <2>5. \A h \in Generations : stage'[h] = "building" => claims[h] \subseteq config'[h].keys
    BY <1>11, ExecutorStages, StageFacts
       DEF ClaimInv, TypeOK, FreshInv, BuildPcs, RetirePcs, RegisterFails, At, Set, stateVars,
           poolVars, serviceVars, drainVars
  <2>6. \A h \in Generations : stage'[h] = "live" => claims[h] = config'[h].keys
    BY <1>11, ExecutorStages, StageFacts
       DEF ClaimInv, TypeOK, FreshInv, BuildPcs, RetirePcs, RegisterFails, At, Set, stateVars,
           poolVars, serviceVars, drainVars
  <2>7. pc' = "giveUp" => claims[next'] = {}
    BY <1>11, ExecutorStages, StageFacts
       DEF ClaimInv, TypeOK, FreshInv, BuildPcs, RetirePcs, RegisterFails, At, Set, stateVars,
           poolVars, serviceVars, drainVars
  <2>8. notifier' <=> phase' # "stopped"
    BY <1>11, ExecutorStages, StageFacts
       DEF ClaimInv, PlaceInv, BuildPcs, RetirePcs, StopPcs, EndPcs, RegisterFails, At, Set,
           stateVars, poolVars, serviceVars, drainVars
  <2>. QED
    BY <2>1, <2>2, <2>3, <2>4, <2>5, <2>6, <2>7, <2>8, ClaimFrame
<1>12. CASE CleanedUp
  <2>1. UNCHANGED <<claims, pool>>
    BY <1>12 DEF CleanedUp, At, stateVars, genVars, poolVars, serviceVars, drainVars
  <2>2. failed' \subseteq crashed' /\ failed' \subseteq 1..(next' - 1)
    BY <1>12, ExecutorStages, StageFacts
       DEF ClaimInv, TypeOK, FreshInv, BuildPcs, RetirePcs, CleanedUp, At, stateVars, genVars,
           poolVars, serviceVars, drainVars
  <2>3. \A h \in Generations : stage'[h] = "failed" => h \in failed'
    BY <1>12, ExecutorStages, StageFacts
       DEF ClaimInv, TypeOK, FreshInv, BuildPcs, RetirePcs, CleanedUp, At, stateVars, genVars,
           poolVars, serviceVars, drainVars
  <2>4. \A h \in Generations : stage'[h] \in {"released"} \cup Left /\ h \notin failed' => claims[h] = {}
    BY <1>12, ExecutorStages, StageFacts
       DEF ClaimInv, TypeOK, Left, FreshInv, BuildPcs, RetirePcs, CleanedUp, At, stateVars,
           genVars, poolVars, serviceVars, drainVars
  <2>5. \A h \in Generations : stage'[h] = "building" => claims[h] \subseteq config'[h].keys
    BY <1>12, ExecutorStages, StageFacts
       DEF ClaimInv, TypeOK, FreshInv, BuildPcs, RetirePcs, CleanedUp, At, stateVars, genVars,
           poolVars, serviceVars, drainVars
  <2>6. \A h \in Generations : stage'[h] = "live" => claims[h] = config'[h].keys
    BY <1>12, ExecutorStages, StageFacts
       DEF ClaimInv, TypeOK, FreshInv, BuildPcs, RetirePcs, CleanedUp, At, stateVars, genVars,
           poolVars, serviceVars, drainVars
  <2>7. pc' = "giveUp" => claims[next'] = {}
    <3>1. next \in Generations /\ next \notin failed /\ stage[next] = "released" /\ next' = next
      BY <1>12, ExecutorStages DEF CleanedUp, At, stateVars, BuildPcs, ClaimInv, Generations
    <3>. QED
      BY <3>1 DEF ClaimInv
  <2>8. notifier' <=> phase' # "stopped"
    BY <1>12, ExecutorStages, StageFacts
       DEF ClaimInv, PlaceInv, BuildPcs, RetirePcs, StopPcs, EndPcs, CleanedUp, At, stateVars,
           genVars, poolVars, serviceVars, drainVars
  <2>. QED
    BY <2>1, <2>2, <2>3, <2>4, <2>5, <2>6, <2>7, <2>8, ClaimFrame
<1>13. CASE GiveUp
  <2>1. UNCHANGED <<claims, pool>>
    BY <1>13 DEF GiveUp, At, Set, stateVars, poolVars, drainVars
  <2>2. failed' \subseteq crashed' /\ failed' \subseteq 1..(next' - 1)
    BY <1>13, ExecutorStages, StageFacts
       DEF ClaimInv, TypeOK, FreshInv, BuildPcs, RetirePcs, GiveUp, At, Set, stateVars,
           poolVars, drainVars
  <2>3. \A h \in Generations : stage'[h] = "failed" => h \in failed'
    BY <1>13, ExecutorStages, StageFacts
       DEF ClaimInv, TypeOK, FreshInv, BuildPcs, RetirePcs, GiveUp, At, Set, stateVars,
           poolVars, drainVars
  <2>4. \A h \in Generations : stage'[h] \in {"released"} \cup Left /\ h \notin failed' => claims[h] = {}
    BY <1>13, ExecutorStages, StageFacts
       DEF ClaimInv, TypeOK, Left, FreshInv, BuildPcs, RetirePcs, GiveUp, At, Set, stateVars,
           poolVars, drainVars
  <2>5. \A h \in Generations : stage'[h] = "building" => claims[h] \subseteq config'[h].keys
    BY <1>13, ExecutorStages, StageFacts
       DEF ClaimInv, TypeOK, FreshInv, BuildPcs, RetirePcs, GiveUp, At, Set, stateVars,
           poolVars, drainVars
  <2>6. \A h \in Generations : stage'[h] = "live" => claims[h] = config'[h].keys
    BY <1>13, ExecutorStages, StageFacts
       DEF ClaimInv, TypeOK, FreshInv, BuildPcs, RetirePcs, GiveUp, At, Set, stateVars,
           poolVars, drainVars
  <2>7. pc' = "giveUp" => claims[next'] = {}
    BY <1>13, ExecutorStages, StageFacts
       DEF ClaimInv, TypeOK, FreshInv, BuildPcs, RetirePcs, GiveUp, At, Set, stateVars,
           poolVars, drainVars
  <2>8. notifier' <=> phase' # "stopped"
    BY <1>13, ExecutorStages, StageFacts
       DEF ClaimInv, PlaceInv, BuildPcs, RetirePcs, StopPcs, EndPcs, GiveUp, At, Set, stateVars,
           poolVars, drainVars
  <2>. QED
    BY <2>1, <2>2, <2>3, <2>4, <2>5, <2>6, <2>7, <2>8, ClaimFrame
<1>14. CASE Publish
  <2>1. UNCHANGED <<claims, pool>>
    BY <1>14 DEF Publish, At, genVars, poolVars, serviceVars, drainVars
  <2>2. failed' \subseteq crashed' /\ failed' \subseteq 1..(next' - 1)
    <3>1. next \in Nat /\ next' = next + 1 /\ UNCHANGED <<failed, crashed>>
      BY <1>14 DEF Publish, drainVars, TypeOK
    <3>. QED
      BY <3>1 DEF ClaimInv
  <2>3. \A h \in Generations : stage'[h] = "failed" => h \in failed'
    BY <1>14, ExecutorStages, StageFacts
       DEF ClaimInv, TypeOK, FreshInv, BuildPcs, RetirePcs, Publish, At, genVars, poolVars,
           serviceVars, drainVars
  <2>4. \A h \in Generations : stage'[h] \in {"released"} \cup Left /\ h \notin failed' => claims[h] = {}
    BY <1>14, ExecutorStages, StageFacts
       DEF ClaimInv, TypeOK, Left, FreshInv, BuildPcs, RetirePcs, Publish, At, genVars,
           poolVars, serviceVars, drainVars
  <2>5. \A h \in Generations : stage'[h] = "building" => claims[h] \subseteq config'[h].keys
    BY <1>14, ExecutorStages, StageFacts
       DEF ClaimInv, TypeOK, FreshInv, BuildPcs, RetirePcs, Publish, At, genVars, poolVars,
           serviceVars, drainVars
  <2>6. \A h \in Generations : stage'[h] = "live" => claims[h] = config'[h].keys
    BY <1>14, ExecutorStages, StageFacts
       DEF ClaimInv, TypeOK, FreshInv, BuildPcs, RetirePcs, Publish, At, genVars, poolVars,
           serviceVars, drainVars
  <2>7. pc' = "giveUp" => claims[next'] = {}
    BY <1>14, ExecutorStages, StageFacts
       DEF ClaimInv, TypeOK, FreshInv, BuildPcs, RetirePcs, Publish, At, genVars, poolVars,
           serviceVars, drainVars
  <2>8. notifier' <=> phase' # "stopped"
    BY <1>14, ExecutorStages, StageFacts
       DEF ClaimInv, PlaceInv, BuildPcs, RetirePcs, StopPcs, EndPcs, Publish, At, genVars,
           poolVars, serviceVars, drainVars
  <2>. QED
    BY <2>1, <2>2, <2>3, <2>4, <2>5, <2>6, <2>7, <2>8, ClaimFrame
<1>15. CASE BeginStop
  BY <1>15, ClaimFrame, ExecutorStages, StageFacts
     DEF ClaimInv, FreshInv, PlaceInv, TypeOK, Left, BuildPcs, RetirePcs, StopPcs, EndPcs,
         BeginStop, At, Set, stateVars, poolVars, drainVars
<1>16. CASE BeginDrain
  BY <1>16, ClaimFrame, ExecutorStages, StageFacts
     DEF ClaimInv, FreshInv, PlaceInv, TypeOK, Left, BuildPcs, RetirePcs, StopPcs, EndPcs,
         BeginDrain, Set, poolVars, serviceVars, drainVars
<1>17. CASE AwaitDrains
  BY <1>17, ClaimFrame, ExecutorStages, StageFacts
     DEF ClaimInv, FreshInv, PlaceInv, TypeOK, Left, BuildPcs, RetirePcs, StopPcs, EndPcs,
         AwaitDrains, At, stateVars, genVars, poolVars, serviceVars, drainVars
<1>18. CASE AwaitThrows
  BY <1>18, ClaimFrame, ExecutorStages, StageFacts
     DEF ClaimInv, FreshInv, PlaceInv, TypeOK, Left, BuildPcs, RetirePcs, StopPcs, EndPcs,
         AwaitThrows, At, stateVars, genVars, poolVars, serviceVars, drainVars
<1>19. CASE StopCerts
  BY <1>19, ClaimFrame, ExecutorStages, StageFacts
     DEF ClaimInv, FreshInv, PlaceInv, TypeOK, Left, BuildPcs, RetirePcs, StopPcs, EndPcs,
         StopCerts, At, stateVars, genVars, poolVars, drainVars
<1>20. CASE StopService
  BY <1>20, ClaimFrame, ExecutorStages, StageFacts
     DEF ClaimInv, FreshInv, PlaceInv, TypeOK, Left, BuildPcs, RetirePcs, StopPcs, EndPcs,
         StopService, At, stateVars, genVars, poolVars, drainVars
<1>21. CASE StopEnd
  BY <1>21, ClaimFrame, ExecutorStages, StageFacts
     DEF ClaimInv, FreshInv, PlaceInv, TypeOK, Left, BuildPcs, RetirePcs, StopPcs, EndPcs,
         StopEnd, At, genVars, poolVars, drainVars
<1>22. ASSUME NEW g \in Generations, WorkersStopAccepting(g) PROVE ClaimInv'
  BY <1>22, ClaimFrame, ExecutorStages, StageFacts
     DEF ClaimInv, FreshInv, PlaceInv, TypeOK, Left, BuildPcs, RetirePcs, StopPcs, EndPcs,
         WorkersStopAccepting, Set, stateVars, poolVars, serviceVars, drainVars, execVars
<1>23. ASSUME NEW g \in Generations, Drained(g) PROVE ClaimInv'
  BY <1>23, ClaimFrame, ExecutorStages, StageFacts
     DEF ClaimInv, FreshInv, PlaceInv, TypeOK, Left, BuildPcs, RetirePcs, StopPcs, EndPcs,
         Drained, Set, stateVars, poolVars, serviceVars, drainVars, execVars
<1>24. ASSUME NEW g \in Generations, DrainThrows(g) PROVE ClaimInv'
  <2>1. UNCHANGED <<claims, pool>>
    BY <1>24 DEF DrainThrows, Set, stateVars, poolVars, serviceVars, execVars
  <2>2. failed' \subseteq crashed' /\ failed' \subseteq 1..(next' - 1)
    <3>1. next \in Nat /\ g \in 1..(next - 1) /\ g \in crashed
      <4>1. stage[g] = "draining" /\ g \in crashed /\ next \in Nat /\ g \in Int /\ g > 0
        BY <1>24 DEF DrainThrows, TypeOK, Generations
      <4>2. g < next
        BY <4>1, StageFacts
      <4>. QED
        BY <4>1, <4>2
    <3>2. failed' = failed \cup {g} /\ UNCHANGED <<crashed, next>>
      BY <1>24 DEF DrainThrows, stateVars
    <3>. QED
      BY <3>1, <3>2 DEF ClaimInv
  <2>3. \A h \in Generations : stage'[h] = "failed" => h \in failed'
    BY <1>24, ExecutorStages, StageFacts
       DEF ClaimInv, TypeOK, FreshInv, BuildPcs, RetirePcs, DrainThrows, Set, stateVars,
           poolVars, serviceVars, execVars
  <2>4. \A h \in Generations : stage'[h] \in {"released"} \cup Left /\ h \notin failed' => claims[h] = {}
    BY <1>24, ExecutorStages, StageFacts
       DEF ClaimInv, TypeOK, Left, FreshInv, BuildPcs, RetirePcs, DrainThrows, Set, stateVars,
           poolVars, serviceVars, execVars
  <2>5. \A h \in Generations : stage'[h] = "building" => claims[h] \subseteq config'[h].keys
    BY <1>24, ExecutorStages, StageFacts
       DEF ClaimInv, TypeOK, FreshInv, BuildPcs, RetirePcs, DrainThrows, Set, stateVars,
           poolVars, serviceVars, execVars
  <2>6. \A h \in Generations : stage'[h] = "live" => claims[h] = config'[h].keys
    BY <1>24, ExecutorStages, StageFacts
       DEF ClaimInv, TypeOK, FreshInv, BuildPcs, RetirePcs, DrainThrows, Set, stateVars,
           poolVars, serviceVars, execVars
  <2>7. pc' = "giveUp" => claims[next'] = {}
    BY <1>24, ExecutorStages, StageFacts
       DEF ClaimInv, TypeOK, FreshInv, BuildPcs, RetirePcs, DrainThrows, Set, stateVars,
           poolVars, serviceVars, execVars
  <2>8. notifier' <=> phase' # "stopped"
    BY <1>24, ExecutorStages, StageFacts
       DEF ClaimInv, PlaceInv, BuildPcs, RetirePcs, StopPcs, EndPcs, DrainThrows, Set,
           stateVars, poolVars, serviceVars, execVars
  <2>. QED
    BY <2>1, <2>2, <2>3, <2>4, <2>5, <2>6, <2>7, <2>8, ClaimFrame
<1>25. ASSUME NEW g \in Generations, NEW k \in Keys, Release(g, k) PROVE ClaimInv'
  <2>1. /\ stage[g] = "release" /\ k \in claims[g] /\ claims' = Set(claims, g, claims[g] \ {k})
        /\ pool' = IF pool[k].count > 1 THEN [pool EXCEPT ![k].count = @ - 1] ELSE Set(pool, k, NoEntry)
        /\ stage' = stage \/ stage' = Set(stage, g, "close")
        /\ UNCHANGED <<phase, next, config, crashed, failed, pc, notifier>>
    BY <1>25 DEF Release, stateVars, serviceVars, drainVars, execVars
  <2>2. \A l \in Keys : pool'[l].count = Cardinality(Claimants(l)')
    <3>1. Cardinality(Claimants(k)') = Cardinality(Claimants(k)) - 1 /\ Cardinality(Claimants(k)) > 0
      BY <2>1, ClaimRemoved
    <3>2. \A l \in Keys : l # k => Claimants(l)' = Claimants(l)
      BY <2>1, ClaimRemoved
    <3>3. pool[k].count = Cardinality(Claimants(k)) /\ pool[k].count \in Nat
      BY ClaimedEntry DEF ClaimInv
    <3>4. pool'[k].count = pool[k].count - 1
      <4>1. CASE pool[k].count > 1
        <5>1. pool[k] \in Entry
          BY <4>1, ClaimedEntry DEF NoEntry
        <5>. QED
          BY <2>1, <4>1, <5>1 DEF TypeOK, Entry
      <4>2. CASE ~(pool[k].count > 1)
        <5>1. pool'[k].count = 0
          BY <2>1, <4>2 DEF TypeOK, Set, NoEntry
        <5>. QED
          BY <3>1, <3>3, <4>2, <5>1
      <4>. QED
        BY <4>1, <4>2
    <3>5. \A l \in Keys : l # k => pool'[l] = pool[l]
      BY <2>1 DEF TypeOK, Set
    <3>. QED
      BY <3>1, <3>2, <3>3, <3>4, <3>5 DEF ClaimInv
  <2>3. \A h \in Generations : h # g => claims'[h] = claims[h] /\ stage'[h] = stage[h]
    BY <2>1 DEF Set, TypeOK
  <2>4. stage'[g] \in {"release", "close"}
    BY <2>1 DEF Set, TypeOK
  <2>5. \A h \in Generations : claims'[h] \subseteq claims[h]
    BY <2>1 DEF Set, TypeOK
  <2>6. \A h \in Generations : stage'[h] \in {"released"} \cup Left /\ h \notin failed' => claims'[h] = {}
    BY <2>1, <2>3, <2>4 DEF ClaimInv, Left
  <2>7. /\ \A h \in Generations : stage'[h] = "building" => claims'[h] \subseteq config'[h].keys
        /\ \A h \in Generations : stage'[h] = "live" => claims'[h] = config'[h].keys
    BY <2>1, <2>3, <2>4 DEF ClaimInv
  <2>8. /\ failed' \subseteq crashed' /\ failed' \subseteq 1..(next' - 1)
        /\ \A h \in Generations : stage'[h] = "failed" => h \in failed'
        /\ (notifier' <=> phase' # "stopped")
    BY <2>1, <2>3, <2>4 DEF ClaimInv
  <2>9. pc' = "giveUp" => claims'[next'] = {}
    BY <2>1, <2>5, ExecutorStages DEF ClaimInv, BuildPcs
  <2>. QED
    BY <2>2, <2>6, <2>7, <2>8, <2>9 DEF ClaimInv
<1>26. ASSUME NEW g \in Generations, CloseResource(g) PROVE ClaimInv'
  BY <1>26, ClaimFrame, ExecutorStages, StageFacts
     DEF ClaimInv, FreshInv, PlaceInv, TypeOK, Left, BuildPcs, RetirePcs, StopPcs, EndPcs,
         CloseResource, Set, stateVars, serviceVars, drainVars, execVars
<1>27. ASSUME NEW g \in Generations, Released(g) PROVE ClaimInv'
  BY <1>27, ClaimFrame, ExecutorStages, StageFacts
     DEF ClaimInv, FreshInv, PlaceInv, TypeOK, Left, BuildPcs, RetirePcs, StopPcs, EndPcs,
         Released, Set, stateVars, poolVars, serviceVars, drainVars, execVars
<1>28. ASSUME NEW g \in Generations, Finalize(g) PROVE ClaimInv'
  <2>1. UNCHANGED <<claims, pool>>
    BY <1>28 DEF Finalize, Leaves, Decision, Set, poolVars, serviceVars, execVars
  <2>2. failed' \subseteq crashed' /\ failed' \subseteq 1..(next' - 1)
    BY <1>28, ExecutorStages, StageFacts
       DEF ClaimInv, TypeOK, FreshInv, BuildPcs, RetirePcs, Finalize, Leaves, Decision, Set,
           poolVars, serviceVars, execVars
  <2>3. \A h \in Generations : stage'[h] = "failed" => h \in failed'
    BY <1>28, ExecutorStages, StageFacts
       DEF ClaimInv, TypeOK, FreshInv, BuildPcs, RetirePcs, Finalize, Leaves, Decision, Set,
           poolVars, serviceVars, execVars
  <2>4. \A h \in Generations : stage'[h] \in {"released"} \cup Left /\ h \notin failed' => claims[h] = {}
    BY <1>28, ExecutorStages, StageFacts
       DEF ClaimInv, TypeOK, Left, FreshInv, BuildPcs, RetirePcs, Finalize, Leaves, Decision,
           Set, poolVars, serviceVars, execVars
  <2>5. \A h \in Generations : stage'[h] = "building" => claims[h] \subseteq config'[h].keys
    BY <1>28, ExecutorStages, StageFacts
       DEF ClaimInv, TypeOK, FreshInv, BuildPcs, RetirePcs, Finalize, Leaves, Decision, Set,
           poolVars, serviceVars, execVars
  <2>6. \A h \in Generations : stage'[h] = "live" => claims[h] = config'[h].keys
    BY <1>28, ExecutorStages, StageFacts
       DEF ClaimInv, TypeOK, FreshInv, BuildPcs, RetirePcs, Finalize, Leaves, Decision, Set,
           poolVars, serviceVars, execVars
  <2>7. pc' = "giveUp" => claims[next'] = {}
    BY <1>28, ExecutorStages, StageFacts
       DEF ClaimInv, TypeOK, FreshInv, BuildPcs, RetirePcs, Finalize, Leaves, Decision, Set,
           poolVars, serviceVars, execVars
  <2>8. notifier' <=> phase' # "stopped"
    BY <1>28, ExecutorStages, StageFacts
       DEF ClaimInv, PlaceInv, BuildPcs, RetirePcs, StopPcs, EndPcs, Finalize, Leaves, Decision,
           Set, poolVars, serviceVars, execVars
  <2>. QED
    BY <2>1, <2>2, <2>3, <2>4, <2>5, <2>6, <2>7, <2>8, ClaimFrame
<1>29. ASSUME NEW g \in Generations, StopCert(g) PROVE ClaimInv'
  <2>1. UNCHANGED <<claims, pool>>
    BY <1>29 DEF StopCert, Set, stateVars, poolVars, drainVars, execVars
  <2>2. failed' \subseteq crashed' /\ failed' \subseteq 1..(next' - 1)
    BY <1>29, ExecutorStages, StageFacts
       DEF ClaimInv, TypeOK, FreshInv, BuildPcs, RetirePcs, StopCert, Set, stateVars, poolVars,
           drainVars, execVars
  <2>3. \A h \in Generations : stage'[h] = "failed" => h \in failed'
    BY <1>29, ExecutorStages, StageFacts
       DEF ClaimInv, TypeOK, FreshInv, BuildPcs, RetirePcs, StopCert, Set, stateVars, poolVars,
           drainVars, execVars
  <2>4. \A h \in Generations : stage'[h] \in {"released"} \cup Left /\ h \notin failed' => claims[h] = {}
    BY <1>29, ExecutorStages, StageFacts
       DEF ClaimInv, TypeOK, Left, FreshInv, BuildPcs, RetirePcs, StopCert, Set, stateVars,
           poolVars, drainVars, execVars
  <2>5. \A h \in Generations : stage'[h] = "building" => claims[h] \subseteq config'[h].keys
    BY <1>29, ExecutorStages, StageFacts
       DEF ClaimInv, TypeOK, FreshInv, BuildPcs, RetirePcs, StopCert, Set, stateVars, poolVars,
           drainVars, execVars
  <2>6. \A h \in Generations : stage'[h] = "live" => claims[h] = config'[h].keys
    BY <1>29, ExecutorStages, StageFacts
       DEF ClaimInv, TypeOK, FreshInv, BuildPcs, RetirePcs, StopCert, Set, stateVars, poolVars,
           drainVars, execVars
  <2>7. pc' = "giveUp" => claims[next'] = {}
    BY <1>29, ExecutorStages, StageFacts
       DEF ClaimInv, TypeOK, FreshInv, BuildPcs, RetirePcs, StopCert, Set, stateVars, poolVars,
           drainVars, execVars
  <2>8. notifier' <=> phase' # "stopped"
    BY <1>29, ExecutorStages, StageFacts
       DEF ClaimInv, PlaceInv, BuildPcs, RetirePcs, StopPcs, EndPcs, StopCert, Set, stateVars,
           poolVars, drainVars, execVars
  <2>. QED
    BY <2>1, <2>2, <2>3, <2>4, <2>5, <2>6, <2>7, <2>8, ClaimFrame
<1>30. ASSUME NEW g \in Generations, StopTickets(g) PROVE ClaimInv'
  BY <1>30, ClaimFrame, ExecutorStages, StageFacts
     DEF ClaimInv, FreshInv, PlaceInv, TypeOK, Left, BuildPcs, RetirePcs, StopPcs, EndPcs,
         StopTickets, Set, stateVars, poolVars, drainVars, execVars
<1>31. ASSUME NEW g \in Generations, WorkerCrashes(g) PROVE ClaimInv'
  BY <1>31, ClaimFrame, ExecutorStages, StageFacts
     DEF ClaimInv, FreshInv, PlaceInv, TypeOK, Left, BuildPcs, RetirePcs, StopPcs, EndPcs,
         WorkerCrashes, stateVars, genVars, poolVars, serviceVars, execVars
<1>32. CASE UNCHANGED vars
  BY <1>32, ClaimFrame
     DEF ClaimInv, vars, stateVars, genVars, poolVars, serviceVars, drainVars, execVars
<1>33. QED
  BY <1>1, <1>2, <1>3, <1>4, <1>5, <1>6, <1>7, <1>8, <1>9, <1>10, <1>11, <1>12, <1>13, <1>14,
     <1>15, <1>16, <1>17, <1>18, <1>19, <1>20, <1>21, <1>22, <1>23, <1>24, <1>25, <1>26, <1>27,
     <1>28, <1>29, <1>30, <1>31, <1>32 DEF Next, Executor, Generation

-----------------------------------------------------------------------------
(* Entries and sockets of the listener pool.                               *)

\* A step that touches neither, and lets nobody start or end a close.
LEMMA PoolFrame ==
  ASSUME PoolInv, next \in Nat, TypeOK,
         UNCHANGED <<pool, handles, linked, closing>>,
         \A g \in Generations : stage'[g] = "close" <=> stage[g] = "close",
         next' = next \/ next' = next + 1,
         next' = next => UNCHANGED claims
  PROVE  PoolInv'
<1>1. \A k \in Keys : pool[k].resource \in Nat
  BY DEF TypeOK, Entry, NoEntry, Generations
<1>2. \A g \in Generations : stage[g] = "close" => closing[g][2] \in Nat
  BY DEF TypeOK, PoolInv, Generations
<1>3. \A k \in Keys : pool[k].resource <= next' /\ (next' = next + 1 => pool[k].resource # next')
  BY <1>1 DEF PoolInv
<1>4. \A k \in Keys : pool[k].resource = next' => \A g \in Claimants(k)' : g = next'
  <2>. SUFFICES ASSUME NEW k \in Keys, pool[k].resource = next', NEW g \in Claimants(k)'
                PROVE  g = next'
    OBVIOUS
  <2>1. next' = next
    BY <1>3
  <2>2. Claimants(k)' = Claimants(k)
    BY <2>1 DEF Claimants
  <2>. QED
    BY <2>1, <2>2 DEF PoolInv
<1>5. \A g \in Generations : stage'[g] = "close" =>
        /\ closing[g][2] <= next' /\ (closing[g][2] = next' => g = next')
        /\ closing[g][2] # pool[closing[g][1]].resource
  BY <1>2 DEF PoolInv
<1>6. /\ \A k \in Keys : pool[k] # NoEntry => pool[k].resource \in handles[k]
      /\ \A k \in Keys : pool[k] # NoEntry /\ k \notin UnixKeys => linked[k] = pool[k].resource
      /\ \A g \in Generations : closing[g] # <<>> <=> stage'[g] = "close"
  BY DEF PoolInv
<1>7. \A k \in Keys : \A r \in handles[k] :
        r = pool[k].resource \/ \E g \in Generations : stage'[g] = "close" /\ closing[g] = <<k, r>>
  BY DEF PoolInv
<1>8. \A k \in Keys : pool[k].resource <= next'
  BY <1>3
<1>. QED
  BY <1>4, <1>5, <1>6, <1>7, <1>8 DEF PoolInv


\* An entry's socket is open, and every other open socket is about to be closed.
LEMMA PoolStep ==
  ASSUME TypeOK, PlaceInv, StageInv, FreshInv, ClaimInv, PoolInv, [Next]_vars
  PROVE  PoolInv'
<1>1. CASE Reload
  <2>1. /\ next \in Generations /\ stage[next] = "none" /\ stage' = Set(stage, next, "building")
        /\ next \in Nat /\ next' = next /\ UNCHANGED <<pool, handles, linked, closing, claims>>
    BY <1>1, LifecycleAssumption
       DEF Reload, At, stateVars, poolVars, PlaceInv, StageInv, Stages, Candidate, TypeOK,
           Generations
  <2>2. \A h \in Generations : stage'[h] = "close" <=> stage[h] = "close"
    BY <2>1 DEF TypeOK, Set
  <2>. QED
    BY <2>1, <2>2, PoolFrame
<1>2. CASE Stop
  <2>1. next \in Nat /\ (next' = next \/ next' = next + 1)
    BY <1>2 DEF TypeOK, Stop, At, stateVars, genVars, poolVars, serviceVars, drainVars
  <2>2. UNCHANGED <<pool, handles, linked, closing, claims>>
    BY <1>2 DEF Stop, At, stateVars, genVars, poolVars, serviceVars, drainVars
  <2>3. \A h \in Generations : stage'[h] = "close" <=> stage[h] = "close"
    BY <1>2, ExecutorStages
       DEF TypeOK, Candidate, Running, BuildPcs, RetirePcs, Stop, At, stateVars, genVars,
           poolVars, serviceVars, drainVars
  <2>. QED
    BY <2>1, <2>2, <2>3, PoolFrame
<1>3. CASE AcquireCert
  <2>1. next \in Nat /\ (next' = next \/ next' = next + 1)
    BY <1>3 DEF TypeOK, AcquireCert, At, Set, stateVars, poolVars, drainVars
  <2>2. UNCHANGED <<pool, handles, linked, closing, claims>>
    BY <1>3 DEF AcquireCert, At, Set, stateVars, poolVars, drainVars
  <2>3. \A h \in Generations : stage'[h] = "close" <=> stage[h] = "close"
    BY <1>3, ExecutorStages
       DEF TypeOK, Candidate, Running, BuildPcs, RetirePcs, AcquireCert, At, Set, stateVars,
           poolVars, drainVars
  <2>. QED
    BY <2>1, <2>2, <2>3, PoolFrame
<1>4. CASE AcquireCertFails
  <2>1. next \in Nat /\ (next' = next \/ next' = next + 1)
    BY <1>4
       DEF TypeOK, AcquireCertFails, At, stateVars, genVars, poolVars, serviceVars, drainVars
  <2>2. UNCHANGED <<pool, handles, linked, closing, claims>>
    BY <1>4 DEF AcquireCertFails, At, stateVars, genVars, poolVars, serviceVars, drainVars
  <2>3. \A h \in Generations : stage'[h] = "close" <=> stage[h] = "close"
    BY <1>4, ExecutorStages
       DEF TypeOK, Candidate, Running, BuildPcs, RetirePcs, AcquireCertFails, At, stateVars,
           genVars, poolVars, serviceVars, drainVars
  <2>. QED
    BY <2>1, <2>2, <2>3, PoolFrame
<1>5. CASE AcquireTickets
  <2>1. next \in Nat /\ (next' = next \/ next' = next + 1)
    BY <1>5 DEF TypeOK, AcquireTickets, At, Set, stateVars, poolVars, drainVars
  <2>2. UNCHANGED <<pool, handles, linked, closing, claims>>
    BY <1>5 DEF AcquireTickets, At, Set, stateVars, poolVars, drainVars
  <2>3. \A h \in Generations : stage'[h] = "close" <=> stage[h] = "close"
    BY <1>5, ExecutorStages
       DEF TypeOK, Candidate, Running, BuildPcs, RetirePcs, AcquireTickets, At, Set, stateVars,
           poolVars, drainVars
  <2>. QED
    BY <2>1, <2>2, <2>3, PoolFrame
<1>6. CASE AcquireTicketsFails
  <2>1. next \in Nat /\ (next' = next \/ next' = next + 1)
    BY <1>6
       DEF TypeOK, AcquireTicketsFails, At, stateVars, genVars, poolVars, serviceVars, drainVars
  <2>2. UNCHANGED <<pool, handles, linked, closing, claims>>
    BY <1>6 DEF AcquireTicketsFails, At, stateVars, genVars, poolVars, serviceVars, drainVars
  <2>3. \A h \in Generations : stage'[h] = "close" <=> stage[h] = "close"
    BY <1>6, ExecutorStages
       DEF TypeOK, Candidate, Running, BuildPcs, RetirePcs, AcquireTicketsFails, At, stateVars,
           genVars, poolVars, serviceVars, drainVars
  <2>. QED
    BY <2>1, <2>2, <2>3, PoolFrame
<1>7. ASSUME NEW k \in Keys, AcquireClaim(k) PROVE PoolInv'
  <2>1. /\ next \in Generations /\ next \in Nat /\ stage[next] = "building" /\ k \notin claims[next]
        /\ claims' = Set(claims, next, claims[next] \cup {k}) /\ UNCHANGED <<next, stage, closing>>
    <3>1. /\ pc = "claims" /\ k \notin claims[next] /\ UNCHANGED <<next, stage, closing>>
          /\ claims' = Set(claims, next, claims[next] \cup {k})
      BY <1>7 DEF AcquireClaim, stateVars
    <3>2. next \in Generations /\ stage[next] = "building"
      BY <3>1, ExecutorStages DEF BuildPcs
    <3>. QED
      BY <3>1, <3>2 DEF Generations
  <2>2. Claimants(k)' = Claimants(k) \cup {next} /\ \A l \in Keys : l # k => Claimants(l)' = Claimants(l)
    BY <2>1, ClaimAdded
  <2>3. \A g \in Generations : stage[g] = "close" => closing[g][2] \in Nat /\ closing[g][2] # next
    <3>1. \A g \in Generations : stage[g] = "close" => closing[g] # <<>> /\ closing[g][2] # next
      BY <2>1 DEF PoolInv
    <3>2. \A g \in Generations : closing[g] \in (Keys \X Generations) \cup {<<>>}
      BY DEF TypeOK
    <3>. QED
      BY <3>1, <3>2 DEF Generations
  <2>4. CASE pool[k] # NoEntry
    <3>1. pool' = [pool EXCEPT ![k].count = @ + 1] /\ UNCHANGED <<handles, linked>>
      BY <1>7, <2>4 DEF AcquireClaim
    <3>2. pool[k] \in Entry /\ \A l \in Keys : l # k => pool'[l] = pool[l]
      BY <2>4, <3>1, ClaimedEntry DEF TypeOK
    <3>3. pool'[k].resource = pool[k].resource
      BY <3>1, <3>2 DEF Entry, TypeOK
    <3>4. \A l \in Keys : pool'[l].resource = pool[l].resource
      BY <3>2, <3>3
    <3>5. \A l \in Keys : pool'[l] # NoEntry => pool[l] # NoEntry
      BY <2>4, <3>2
    <3>6. \A l \in Keys : pool'[l].resource = next' => \A g \in Claimants(l)' : g = next'
      BY <2>1, <2>2, <3>4 DEF PoolInv
    <3>7. \A g \in Generations : stage[g] = "close" =>
            closing[g][2] <= next /\ closing[g][2] # pool'[closing[g][1]].resource
      BY <3>4 DEF PoolInv, TypeOK
    <3>. QED
      BY <2>1, <2>3, <3>1, <3>4, <3>5, <3>6, <3>7 DEF PoolInv
  <2>5. CASE pool[k] = NoEntry
    <3>1. /\ pool' = Set(pool, k, [resource |-> next, count |-> 1])
          /\ handles' = Set(handles, k, handles[k] \cup {next}) /\ linked' = Set(linked, k, next)
      BY <1>7, <2>5 DEF AcquireClaim
    <3>2. /\ \A l \in Keys : pool'[l] = IF l = k THEN [resource |-> next, count |-> 1] ELSE pool[l]
          /\ \A l \in Keys : handles'[l] = IF l = k THEN handles[k] \cup {next} ELSE handles[l]
          /\ \A l \in Keys : linked'[l] = IF l = k THEN next ELSE linked[l]
      BY <3>1 DEF Set, TypeOK
    <3>3. Claimants(k)' = {next}
      BY <2>2, <2>5, ClaimedEntry
    <3>4. \A l \in Keys : pool'[l].resource = IF l = k THEN next ELSE pool[l].resource
      BY <3>2
    <3>5. \A l \in Keys : pool'[l].resource <= next
      BY <2>1, <3>4 DEF PoolInv
    <3>6. \A l \in Keys : pool'[l].resource = next => \A g \in Claimants(l)' : g = next
      BY <2>2, <3>3, <3>4 DEF PoolInv
    <3>7. \A g \in Generations : stage[g] = "close" =>
            closing[g][2] <= next /\ closing[g][2] # pool'[closing[g][1]].resource
      BY <2>3, <3>4 DEF PoolInv, TypeOK
    <3>8. \A l \in Keys : pool'[l] # NoEntry => pool'[l].resource \in handles'[l]
      BY <3>2, <3>4 DEF PoolInv
    <3>9. \A l \in Keys : pool'[l] # NoEntry /\ l \notin UnixKeys => linked'[l] = pool'[l].resource
      BY <3>2, <3>4 DEF PoolInv
    <3>10. \A l \in Keys : \A r \in handles'[l] :
             r = pool'[l].resource \/ \E g \in Generations : stage[g] = "close" /\ closing[g] = <<l, r>>
      <4>. SUFFICES ASSUME NEW l \in Keys, NEW r \in handles'[l], r # pool'[l].resource
                    PROVE  \E g \in Generations : stage[g] = "close" /\ closing[g] = <<l, r>>
        OBVIOUS
      <4>1. r \in handles[l]
        BY <3>2, <3>4
      <4>2. r # pool[l].resource
        <5>1. CASE l = k
          BY <2>5, <4>1, <5>1 DEF TypeOK, NoEntry, Generations
        <5>2. CASE l # k
          BY <3>4, <5>2
        <5>. QED
          BY <5>1, <5>2
      <4>. QED
        BY <4>1, <4>2 DEF PoolInv
    <3>. QED
      BY <2>1, <2>3, <3>5, <3>6, <3>7, <3>8, <3>9, <3>10 DEF PoolInv
  <2>. QED
    BY <2>4, <2>5
<1>8. CASE StartFails
  <2>1. next \in Nat /\ (next' = next \/ next' = next + 1)
    BY <1>8 DEF TypeOK, StartFails, At, Set, stateVars, poolVars, serviceVars, drainVars
  <2>2. UNCHANGED <<pool, handles, linked, closing, claims>>
    BY <1>8 DEF StartFails, At, Set, stateVars, poolVars, serviceVars, drainVars
  <2>3. \A h \in Generations : stage'[h] = "close" <=> stage[h] = "close"
    BY <1>8, ExecutorStages
       DEF TypeOK, Candidate, Running, BuildPcs, RetirePcs, StartFails, At, Set, stateVars,
           poolVars, serviceVars, drainVars
  <2>. QED
    BY <2>1, <2>2, <2>3, PoolFrame
<1>9. CASE Started
  <2>1. next \in Nat /\ (next' = next \/ next' = next + 1)
    BY <1>9 DEF TypeOK, Started, At, Set, stateVars, poolVars, serviceVars, drainVars
  <2>2. UNCHANGED <<pool, handles, linked, closing, claims>>
    BY <1>9 DEF Started, At, Set, stateVars, poolVars, serviceVars, drainVars
  <2>3. \A h \in Generations : stage'[h] = "close" <=> stage[h] = "close"
    BY <1>9, ExecutorStages
       DEF TypeOK, Candidate, Running, BuildPcs, RetirePcs, Started, At, Set, stateVars,
           poolVars, serviceVars, drainVars
  <2>. QED
    BY <2>1, <2>2, <2>3, PoolFrame
<1>10. CASE Register
  <2>1. next \in Nat /\ (next' = next \/ next' = next + 1)
    BY <1>10 DEF TypeOK, Register, At, stateVars, genVars, poolVars, drainVars
  <2>2. UNCHANGED <<pool, handles, linked, closing, claims>>
    BY <1>10 DEF Register, At, stateVars, genVars, poolVars, drainVars
  <2>3. \A h \in Generations : stage'[h] = "close" <=> stage[h] = "close"
    BY <1>10, ExecutorStages
       DEF TypeOK, Candidate, Running, BuildPcs, RetirePcs, Register, At, stateVars, genVars,
           poolVars, drainVars
  <2>. QED
    BY <2>1, <2>2, <2>3, PoolFrame
<1>11. CASE RegisterFails
  <2>1. next \in Nat /\ (next' = next \/ next' = next + 1)
    BY <1>11 DEF TypeOK, RegisterFails, At, Set, stateVars, poolVars, serviceVars, drainVars
  <2>2. UNCHANGED <<pool, handles, linked, closing, claims>>
    BY <1>11 DEF RegisterFails, At, Set, stateVars, poolVars, serviceVars, drainVars
  <2>3. \A h \in Generations : stage'[h] = "close" <=> stage[h] = "close"
    BY <1>11, ExecutorStages
       DEF TypeOK, Candidate, Running, BuildPcs, RetirePcs, RegisterFails, At, Set, stateVars,
           poolVars, serviceVars, drainVars
  <2>. QED
    BY <2>1, <2>2, <2>3, PoolFrame
<1>12. CASE CleanedUp
  <2>1. next \in Nat /\ (next' = next \/ next' = next + 1)
    BY <1>12 DEF TypeOK, CleanedUp, At, stateVars, genVars, poolVars, serviceVars, drainVars
  <2>2. UNCHANGED <<pool, handles, linked, closing, claims>>
    BY <1>12 DEF CleanedUp, At, stateVars, genVars, poolVars, serviceVars, drainVars
  <2>3. \A h \in Generations : stage'[h] = "close" <=> stage[h] = "close"
    BY <1>12, ExecutorStages
       DEF TypeOK, Candidate, Running, BuildPcs, RetirePcs, CleanedUp, At, stateVars, genVars,
           poolVars, serviceVars, drainVars
  <2>. QED
    BY <2>1, <2>2, <2>3, PoolFrame
<1>13. CASE GiveUp
  <2>1. next \in Nat /\ (next' = next \/ next' = next + 1)
    BY <1>13 DEF TypeOK, GiveUp, At, Set, stateVars, poolVars, drainVars
  <2>2. UNCHANGED <<pool, handles, linked, closing, claims>>
    BY <1>13 DEF GiveUp, At, Set, stateVars, poolVars, drainVars
  <2>3. \A h \in Generations : stage'[h] = "close" <=> stage[h] = "close"
    BY <1>13, ExecutorStages
       DEF TypeOK, Candidate, Running, BuildPcs, RetirePcs, GiveUp, At, Set, stateVars,
           poolVars, drainVars
  <2>. QED
    BY <2>1, <2>2, <2>3, PoolFrame
<1>14. CASE Publish
  <2>1. next \in Nat /\ (next' = next \/ next' = next + 1)
    BY <1>14 DEF TypeOK, Publish, At, genVars, poolVars, serviceVars, drainVars
  <2>2. UNCHANGED <<pool, handles, linked, closing, claims>>
    BY <1>14 DEF Publish, At, genVars, poolVars, serviceVars, drainVars
  <2>3. \A h \in Generations : stage'[h] = "close" <=> stage[h] = "close"
    BY <1>14, ExecutorStages
       DEF TypeOK, Candidate, Running, BuildPcs, RetirePcs, Publish, At, genVars, poolVars,
           serviceVars, drainVars
  <2>. QED
    BY <2>1, <2>2, <2>3, PoolFrame
<1>15. CASE BeginStop
  <2>1. next \in Nat /\ (next' = next \/ next' = next + 1)
    BY <1>15 DEF TypeOK, BeginStop, At, Set, stateVars, poolVars, drainVars
  <2>2. UNCHANGED <<pool, handles, linked, closing, claims>>
    BY <1>15 DEF BeginStop, At, Set, stateVars, poolVars, drainVars
  <2>3. \A h \in Generations : stage'[h] = "close" <=> stage[h] = "close"
    BY <1>15, ExecutorStages
       DEF TypeOK, Candidate, Running, BuildPcs, RetirePcs, BeginStop, At, Set, stateVars,
           poolVars, drainVars
  <2>. QED
    BY <2>1, <2>2, <2>3, PoolFrame
<1>16. CASE BeginDrain
  <2>1. next \in Nat /\ (next' = next \/ next' = next + 1)
    BY <1>16 DEF TypeOK, BeginDrain, Set, poolVars, serviceVars, drainVars
  <2>2. UNCHANGED <<pool, handles, linked, closing, claims>>
    BY <1>16 DEF BeginDrain, Set, poolVars, serviceVars, drainVars
  <2>3. \A h \in Generations : stage'[h] = "close" <=> stage[h] = "close"
    BY <1>16, ExecutorStages
       DEF TypeOK, Candidate, Running, BuildPcs, RetirePcs, BeginDrain, Set, poolVars,
           serviceVars, drainVars
  <2>. QED
    BY <2>1, <2>2, <2>3, PoolFrame
<1>17. CASE AwaitDrains
  <2>1. next \in Nat /\ (next' = next \/ next' = next + 1)
    BY <1>17 DEF TypeOK, AwaitDrains, At, stateVars, genVars, poolVars, serviceVars, drainVars
  <2>2. UNCHANGED <<pool, handles, linked, closing, claims>>
    BY <1>17 DEF AwaitDrains, At, stateVars, genVars, poolVars, serviceVars, drainVars
  <2>3. \A h \in Generations : stage'[h] = "close" <=> stage[h] = "close"
    BY <1>17, ExecutorStages
       DEF TypeOK, Candidate, Running, BuildPcs, RetirePcs, AwaitDrains, At, stateVars, genVars,
           poolVars, serviceVars, drainVars
  <2>. QED
    BY <2>1, <2>2, <2>3, PoolFrame
<1>18. CASE AwaitThrows
  <2>1. next \in Nat /\ (next' = next \/ next' = next + 1)
    BY <1>18 DEF TypeOK, AwaitThrows, At, stateVars, genVars, poolVars, serviceVars, drainVars
  <2>2. UNCHANGED <<pool, handles, linked, closing, claims>>
    BY <1>18 DEF AwaitThrows, At, stateVars, genVars, poolVars, serviceVars, drainVars
  <2>3. \A h \in Generations : stage'[h] = "close" <=> stage[h] = "close"
    BY <1>18, ExecutorStages
       DEF TypeOK, Candidate, Running, BuildPcs, RetirePcs, AwaitThrows, At, stateVars, genVars,
           poolVars, serviceVars, drainVars
  <2>. QED
    BY <2>1, <2>2, <2>3, PoolFrame
<1>19. CASE StopCerts
  <2>1. next \in Nat /\ (next' = next \/ next' = next + 1)
    BY <1>19 DEF TypeOK, StopCerts, At, stateVars, genVars, poolVars, drainVars
  <2>2. UNCHANGED <<pool, handles, linked, closing, claims>>
    BY <1>19 DEF StopCerts, At, stateVars, genVars, poolVars, drainVars
  <2>3. \A h \in Generations : stage'[h] = "close" <=> stage[h] = "close"
    BY <1>19, ExecutorStages
       DEF TypeOK, Candidate, Running, BuildPcs, RetirePcs, StopCerts, At, stateVars, genVars,
           poolVars, drainVars
  <2>. QED
    BY <2>1, <2>2, <2>3, PoolFrame
<1>20. CASE StopService
  <2>1. next \in Nat /\ (next' = next \/ next' = next + 1)
    BY <1>20 DEF TypeOK, StopService, At, stateVars, genVars, poolVars, drainVars
  <2>2. UNCHANGED <<pool, handles, linked, closing, claims>>
    BY <1>20 DEF StopService, At, stateVars, genVars, poolVars, drainVars
  <2>3. \A h \in Generations : stage'[h] = "close" <=> stage[h] = "close"
    BY <1>20, ExecutorStages
       DEF TypeOK, Candidate, Running, BuildPcs, RetirePcs, StopService, At, stateVars, genVars,
           poolVars, drainVars
  <2>. QED
    BY <2>1, <2>2, <2>3, PoolFrame
<1>21. CASE StopEnd
  <2>1. next \in Nat /\ (next' = next \/ next' = next + 1)
    BY <1>21 DEF TypeOK, StopEnd, At, genVars, poolVars, drainVars
  <2>2. UNCHANGED <<pool, handles, linked, closing, claims>>
    BY <1>21 DEF StopEnd, At, genVars, poolVars, drainVars
  <2>3. \A h \in Generations : stage'[h] = "close" <=> stage[h] = "close"
    BY <1>21, ExecutorStages
       DEF TypeOK, Candidate, Running, BuildPcs, RetirePcs, StopEnd, At, genVars, poolVars,
           drainVars
  <2>. QED
    BY <2>1, <2>2, <2>3, PoolFrame
<1>22. ASSUME NEW g \in Generations, WorkersStopAccepting(g) PROVE PoolInv'
  <2>1. next \in Nat /\ (next' = next \/ next' = next + 1)
    BY <1>22
       DEF TypeOK, WorkersStopAccepting, Set, stateVars, poolVars, serviceVars, drainVars,
           execVars
  <2>2. UNCHANGED <<pool, handles, linked, closing, claims>>
    BY <1>22
       DEF WorkersStopAccepting, Set, stateVars, poolVars, serviceVars, drainVars, execVars
  <2>3. \A h \in Generations : stage'[h] = "close" <=> stage[h] = "close"
    BY <1>22, ExecutorStages
       DEF TypeOK, Candidate, Running, BuildPcs, RetirePcs, WorkersStopAccepting, Set,
           stateVars, poolVars, serviceVars, drainVars, execVars
  <2>. QED
    BY <2>1, <2>2, <2>3, PoolFrame
<1>23. ASSUME NEW g \in Generations, Drained(g) PROVE PoolInv'
  <2>1. next \in Nat /\ (next' = next \/ next' = next + 1)
    BY <1>23 DEF TypeOK, Drained, Set, stateVars, poolVars, serviceVars, drainVars, execVars
  <2>2. UNCHANGED <<pool, handles, linked, closing, claims>>
    BY <1>23 DEF Drained, Set, stateVars, poolVars, serviceVars, drainVars, execVars
  <2>3. \A h \in Generations : stage'[h] = "close" <=> stage[h] = "close"
    BY <1>23, ExecutorStages
       DEF TypeOK, Candidate, Running, BuildPcs, RetirePcs, Drained, Set, stateVars, poolVars,
           serviceVars, drainVars, execVars
  <2>. QED
    BY <2>1, <2>2, <2>3, PoolFrame
<1>24. ASSUME NEW g \in Generations, DrainThrows(g) PROVE PoolInv'
  <2>1. next \in Nat /\ (next' = next \/ next' = next + 1)
    BY <1>24 DEF TypeOK, DrainThrows, Set, stateVars, poolVars, serviceVars, execVars
  <2>2. UNCHANGED <<pool, handles, linked, closing, claims>>
    BY <1>24 DEF DrainThrows, Set, stateVars, poolVars, serviceVars, execVars
  <2>3. \A h \in Generations : stage'[h] = "close" <=> stage[h] = "close"
    BY <1>24, ExecutorStages
       DEF TypeOK, Candidate, Running, BuildPcs, RetirePcs, DrainThrows, Set, stateVars,
           poolVars, serviceVars, execVars
  <2>. QED
    BY <2>1, <2>2, <2>3, PoolFrame
<1>25. ASSUME NEW g \in Generations, NEW k \in Keys, Release(g, k) PROVE PoolInv'
  <2>1. /\ stage[g] = "release" /\ k \in claims[g] /\ claims' = Set(claims, g, claims[g] \ {k})
        /\ UNCHANGED <<next, handles, linked>>
    BY <1>25 DEF Release, stateVars
  <2>2. /\ Claimants(k)' = Claimants(k) \ {g} /\ g \in Claimants(k) /\ Cardinality(Claimants(k)) > 0
        /\ \A l \in Keys : l # k => Claimants(l)' = Claimants(l)
    BY <2>1, ClaimRemoved DEF Claimants
  <2>3. \A l \in Keys : Claimants(l)' \subseteq Claimants(l)
    BY <2>2
  <2>4. pool[k] \in Entry /\ pool[k] # NoEntry /\ pool[k].resource \in Generations /\ pool[k].count \in Nat
    BY <2>2, ClaimedEntry
  <2>5. CASE pool[k].count > 1
    <3>1. pool' = [pool EXCEPT ![k].count = @ - 1] /\ UNCHANGED <<closing, stage>>
      BY <1>25, <2>5 DEF Release
    <3>2. \A l \in Keys : l # k => pool'[l] = pool[l]
      BY <3>1 DEF TypeOK
    <3>3. pool'[k].resource = pool[k].resource
      BY <3>1, <2>4 DEF Entry, TypeOK
    <3>4. \A l \in Keys : pool'[l].resource = pool[l].resource
      BY <3>2, <3>3
    <3>5. \A l \in Keys : pool'[l] # NoEntry => pool[l] # NoEntry
      BY <2>4, <3>2
    <3>6. \A l \in Keys : pool'[l].resource = next => \A h \in Claimants(l)' : h = next
      BY <2>3, <3>4 DEF PoolInv
    <3>7. \A h \in Generations : stage[h] = "close" =>
            closing[h][2] <= next /\ closing[h][2] # pool'[closing[h][1]].resource
      BY <3>4 DEF PoolInv, TypeOK
    <3>. QED
      BY <2>1, <3>1, <3>4, <3>5, <3>6, <3>7 DEF PoolInv
  <2>6. CASE ~(pool[k].count > 1)
    <3>1. /\ pool' = Set(pool, k, NoEntry) /\ closing' = Set(closing, g, <<k, pool[k].resource>>)
          /\ stage' = Set(stage, g, "close")
      BY <1>25, <2>6 DEF Release
    <3>2. /\ \A l \in Keys : pool'[l] = IF l = k THEN NoEntry ELSE pool[l]
          /\ \A h \in Generations : h # g => closing'[h] = closing[h] /\ stage'[h] = stage[h]
          /\ closing'[g] = <<k, pool[k].resource>> /\ stage'[g] = "close"
      BY <3>1 DEF Set, TypeOK
    <3>3. \A l \in Keys : pool'[l].resource = IF l = k THEN 0 ELSE pool[l].resource
      BY <3>2 DEF NoEntry
    <3>4. \A h \in Generations : closing'[h] # <<>> <=> stage'[h] = "close"
      BY <3>2 DEF PoolInv
    <3>5. next # 0 /\ 0 <= next
      BY DEF PlaceInv, TypeOK
    <3>6. \A l \in Keys : pool'[l].resource <= next
      BY <3>3, <3>5 DEF PoolInv
    <3>7. \A l \in Keys : pool'[l].resource = next => \A h \in Claimants(l)' : h = next
      BY <2>3, <3>3, <3>5 DEF PoolInv
    <3>8. closing'[g][1] = k /\ closing'[g][2] = pool[k].resource
      BY <3>2
    <3>9. closing'[g][2] <= next /\ (closing'[g][2] = next => g = next) /\ closing'[g][2] # pool'[closing'[g][1]].resource
      BY <2>2, <2>4, <3>3, <3>8 DEF PoolInv, Generations
    <3>10. \A h \in Generations : h # g /\ stage[h] = "close" =>
             /\ closing[h][1] \in Keys /\ closing[h][2] \in Generations
             /\ closing[h][2] <= next /\ (closing[h][2] = next => h = next)
             /\ closing[h][2] # pool[closing[h][1]].resource
      BY DEF PoolInv, TypeOK
    <3>11. \A h \in Generations : h # g /\ stage'[h] = "close" =>
             /\ closing'[h][2] <= next /\ (closing'[h][2] = next => h = next)
             /\ closing'[h][2] # pool'[closing'[h][1]].resource
      BY <3>2, <3>3, <3>10 DEF Generations
    <3>12. \A l \in Keys : pool'[l] # NoEntry => pool'[l] = pool[l]
      BY <3>2
    <3>13. \A l \in Keys : \A r \in handles[l] :
             r = pool'[l].resource \/ \E h \in Generations : stage'[h] = "close" /\ closing'[h] = <<l, r>>
      <4>. SUFFICES ASSUME NEW l \in Keys, NEW r \in handles[l], r # pool'[l].resource
                    PROVE  \E h \in Generations : stage'[h] = "close" /\ closing'[h] = <<l, r>>
        OBVIOUS
      <4>1. CASE r = pool[l].resource
        <5>1. l = k
          BY <3>3, <4>1
        <5>. QED
          BY <3>2, <4>1, <5>1
      <4>2. CASE r # pool[l].resource
        <5>1. PICK h \in Generations : stage[h] = "close" /\ closing[h] = <<l, r>>
          BY <4>2 DEF PoolInv
        <5>2. h # g
          BY <2>1, <5>1
        <5>. QED
          BY <3>2, <5>1, <5>2
      <4>. QED
        BY <4>1, <4>2
    <3>14. /\ \A l \in Keys : pool'[l] # NoEntry => pool'[l].resource \in handles[l]
           /\ \A l \in Keys : pool'[l] # NoEntry /\ l \notin UnixKeys => linked[l] = pool'[l].resource
      BY <3>12 DEF PoolInv
    <3>15. \A h \in Generations : stage'[h] = "close" =>
             /\ closing'[h][2] <= next /\ (closing'[h][2] = next => h = next)
             /\ closing'[h][2] # pool'[closing'[h][1]].resource
      BY <3>9, <3>11
    <3>. QED
      BY <2>1, <3>4, <3>6, <3>7, <3>13, <3>14, <3>15 DEF PoolInv
  <2>. QED
    BY <2>5, <2>6
<1>26. ASSUME NEW g \in Generations, CloseResource(g) PROVE PoolInv'
  <2>1. PICK k, r : k = closing[g][1] /\ r = closing[g][2]
    OBVIOUS
  <2>2. /\ stage[g] = "close" /\ closing' = Set(closing, g, <<>>) /\ stage' = Set(stage, g, "release")
        /\ handles' = Set(handles, k, handles[k] \ {r})
        /\ linked' = IF k \in UnixKeys \/ linked[k] = r THEN Set(linked, k, 0) ELSE linked
        /\ UNCHANGED <<next, claims, pool>>
    BY <1>26, <2>1 DEF CloseResource, stateVars
  <2>3. closing[g] = <<k, r>> /\ k \in Keys /\ r \in Generations /\ r # pool[k].resource
    BY <2>1, <2>2 DEF PoolInv, TypeOK
  <2>4. /\ \A h \in Generations : h # g => closing'[h] = closing[h] /\ stage'[h] = stage[h]
        /\ closing'[g] = <<>> /\ stage'[g] = "release"
        /\ \A l \in Keys : handles'[l] = IF l = k THEN handles[k] \ {r} ELSE handles[l]
        /\ \A l \in Keys : l # k => linked'[l] = linked[l]
    BY <2>2, <2>3 DEF Set, TypeOK
  <2>5. k \notin UnixKeys /\ linked[k] # r => linked'[k] = linked[k]
    BY <2>2
  <2>6. \A h \in Generations : closing'[h] # <<>> <=> stage'[h] = "close"
    BY <2>4 DEF PoolInv
  <2>7. \A l \in Keys : pool[l] # NoEntry => pool[l].resource \in handles'[l]
    BY <2>3, <2>4 DEF PoolInv
  <2>8. \A l \in Keys : pool[l] # NoEntry /\ l \notin UnixKeys => linked'[l] = pool[l].resource
    BY <2>3, <2>4, <2>5 DEF PoolInv
  <2>9. \A l \in Keys : Claimants(l)' = Claimants(l)
    BY <2>2 DEF Claimants
  <2>10. \A h \in Generations : stage'[h] = "close" =>
           /\ closing'[h][2] <= next /\ (closing'[h][2] = next => h = next)
           /\ closing'[h][2] # pool[closing'[h][1]].resource
    BY <2>4 DEF PoolInv
  <2>11. \A l \in Keys : \A s \in handles'[l] :
           s = pool[l].resource \/ \E h \in Generations : stage'[h] = "close" /\ closing'[h] = <<l, s>>
    <3>. SUFFICES ASSUME NEW l \in Keys, NEW s \in handles'[l], s # pool[l].resource
                  PROVE  \E h \in Generations : stage'[h] = "close" /\ closing'[h] = <<l, s>>
      OBVIOUS
    <3>1. s \in handles[l] /\ ~(l = k /\ s = r)
      BY <2>4
    <3>2. PICK h \in Generations : stage[h] = "close" /\ closing[h] = <<l, s>>
      BY <3>1 DEF PoolInv
    <3>3. h # g
      BY <2>3, <3>1, <3>2
    <3>. QED
      BY <2>4, <3>2, <3>3
  <2>. QED
    BY <2>2, <2>6, <2>7, <2>8, <2>9, <2>10, <2>11 DEF PoolInv
<1>27. ASSUME NEW g \in Generations, Released(g) PROVE PoolInv'
  <2>1. next \in Nat /\ (next' = next \/ next' = next + 1)
    BY <1>27 DEF TypeOK, Released, Set, stateVars, poolVars, serviceVars, drainVars, execVars
  <2>2. UNCHANGED <<pool, handles, linked, closing, claims>>
    BY <1>27 DEF Released, Set, stateVars, poolVars, serviceVars, drainVars, execVars
  <2>3. \A h \in Generations : stage'[h] = "close" <=> stage[h] = "close"
    BY <1>27, ExecutorStages
       DEF TypeOK, Candidate, Running, BuildPcs, RetirePcs, Released, Set, stateVars, poolVars,
           serviceVars, drainVars, execVars
  <2>. QED
    BY <2>1, <2>2, <2>3, PoolFrame
<1>28. ASSUME NEW g \in Generations, Finalize(g) PROVE PoolInv'
  <2>1. next \in Nat /\ (next' = next \/ next' = next + 1)
    BY <1>28 DEF TypeOK, Finalize, Leaves, Decision, Set, poolVars, serviceVars, execVars
  <2>2. UNCHANGED <<pool, handles, linked, closing, claims>>
    BY <1>28 DEF Finalize, Leaves, Decision, Set, poolVars, serviceVars, execVars
  <2>3. \A h \in Generations : stage'[h] = "close" <=> stage[h] = "close"
    BY <1>28, ExecutorStages
       DEF TypeOK, Candidate, Running, BuildPcs, RetirePcs, Finalize, Leaves, Decision, Set,
           poolVars, serviceVars, execVars
  <2>. QED
    BY <2>1, <2>2, <2>3, PoolFrame
<1>29. ASSUME NEW g \in Generations, StopCert(g) PROVE PoolInv'
  <2>1. next \in Nat /\ (next' = next \/ next' = next + 1)
    BY <1>29 DEF TypeOK, StopCert, Set, stateVars, poolVars, drainVars, execVars
  <2>2. UNCHANGED <<pool, handles, linked, closing, claims>>
    BY <1>29 DEF StopCert, Set, stateVars, poolVars, drainVars, execVars
  <2>3. \A h \in Generations : stage'[h] = "close" <=> stage[h] = "close"
    BY <1>29, ExecutorStages
       DEF TypeOK, Candidate, Running, BuildPcs, RetirePcs, StopCert, Set, stateVars, poolVars,
           drainVars, execVars
  <2>. QED
    BY <2>1, <2>2, <2>3, PoolFrame
<1>30. ASSUME NEW g \in Generations, StopTickets(g) PROVE PoolInv'
  <2>1. next \in Nat /\ (next' = next \/ next' = next + 1)
    BY <1>30 DEF TypeOK, StopTickets, Set, stateVars, poolVars, drainVars, execVars
  <2>2. UNCHANGED <<pool, handles, linked, closing, claims>>
    BY <1>30 DEF StopTickets, Set, stateVars, poolVars, drainVars, execVars
  <2>3. \A h \in Generations : stage'[h] = "close" <=> stage[h] = "close"
    BY <1>30, ExecutorStages
       DEF TypeOK, Candidate, Running, BuildPcs, RetirePcs, StopTickets, Set, stateVars,
           poolVars, drainVars, execVars
  <2>. QED
    BY <2>1, <2>2, <2>3, PoolFrame
<1>31. ASSUME NEW g \in Generations, WorkerCrashes(g) PROVE PoolInv'
  <2>1. next \in Nat /\ (next' = next \/ next' = next + 1)
    BY <1>31 DEF TypeOK, WorkerCrashes, stateVars, genVars, poolVars, serviceVars, execVars
  <2>2. UNCHANGED <<pool, handles, linked, closing, claims>>
    BY <1>31 DEF WorkerCrashes, stateVars, genVars, poolVars, serviceVars, execVars
  <2>3. \A h \in Generations : stage'[h] = "close" <=> stage[h] = "close"
    BY <1>31, ExecutorStages
       DEF TypeOK, Candidate, Running, BuildPcs, RetirePcs, WorkerCrashes, stateVars, genVars,
           poolVars, serviceVars, execVars
  <2>. QED
    BY <2>1, <2>2, <2>3, PoolFrame
<1>32. CASE UNCHANGED vars
  BY <1>32, PoolFrame
     DEF TypeOK, vars, stateVars, genVars, poolVars, serviceVars, drainVars, execVars
<1>33. QED
  BY <1>1, <1>2, <1>3, <1>4, <1>5, <1>6, <1>7, <1>8, <1>9, <1>10, <1>11, <1>12, <1>13, <1>14,
     <1>15, <1>16, <1>17, <1>18, <1>19, <1>20, <1>21, <1>22, <1>23, <1>24, <1>25, <1>26, <1>27,
     <1>28, <1>29, <1>30, <1>31, <1>32 DEF Next, Executor, Generation

-----------------------------------------------------------------------------
(* Types, by the groups of variables.                                      *)

StateTypes ==
  /\ phase \in {"running", "stopping", "stopped"}
  /\ active \in 0..MaxGenerations /\ draining \subseteq Generations
  /\ service \in 0..MaxGenerations /\ next \in 1..(MaxGenerations + 1)

GenTypes ==
  /\ config \in [Generations -> Configs]
  /\ cert \in [Generations -> 0..MaxGenerations] /\ tickets \in [Generations -> 0..MaxGenerations]
  /\ claims \in [Generations -> SUBSET Keys]

StageTypes ==
  stage \in [Generations -> {"none", "building", "live", "stopping", "quiet", "draining",
                             "release", "close", "released", "failed", "stopCert",
                             "stopTickets", "done"}]

PoolTypes ==
  /\ pool \in [Keys -> Entry \cup {NoEntry}]
  /\ handles \in [Keys -> SUBSET Generations] /\ linked \in [Keys -> 0..MaxGenerations]
  /\ closing \in [Generations -> (Keys \X Generations) \cup {<<>>}]

ServiceTypes ==
  /\ certs \subseteq Generations /\ services \subseteq Generations
  /\ certStops \in [Generations -> Nat] /\ attached \subseteq Generations
  /\ notifier \in BOOLEAN

DrainTypes ==
  /\ crashed \subseteq Generations /\ failed \subseteq Generations
  /\ decided \in [Generations -> SUBSET {"cert", "tickets"}]

ExecTypes ==
  /\ pc \in {"idle", "cert", "tickets", "claims", "register", "publish", "beginStop",
             "awaitAccept", "cleanup", "giveUp", "awaitDrains", "stopCerts", "stopTickets",
             "stopEnd", "stopped", "stopFailed"}
  /\ retiring \in 0..MaxGenerations /\ awaited \subseteq Generations
  /\ captured \in 0..MaxGenerations

Types == StateTypes /\ GenTypes /\ StageTypes /\ PoolTypes /\ ServiceTypes /\ DrainTypes /\ ExecTypes

LEMMA TypeParts == (TypeOK <=> Types) /\ (TypeOK' <=> Types')
BY
   DEF TypeOK, Types, StateTypes, GenTypes, StageTypes, PoolTypes, ServiceTypes, DrainTypes,
       ExecTypes


\* Every step keeps the types.
LEMMA TypeStep ==
  ASSUME TypeOK, PlaceInv, StageInv, CertInv, ClaimInv, PoolInv, [Next]_vars
  PROVE  TypeOK'
<1>1. CASE Reload
  <2>1. next \in Generations
    BY <1>1, LifecycleAssumption DEF TypeOK, Generations, PlaceInv, Reload, At
  <2>2. StateTypes' /\ PoolTypes' /\ ServiceTypes' /\ DrainTypes'
    BY <1>1, TypeParts
       DEF Types, StateTypes, PoolTypes, ServiceTypes, DrainTypes, Reload, At, Set, stateVars,
           poolVars, serviceVars, drainVars
  <2>3. GenTypes'
    BY <1>1, <2>1, TypeParts, LifecycleAssumption
       DEF Types, GenTypes, Reload, At, Set, stateVars, poolVars, serviceVars, drainVars
  <2>4. StageTypes'
    BY <1>1, <2>1, TypeParts, LifecycleAssumption
       DEF Types, StageTypes, Reload, At, Set, stateVars, poolVars, serviceVars, drainVars
  <2>5. ExecTypes'
    BY <1>1, <2>1, TypeParts, LifecycleAssumption
       DEF Types, ExecTypes, Reload, At, Set, stateVars, poolVars, serviceVars, drainVars
  <2>. QED
    BY <2>2, <2>3, <2>4, <2>5, TypeParts DEF Types
<1>2. CASE Stop
  BY <1>2, LifecycleAssumption
     DEF TypeOK, PlaceInv, Generations, BuildPcs, RetirePcs, StopPcs, EndPcs, Stop, At,
         stateVars, genVars, poolVars, serviceVars, drainVars
<1>3. CASE AcquireCert
  <2>1. PICK r \in 0..MaxGenerations :
          /\ next \in Generations /\ cert' = Set(cert, next, r) /\ certs' = certs \cup ({r} \ {0})
          /\ certStops' = IF r = next THEN Set(certStops, next, 0) ELSE certStops
    <3>1. next \in Generations /\ active \in Generations
      BY <1>3, ExecutorStages, ActiveServes DEF AcquireCert, At, BuildPcs, PlaceInv
    <3>2. 0 \in 0..MaxGenerations /\ next \in 0..MaxGenerations
      BY <3>1, LifecycleAssumption DEF Generations
    <3>3. cert[active] \in 0..MaxGenerations
      BY <3>1 DEF TypeOK
    <3>. QED
      BY <1>3, <3>1, <3>2, <3>3 DEF AcquireCert
  <2>2. StateTypes' /\ StageTypes' /\ PoolTypes' /\ DrainTypes'
    BY <1>3, TypeParts
       DEF Types, StateTypes, StageTypes, PoolTypes, DrainTypes, AcquireCert, At, Set,
           stateVars, poolVars, drainVars
  <2>3. GenTypes'
    BY <1>3, <2>1, TypeParts DEF Types, GenTypes, AcquireCert, Set
  <2>4. ServiceTypes'
    <3>1. certs' \subseteq Generations
      BY <2>1 DEF TypeOK, Generations
    <3>2. certStops' \in [Generations -> Nat]
      BY <2>1 DEF TypeOK, Set
    <3>. QED
      BY <1>3, <3>1, <3>2 DEF TypeOK, ServiceTypes, AcquireCert
  <2>5. ExecTypes'
    BY <1>3, <2>1, TypeParts, LifecycleAssumption
       DEF Types, ExecTypes, AcquireCert, At, Set, stateVars, poolVars, drainVars
  <2>. QED
    BY <2>2, <2>3, <2>4, <2>5, TypeParts DEF Types
<1>4. CASE AcquireCertFails
  BY <1>4, LifecycleAssumption
     DEF TypeOK, PlaceInv, Generations, BuildPcs, RetirePcs, StopPcs, EndPcs, AcquireCertFails,
         At, stateVars, genVars, poolVars, serviceVars, drainVars
<1>5. CASE AcquireTickets
  <2>1. PICK s \in 0..MaxGenerations :
          /\ next \in Generations /\ tickets' = Set(tickets, next, s)
          /\ services' = services \cup ({s} \ {0})
    <3>1. next \in Generations
      BY <1>5, ExecutorStages DEF AcquireTickets, At, BuildPcs
    <3>2. 0 \in 0..MaxGenerations /\ next \in 0..MaxGenerations /\ service \in 0..MaxGenerations
      BY <3>1, LifecycleAssumption DEF TypeOK, Generations
    <3>. QED
      BY <1>5, <3>1, <3>2 DEF AcquireTickets
  <2>2. StateTypes' /\ StageTypes' /\ PoolTypes' /\ DrainTypes'
    BY <1>5, TypeParts
       DEF Types, StateTypes, StageTypes, PoolTypes, DrainTypes, AcquireTickets, At, Set,
           stateVars, poolVars, drainVars
  <2>3. GenTypes'
    BY <1>5, <2>1, TypeParts DEF Types, GenTypes, AcquireTickets, Set
  <2>4. ServiceTypes'
    <3>1. services' \subseteq Generations
      BY <2>1 DEF TypeOK, Generations
    <3>. QED
      BY <1>5, <3>1 DEF TypeOK, ServiceTypes, AcquireTickets
  <2>5. ExecTypes'
    BY <1>5, <2>1, TypeParts, LifecycleAssumption
       DEF Types, ExecTypes, AcquireTickets, At, Set, stateVars, poolVars, drainVars
  <2>. QED
    BY <2>2, <2>3, <2>4, <2>5, TypeParts DEF Types
<1>6. CASE AcquireTicketsFails
  BY <1>6, LifecycleAssumption
     DEF TypeOK, PlaceInv, Generations, BuildPcs, RetirePcs, StopPcs, EndPcs,
         AcquireTicketsFails, At, stateVars, genVars, poolVars, serviceVars, drainVars
<1>7. ASSUME NEW k \in Keys, AcquireClaim(k) PROVE TypeOK'
  <2>1. next \in Generations /\ next \in 1..MaxGenerations
    BY <1>7, ExecutorStages
       DEF BuildPcs, Generations, AcquireClaim, Set, stateVars, serviceVars, drainVars, execVars
  <2>2. StateTypes' /\ StageTypes' /\ ServiceTypes' /\ DrainTypes' /\ ExecTypes'
    BY <1>7, TypeParts
       DEF Types, StateTypes, StageTypes, ServiceTypes, DrainTypes, ExecTypes, AcquireClaim,
           Set, stateVars, serviceVars, drainVars, execVars
  <2>3. GenTypes'
    BY <1>7, <2>1, TypeParts, LifecycleAssumption
       DEF Types, GenTypes, AcquireClaim, Set, stateVars, serviceVars, drainVars, execVars
  <2>4. PoolTypes'
    <3>1. closing' = closing /\ 1 \in Nat /\ [resource |-> next, count |-> 1] \in Entry
      BY <1>7, <2>1, LifecycleAssumption DEF AcquireClaim, Entry
    <3>2. CASE pool[k] # NoEntry
      <4>1. pool' = [pool EXCEPT ![k].count = @ + 1] /\ UNCHANGED <<handles, linked>>
        BY <1>7, <3>2 DEF AcquireClaim
      <4>2. pool[k] \in Entry /\ pool[k].count <= MaxGenerations /\ pool[k].count \in Nat
        BY <3>2, ClaimedEntry, ClaimantsFinite DEF ClaimInv
      <4>3. [pool[k] EXCEPT !.count = @ + 1] \in Entry
        BY <4>2, LifecycleAssumption DEF Entry
      <4>. QED
        BY <3>1, <4>1, <4>3 DEF TypeOK, PoolTypes
    <3>3. CASE pool[k] = NoEntry
      <4>1. /\ pool' = Set(pool, k, [resource |-> next, count |-> 1])
            /\ handles' = Set(handles, k, handles[k] \cup {next}) /\ linked' = Set(linked, k, next)
        BY <1>7, <3>3 DEF AcquireClaim
      <4>. QED
        BY <2>1, <3>1, <4>1 DEF TypeOK, PoolTypes, Set
    <3>. QED
      BY <3>2, <3>3
  <2>. QED
    BY <2>2, <2>3, <2>4, TypeParts DEF Types
<1>8. CASE StartFails
  BY <1>8, LifecycleAssumption
     DEF TypeOK, PlaceInv, Generations, BuildPcs, RetirePcs, StopPcs, EndPcs, StartFails, At,
         Set, stateVars, poolVars, serviceVars, drainVars
<1>9. CASE Started
  BY <1>9, LifecycleAssumption
     DEF TypeOK, PlaceInv, Generations, BuildPcs, RetirePcs, StopPcs, EndPcs, Started, At, Set,
         stateVars, poolVars, serviceVars, drainVars
<1>10. CASE Register
  <2>1. next \in Generations /\ next \in 1..MaxGenerations
    BY <1>10, ExecutorStages
       DEF BuildPcs, Generations, Register, At, stateVars, genVars, poolVars, drainVars
  <2>2. StateTypes' /\ GenTypes' /\ StageTypes' /\ PoolTypes' /\ DrainTypes'
    BY <1>10, TypeParts
       DEF Types, StateTypes, GenTypes, StageTypes, PoolTypes, DrainTypes, Register, At,
           stateVars, genVars, poolVars, drainVars
  <2>3. ServiceTypes'
    BY <1>10, <2>1, TypeParts, LifecycleAssumption
       DEF Types, ServiceTypes, Register, At, stateVars, genVars, poolVars, drainVars
  <2>4. ExecTypes'
    BY <1>10, <2>1, TypeParts, LifecycleAssumption
       DEF Types, ExecTypes, Register, At, stateVars, genVars, poolVars, drainVars
  <2>. QED
    BY <2>2, <2>3, <2>4, TypeParts DEF Types
<1>11. CASE RegisterFails
  BY <1>11, LifecycleAssumption
     DEF TypeOK, PlaceInv, Generations, BuildPcs, RetirePcs, StopPcs, EndPcs, RegisterFails, At,
         Set, stateVars, poolVars, serviceVars, drainVars
<1>12. CASE CleanedUp
  BY <1>12, LifecycleAssumption
     DEF TypeOK, PlaceInv, Generations, BuildPcs, RetirePcs, StopPcs, EndPcs, CleanedUp, At,
         stateVars, genVars, poolVars, serviceVars, drainVars
<1>13. CASE GiveUp
  <2>1. next \in Generations /\ next \in 1..MaxGenerations
    BY <1>13, ExecutorStages
       DEF BuildPcs, Generations, GiveUp, At, Set, stateVars, poolVars, drainVars
  <2>2. StateTypes' /\ PoolTypes' /\ DrainTypes'
    BY <1>13, TypeParts
       DEF Types, StateTypes, PoolTypes, DrainTypes, GiveUp, At, Set, stateVars, poolVars,
           drainVars
  <2>3. GenTypes'
    BY <1>13, <2>1, TypeParts, LifecycleAssumption
       DEF Types, GenTypes, GiveUp, At, Set, stateVars, poolVars, drainVars
  <2>4. StageTypes'
    BY <1>13, <2>1, TypeParts, LifecycleAssumption
       DEF Types, StageTypes, GiveUp, At, Set, stateVars, poolVars, drainVars
  <2>5. ServiceTypes'
    BY <1>13, <2>1, TypeParts, LifecycleAssumption
       DEF Types, ServiceTypes, GiveUp, At, Set, stateVars, poolVars, drainVars
  <2>6. ExecTypes'
    BY <1>13, <2>1, TypeParts, LifecycleAssumption
       DEF Types, ExecTypes, GiveUp, At, Set, stateVars, poolVars, drainVars
  <2>. QED
    BY <2>2, <2>3, <2>4, <2>5, <2>6, TypeParts DEF Types
<1>14. CASE Publish
  <2>1. next \in 1..MaxGenerations /\ active \in 0..MaxGenerations
    BY <1>14, ExecutorStages DEF BuildPcs, Generations, Publish, At, TypeOK
  <2>2. GenTypes' /\ StageTypes' /\ PoolTypes' /\ ServiceTypes' /\ DrainTypes'
    BY <1>14, TypeParts
       DEF Types, GenTypes, StageTypes, PoolTypes, ServiceTypes, DrainTypes, Publish, At,
           genVars, poolVars, serviceVars, drainVars
  <2>3. StateTypes'
    <3>1. next + 1 \in 1..(MaxGenerations + 1) /\ next \in 0..MaxGenerations
      BY <2>1, LifecycleAssumption
    <3>2. next \in Generations /\ tickets[next] \in 0..MaxGenerations
      BY <2>1 DEF TypeOK, Generations
    <3>. QED
      BY <1>14, <3>1, <3>2, TypeParts DEF Types, StateTypes, Publish
  <2>4. ExecTypes'
    BY <1>14, <2>1, TypeParts DEF Types, ExecTypes, Publish, At
  <2>. QED
    BY <2>2, <2>3, <2>4, TypeParts DEF Types
<1>15. CASE BeginStop
  BY <1>15, LifecycleAssumption
     DEF TypeOK, PlaceInv, Generations, BuildPcs, RetirePcs, StopPcs, EndPcs, BeginStop, At,
         Set, stateVars, poolVars, drainVars
<1>16. CASE BeginDrain
  <2>1. retiring \in Generations
    BY <1>16, ExecutorStages DEF BeginDrain, RetirePcs
  <2>2. GenTypes' /\ PoolTypes' /\ ServiceTypes' /\ DrainTypes'
    BY <1>16, TypeParts
       DEF Types, GenTypes, PoolTypes, ServiceTypes, DrainTypes, BeginDrain, Set, poolVars,
           serviceVars, drainVars
  <2>3. StateTypes'
    BY <1>16, <2>1, TypeParts, LifecycleAssumption
       DEF Types, StateTypes, BeginDrain, Set, poolVars, serviceVars, drainVars
  <2>4. StageTypes'
    BY <1>16, <2>1, TypeParts, LifecycleAssumption
       DEF Types, StageTypes, BeginDrain, Set, poolVars, serviceVars, drainVars
  <2>5. ExecTypes'
    <3>1. draining' \subseteq Generations /\ service \in 0..MaxGenerations
      BY <1>16, <2>1 DEF BeginDrain, TypeOK
    <3>2. retiring' = retiring
      BY <1>16 DEF BeginDrain
    <3>3. CASE retiring = active
      <4>1. pc' = "awaitDrains" /\ awaited' = draining' /\ captured' = service
        BY <1>16, <3>3 DEF BeginDrain
      <4>. QED
        BY <3>1, <3>2, <4>1, TypeParts DEF Types, ExecTypes
    <3>4. CASE retiring # active
      <4>1. pc' = "idle" /\ UNCHANGED <<awaited, captured>>
        BY <1>16, <3>4 DEF BeginDrain
      <4>. QED
        BY <3>2, <4>1, TypeParts DEF Types, ExecTypes
    <3>. QED
      BY <3>3, <3>4
  <2>. QED
    BY <2>2, <2>3, <2>4, <2>5, TypeParts DEF Types
<1>17. CASE AwaitDrains
  BY <1>17, LifecycleAssumption
     DEF TypeOK, PlaceInv, Generations, BuildPcs, RetirePcs, StopPcs, EndPcs, AwaitDrains, At,
         stateVars, genVars, poolVars, serviceVars, drainVars
<1>18. CASE AwaitThrows
  BY <1>18, LifecycleAssumption
     DEF TypeOK, PlaceInv, Generations, BuildPcs, RetirePcs, StopPcs, EndPcs, AwaitThrows, At,
         stateVars, genVars, poolVars, serviceVars, drainVars
<1>19. CASE StopCerts
  <2>1. StateTypes' /\ GenTypes' /\ StageTypes' /\ PoolTypes' /\ DrainTypes'
    BY <1>19, TypeParts
       DEF Types, StateTypes, GenTypes, StageTypes, PoolTypes, DrainTypes, StopCerts, At,
           stateVars, genVars, poolVars, drainVars
  <2>2. ServiceTypes'
    <3>1. \A c \in Generations : certStops'[c] \in Nat
      <4>. SUFFICES ASSUME NEW c \in Generations PROVE certStops'[c] \in Nat
        OBVIOUS
      <4>1. PICK n \in {0, 1} : certStops'[c] = certStops[c] + n
        BY <1>19 DEF StopCerts
      <4>. QED
        BY <4>1 DEF TypeOK
    <3>2. certStops' = [c \in Generations |-> certStops'[c]] /\ certs' \subseteq certs
      BY <1>19 DEF StopCerts
    <3>3. certStops' \in [Generations -> Nat]
      BY <3>1, <3>2
    <3>. QED
      BY <1>19, <3>2, <3>3 DEF TypeOK, ServiceTypes, StopCerts
  <2>3. ExecTypes'
    BY <1>19, TypeParts, LifecycleAssumption
       DEF Types, ExecTypes, StopCerts, At, stateVars, genVars, poolVars, drainVars
  <2>. QED
    BY <2>1, <2>2, <2>3, TypeParts DEF Types
<1>20. CASE StopService
  BY <1>20, LifecycleAssumption
     DEF TypeOK, PlaceInv, Generations, BuildPcs, RetirePcs, StopPcs, EndPcs, StopService, At,
         stateVars, genVars, poolVars, drainVars
<1>21. CASE StopEnd
  BY <1>21, LifecycleAssumption
     DEF TypeOK, PlaceInv, Generations, BuildPcs, RetirePcs, StopPcs, EndPcs, StopEnd, At,
         genVars, poolVars, drainVars
<1>22. ASSUME NEW g \in Generations, WorkersStopAccepting(g) PROVE TypeOK'
  BY <1>22, LifecycleAssumption
     DEF TypeOK, PlaceInv, Generations, BuildPcs, RetirePcs, StopPcs, EndPcs,
         WorkersStopAccepting, Set, stateVars, poolVars, serviceVars, drainVars, execVars
<1>23. ASSUME NEW g \in Generations, Drained(g) PROVE TypeOK'
  BY <1>23, LifecycleAssumption
     DEF TypeOK, PlaceInv, Generations, BuildPcs, RetirePcs, StopPcs, EndPcs, Drained, Set,
         stateVars, poolVars, serviceVars, drainVars, execVars
<1>24. ASSUME NEW g \in Generations, DrainThrows(g) PROVE TypeOK'
  BY <1>24, LifecycleAssumption
     DEF TypeOK, PlaceInv, Generations, BuildPcs, RetirePcs, StopPcs, EndPcs, DrainThrows, Set,
         stateVars, poolVars, serviceVars, execVars
<1>25. ASSUME NEW g \in Generations, NEW k \in Keys, Release(g, k) PROVE TypeOK'
  <2>1. StateTypes' /\ ServiceTypes' /\ DrainTypes' /\ ExecTypes'
    BY <1>25, TypeParts
       DEF Types, StateTypes, ServiceTypes, DrainTypes, ExecTypes, Release, Set, stateVars,
           serviceVars, drainVars, execVars
  <2>2. GenTypes'
    BY <1>25, TypeParts, LifecycleAssumption
       DEF Types, GenTypes, Release, Set, stateVars, serviceVars, drainVars, execVars
  <2>3. StageTypes'
    BY <1>25, TypeParts, LifecycleAssumption
       DEF Types, StageTypes, Release, Set, stateVars, serviceVars, drainVars, execVars
  <2>4. PoolTypes'
    <3>1. UNCHANGED <<handles, linked>> /\ k \in claims[g] /\ g \in Claimants(k)
      BY <1>25 DEF Release, Claimants
    <3>2. pool[k] \in Entry /\ pool[k].resource \in Generations /\ pool[k].count \in Nat
      BY <3>1, ClaimedEntry
    <3>3. CASE pool[k].count > 1
      <4>1. pool' = [pool EXCEPT ![k].count = @ - 1] /\ closing' = closing
        BY <1>25, <3>3 DEF Release
      <4>2. [pool[k] EXCEPT !.count = @ - 1] \in Entry
        BY <3>2, <3>3, LifecycleAssumption DEF Entry
      <4>. QED
        BY <3>1, <4>1, <4>2 DEF TypeOK, PoolTypes
    <3>4. CASE ~(pool[k].count > 1)
      <4>1. pool' = Set(pool, k, NoEntry) /\ closing' = Set(closing, g, <<k, pool[k].resource>>)
        BY <1>25, <3>4 DEF Release
      <4>. QED
        BY <3>1, <3>2, <4>1 DEF TypeOK, PoolTypes, Set
    <3>. QED
      BY <3>3, <3>4
  <2>. QED
    BY <2>1, <2>2, <2>3, <2>4, TypeParts DEF Types
<1>26. ASSUME NEW g \in Generations, CloseResource(g) PROVE TypeOK'
  <2>1. PICK k \in Keys, r \in Generations :
          /\ handles' = Set(handles, k, handles[k] \ {r}) /\ closing' = Set(closing, g, <<>>)
          /\ linked' = Set(linked, k, 0) \/ linked' = linked
          /\ pool' = pool
    <3>1. closing[g][1] \in Keys /\ closing[g][2] \in Generations
      BY <1>26 DEF CloseResource, PoolInv, TypeOK
    <3>. QED
      BY <1>26, <3>1 DEF CloseResource
  <2>2. StateTypes' /\ GenTypes' /\ ServiceTypes' /\ DrainTypes' /\ ExecTypes'
    BY <1>26, TypeParts
       DEF Types, StateTypes, GenTypes, ServiceTypes, DrainTypes, ExecTypes, CloseResource, Set,
           stateVars, serviceVars, drainVars, execVars
  <2>3. StageTypes'
    BY <1>26, <2>1, TypeParts, LifecycleAssumption
       DEF Types, StageTypes, CloseResource, Set, stateVars, serviceVars, drainVars, execVars
  <2>4. PoolTypes'
    <3>1. handles' \in [Keys -> SUBSET Generations]
      BY <2>1 DEF TypeOK, Set
    <3>2. 0 \in 0..MaxGenerations
      BY LifecycleAssumption
    <3>3. linked' \in [Keys -> 0..MaxGenerations]
      BY <2>1, <3>2 DEF TypeOK, Set
    <3>4. closing' \in [Generations -> (Keys \X Generations) \cup {<<>>}]
      BY <2>1 DEF TypeOK, Set
    <3>. QED
      BY <2>1, <3>1, <3>3, <3>4 DEF TypeOK, PoolTypes
  <2>. QED
    BY <2>2, <2>3, <2>4, TypeParts DEF Types
<1>27. ASSUME NEW g \in Generations, Released(g) PROVE TypeOK'
  BY <1>27, LifecycleAssumption
     DEF TypeOK, PlaceInv, Generations, BuildPcs, RetirePcs, StopPcs, EndPcs, Released, Set,
         stateVars, poolVars, serviceVars, drainVars, execVars
<1>28. ASSUME NEW g \in Generations, Finalize(g) PROVE TypeOK'
  <2>1. Decision(StopsCert(g), StopsTickets(g)) \subseteq {"cert", "tickets"} /\ 0 \in 0..MaxGenerations
    BY LifecycleAssumption DEF Decision
  <2>2. GenTypes' /\ PoolTypes' /\ ServiceTypes' /\ ExecTypes'
    BY <1>28, TypeParts
       DEF Types, GenTypes, PoolTypes, ServiceTypes, ExecTypes, Finalize, Leaves, Set, poolVars,
           serviceVars, execVars
  <2>3. StateTypes'
    BY <1>28, <2>1, TypeParts, LifecycleAssumption
       DEF Types, StateTypes, Finalize, Leaves, Set, poolVars, serviceVars, execVars
  <2>4. StageTypes'
    BY <1>28, <2>1, TypeParts, LifecycleAssumption
       DEF Types, StageTypes, Finalize, Leaves, Set, poolVars, serviceVars, execVars
  <2>5. DrainTypes'
    BY <1>28, <2>1, TypeParts, LifecycleAssumption
       DEF Types, DrainTypes, Finalize, Leaves, Set, poolVars, serviceVars, execVars
  <2>. QED
    BY <2>2, <2>3, <2>4, <2>5, TypeParts DEF Types
<1>29. ASSUME NEW g \in Generations, StopCert(g) PROVE TypeOK'
  <2>1. "cert" \in decided[g] => cert[g] \in Generations
    BY <1>29 DEF StopCert, StopsACert, CertInv, TypeOK
  <2>2. StateTypes' /\ GenTypes' /\ PoolTypes' /\ DrainTypes' /\ ExecTypes'
    BY <1>29, TypeParts
       DEF Types, StateTypes, GenTypes, PoolTypes, DrainTypes, ExecTypes, StopCert, Set,
           stateVars, poolVars, drainVars, execVars
  <2>3. StageTypes'
    BY <1>29, <2>1, TypeParts, LifecycleAssumption
       DEF Types, StageTypes, StopCert, Set, stateVars, poolVars, drainVars, execVars
  <2>4. ServiceTypes'
    BY <1>29, <2>1, TypeParts, LifecycleAssumption
       DEF Types, ServiceTypes, StopCert, Set, stateVars, poolVars, drainVars, execVars
  <2>. QED
    BY <2>2, <2>3, <2>4, TypeParts DEF Types
<1>30. ASSUME NEW g \in Generations, StopTickets(g) PROVE TypeOK'
  BY <1>30, LifecycleAssumption
     DEF TypeOK, PlaceInv, Generations, BuildPcs, RetirePcs, StopPcs, EndPcs, StopTickets, Set,
         stateVars, poolVars, drainVars, execVars
<1>31. ASSUME NEW g \in Generations, WorkerCrashes(g) PROVE TypeOK'
  BY <1>31, LifecycleAssumption
     DEF TypeOK, PlaceInv, Generations, BuildPcs, RetirePcs, StopPcs, EndPcs, WorkerCrashes,
         stateVars, genVars, poolVars, serviceVars, execVars
<1>32. CASE UNCHANGED vars
  BY <1>32, LifecycleAssumption
     DEF TypeOK, PlaceInv, Generations, BuildPcs, RetirePcs, StopPcs, EndPcs, vars, stateVars,
         genVars, poolVars, serviceVars, drainVars, execVars
<1>33. QED
  BY <1>1, <1>2, <1>3, <1>4, <1>5, <1>6, <1>7, <1>8, <1>9, <1>10, <1>11, <1>12, <1>13, <1>14,
     <1>15, <1>16, <1>17, <1>18, <1>19, <1>20, <1>21, <1>22, <1>23, <1>24, <1>25, <1>26, <1>27,
     <1>28, <1>29, <1>30, <1>31, <1>32 DEF Next, Executor, Generation

-----------------------------------------------------------------------------
(* The inductive invariant.                                                *)

LEMMA InitInv == Init => IInv
<1>. SUFFICES ASSUME NEW c \in Configs,
                /\ phase = "running" /\ active = 1 /\ draining = {} /\ next = 2
                /\ service = IF Has(c, "policy") THEN 1 ELSE 0
                /\ config = [g \in Generations |-> c]
                /\ cert = [g \in Generations |-> IF g = 1 /\ Has(c, "plan") THEN 1 ELSE 0]
                /\ tickets = [g \in Generations |-> IF g = 1 THEN service ELSE 0]
                /\ claims = [g \in Generations |-> IF g = 1 THEN c.keys ELSE {}]
                /\ stage = [g \in Generations |-> IF g = 1 THEN "live" ELSE "none"]
                /\ pool = [k \in Keys |-> IF k \in c.keys THEN [resource |-> 1, count |-> 1] ELSE NoEntry]
                /\ handles = [k \in Keys |-> IF k \in c.keys THEN {1} ELSE {}]
                /\ linked = [k \in Keys |-> IF k \in c.keys THEN 1 ELSE 0]
                /\ closing = [g \in Generations |-> <<>>]
                /\ certs = {cert[1]} \ {0} /\ services = {service} \ {0} /\ attached = services
                /\ certStops = [g \in Generations |-> 0] /\ notifier = TRUE
                /\ crashed = {} /\ failed = {} /\ decided = [g \in Generations |-> {}]
                /\ pc = "idle" /\ retiring = 0 /\ awaited = {} /\ captured = 0
              PROVE  IInv
  BY DEF Init
<1>1. 1 \in Generations /\ MaxGenerations \in Nat /\ MaxGenerations >= 1 /\ c.keys \subseteq Keys
  BY LifecycleAssumption DEF Generations
<1>2. service \in {0, 1} /\ cert[1] \in {0, 1}
  BY <1>1
<1>3. /\ \A g \in Generations : cert[g] = IF g = 1 THEN cert[1] ELSE 0
      /\ \A g \in Generations : tickets[g] = IF g = 1 THEN service ELSE 0
      /\ \A g \in Generations : claims[g] = IF g = 1 THEN c.keys ELSE {}
      /\ \A g \in Generations : stage[g] = IF g = 1 THEN "live" ELSE "none"
      /\ \A g \in Generations : decided[g] = {} /\ closing[g] = <<>> /\ certStops[g] = 0 /\ config[g] = c
  BY <1>1
<1>4. TypeOK
  <2>1. /\ pool \in [Keys -> Entry \cup {NoEntry}] /\ handles \in [Keys -> SUBSET Generations]
        /\ linked \in [Keys -> 0..MaxGenerations]
    BY <1>1 DEF Entry
  <2>2. /\ config \in [Generations -> Configs] /\ claims \in [Generations -> SUBSET Keys]
        /\ closing \in [Generations -> (Keys \X Generations) \cup {<<>>}]
        /\ certStops \in [Generations -> Nat]
        /\ decided \in [Generations -> SUBSET {"cert", "tickets"}]
    BY <1>1
  <2>3. stage \in [Generations -> {"none", "live"}]
    BY <1>1
  <2>4. cert \in [Generations -> 0..MaxGenerations] /\ tickets \in [Generations -> 0..MaxGenerations]
    BY <1>1, <1>2
  <2>5. certs \subseteq Generations /\ services \subseteq Generations
    BY <1>1, <1>2
  <2>. QED
    BY <1>1, <1>2, <2>1, <2>2, <2>3, <2>4, <2>5 DEF TypeOK
<1>5. PlaceInv
  BY <1>1 DEF PlaceInv, Serving, BuildPcs, RetirePcs, StopPcs, EndPcs
<1>6. StageInv
  BY <1>1, <1>3 DEF StageInv, Stages, Candidate, Serving, Generations, BuildPcs, RetirePcs
<1>7. FreshInv
  BY <1>1, <1>3 DEF FreshInv
<1>8. CertInv
  <2>1. \A g \in Generations : ~StopsACert(g)
    BY <1>3 DEF StopsACert
  <2>2. \A g \in Generations : cert[g] \in {0, cert[1]} /\ (g # 1 => cert[g] = 0)
    BY <1>3
  <2>3. \A g \in Generations : cert[g] <= g
    BY <1>2, <2>2 DEF Generations
  <2>4. \A g \in Generations : cert[g] # 0 => cert[g] \in certs
    BY <2>2
  <2>. QED
    BY <1>3, <2>1, <2>3, <2>4 DEF CertInv
<1>9. TicketInv
  <2>1. \A g \in Generations : ~StopsAService(g)
    BY <1>3 DEF StopsAService
  <2>2. \A g \in Generations : tickets[g] \in {0, service} /\ (g # 1 => tickets[g] = 0)
    BY <1>3
  <2>3. \A g \in Generations : tickets[g] <= g
    BY <1>2, <2>2 DEF Generations
  <2>4. \A g \in Generations : tickets[g] # 0 => tickets[g] \in services
    BY <2>2
  <2>. QED
    BY <1>1, <1>3, <2>1, <2>3, <2>4 DEF TicketInv
<1>10. AttachInv
  BY <1>1, <1>2, <1>3 DEF AttachInv
<1>11. \A k \in Keys : Claimants(k) = IF k \in c.keys THEN {1} ELSE {}
  BY <1>1, <1>3 DEF Claimants
<1>12. ClaimInv
  <2>1. Cardinality({1}) = 1 /\ Cardinality({}) = 0
    BY FS_Singleton, FS_EmptySet
  <2>2. \A k \in Keys : pool[k].count = Cardinality(Claimants(k))
    BY <1>11, <2>1 DEF NoEntry
  <2>. QED
    BY <1>3, <2>2 DEF ClaimInv, Left
<1>13. PoolInv
  BY <1>1, <1>3, <1>11 DEF PoolInv, NoEntry
<1>. QED
  BY <1>4, <1>5, <1>6, <1>7, <1>8, <1>9, <1>10, <1>12, <1>13 DEF IInv

LEMMA StepInv == IInv /\ [Next]_vars => IInv'
  BY TypeStep, PlaceStep, StageStep, FreshStep, CertStep, TicketStep, AttachStep, ClaimStep,
     PoolStep DEF IInv

\* Every reachable state keeps the stages, the services, the claims and the sockets
\* related as the parts of IInv say.
THEOREM InductiveInvariant == Spec => []IInv
<1>1. Init => IInv
  BY InitInv
<1>2. IInv /\ [Next]_vars => IInv'
  BY StepInv
<1>. QED
  BY <1>1, <1>2, PTL DEF Spec

-----------------------------------------------------------------------------
(* The properties.                                                         *)

LEMMA InvServes == IInv => ServesWhileRunning
<1>. SUFFICES ASSUME IInv, phase = "running", ~(pc = "awaitAccept" /\ retiring = active)
              PROVE  /\ stage[active] = "live" /\ claims[active] = config[active].keys
                     /\ \A k \in claims[active] :
                          /\ pool[k].resource \in handles[k]
                          /\ k \notin UnixKeys => linked[k] = pool[k].resource
  BY DEF ServesWhileRunning
<1>1. active \in Generations /\ stage[active] = "live"
  BY ActiveServes DEF IInv
<1>2. claims[active] = config[active].keys
  BY <1>1 DEF IInv, ClaimInv
<1>3. ASSUME NEW k \in claims[active]
      PROVE  /\ pool[k].resource \in handles[k]
             /\ k \notin UnixKeys => linked[k] = pool[k].resource
  <2>1. k \in Keys /\ active \in Claimants(k)
    BY <1>1, <1>3 DEF IInv, TypeOK, Claimants
  <2>2. pool[k] # NoEntry
    BY <2>1, ClaimedEntry DEF IInv
  <2>. QED
    BY <2>1, <2>2 DEF IInv, PoolInv
<1>. QED
  BY <1>1, <1>2, <1>3

\* While the server runs, the generation that reload or start published serves: it
\* has not been told to stop, its sockets are open and, Unix paths aside, its
\* addresses lead to them (runtime.clj; listen.clj, acquire-claim and release!).
THEOREM ServesThroughReloads == Spec => []ServesWhileRunning
  BY InductiveInvariant, InvServes, PTL

LEMMA InvServices == IInv => ServicesOutliveUsers
<1>. SUFFICES ASSUME IInv PROVE ServicesOutliveUsers
  OBVIOUS
<1>1. \A g \in Users : g \in Generations /\ Using(g)
  <2>1. active # 0 => active \in Generations /\ stage[active] \in Running
    BY ActiveServes DEF IInv, PlaceInv
  <2>2. \A g \in draining : g \in Generations /\ stage[g] \in Leaving
    BY DrainingStages DEF IInv
  <2>. QED
    BY <2>1, <2>2 DEF Users, Using
<1>2. \A g \in Users : /\ cert[g] # 0 => cert[g] \in certs
                       /\ tickets[g] # 0 => tickets[g] \in services
  BY <1>1 DEF IInv, CertInv, TicketInv, CertUser
<1>3. \A g \in attached : stage[g] = "live" /\ tickets[g] \in services
  <2>1. \A g \in attached : g \in Generations /\ stage[g] = "live" /\ tickets[g] # 0
    BY DEF IInv, AttachInv, TypeOK
  <2>. QED
    BY <2>1 DEF IInv, TicketInv, Using, Running
<1>. QED
  BY <1>2, <1>3 DEF ServicesOutliveUsers

\* No drain, failed reload or stop takes a certificate runtime or a ticket service
\* from a generation that still uses it, though generations share them and the
\* drains stop them outside the gate (runtime.clj, finalize-draining-generation!).
THEOREM NoServiceIsTaken == Spec => []ServicesOutliveUsers
  BY InductiveInvariant, InvServices, PTL

\* A server that has stopped, and no worker of which crashed, has no claim left.
LEMMA StoppedReleases == IInv => StopReleasesListeners
<1>. SUFFICES ASSUME IInv, phase = "stopped", crashed = {}
              PROVE  ~notifier /\ \A k \in Keys : pool[k] = NoEntry /\ handles[k] = {}
  BY DEF StopReleasesListeners
<1>1. TypeOK /\ PlaceInv /\ StageInv /\ FreshInv /\ ClaimInv /\ PoolInv
  BY DEF IInv
<1>2. pc = "stopped" /\ active = 0 /\ draining = {} /\ next \in Int
  <2>1. pc = "stopped"
    BY <1>1 DEF PlaceInv, TypeOK, BuildPcs, RetirePcs, StopPcs
  <2>. QED
    BY <1>1, <2>1 DEF PlaceInv, TypeOK, EndPcs
<1>3. failed = {} /\ ~notifier
  BY <1>1 DEF ClaimInv
<1>4. \A g \in Generations : stage[g] \in {"none"} \cup Left
  BY <1>1, <1>2 DEF StageInv, Stages, Candidate, Serving, RetirePcs, Generations
<1>5. \A g \in Generations : claims[g] = {} /\ stage[g] # "close"
  BY <1>1, <1>3, <1>4 DEF FreshInv, ClaimInv, Left
<1>6. \A k \in Keys : pool[k] = NoEntry
  BY <1>1, <1>5, ClaimedEntry DEF Claimants
<1>7. \A k \in Keys : handles[k] = {}
  <2>. SUFFICES ASSUME NEW k \in Keys, NEW r \in handles[k] PROVE FALSE
    OBVIOUS
  <2>1. r \in Generations /\ pool[k].resource = 0
    BY <1>1, <1>6 DEF NoEntry, TypeOK
  <2>. QED
    BY <1>1, <1>5, <2>1 DEF PoolInv, Generations
<1>. QED
  BY <1>3, <1>6, <1>7

LEMMA InvSound == IInv => LifecycleSound
<1>. SUFFICES ASSUME IInv PROVE LifecycleSound
  OBVIOUS
<1>1. ClaimsCounted
  BY DEF IInv, ClaimInv, ClaimsCounted, Claimants
<1>2. CertStoppedOnce
  <2>. SUFFICES ASSUME NEW g \in Generations PROVE certStops[g] <= 1
    BY DEF CertStoppedOnce
  <2>1. certStops[g] \in Nat /\ certStops[g] <= IF g \in certs THEN 0 ELSE 1
    BY DEF IInv, TypeOK, CertInv
  <2>. QED
    BY <2>1
<1>. QED
  BY <1>1, <1>2, StoppedReleases DEF IInv, LifecycleSound

\* Nothing is stopped twice, closed under a user or left open: certificate
\* runtimes, listeners and the notifier (runtime.clj, stop-on-lifecycle! and
\* finalize-draining-generation!; listen.clj, release!).
THEOREM LifecycleIsSound == Spec => []LifecycleSound
  BY InductiveInvariant, InvSound, PTL

=============================================================================
