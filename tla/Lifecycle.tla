----------------------------- MODULE Lifecycle -----------------------------
(***************************************************************************)
(* Reload and stop of a running server (runtime.clj), with the parts of a  *)
(* generation's life they depend on (generation.clj) and the listener pool *)
(* (listen.clj).  The lifecycle executor runs one reload or stop at a time *)
(* under lifecycle-gate; every superseded generation drains on a thread of *)
(* its own and takes the gate only to leave the runtime's state.           *)
(*                                                                         *)
(* Generations are numbered as in the code; number 1 has been started.  A  *)
(* certificate runtime, a ticket service and the socket behind a pool      *)
(* entry are named by the generation that made them; 0 is none.            *)
(***************************************************************************)
EXTENDS Integers, FiniteSets

CONSTANTS MaxGenerations,   \* bound on the generations that get published
          Configs,          \* snapshots: keys listened on, managed plan, ticket policy
          Keys,             \* listener keys
          UnixKeys,         \* those that name a socket in the file system
          none,             \* no managed plan, or no in-memory tickets
          MayCrash          \* a worker may crash

ASSUME LifecycleAssumption ==
  /\ MaxGenerations \in Nat \ {0} /\ UnixKeys \subseteq Keys /\ MayCrash \in BOOLEAN
  /\ \A c \in Configs : c.keys \subseteq Keys

Generations == 1..MaxGenerations

VARIABLES
  phase, active, draining, service, next,       \* :busker/state
  config, cert, tickets, claims, stage,         \* of each generation
  pool,                                         \* entries of the listener pool, by key
  handles, linked,                              \* sockets open, and the one an address leads to
  closing,                                      \* of each generation: the socket it is to close
  certs, certStops, services,                   \* running, and how often stopped
  attached,                                     \* generations whose ticket keys are rotated
  notifier,
  crashed, failed,                              \* a worker died; stop! threw
  decided,                                      \* what a draining generation is to stop
  pc, retiring, awaited, captured               \* of the lifecycle executor

stateVars == <<phase, active, draining, service, next>>
genVars == <<config, cert, tickets, claims, stage>>
poolVars == <<pool, handles, linked, closing>>
serviceVars == <<certs, certStops, services, attached, notifier>>
drainVars == <<crashed, failed, decided>>
execVars == <<pc, retiring, awaited, captured>>
vars == <<stateVars, genVars, poolVars, serviceVars, drainVars, execVars>>

Entry == [resource : Generations, count : 1..(MaxGenerations + 1)]
NoEntry == [resource |-> 0, count |-> 0]

TypeOK ==
  /\ phase \in {"running", "stopping", "stopped"}
  /\ active \in 0..MaxGenerations /\ draining \subseteq Generations
  /\ service \in 0..MaxGenerations /\ next \in 1..(MaxGenerations + 1)
  /\ config \in [Generations -> Configs]
  /\ cert \in [Generations -> 0..MaxGenerations] /\ tickets \in [Generations -> 0..MaxGenerations]
  /\ claims \in [Generations -> SUBSET Keys]
  /\ stage \in [Generations -> {"none", "building", "live", "stopping", "quiet", "draining",
                                "release", "close", "released", "failed", "stopCert",
                                "stopTickets", "done"}]
  /\ pool \in [Keys -> Entry \cup {NoEntry}]
  /\ handles \in [Keys -> SUBSET Generations] /\ linked \in [Keys -> 0..MaxGenerations]
  /\ closing \in [Generations -> (Keys \X Generations) \cup {<<>>}]
  /\ certs \subseteq Generations /\ services \subseteq Generations
  /\ certStops \in [Generations -> Nat] /\ attached \subseteq Generations
  /\ notifier \in BOOLEAN /\ crashed \subseteq Generations /\ failed \subseteq Generations
  /\ decided \in [Generations -> SUBSET {"cert", "tickets"}]
  /\ pc \in {"idle", "cert", "tickets", "claims", "register", "publish", "beginStop",
             "awaitAccept", "cleanup", "giveUp", "awaitDrains", "stopCerts", "stopTickets",
             "stopEnd", "stopped", "stopFailed"}
  /\ retiring \in 0..MaxGenerations /\ awaited \subseteq Generations
  /\ captured \in 0..MaxGenerations

Has(c, what) == c[what] # none

\* start! has published the first generation.
Init == \E c \in Configs :
  /\ phase = "running" /\ active = 1 /\ draining = {} /\ next = 2
  /\ service = IF Has(c, "policy") THEN 1 ELSE 0
  /\ config = [g \in Generations |-> c]
  /\ cert = [g \in Generations |-> IF g = 1 /\ Has(c, "plan") THEN 1 ELSE 0]
  /\ tickets = [g \in Generations |-> IF g = 1 THEN service ELSE 0]
  /\ claims = [g \in Generations |-> IF g = 1 THEN c.keys ELSE {}]
  /\ stage = [g \in Generations |-> IF g = 1 THEN "live" ELSE "none"]
  /\ pool = [k \in Keys |-> IF k \in c.keys THEN [resource |-> 1, count |-> 1] ELSE NoEntry]
  /\ handles = [k \in Keys |-> IF k \in c.keys THEN {1} ELSE {}]
  /\ linked = [k \in Keys |-> IF k \in c.keys THEN 1 ELSE 0]
  /\ closing = [g \in Generations |-> <<>>]
  /\ certs = {cert[1]} \ {0} /\ services = {service} \ {0} /\ attached = services
  /\ certStops = [g \in Generations |-> 0] /\ notifier = TRUE
  /\ crashed = {} /\ failed = {} /\ decided = [g \in Generations |-> {}]
  /\ pc = "idle" /\ retiring = 0 /\ awaited = {} /\ captured = 0

-----------------------------------------------------------------------------
At(from, to) == pc = from /\ pc' = to
Set(f, g, v) == [f EXCEPT ![g] = v]

(* reload-on-lifecycle!: build-generation!                                 *)

\* A snapshot equal to the active one is built only when forced; a config that
\* does not compile changes nothing.
Reload ==
  /\ At("idle", "cert") /\ phase = "running" /\ next <= MaxGenerations
  /\ \E c \in Configs : config' = Set(config, next, c)
  /\ stage' = Set(stage, next, "building")
  /\ UNCHANGED <<stateVars, cert, tickets, claims, poolVars, serviceVars, drainVars, retiring,
                 awaited, captured>>

Plan == config[next].plan
Policy == config[next].policy
SameRuntime == cert[active] # 0 /\ config[cert[active]].plan = Plan
SameService == service # 0 /\ config[service].policy = Policy

AcquireCert ==
  LET r == IF Plan = none THEN 0 ELSE IF SameRuntime THEN cert[active] ELSE next IN
  /\ At("cert", "tickets")
  /\ cert' = Set(cert, next, r)
  /\ certs' = certs \cup ({r} \ {0})
  /\ certStops' = IF r = next THEN Set(certStops, next, 0) ELSE certStops
  /\ UNCHANGED <<stateVars, config, tickets, claims, stage, poolVars, services, attached,
                 notifier, drainVars, retiring, awaited, captured>>

AcquireCertFails ==
  /\ At("cert", "giveUp")
  /\ Plan # none /\ ~SameRuntime
  /\ UNCHANGED <<stateVars, genVars, poolVars, serviceVars, drainVars, retiring, awaited,
                 captured>>

AcquireTickets ==
  LET s == IF Policy = none THEN 0 ELSE IF SameService THEN service ELSE next IN
  /\ At("tickets", "claims")
  /\ tickets' = Set(tickets, next, s)
  /\ services' = services \cup ({s} \ {0})
  /\ UNCHANGED <<stateVars, config, cert, claims, stage, poolVars, certs, certStops, attached,
                 notifier, drainVars, retiring, awaited, captured>>

AcquireTicketsFails ==
  /\ At("tickets", "giveUp")
  /\ Policy # none /\ ~SameService
  /\ UNCHANGED <<stateVars, genVars, poolVars, serviceVars, drainVars, retiring, awaited,
                 captured>>

\* Mutant: a claim on an entry that exists is not counted.
AcquireUncounted(k) ==
  /\ pc = "claims" /\ k \in config[next].keys \ claims[next]
  /\ claims' = Set(claims, next, claims[next] \cup {k})
  /\ IF pool[k] # NoEntry
     THEN UNCHANGED <<pool, handles, linked>>
     ELSE /\ pool' = Set(pool, k, [resource |-> next, count |-> 1])
          /\ handles' = Set(handles, k, handles[k] \cup {next})
          /\ linked' = Set(linked, k, next)
  /\ UNCHANGED <<stateVars, config, cert, tickets, stage, closing, serviceVars, drainVars,
                 execVars>>

\* acquire-claim, under the pool's lock: a new entry opens its socket there, and
\* a Unix path that exists is unlinked first.
AcquireClaim(k) ==
  /\ pc = "claims" /\ k \in config[next].keys \ claims[next]
  /\ claims' = Set(claims, next, claims[next] \cup {k})
  /\ IF pool[k] # NoEntry
     THEN /\ pool' = [pool EXCEPT ![k].count = @ + 1]
          /\ UNCHANGED <<handles, linked>>
     ELSE /\ pool' = Set(pool, k, [resource |-> next, count |-> 1])
          /\ handles' = Set(handles, k, handles[k] \cup {next})
          /\ linked' = Set(linked, k, next)
  /\ UNCHANGED <<stateVars, config, cert, tickets, stage, closing, serviceVars, drainVars,
                 execVars>>

\* A socket that cannot be opened, or a native context, a TLS context or a worker
\* that cannot be made: what the candidate has is stopped and released.
StartFails ==
  /\ At("claims", "cleanup")
  /\ stage' = Set(stage, next, "release")
  /\ UNCHANGED <<stateVars, config, cert, tickets, claims, poolVars, serviceVars, drainVars,
                 retiring, awaited, captured>>

Started ==
  /\ At("claims", "register")
  /\ claims[next] = config[next].keys
  /\ stage' = Set(stage, next, "live")
  /\ UNCHANGED <<stateVars, config, cert, tickets, claims, poolVars, serviceVars, drainVars,
                 retiring, awaited, captured>>

\* register-shared-ticket-manager!
Register ==
  /\ At("register", "publish")
  /\ attached' = IF tickets[next] = 0 THEN attached ELSE attached \cup {next}
  /\ UNCHANGED <<stateVars, genVars, poolVars, certs, certStops, services, notifier, drainVars,
                 retiring, awaited, captured>>

\* cleanup-unpublished-generation! stops the candidate, which detaches it.
RegisterFails ==
  /\ At("register", "cleanup")
  /\ tickets[next] # 0
  /\ stage' = Set(stage, next, "release")
  /\ UNCHANGED <<stateVars, config, cert, tickets, claims, poolVars, serviceVars, drainVars,
                 retiring, awaited, captured>>

CleanedUp ==
  /\ At("cleanup", "giveUp")
  /\ stage[next] = "released"
  /\ UNCHANGED <<stateVars, genVars, poolVars, serviceVars, drainVars, retiring, awaited,
                 captured>>

\* Services the candidate made for itself are stopped; shared ones go on.
GiveUp ==
  /\ At("giveUp", "idle")
  /\ certs' = certs \ {next} /\ services' = services \ {next}
  /\ cert' = Set(cert, next, 0) /\ tickets' = Set(tickets, next, 0)
  /\ stage' = Set(stage, next, "none")
  /\ certStops' = IF next \in certs THEN Set(certStops, next, certStops[next] + 1) ELSE certStops
  /\ UNCHANGED <<stateVars, config, claims, poolVars, attached, notifier, drainVars, retiring,
                 awaited, captured>>

-----------------------------------------------------------------------------
(* The second half of a reload, and the first of a stop: begin-drain!.     *)

Publish ==
  /\ At("publish", "beginStop")
  /\ active' = next /\ next' = next + 1 /\ service' = tickets[next]
  /\ retiring' = active
  /\ UNCHANGED <<phase, draining, genVars, poolVars, serviceVars, drainVars, awaited, captured>>

Stop ==
  /\ At("idle", "beginStop")
  /\ retiring' = active
  /\ UNCHANGED <<stateVars, genVars, poolVars, serviceVars, drainVars, awaited, captured>>

\* Mutant: the workers are not told.
BeginStopSilently ==
  /\ At("beginStop", "awaitAccept")
  /\ attached' = attached \ {retiring}
  /\ UNCHANGED <<stateVars, genVars, poolVars, certs, certStops, services, notifier, drainVars,
                 retiring, awaited, captured>>

\* begin-stop!
BeginStop ==
  /\ At("beginStop", "awaitAccept")
  /\ stage' = Set(stage, retiring, "stopping")
  /\ attached' = attached \ {retiring}
  /\ UNCHANGED <<stateVars, config, cert, tickets, claims, poolVars, certs, certStops, services,
                 notifier, drainVars, retiring, awaited, captured>>

\* Every worker has closed its listeners; the last one delivers the promise.
WorkersStopAccepting(g) ==
  /\ stage[g] = "stopping" /\ g \notin crashed
  /\ stage' = Set(stage, g, "quiet")
  /\ UNCHANGED <<stateVars, config, cert, tickets, claims, poolVars, serviceVars, drainVars,
                 execVars>>

\* await-stop-accepting! returns, the drain gets its thread, and the runtime's state
\* lists it; a stop takes the active generation along and remembers whom to await.
BeginDrain ==
  /\ pc = "awaitAccept" /\ stage[retiring] = "quiet"
  /\ stage' = Set(stage, retiring, "draining")
  /\ draining' = draining \cup {retiring}
  /\ IF retiring = active
     THEN /\ pc' = "awaitDrains" /\ phase' = "stopping" /\ active' = 0
          /\ awaited' = draining' /\ captured' = service
     ELSE /\ pc' = "idle"
          /\ UNCHANGED <<phase, active, awaited, captured>>
  /\ UNCHANGED <<service, next, config, cert, tickets, claims, poolVars, serviceVars, drainVars,
                 retiring>>

-----------------------------------------------------------------------------
(* A generation's stop!, on its drain thread or, for a candidate that      *)
(* failed, on the executor.                                                *)

\* Requests, workers and native state are gone: the claims are left.
Drained(g) ==
  /\ stage[g] = "draining" /\ g \notin crashed
  /\ stage' = Set(stage, g, "release")
  /\ UNCHANGED <<stateVars, config, cert, tickets, claims, poolVars, serviceVars, drainVars,
                 execVars>>

\* request-wakeup-receiver-retirement! throws for a worker that is not there.
DrainThrows(g) ==
  /\ stage[g] = "draining" /\ g \in crashed
  /\ stage' = Set(stage, g, "failed") /\ failed' = failed \cup {g}
  /\ UNCHANGED <<stateVars, config, cert, tickets, claims, poolVars, serviceVars, crashed,
                 decided, execVars>>

\* Mutant: the socket is closed with the first claim that is released.
ReleaseCloses(g, k) ==
  /\ stage[g] = "release" /\ k \in claims[g]
  /\ claims' = Set(claims, g, claims[g] \ {k})
  /\ pool' = IF pool[k].count > 1 THEN [pool EXCEPT ![k].count = @ - 1]
             ELSE Set(pool, k, NoEntry)
  /\ closing' = Set(closing, g, <<k, pool[k].resource>>)
  /\ stage' = Set(stage, g, "close")
  /\ UNCHANGED <<stateVars, config, cert, tickets, handles, linked, serviceVars, drainVars,
                 execVars>>

\* release!: the last claim takes the entry out under the lock, and the socket is
\* closed after the lock is given back.
Release(g, k) ==
  /\ stage[g] = "release" /\ k \in claims[g]
  /\ claims' = Set(claims, g, claims[g] \ {k})
  /\ IF pool[k].count > 1
     THEN /\ pool' = [pool EXCEPT ![k].count = @ - 1]
          /\ UNCHANGED <<closing, stage>>
     ELSE /\ pool' = Set(pool, k, NoEntry)
          /\ closing' = Set(closing, g, <<k, pool[k].resource>>)
          /\ stage' = Set(stage, g, "close")
  /\ UNCHANGED <<stateVars, config, cert, tickets, handles, linked, serviceVars, drainVars,
                 execVars>>

\* close-resource!: a Unix path is unlinked whichever socket it names.
CloseResource(g) ==
  /\ stage[g] = "close"
  /\ LET k == closing[g][1]  r == closing[g][2] IN
     /\ handles' = Set(handles, k, handles[k] \ {r})
     /\ linked' = IF k \in UnixKeys \/ linked[k] = r THEN Set(linked, k, 0) ELSE linked
  /\ closing' = Set(closing, g, <<>>)
  /\ stage' = Set(stage, g, "release")
  /\ UNCHANGED <<stateVars, config, cert, tickets, claims, pool, serviceVars, drainVars,
                 execVars>>

Released(g) ==
  /\ stage[g] = "release" /\ claims[g] = {}
  /\ stage' = Set(stage, g, "released")
  /\ UNCHANGED <<stateVars, config, cert, tickets, claims, poolVars, serviceVars, drainVars,
                 execVars>>

-----------------------------------------------------------------------------
(* finalize-draining-generation!                                           *)

\* A reload holds the gate throughout, a stop while it begins and when it ends.
GateFree == pc \in {"idle", "awaitDrains", "stopCerts", "stopTickets", "stopEnd", "stopped",
                    "stopFailed"}

InUse(which, left) == {which[h] : h \in ({active} \ {0}) \cup left}

Leaves(g, stops) ==
  /\ g < next /\ stage[g] \in {"released", "failed"} /\ GateFree
  /\ draining' = draining \ {g}
  /\ decided' = Set(decided, g, stops)
  /\ service' = IF "tickets" \in stops /\ tickets[g] = service THEN 0 ELSE service
  /\ stage' = Set(stage, g, "stopCert")
  /\ UNCHANGED <<phase, active, next, config, cert, tickets, claims, poolVars, serviceVars,
                 crashed, failed, execVars>>

StopsTickets(g) == tickets[g] # 0 /\ tickets[g] \notin InUse(tickets, draining \ {g})
StopsCert(g) ==
  phase = "running" /\ cert[g] # 0 /\ cert[g] \notin InUse(cert, draining \ {g})

Decision(c, t) == (IF c THEN {"cert"} ELSE {}) \cup (IF t THEN {"tickets"} ELSE {})

\* Mutant: other users are not asked.
FinalizeUnasked(g) == Leaves(g, Decision(phase = "running" /\ cert[g] # 0, StopsTickets(g)))

Finalize(g) == Leaves(g, Decision(StopsCert(g), StopsTickets(g)))

\* Outside the gate.
StopCert(g) ==
  /\ stage[g] = "stopCert"
  /\ IF "cert" \in decided[g]
     THEN certs' = certs \ {cert[g]} /\ certStops' = [certStops EXCEPT ![cert[g]] = @ + 1]
     ELSE UNCHANGED <<certs, certStops>>
  /\ stage' = Set(stage, g, "stopTickets")
  /\ UNCHANGED <<stateVars, config, cert, tickets, claims, poolVars, services, attached,
                 notifier, drainVars, execVars>>

StopTickets(g) ==
  /\ stage[g] = "stopTickets"
  /\ services' = IF "tickets" \in decided[g] THEN services \ {tickets[g]} ELSE services
  /\ stage' = Set(stage, g, "done")
  /\ UNCHANGED <<stateVars, config, cert, tickets, claims, poolVars, certs, certStops, attached,
                 notifier, drainVars, execVars>>

-----------------------------------------------------------------------------
(* The rest of stop-on-lifecycle!.                                         *)

AwaitDrains ==
  /\ At("awaitDrains", "stopCerts")
  /\ \A g \in awaited : stage[g] = "done" /\ g \notin failed
  /\ UNCHANGED <<stateVars, genVars, poolVars, serviceVars, drainVars, retiring, awaited,
                 captured>>

\* await-drain! throws what the drain threw, and stop! ends there.
AwaitThrows ==
  /\ At("awaitDrains", "stopFailed")
  /\ \E g \in awaited \cap failed : \A h \in awaited : h <= g => stage[h] = "done"
  /\ UNCHANGED <<stateVars, genVars, poolVars, serviceVars, drainVars, retiring, awaited,
                 captured>>

StopCerts ==
  LET theirs == {cert[g] : g \in awaited} IN
  /\ At("stopCerts", "stopTickets")
  /\ certs' = certs \ theirs
  /\ certStops' = [g \in Generations |-> certStops[g] + IF g \in theirs THEN 1 ELSE 0]
  /\ UNCHANGED <<stateVars, genVars, poolVars, services, attached, notifier, drainVars,
                 retiring, awaited, captured>>

StopService ==
  /\ At("stopTickets", "stopEnd")
  /\ services' = services \ {captured}
  /\ UNCHANGED <<stateVars, genVars, poolVars, certs, certStops, attached, notifier, drainVars,
                 retiring, awaited, captured>>

StopEnd ==
  /\ At("stopEnd", "stopped")
  /\ notifier' = FALSE
  /\ phase' = "stopped" /\ service' = 0 /\ draining' = {}
  /\ UNCHANGED <<active, next, genVars, poolVars, certs, certStops, services, attached,
                 drainVars, retiring, awaited, captured>>

-----------------------------------------------------------------------------
\* An event loop of a published generation ends with an exception (evloop.clj); one
\* is enough.
WorkerCrashes(g) ==
  /\ MayCrash /\ crashed = {} /\ g < next /\ stage[g] \in {"live", "stopping", "quiet", "draining"}
  /\ crashed' = {g}
  /\ UNCHANGED <<stateVars, genVars, poolVars, serviceVars, failed, decided, execVars>>

Executor ==
  \/ AcquireCert \/ AcquireCertFails \/ AcquireTickets \/ AcquireTicketsFails
  \/ (\E k \in Keys : AcquireClaim(k)) \/ StartFails \/ Started \/ Register \/ RegisterFails
  \/ CleanedUp \/ GiveUp \/ Publish \/ BeginStop \/ BeginDrain
  \/ AwaitDrains \/ AwaitThrows \/ StopCerts \/ StopService \/ StopEnd

Generation(g) ==
  \/ WorkersStopAccepting(g) \/ Drained(g) \/ DrainThrows(g)
  \/ (\E k \in Keys : Release(g, k)) \/ CloseResource(g) \/ Released(g)
  \/ Finalize(g) \/ StopCert(g) \/ StopTickets(g)

Next == \/ Reload \/ Stop \/ Executor
        \/ \E g \in Generations : Generation(g) \/ WorkerCrashes(g)

Spec == Init /\ [][Next]_vars

\* The executor and every drain go on while they can (drains end: the request
\* executor is shut down by force after its timeout); nobody has to call reload
\* or stop.
FairSpec == Spec /\ WF_vars(Executor) /\ \A g \in Generations : WF_vars(Generation(g))

-----------------------------------------------------------------------------
(* Properties.                                                             *)

Users == ({active} \ {0}) \cup draining

\* While the server runs, the generation that reload or start published serves: it
\* has not been told to stop, its sockets are open and its addresses lead to them,
\* whatever reload fails next to it and whatever drains behind it.  A Unix path is
\* the exception: an older generation may still unlink it (CloseResource).
ServesWhileRunning == phase = "running" /\ ~(pc = "awaitAccept" /\ retiring = active) =>
  /\ stage[active] = "live" /\ claims[active] = config[active].keys
  /\ \A k \in claims[active] : /\ pool[k].resource \in handles[k]
                               /\ k \notin UnixKeys => linked[k] = pool[k].resource

\* No drain, failed reload or stop takes a certificate runtime or a ticket service
\* from a generation that still uses it, though generations share them.
ServicesOutliveUsers ==
  /\ \A g \in Users : /\ cert[g] # 0 => cert[g] \in certs
                      /\ tickets[g] # 0 => tickets[g] \in services
  /\ \A g \in attached : stage[g] = "live" /\ tickets[g] \in services

\* The drains and the stop of the server do not both stop a certificate runtime.
CertStoppedOnce == \A g \in Generations : certStops[g] <= 1

\* A claim is counted once, so the last release, and no other, closes the socket.
ClaimsCounted == \A k \in Keys :
  pool[k].count = Cardinality({g \in Generations : k \in claims[g]})

\* stop! returns with every listener closed and the notifier stopped, whatever was
\* draining or had failed before; a worker that crashed is another matter.
StopReleasesListeners == phase = "stopped" /\ crashed = {} =>
  ~notifier /\ \A k \in Keys : pool[k] = NoEntry /\ handles[k] = {}

\* Nothing is stopped twice, closed under a user or left open: certificate
\* runtimes, listeners and the notifier (runtime.clj, stop-on-lifecycle! and
\* finalize-draining-generation!; listen.clj, release!).
LifecycleSound == TypeOK /\ ClaimsCounted /\ CertStoppedOnce /\ StopReleasesListeners

\* Unless a worker crashed, a reload or a stop that was begun ends.
LifecycleEnds == pc # "idle" ~> (pc \in {"idle", "stopped"} \/ crashed # {})

=============================================================================
