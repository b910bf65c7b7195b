------------------------------ MODULE TicketKeys ------------------------------
(***************************************************************************)
(* Session ticket keys (tickets.clj): services that share a store, each    *)
(* with a thread that looks at the store now and then, renews the keys in  *)
(* it under the store's lock, and pushes what it finds to the native key   *)
(* managers attached to the service (shim.c), which TLS issues tickets     *)
(* with.  Managers come and go with generations, on threads of their own.  *)
(*                                                                         *)
(* A key is when it was made and by whom.  Time is in units that a thread  *)
(* is held to: at most CheckEvery of them between the ends of its checks.  *)
(***************************************************************************)
EXTENDS Integers, SequencesExt

CONSTANTS Services, Managers,
          Home,        \* the service a manager is attached to
          Lifetime,    \* :lifetime-seconds, a multiple of four as in milliseconds
          MaxKeys,     \* :max-keys
          CheckEvery,  \* rotation-check-interval-ms, its jitter and the check itself
          MaxTime,     \* bound on the clock
          MaxFaults    \* bound on failures of the storage

Free == "free"   \* nobody has the lock

ASSUME TicketAssumption ==
  /\ Free \notin Services /\ Home \in [Managers -> Services]
  /\ Lifetime \in Nat \ {0} /\ Lifetime % 4 = 0
  /\ {MaxKeys, CheckEvery} \subseteq Nat \ {0} /\ {MaxTime, MaxFaults} \subseteq Nat

Missing == [keys |-> <<>>, next |-> -1]   \* nil, and no file in the store
Corrupt == [keys |-> <<>>, next |-> -2]

VARIABLES
  now,
  store, lock, faults,   \* the stored snapshot, its lock, and failures so far
  snapshot,              \* snapshot-atom of each service
  running,               \* running?-atom
  pc,                    \* of the rotation thread, or of create-key-service before
  at, base, winner,      \* its now-ms, current-snapshot and winner
  loaded,                \* whether it could read the store under the lock
  checked,               \* when its last check ended
  natives,               \* native-mgrs-atom
  todo,                  \* what is left of the list that the thread pushes to
  nat, since, seen,      \* where an attachment is, when it began, the keys it read
  nativeKeys             \* the keys of each native manager

storeVars == <<store, lock, faults>>
threadVars == <<snapshot, running, pc, at, base, winner, loaded, checked, todo>>
managerVars == <<natives, nat, since, seen, nativeKeys>>
vars == <<now, storeVars, threadVars, managerVars>>

Times == 0..MaxTime
Keys == [from: Times, by: Services \cup Managers]
Snapshots == [keys: Seq(Keys), next: Nat]

TypeOK ==
  /\ now \in Times /\ lock \in Services \cup {Free} /\ faults \in 0..MaxFaults
  /\ store \in Snapshots \cup {Missing, Corrupt}
  /\ \A s \in Services :
       /\ {snapshot[s], base[s], winner[s]} \subseteq Snapshots \cup {Missing}
       /\ pc[s] \in {"off", "open", "openStore", "sleep", "load", "lock", "reload",
                     "store", "replace", "list", "push", "done"}
       /\ {at[s], checked[s]} \subseteq Times /\ {running[s], loaded[s]} \subseteq BOOLEAN
       /\ todo[s] \subseteq natives[s] \cup {m \in Managers : nat[m] = "detached"}
       /\ natives[s] \subseteq {m \in Managers : Home[m] = s}
  /\ \A m \in Managers :
       /\ nat[m] \in {"none", "added", "read", "attached", "detached"}
       /\ nativeKeys[m] \in Seq(Keys) /\ seen[m] \in Seq(Keys) /\ since[m] \in Times

Init ==
  /\ now = 0
  /\ store = Missing /\ lock = Free /\ faults = 0
  /\ snapshot = [s \in Services |-> Missing] /\ running = [s \in Services |-> FALSE]
  /\ pc = [s \in Services |-> "off"] /\ at = [s \in Services |-> 0]
  /\ base = [s \in Services |-> Missing] /\ winner = [s \in Services |-> Missing]
  /\ loaded = [s \in Services |-> TRUE] /\ checked = [s \in Services |-> 0]
  /\ natives = [s \in Services |-> {}] /\ todo = [s \in Services |-> {}]
  /\ nat = [m \in Managers |-> "none"] /\ since = [m \in Managers |-> 0]
  /\ seen = [m \in Managers |-> <<>>] /\ nativeKeys = [m \in Managers |-> <<>>]

-------------------------------------------------------------------------------
(* The rules of rotation.                                                  *)

NotAfter(k) == k.from + Lifetime - 1
Active(k, t) == k.from <= t /\ t < NotAfter(k)
HasActive(keys, t) == \E i \in DOMAIN keys : Active(keys[i], t)
PruneExpired(keys, t) ==
  LET kept[i \in 0..Len(keys)] ==
        IF i = 0 THEN <<>>
        ELSE IF NotAfter(keys[i]) >= t THEN Append(kept[i - 1], keys[i]) ELSE kept[i - 1]
  IN  kept[Len(keys)]
RetainMax(keys) == SubSeq(keys, 1, IF Len(keys) < MaxKeys THEN Len(keys) ELSE MaxKeys)

NeedsNewKey(keys, t) == keys = <<>> \/ 4 * (t - Head(keys).from) >= Lifetime

NeedsRotation(snap, t) ==
  \/ ~HasActive(PruneExpired(snap.keys, t), t)
  \/ t >= snap.next

RotateKeys(keys, t, s) ==
  LET valid == RetainMax(PruneExpired(keys, t)) IN
  IF NeedsNewKey(valid, t) THEN RetainMax(<<[from |-> t, by |-> s]>> \o valid) ELSE valid

RotateSnapshot(snap, t, s) ==
  LET old == IF snap = Missing THEN <<>> ELSE snap.keys
      new == RotateKeys(old, t, s)
  IN  IF snap # Missing /\ new = old THEN snap
      ELSE [keys |-> new, next |-> t + Lifetime \div 4]

Renewed(snap, t, s) ==
  IF snap = Missing \/ NeedsRotation(snap, t) THEN RotateSnapshot(snap, t, s) ELSE snap

-------------------------------------------------------------------------------
At(s, from, to) == pc[s] = from /\ pc' = [pc EXCEPT ![s] = to]
Fault == faults < MaxFaults /\ faults' = faults + 1
NoFault == UNCHANGED faults
Release(s) == lock = s /\ lock' = Free

\* A check, or the creation of the service, ends, and its locals with it.
Ends(s, from) ==
  /\ At(s, from, "sleep")
  /\ checked' = [checked EXCEPT ![s] = now]
  /\ at' = [at EXCEPT ![s] = 0]
  /\ base' = [base EXCEPT ![s] = Missing] /\ winner' = [winner EXCEPT ![s] = Missing]
  /\ loaded' = [loaded EXCEPT ![s] = TRUE]
GivesUp(s, from) == Ends(s, from) /\ UNCHANGED <<snapshot, running, todo>>

\* create-key-service: initialize-snapshot, under the lock.
Open(s) ==
  /\ At(s, "off", "open") /\ lock = Free /\ lock' = s
  /\ at' = [at EXCEPT ![s] = now]
  /\ UNCHANGED <<now, store, faults, snapshot, running, base, winner, loaded, checked, todo,
                 managerVars>>

\* start-key-service!: the thread starts with a snapshot.
Starts(s, snap, from) ==
  /\ Ends(s, from) /\ Release(s)
  /\ snapshot' = [snapshot EXCEPT ![s] = snap]
  /\ running' = [running EXCEPT ![s] = TRUE]

OpenLoad(s) ==
  LET new == Renewed(store, at[s], s) IN
  /\ store # Corrupt /\ NoFault
  /\ \/ new = store /\ Starts(s, store, "open")
     \/ /\ new # store /\ At(s, "open", "openStore")
        /\ winner' = [winner EXCEPT ![s] = new]
        /\ UNCHANGED <<lock, snapshot, running, at, base, loaded, checked>>
  /\ UNCHANGED <<now, store, todo, managerVars>>

OpenStore(s) ==
  /\ Starts(s, winner[s], "openStore") /\ store' = winner[s]
  /\ UNCHANGED <<now, faults, todo, managerVars>>

\* The store is corrupt, or it fails: the generation is not built.
OpenFails(s) ==
  /\ \/ pc[s] = "open" /\ store = Corrupt /\ NoFault
     \/ pc[s] \in {"open", "openStore"} /\ Fault
  /\ pc' = [pc EXCEPT ![s] = "done"] /\ Release(s)
  /\ UNCHANGED <<now, store, snapshot, running, at, base, winner, loaded, checked, todo,
                 managerVars>>

\* run-rotation-loop: it sleeps, and refresh-snapshot! begins with the time and
\* the snapshot.
Wake(s) ==
  /\ running[s] /\ At(s, "sleep", "load")
  /\ checked[s] < now \/ now = MaxTime
  /\ at' = [at EXCEPT ![s] = now] /\ base' = [base EXCEPT ![s] = snapshot[s]]
  /\ UNCHANGED <<now, storeVars, snapshot, running, winner, loaded, checked, todo, managerVars>>

Load(s) ==
  /\ \/ /\ store \notin {Missing, Corrupt} /\ ~NeedsRotation(store, at[s])
        /\ At(s, "load", "replace") /\ winner' = [winner EXCEPT ![s] = store]
     \/ /\ store \in {Missing, Corrupt} \/ NeedsRotation(store, at[s])
        /\ At(s, "load", "lock") /\ UNCHANGED winner
  /\ UNCHANGED <<now, storeVars, snapshot, running, at, base, loaded, checked, todo, managerVars>>

\* storage-error, or an exception of the lock: the keys stay as they are.
CheckFails(s) ==
  /\ Fault
  /\ \/ GivesUp(s, "load") /\ UNCHANGED lock
     \/ GivesUp(s, "lock") /\ UNCHANGED lock
     \/ GivesUp(s, "store") /\ Release(s)
  /\ UNCHANGED <<now, store, managerVars>>

TakeLock(s) ==
  /\ At(s, "lock", "reload") /\ lock = Free /\ lock' = s
  /\ UNCHANGED <<now, store, faults, snapshot, running, at, base, winner, loaded, checked, todo,
                 managerVars>>

\* Mutant: what was found before the lock was taken is rotated.
ReloadNothing(s) ==
  LET new == RotateSnapshot(base[s], at[s], s) IN
  /\ At(s, "reload", "store") /\ NoFault
  /\ winner' = [winner EXCEPT ![s] = new] /\ loaded' = [loaded EXCEPT ![s] = TRUE]
  /\ UNCHANGED <<now, store, lock, snapshot, running, at, base, checked, todo, managerVars>>

\* Under the lock: what is stored now, or what the service has if that cannot
\* be read.
Reload(s) ==
  \E ok \in BOOLEAN :
    LET old == IF ok THEN store ELSE base[s]
        new == Renewed(old, at[s], s)
    IN
    /\ \/ ok /\ store \notin {Missing, Corrupt} /\ NoFault
       \/ ~ok /\ store \in {Missing, Corrupt} /\ NoFault
       \/ ~ok /\ Fault
    /\ loaded' = [loaded EXCEPT ![s] = ok]
    /\ winner' = [winner EXCEPT ![s] = new]
    /\ \/ ok /\ new = old /\ At(s, "reload", "replace") /\ Release(s)
       \/ (~ok \/ new # old) /\ At(s, "reload", "store") /\ UNCHANGED lock
    /\ UNCHANGED <<now, store, snapshot, running, at, base, checked, todo, managerVars>>

\* Mutant: the winner is not stored.
StoreNothing(s) ==
  /\ At(s, "store", "replace") /\ Release(s)
  /\ UNCHANGED <<now, store, faults, snapshot, running, at, base, winner, loaded, checked, todo,
                 managerVars>>

Store(s) ==
  /\ At(s, "store", "replace") /\ Release(s)
  /\ store' = winner[s]
  /\ UNCHANGED <<now, faults, snapshot, running, at, base, winner, loaded, checked, todo,
                 managerVars>>

\* replace-current-snapshot!, if there is something new.
Replace(s) ==
  /\ IF winner[s] = base[s]
     THEN Ends(s, "replace") /\ UNCHANGED snapshot
     ELSE /\ At(s, "replace", "list") /\ snapshot' = [snapshot EXCEPT ![s] = winner[s]]
          /\ UNCHANGED <<at, base, winner, loaded, checked>>
  /\ UNCHANGED <<now, storeVars, running, todo, managerVars>>

\* sync-service-to-native!: the list is read once.
ReadList(s) ==
  /\ At(s, "list", "push") /\ todo' = [todo EXCEPT ![s] = natives[s]]
  /\ UNCHANGED <<now, storeVars, snapshot, running, at, base, winner, loaded, checked,
                 managerVars>>

\* Mutant: the thread forgets to push.
PushNothing(s) ==
  /\ pc[s] = "push" /\ Ends(s, "push") /\ todo' = [todo EXCEPT ![s] = {}]
  /\ UNCHANGED <<now, storeVars, snapshot, running, managerVars>>

Push(s) ==
  /\ pc[s] = "push"
  /\ \/ \E m \in todo[s] :
          /\ nativeKeys' = [nativeKeys EXCEPT ![m] = snapshot[s].keys]
          /\ todo' = [todo EXCEPT ![s] = @ \ {m}]
          /\ UNCHANGED <<pc, checked, at, base, winner, loaded>>
     \/ todo[s] = {} /\ Ends(s, "push") /\ UNCHANGED <<todo, nativeKeys>>
  /\ UNCHANGED <<now, storeVars, snapshot, running, natives, nat, since, seen>>

-------------------------------------------------------------------------------
(* Native managers.                                                        *)

Manager(m, from, to) == nat[m] = from /\ nat' = [nat EXCEPT ![m] = to]

\* The manager is created with a key of its own and put on the list.
Attach(m) ==
  /\ running[Home[m]] /\ Manager(m, "none", "added")
  /\ natives' = [natives EXCEPT ![Home[m]] = @ \cup {m}]
  /\ nativeKeys' = [nativeKeys EXCEPT ![m] = <<[from |-> now, by |-> m]>>]
  /\ since' = [since EXCEPT ![m] = now]
  /\ UNCHANGED <<now, storeVars, threadVars, seen>>

ReadKeys(m) ==
  /\ Manager(m, "added", "read")
  /\ seen' = [seen EXCEPT ![m] = snapshot[Home[m]].keys]
  /\ UNCHANGED <<now, storeVars, threadVars, natives, since, nativeKeys>>

SetKeys(m) ==
  /\ Manager(m, "read", "attached")
  /\ nativeKeys' = [nativeKeys EXCEPT ![m] = seen[m]]
  /\ seen' = [seen EXCEPT ![m] = <<>>] /\ since' = [since EXCEPT ![m] = 0]
  /\ UNCHANGED <<now, storeVars, threadVars, natives>>

Detach(m) ==
  /\ Manager(m, "attached", "detached")
  /\ natives' = [natives EXCEPT ![Home[m]] = @ \ {m}]
  /\ UNCHANGED <<now, storeVars, threadVars, since, seen, nativeKeys>>

\* stop-key-service!: the flag falls; a sleeping thread is interrupted, and one
\* in a check ends after it.
Stop(s) ==
  /\ running[s] /\ natives[s] = {}
  /\ \A m \in Managers : Home[m] = s => nat[m] = "detached"
  /\ running' = [running EXCEPT ![s] = FALSE]
  /\ UNCHANGED <<now, storeVars, snapshot, pc, at, base, winner, loaded, checked, todo,
                 managerVars>>

ThreadEnds(s) ==
  /\ ~running[s] /\ At(s, "sleep", "done")
  /\ UNCHANGED <<now, storeVars, snapshot, running, at, base, winner, loaded, checked, todo,
                 managerVars>>

\* Somebody else damages or deletes the stored snapshot.
Damage ==
  /\ Fault /\ lock = Free /\ store' \in {Missing, Corrupt}
  /\ UNCHANGED <<now, lock, threadVars, managerVars>>

\* Time, which the threads keep up with.
Tick ==
  /\ now < MaxTime /\ now' = now + 1
  /\ \A s \in Services : pc[s] \notin {"off", "done"} => now - checked[s] < CheckEvery
  /\ \A m \in Managers : nat[m] \in {"added", "read"} => now - since[m] < CheckEvery
  /\ UNCHANGED <<storeVars, threadVars, managerVars>>

Check(s) ==
  \/ Wake(s) \/ Load(s) \/ TakeLock(s) \/ Reload(s) \/ Store(s) \/ Replace(s)
  \/ ReadList(s) \/ Push(s) \/ ThreadEnds(s)
Opening(s) == OpenLoad(s) \/ OpenStore(s) \/ OpenFails(s)

Next ==
  \/ \E s \in Services :
       Open(s) \/ Opening(s) \/ Check(s) \/ CheckFails(s) \/ Stop(s)
  \/ \E m \in Managers : Attach(m) \/ ReadKeys(m) \/ SetKeys(m) \/ Detach(m)
  \/ Damage \/ Tick

Spec == Init /\ [][Next]_vars

-------------------------------------------------------------------------------
KeySeqs == {snapshot[s].keys : s \in {t \in Services : snapshot[t] # Missing}}
           \cup (IF store \in {Missing, Corrupt} THEN {} ELSE {store.keys})

\* "Processes using the same storage can resume sessions from the shared state"
\* (CONTEXT.md): what a service encrypts tickets with, the others find in the
\* store for as long as it is valid, unless the store failed or was damaged.
KeysShared ==
  (faults = 0 /\ MaxKeys >= 4) =>
    \A s \in Services : snapshot[s] # Missing =>
      \A k \in ToSet(snapshot[s].keys) : NotAfter(k) >= now => k \in ToSet(store.keys)

\* Keys are the newest first, no more of them than :max-keys, and the store is
\* written by the holder of its lock only.
KeysSound ==
  /\ TypeOK /\ KeysShared
  /\ \A keys \in KeySeqs :
       /\ Len(keys) \in 1..MaxKeys
       /\ \A i, j \in DOMAIN keys : i < j => keys[i].from > keys[j].from
  /\ \A s \in Services : pc[s] \in {"open", "openStore", "reload", "store"} <=> lock = s

\* With four keys at least, no process that renews the stored keys drops one
\* that has not expired, as long as it could read them: a quarter of a lifetime
\* for each key, and one process at a time (rotate-keys, refresh-snapshot!).
KeysKept ==
  [][MaxKeys >= 4 =>
       \A s \in Services : (Store(s) /\ loaded[s] /\ store \notin {Missing, Corrupt}) =>
         \A k \in ToSet(store.keys) : NotAfter(k) >= at[s] => k \in ToSet(store'.keys)]_vars

\* tickets.clj, rotate-keys: "encryption always has a currently valid key", in
\* every native manager, also when its attachment races with a rotation or the
\* storage fails once, if the checks are frequent enough (CheckEvery).
AlwaysValidKey ==
  \A m \in Managers :
    nat[m] \in {"added", "read", "attached"} => HasActive(nativeKeys[m], now)
===============================================================================
