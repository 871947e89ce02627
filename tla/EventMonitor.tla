----------------------------- MODULE EventMonitor -----------------------------
(***************************************************************************)
(* The event monitor service (internal/eventmonitor).  Schedulers register *)
(* requests for a contract event; requests for the same event share one    *)
(* registry entry, and one worker that polls the chain and hands each log  *)
(* to the entry's subscribers.                                             *)
(*                                                                         *)
(* The registry (under rm.mu) and the service's map of workers (under      *)
(* s.mu) have a lock each, and no operation holds both.  The HTTP handlers *)
(* of Register and Unregister, the cleanup of expired requests (every      *)
(* 30 s), the sync of the workers with the registry (every 5 s), the       *)
(* workers and Stop interleave between their critical sections.            *)
(*                                                                         *)
(* Entries, pointers in the code, are numbered in the order of their       *)
(* creation, and <<e, n>> is the n-th worker made for entry e.  Every      *)
(* block holds one matching log, which every subscriber's filter accepts.  *)
(***************************************************************************)
EXTENDS Integers

CONSTANTS
  Keys,            \* registry keys: chain, contract and event
  Requests,        \* request ids (the schedulers' job ids)
  KeyOf,           \* the event each request asks for
  Supported,       \* keys on a chain the service has a node client for
  LookbackBlocks,  \* blocks a new worker looks back
  MaxBlockRange,   \* blocks per eth_getLogs call
  MaxCalls,        \* bound: calls of Register and Unregister
  MaxEntries,      \* bound: registry entries ever created
  MaxWorkers,      \* bound: workers ever made for one entry
  MaxStops,        \* bound: 1 when the service may be told to stop
  MaxBlock,        \* bound: length of the chain
  MaxFaults        \* bound: node calls that fail

ASSUME EventMonitorAssumption ==
  /\ KeyOf \in [Requests -> Keys]
  /\ Supported \subseteq Keys
  /\ LookbackBlocks \in Nat
  /\ MaxBlockRange \in Nat \ {0}
  /\ MaxCalls \in Nat
  /\ MaxEntries \in Nat
  /\ MaxWorkers \in Nat
  /\ MaxBlock \in Nat /\ MaxBlock > LookbackBlocks
  /\ MaxFaults \in Nat
  /\ MaxStops \in {0, 1}

None == 0
EntryIds == 1 .. MaxEntries
WorkerIds == EntryIds \X (1 .. MaxWorkers)
NoWorker == <<None, 0>>
Blocks == 1 .. MaxBlock

VARIABLES
  \* registry
  registry,      \* the entry of each key, or None
  subs,          \* the subscribers of each entry
  expired,       \* requests whose ExpiresAt has passed
  cancelled,     \* entries whose WorkerCtx is cancelled
  nextEntry,
  \* service
  workers,       \* the worker of each key, or NoWorker
  down,          \* Stop: "no", "stopping", "waiting", "stopped"
  snap,          \* syncWorkers: its copy of the registry
  syncing,
  reg, rentry,   \* Register handlers: where they are, the entry they hold
  unreg, uentry, \* Unregister handlers, the same
  \* workers
  wpc,           \* "none", "init", "lookback", "idle", "poll", "done"
  wstopped,      \* workers stopped on their own (w.cancel)
  started,       \* workers made for each entry
  from, cur,     \* pollEvents: the next block to query, the last
  skipped,       \* pollEvents: blocks of failed chunks
  lastBlock,     \* LastBlock of each entry
  \* chain and history
  head,
  calls,
  faults,
  since,         \* head when a request was subscribed
  seen,          \* blocks whose log was handed to a request's webhook
  lost           \* blocks an entry gave up: before its lookback window, or
                 \* in a chunk that failed and another succeeded after it

entryVars   == <<registry, subs, cancelled>>
syncVars    == <<snap, syncing>>
handlerVars == <<reg, rentry, unreg, uentry>>
startVars   == <<wpc, started>>
pollVars    == <<from, cur, skipped, lastBlock, seen, lost>>
vars == <<entryVars, expired, nextEntry, workers, down, syncVars, handlerVars,
          startVars, wstopped, pollVars, head, calls, faults, since>>

-----------------------------------------------------------------------------
Call == calls < MaxCalls /\ calls' = calls + 1
Fault == faults < MaxFaults /\ faults' = faults + 1

EntryOf(w) == w[1]

(* A worker's context ends with w.Stop, or with the context of its entry.  *)
Cancelled(w) == w \in wstopped \/ EntryOf(w) \in cancelled
Running(w) == wpc[w] \in {"init", "lookback", "idle", "poll"}
Live(w) == Running(w) /\ ~ Cancelled(w)

(* The registry's Unregister; an error, and no effect, when the request is *)
(* not found.  The entry goes with its last subscriber.                    *)
RemoveSubscriber(r) ==
  LET k == KeyOf[r]
      e == registry[k]
  IN  \/ /\ e # None
         /\ r \in subs[e]
         /\ subs' = [subs EXCEPT ![e] = @ \ {r}]
         /\ registry' = [registry EXCEPT ![k] = IF subs[e] = {r} THEN None ELSE e]
         /\ cancelled' = IF subs[e] = {r} THEN cancelled \cup {e} ELSE cancelled
      \/ /\ e # None => r \notin subs[e]
         /\ UNCHANGED entryVars

(* NewWorker and "go w.Start()" for each key of ks.                        *)
NewWorkers(ks, entry) ==
  /\ \A k \in ks : started[entry[k]] < MaxWorkers
  /\ started' = [e \in EntryIds |->
       IF \E k \in ks : entry[k] = e THEN started[e] + 1 ELSE started[e]]
  /\ wpc' = [w \in WorkerIds |->
       IF \E k \in ks : w = <<entry[k], started[entry[k]] + 1>> THEN "init"
                                                                ELSE wpc[w]]

Newest(e) == <<e, started[e] + 1>>

(***************************************************************************)
(* Register: the registry, then the worker.                                *)
(***************************************************************************)

Register(r) ==
  LET k == KeyOf[r]
      e == IF registry[k] = None THEN nextEntry ELSE registry[k]
  IN  /\ reg[r] = "idle"
      /\ down # "stopped"
      /\ Call
      /\ e \in EntryIds
      /\ registry' = [registry EXCEPT ![k] = e]
      /\ nextEntry' = IF registry[k] = None THEN nextEntry + 1 ELSE nextEntry
      /\ subs' = [subs EXCEPT ![e] = @ \cup {r}]
      /\ since' = IF r \in subs[e] THEN since ELSE [since EXCEPT ![r] = head]
      /\ expired' = expired \ {r}
      /\ reg' = [reg EXCEPT ![r] = "check"]
      /\ UNCHANGED <<cancelled, workers, down, syncVars, rentry, unreg, uentry,
                     startVars, wstopped, pollVars, head, faults>>

(* "Check if worker already exists": under s.mu, which is released.        *)
RegisterCheck(r) ==
  /\ reg[r] = "check"
  /\ reg' = [reg EXCEPT ![r] =
       IF workers[KeyOf[r]] = NoWorker THEN "start" ELSE "idle"]
  /\ UNCHANGED <<entryVars, expired, nextEntry, workers, down, syncVars, rentry,
                 unreg, uentry, startVars, wstopped, pollVars, head, calls, faults,
                 since>>

(* startWorker, GetEntry and node client.                                  *)
StartWorkerGet(r) ==
  LET e == registry[KeyOf[r]] IN
  /\ reg[r] = "start"
  /\ \/ /\ e # None /\ KeyOf[r] \in Supported
        /\ rentry' = [rentry EXCEPT ![r] = e]
        /\ reg' = [reg EXCEPT ![r] = "store"]
     \/ /\ e = None \/ KeyOf[r] \notin Supported
        /\ reg' = [reg EXCEPT ![r] = "rollback"]
        /\ UNCHANGED rentry
  /\ UNCHANGED <<entryVars, expired, nextEntry, workers, down, syncVars, unreg,
                 uentry, startVars, wstopped, pollVars, head, calls, faults, since>>

(* startWorker, the rest: whatever worker the key has by now is replaced.  *)
StartWorkerStore(r) ==
  /\ reg[r] = "store"
  /\ NewWorkers({KeyOf[r]}, [k \in Keys |-> rentry[r]])
  /\ workers' = [workers EXCEPT ![KeyOf[r]] = Newest(rentry[r])]
  /\ reg' = [reg EXCEPT ![r] = "idle"]
  /\ rentry' = [rentry EXCEPT ![r] = None]
  /\ UNCHANGED <<entryVars, expired, nextEntry, down, syncVars, unreg, uentry,
                 wstopped, pollVars, head, calls, faults, since>>

(* "Rollback registration".                                                *)
RegisterRollback(r) ==
  /\ reg[r] = "rollback"
  /\ RemoveSubscriber(r)
  /\ reg' = [reg EXCEPT ![r] = "idle"]
  /\ UNCHANGED <<expired, nextEntry, workers, down, syncVars, rentry, unreg,
                 uentry, startVars, wstopped, pollVars, head, calls, faults, since>>

(***************************************************************************)
(* Unregister.                                                             *)
(***************************************************************************)

(* GetEntryByRequestID; an unknown request is refused.                     *)
Unregister(r) ==
  LET e == registry[KeyOf[r]] IN
  /\ unreg[r] = "idle"
  /\ down # "stopped"
  /\ Call
  /\ e # None /\ r \in subs[e]
  /\ uentry' = [uentry EXCEPT ![r] = e]
  /\ unreg' = [unreg EXCEPT ![r] = "remove"]
  /\ UNCHANGED <<entryVars, expired, nextEntry, workers, down, syncVars, reg,
                 rentry, startVars, wstopped, pollVars, head, faults, since>>

(* The registry's Unregister; when the request is gone by now, an error.   *)
UnregisterRemove(r) ==
  LET e == registry[KeyOf[r]]
      found == e # None /\ r \in subs[e]
  IN  /\ unreg[r] = "remove"
      /\ RemoveSubscriber(r)
      /\ unreg' = [unreg EXCEPT ![r] = IF found THEN "stop" ELSE "idle"]
      /\ uentry' = IF found THEN uentry ELSE [uentry EXCEPT ![r] = None]
      /\ UNCHANGED <<expired, nextEntry, workers, down, syncVars, reg, rentry,
                     startVars, wstopped, pollVars, head, calls, faults, since>>

(* The worker of the key, whichever entry it was made for, is stopped when *)
(* the entry the handler looked up has no subscribers.                     *)
UnregisterStop(r) ==
  LET w == workers[KeyOf[r]] IN
  /\ unreg[r] = "stop"
  /\ \/ /\ subs[uentry[r]] = {} /\ w # NoWorker
        /\ wstopped' = wstopped \cup {w}
        /\ workers' = [workers EXCEPT ![KeyOf[r]] = NoWorker]
     \/ /\ subs[uentry[r]] # {} \/ w = NoWorker
        /\ UNCHANGED <<wstopped, workers>>
  /\ unreg' = [unreg EXCEPT ![r] = "idle"]
  /\ uentry' = [uentry EXCEPT ![r] = None]
  /\ UNCHANGED <<entryVars, expired, nextEntry, down, syncVars, reg, rentry,
                 startVars, pollVars, head, calls, faults, since>>

(***************************************************************************)
(* Expiry and the cleanup of the registry.                                 *)
(***************************************************************************)

Expire(r) ==
  /\ r \notin expired
  /\ \E e \in EntryIds : r \in subs[e]
  /\ expired' = expired \cup {r}
  /\ UNCHANGED <<entryVars, nextEntry, workers, down, syncVars, handlerVars,
                 startVars, wstopped, pollVars, head, calls, faults, since>>

(* The entries the cleanup removes.                                        *)
AllExpired == {e \in EntryIds : (\E k \in Keys : registry[k] = e) /\ subs[e] \subseteq expired}

(* A faulty variant: the entry is dropped and its worker left to the sync. *)
CleanupKeepsContext ==
  /\ \E e \in EntryIds : subs[e] \cap expired # {}
  /\ subs' = [e \in EntryIds |-> subs[e] \ expired]
  /\ registry' = [k \in Keys |-> IF registry[k] \in AllExpired THEN None ELSE registry[k]]
  /\ UNCHANGED <<cancelled, expired, nextEntry, workers, down, syncVars,
                 handlerVars, startVars, wstopped, pollVars, head, calls, faults, since>>

(* cleanupExpired: one tick, all of it under rm.mu.                        *)
CleanupExpired ==
  /\ \E e \in EntryIds : subs[e] \cap expired # {}
  /\ subs' = [e \in EntryIds |-> subs[e] \ expired]
  /\ registry' = [k \in Keys |-> IF registry[k] \in AllExpired THEN None ELSE registry[k]]
  /\ cancelled' = cancelled \cup AllExpired
  /\ UNCHANGED <<expired, nextEntry, workers, down, syncVars, handlerVars,
                 startVars, wstopped, pollVars, head, calls, faults, since>>

(***************************************************************************)
(* syncWorkers, and Stop.                                                  *)
(***************************************************************************)

(* GetAllEntries.                                                          *)
SyncRead ==
  /\ ~ syncing
  /\ down = "no"
  /\ syncing' = TRUE
  /\ snap' = registry
  /\ UNCHANGED <<entryVars, expired, nextEntry, workers, down, handlerVars,
                 startVars, wstopped, pollVars, head, calls, faults, since>>

Missing == {k \in Supported : snap[k] # None /\ workers[k] = NoWorker}
Leftover == {k \in Keys : snap[k] = None /\ workers[k] # NoWorker}

(* A faulty variant: the second loop is missing.                           *)
SyncStartsOnly ==
  /\ syncing
  /\ syncing' = FALSE
  /\ snap' = [k \in Keys |-> None]
  /\ NewWorkers(Missing, snap)
  /\ workers' = [k \in Keys |-> IF k \in Missing THEN Newest(snap[k]) ELSE workers[k]]
  /\ UNCHANGED <<entryVars, expired, nextEntry, down, handlerVars, wstopped,
                 pollVars, head, calls, faults, since>>

(* The two loops, under s.mu, over entries that may be gone by now.        *)
SyncApply ==
  /\ syncing
  /\ syncing' = FALSE
  /\ snap' = [k \in Keys |-> None]
  /\ NewWorkers(Missing, snap)
  /\ workers' = [k \in Keys |-> IF k \in Missing THEN Newest(snap[k])
                                ELSE IF k \in Leftover THEN NoWorker ELSE workers[k]]
  /\ wstopped' = wstopped \cup {workers[k] : k \in Leftover}
  /\ UNCHANGED <<entryVars, expired, nextEntry, down, handlerVars, pollVars,
                 head, calls, faults, since>>

(* Stop: s.cancel(), then the workers of the map, under s.mu, then         *)
(* wg.Wait().  The HTTP server is shut down after it.                      *)
StopCancel ==
  /\ down = "no"
  /\ MaxStops = 1
  /\ down' = "stopping"
  /\ UNCHANGED <<entryVars, expired, nextEntry, workers, syncVars, handlerVars,
                 startVars, wstopped, pollVars, head, calls, faults, since>>

StopWorkers ==
  /\ down = "stopping"
  /\ down' = "waiting"
  /\ wstopped' = wstopped \cup {workers[k] : k \in {l \in Keys : workers[l] # NoWorker}}
  /\ workers' = [k \in Keys |-> NoWorker]
  /\ UNCHANGED <<entryVars, expired, nextEntry, syncVars, handlerVars, startVars,
                 pollVars, head, calls, faults, since>>

StopWait ==
  /\ down = "waiting"
  /\ \A w \in WorkerIds : ~ Running(w)
  /\ down' = "stopped"
  /\ UNCHANGED <<entryVars, expired, nextEntry, workers, syncVars, handlerVars,
                 startVars, wstopped, pollVars, head, calls, faults, since>>

(***************************************************************************)
(* Workers.                                                                *)
(***************************************************************************)

Window == IF head > LookbackBlocks THEN head - LookbackBlocks ELSE 0

(* Start, before its loop: LastBlock is initialised once per entry, but it *)
(* is read before eth_blockNumber is called and written after it.  When    *)
(* that call fails it stays 0, and the first poll begins at block 1.       *)
WorkerStart(w) ==
  /\ wpc[w] = "init"
  /\ wpc' = [wpc EXCEPT ![w] = IF lastBlock[EntryOf(w)] = 0 THEN "lookback" ELSE "idle"]
  /\ UNCHANGED <<entryVars, expired, nextEntry, workers, down, syncVars,
                 handlerVars, started, wstopped, pollVars, head, calls, faults,
                 since>>

WorkerInit(w) ==
  LET e == EntryOf(w) IN
  /\ wpc[w] = "lookback"
  /\ wpc' = [wpc EXCEPT ![w] = "idle"]
  /\ \/ /\ lastBlock' = [lastBlock EXCEPT ![e] = Window]
        /\ lost' = [lost EXCEPT ![e] = @ \cup 1 .. Window]
        /\ UNCHANGED faults
     \/ /\ Fault \/ (Cancelled(w) /\ UNCHANGED faults)
        /\ lastBlock' = [lastBlock EXCEPT ![e] = 0]
        /\ UNCHANGED lost
  /\ UNCHANGED <<entryVars, expired, nextEntry, workers, down, syncVars,
                 handlerVars, started, wstopped, from, cur, skipped, seen, head, calls,
                 since>>

(* pollEvents: there are new blocks.  (When eth_blockNumber fails, or there *)
(* are none, nothing changes.)                                             *)
PollEvents(w) ==
  LET e == EntryOf(w) IN
  /\ wpc[w] = "idle"
  /\ ~ Cancelled(w)
  /\ head > lastBlock[e]
  /\ from' = [from EXCEPT ![w] = lastBlock[e] + 1]
  /\ cur' = [cur EXCEPT ![w] = head]
  /\ wpc' = [wpc EXCEPT ![w] = "poll"]
  /\ UNCHANGED <<entryVars, expired, nextEntry, workers, down, syncVars,
                 handlerVars, started, wstopped, skipped, lastBlock, seen, lost,
                 head, calls, faults, since>>

ToBlock(w) ==
  LET end == from[w] + MaxBlockRange - 1 IN IF end > cur[w] THEN cur[w] ELSE end
Chunk(w) == from[w] .. ToBlock(w)

(* The logs of a chunk go to a snapshot of the subscribers.                *)
Notify(e, blocks) ==
  seen' = [r \in Requests |-> IF r \in subs[e] THEN seen[r] \cup blocks ELSE seen[r]]

(* Faulty variants: LastBlock moves past a failed chunk; the loop goes     *)
(* one round too far.                                                      *)
ChunkAlwaysAdvances(w) ==
  LET e == EntryOf(w)
      last == ToBlock(w) = cur[w]
  IN  /\ wpc[w] = "poll"
      /\ \/ Notify(e, Chunk(w)) /\ UNCHANGED faults
         \/ Fault /\ UNCHANGED seen
      /\ lastBlock' = [lastBlock EXCEPT ![e] = ToBlock(w)]
      /\ from' = [from EXCEPT ![w] = IF last THEN 0 ELSE ToBlock(w) + 1]
      /\ cur' = [cur EXCEPT ![w] = IF last THEN 0 ELSE @]
      /\ wpc' = [wpc EXCEPT ![w] = IF last THEN "idle" ELSE "poll"]
      /\ UNCHANGED <<entryVars, expired, nextEntry, workers, down, syncVars,
                     handlerVars, started, wstopped, skipped, lost, head, calls, since>>

(* One round of its loop.  A chunk whose query fails is skipped, and       *)
(* LastBlock passes it when a later one succeeds.                          *)
QueryChunk(w) ==
  LET e == EntryOf(w)
      last == ToBlock(w) = cur[w]
  IN  /\ wpc[w] = "poll"
      /\ \/ /\ Notify(e, Chunk(w))
            /\ lastBlock' = [lastBlock EXCEPT ![e] = ToBlock(w)]
            /\ lost' = [lost EXCEPT ![e] = @ \cup skipped[w]]
            /\ skipped' = [skipped EXCEPT ![w] = {}]
            /\ UNCHANGED faults
         \/ /\ Fault \/ (Cancelled(w) /\ UNCHANGED faults)
            /\ skipped' = [skipped EXCEPT ![w] = IF last THEN {} ELSE @ \cup Chunk(w)]
            /\ UNCHANGED <<seen, lastBlock, lost>>
      /\ from' = [from EXCEPT ![w] = IF last THEN 0 ELSE ToBlock(w) + 1]
      /\ cur' = [cur EXCEPT ![w] = IF last THEN 0 ELSE @]
      /\ wpc' = [wpc EXCEPT ![w] = IF last THEN "idle" ELSE "poll"]
      /\ UNCHANGED <<entryVars, expired, nextEntry, workers, down, syncVars,
                     handlerVars, started, wstopped, head, calls, since>>

WorkerExit(w) ==
  /\ wpc[w] = "idle"
  /\ Cancelled(w)
  /\ wpc' = [wpc EXCEPT ![w] = "done"]
  /\ UNCHANGED <<entryVars, expired, nextEntry, workers, down, syncVars,
                 handlerVars, started, wstopped, pollVars, head, calls, faults, since>>

(* The chain grows.                                                        *)
Mine ==
  /\ head < MaxBlock
  /\ head' = head + 1
  /\ UNCHANGED <<entryVars, expired, nextEntry, workers, down, syncVars,
                 handlerVars, startVars, wstopped, pollVars, calls, faults, since>>

-----------------------------------------------------------------------------
Init ==
  /\ registry = [k \in Keys |-> None]
  /\ subs = [e \in EntryIds |-> {}]
  /\ expired = {}
  /\ cancelled = {}
  /\ nextEntry = 1
  /\ workers = [k \in Keys |-> NoWorker]
  /\ down = "no"
  /\ snap = [k \in Keys |-> None]
  /\ syncing = FALSE
  /\ reg = [r \in Requests |-> "idle"]
  /\ rentry = [r \in Requests |-> None]
  /\ unreg = [r \in Requests |-> "idle"]
  /\ uentry = [r \in Requests |-> None]
  /\ wpc = [w \in WorkerIds |-> "none"]
  /\ wstopped = {}
  /\ started = [e \in EntryIds |-> 0]
  /\ from = [w \in WorkerIds |-> 0]
  /\ cur = [w \in WorkerIds |-> 0]
  /\ skipped = [w \in WorkerIds |-> {}]
  /\ lastBlock = [e \in EntryIds |-> 0]
  /\ head = LookbackBlocks + 1
  /\ calls = 0
  /\ faults = 0
  /\ since = [r \in Requests |-> 0]
  /\ seen = [r \in Requests |-> {}]
  /\ lost = [e \in EntryIds |-> {}]

RegisterStep(r) ==
  RegisterCheck(r) \/ StartWorkerGet(r) \/ StartWorkerStore(r) \/ RegisterRollback(r)
UnregisterStep(r) == UnregisterRemove(r) \/ UnregisterStop(r)
WorkerStep(w) == WorkerStart(w) \/ WorkerInit(w) \/ PollEvents(w) \/ QueryChunk(w) \/ WorkerExit(w)
SyncStep == SyncRead \/ SyncApply
StopStep == StopWorkers \/ StopWait

Next ==
  \/ \E r \in Requests : Register(r) \/ RegisterStep(r)
  \/ \E r \in Requests : Unregister(r) \/ UnregisterStep(r)
  \/ \E r \in Requests : Expire(r)
  \/ CleanupExpired
  \/ SyncStep
  \/ StopCancel \/ StopStep
  \/ \E w \in WorkerIds : WorkerStep(w)
  \/ Mine

Spec == Init /\ [][Next]_vars

(***************************************************************************)
(* Fairness: the tickers of the cleanup, the sync and the workers fire for *)
(* as long as the service runs, and handlers and Stop go on when they can. *)
(* Nothing makes a request come, expire, or the chain grow.                *)
(***************************************************************************)
Fairness ==
  /\ \A r \in Requests : WF_vars(RegisterStep(r)) /\ WF_vars(UnregisterStep(r))
  /\ WF_vars(CleanupExpired)
  /\ WF_vars(SyncStep)
  /\ WF_vars(StopStep)
  /\ \A w \in WorkerIds : WF_vars(WorkerStep(w))

FairSpec == Spec /\ Fairness

-----------------------------------------------------------------------------
TypeOK ==
  /\ registry \in [Keys -> EntryIds \cup {None}]
  /\ subs \in [EntryIds -> SUBSET Requests]
  /\ expired \subseteq Requests
  /\ cancelled \subseteq EntryIds
  /\ nextEntry \in 1 .. MaxEntries + 1
  /\ workers \in [Keys -> WorkerIds \cup {NoWorker}]
  /\ down \in {"no", "stopping", "waiting", "stopped"}
  /\ snap \in [Keys -> EntryIds \cup {None}]
  /\ syncing \in BOOLEAN
  /\ reg \in [Requests -> {"idle", "check", "start", "store", "rollback"}]
  /\ rentry \in [Requests -> EntryIds \cup {None}]
  /\ unreg \in [Requests -> {"idle", "remove", "stop"}]
  /\ uentry \in [Requests -> EntryIds \cup {None}]
  /\ wpc \in [WorkerIds -> {"none", "init", "lookback", "idle", "poll", "done"}]
  /\ wstopped \subseteq WorkerIds
  /\ started \in [EntryIds -> 0 .. MaxWorkers]
  /\ from \in [WorkerIds -> 0 .. MaxBlock]
  /\ cur \in [WorkerIds -> 0 .. MaxBlock]
  /\ skipped \in [WorkerIds -> SUBSET Blocks]
  /\ lastBlock \in [EntryIds -> 0 .. MaxBlock]
  /\ head \in 0 .. MaxBlock
  /\ calls \in 0 .. MaxCalls
  /\ faults \in 0 .. MaxFaults
  /\ since \in [Requests -> 0 .. MaxBlock]
  /\ seen \in [Requests -> SUBSET Blocks]
  /\ lost \in [EntryIds -> SUBSET Blocks]

(* Nothing polls for an entry that left the registry: a worker whose entry *)
(* was removed has had its context cancelled, also one that was overwritten *)
(* in the map of workers and that no Stop will ever reach                  *)
(* (registry.go:131, "stop worker and remove entry").                      *)
LiveWorkerServesEntry ==
  \A w \in WorkerIds : Live(w) => \E k \in Keys : registry[k] = EntryOf(w)

(* No gap: every block an entry has passed since a subscriber came was     *)
(* handed to it, or is one of the named exceptions in lost, whatever the   *)
(* number of workers that poll for the entry and share its LastBlock, and  *)
(* whatever call fails.                                                    *)
NoSilentGap ==
  \A r \in Requests, e \in EntryIds :
    r \in subs[e] => \A b \in since[r] + 1 .. lastBlock[e] : b \in seen[r] \cup lost[e]

(* A worker left over in the map, its entry gone, is removed from it by    *)
(* the next sync (service.go:267, "Stop workers for entries that no longer *)
(* exist"), unless its event is registered again or the service stops.     *)
LeftoverReaped ==
  \A k \in Keys :
    (registry[k] = None /\ workers[k] # NoWorker) ~>
      (registry[k] # None \/ workers[k] = NoWorker \/ down # "no")

-----------------------------------------------------------------------------
(* service.go:132, "Register registers a monitoring request and starts a   *)
(* worker if needed": a request that stays registered on a supported chain *)
(* is polled for in the end, unless the service stops.                     *)
RegisteredIsPolled ==
  \A r \in Requests :
    LET k == KeyOf[r]
        subscribed == registry[k] # None /\ r \in subs[registry[k]]
    IN  (subscribed /\ k \in Supported) ~>
          \/ \E w \in WorkerIds : Live(w) /\ EntryOf(w) = registry[k]
          \/ ~ subscribed
          \/ down # "no"
===============================================================================
