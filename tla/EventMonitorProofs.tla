-------------------------- MODULE EventMonitorProofs --------------------------
(***************************************************************************)
(* The event monitor's safety for every set of keys and requests, every    *)
(* chain and every number of workers of one entry: proof by one inductive  *)
(* invariant, IInv.                                                        *)
(***************************************************************************)
EXTENDS EventMonitor, TLAPS

-----------------------------------------------------------------------------
(* The inductive invariant.                                                *)

(* Whatever refers to an entry refers to one that was created.             *)
CreatedInv ==
  /\ \A k \in Keys : registry[k] < nextEntry /\ snap[k] < nextEntry
  /\ \A r \in Requests : rentry[r] < nextEntry
  /\ \A r \in Requests : reg[r] = "store" => rentry[r] # None
  /\ \A w \in WorkerIds : wpc[w] # "none" => EntryOf(w) < nextEntry

(* An entry that left the registry has its context cancelled.              *)
KeptInv ==
  \A e \in EntryIds :
    e < nextEntry => e \in cancelled \/ \E k \in Keys : registry[k] = e

(* A poll and LastBlock stay within the chain.                             *)
RangeInv ==
  /\ \A e \in EntryIds : lastBlock[e] <= head
  /\ \A w \in WorkerIds : wpc[w] = "poll" =>
       1 <= from[w] /\ from[w] <= cur[w] /\ cur[w] <= head

(* NoSilentGap for a poll under way: what it has left behind was handed    *)
(* over, is lost, or will be when LastBlock passes it.                     *)
PollInv ==
  \A w \in WorkerIds, r \in Requests :
    (wpc[w] = "poll" /\ r \in subs[EntryOf(w)]) =>
      \A b \in since[r] + 1 .. from[w] - 1 :
        b \in seen[r] \cup lost[EntryOf(w)] \cup skipped[w]

IInv == TypeOK /\ CreatedInv /\ KeptInv /\ RangeInv /\ PollInv /\ NoSilentGap

(* Entries and workers are numbered from 1, and None is not one of them.   *)
LEMMA Names ==
  /\ None = 0 /\ None \notin EntryIds
  /\ \A e \in EntryIds : e \in Nat /\ e >= 1 /\ e <= MaxEntries
  /\ \A e \in Nat : e >= 1 /\ e <= MaxEntries => e \in EntryIds
  /\ \A w \in WorkerIds : EntryOf(w) \in EntryIds
  /\ NoWorker \notin WorkerIds
  /\ \A e \in EntryIds, n \in 1 .. MaxWorkers :
       <<e, n>> \in WorkerIds /\ EntryOf(<<e, n>>) = e
BY EventMonitorAssumption DEF None, EntryIds, WorkerIds, NoWorker, EntryOf

(* registry.Unregister only takes away, and cancels an entry it removes.   *)
LEMMA RemoveSubscriberTakes ==
  ASSUME TypeOK, NEW r \in Requests, RemoveSubscriber(r)
  PROVE  /\ registry' \in [Keys -> EntryIds \cup {None}]
         /\ subs' \in [EntryIds -> SUBSET Requests]
         /\ cancelled' \subseteq EntryIds /\ cancelled \subseteq cancelled'
         /\ \A k \in Keys : registry'[k] = registry[k]
                              \/ (registry'[k] = None /\ registry[k] \in cancelled')
         /\ \A e \in EntryIds : subs'[e] \subseteq subs[e]
<1> USE Names, EventMonitorAssumption
<1>1. KeyOf[r] \in Keys /\ registry[KeyOf[r]] \in EntryIds \cup {None}
  BY DEF TypeOK
<1>2. CASE UNCHANGED entryVars
  <2>1. registry' = registry /\ subs' = subs /\ cancelled' = cancelled
    BY ONLY <1>2 DEF entryVars
  <2>2. /\ registry \in [Keys -> EntryIds \cup {None}]
        /\ subs \in [EntryIds -> SUBSET Requests] /\ cancelled \subseteq EntryIds
    BY DEF TypeOK
  <2> QED
    BY ONLY <2>1, <2>2
<1>3. CASE ~ UNCHANGED entryVars
  <2> DEFINE e == registry[KeyOf[r]]
  <2>1. /\ e \in EntryIds
        /\ subs' = [subs EXCEPT ![e] = @ \ {r}]
        /\ registry' = [registry EXCEPT ![KeyOf[r]] = IF subs[e] = {r} THEN None ELSE e]
        /\ cancelled' = IF subs[e] = {r} THEN cancelled \cup {e} ELSE cancelled
    BY <1>1, <1>3 DEF RemoveSubscriber
  <2>2. subs' \in [EntryIds -> SUBSET Requests] /\ \A d \in EntryIds : subs'[d] \subseteq subs[d]
    BY <2>1 DEF TypeOK
  <2>3. cancelled' \subseteq EntryIds /\ cancelled \subseteq cancelled'
    BY <2>1 DEF TypeOK
  <2>4. registry' \in [Keys -> EntryIds \cup {None}]
    BY <1>1, <2>1 DEF TypeOK
  <2>5. ASSUME NEW k \in Keys
        PROVE  registry'[k] = registry[k]
                 \/ (registry'[k] = None /\ registry[k] \in cancelled')
    <3>1. registry \in [Keys -> EntryIds \cup {None}]
      BY DEF TypeOK
    <3>2. CASE k = KeyOf[r]
      BY ONLY <1>1, <2>1, <3>1, <3>2
    <3>3. CASE k # KeyOf[r]
      BY ONLY <1>1, <2>1, <3>1, <3>3
    <3> QED
      BY <3>2, <3>3
  <2> QED
    BY <2>2, <2>3, <2>4, <2>5
<1> QED
  BY <1>2, <1>3

(* A round of pollEvents stays between the blocks the poll began with.     *)
LEMMA ChunkRange ==
  ASSUME TypeOK, RangeInv, NEW w \in WorkerIds, wpc[w] = "poll"
  PROVE  /\ from[w] \in Nat /\ cur[w] \in Nat /\ ToBlock(w) \in Nat
         /\ 1 <= from[w] /\ from[w] <= ToBlock(w)
         /\ ToBlock(w) <= cur[w] /\ cur[w] <= head
         /\ head \in Nat /\ head <= MaxBlock
         /\ Chunk(w) \subseteq Blocks
<1>1. /\ from[w] \in Nat /\ cur[w] \in Nat /\ head \in Nat /\ head <= MaxBlock
      /\ 1 <= from[w] /\ from[w] <= cur[w] /\ cur[w] <= head
  BY EventMonitorAssumption DEF TypeOK, RangeInv
<1>2. ToBlock(w) \in Nat /\ from[w] <= ToBlock(w) /\ ToBlock(w) <= cur[w]
  BY <1>1, EventMonitorAssumption DEF ToBlock
<1> QED
  BY <1>1, <1>2, EventMonitorAssumption DEF Chunk, Blocks

-----------------------------------------------------------------------------
(* A step keeps each part of the invariant.                                *)

(* Every action writes each variable in its range.                         *)
LEMMA TypeOKStep == IInv /\ [Next]_vars => TypeOK'
<1> SUFFICES ASSUME IInv, [Next]_vars PROVE TypeOK'
  OBVIOUS
<1> USE Names, EventMonitorAssumption DEF IInv, TypeOK, CreatedInv, RangeInv, Blocks, Call, Fault,
     entryVars, syncVars,
     handlerVars, startVars, pollVars
<1>1. ASSUME NEW r \in Requests, Register(r) PROVE TypeOK'
  BY <1>1 DEF Register
<1>2. ASSUME NEW r \in Requests, RegisterCheck(r) PROVE TypeOK'
  BY <1>2 DEF RegisterCheck
<1>3. ASSUME NEW r \in Requests, StartWorkerGet(r) PROVE TypeOK'
  <2>1. KeyOf[r] \in Keys /\ registry[KeyOf[r]] \in EntryIds \cup {None}
    OBVIOUS
  <2>2. rentry' \in [Requests -> EntryIds \cup {None}]
    BY <1>3, <2>1 DEF StartWorkerGet
  <2>3. \E c \in {"store", "rollback"} : reg' = [reg EXCEPT ![r] = c]
    BY ONLY <1>3 DEF StartWorkerGet
  <2>4. UNCHANGED <<entryVars, expired, nextEntry, workers, down, syncVars, unreg,
                 uentry, startVars, wstopped, pollVars, head, calls, faults, since>>
    BY <1>3 DEF StartWorkerGet
  <2> QED
    BY <2>2, <2>3, <2>4
<1>4. ASSUME NEW r \in Requests, StartWorkerStore(r) PROVE TypeOK'
  BY <1>4 DEF StartWorkerStore, NewWorkers, Newest
<1>5. ASSUME NEW r \in Requests, RegisterRollback(r) PROVE TypeOK'
  BY <1>5, RemoveSubscriberTakes DEF RegisterRollback
<1>6. ASSUME NEW r \in Requests, Unregister(r) PROVE TypeOK'
  BY <1>6 DEF Unregister
<1>7. ASSUME NEW r \in Requests, UnregisterRemove(r) PROVE TypeOK'
  BY <1>7, RemoveSubscriberTakes DEF UnregisterRemove
<1>8. ASSUME NEW r \in Requests, UnregisterStop(r) PROVE TypeOK'
  BY <1>8 DEF UnregisterStop
<1>9. ASSUME NEW r \in Requests, Expire(r) PROVE TypeOK'
  BY <1>9 DEF Expire
<1>10. ASSUME CleanupExpired PROVE TypeOK'
  BY <1>10 DEF CleanupExpired, AllExpired
<1>11. ASSUME SyncRead PROVE TypeOK'
  BY <1>11 DEF SyncRead
<1>12. ASSUME SyncApply PROVE TypeOK'
  <2>1. /\ wpc' \in [WorkerIds -> {"none", "init", "lookback", "idle", "poll", "done"}]
        /\ wstopped' \subseteq WorkerIds
    BY <1>12 DEF SyncApply, NewWorkers, Leftover
  <2>2. \A k \in Missing : snap[k] \in EntryIds /\ started[snap[k]] + 1 \in 1 .. MaxWorkers
    BY <1>12 DEF SyncApply, NewWorkers, Missing
  <2>3. started' \in [EntryIds -> 0 .. MaxWorkers]
    BY <1>12, <2>2 DEF SyncApply, NewWorkers
  <2>4. \A k \in Missing : Newest(snap[k]) \in WorkerIds
    BY <2>2 DEF Newest
  <2>5. workers' \in [Keys -> WorkerIds \cup {NoWorker}]
    BY <1>12, <2>4 DEF SyncApply
  <2> QED
    BY <1>12, <2>1, <2>3, <2>5 DEF SyncApply
<1>13. ASSUME StopCancel \/ StopWorkers \/ StopWait PROVE TypeOK'
  BY <1>13 DEF StopCancel, StopWorkers, StopWait
<1>14. ASSUME NEW w \in WorkerIds, WorkerStart(w) PROVE TypeOK'
  BY <1>14 DEF WorkerStart
<1>15. ASSUME NEW w \in WorkerIds, WorkerInit(w) PROVE TypeOK'
  <2>1. Window \in 0 .. MaxBlock /\ 1 .. Window \subseteq Blocks
    BY DEF Window
  <2>2. lastBlock' \in [EntryIds -> 0 .. MaxBlock]
    BY <1>15, <2>1 DEF WorkerInit
  <2>3. lost' = [lost EXCEPT ![EntryOf(w)] = lost[EntryOf(w)] \cup 1 .. Window]
        \/ lost' = lost
    BY ONLY <1>15 DEF WorkerInit
  <2>4. faults' \in 0 .. MaxFaults
    BY <1>15 DEF WorkerInit
  <2> QED
    BY <1>15, <2>2, <2>3, <2>4 DEF WorkerInit
<1>16. ASSUME NEW w \in WorkerIds, PollEvents(w) PROVE TypeOK'
  BY <1>16 DEF PollEvents
<1>17. ASSUME NEW w \in WorkerIds, QueryChunk(w) PROVE TypeOK'
  <2>1. /\ wpc[w] = "poll"
        /\ UNCHANGED <<entryVars, expired, nextEntry, workers, down, syncVars,
                       handlerVars, started, wstopped, head, calls, since>>
    BY <1>17 DEF QueryChunk
  <2>2. /\ ToBlock(w) \in 0 .. MaxBlock
        /\ ToBlock(w) # cur[w] => ToBlock(w) + 1 \in 0 .. MaxBlock
    <3>1. /\ ToBlock(w) \in Nat /\ ToBlock(w) <= cur[w] /\ cur[w] <= head
          /\ head <= MaxBlock /\ cur[w] \in Nat /\ head \in Nat
      BY ONLY IInv, <2>1, ChunkRange DEF IInv
    <3> QED
      BY ONLY <3>1, EventMonitorAssumption
  <2>a. Chunk(w) \subseteq Blocks
    BY ONLY IInv, <2>1, ChunkRange DEF IInv
  <2>b. \/ seen' = [r \in Requests |->
                    IF r \in subs[EntryOf(w)] THEN seen[r] \cup Chunk(w) ELSE seen[r]]
        \/ seen' = seen
    BY ONLY <1>17 DEF QueryChunk, Notify
  <2>c. \E s \in {{}, skipped[w] \cup Chunk(w)} : skipped' = [skipped EXCEPT ![w] = s]
    BY ONLY <1>17 DEF QueryChunk
  <2>3. seen' \in [Requests -> SUBSET Blocks]
    BY <2>a, <2>b
  <2>4. skipped' \in [WorkerIds -> SUBSET Blocks]
    BY <2>a, <2>c
  <2>5. lastBlock' \in [EntryIds -> 0 .. MaxBlock]
    BY <1>17, <2>2 DEF QueryChunk
  <2>6. lost' \in [EntryIds -> SUBSET Blocks]
    BY <1>17 DEF QueryChunk
  <2>7. faults' \in 0 .. MaxFaults
    BY <1>17 DEF QueryChunk
  <2>8. /\ from' \in [WorkerIds -> 0 .. MaxBlock]
        /\ cur' \in [WorkerIds -> 0 .. MaxBlock]
        /\ wpc' \in [WorkerIds -> {"none", "init", "lookback", "idle", "poll", "done"}]
    BY <1>17, <2>2 DEF QueryChunk
  <2> QED
    BY <2>1, <2>3, <2>4, <2>5, <2>6, <2>7, <2>8
<1>18. ASSUME NEW w \in WorkerIds, WorkerExit(w) PROVE TypeOK'
  BY <1>18 DEF WorkerExit
<1>19. ASSUME Mine PROVE TypeOK'
  BY <1>19 DEF Mine
<1>20. CASE UNCHANGED vars
  BY <1>20 DEF vars
<1> QED
  BY <1>1, <1>2, <1>3, <1>4, <1>5, <1>6, <1>7, <1>8, <1>9, <1>10, <1>11,
     <1>12, <1>13, <1>14, <1>15, <1>16, <1>17, <1>18, <1>19, <1>20
  DEF Next, RegisterStep, UnregisterStep, SyncStep, StopStep, WorkerStep

(* Entries are numbered as they are created, and copies are made of those. *)
LEMMA CreatedInvStep == IInv /\ [Next]_vars => CreatedInv'
<1> SUFFICES ASSUME IInv, [Next]_vars PROVE CreatedInv'
  OBVIOUS
<1>a. /\ nextEntry \in Nat /\ nextEntry >= 1
      /\ registry \in [Keys -> EntryIds \cup {None}]
      /\ snap \in [Keys -> EntryIds \cup {None}]
      /\ rentry \in [Requests -> EntryIds \cup {None}]
      /\ reg \in [Requests -> {"idle", "check", "start", "store", "rollback"}]
      /\ wpc \in [WorkerIds -> {"none", "init", "lookback", "idle", "poll", "done"}]
      /\ started \in [EntryIds -> 0 .. MaxWorkers]
  BY Names, EventMonitorAssumption DEF IInv, TypeOK
<1> USE <1>a, Names, EventMonitorAssumption DEF IInv, CreatedInv, entryVars, syncVars,
     handlerVars, startVars, pollVars
<1>1. ASSUME NEW r \in Requests, Register(r) PROVE CreatedInv'
  <2>1. nextEntry' \in Nat /\ nextEntry <= nextEntry'
    BY <1>1 DEF Register
  <2>2. \A k \in Keys : registry'[k] < nextEntry'
    BY <1>1, <2>1 DEF Register
  <2>3. /\ UNCHANGED <<snap, rentry, wpc>>
        /\ \A s \in Requests : reg'[s] = "store" => reg[s] = "store"
    BY <1>1 DEF Register
  <2> QED
    BY <2>1, <2>2, <2>3
<1>2. ASSUME NEW r \in Requests, RegisterCheck(r) PROVE CreatedInv'
  BY <1>2 DEF RegisterCheck
<1>3. ASSUME NEW r \in Requests, StartWorkerGet(r) PROVE CreatedInv'
  <2>1. CASE reg' = [reg EXCEPT ![r] = "rollback"] /\ UNCHANGED rentry
    BY <1>3, <2>1 DEF StartWorkerGet
  <2>2. CASE /\ registry[KeyOf[r]] # None
             /\ rentry' = [rentry EXCEPT ![r] = registry[KeyOf[r]]]
    BY <1>3, <2>2 DEF StartWorkerGet
  <2> QED
    BY <1>3, <2>1, <2>2 DEF StartWorkerGet
<1>4. ASSUME NEW r \in Requests, StartWorkerStore(r) PROVE CreatedInv'
  BY <1>4 DEF StartWorkerStore, NewWorkers, Newest
<1>5. ASSUME NEW r \in Requests, RegisterRollback(r) PROVE CreatedInv'
  <2>1. /\ \A k \in Keys : registry'[k] = registry[k] \/ registry'[k] = None
        /\ UNCHANGED <<nextEntry, snap, rentry, wpc>>
        /\ \A s \in Requests : reg'[s] = "store" => reg[s] = "store"
    BY <1>5, RemoveSubscriberTakes DEF RegisterRollback
  <2> QED
    BY <2>1
<1>6. ASSUME NEW r \in Requests, Unregister(r) PROVE CreatedInv'
  BY <1>6 DEF Unregister
<1>7. ASSUME NEW r \in Requests, UnregisterRemove(r) PROVE CreatedInv'
  <2>1. /\ \A k \in Keys : registry'[k] = registry[k] \/ registry'[k] = None
        /\ UNCHANGED <<nextEntry, snap, rentry, wpc>>
        /\ \A s \in Requests : reg'[s] = "store" => reg[s] = "store"
    BY <1>7, RemoveSubscriberTakes DEF UnregisterRemove
  <2> QED
    BY <2>1
<1>8. ASSUME NEW r \in Requests, UnregisterStop(r) PROVE CreatedInv'
  BY <1>8 DEF UnregisterStop
<1>9. ASSUME NEW r \in Requests, Expire(r) PROVE CreatedInv'
  BY <1>9 DEF Expire
<1>10. ASSUME CleanupExpired PROVE CreatedInv'
  BY <1>10 DEF CleanupExpired, AllExpired
<1>11. ASSUME SyncRead PROVE CreatedInv'
  BY <1>11 DEF SyncRead
<1>12. ASSUME SyncApply PROVE CreatedInv'
  BY <1>12 DEF SyncApply, NewWorkers, Newest, Missing, Leftover
<1>13. ASSUME StopCancel \/ StopWorkers \/ StopWait PROVE CreatedInv'
  BY <1>13 DEF StopCancel, StopWorkers, StopWait
<1>14. ASSUME NEW w \in WorkerIds, WorkerStart(w) PROVE CreatedInv'
  BY <1>14 DEF WorkerStart
<1>15. ASSUME NEW w \in WorkerIds, WorkerInit(w) PROVE CreatedInv'
  BY <1>15 DEF WorkerInit, Window
<1>16. ASSUME NEW w \in WorkerIds, PollEvents(w) PROVE CreatedInv'
  BY <1>16 DEF PollEvents
<1>17. ASSUME NEW w \in WorkerIds, QueryChunk(w) PROVE CreatedInv'
  BY <1>17 DEF QueryChunk, Notify, Chunk, ToBlock
<1>18. ASSUME NEW w \in WorkerIds, WorkerExit(w) PROVE CreatedInv'
  BY <1>18 DEF WorkerExit
<1>19. ASSUME Mine PROVE CreatedInv'
  BY <1>19 DEF Mine
<1>20. CASE UNCHANGED vars
  BY <1>20 DEF vars
<1> QED
  BY <1>1, <1>2, <1>3, <1>4, <1>5, <1>6, <1>7, <1>8, <1>9, <1>10, <1>11,
     <1>12, <1>13, <1>14, <1>15, <1>16, <1>17, <1>18, <1>19, <1>20
  DEF Next, RegisterStep, UnregisterStep, SyncStep, StopStep, WorkerStep

(* registry.go:131 and :237: cancelled as it is removed.                   *)
LEMMA KeptInvStep == IInv /\ [Next]_vars => KeptInv'
<1> SUFFICES ASSUME IInv, [Next]_vars PROVE KeptInv'
  OBVIOUS
<1> USE Names, EventMonitorAssumption DEF IInv, TypeOK, CreatedInv, KeptInv, Blocks, Call, Fault,
     entryVars, syncVars,
     handlerVars, startVars, pollVars
<1>1. ASSUME NEW r \in Requests, Register(r) PROVE KeptInv'
  BY <1>1 DEF Register
<1>2. ASSUME NEW r \in Requests, RegisterCheck(r) PROVE KeptInv'
  BY <1>2 DEF RegisterCheck
<1>3. ASSUME NEW r \in Requests, StartWorkerGet(r) PROVE KeptInv'
  BY <1>3 DEF StartWorkerGet
<1>4. ASSUME NEW r \in Requests, StartWorkerStore(r) PROVE KeptInv'
  BY <1>4 DEF StartWorkerStore, NewWorkers, Newest
<1>5. ASSUME NEW r \in Requests, RegisterRollback(r) PROVE KeptInv'
  BY <1>5, RemoveSubscriberTakes DEF RegisterRollback
<1>6. ASSUME NEW r \in Requests, Unregister(r) PROVE KeptInv'
  BY <1>6 DEF Unregister
<1>7. ASSUME NEW r \in Requests, UnregisterRemove(r) PROVE KeptInv'
  BY <1>7, RemoveSubscriberTakes DEF UnregisterRemove
<1>8. ASSUME NEW r \in Requests, UnregisterStop(r) PROVE KeptInv'
  BY <1>8 DEF UnregisterStop
<1>9. ASSUME NEW r \in Requests, Expire(r) PROVE KeptInv'
  BY <1>9 DEF Expire
<1>10. ASSUME CleanupExpired PROVE KeptInv'
  BY <1>10 DEF CleanupExpired, AllExpired
<1>11. ASSUME SyncRead PROVE KeptInv'
  BY <1>11 DEF SyncRead
<1>12. ASSUME SyncApply PROVE KeptInv'
  BY <1>12 DEF SyncApply, NewWorkers, Newest, Missing, Leftover
<1>13. ASSUME StopCancel \/ StopWorkers \/ StopWait PROVE KeptInv'
  BY <1>13 DEF StopCancel, StopWorkers, StopWait
<1>14. ASSUME NEW w \in WorkerIds, WorkerStart(w) PROVE KeptInv'
  BY <1>14 DEF WorkerStart
<1>15. ASSUME NEW w \in WorkerIds, WorkerInit(w) PROVE KeptInv'
  BY <1>15 DEF WorkerInit, Window
<1>16. ASSUME NEW w \in WorkerIds, PollEvents(w) PROVE KeptInv'
  BY <1>16 DEF PollEvents
<1>17. ASSUME NEW w \in WorkerIds, QueryChunk(w) PROVE KeptInv'
  BY <1>17 DEF QueryChunk, Notify, Chunk, ToBlock
<1>18. ASSUME NEW w \in WorkerIds, WorkerExit(w) PROVE KeptInv'
  BY <1>18 DEF WorkerExit
<1>19. ASSUME Mine PROVE KeptInv'
  BY <1>19 DEF Mine
<1>20. CASE UNCHANGED vars
  BY <1>20 DEF vars
<1> QED
  BY <1>1, <1>2, <1>3, <1>4, <1>5, <1>6, <1>7, <1>8, <1>9, <1>10, <1>11,
     <1>12, <1>13, <1>14, <1>15, <1>16, <1>17, <1>18, <1>19, <1>20
  DEF Next, RegisterStep, UnregisterStep, SyncStep, StopStep, WorkerStep

(* The chain does not shrink.                                              *)
LEMMA RangeInvStep == IInv /\ [Next]_vars => RangeInv'
<1> SUFFICES ASSUME IInv, [Next]_vars PROVE RangeInv'
  OBVIOUS
<1>a. /\ head \in Nat /\ lastBlock \in [EntryIds -> 0 .. MaxBlock]
      /\ from \in [WorkerIds -> 0 .. MaxBlock] /\ cur \in [WorkerIds -> 0 .. MaxBlock]
      /\ wpc \in [WorkerIds -> {"none", "init", "lookback", "idle", "poll", "done"}]
      /\ started \in [EntryIds -> 0 .. MaxWorkers]
  BY EventMonitorAssumption DEF IInv, TypeOK
<1> USE <1>a, Names, EventMonitorAssumption DEF IInv, RangeInv, entryVars, syncVars,
     handlerVars, startVars, pollVars
<1>1. ASSUME NEW r \in Requests, Register(r) PROVE RangeInv'
  BY <1>1 DEF Register
<1>2. ASSUME NEW r \in Requests, RegisterCheck(r) PROVE RangeInv'
  BY <1>2 DEF RegisterCheck
<1>3. ASSUME NEW r \in Requests, StartWorkerGet(r) PROVE RangeInv'
  BY <1>3 DEF StartWorkerGet
<1>4. ASSUME NEW r \in Requests, StartWorkerStore(r) PROVE RangeInv'
  BY <1>4 DEF StartWorkerStore, NewWorkers, Newest
<1>5. ASSUME NEW r \in Requests, RegisterRollback(r) PROVE RangeInv'
  BY <1>5, RemoveSubscriberTakes DEF RegisterRollback
<1>6. ASSUME NEW r \in Requests, Unregister(r) PROVE RangeInv'
  BY <1>6 DEF Unregister
<1>7. ASSUME NEW r \in Requests, UnregisterRemove(r) PROVE RangeInv'
  BY <1>7, RemoveSubscriberTakes DEF UnregisterRemove
<1>8. ASSUME NEW r \in Requests, UnregisterStop(r) PROVE RangeInv'
  BY <1>8 DEF UnregisterStop
<1>9. ASSUME NEW r \in Requests, Expire(r) PROVE RangeInv'
  BY <1>9 DEF Expire
<1>10. ASSUME CleanupExpired PROVE RangeInv'
  BY <1>10 DEF CleanupExpired, AllExpired
<1>11. ASSUME SyncRead PROVE RangeInv'
  BY <1>11 DEF SyncRead
<1>12. ASSUME SyncApply PROVE RangeInv'
  BY <1>12 DEF SyncApply, NewWorkers, Newest, Missing, Leftover
<1>13. ASSUME StopCancel \/ StopWorkers \/ StopWait PROVE RangeInv'
  BY <1>13 DEF StopCancel, StopWorkers, StopWait
<1>14. ASSUME NEW w \in WorkerIds, WorkerStart(w) PROVE RangeInv'
  BY <1>14 DEF WorkerStart
<1>15. ASSUME NEW w \in WorkerIds, WorkerInit(w) PROVE RangeInv'
  BY <1>15 DEF WorkerInit, Window
<1>16. ASSUME NEW w \in WorkerIds, PollEvents(w) PROVE RangeInv'
  BY <1>16 DEF PollEvents
<1>17. ASSUME NEW w \in WorkerIds, QueryChunk(w) PROVE RangeInv'
  <2>1. wpc[w] = "poll" /\ head' = head
    BY <1>17 DEF QueryChunk
  <2>a. /\ ToBlock(w) \in Nat /\ 1 <= from[w] /\ from[w] <= ToBlock(w)
        /\ ToBlock(w) <= cur[w] /\ cur[w] <= head
        /\ cur[w] \in Nat /\ head \in Nat
    BY ONLY IInv, <2>1, ChunkRange DEF IInv
  <2>2. \A e \in EntryIds : lastBlock'[e] <= head
    BY <1>17, <2>1, <2>a DEF QueryChunk
  <2>3. \A v \in WorkerIds : v # w =>
          from'[v] = from[v] /\ cur'[v] = cur[v] /\ wpc'[v] = wpc[v]
    BY <1>17 DEF QueryChunk
  <2>4. wpc'[w] = "poll" =>
          ToBlock(w) # cur[w] /\ from'[w] = ToBlock(w) + 1 /\ cur'[w] = cur[w]
    BY <1>17 DEF QueryChunk
  <2>5. wpc'[w] = "poll" => 1 <= from'[w] /\ from'[w] <= cur'[w] /\ cur'[w] <= head
    BY ONLY <2>a, <2>4
  <2> QED
    BY <2>1, <2>2, <2>3, <2>5
<1>18. ASSUME NEW w \in WorkerIds, WorkerExit(w) PROVE RangeInv'
  BY <1>18 DEF WorkerExit
<1>19. ASSUME Mine PROVE RangeInv'
  BY <1>19 DEF Mine
<1>20. CASE UNCHANGED vars
  BY <1>20 DEF vars
<1> QED
  BY <1>1, <1>2, <1>3, <1>4, <1>5, <1>6, <1>7, <1>8, <1>9, <1>10, <1>11,
     <1>12, <1>13, <1>14, <1>15, <1>16, <1>17, <1>18, <1>19, <1>20
  DEF Next, RegisterStep, UnregisterStep, SyncStep, StopStep, WorkerStep

(* A worker asks for one chunk after the other.                            *)
LEMMA PollInvStep == IInv /\ [Next]_vars => PollInv'
<1> SUFFICES ASSUME IInv, [Next]_vars PROVE PollInv'
  OBVIOUS
<1> USE Names, EventMonitorAssumption DEF IInv, TypeOK, RangeInv, PollInv, NoSilentGap, Blocks, Call, Fault,
     entryVars, syncVars,
     handlerVars, startVars, pollVars
<1>1. ASSUME NEW r \in Requests, Register(r) PROVE PollInv'
  BY <1>1 DEF Register
<1>2. ASSUME NEW r \in Requests, RegisterCheck(r) PROVE PollInv'
  BY <1>2 DEF RegisterCheck
<1>3. ASSUME NEW r \in Requests, StartWorkerGet(r) PROVE PollInv'
  BY <1>3 DEF StartWorkerGet
<1>4. ASSUME NEW r \in Requests, StartWorkerStore(r) PROVE PollInv'
  BY <1>4 DEF StartWorkerStore, NewWorkers, Newest
<1>5. ASSUME NEW r \in Requests, RegisterRollback(r) PROVE PollInv'
  BY <1>5, RemoveSubscriberTakes DEF RegisterRollback
<1>6. ASSUME NEW r \in Requests, Unregister(r) PROVE PollInv'
  BY <1>6 DEF Unregister
<1>7. ASSUME NEW r \in Requests, UnregisterRemove(r) PROVE PollInv'
  BY <1>7, RemoveSubscriberTakes DEF UnregisterRemove
<1>8. ASSUME NEW r \in Requests, UnregisterStop(r) PROVE PollInv'
  BY <1>8 DEF UnregisterStop
<1>9. ASSUME NEW r \in Requests, Expire(r) PROVE PollInv'
  BY <1>9 DEF Expire
<1>10. ASSUME CleanupExpired PROVE PollInv'
  BY <1>10 DEF CleanupExpired, AllExpired
<1>11. ASSUME SyncRead PROVE PollInv'
  BY <1>11 DEF SyncRead
<1>12. ASSUME SyncApply PROVE PollInv'
  BY <1>12 DEF SyncApply, NewWorkers, Newest, Missing, Leftover
<1>13. ASSUME StopCancel \/ StopWorkers \/ StopWait PROVE PollInv'
  BY <1>13 DEF StopCancel, StopWorkers, StopWait
<1>14. ASSUME NEW w \in WorkerIds, WorkerStart(w) PROVE PollInv'
  BY <1>14 DEF WorkerStart
<1>15. ASSUME NEW w \in WorkerIds, WorkerInit(w) PROVE PollInv'
  BY <1>15 DEF WorkerInit, Window
<1>16. ASSUME NEW w \in WorkerIds, PollEvents(w) PROVE PollInv'
  BY <1>16 DEF PollEvents
<1>17. ASSUME NEW w \in WorkerIds, QueryChunk(w) PROVE PollInv'
  <2> DEFINE e == EntryOf(w)
  <2>1. /\ e \in EntryIds /\ wpc[w] = "poll"
        /\ UNCHANGED <<subs, since, started, head>>
    BY <1>17 DEF QueryChunk
  <2>2. /\ ToBlock(w) \in Nat /\ from[w] \in Nat /\ 1 <= from[w]
        /\ Chunk(w) = from[w] .. ToBlock(w)
    BY ONLY IInv, <2>1, ChunkRange DEF IInv, Chunk
  <2>3. \/ /\ seen' = [r \in Requests |->
                  IF r \in subs[e] THEN seen[r] \cup Chunk(w) ELSE seen[r]]
           /\ lastBlock' = [lastBlock EXCEPT ![e] = ToBlock(w)]
           /\ lost' = [lost EXCEPT ![e] = lost[e] \cup skipped[w]]
           /\ skipped' = [skipped EXCEPT ![w] = {}]
        \/ /\ skipped' = [skipped EXCEPT ![w] =
                  IF ToBlock(w) = cur[w] THEN {} ELSE skipped[w] \cup Chunk(w)]
           /\ seen' = seen /\ lastBlock' = lastBlock /\ lost' = lost
    BY ONLY <1>17 DEF QueryChunk, Notify
  <2> SUFFICES ASSUME NEW v \in WorkerIds, NEW q \in Requests,
                      wpc'[v] = "poll", q \in subs[EntryOf(v)],
                      NEW b \in since[q] + 1 .. from'[v] - 1
               PROVE  b \in seen'[q] \cup lost'[EntryOf(v)] \cup skipped'[v]
    BY <2>1 DEF PollInv
  <2>4. CASE v # w
    <3>1. from'[v] = from[v] /\ wpc'[v] = wpc[v] /\ skipped'[v] = skipped[v]
      BY <1>17, <2>4 DEF QueryChunk
    <3>2. b \in seen[q] \cup lost[EntryOf(v)] \cup skipped[v]
      BY <3>1
    <3>a. q \in Requests /\ EntryOf(v) \in EntryIds /\ lost \in [EntryIds -> SUBSET Blocks]
      OBVIOUS
    <3>3. seen[q] \subseteq seen'[q]
      BY ONLY <2>3, <3>a
    <3>4. lost[EntryOf(v)] \subseteq lost'[EntryOf(v)]
      BY ONLY <2>1, <2>3, <3>a
    <3> QED
      BY ONLY <3>1, <3>2, <3>3, <3>4
  <2>5. CASE v = w
    <3>1. ToBlock(w) # cur[w] /\ from'[w] = ToBlock(w) + 1
      BY <1>17, <2>5 DEF QueryChunk
    <3>2. CASE b \in Chunk(w)
      BY <2>1, <2>3, <2>5, <3>1, <3>2
    <3>3. CASE b \notin Chunk(w)
      <4>1. since[q] \in Nat
        OBVIOUS
      <4>2. b \in since[q] + 1 .. from[w] - 1
        BY ONLY <2>2, <2>5, <3>1, <3>3, <4>1, b \in since[q] + 1 .. from'[v] - 1
      <4>3. b \in seen[q] \cup lost[e] \cup skipped[w]
        BY <2>1, <2>5, <4>2
      <4> QED
        BY <2>1, <2>3, <2>5, <3>1, <4>3
    <3> QED
      BY <3>2, <3>3
  <2> QED
    BY <2>4, <2>5
<1>18. ASSUME NEW w \in WorkerIds, WorkerExit(w) PROVE PollInv'
  BY <1>18 DEF WorkerExit
<1>19. ASSUME Mine PROVE PollInv'
  BY <1>19 DEF Mine
<1>20. CASE UNCHANGED vars
  BY <1>20 DEF vars
<1> QED
  BY <1>1, <1>2, <1>3, <1>4, <1>5, <1>6, <1>7, <1>8, <1>9, <1>10, <1>11,
     <1>12, <1>13, <1>14, <1>15, <1>16, <1>17, <1>18, <1>19, <1>20
  DEF Next, RegisterStep, UnregisterStep, SyncStep, StopStep, WorkerStep

(* LastBlock moves over what a poll has handed over or given up.           *)
LEMMA NoSilentGapStep == IInv /\ [Next]_vars => NoSilentGap'
<1> SUFFICES ASSUME IInv, [Next]_vars PROVE NoSilentGap'
  OBVIOUS
<1> USE Names, EventMonitorAssumption DEF IInv, TypeOK, RangeInv, PollInv, NoSilentGap, Blocks, Call, Fault,
     entryVars, syncVars,
     handlerVars, startVars, pollVars
<1>1. ASSUME NEW r \in Requests, Register(r) PROVE NoSilentGap'
  BY <1>1 DEF Register
<1>2. ASSUME NEW r \in Requests, RegisterCheck(r) PROVE NoSilentGap'
  BY <1>2 DEF RegisterCheck
<1>3. ASSUME NEW r \in Requests, StartWorkerGet(r) PROVE NoSilentGap'
  BY <1>3 DEF StartWorkerGet
<1>4. ASSUME NEW r \in Requests, StartWorkerStore(r) PROVE NoSilentGap'
  BY <1>4 DEF StartWorkerStore, NewWorkers, Newest
<1>5. ASSUME NEW r \in Requests, RegisterRollback(r) PROVE NoSilentGap'
  BY <1>5, RemoveSubscriberTakes DEF RegisterRollback
<1>6. ASSUME NEW r \in Requests, Unregister(r) PROVE NoSilentGap'
  BY <1>6 DEF Unregister
<1>7. ASSUME NEW r \in Requests, UnregisterRemove(r) PROVE NoSilentGap'
  BY <1>7, RemoveSubscriberTakes DEF UnregisterRemove
<1>8. ASSUME NEW r \in Requests, UnregisterStop(r) PROVE NoSilentGap'
  BY <1>8 DEF UnregisterStop
<1>9. ASSUME NEW r \in Requests, Expire(r) PROVE NoSilentGap'
  BY <1>9 DEF Expire
<1>10. ASSUME CleanupExpired PROVE NoSilentGap'
  BY <1>10 DEF CleanupExpired, AllExpired
<1>11. ASSUME SyncRead PROVE NoSilentGap'
  BY <1>11 DEF SyncRead
<1>12. ASSUME SyncApply PROVE NoSilentGap'
  BY <1>12 DEF SyncApply, NewWorkers, Newest, Missing, Leftover
<1>13. ASSUME StopCancel \/ StopWorkers \/ StopWait PROVE NoSilentGap'
  BY <1>13 DEF StopCancel, StopWorkers, StopWait
<1>14. ASSUME NEW w \in WorkerIds, WorkerStart(w) PROVE NoSilentGap'
  BY <1>14 DEF WorkerStart
<1>15. ASSUME NEW w \in WorkerIds, WorkerInit(w) PROVE NoSilentGap'
  <2>a. UNCHANGED <<subs, since, seen>>
    BY ONLY <1>15 DEF WorkerInit, entryVars
  <2> SUFFICES ASSUME NEW q \in Requests, NEW d \in EntryIds, q \in subs[d],
                      NEW b \in since[q] + 1 .. lastBlock'[d]
               PROVE  b \in seen[q] \cup lost'[d]
    BY <2>a DEF NoSilentGap
  <2>1. EntryOf(w) \in EntryIds /\ Window \in Nat /\ since[q] \in Nat
    BY DEF Window
  <2>2. CASE /\ lastBlock' = [lastBlock EXCEPT ![EntryOf(w)] = Window]
             /\ lost' = [lost EXCEPT ![EntryOf(w)] = @ \cup 1 .. Window]
    <3>1. CASE d = EntryOf(w)
      BY <2>1, <2>2, <3>1
    <3>2. CASE d # EntryOf(w)
      BY <2>1, <2>2, <3>2
    <3> QED
      BY <3>1, <3>2
  <2>3. CASE lastBlock' = [lastBlock EXCEPT ![EntryOf(w)] = 0] /\ lost' = lost
    BY <2>1, <2>3
  <2> QED
    BY ONLY <1>15, <2>2, <2>3 DEF WorkerInit
<1>16. ASSUME NEW w \in WorkerIds, PollEvents(w) PROVE NoSilentGap'
  BY <1>16 DEF PollEvents
<1>17. ASSUME NEW w \in WorkerIds, QueryChunk(w) PROVE NoSilentGap'
  <2> DEFINE e == EntryOf(w)
  <2>1. /\ e \in EntryIds /\ wpc[w] = "poll"
        /\ UNCHANGED <<subs, since, started, head>>
    BY <1>17 DEF QueryChunk
  <2>2. /\ ToBlock(w) \in Nat /\ from[w] \in Nat /\ 1 <= from[w]
        /\ Chunk(w) = from[w] .. ToBlock(w)
    BY ONLY IInv, <2>1, ChunkRange DEF IInv, Chunk
  <2>3. \/ /\ seen' = [r \in Requests |->
                  IF r \in subs[e] THEN seen[r] \cup Chunk(w) ELSE seen[r]]
           /\ lastBlock' = [lastBlock EXCEPT ![e] = ToBlock(w)]
           /\ lost' = [lost EXCEPT ![e] = lost[e] \cup skipped[w]]
           /\ skipped' = [skipped EXCEPT ![w] = {}]
        \/ /\ skipped' = [skipped EXCEPT ![w] =
                  IF ToBlock(w) = cur[w] THEN {} ELSE skipped[w] \cup Chunk(w)]
           /\ seen' = seen /\ lastBlock' = lastBlock /\ lost' = lost
    BY ONLY <1>17 DEF QueryChunk, Notify
  <2> SUFFICES ASSUME NEW q \in Requests, NEW d \in EntryIds, q \in subs[d],
                      NEW b \in since[q] + 1 .. lastBlock'[d]
               PROVE  b \in seen'[q] \cup lost'[d]
    BY <2>1 DEF NoSilentGap
  <2>4. CASE UNCHANGED <<seen, lastBlock, lost>>
    BY <2>4
  <2>5. CASE d # e
    BY <2>1, <2>3, <2>5
  <2>6. CASE d = e /\ b \in Chunk(w) /\ ~ UNCHANGED <<seen, lastBlock, lost>>
    BY <2>1, <2>3, <2>6
  <2>7. CASE d = e /\ b \notin Chunk(w) /\ ~ UNCHANGED <<seen, lastBlock, lost>>
    <3>1. since[q] \in Nat /\ lastBlock'[d] = ToBlock(w)
      BY <2>1, <2>3, <2>7
    <3>2. b \in since[q] + 1 .. from[w] - 1
      BY ONLY <2>2, <2>7, <3>1, b \in since[q] + 1 .. lastBlock'[d]
    <3>3. b \in seen[q] \cup lost[e] \cup skipped[w]
      BY <2>1, <2>7, <3>2
    <3> QED
      BY <2>1, <2>3, <2>7, <3>3
  <2> QED
    BY <2>4, <2>5, <2>6, <2>7
<1>18. ASSUME NEW w \in WorkerIds, WorkerExit(w) PROVE NoSilentGap'
  BY <1>18 DEF WorkerExit
<1>19. ASSUME Mine PROVE NoSilentGap'
  BY <1>19 DEF Mine
<1>20. CASE UNCHANGED vars
  BY <1>20 DEF vars
<1> QED
  BY <1>1, <1>2, <1>3, <1>4, <1>5, <1>6, <1>7, <1>8, <1>9, <1>10, <1>11,
     <1>12, <1>13, <1>14, <1>15, <1>16, <1>17, <1>18, <1>19, <1>20
  DEF Next, RegisterStep, UnregisterStep, SyncStep, StopStep, WorkerStep

-----------------------------------------------------------------------------
(* The theorems.                                                           *)

(* The service starts with no entry and no worker.                         *)
LEMMA InitIInv == Init => IInv
<1> SUFFICES ASSUME Init PROVE IInv
  OBVIOUS
<1> USE Names, EventMonitorAssumption DEF Init
<1>1. TypeOK
  <2>1. /\ head \in 0 .. MaxBlock /\ calls \in 0 .. MaxCalls /\ faults \in 0 .. MaxFaults
        /\ nextEntry \in 1 .. MaxEntries + 1
        /\ 0 \in 0 .. MaxWorkers /\ 0 \in 0 .. MaxBlock
    OBVIOUS
  <2>2. /\ from \in [WorkerIds -> 0 .. MaxBlock] /\ cur \in [WorkerIds -> 0 .. MaxBlock]
        /\ lastBlock \in [EntryIds -> 0 .. MaxBlock]
        /\ since \in [Requests -> 0 .. MaxBlock]
        /\ started \in [EntryIds -> 0 .. MaxWorkers]
    BY <2>1
  <2> QED
    BY <2>1, <2>2 DEF TypeOK
<1>2. CreatedInv
  BY DEF CreatedInv
<1>3. KeptInv
  BY DEF KeptInv
<1>4. RangeInv
  BY DEF RangeInv
<1>5. PollInv
  BY DEF PollInv
<1>6. NoSilentGap
  BY DEF NoSilentGap
<1> QED
  BY <1>1, <1>2, <1>3, <1>4, <1>5, <1>6 DEF IInv

(* IInv is inductive, whatever the handlers, the cleanup, the sync and the *)
(* workers do between each other's critical sections.                      *)
THEOREM Invariant == Spec => []IInv
<1>1. IInv /\ [Next]_vars => IInv'
  BY TypeOKStep, CreatedInvStep, KeptInvStep, RangeInvStep, PollInvStep,
     NoSilentGapStep DEF IInv
<1> QED
  BY InitIInv, <1>1, PTL DEF Spec

(* Every variable keeps to its range; no poll leaves the chain.            *)
THEOREM TypeCorrect == Spec => []TypeOK
<1>1. IInv => TypeOK
  BY DEF IInv
<1> QED
  BY Invariant, <1>1, PTL

(* registry.go:131: however often the worker of a key is overwritten in    *)
(* the map, no worker outlives its entry with its context alive.           *)
THEOREM WorkersServe == Spec => []LiveWorkerServesEntry
<1>1. IInv => LiveWorkerServesEntry
  <2> SUFFICES ASSUME IInv, NEW w \in WorkerIds, Live(w)
               PROVE  \E k \in Keys : registry[k] = EntryOf(w)
    BY DEF LiveWorkerServesEntry
  <2>1. wpc[w] # "none" /\ EntryOf(w) \notin cancelled
    BY DEF Live, Running, Cancelled
  <2>2. EntryOf(w) \in EntryIds /\ EntryOf(w) < nextEntry
    BY <2>1, Names DEF IInv, CreatedInv
  <2> QED
    BY <2>1, <2>2 DEF IInv, KeptInv
<1> QED
  BY Invariant, <1>1, PTL

(* worker.go:106: a subscriber misses no block but those named in lost,    *)
(* for every number of workers on one LastBlock and every failing call.    *)
THEOREM NoGap == Spec => []NoSilentGap
<1>1. IInv => NoSilentGap
  BY DEF IInv
<1> QED
  BY Invariant, <1>1, PTL
===============================================================================
