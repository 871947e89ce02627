-------------------------- MODULE TaskMonitorProofs --------------------------
(***************************************************************************)
(* The task monitor: the streams of tasks that it shares with the          *)
(* dispatcher (one inductive invariant, IInv, for every set of tasks and   *)
(* requests and every bound), and its listener on the chain (ListenInv,    *)
(* for every number of blocks, logs and workers).                          *)
(***************************************************************************)
EXTENDS TaskStreams, ChainListener, FiniteSetTheorems, TLAPS

-----------------------------------------------------------------------------
(***************************************************************************)
(* The streams of tasks.                                                   *)
(***************************************************************************)

-----------------------------------------------------------------------------
(* The inductive invariant.                                                *)

(* A message id that a handler or the index holds for task t was handed    *)
(* out by Redis, and if its message exists, it is a message of t.          *)
Names(mid, t) ==
  /\ mid < nextId
  /\ \A e \in Added : e.id = mid => e.task = t

IdsInv ==
  /\ \A e \in Added : e.id < nextId
  /\ \A t \in Tasks : Names(index[t], t) /\ Names(dmid[t], t)
  /\ \A d \in Deliveries : Names(rmid[d], d[1])
  /\ Names(wmid, wtask)

(* Whoever is past the XADD to the failed stream has its copy there.       *)
CopyInv ==
  /\ \A d \in Deliveries : rpc[d] \in {"ack", "unindex", "untrack"} => FailedCopy(d[1])
  /\ wpc \in {"ack", "unindex", "check", "write", "notify"} => FailedCopy(wtask)
  /\ \A t \in wdone : t \in trackLost \/ FailedCopy(t)

(* An error report that reached the streams left a status behind.          *)
StatusInv ==
  \A d \in Deliveries :
    rpc[d] \in {"find", "add", "ack", "unindex", "untrack"} => status[d[1]] # NoStatus

(* How far the dispatcher is tells what it has done.                       *)
Dispatched(t) == sent[t] > 0 /\ Recorded(t)

DispatchInv ==
  \A t \in Tasks :
    /\ dpc[t] = "xadd" => sent[t] > 0
    /\ dpc[t] \in {"index", "timeout"} => Dispatched(t)
    /\ dpc[t] = "finished" /\ ~ IsBatch(Request(t)) => Dispatched(t)

Inv ==
  /\ IdsInv
  /\ CopyInv
  /\ StatusInv
  /\ DispatchInv
  /\ TimeoutCoverage
  /\ FailedCopyHasStatus
  /\ AckedSingleRecorded

IInv == TypeOK /\ Inv

-----------------------------------------------------------------------------
(* What the Redis operators do, in the words of the proofs below.          *)

RedisType ==
  /\ entries \subseteq Entry
  /\ gone \subseteq Entry
  /\ nextId \in 1 .. MaxId + 1
  /\ streamKey \in [Streams -> {"armed", "plain", "absent"}]

(* Only new entries of t were added to stream, with ids of their own.      *)
Landed(stream, t) ==
  /\ nextId' \in Nat /\ nextId' >= nextId
  /\ Added \subseteq Added'
  /\ entries \ entries' \subseteq gone'
  /\ \A e \in entries' \ entries :
       e.stream = stream /\ e.task = t /\ e.id >= nextId /\ e.id < nextId'
  /\ Added' \ Added \subseteq entries'  \ entries

(* Nothing was added, and only messages of t left the dispatched stream    *)
(* without being trimmed.                                                  *)
Removed(t) ==
  /\ nextId' = nextId
  /\ entries' \subseteq entries
  /\ gone' = gone
  /\ \A e \in entries \ entries' : e.stream = "dispatched" /\ e.task = t

(* Nothing was added, and nothing left but by Redis's own doing.           *)
Kept ==
  /\ nextId' = nextId
  /\ entries' \subseteq entries
  /\ Added' = Added

(* XADD keeps the types of Redis's state.                                  *)
LEMMA XAddType ==
  ASSUME NEW stream \in Streams, NEW t \in Tasks, NEW n \in Nat,
         RedisType, XAdd(stream, t, n)
  PROVE  RedisType'
<1>1. nextId + n <= MaxId + 1 /\ nextId' = nextId + n
  BY DEF XAdd
<1>2. nextId' \in 1 .. MaxId + 1
  BY <1>1, BoundsAssumption DEF RedisType
<1>3. PICK old \in SUBSET Of(stream) :
        /\ entries' = (entries \ old) \cup
             {[id |-> i, task |-> t, stream |-> stream] : i \in nextId .. nextId + n - 1}
        /\ gone' = gone \cup old
  BY DEF XAdd
<1>4. \A i \in nextId .. nextId + n - 1 : i \in Ids
  BY <1>1, BoundsAssumption DEF RedisType, Ids
<1>5. entries' \subseteq Entry
  BY <1>3, <1>4 DEF RedisType, Entry
<1>6. gone' \subseteq Entry
  BY <1>3 DEF RedisType, Of
<1>7. streamKey' \in [Streams -> {"armed", "plain", "absent"}]
  BY DEF XAdd, RedisType
<1> QED
  BY <1>2, <1>5, <1>6, <1>7 DEF RedisType

(* XADD only adds new entries of the task it is given.                     *)
LEMMA XAddLands ==
  ASSUME NEW stream \in Streams, NEW t \in Tasks, NEW n \in Nat,
         RedisType, IdsInv, XAdd(stream, t, n)
  PROVE  /\ Landed(stream, t)
         /\ nextId' = nextId + n
         /\ n = 0 => entries' \subseteq entries
         /\ n > 0 => \E e \in Added' : e.task = t /\ e.stream = stream
<1>1. nextId + n <= MaxId + 1 /\ nextId' = nextId + n
  BY DEF XAdd
<1>2. PICK old \in SUBSET Of(stream) :
        /\ entries' = (entries \ old) \cup
             {[id |-> i, task |-> t, stream |-> stream] : i \in nextId .. nextId + n - 1}
        /\ gone' = gone \cup old
  BY DEF XAdd
<1>3. nextId \in Nat /\ n \in Nat
  BY DEF RedisType
<1>4. \A e \in entries' \ entries :
        e.stream = stream /\ e.task = t /\ e.id >= nextId /\ e.id < nextId'
  BY <1>1, <1>2, <1>3
<1>5. Added \subseteq Added' /\ entries \ entries' \subseteq gone'
  BY <1>2 DEF Added, Of
<1>6. Added' \ Added \subseteq entries' \ entries
  BY <1>2 DEF Added, Of
<1>7. n = 0 => entries' \subseteq entries
  BY <1>2, <1>3
<1>8. ASSUME n > 0 PROVE \E e \in Added' : e.task = t /\ e.stream = stream
  <2>1. [id |-> nextId, task |-> t, stream |-> stream] \in entries'
    BY <1>2, <1>3, <1>8
  <2> QED
    BY <2>1 DEF Added
<1> QED
  BY <1>1, <1>3, <1>4, <1>5, <1>6, <1>7, <1>8 DEF Landed

(* The two ways a call of XADD ends: n copies of t are added to stream.    *)
LEMMA XAddCall ==
  ASSUME TypeOK, NEW stream \in Streams, NEW t \in Tasks,
         XAddOk(stream, t) \/ XAddFails(stream, t)
  PROVE  /\ RedisType'
         /\ faults' \in 0 .. MaxFaults
         /\ \E n \in Nat : XAdd(stream, t, n)
         /\ XAddOk(stream, t) => \E n \in Nat \ {0} : XAdd(stream, t, n)
<1>1. RedisType
  BY DEF TypeOK, RedisType
<1>2. \E n \in Nat : XAdd(stream, t, n)
  BY DEF XAddOk, XAddFails
<1>3. faults' \in 0 .. MaxFaults
  BY BoundsAssumption DEF TypeOK, XAddOk, XAddFails, Ok, Fault
<1>4. XAddOk(stream, t) => \E n \in Nat \ {0} : XAdd(stream, t, n)
  BY DEF XAddOk
<1> QED
  BY <1>1, <1>2, <1>3, <1>4, XAddType

(* A delivery is one of a task.                                            *)
LEMMA DeliveryTask == \A d \in Deliveries : d[1] \in Tasks
  BY DEF Deliveries

(* TypeOK is preserved by every step.                                      *)
LEMMA TypeStep == TypeOK /\ [Next]_vars => TypeOK'
<1> SUFFICES ASSUME TypeOK, [Next]_vars PROVE TypeOK'
  OBVIOUS
<1>1. ASSUME NEW R \in Requests, Submit(R) PROVE TypeOK'
  BY <1>1, BoundsAssumption
  DEF TypeOK, Submit, Ok, Fault,
      request, dispatch, redis, lookup, db, report, worker, history
<1>2. ASSUME NEW R \in Requests, SubmitRefused(R) PROVE TypeOK'
  BY <1>2, BoundsAssumption
  DEF TypeOK, SubmitRefused, Ok, Fault,
      request, dispatch, redis, lookup, db, report, worker, history
<1>3. ASSUME NEW R \in Requests, GiveUp(R) PROVE TypeOK'
  BY <1>3, BoundsAssumption
  DEF TypeOK, GiveUp, Ok, Fault,
      request, dispatch, redis, lookup, db, report, worker, history
<1>4. ASSUME NEW R \in Requests, Reply(R) PROVE TypeOK'
  BY <1>4, BoundsAssumption
  DEF TypeOK, Reply, Ok, Fault,
      request, dispatch, redis, lookup, db, report, worker, history
<1>5. ASSUME NEW t \in Tasks, SendTaskToPerformer(t) PROVE TypeOK'
  BY <1>5, BoundsAssumption
  DEF TypeOK, SendTaskToPerformer, AfterError, Ok, Fault,
      request, dispatch, redis, lookup, db, report, worker, history
<1>6. ASSUME NEW t \in Tasks, XAddDispatched(t) PROVE TypeOK'
  <2>1. /\ XAddOk("dispatched", t) \/ XAddFails("dispatched", t)
        /\ "dispatched" \in Streams /\ t \in Tasks
    BY <1>6, DeliveryTask DEF XAddDispatched, Streams, TypeOK
  <2>2. RedisType' /\ faults' \in 0 .. MaxFaults
    BY <2>1, XAddCall
  <2> QED
    BY <1>6, <2>2, BoundsAssumption
    DEF TypeOK, RedisType, XAddDispatched, AfterError, Ids, NoId,
        request, dispatch, redis, lookup, db, report, worker, history
<1>7. ASSUME NEW t \in Tasks, StoreTaskIndex(t) PROVE TypeOK'
  BY <1>7, BoundsAssumption
  DEF TypeOK, StoreTaskIndex, Ok, Fault,
      request, dispatch, redis, lookup, db, report, worker, history
<1>8. ASSUME NEW t \in Tasks, AddTaskToTimeoutTracking(t) PROVE TypeOK'
  BY <1>8, BoundsAssumption
  DEF TypeOK, AddTaskToTimeoutTracking, Ok, Fault,
      request, dispatch, redis, lookup, db, report, worker, history
<1>9. ASSUME NEW t \in Tasks, Elapse(t) PROVE TypeOK'
  BY <1>9, BoundsAssumption
  DEF TypeOK, Elapse, Ok, Fault,
      request, dispatch, redis, lookup, db, report, worker, history
<1>10. ASSUME NEW d \in Deliveries, ReceiveEvent(d) PROVE TypeOK'
  BY <1>10, BoundsAssumption, DeliveryTask
  DEF TypeOK, ReceiveEvent, EventActive, Ok, Fault,
      request, dispatch, redis, lookup, db, report, worker, history
<1>11. ASSUME NEW d \in Deliveries, EventFind(d) PROVE TypeOK'
  BY <1>11, BoundsAssumption, DeliveryTask
  DEF TypeOK, EventFind, EventActive, Ok, Fault,
      request, dispatch, redis, lookup, db, report, worker, history
<1>12. ASSUME NEW d \in Deliveries, EventAdd(d) PROVE TypeOK'
  <2>1. /\ XAddOk("completed", d[1]) \/ XAddFails("completed", d[1])
        /\ "completed" \in Streams /\ d[1] \in Tasks
    BY <1>12, DeliveryTask DEF EventAdd, Streams, TypeOK
  <2>2. RedisType' /\ faults' \in 0 .. MaxFaults
    BY <2>1, XAddCall
  <2> QED
    BY <1>12, <2>2 DEF TypeOK, RedisType, EventAdd, EventActive, request, dispatch, redis, lookup, db, report, worker, history
<1>13. ASSUME NEW d \in Deliveries, UpdateTaskSubmissionData(d) PROVE TypeOK'
  BY <1>13, BoundsAssumption, DeliveryTask
  DEF TypeOK, UpdateTaskSubmissionData, EventActive, Ok, Fault,
      request, dispatch, redis, lookup, db, report, worker, history
<1>14. ASSUME NEW d \in Deliveries, UpdateKeeperPoints(d) PROVE TypeOK'
  BY <1>14, BoundsAssumption, DeliveryTask
  DEF TypeOK, UpdateKeeperPoints, EventActive, Ok, Fault,
      request, dispatch, redis, lookup, db, report, worker, history
<1>15. ASSUME NEW d \in Deliveries, EventNotify(d) PROVE TypeOK'
  BY <1>15, BoundsAssumption, DeliveryTask
  DEF TypeOK, EventNotify, EventActive, Ok, Fault,
      request, dispatch, redis, lookup, db, report, worker, history
<1>16. ASSUME NEW d \in Deliveries, ReceiveReport(d) PROVE TypeOK'
  BY <1>16, BoundsAssumption, DeliveryTask
  DEF TypeOK, ReceiveReport, ReportActive, Ok, Fault,
      request, dispatch, redis, lookup, db, report, worker, history
<1>17. ASSUME NEW d \in Deliveries, ReportCheck(d) PROVE TypeOK'
  BY <1>17, BoundsAssumption, DeliveryTask
  DEF TypeOK, ReportCheck, ReportActive, Ok, Fault,
      request, dispatch, redis, lookup, db, report, worker, history
<1>18. ASSUME NEW d \in Deliveries, ReportWrite(d) PROVE TypeOK'
  BY <1>18, BoundsAssumption, DeliveryTask
  DEF TypeOK, ReportWrite, ReportActive, Ok, Fault,
      request, dispatch, redis, lookup, db, report, worker, history
<1>19. ASSUME NEW d \in Deliveries, ReportFind(d) PROVE TypeOK'
  BY <1>19, BoundsAssumption, DeliveryTask
  DEF TypeOK, ReportFind, ReportActive, Ok, Fault,
      request, dispatch, redis, lookup, db, report, worker, history
<1>20. ASSUME NEW d \in Deliveries, ReportAdd(d) PROVE TypeOK'
  <2>1. /\ XAddOk("failed", d[1]) \/ XAddFails("failed", d[1])
        /\ "failed" \in Streams /\ d[1] \in Tasks
    BY <1>20, DeliveryTask DEF ReportAdd, Streams, TypeOK
  <2>2. RedisType' /\ faults' \in 0 .. MaxFaults
    BY <2>1, XAddCall
  <2> QED
    BY <1>20, <2>2 DEF TypeOK, RedisType, ReportAdd, ReportActive, request, dispatch, redis, lookup, db, report, worker, history
<1>21. ASSUME NEW d \in Deliveries, ReportAck(d) PROVE TypeOK'
  BY <1>21, BoundsAssumption, DeliveryTask
  DEF TypeOK, ReportAck, ReportActive, XDel, Ok, Fault,
      request, dispatch, redis, lookup, db, report, worker, history
<1>22. ASSUME NEW d \in Deliveries, ReportUnindex(d) PROVE TypeOK'
  BY <1>22, BoundsAssumption, DeliveryTask
  DEF TypeOK, ReportUnindex, ReportActive, Ok, Fault,
      request, dispatch, redis, lookup, db, report, worker, history
<1>23. ASSUME NEW d \in Deliveries, ReportUntrack(d) PROVE TypeOK'
  BY <1>23, BoundsAssumption, DeliveryTask
  DEF TypeOK, ReportUntrack, Untrack, ReportActive, Ok, Fault,
      request, dispatch, redis, lookup, db, report, worker, history
<1>24. ASSUME WorkerTick PROVE TypeOK'
  BY <1>24, BoundsAssumption
  DEF TypeOK, WorkerTick, WorkerSteps, Ok, Fault,
      request, dispatch, redis, lookup, db, report, worker, history
<1>25. ASSUME NEW t \in Tasks, WorkerFind(t) PROVE TypeOK'
  BY <1>25, BoundsAssumption
  DEF TypeOK, WorkerFind, WorkerSteps, Ok, Fault,
      request, dispatch, redis, lookup, db, report, worker, history
<1>26. ASSUME WorkerAdd PROVE TypeOK'
  <2>1. /\ XAddOk("failed", wtask) \/ XAddFails("failed", wtask)
        /\ "failed" \in Streams /\ wtask \in Tasks
    BY <1>26, DeliveryTask DEF WorkerAdd, Streams, TypeOK
  <2>2. RedisType' /\ faults' \in 0 .. MaxFaults
    BY <2>1, XAddCall
  <2> QED
    BY <1>26, <2>2 DEF TypeOK, RedisType, WorkerAdd, WorkerSteps, request, dispatch, redis, lookup, db, report, worker, history
<1>27. ASSUME WorkerAck PROVE TypeOK'
  BY <1>27, BoundsAssumption
  DEF TypeOK, WorkerAck, WorkerSteps, XDel, Ok, Fault,
      request, dispatch, redis, lookup, db, report, worker, history
<1>28. ASSUME WorkerUnindex PROVE TypeOK'
  BY <1>28, BoundsAssumption
  DEF TypeOK, WorkerUnindex, WorkerSteps, Ok, Fault,
      request, dispatch, redis, lookup, db, report, worker, history
<1>29. ASSUME WorkerCheck PROVE TypeOK'
  BY <1>29, BoundsAssumption
  DEF TypeOK, WorkerCheck, WorkerSteps, Ok, Fault,
      request, dispatch, redis, lookup, db, report, worker, history
<1>30. ASSUME WorkerWrite PROVE TypeOK'
  BY <1>30, BoundsAssumption
  DEF TypeOK, WorkerWrite, WorkerSteps, Ok, Fault,
      request, dispatch, redis, lookup, db, report, worker, history
<1>31. ASSUME WorkerNotify PROVE TypeOK'
  BY <1>31, BoundsAssumption
  DEF TypeOK, WorkerNotify, WorkerSteps, Ok, Fault,
      request, dispatch, redis, lookup, db, report, worker, history
<1>32. ASSUME WorkerUntrack PROVE TypeOK'
  BY <1>32, BoundsAssumption
  DEF TypeOK, WorkerUntrack, Untrack, WorkerSteps, Ok, Fault,
      request, dispatch, redis, lookup, db, report, worker, history
<1>33. ASSUME NEW s \in Streams, StreamExpires(s) PROVE TypeOK'
  BY <1>33, BoundsAssumption
  DEF TypeOK, StreamExpires, Of, Ok, Fault,
      request, dispatch, redis, lookup, db, report, worker, history
<1>34. ASSUME DispatcherCrash PROVE TypeOK'
  BY <1>34, BoundsAssumption
  DEF TypeOK, DispatcherCrash, Initialize, Ok, Fault,
      request, dispatch, redis, lookup, db, report, worker, history
<1>35. ASSUME MonitorCrash PROVE TypeOK'
  BY <1>35, BoundsAssumption
  DEF TypeOK, MonitorCrash, MonitorStops, Initialize, EventActive, ReportActive, Ok, Fault,
      request, dispatch, redis, lookup, db, report, worker, history
<1>36. ASSUME MonitorOutage PROVE TypeOK'
  BY <1>36, BoundsAssumption
  DEF TypeOK, MonitorOutage, MonitorStops, Initialize, EventActive, ReportActive, Ok, Fault,
      request, dispatch, redis, lookup, db, report, worker, history
<1>98. ASSUME UNCHANGED vars PROVE TypeOK'
  BY <1>98 DEF TypeOK, vars, request, dispatch, redis, lookup, db, report, worker, history
<1> QED
  BY <1>1, <1>2, <1>3, <1>4, <1>5, <1>6, <1>7, <1>8, <1>9, <1>10, <1>11, <1>12, <1>13, <1>14, <1>15, <1>16, <1>17, <1>18, <1>19, <1>20, <1>21, <1>22, <1>23, <1>24, <1>25, <1>26, <1>27, <1>28, <1>29, <1>30, <1>31, <1>32, <1>33, <1>34, <1>35, <1>36, <1>98 DEF Next, SchedulerCall, DispatcherItem, EventStep, ReportStep, TimeoutWorker

-----------------------------------------------------------------------------
(* What a step can do to the streams.                                      *)

RedisStep ==
  \/ Kept
  \/ \E stream \in Streams, t \in Tasks : Landed(stream, t)
  \/ \E t \in Tasks : FailedCopy(t) /\ Removed(t)

(* An acknowledged message is one of the task the handler deals with.      *)
LEMMA XDelRemoves ==
  ASSUME TypeOK, NEW t \in Tasks, NEW mid, Names(mid, t), XDel(mid)
  PROVE  Removed(t)
  BY DEF TypeOK, Names, XDel, Removed, Of, Added

(* Every step keeps the streams, or adds copies of one task, or deletes a  *)
(* dispatched message of a task that has a copy in the failed stream.      *)
LEMMA RedisSteps == TypeOK /\ IdsInv /\ CopyInv /\ [Next]_vars => RedisStep
<1> SUFFICES ASSUME TypeOK, IdsInv, CopyInv, [Next]_vars PROVE RedisStep
  OBVIOUS
<1>1. ASSUME UNCHANGED redis PROVE RedisStep
  BY <1>1 DEF RedisStep, Kept, redis, Added
<1>2. ASSUME UNCHANGED <<entries, gone, nextId>> PROVE RedisStep
  BY <1>2 DEF RedisStep, Kept, Added
<1>3. ASSUME NEW stream \in Streams, NEW t \in Tasks,
             XAddOk(stream, t) \/ XAddFails(stream, t)
      PROVE  RedisStep
  <2>1. PICK n \in Nat : XAdd(stream, t, n)
    BY <1>3, XAddCall
  <2>2. Landed(stream, t)
    BY <2>1, XAddLands DEF TypeOK, RedisType
  <2> QED
    BY <2>2 DEF RedisStep
<1>4. ASSUME NEW s \in Streams, StreamExpires(s) PROVE RedisStep
  BY <1>4 DEF StreamExpires, RedisStep, Kept, Added, Of
<1>5. ASSUME NEW d \in Deliveries, ReportAck(d) PROVE RedisStep
  <2>1. CASE UNCHANGED redis
    BY <2>1, <1>1
  <2>2. CASE XDel(rmid[d])
    <3>1. Removed(d[1])
      BY <2>2, XDelRemoves, DeliveryTask DEF IdsInv
    <3>2. FailedCopy(d[1])
      BY <1>5 DEF ReportAck, CopyInv
    <3> QED
      BY <3>1, <3>2, DeliveryTask DEF RedisStep
  <2> QED
    BY <1>5, <2>1, <2>2 DEF ReportAck
<1>6. ASSUME WorkerAck PROVE RedisStep
  <2>1. CASE UNCHANGED redis
    BY <2>1, <1>1
  <2>2. CASE XDel(wmid)
    <3>1. wtask \in Tasks
      BY DEF TypeOK
    <3>2. Removed(wtask)
      BY <2>2, <3>1, XDelRemoves DEF IdsInv
    <3>3. FailedCopy(wtask)
      BY <1>6 DEF WorkerAck, CopyInv
    <3> QED
      BY <3>1, <3>2, <3>3 DEF RedisStep
  <2> QED
    BY <1>6, <2>1, <2>2 DEF WorkerAck
<1>7. ASSUME NEW R \in Requests, SchedulerCall(R) PROVE RedisStep
  BY <1>7, <1>1 DEF SchedulerCall, Submit, SubmitRefused, GiveUp, Reply
<1>8. ASSUME NEW t \in Tasks, DispatcherItem(t) \/ Elapse(t) PROVE RedisStep
  <2>1. "dispatched" \in Streams
    BY DEF Streams
  <2> QED
    BY <1>8, <1>1, <1>3, <2>1
    DEF DispatcherItem, SendTaskToPerformer, XAddDispatched, StoreTaskIndex,
        AddTaskToTimeoutTracking, Elapse
<1>9. ASSUME NEW d \in Deliveries, ReceiveEvent(d) \/ EventStep(d) PROVE RedisStep
  <2>1. "completed" \in Streams /\ d[1] \in Tasks
    BY DeliveryTask DEF Streams
  <2> QED
    BY <1>9, <1>1, <1>3, <2>1
    DEF ReceiveEvent, EventStep, EventFind, EventAdd, UpdateTaskSubmissionData,
        UpdateKeeperPoints, EventNotify
<1>10. ASSUME NEW d \in Deliveries, ReceiveReport(d) \/ ReportStep(d) PROVE RedisStep
  <2>1. "failed" \in Streams /\ d[1] \in Tasks
    BY DeliveryTask DEF Streams
  <2> QED
    BY <1>10, <1>1, <1>3, <1>5, <2>1
    DEF ReceiveReport, ReportStep, ReportCheck, ReportWrite, ReportFind,
        ReportAdd, ReportUnindex, ReportUntrack, Untrack
<1>11. ASSUME TimeoutWorker PROVE RedisStep
  <2>1. "failed" \in Streams /\ wtask \in Tasks
    BY DEF Streams, TypeOK
  <2> QED
    BY <1>11, <1>1, <1>3, <1>6, <2>1
    DEF TimeoutWorker, WorkerTick, WorkerFind, WorkerAdd, WorkerUnindex,
        WorkerCheck, WorkerWrite, WorkerNotify, WorkerUntrack, Untrack
<1>12. ASSUME DispatcherCrash \/ MonitorCrash \/ MonitorOutage PROVE RedisStep
  BY <1>12, <1>2
  DEF DispatcherCrash, MonitorCrash, MonitorOutage, MonitorStops, Initialize
<1>13. ASSUME UNCHANGED vars PROVE RedisStep
  BY <1>13, <1>1 DEF vars
<1> QED
  BY <1>4, <1>7, <1>8, <1>9, <1>10, <1>11, <1>12, <1>13 DEF Next

(* What no step undoes: copies in the failed stream and records of a task  *)
(* stay, and so does what a message id names; and ids stay below nextId.   *)
Monotone ==
  /\ \A e \in Added' : e.id < nextId'
  /\ \A t \in Tasks : FailedCopy(t) => FailedCopy(t)'
  /\ \A t \in Tasks : Recorded(t) => Recorded(t)'
  /\ \A mid \in Ids \cup {NoId}, t \in Tasks : Names(mid, t) => Names(mid, t)'

LEMMA StepMonotone == TypeOK /\ IdsInv /\ CopyInv /\ [Next]_vars => Monotone
<1> SUFFICES ASSUME TypeOK, IdsInv, CopyInv, RedisStep PROVE Monotone
  BY RedisSteps
<1>1. CASE Kept
  BY <1>1 DEF Monotone, IdsInv, Kept, FailedCopy, Recorded, Names
<1>2. ASSUME NEW stream \in Streams, NEW t \in Tasks, Landed(stream, t) PROVE Monotone
  <2>1. \A e \in Added' : e \in Added \/ (e.task = t /\ e.id >= nextId /\ e.id < nextId')
    BY <1>2 DEF Landed
  <2>2. nextId \in Nat /\ nextId' \in Nat /\ nextId' >= nextId /\ \A e \in Added : e.id \in Nat
    BY <1>2, BoundsAssumption DEF Landed, TypeOK, Added, Entry, Ids
  <2>3. \A e \in Added' : e.id < nextId'
    BY <2>1, <2>2 DEF IdsInv
  <2>4. \A m \in Ids \cup {NoId}, u \in Tasks : Names(m, u) => Names(m, u)'
    BY <2>1, <2>2, BoundsAssumption DEF Names, Ids, NoId
  <2>5. Added \subseteq Added'
    BY <1>2 DEF Landed
  <2> QED
    BY <2>3, <2>4, <2>5 DEF Monotone, FailedCopy, Recorded
<1>3. ASSUME NEW t \in Tasks, FailedCopy(t), Removed(t) PROVE Monotone
  BY <1>3 DEF Monotone, TypeOK, IdsInv, Removed, FailedCopy, Recorded, Names, Added
<1> QED
  BY <1>1, <1>2, <1>3 DEF RedisStep

-----------------------------------------------------------------------------
(* Each part of Inv, in turn.  For each part there is a frame: what a step *)
(* that has nothing to do with the part satisfies.                         *)

LEMMA NoIdNamesNothing == TypeOK' => \A t \in Tasks : Names(NoId, t)'
  BY BoundsAssumption DEF TypeOK, Names, NoId, Added, Entry, Ids

IdsFrame ==
  /\ \A t \in Tasks : index'[t] \in {index[t], NoId} /\ dmid'[t] \in {dmid[t], NoId}
  /\ \A d \in Deliveries : rmid'[d] \in {rmid[d], NoId}
  /\ wmid' = NoId \/ (wmid' = wmid /\ wtask' = wtask)

(* The message ids that are held are those of the right task.              *)
LEMMA IdsStep == IInv /\ TypeOK' /\ Monotone /\ [Next]_vars => IdsInv'
<1> SUFFICES ASSUME TypeOK, TypeOK', IdsInv, CopyInv, Monotone, [Next]_vars PROVE IdsInv'
  BY DEF IInv, Inv
<1>0. \A t \in Tasks : Names(NoId, t)'
  BY NoIdNamesNothing
<1>1. ASSUME IdsFrame PROVE IdsInv'
  <2>1. \A t \in Tasks : index[t] \in Ids \cup {NoId} /\ dmid[t] \in Ids \cup {NoId}
    BY DEF TypeOK
  <2>2. \A d \in Deliveries : rmid[d] \in Ids \cup {NoId}
    BY DEF TypeOK
  <2>3. wmid \in Ids \cup {NoId} /\ wtask \in Tasks /\ wtask' \in Tasks
    BY DEF TypeOK
  <2>4. \A t \in Tasks : Names(index[t], t)' /\ Names(dmid[t], t)'
    BY <1>0, <1>1, <2>1 DEF IdsFrame, IdsInv, Monotone, Names
  <2>5. \A d \in Deliveries : Names(rmid[d], d[1])'
    BY <1>0, <1>1, <2>2, DeliveryTask DEF IdsFrame, IdsInv, Monotone, Names
  <2>6. Names(wmid, wtask)'
    BY <1>0, <1>1, <2>3 DEF IdsFrame, IdsInv, Monotone, Names
  <2> QED
    BY <2>4, <2>5, <2>6 DEF IdsInv, Monotone
<1>2. ASSUME NEW t \in Tasks, XAddDispatched(t) PROVE IdsInv'
  <2>1. CASE UNCHANGED dmid
    BY <1>1, <1>2, <2>1 DEF IdsFrame, XAddDispatched, lookup, report, worker
  <2>2. CASE XAddOk("dispatched", t) /\ dmid' = [dmid EXCEPT ![t] = nextId' - 1]
    <3>1. PICK n \in Nat \ {0} : XAdd("dispatched", t, n)
      BY <2>2, XAddCall DEF Streams
    <3>2. Landed("dispatched", t) /\ nextId' = nextId + n
      BY <3>1, XAddLands DEF Streams, TypeOK, RedisType
    <3>3. PICK m \in Nat : m = nextId' - 1 /\ m >= nextId /\ m < nextId'
      BY <3>2, BoundsAssumption DEF TypeOK
    <3>4. \A e \in Added' : e \in Added \/ e.task = t
      BY <3>2 DEF Landed
    <3>5. \A e \in Added : e.id < nextId /\ e.id \in Nat
      BY BoundsAssumption DEF IdsInv, TypeOK, Added, Entry, Ids
    <3>6. Names(m, t)'
      <4>1. nextId \in Nat
        BY BoundsAssumption DEF TypeOK
      <4> QED
        BY <4>1, <3>3, <3>4, <3>5 DEF Names
    <3>7. /\ \A u \in Tasks : dmid[u] \in Ids \cup {NoId} /\ index[u] \in Ids \cup {NoId}
          /\ \A d \in Deliveries : rmid[d] \in Ids \cup {NoId} /\ d[1] \in Tasks
          /\ wmid \in Ids \cup {NoId} /\ wtask \in Tasks
      BY DeliveryTask DEF TypeOK
    <3>8. \A u \in Tasks : Names(dmid[u], u)' /\ Names(index[u], u)'
      <4>1. \A u \in Tasks : dmid'[u] = IF u = t THEN m ELSE dmid[u]
        BY <2>2, <3>3 DEF TypeOK
      <4>2. index' = index
        BY <1>2 DEF XAddDispatched, lookup
      <4>3. \A u \in Tasks : Names(index[u], u)'
        BY <3>7, <4>2 DEF IdsInv, Monotone, Names
      <4>4. \A u \in Tasks : Names(dmid[u], u)'
        BY <3>6, <3>7, <4>1 DEF IdsInv, Monotone, Names
      <4> QED
        BY <4>3, <4>4
    <3>9. (\A d \in Deliveries : Names(rmid[d], d[1])') /\ Names(wmid, wtask)'
      <4>1. rmid' = rmid /\ wmid' = wmid /\ wtask' = wtask
        BY <1>2 DEF XAddDispatched, report, worker
      <4> QED
        BY <3>7, <4>1 DEF IdsInv, Monotone, Names
    <3> QED
      BY <3>8, <3>9 DEF IdsInv, Monotone
  <2> QED
    BY <1>2, <2>1, <2>2 DEF XAddDispatched
<1>3. ASSUME NEW t \in Tasks, StoreTaskIndex(t) PROVE IdsInv'
  BY <1>0, <1>3, DeliveryTask
  DEF IdsInv, Monotone, Names, StoreTaskIndex, TypeOK, report, worker, redis, Added
<1>4. ASSUME NEW d \in Deliveries, ReportFind(d) PROVE IdsInv'
  BY <1>4, DeliveryTask
  DEF IdsInv, Monotone, Names, ReportFind, TypeOK, dispatch, lookup, worker, redis, Added
<1>5. ASSUME NEW t \in Tasks, WorkerFind(t) PROVE IdsInv'
  BY <1>5, DeliveryTask
  DEF IdsInv, Monotone, Names, WorkerFind, TypeOK, dispatch, lookup, report, redis, Added
<1>6. ASSUME NEW R \in Requests, SchedulerCall(R) PROVE IdsFrame
  BY <1>6 DEF IdsFrame, SchedulerCall, Submit, SubmitRefused, GiveUp, Reply,
              dispatch, lookup, report, worker
<1>7. ASSUME NEW t \in Tasks,
             SendTaskToPerformer(t) \/ AddTaskToTimeoutTracking(t) \/ Elapse(t)
      PROVE  IdsFrame
  BY <1>7 DEF IdsFrame, SendTaskToPerformer, AddTaskToTimeoutTracking, Elapse,
              dispatch, lookup, report, worker
<1>8. ASSUME NEW d \in Deliveries, ReceiveEvent(d) \/ EventStep(d) PROVE IdsFrame
  BY <1>8 DEF IdsFrame, ReceiveEvent, EventStep, EventFind, EventAdd,
              UpdateTaskSubmissionData, UpdateKeeperPoints, EventNotify,
              dispatch, lookup, report, worker
<1>9. ASSUME NEW d \in Deliveries,
             \/ ReceiveReport(d) \/ ReportCheck(d) \/ ReportWrite(d) \/ ReportAdd(d)
             \/ ReportAck(d) \/ ReportUnindex(d) \/ ReportUntrack(d)
      PROVE  IdsFrame
  BY <1>9 DEF IdsFrame, ReceiveReport, ReportCheck, ReportWrite, ReportAdd,
              ReportAck, ReportUnindex, ReportUntrack, Untrack, TypeOK, dispatch, lookup, worker
<1>10. ASSUME \/ WorkerTick \/ WorkerAdd \/ WorkerAck \/ WorkerUnindex \/ WorkerCheck
              \/ WorkerWrite \/ WorkerNotify \/ WorkerUntrack
       PROVE  IdsFrame
  BY <1>10 DEF IdsFrame, WorkerTick, WorkerAdd, WorkerAck, WorkerUnindex, WorkerCheck,
               WorkerWrite, WorkerNotify, WorkerUntrack, Untrack, TypeOK, dispatch, lookup, report
<1>11. ASSUME \/ \E s \in Streams : StreamExpires(s)
              \/ DispatcherCrash \/ MonitorCrash \/ MonitorOutage
       PROVE  IdsFrame
  BY <1>11 DEF IdsFrame, StreamExpires, DispatcherCrash, MonitorCrash, MonitorOutage,
               MonitorStops, dispatch, lookup, report, worker
<1>12. ASSUME UNCHANGED vars PROVE IdsFrame
  BY <1>12 DEF IdsFrame, vars, dispatch, lookup, report, worker
<1> QED
  BY <1>1, <1>2, <1>3, <1>4, <1>5, <1>6, <1>7, <1>8, <1>9, <1>10, <1>11, <1>12
  DEF Next, DispatcherItem, ReportStep, TimeoutWorker

HasCopy == {"ack", "unindex", "untrack"}
WorkerHasCopy == {"ack", "unindex", "check", "write", "notify"}

CopyFrame ==
  /\ \A d \in Deliveries : rpc'[d] \in HasCopy => rpc[d] \in HasCopy
  /\ wpc' \in WorkerHasCopy => wpc \in WorkerHasCopy /\ wtask' = wtask
  /\ wdone' \subseteq wdone
  /\ trackLost \subseteq trackLost'

(* A successful XADD leaves a copy behind.                                 *)
LEMMA XAddCopies ==
  ASSUME TypeOK, IdsInv, NEW t \in Tasks, XAddOk("failed", t)
  PROVE  FailedCopy(t)'
<1>1. "failed" \in Streams
  BY DEF Streams
<1>2. PICK n \in Nat \ {0} : XAdd("failed", t, n)
  BY <1>1, XAddCall
<1>3. n > 0 /\ n \in Nat
  BY <1>2
<1> QED
  BY <1>1, <1>2, <1>3, XAddLands DEF FailedCopy, TypeOK, RedisType

(* Whoever is past the XADD to the failed stream has its copy there.       *)
LEMMA CopyStep == IInv /\ TypeOK' /\ Monotone /\ [Next]_vars => CopyInv'
<1> SUFFICES ASSUME TypeOK, IdsInv, CopyInv, TypeOK', Monotone, [Next]_vars PROVE CopyInv'
  BY DEF IInv, Inv
<1> USE DEF HasCopy, WorkerHasCopy
<1>1. ASSUME CopyFrame PROVE CopyInv'
  BY <1>1, DeliveryTask DEF CopyFrame, CopyInv, Monotone, TypeOK
<1>2. ASSUME NEW d \in Deliveries, ReportAdd(d) PROVE CopyInv'
  <2>1. XAddOk("failed", d[1]) => FailedCopy(d[1])'
    BY XAddCopies, DeliveryTask
  <2> QED
    BY <1>2, <2>1, DeliveryTask DEF ReportAdd, CopyInv, Monotone, TypeOK, worker, history
<1>3. ASSUME WorkerAdd PROVE CopyInv'
  <2> PICK t \in Tasks : t = wtask
    BY DEF TypeOK
  <2>1. XAddOk("failed", t) => FailedCopy(t)'
    BY XAddCopies
  <2>2. wtask' = t /\ rpc' = rpc /\ wdone' = wdone /\ trackLost' = trackLost
    BY <1>3 DEF WorkerAdd, report
  <2>3. wpc' \in WorkerHasCopy => FailedCopy(wtask)'
    BY <1>3, <2>1, <2>2 DEF WorkerAdd, FailedCopy
  <2> QED
    BY <2>2, <2>3, DeliveryTask DEF CopyInv, Monotone, TypeOK
<1>4. ASSUME NEW t \in Tasks, WorkerFind(t) PROVE CopyInv'
  BY <1>4, DeliveryTask DEF WorkerFind, CopyInv, Monotone, TypeOK, report
<1>5. ASSUME WorkerUnindex PROVE CopyInv'
  BY <1>5, DeliveryTask DEF WorkerUnindex, CopyInv, Monotone, TypeOK, report, history
<1>6. ASSUME NEW R \in Requests, SchedulerCall(R) PROVE CopyFrame
  BY <1>6 DEF CopyFrame, SchedulerCall, Submit, SubmitRefused, GiveUp, Reply,
              report, worker, history
<1>7. ASSUME NEW t \in Tasks, DispatcherItem(t) \/ Elapse(t) PROVE CopyFrame
  BY <1>7 DEF CopyFrame, DispatcherItem, SendTaskToPerformer, XAddDispatched,
              StoreTaskIndex, AddTaskToTimeoutTracking, Elapse, report, worker, history
<1>8. ASSUME NEW d \in Deliveries, ReceiveEvent(d) \/ EventStep(d) PROVE CopyFrame
  BY <1>8 DEF CopyFrame, ReceiveEvent, EventStep, EventFind, EventAdd,
              UpdateTaskSubmissionData, UpdateKeeperPoints, EventNotify,
              report, worker, history
<1>9. ASSUME NEW d \in Deliveries,
             \/ ReceiveReport(d) \/ ReportCheck(d) \/ ReportWrite(d) \/ ReportFind(d)
             \/ ReportAck(d) \/ ReportUnindex(d) \/ ReportUntrack(d)
      PROVE  CopyFrame
  BY <1>9 DEF CopyFrame, ReceiveReport, ReportCheck, ReportWrite, ReportFind,
              ReportAck, ReportUnindex, ReportUntrack, Untrack, TypeOK, worker, history
<1>10. ASSUME \/ WorkerTick \/ WorkerAck \/ WorkerCheck \/ WorkerWrite
              \/ WorkerNotify \/ WorkerUntrack
       PROVE  CopyFrame
  BY <1>10 DEF CopyFrame, WorkerTick, WorkerAck, WorkerCheck, WorkerWrite,
               WorkerNotify, WorkerUntrack, Untrack, report, history
<1>11. ASSUME \/ \E s \in Streams : StreamExpires(s)
              \/ DispatcherCrash \/ MonitorCrash \/ MonitorOutage
       PROVE  CopyFrame
  BY <1>11 DEF CopyFrame, StreamExpires, DispatcherCrash, MonitorCrash, MonitorOutage,
               MonitorStops, TypeOK, report, worker, history
<1>12. ASSUME UNCHANGED vars PROVE CopyFrame
  BY <1>12 DEF CopyFrame, vars, report, worker, history
<1> QED
  BY <1>1, <1>2, <1>3, <1>4, <1>5, <1>6, <1>7, <1>8, <1>9, <1>10, <1>11, <1>12
  DEF Next, ReportStep, TimeoutWorker

HasStatus == {"find", "add", "ack", "unindex", "untrack"}

StatusFrame ==
  /\ \A d \in Deliveries : rpc'[d] \in HasStatus => rpc[d] \in HasStatus
  /\ \A t \in Tasks : status[t] # NoStatus => status'[t] # NoStatus

(* An error report that reached the streams left a status behind.          *)
LEMMA StatusStep == IInv /\ TypeOK' /\ [Next]_vars => StatusInv'
<1> SUFFICES ASSUME TypeOK, TypeOK', StatusInv, [Next]_vars PROVE StatusInv'
  BY DEF IInv, Inv
<1> USE DEF HasStatus
<1>1. ASSUME StatusFrame PROVE StatusInv'
  BY <1>1, DeliveryTask DEF StatusFrame, StatusInv
<1>2. ASSUME NEW d \in Deliveries, ReportCheck(d) PROVE StatusInv'
  BY <1>2, DeliveryTask DEF ReportCheck, StatusInv, TypeOK, db
<1>3. ASSUME NEW d \in Deliveries, ReportWrite(d) PROVE StatusInv'
  BY <1>3, DeliveryTask DEF ReportWrite, StatusInv, TypeOK, NoStatus
<1>6. ASSUME NEW R \in Requests, SchedulerCall(R) PROVE StatusFrame
  BY <1>6 DEF StatusFrame, SchedulerCall, Submit, SubmitRefused, GiveUp, Reply, report, db
<1>7. ASSUME NEW t \in Tasks, DispatcherItem(t) \/ Elapse(t) PROVE StatusFrame
  BY <1>7 DEF StatusFrame, DispatcherItem, SendTaskToPerformer, XAddDispatched,
              StoreTaskIndex, AddTaskToTimeoutTracking, Elapse, report, db
<1>8. ASSUME NEW d \in Deliveries, ReceiveEvent(d) \/ EventStep(d) PROVE StatusFrame
  BY <1>8, DeliveryTask
  DEF StatusFrame, ReceiveEvent, EventStep, EventFind, EventAdd, NoStatus, TypeOK,
      UpdateTaskSubmissionData, UpdateKeeperPoints, EventNotify, report, db
<1>9. ASSUME NEW d \in Deliveries,
             \/ ReceiveReport(d) \/ ReportFind(d) \/ ReportAdd(d)
             \/ ReportAck(d) \/ ReportUnindex(d) \/ ReportUntrack(d)
      PROVE  StatusFrame
  BY <1>9 DEF StatusFrame, ReceiveReport, ReportFind, ReportAdd, ReportAck,
              ReportUnindex, ReportUntrack, Untrack, TypeOK, db
<1>10. ASSUME TimeoutWorker PROVE StatusFrame
  BY <1>10
  DEF StatusFrame, TimeoutWorker, WorkerTick, WorkerFind, WorkerAdd, WorkerAck,
      WorkerUnindex, WorkerCheck, WorkerWrite, WorkerNotify, WorkerUntrack, Untrack,
      NoStatus, TypeOK, report, db
<1>11. ASSUME \/ \E s \in Streams : StreamExpires(s)
              \/ DispatcherCrash \/ MonitorCrash \/ MonitorOutage
       PROVE  StatusFrame
  BY <1>11 DEF StatusFrame, StreamExpires, DispatcherCrash, MonitorCrash, MonitorOutage,
               MonitorStops, TypeOK, report, db
<1>12. ASSUME UNCHANGED vars PROVE StatusFrame
  BY <1>12 DEF StatusFrame, vars, report, db
<1> QED
  BY <1>1, <1>2, <1>3, <1>6, <1>7, <1>8, <1>9, <1>10, <1>11, <1>12
  DEF Next, ReportStep

DispatchFrame ==
  /\ \A t \in Tasks : dpc'[t] = dpc[t] \/ dpc'[t] \in {"idle", "send"}
  /\ sent' = sent

(* How far the dispatcher is tells what it has done.                       *)
LEMMA DispatchStep == IInv /\ TypeOK' /\ Monotone /\ [Next]_vars => DispatchInv'
<1> SUFFICES ASSUME TypeOK, IdsInv, DispatchInv, TypeOK', Monotone, [Next]_vars
             PROVE  DispatchInv'
  BY DEF IInv, Inv
<1>1. ASSUME DispatchFrame PROVE DispatchInv'
  BY <1>1 DEF DispatchFrame, DispatchInv, Dispatched, Monotone
<1>2. ASSUME NEW t \in Tasks, SendTaskToPerformer(t) PROVE DispatchInv'
  BY <1>2 DEF SendTaskToPerformer, AfterError, DispatchInv, Dispatched, Monotone, TypeOK
<1>3. ASSUME NEW t \in Tasks, XAddDispatched(t) PROVE DispatchInv'
  <2>1. XAddOk("dispatched", t) => Recorded(t)'
    <3>1. SUFFICES ASSUME XAddOk("dispatched", t) PROVE Recorded(t)'
      OBVIOUS
    <3>2. PICK n \in Nat \ {0} : XAdd("dispatched", t, n)
      BY <3>1, XAddCall DEF Streams
    <3>3. n > 0 /\ n \in Nat
      BY <3>2
    <3> QED
      BY <3>2, <3>3, XAddLands DEF Recorded, Streams, TypeOK, RedisType
  <2>2. sent' = sent /\ (\A u \in Tasks \ {t} : dpc'[u] = dpc[u]) /\ sent[t] > 0
    BY <1>3 DEF XAddDispatched, DispatchInv, TypeOK
  <2>3. \/ dpc'[t] = "index" /\ Recorded(t)'
        \/ dpc'[t] = "idle"
        \/ dpc'[t] = "finished" /\ IsBatch(Request(t))
    BY <1>3, <2>1 DEF XAddDispatched, AfterError, TypeOK
  <2> QED
    BY <2>2, <2>3 DEF DispatchInv, Dispatched, Monotone
<1>4. ASSUME NEW t \in Tasks, StoreTaskIndex(t) \/ AddTaskToTimeoutTracking(t)
      PROVE  DispatchInv'
  <2>1. sent' = sent /\ (\A u \in Tasks \ {t} : dpc'[u] = dpc[u])
    BY <1>4 DEF StoreTaskIndex, AddTaskToTimeoutTracking, TypeOK
  <2>2. Dispatched(t)
    BY <1>4 DEF StoreTaskIndex, AddTaskToTimeoutTracking, DispatchInv
  <2> QED
    BY <2>1, <2>2 DEF DispatchInv, Dispatched, Monotone, TypeOK
<1>5. ASSUME NEW R \in Requests, SchedulerCall(R) PROVE DispatchFrame
  BY <1>5 DEF DispatchFrame, SchedulerCall, Submit, SubmitRefused, GiveUp, Reply,
              dispatch, TypeOK
<1>6. ASSUME NEW t \in Tasks, Elapse(t) PROVE DispatchFrame
  BY <1>6 DEF DispatchFrame, Elapse, dispatch
<1>7. ASSUME NEW d \in Deliveries, ReceiveEvent(d) \/ EventStep(d) PROVE DispatchFrame
  BY <1>7 DEF DispatchFrame, ReceiveEvent, EventStep, EventFind, EventAdd,
              UpdateTaskSubmissionData, UpdateKeeperPoints, EventNotify, dispatch
<1>8. ASSUME NEW d \in Deliveries, ReceiveReport(d) \/ ReportStep(d) PROVE DispatchFrame
  BY <1>8 DEF DispatchFrame, ReceiveReport, ReportStep, ReportCheck, ReportWrite,
              ReportFind, ReportAdd, ReportAck, ReportUnindex, ReportUntrack, Untrack, dispatch
<1>9. ASSUME TimeoutWorker PROVE DispatchFrame
  BY <1>9
  DEF DispatchFrame, TimeoutWorker, WorkerTick, WorkerFind, WorkerAdd, WorkerAck,
      WorkerUnindex, WorkerCheck, WorkerWrite, WorkerNotify, WorkerUntrack, Untrack, dispatch
<1>10. ASSUME \/ \E s \in Streams : StreamExpires(s)
              \/ DispatcherCrash \/ MonitorCrash \/ MonitorOutage
       PROVE  DispatchFrame
  BY <1>10 DEF DispatchFrame, StreamExpires, DispatcherCrash, MonitorCrash,
               MonitorOutage, MonitorStops, dispatch
<1>11. ASSUME UNCHANGED vars PROVE DispatchFrame
  BY <1>11 DEF DispatchFrame, vars, dispatch
<1> QED
  BY <1>1, <1>2, <1>3, <1>4, <1>5, <1>6, <1>7, <1>8, <1>9, <1>10, <1>11
  DEF Next, DispatcherItem

(* A request that was acknowledged is a disjoint set of tasks.             *)
LEMMA RequestOf == \A R \in Requests : \A t \in R : Request(t) = R /\ t \in Tasks
  BY RequestsAssumption DEF Request

(* An acknowledged single task was sent and recorded.                      *)
LEMMA AckedStep == IInv /\ TypeOK' /\ Monotone /\ [Next]_vars => AckedSingleRecorded'
<1> SUFFICES ASSUME TypeOK, DispatchInv, AckedSingleRecorded, TypeOK', Monotone, [Next]_vars
             PROVE  AckedSingleRecorded'
  BY DEF IInv, Inv
<1> DEFINE Frame == acked' = acked /\ \A t \in Tasks : sent[t] > 0 => sent'[t] > 0
<1>1. ASSUME Frame PROVE AckedSingleRecorded'
  BY <1>1, RequestOf DEF AckedSingleRecorded, Monotone, TypeOK
<1>2. ASSUME NEW R \in Requests, Reply(R) PROVE AckedSingleRecorded'
  <2>1. ~ IsBatch(R) => \A t \in R : Dispatched(t)
    BY <1>2, RequestOf DEF Reply, DispatchInv
  <2>2. acked' \subseteq acked \cup {R} /\ sent' = sent
    BY <1>2 DEF Reply
  <2> QED
    BY <2>1, <2>2, RequestOf DEF AckedSingleRecorded, Dispatched, Monotone, TypeOK
<1>3. ASSUME NEW R \in Requests, Submit(R) \/ SubmitRefused(R) \/ GiveUp(R) PROVE Frame
  BY <1>3 DEF Submit, SubmitRefused, GiveUp, dispatch
<1>4. ASSUME NEW t \in Tasks, DispatcherItem(t) \/ Elapse(t) PROVE Frame
  BY <1>4 DEF DispatcherItem, SendTaskToPerformer, XAddDispatched, StoreTaskIndex,
              AddTaskToTimeoutTracking, Elapse, request, dispatch, TypeOK
<1>5. ASSUME NEW d \in Deliveries, ReceiveEvent(d) \/ EventStep(d) PROVE Frame
  BY <1>5 DEF ReceiveEvent, EventStep, EventFind, EventAdd, UpdateTaskSubmissionData,
              UpdateKeeperPoints, EventNotify, request, dispatch
<1>6. ASSUME NEW d \in Deliveries, ReceiveReport(d) \/ ReportStep(d) PROVE Frame
  BY <1>6 DEF ReceiveReport, ReportStep, ReportCheck, ReportWrite, ReportFind, ReportAdd,
              ReportAck, ReportUnindex, ReportUntrack, Untrack, request, dispatch
<1>7. ASSUME TimeoutWorker PROVE Frame
  BY <1>7
  DEF TimeoutWorker, WorkerTick, WorkerFind, WorkerAdd, WorkerAck, WorkerUnindex,
      WorkerCheck, WorkerWrite, WorkerNotify, WorkerUntrack, Untrack, request, dispatch
<1>8. ASSUME \/ \E s \in Streams : StreamExpires(s)
             \/ DispatcherCrash \/ MonitorCrash \/ MonitorOutage
      PROVE  Frame
  BY <1>8 DEF StreamExpires, DispatcherCrash, MonitorCrash, MonitorOutage, MonitorStops,
              request, dispatch
<1>9. ASSUME UNCHANGED vars PROVE Frame
  BY <1>9 DEF vars, request, dispatch
<1> QED
  BY <1>1, <1>2, <1>3, <1>4, <1>5, <1>6, <1>7, <1>8, <1>9 DEF Next, SchedulerCall

CoverageFrame ==
  /\ \A e \in entries' \ entries : e.stream # "dispatched"
  /\ \A t \in tracked \ tracked' : FailedCopy(t) \/ t \in trackLost'
  /\ \A t \in Tasks : dpc[t] \in {"index", "timeout"} => dpc'[t] = dpc[t]
  /\ trackLost \subseteq trackLost'

(* Who changes only what the streams do not show, adds nothing to them.    *)
LEMMA QuietStreams ==
  /\ UNCHANGED redis => UNCHANGED entries /\ Added' = Added
  /\ \A mid : XDel(mid) => entries' \subseteq entries /\ Added' \subseteq Added
  /\ \A s \in Streams : StreamExpires(s) => entries' \subseteq entries /\ Added' = Added
  /\ Initialize => UNCHANGED entries /\ Added' = Added
  BY DEF redis, XDel, StreamExpires, Initialize, Added, Of

(* XADD to another stream leaves a stream's messages alone.                *)
LEMMA XAddElsewhere ==
  ASSUME TypeOK, IdsInv, NEW stream \in Streams, NEW t \in Tasks,
         XAddOk(stream, t) \/ XAddFails(stream, t)
  PROVE  /\ \A e \in entries' \ entries : e.stream = stream /\ e.task = t
         /\ \A e \in Added' \ Added : e.stream = stream /\ e.task = t
<1>1. PICK n \in Nat : XAdd(stream, t, n)
  BY XAddCall
<1>2. Landed(stream, t)
  BY <1>1, XAddLands DEF TypeOK, RedisType
<1> QED
  BY <1>2 DEF Landed

(* A task in the dispatched stream is watched.                             *)
LEMMA CoverageStep == IInv /\ TypeOK' /\ Monotone /\ [Next]_vars => TimeoutCoverage'
<1> SUFFICES ASSUME TypeOK, IdsInv, CopyInv, TimeoutCoverage, TypeOK', Monotone, [Next]_vars
             PROVE  TimeoutCoverage'
  BY DEF IInv, Inv
<1>1. ASSUME CoverageFrame PROVE TimeoutCoverage'
  <2>1. \A e \in entries : e.task \in Tasks
    BY DEF TypeOK, Entry
  <2> QED
    BY <1>1, <2>1 DEF CoverageFrame, TimeoutCoverage, Of, Monotone, TypeOK
<1>2. ASSUME NEW t \in Tasks, XAddDispatched(t) PROVE TimeoutCoverage'
  <2>1. /\ \A e \in entries' \ entries : e.task = t
        /\ tracked' = tracked /\ trackLost \subseteq trackLost'
        /\ \A u \in Tasks \ {t} : dpc'[u] = dpc[u]
        /\ dpc[t] = "xadd"
    BY <1>2, XAddElsewhere DEF XAddDispatched, Streams, lookup, TypeOK
  <2>2. \A e \in entries' \ entries : dpc'[t] = "index" \/ t \in trackLost'
    <3>1. CASE dpc' = [dpc EXCEPT ![t] = "index"]
      BY <3>1 DEF TypeOK
    <3>2. CASE /\ XAddFails("dispatched", t)
               /\ trackLost' = IF nextId' = nextId THEN trackLost
                                                  ELSE trackLost \cup {t}
      <4>1. PICK n \in Nat : XAdd("dispatched", t, n)
        BY <3>2 DEF XAddFails
      <4>2. nextId' = nextId + n /\ (n = 0 => entries' \subseteq entries)
        BY <4>1, XAddLands DEF Streams, TypeOK, RedisType
      <4>3. nextId' = nextId => entries' \subseteq entries
        BY <4>2 DEF TypeOK
      <4> QED
        BY <3>2, <4>3
    <3> QED
      BY <1>2, <3>1, <3>2 DEF XAddDispatched
  <2>3. \A e \in entries : e.task \in Tasks
    BY DEF TypeOK, Entry
  <2> QED
    BY <2>1, <2>2, <2>3 DEF TimeoutCoverage, Of, Monotone
<1>3. ASSUME NEW t \in Tasks, StoreTaskIndex(t) PROVE TimeoutCoverage'
  BY <1>3 DEF StoreTaskIndex, TimeoutCoverage, Of, FailedCopy, Added, TypeOK, redis, history
<1>4. ASSUME NEW t \in Tasks, AddTaskToTimeoutTracking(t) PROVE TimeoutCoverage'
  <2>1. entries' = entries /\ Added' = Added
    BY <1>4, QuietStreams DEF AddTaskToTimeoutTracking
  <2>2. t \in tracked' \/ t \in trackLost'
    BY <1>4 DEF AddTaskToTimeoutTracking
  <2>3. /\ tracked \subseteq tracked' /\ trackLost \subseteq trackLost'
        /\ \A u \in Tasks \ {t} : dpc'[u] = dpc[u]
    BY <1>4 DEF AddTaskToTimeoutTracking, TypeOK
  <2>4. \A e \in entries : e.task \in Tasks
    BY DEF TypeOK, Entry
  <2> QED
    BY <2>1, <2>2, <2>3, <2>4 DEF TimeoutCoverage, Of, Monotone
<1>5. ASSUME DispatcherCrash PROVE TimeoutCoverage'
  <2>1. entries' = entries /\ Added' = Added
    BY <1>5, QuietStreams DEF DispatcherCrash
  <2>2. /\ tracked' = tracked
        /\ trackLost' = trackLost \cup {t \in Tasks : dpc[t] \in {"index", "timeout"}}
    BY <1>5 DEF DispatcherCrash, lookup
  <2>3. \A e \in entries : e.task \in Tasks
    BY DEF TypeOK, Entry
  <2> QED
    BY <2>1, <2>2, <2>3 DEF TimeoutCoverage, Of, Monotone
<1>6. ASSUME NEW R \in Requests, SchedulerCall(R) PROVE CoverageFrame
  BY <1>6, QuietStreams
  DEF CoverageFrame, SchedulerCall, Submit, SubmitRefused, GiveUp, Reply, Idle,
      dispatch, redis, lookup, history, TypeOK
<1>7. ASSUME NEW t \in Tasks, SendTaskToPerformer(t) \/ Elapse(t) PROVE CoverageFrame
  BY <1>7 DEF CoverageFrame, SendTaskToPerformer, Elapse, dispatch, redis, lookup,
              history, TypeOK
<1>8. ASSUME NEW d \in Deliveries, ReceiveEvent(d) \/ EventStep(d) PROVE CoverageFrame
  <2>1. "completed" \in Streams /\ d[1] \in Tasks
    BY DeliveryTask DEF Streams
  <2> QED
    BY <1>8, <2>1, XAddElsewhere
    DEF CoverageFrame, ReceiveEvent, EventStep, EventFind, EventAdd,
        UpdateTaskSubmissionData, UpdateKeeperPoints, EventNotify,
        dispatch, redis, lookup, history
<1>9. ASSUME NEW d \in Deliveries, ReceiveReport(d) \/ ReportStep(d) PROVE CoverageFrame
  <2>1. "failed" \in Streams /\ d[1] \in Tasks
    BY DeliveryTask DEF Streams
  <2>2. ReportUntrack(d) => FailedCopy(d[1])
    BY DEF ReportUntrack, CopyInv
  <2> QED
    BY <1>9, <2>1, <2>2, XAddElsewhere, QuietStreams
    DEF CoverageFrame, ReceiveReport, ReportStep, ReportCheck, ReportWrite, ReportFind,
        ReportAdd, ReportAck, ReportUnindex, ReportUntrack, Untrack, dispatch, redis, lookup, history
<1>10. ASSUME TimeoutWorker PROVE CoverageFrame
  <2>1. "failed" \in Streams /\ wtask \in Tasks
    BY DEF Streams, TypeOK
  <2>2. \A t \in wdone : t \in trackLost \/ FailedCopy(t)
    BY DEF CopyInv
  <2>3. CASE WorkerUntrack
    BY <2>2, <2>3 DEF CoverageFrame, WorkerUntrack, Untrack, dispatch, redis, history
  <2> QED
    BY <1>10, <2>1, <2>3, XAddElsewhere, QuietStreams
    DEF CoverageFrame, TimeoutWorker, WorkerTick, WorkerFind, WorkerAdd, WorkerAck,
        WorkerUnindex, WorkerCheck, WorkerWrite, WorkerNotify,
        dispatch, redis, lookup, history
<1>11. ASSUME NEW s \in Streams, StreamExpires(s) PROVE CoverageFrame
  BY <1>11, QuietStreams DEF CoverageFrame, StreamExpires, dispatch, lookup, history
<1>12. ASSUME MonitorCrash \/ MonitorOutage PROVE CoverageFrame
  BY <1>12, QuietStreams
  DEF CoverageFrame, MonitorCrash, MonitorOutage, MonitorStops, dispatch, lookup, history
<1>13. ASSUME UNCHANGED vars PROVE CoverageFrame
  BY <1>13 DEF CoverageFrame, vars, dispatch, redis, lookup, history
<1> QED
  BY <1>1, <1>2, <1>3, <1>4, <1>5, <1>6, <1>7, <1>8, <1>9, <1>10, <1>11, <1>12, <1>13
  DEF Next, DispatcherItem

Writing == {"ack", "unindex", "check", "write"}

FailedStatusFrame ==
  /\ \A e \in Added' \ Added : e.stream # "failed"
  /\ \A t \in Tasks : status[t] # NoStatus => status'[t] # NoStatus
  /\ wpc \in Writing => (wpc' \in Writing /\ wtask' = wtask) \/ wtask \in statusLost'
  /\ statusLost \subseteq statusLost'

(* A task with a copy in the failed stream has or gets a status.           *)
LEMMA FailedStatusStep ==
  IInv /\ TypeOK' /\ Monotone /\ [Next]_vars => FailedCopyHasStatus'
<1> SUFFICES ASSUME TypeOK, IdsInv, StatusInv, FailedCopyHasStatus, TypeOK', Monotone,
                    [Next]_vars
             PROVE  FailedCopyHasStatus'
  BY DEF IInv, Inv
<1> USE DEF Writing
<1>1. ASSUME FailedStatusFrame PROVE FailedCopyHasStatus'
  <2>1. \A t \in Tasks : FailedCopy(t)' => FailedCopy(t)
    BY <1>1 DEF FailedStatusFrame, FailedCopy
  <2> QED
    BY <1>1, <2>1 DEF FailedStatusFrame, FailedCopyHasStatus
<1>2. ASSUME NEW d \in Deliveries, ReportAdd(d) PROVE FailedCopyHasStatus'
  <2>1. \A e \in Added' \ Added : e.task = d[1]
    BY <1>2, XAddElsewhere, DeliveryTask DEF ReportAdd, Streams
  <2>2. \A t \in Tasks \ {d[1]} : FailedCopy(t)' => FailedCopy(t)
    BY <2>1 DEF FailedCopy
  <2>3. /\ status[d[1]] # NoStatus /\ status' = status /\ wpc' = wpc /\ wtask' = wtask
        /\ statusLost' = statusLost
    BY <1>2 DEF ReportAdd, StatusInv, db, worker, history
  <2> QED
    BY <2>2, <2>3 DEF FailedCopyHasStatus
<1>3. ASSUME WorkerAdd PROVE FailedCopyHasStatus'
  <2> PICK w \in Tasks : w = wtask
    BY DEF TypeOK
  <2>1. \A e \in Added' \ Added : e.task = w
    BY <1>3, XAddElsewhere DEF WorkerAdd, Streams
  <2>2. \A t \in Tasks \ {w} : FailedCopy(t)' => FailedCopy(t)
    BY <2>1 DEF FailedCopy
  <2>3. status' = status /\ wtask' = w /\ statusLost \subseteq statusLost' /\ wpc = "add"
    BY <1>3 DEF WorkerAdd, db
  <2>4. \/ wpc' \in Writing
        \/ w \in statusLost'
        \/ FailedCopy(w)' => FailedCopy(w)
    <3>1. CASE wpc' = IF wmid = NoId THEN "unindex" ELSE "ack"
      BY <3>1
    <3>2. CASE XAddFails("failed", w) /\ nextId' = nextId
      <4>1. PICK n \in Nat : XAdd("failed", w, n)
        BY <3>2 DEF XAddFails
      <4>2. nextId' = nextId + n /\ (n = 0 => entries' \subseteq entries) /\ Landed("failed", w)
        BY <4>1, XAddLands DEF Streams, TypeOK, RedisType
      <4>3. entries' \subseteq entries
        BY <3>2, <4>2 DEF TypeOK
      <4>4. Added' \subseteq Added
        BY <4>2, <4>3 DEF Landed
      <4> QED
        BY <4>4 DEF FailedCopy
    <3> QED
      BY <1>3, <3>1, <3>2 DEF WorkerAdd
  <2> QED
    BY <2>2, <2>3, <2>4 DEF FailedCopyHasStatus
<1>6. ASSUME NEW R \in Requests, SchedulerCall(R) PROVE FailedStatusFrame
  BY <1>6, QuietStreams
  DEF FailedStatusFrame, SchedulerCall, Submit, SubmitRefused, GiveUp, Reply,
      db, worker, history
<1>7. ASSUME NEW t \in Tasks, DispatcherItem(t) \/ Elapse(t) PROVE FailedStatusFrame
  <2>1. "dispatched" \in Streams
    BY DEF Streams
  <2> QED
    BY <1>7, <2>1, QuietStreams, XAddElsewhere
    DEF FailedStatusFrame, DispatcherItem, SendTaskToPerformer, XAddDispatched,
        StoreTaskIndex, AddTaskToTimeoutTracking, Elapse, db, worker, history
<1>8. ASSUME NEW d \in Deliveries, ReceiveEvent(d) \/ EventStep(d) PROVE FailedStatusFrame
  <2>1. "completed" \in Streams /\ d[1] \in Tasks
    BY DeliveryTask DEF Streams
  <2> QED
    BY <1>8, <2>1, QuietStreams, XAddElsewhere
    DEF FailedStatusFrame, ReceiveEvent, EventStep, EventFind, EventAdd,
        UpdateTaskSubmissionData, UpdateKeeperPoints, EventNotify, NoStatus, TypeOK,
        db, worker, history
<1>9. ASSUME NEW d \in Deliveries,
             \/ ReceiveReport(d) \/ ReportCheck(d) \/ ReportWrite(d) \/ ReportFind(d)
             \/ ReportAck(d) \/ ReportUnindex(d) \/ ReportUntrack(d)
      PROVE  FailedStatusFrame
  BY <1>9, DeliveryTask, QuietStreams
  DEF FailedStatusFrame, ReceiveReport, ReportCheck, ReportWrite, ReportFind,
      ReportAck, ReportUnindex, ReportUntrack, Untrack, NoStatus, TypeOK, db, worker, history
<1>10. ASSUME WorkerCheck PROVE FailedCopyHasStatus'
  <2>1. Added' = Added /\ status' = status /\ statusLost' = statusLost /\ wtask' = wtask
    BY <1>10, QuietStreams DEF WorkerCheck, db, history
  <2>2. wpc' = "write" \/ status[wtask] # NoStatus
    BY <1>10 DEF WorkerCheck
  <2> QED
    BY <1>10, <2>1, <2>2 DEF WorkerCheck, FailedCopyHasStatus, FailedCopy
<1>11. ASSUME WorkerWrite PROVE FailedCopyHasStatus'
  <2>1. Added' = Added /\ statusLost \subseteq statusLost' /\ wtask' = wtask
    BY <1>11, QuietStreams DEF WorkerWrite
  <2>2. status'[wtask] # NoStatus \/ wtask \in statusLost'
    BY <1>11 DEF WorkerWrite, NoStatus, TypeOK
  <2>3. \A t \in Tasks : status[t] # NoStatus => status'[t] # NoStatus
    BY <1>11 DEF WorkerWrite, NoStatus, TypeOK
  <2> QED
    BY <1>11, <2>1, <2>2, <2>3 DEF FailedCopyHasStatus, FailedCopy
<1>12. ASSUME \/ WorkerTick \/ WorkerAck \/ WorkerUnindex \/ WorkerNotify \/ WorkerUntrack
              \/ \E t \in Tasks : WorkerFind(t)
       PROVE  FailedStatusFrame
  BY <1>12, QuietStreams
  DEF FailedStatusFrame, WorkerTick, WorkerFind, WorkerAck, WorkerUnindex, WorkerNotify,
      WorkerUntrack, Untrack, db, history
<1>13. ASSUME NEW s \in Streams, StreamExpires(s) PROVE FailedStatusFrame
  BY <1>13, QuietStreams DEF FailedStatusFrame, StreamExpires, db, worker, history
<1>14. ASSUME DispatcherCrash \/ MonitorCrash \/ MonitorOutage PROVE FailedStatusFrame
  BY <1>14, QuietStreams
  DEF FailedStatusFrame, DispatcherCrash, MonitorCrash, MonitorOutage, MonitorStops,
      db, worker, history
<1>15. ASSUME UNCHANGED vars PROVE FailedStatusFrame
  BY <1>15, QuietStreams DEF FailedStatusFrame, vars, db, worker, history
<1> QED
  BY <1>1, <1>2, <1>3, <1>6, <1>7, <1>8, <1>9, <1>10, <1>11, <1>12, <1>13, <1>14, <1>15
  DEF Next, ReportStep, TimeoutWorker

-----------------------------------------------------------------------------
(* The theorems.                                                           *)

LEMMA InitInv == Init => IInv
<1> SUFFICES ASSUME Init PROVE IInv
  OBVIOUS
<1> USE DEF Init
<1>1. TypeOK
  BY BoundsAssumption DEF TypeOK, Ids, NoId, Streams, NoStatus
<1>2. Added = {}
  BY DEF Added
<1>3. IdsInv
  BY <1>2, DeliveryTask DEF IdsInv, Names, NoId
<1>4. CopyInv /\ StatusInv /\ DispatchInv /\ AckedSingleRecorded
  BY DEF CopyInv, StatusInv, DispatchInv, AckedSingleRecorded
<1>5. TimeoutCoverage /\ FailedCopyHasStatus
  BY <1>2 DEF TimeoutCoverage, FailedCopyHasStatus, Of, FailedCopy
<1> QED
  BY <1>1, <1>3, <1>4, <1>5 DEF IInv, Inv

LEMMA StepInv == IInv /\ [Next]_vars => IInv'
<1> SUFFICES ASSUME IInv, [Next]_vars PROVE IInv'
  OBVIOUS
<1>1. TypeOK'
  BY TypeStep DEF IInv
<1>2. Monotone
  BY StepMonotone DEF IInv, Inv
<1>3. IdsInv' /\ CopyInv' /\ StatusInv'
  BY <1>1, <1>2, IdsStep, CopyStep, StatusStep
<1>4. DispatchInv' /\ AckedSingleRecorded'
  BY <1>1, <1>2, DispatchStep, AckedStep
<1>5. TimeoutCoverage' /\ FailedCopyHasStatus'
  BY <1>1, <1>2, CoverageStep, FailedStatusStep
<1> QED
  BY <1>1, <1>3, <1>4, <1>5 DEF IInv, Inv

(* The inductive invariant holds in every reachable state: each handler    *)
(* knows the message of its own task, and none is past its XADD without a  *)
(* copy.                                                                   *)
THEOREM Invariant == Spec => []IInv
  BY InitInv, StepInv, PTL DEF Spec

(* Every variable keeps to its type.                                       *)
THEOREM TypeCorrect == Spec => []TypeOK
<1>1. IInv => TypeOK
  BY DEF IInv
<1> QED
  BY <1>1, Invariant, PTL

(* A task that sits in the dispatched stream is watched by the timeout     *)
(* worker, or about to be, or copied to the failed stream, or one of the   *)
(* named exceptions.                                                       *)
THEOREM DispatchedIsWatched == Spec => []TimeoutCoverage
<1>1. IInv => TimeoutCoverage
  BY DEF IInv, Inv
<1> QED
  BY <1>1, Invariant, PTL

(* A task with a copy in the failed stream has a status, or the timeout    *)
(* worker is about to write it, or it is one of the named exceptions.      *)
THEOREM FailedHasStatus == Spec => []FailedCopyHasStatus
<1>1. IInv => FailedCopyHasStatus
  BY DEF IInv, Inv
<1> QED
  BY <1>1, Invariant, PTL

(* Success: true for a single task means it was sent and recorded.         *)
THEOREM AckedIsRecorded == Spec => []AckedSingleRecorded
<1>1. IInv => AckedSingleRecorded
  BY DEF IInv, Inv
<1> QED
  BY <1>1, Invariant, PTL

(* No message leaves the dispatched stream by XDEL without a copy of its   *)
(* task in the failed stream, whichever handler asked for it.              *)
THEOREM CopyBeforeDelete == Spec => DeletedOnlyAfterCopy
<1> DEFINE Safe ==
      \A e \in entries \ (entries' \cup gone') :
        e.stream = "dispatched" /\ FailedCopy(e.task)
<1>1. ASSUME IInv, [Next]_vars PROVE Safe
  <2>1. RedisStep
    BY <1>1, RedisSteps DEF IInv, Inv
  <2>2. CASE Kept
    BY <2>2 DEF Kept, Added
  <2>3. CASE \E stream \in Streams, t \in Tasks : Landed(stream, t)
    BY <2>3 DEF Landed
  <2>4. CASE \E t \in Tasks : FailedCopy(t) /\ Removed(t)
    BY <2>4 DEF Removed
  <2> QED
    BY <2>1, <2>2, <2>3, <2>4 DEF RedisStep
<1>2. IInv /\ [Next]_vars => [Safe]_vars
  BY <1>1
<1> QED
  BY <1>2, Invariant, PTL DEF Spec, DeletedOnlyAfterCopy

-----------------------------------------------------------------------------
(***************************************************************************)
(* The listener on the chain.                                              *)
(***************************************************************************)

ListenShape ==
  /\ head \in Nat /\ first \in Nat /\ lastBlock \in Nat /\ target \in Nat /\ cur \in Nat
  /\ head <= MaxHead /\ target <= MaxHead
  /\ sub \in Subs
  /\ batch \in Seq(Events) /\ eventChan \in Seq(Events)
  /\ hands \in [EventWorkers -> Events \cup {NoEvent, WorkerGone}]
  /\ handled \in [Events -> 0..1] /\ lost \subseteq Events

Distinct(s) == \A m, n \in DOMAIN s : s[m] = s[n] => m = n

(* The answer that is being emitted: each log of it is asked for, and once. *)
BatchInv ==
  /\ listener = "created" => pollAt = "none"
  /\ pollAt \in {"none", "starting"} => lastBlock = first
  /\ first <= lastBlock
  /\ pollAt \notin {"polling", "ended"} => batch = << >>
  /\ pollAt = "polling" => /\ lastBlock < target
                           /\ lastBlock < cur /\ cur <= target + 1
                           /\ Distinct(batch)
                           /\ \A e \in ToSet(batch) : e[2] = sub /\ lastBlock < e[1] /\ e[1] < cur

(* No event is in two places.                                              *)
OnePlace ==
  /\ Distinct(eventChan)
  /\ \A v, w \in EventWorkers : hands[v] = hands[w] /\ hands[v] \in Events => v = w
  /\ \A e \in ToSet(eventChan) : handled[e] = 0 /\ e \notin lost /\ \A w \in EventWorkers : hands[w] # e
  /\ \A w \in EventWorkers : hands[w] \in Events => handled[hands[w]] = 0 /\ hands[w] \notin lost
  /\ \A e \in lost : handled[e] = 0

(* The poller has gone through exactly the events that are in one.         *)
Somewhere(e) ==
  e \in ToSet(eventChan) \/ (\E w \in EventWorkers : hands[w] = e) \/ handled[e] = 1 \/ e \in lost
InRange(e) == first < e[1] /\ e[1] <= lastBlock
Passed(e) ==
  InRange(e) \/ (pollAt = "polling" /\ lastBlock < e[1] /\ e[1] <= target /\ ~StillToPoll(e))
PassedInv == \A e \in Events : /\ pollAt # "ended" => (Somewhere(e) <=> Passed(e))
                               /\ InRange(e) => Somewhere(e)

ListenInv == ListenShape /\ BatchInv /\ OnePlace /\ PassedInv
-----------------------------------------------------------------------------
(* What appending to a sequence and taking its head do to its elements.    *)
LEMMA AppendedSet ==
  ASSUME NEW S, NEW s \in Seq(S), NEW e \in S
  PROVE  /\ Append(s, e) \in Seq(S) /\ ToSet(Append(s, e)) = ToSet(s) \cup {e}
         /\ Distinct(s) /\ e \notin ToSet(s) => Distinct(Append(s, e))
<1> DEFINE t == Append(s, e)
<1>1. t \in Seq(S) /\ DOMAIN t = 1..(Len(s) + 1) /\ DOMAIN s = 1..Len(s) /\ Len(s) \in Nat
  OBVIOUS
<1>2. \A i \in 1..Len(s) : t[i] = s[i]
  OBVIOUS
<1>3. t[Len(s) + 1] = e
  OBVIOUS
<1> HIDE DEF t
<1>4. \A i \in DOMAIN t : i \in 1..Len(s) \/ i = Len(s) + 1
  BY <1>1
<1>5. ToSet(t) \subseteq ToSet(s) \cup {e}
  BY <1>1, <1>2, <1>3, <1>4 DEF ToSet
<1>6. ToSet(s) \cup {e} \subseteq ToSet(t)
  <2>1. \A i \in 1..Len(s) : i \in DOMAIN t
    BY <1>1
  <2>2. Len(s) + 1 \in DOMAIN t
    BY <1>1
  <2> QED
    BY <1>1, <1>2, <1>3, <2>1, <2>2 DEF ToSet
<1>7. ASSUME Distinct(s), e \notin ToSet(s)  PROVE Distinct(t)
  <2>1. \A i \in 1..Len(s) : t[i] # e
    BY <1>1, <1>2, <1>7 DEF ToSet
  <2> SUFFICES ASSUME NEW m \in DOMAIN t, NEW n \in DOMAIN t, t[m] = t[n]  PROVE m = n
    BY DEF Distinct
  <2> QED
    BY <1>1, <1>2, <1>3, <1>4, <1>7, <2>1 DEF Distinct
<1> QED
  BY <1>1, <1>5, <1>6, <1>7 DEF t

LEMMA TakenSet ==
  ASSUME NEW S, NEW s \in Seq(S), s # << >>, Distinct(s)
  PROVE  /\ Tail(s) \in Seq(S) /\ Distinct(Tail(s))
         /\ Head(s) \in S /\ ToSet(s) = ToSet(Tail(s)) \cup {Head(s)} /\ Head(s) \notin ToSet(Tail(s))
<1> DEFINE t == Tail(s)
<1>1. /\ t \in Seq(S) /\ DOMAIN t = 1..(Len(s) - 1) /\ DOMAIN s = 1..Len(s)
      /\ Len(s) \in Nat /\ Len(s) > 0 /\ Head(s) = s[1]
  OBVIOUS
<1>2. \A i \in 1..(Len(s) - 1) : t[i] = s[i + 1]
  OBVIOUS
<1> HIDE DEF t
<1>3. \A i \in DOMAIN t : i + 1 \in DOMAIN s /\ t[i] = s[i + 1] /\ i + 1 # 1 /\ i \in Nat
  BY <1>1, <1>2
<1>4. \A i \in DOMAIN s : i = 1 \/ (i - 1 \in DOMAIN t /\ (i - 1) + 1 = i)
  BY <1>1
<1>5. Distinct(t)
  <2> SUFFICES ASSUME NEW m \in DOMAIN t, NEW n \in DOMAIN t, t[m] = t[n]  PROVE m = n
    BY DEF Distinct
  <2>1. m + 1 = n + 1
    BY <1>3 DEF Distinct
  <2> QED
    BY <1>3, <2>1
<1>6. Head(s) \notin ToSet(t)
  <2>1. \A i \in DOMAIN t : t[i] # s[1]
    <3>1. 1 \in DOMAIN s
      BY <1>1
    <3> QED
      BY <1>3, <3>1 DEF Distinct
  <2> QED
    BY <1>1, <2>1 DEF ToSet
<1>7. ToSet(s) = ToSet(t) \cup {Head(s)}
  <2>1. ToSet(s) \subseteq ToSet(t) \cup {Head(s)}
    <3>1. \A i \in DOMAIN s : i = 1 \/ (\E j \in DOMAIN t : s[i] = t[j])
      BY <1>2, <1>3, <1>4
    <3> QED
      BY <1>1, <3>1 DEF ToSet
  <2>2. ToSet(t) \cup {Head(s)} \subseteq ToSet(s)
    <3>1. 1 \in DOMAIN s
      BY <1>1
    <3> QED
      BY <1>1, <1>3, <3>1 DEF ToSet
  <2> QED
    BY <2>1, <2>2
<1> QED
  BY <1>1, <1>5, <1>6, <1>7 DEF t

(* The events of the blocks a..b, for the subscription that is polled.     *)
LEMMA LogsOf ==
  ASSUME ListenShape, NEW a \in Nat \ {0}, NEW b \in Nat, a <= b + 1, b <= MaxHead
  PROVE  /\ LogsIn(a, b) \in Seq(Events) /\ Distinct(LogsIn(a, b))
         /\ ToSet(LogsIn(a, b)) = {<<x, sub>> : x \in a..b}
<1> DEFINE s == LogsIn(a, b)
<1>1. DOMAIN s = 1..(b - a + 1) /\ \A n \in 1..(b - a + 1) : s[n] = <<a + n - 1, sub>>
  BY DEF LogsIn
<1>2. \A n \in 1..(b - a + 1) : a + n - 1 \in a..b /\ a + n - 1 \in 1..MaxHead
  BY ChainListenerAssumption
<1>3. \A n \in 1..(b - a + 1) : s[n] \in Events
  BY <1>1, <1>2 DEF Events, ListenShape
<1>4. s = [n \in 1..(b - a + 1) |-> <<a + n - 1, sub>>]
  BY DEF LogsIn
<1> HIDE DEF s
<1>5. s \in Seq(Events)
  <2>1. b - a + 1 \in Nat
    OBVIOUS
  <2>2. s \in [1..(b - a + 1) -> Events]
    BY <1>1, <1>3, <1>4
  <2> QED
    BY <2>1, <2>2
<1>6. Distinct(s)
  <2> SUFFICES ASSUME NEW m \in DOMAIN s, NEW n \in DOMAIN s, s[m] = s[n]  PROVE m = n
    BY DEF Distinct
  <2>1. a + m - 1 = a + n - 1
    BY <1>1
  <2> QED
    BY <1>1, <2>1
<1>7. ToSet(s) = {<<x, sub>> : x \in a..b}
  <2>1. ToSet(s) \subseteq {<<x, sub>> : x \in a..b}
    BY <1>1, <1>2 DEF ToSet
  <2>2. ASSUME NEW x \in a..b  PROVE <<x, sub>> \in ToSet(s)
    <3>1. x - a + 1 \in 1..(b - a + 1) /\ a + (x - a + 1) - 1 = x
      OBVIOUS
    <3> QED
      BY <1>1, <3>1 DEF ToSet
  <2> QED
    BY <2>1, <2>2
<1> QED
  BY <1>5, <1>6, <1>7 DEF s
-----------------------------------------------------------------------------
LEMMA ListenInitially == ASSUME ListenInit  PROVE ListenInv
<1>1. ToSet(batch) = {} /\ ToSet(eventChan) = {}
  BY DEF ListenInit, ToSet
<1>2. \A w \in EventWorkers : hands[w] = NoEvent
  BY DEF ListenInit
<1>3. NoEvent \notin Events
  BY DEF NoEvent, Events
<1>4. ListenShape
  BY ChainListenerAssumption DEF ListenInit, ListenShape, Subs, Events
<1>5. BatchInv
  BY <1>1 DEF ListenInit, BatchInv
<1>6. OnePlace
  BY <1>1, <1>2, <1>3 DEF ListenInit, OnePlace, Distinct
<1>7. ASSUME NEW e \in Events  PROVE ~Somewhere(e) /\ ~Passed(e) /\ ~InRange(e)
  <2>1. handled[e] = 0 /\ lost = {} /\ e[1] \in Nat /\ e[1] > 0
    BY <1>7 DEF ListenInit, Events
  <2>2. ~Somewhere(e)
    BY <1>1, <1>2, <1>3, <2>1 DEF Somewhere
  <2> QED
    BY <2>1, <2>2 DEF Passed, InRange, ListenInit
<1> QED
  BY <1>4, <1>5, <1>6, <1>7 DEF ListenInv, PassedInv

(* Steps that move the poller and no event.                                *)
LEMMA PollerMoves ==
  ASSUME ListenInv,
         \/ HeadMoves \/ StartListener \/ BeginStop \/ StopReturns
         \/ StartPoller \/ Tick \/ NextSubscription \/ EndPoller \/ UNCHANGED listenVars
  PROVE  ListenInv'
<1> USE ChainListenerAssumption
<1>1. UNCHANGED <<batch, eventChan, hands, handled, lost>>
  BY DEF HeadMoves, StartListener, BeginStop, StopReturns, StartPoller, Tick, NextSubscription,
         EndPoller, queueVars, listenVars
<1>2. OnePlace' /\ \A e \in Events : Somewhere(e)' <=> Somewhere(e)
  BY <1>1 DEF ListenInv, OnePlace, Somewhere, Distinct
<1>3. \A e \in Events : e[1] \in Nat /\ e[1] > 0 /\ e[2] \in {1, 2}
  BY DEF Events, Subs
<1>4. CASE HeadMoves \/ StartListener \/ BeginStop \/ StopReturns \/ UNCHANGED listenVars
  <2>1. /\ UNCHANGED <<first, lastBlock, target, sub, cur>>
        /\ \/ pollAt' = pollAt
           \/ pollAt = "none" /\ pollAt' = "starting"
        /\ listener' = "created" => listener = "created" /\ pollAt' = pollAt
    BY <1>4 DEF HeadMoves, StartListener, BeginStop, StopReturns, listenVars, ListenInv, BatchInv
  <2>2. head' \in Nat /\ head' <= MaxHead
    BY <1>4 DEF HeadMoves, StartListener, BeginStop, StopReturns, listenVars, ListenInv, ListenShape
  <2>3. ListenShape' /\ BatchInv'
    BY <1>1, <2>1, <2>2 DEF ListenInv, ListenShape, BatchInv, Distinct
  <2>4. \A e \in Events : (InRange(e)' <=> InRange(e)) /\ (Passed(e)' <=> Passed(e))
    BY <1>1, <2>1 DEF InRange, Passed, StillToPoll
  <2> QED
    BY <1>2, <2>1, <2>3, <2>4 DEF ListenInv, PassedInv
<1>5. CASE StartPoller
  <2>1. /\ pollAt = "starting" /\ UNCHANGED <<head, sub, cur>>
        /\ \/ first' = head /\ lastBlock' = head /\ target' = head /\ pollAt' = "waiting"
           \/ UNCHANGED <<first, lastBlock, target>> /\ pollAt' = "ended"
        /\ listener' # "created"
    BY <1>5 DEF StartPoller, ListenInv, BatchInv
  <2>2. ListenShape' /\ BatchInv'
    BY <1>1, <2>1 DEF ListenInv, ListenShape, BatchInv
  <2>3. \A e \in Events : ~Somewhere(e) /\ ~InRange(e)
    BY <1>3, <2>1 DEF ListenInv, ListenShape, BatchInv, PassedInv, Passed, InRange
  <2>4. \A e \in Events : ~InRange(e)' /\ (pollAt' # "ended" => ~Passed(e)')
    BY <1>3, <2>1, <2>3 DEF InRange, Passed, ListenInv, ListenShape
  <2> QED
    BY <1>2, <2>2, <2>3, <2>4 DEF ListenInv, PassedInv
<1>6. CASE Tick
  <2>1. /\ pollAt = "waiting" /\ head > lastBlock /\ UNCHANGED <<head, first, lastBlock>>
        /\ target' = head /\ sub' = 1 /\ cur' = lastBlock + 1 /\ pollAt' = "polling"
        /\ listener' # "created"
    BY <1>6 DEF Tick, ListenInv, BatchInv
  <2>2. batch = << >> /\ ToSet(batch) = {}
    BY <2>1 DEF ListenInv, BatchInv, ToSet
  <2>3. ListenShape' /\ BatchInv'
    BY <1>1, <2>1, <2>2 DEF ListenInv, ListenShape, BatchInv, Subs, Distinct
  <2>4. \A e \in Events : (InRange(e)' <=> InRange(e)) /\ (Passed(e)' <=> Passed(e))
    BY <1>1, <1>3, <2>1, <2>2 DEF ListenInv, ListenShape, InRange, Passed, StillToPoll
  <2> QED
    BY <1>2, <2>1, <2>3, <2>4 DEF ListenInv, PassedInv
<1>7. CASE NextSubscription
  <2>1. /\ pollAt = "polling" /\ batch = << >> /\ cur > target /\ UNCHANGED <<head, first, target>>
        /\ \/ sub = 1 /\ sub' = 2 /\ cur' = lastBlock + 1 /\ UNCHANGED <<lastBlock, pollAt>>
           \/ sub = 2 /\ lastBlock' = target /\ pollAt' = "waiting" /\ UNCHANGED <<sub, cur>>
        /\ listener' # "created"
    BY <1>7 DEF NextSubscription, ListenInv, ListenShape, BatchInv, Subs
  <2>2. ToSet(batch) = {}
    BY <2>1 DEF ToSet
  <2>3. ListenShape' /\ BatchInv'
    BY <1>1, <2>1, <2>2 DEF ListenInv, ListenShape, BatchInv, Subs, Distinct
  <2>4. \A e \in Events : Passed(e)' <=> Passed(e)
    BY <1>1, <1>3, <2>1, <2>2 DEF ListenInv, ListenShape, BatchInv, InRange, Passed, StillToPoll
  <2>5. \A e \in Events : InRange(e)' => Passed(e)'
    BY DEF Passed
  <2> QED
    BY <1>2, <2>1, <2>3, <2>4, <2>5 DEF ListenInv, PassedInv
<1>8. CASE EndPoller
  <2>1. pollAt' = "ended" /\ UNCHANGED <<head, first, lastBlock, target, sub, cur>> /\ listener' # "created"
    BY <1>8 DEF EndPoller, ListenInv, BatchInv
  <2>2. \A e \in Events : InRange(e)' <=> InRange(e)
    BY <2>1 DEF InRange
  <2> QED
    BY <1>1, <1>2, <2>1, <2>2 DEF ListenInv, ListenShape, BatchInv, PassedInv
<1> QED
  BY <1>4, <1>5, <1>6, <1>7, <1>8

(* An answer: what it does not hold is lost, the rest waits in the batch.  *)
LEMMA Fetched ==
  ASSUME ListenInv, FetchChunk
  PROVE  ListenInv'
<1> USE ChainListenerAssumption
<1>1. /\ pollAt = "polling" /\ batch = << >> /\ cur <= target
      /\ cur' = ChunkEnd + 1
      /\ UNCHANGED <<head, pollAt, first, lastBlock, target, sub, eventChan, hands, handled, listener>>
  BY DEF FetchChunk, queueVars
<1>2. /\ cur \in Nat \ {0} /\ target \in Nat /\ target <= MaxHead /\ ToSet(batch) = {}
      /\ lastBlock < cur
  BY <1>1 DEF ListenInv, ListenShape, BatchInv, ToSet
<1>3. ChunkEnd \in Nat /\ cur <= ChunkEnd /\ ChunkEnd <= target
  BY <1>1, <1>2 DEF ChunkEnd, Smaller
<1>4. PICK b \in (cur - 1)..ChunkEnd :
        /\ batch' = LogsIn(cur, b)
        /\ \/ lost' = lost /\ b = ChunkEnd
           \/ lost' = lost \cup ToSet(LogsIn(b + 1, ChunkEnd))
  <2>1. CASE batch' = LogsIn(cur, ChunkEnd) /\ lost' = lost
    <3>1. ChunkEnd \in (cur - 1)..ChunkEnd
      BY <1>2, <1>3
    <3> QED
      BY <2>1, <3>1
  <2>2. CASE \E b \in (cur - 1)..(ChunkEnd - 1) :
               batch' = LogsIn(cur, b) /\ lost' = lost \cup ToSet(LogsIn(b + 1, ChunkEnd))
    <3>1. PICK b \in (cur - 1)..(ChunkEnd - 1) :
            batch' = LogsIn(cur, b) /\ lost' = lost \cup ToSet(LogsIn(b + 1, ChunkEnd))
      BY <2>2
    <3>2. b \in (cur - 1)..ChunkEnd
      BY <1>2, <1>3
    <3> QED
      BY <3>1, <3>2
  <2> QED
    BY <2>1, <2>2 DEF FetchChunk
<1> DEFINE left == {<<x, sub>> : x \in (b + 1)..ChunkEnd}
<1>5. /\ batch' \in Seq(Events) /\ Distinct(batch')
      /\ ToSet(batch') = {<<x, sub>> : x \in cur..b}
  <2>1. b \in Nat /\ cur <= b + 1 /\ b <= MaxHead /\ cur \in Nat \ {0}
    BY <1>2, <1>3
  <2>2. ListenShape
    BY DEF ListenInv
  <2>3. /\ LogsIn(cur, b) \in Seq(Events) /\ Distinct(LogsIn(cur, b))
        /\ ToSet(LogsIn(cur, b)) = {<<x, sub>> : x \in cur..b}
    BY <2>1, <2>2, LogsOf
  <2> QED
    BY <1>4, <2>3
<1>6. lost' = lost \cup left
  <2>1. CASE lost' = lost \cup ToSet(LogsIn(b + 1, ChunkEnd))
    BY <1>2, <1>3, <2>1, LogsOf DEF ListenInv
  <2>2. CASE lost' = lost /\ b = ChunkEnd
    BY <1>3, <2>2
  <2> QED
    BY <1>4, <2>1, <2>2
<1>7. left \subseteq Events
  BY <1>2, <1>3 DEF Events, ListenInv, ListenShape
<1> HIDE DEF left
<1>8. ListenShape'
  BY <1>1, <1>3, <1>5, <1>6, <1>7 DEF ListenInv, ListenShape
<1>9. BatchInv'
  <2>1. \A e \in ToSet(batch') : e[2] = sub /\ lastBlock < e[1] /\ e[1] < cur'
    BY <1>1, <1>2, <1>3, <1>5 DEF ListenInv, ListenShape
  <2> QED
    BY <1>1, <1>2, <1>3, <1>5, <2>1 DEF ListenInv, BatchInv, ListenShape
<1>10. \A e \in Events : e \in left <=> e[2] = sub /\ b < e[1] /\ e[1] <= ChunkEnd
  <2>1. \A e \in left : e[2] = sub /\ b < e[1] /\ e[1] <= ChunkEnd
    BY <1>2, <1>3 DEF left
  <2>2. ASSUME NEW e \in Events, e[2] = sub, b < e[1], e[1] <= ChunkEnd  PROVE e \in left
    <3>1. e = <<e[1], e[2]>> /\ e[1] \in (b + 1)..ChunkEnd
      BY <1>2, <1>3, <2>2 DEF Events
    <3> QED
      BY <2>2, <3>1 DEF left
  <2> QED
    BY <2>1, <2>2
<1>11. \A e \in Events : e \in ToSet(batch') <=> e[2] = sub /\ cur <= e[1] /\ e[1] <= b
  <2>1. \A e \in ToSet(batch') : e[2] = sub /\ cur <= e[1] /\ e[1] <= b
    BY <1>2, <1>5
  <2>2. ASSUME NEW e \in Events, e[2] = sub, cur <= e[1], e[1] <= b  PROVE e \in ToSet(batch')
    <3>1. e = <<e[1], e[2]>> /\ e[1] \in cur..b
      BY <1>2, <1>3, <2>2 DEF Events
    <3> QED
      BY <1>5, <2>2, <3>1
  <2> QED
    BY <2>1, <2>2
<1>12. ASSUME NEW e \in Events
       PROVE  /\ Somewhere(e)' <=> Somewhere(e) \/ e \in left
              /\ Passed(e)' <=> Passed(e) \/ e \in left
              /\ e \in left => ~Passed(e)
              /\ InRange(e)' <=> InRange(e)
  <2>1. e[1] \in Nat /\ e[2] \in {1, 2} /\ sub \in {1, 2}
    BY DEF Events, Subs, ListenInv, ListenShape
  <2>2. Somewhere(e)' <=> Somewhere(e) \/ e \in left
    BY <1>1, <1>6 DEF Somewhere
  <2>3. InRange(e)' <=> InRange(e)
    BY <1>1 DEF InRange
  <2>4. Passed(e) <=> InRange(e) \/ (lastBlock < e[1] /\ e[1] <= target /\ ~(e[2] > sub)
                                     /\ ~(e[2] = sub /\ e[1] >= cur))
    BY <1>1, <1>2 DEF Passed, StillToPoll
  <2>5. Passed(e)' <=> InRange(e) \/ (lastBlock < e[1] /\ e[1] <= target /\ ~(e[2] > sub)
                                      /\ ~(e[2] = sub /\ (e[1] >= ChunkEnd + 1 \/ e \in ToSet(batch'))))
    BY <1>1, <2>3 DEF Passed, StillToPoll
  <2>6. e \in left => lastBlock < e[1] /\ e[1] <= target /\ e[1] >= cur /\ e[2] = sub
    BY <1>2, <1>3, <1>10, <2>1 DEF ListenInv, ListenShape
  <2>7. e \in left => ~InRange(e)
    BY <2>1, <2>6 DEF InRange, ListenInv, ListenShape
  <2>8. e \in left => ~Passed(e)
    BY <2>4, <2>6, <2>7
  <2>9. Passed(e)' <=> Passed(e) \/ e \in left
    BY <1>2, <1>3, <1>10, <1>11, <2>1, <2>4, <2>5, <2>6
  <2> QED
    BY <2>2, <2>3, <2>8, <2>9
<1>13. OnePlace'
  <2>1. \A e \in left : ~Somewhere(e)
    BY <1>1, <1>7, <1>12 DEF ListenInv, PassedInv
  <2>2. \A e \in left : e \notin ToSet(eventChan) /\ handled[e] = 0 /\ \A w \in EventWorkers : hands[w] # e
    BY <1>7, <2>1 DEF Somewhere, ListenInv, ListenShape
  <2>3. \A e \in ToSet(eventChan) : e \notin lost'
    BY <1>6, <2>2 DEF ListenInv, OnePlace
  <2>4. \A w \in EventWorkers : hands[w] \in Events => hands[w] \notin lost'
    BY <1>6, <2>2 DEF ListenInv, OnePlace
  <2>5. \A e \in lost' : handled[e] = 0
    BY <1>6, <2>2 DEF ListenInv, OnePlace
  <2> QED
    BY <1>1, <2>3, <2>4, <2>5 DEF ListenInv, OnePlace
<1>14. PassedInv'
  BY <1>1, <1>12 DEF ListenInv, PassedInv, Somewhere
<1> QED
  BY <1>8, <1>9, <1>13, <1>14 DEF ListenInv

(* A log leaves the batch, into the channel or out of the world.           *)
LEMMA Emitted ==
  ASSUME ListenInv, EmitLog
  PROVE  ListenInv'
<1>0. PICK x \in Events : x = Head(batch)
  <2>1. batch \in Seq(Events) /\ batch # << >>
    BY DEF EmitLog, ListenInv, ListenShape
  <2> QED
    BY <2>1
<1>1. /\ pollAt = "polling" /\ batch # << >> /\ batch' = Tail(batch)
      /\ \/ eventChan' = Append(eventChan, x) /\ lost' = lost
         \/ eventChan' = eventChan /\ lost' = lost \cup {x}
      /\ UNCHANGED <<head, pollAt, first, lastBlock, target, sub, cur, hands, handled, listener>>
  BY <1>0 DEF EmitLog
<1>2. batch \in Seq(Events) /\ eventChan \in Seq(Events) /\ Distinct(batch) /\ Distinct(eventChan)
  BY <1>1 DEF ListenInv, ListenShape, BatchInv, OnePlace
<1>3. /\ batch' \in Seq(Events) /\ Distinct(batch') /\ x \in Events
      /\ ToSet(batch) = ToSet(batch') \cup {x} /\ x \notin ToSet(batch')
  BY <1>0, <1>1, <1>2, TakenSet
<1>4. x[2] = sub /\ lastBlock < x[1] /\ x[1] < cur /\ x[1] <= target
  <2>1. x[2] = sub /\ lastBlock < x[1] /\ x[1] < cur /\ cur <= target + 1
    BY <1>1, <1>3 DEF ListenInv, BatchInv
  <2>2. x[1] \in Nat /\ cur \in Nat /\ target \in Nat
    BY <1>3 DEF Events, ListenInv, ListenShape
  <2> QED
    BY <2>1, <2>2
<1>5. ~Passed(x) /\ ~InRange(x)
  <2>1. ~InRange(x)
    <3>1. x[1] \in Nat /\ lastBlock \in Nat
      BY <1>3 DEF Events, ListenInv, ListenShape
    <3> QED
      BY <1>4, <3>1 DEF InRange
  <2>2. x \in ToSet(batch)
    BY <1>3
  <2> QED
    BY <1>4, <2>1, <2>2 DEF Passed, StillToPoll
<1>6. ~Somewhere(x)
  BY <1>1, <1>3, <1>5 DEF ListenInv, PassedInv
<1>7. x \notin ToSet(eventChan) /\ x \notin lost /\ handled[x] = 0 /\ \A w \in EventWorkers : hands[w] # x
  BY <1>3, <1>6 DEF Somewhere, ListenInv, ListenShape
<1>8. /\ eventChan' \in Seq(Events) /\ Distinct(eventChan')
      /\ \/ ToSet(eventChan') = ToSet(eventChan) \cup {x} /\ lost' = lost
         \/ ToSet(eventChan') = ToSet(eventChan) /\ lost' = lost \cup {x}
  <2>1. CASE eventChan' = Append(eventChan, x) /\ lost' = lost
    <3>1. /\ Append(eventChan, x) \in Seq(Events)
          /\ ToSet(Append(eventChan, x)) = ToSet(eventChan) \cup {x}
          /\ Distinct(Append(eventChan, x))
      BY <1>2, <1>3, <1>7, AppendedSet
    <3> QED
      BY <2>1, <3>1
  <2>2. CASE eventChan' = eventChan /\ lost' = lost \cup {x}
    BY <1>2, <2>2
  <2> QED
    BY <1>1, <2>1, <2>2
<1>9. ListenShape' /\ BatchInv'
  BY <1>1, <1>3, <1>8 DEF ListenInv, ListenShape, BatchInv
<1>10. OnePlace'
  BY <1>1, <1>7, <1>8 DEF ListenInv, OnePlace
<1>11. \A e \in Events : /\ Somewhere(e)' <=> Somewhere(e) \/ e = x
                         /\ Passed(e)' <=> Passed(e) \/ e = x
                         /\ InRange(e)' <=> InRange(e)
  <2> SUFFICES ASSUME NEW e \in Events
               PROVE  /\ Somewhere(e)' <=> Somewhere(e) \/ e = x
                      /\ Passed(e)' <=> Passed(e) \/ e = x
                      /\ InRange(e)' <=> InRange(e)
    OBVIOUS
  <2>1. Somewhere(e)' <=> Somewhere(e) \/ e = x
    BY <1>1, <1>8 DEF Somewhere
  <2>2. InRange(e)' <=> InRange(e)
    BY <1>1 DEF InRange
  <2>3. Passed(e)' <=> InRange(e) \/ (lastBlock < e[1] /\ e[1] <= target /\ ~StillToPoll(e)')
    BY <1>1, <2>2 DEF Passed
  <2>4. StillToPoll(e)' <=> e[2] > sub \/ (e[2] = sub /\ (e[1] >= cur \/ e \in ToSet(batch')))
    BY <1>1 DEF StillToPoll
  <2>5. ~StillToPoll(x)'
    <3>1. x[1] \in Nat /\ cur \in Nat /\ x[2] \in Nat
      BY <1>3 DEF Events, Subs, ListenInv, ListenShape
    <3>2. StillToPoll(x)' <=> x[2] > sub \/ (x[2] = sub /\ (x[1] >= cur \/ x \in ToSet(batch')))
      BY <1>1 DEF StillToPoll
    <3> QED
      BY <1>3, <1>4, <3>1, <3>2
  <2>6. e # x => (StillToPoll(e)' <=> StillToPoll(e))
    BY <1>3, <2>4 DEF StillToPoll
  <2>7. e # x => (Passed(e)' <=> Passed(e))
    BY <1>1, <2>3, <2>6 DEF Passed
  <2>8. e = x => Passed(e)'
    BY <1>4, <2>3, <2>5
  <2> QED
    BY <2>1, <2>2, <2>7, <2>8
<1>12. PassedInv'
  BY <1>1, <1>3, <1>5, <1>11 DEF ListenInv, PassedInv
<1> QED
  BY <1>9, <1>10, <1>12 DEF ListenInv

(* An event goes from the channel to a worker, and is processed.           *)
LEMMA WorkerMoves ==
  ASSUME ListenInv, NEW w \in EventWorkers, TakeChainEvent(w) \/ ProcessEvent(w) \/ EndWorker(w)
  PROVE  ListenInv'
<1>1. UNCHANGED <<head, pollAt, first, lastBlock, target, sub, cur, batch, lost, listener>>
  BY DEF TakeChainEvent, ProcessEvent, EndWorker
<1>2. \A e \in Events : (InRange(e)' <=> InRange(e)) /\ (Passed(e)' <=> Passed(e))
  BY <1>1 DEF InRange, Passed, StillToPoll
<1>3. NoEvent \notin Events /\ WorkerGone \notin Events
  BY DEF NoEvent, WorkerGone, Events
<1>4. hands \in [EventWorkers -> Events \cup {NoEvent, WorkerGone}] /\ handled \in [Events -> 0..1]
      /\ eventChan \in Seq(Events) /\ Distinct(eventChan)
  BY DEF ListenInv, ListenShape, OnePlace
<1>5. BatchInv'
  BY <1>1 DEF ListenInv, BatchInv
<1>6. CASE TakeChainEvent(w)
  <2> DEFINE x == Head(eventChan)
  <2>1. /\ hands[w] = NoEvent /\ eventChan # << >> /\ eventChan' = Tail(eventChan)
        /\ hands' = [hands EXCEPT ![w] = x] /\ handled' = handled
    BY <1>6 DEF TakeChainEvent
  <2>2. /\ eventChan' \in Seq(Events) /\ Distinct(eventChan') /\ x \in Events
        /\ ToSet(eventChan) = ToSet(eventChan') \cup {x} /\ x \notin ToSet(eventChan')
    BY <1>4, <2>1, TakenSet
  <2> HIDE DEF x
  <2>3. hands'[w] = x /\ \A v \in EventWorkers : v # w => hands'[v] = hands[v]
    BY <1>4, <2>1
  <2>4. handled[x] = 0 /\ x \notin lost /\ \A v \in EventWorkers : hands[v] # x
    BY <2>2 DEF ListenInv, OnePlace
  <2>5. OnePlace'
    <3>1. \A v, u \in EventWorkers : hands'[v] = hands'[u] /\ hands'[v] \in Events => v = u
      BY <2>3, <2>4 DEF ListenInv, OnePlace
    <3>2. \A e \in ToSet(eventChan') : /\ handled[e] = 0 /\ e \notin lost
                                       /\ \A v \in EventWorkers : hands'[v] # e
      BY <2>2, <2>3 DEF ListenInv, OnePlace
    <3>3. \A v \in EventWorkers : hands'[v] \in Events => handled[hands'[v]] = 0 /\ hands'[v] \notin lost
      BY <2>3, <2>4 DEF ListenInv, OnePlace
    <3> QED
      BY <1>1, <2>1, <2>2, <3>1, <3>2, <3>3 DEF ListenInv, OnePlace
  <2>6. ASSUME NEW e \in Events  PROVE Somewhere(e)' <=> Somewhere(e)
    <3>1. (\E v \in EventWorkers : hands'[v] = e) <=> (\E v \in EventWorkers : hands[v] = e) \/ e = x
      BY <1>3, <2>1, <2>3
    <3> QED
      BY <1>1, <2>1, <2>2, <3>1 DEF Somewhere
  <2>7. ListenShape'
    BY <1>1, <2>1, <2>2 DEF ListenInv, ListenShape
  <2> QED
    BY <1>1, <1>2, <1>5, <2>5, <2>6, <2>7 DEF ListenInv, PassedInv
<1>7. CASE ProcessEvent(w)
  <2> DEFINE x == hands[w]
  <2>1. /\ x \in Events /\ eventChan' = eventChan
        /\ hands' = [hands EXCEPT ![w] = NoEvent] /\ handled' = [handled EXCEPT ![x] = @ + 1]
    BY <1>7 DEF ProcessEvent
  <2>2. hands'[w] = NoEvent /\ \A v \in EventWorkers : v # w => hands'[v] = hands[v]
    BY <1>4, <2>1
  <2>3. handled[x] = 0 /\ x \notin lost /\ x \notin ToSet(eventChan)
        /\ \A v \in EventWorkers : v # w => hands[v] # x
    BY <2>1 DEF ListenInv, OnePlace
  <2>4. handled' \in [Events -> 0..1] /\ handled'[x] = 1 /\ \A e \in Events : e # x => handled'[e] = handled[e]
    BY <1>4, <2>1, <2>3
  <2> HIDE DEF x
  <2>5. OnePlace'
    <3>1. \A v, u \in EventWorkers : hands'[v] = hands'[u] /\ hands'[v] \in Events => v = u
      BY <1>3, <2>2 DEF ListenInv, OnePlace
    <3>2. \A e \in ToSet(eventChan) : e \in Events
      BY <1>4 DEF ToSet
    <3>3. \A e \in ToSet(eventChan) : /\ handled'[e] = 0 /\ e \notin lost
                                      /\ \A v \in EventWorkers : hands'[v] # e
      <4>1. NoEvent \notin ToSet(eventChan)
        BY <1>3, <3>2
      <4> QED
        BY <2>2, <2>3, <2>4, <3>2, <4>1 DEF ListenInv, OnePlace
    <3>4. \A v \in EventWorkers : hands'[v] \in Events => handled'[hands'[v]] = 0 /\ hands'[v] \notin lost
      BY <1>3, <2>2, <2>3, <2>4 DEF ListenInv, OnePlace
    <3>5. \A e \in lost : handled'[e] = 0
      BY <2>3, <2>4 DEF ListenInv, OnePlace, ListenShape
    <3> QED
      BY <1>1, <2>1, <3>1, <3>3, <3>4, <3>5 DEF ListenInv, OnePlace
  <2>6. ASSUME NEW e \in Events  PROVE Somewhere(e)' <=> Somewhere(e)
    <3>1. (\E v \in EventWorkers : hands'[v] = e) \/ e = x <=> (\E v \in EventWorkers : hands[v] = e)
      BY <1>3, <2>2 DEF x
    <3>2. handled'[e] = 1 <=> handled[e] = 1 \/ e = x
      BY <2>3, <2>4
    <3> QED
      BY <1>1, <2>1, <3>1, <3>2 DEF Somewhere
  <2>7. ListenShape'
    BY <1>1, <2>1, <2>4 DEF ListenInv, ListenShape
  <2> QED
    BY <1>1, <1>2, <1>5, <2>5, <2>6, <2>7 DEF ListenInv, PassedInv
<1>8. CASE EndWorker(w)
  <2>1. /\ hands[w] = NoEvent /\ hands' = [hands EXCEPT ![w] = WorkerGone]
        /\ UNCHANGED <<eventChan, handled>>
    BY <1>8 DEF EndWorker
  <2>2. hands'[w] = WorkerGone /\ \A v \in EventWorkers : v # w => hands'[v] = hands[v]
    BY <1>4, <2>1
  <2>3. \A e \in ToSet(eventChan) : e \in Events
    BY <1>4 DEF ToSet
  <2>4. OnePlace'
    <3>1. \A e \in ToSet(eventChan) : \A v \in EventWorkers : hands'[v] # e
      BY <1>3, <2>2, <2>3 DEF ListenInv, OnePlace
    <3> QED
      BY <1>1, <1>3, <2>1, <2>2, <3>1 DEF ListenInv, OnePlace
  <2>5. ASSUME NEW e \in Events  PROVE Somewhere(e)' <=> Somewhere(e)
    <3>1. (\E v \in EventWorkers : hands'[v] = e) <=> (\E v \in EventWorkers : hands[v] = e)
      BY <1>3, <2>1, <2>2
    <3> QED
      BY <1>1, <2>1, <3>1 DEF Somewhere
  <2>6. ListenShape'
    BY <1>1, <2>1 DEF ListenInv, ListenShape
  <2> QED
    BY <1>1, <1>2, <1>5, <2>4, <2>5, <2>6 DEF ListenInv, PassedInv
<1> QED
  BY <1>6, <1>7, <1>8

LEMMA ListenPreserved == ASSUME ListenInv, [ListenNext]_listenVars  PROVE ListenInv'
BY PollerMoves, Fetched, Emitted, WorkerMoves DEF ListenNext

-----------------------------------------------------------------------------
LEMMA Copies ==
  ASSUME ListenInv, NEW e \in Events
  PROVE  /\ CopiesOf(e) + (IF e \in lost THEN 1 ELSE 0) <= 1
         /\ Somewhere(e) => CopiesOf(e) = 1 \/ e \in lost
<1> DEFINE P == {n \in DOMAIN eventChan : eventChan[n] = e}
           H == {w \in EventWorkers : hands[w] = e}
<1>1. CopiesOf(e) = Cardinality(P) + Cardinality(H) + handled[e]
  BY DEF CopiesOf
<1>2. handled[e] \in 0..1
  BY DEF ListenInv, ListenShape
<1>3. P = {} \/ \E n \in P : P = {n}
  BY DEF ListenInv, OnePlace, Distinct
<1>4. H = {} \/ \E w \in H : H = {w}
  BY DEF ListenInv, OnePlace
<1>5. P # {} <=> e \in ToSet(eventChan)
  BY DEF ToSet
<1>6. P # {} => H = {} /\ handled[e] = 0 /\ e \notin lost
  BY <1>5 DEF ListenInv, OnePlace
<1>7. H # {} => handled[e] = 0 /\ e \notin lost
  BY DEF ListenInv, OnePlace
<1>8. e \in lost => handled[e] = 0
  BY DEF ListenInv, OnePlace
<1>9. H # {} <=> \E w \in EventWorkers : hands[w] = e
  OBVIOUS
<1> HIDE DEF P, H
<1>10. Cardinality(P) = IF P = {} THEN 0 ELSE 1
  BY <1>3, FS_Singleton, FS_EmptySet
<1>11. Cardinality(H) = IF H = {} THEN 0 ELSE 1
  BY <1>4, FS_Singleton, FS_EmptySet
<1> QED
  BY <1>1, <1>2, <1>5, <1>6, <1>7, <1>8, <1>9, <1>10, <1>11 DEF Somewhere

\* CoveredOnce: no event is processed twice, and every event of a range the poller
\* has gone through is in the channel, with a worker or processed, or was lost in one
\* of the named ways: for every number of blocks, workers, polls and reorganisations.
THEOREM Coverage == ListenSpec => []CoveredOnce
<1>1. ListenInv => CoveredOnce
  <2> SUFFICES ASSUME ListenInv  PROVE CoveredOnce
    OBVIOUS
  <2>1. ASSUME NEW e \in Events,
               e[1] \in (first + 1)..lastBlock \/ (pollAt = "polling" /\ e \in ToPoll /\ ~StillToPoll(e))
        PROVE  Somewhere(e)
    <3>1. e[1] \in (first + 1)..lastBlock => InRange(e)
      BY DEF InRange, ListenInv, ListenShape
    <3>2. pollAt = "polling" /\ e \in ToPoll /\ ~StillToPoll(e) => Passed(e)
      BY DEF ToPoll, Passed, ListenInv, ListenShape
    <3> QED
      BY <2>1, <3>1, <3>2 DEF ListenInv, PassedInv
  <2> QED
    BY <2>1, Copies DEF CoveredOnce
<1> QED
  BY <1>1, ListenInitially, ListenPreserved, PTL DEF ListenSpec
=============================================================================
