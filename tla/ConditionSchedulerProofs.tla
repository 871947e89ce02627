----------------------- MODULE ConditionSchedulerProofs -----------------------
(***************************************************************************)
(* What the condition scheduler's locks protect, for every set of jobs and *)
(* every bound: proofs by one inductive invariant, IInv.                   *)
(***************************************************************************)
EXTENDS ConditionScheduler, ConditionValues, TLAPS

-----------------------------------------------------------------------------
(* The inductive invariant.                                                *)

(* The types the proofs need; they are inductive by themselves.            *)
Shape ==
  /\ jobDataStore \subseteq Jobs
  /\ scheduled \in [Jobs -> Nat]
  /\ pc \in [Workers -> {"none", "start", "loop", "notify", "lookup", "submit",
                         "after", "done"}]
  /\ pending \in [Workers -> Nat]
  /\ stop \in [Workers -> {"none", "cleanup", "delete"}]
  /\ hpc \in [EventJobs -> {"idle", "get", "notify", "lookup", "submit", "unregister"}]
  /\ down \in {"no", "stopping", "exited", "panicked"}
  /\ spc \in [Stoppers -> {"no", "cancel", "lock", "workers", "cleanup", "blocked", "done"}]

(* Whoever is between its Lock and its Unlock of notificationMutex holds   *)
(* it.                                                                     *)
MutexInv ==
  /\ \A w \in Workers : pc[w] \in {"lookup", "submit"} => notificationMutex = Loop(w)
  /\ \A w \in Workers : stop[w] = "delete" => notificationMutex = Stopping(w)
  /\ \A j \in EventJobs : hpc[j] \in {"lookup", "submit"} => notificationMutex = Handler(j)

(* Only workers that were made have a Stop, and one that has begun has     *)
(* cancelled the worker's context.                                         *)
MadeInv ==
  \A w \in Workers :
    /\ pc[w] # "none" => w[2] <= scheduled[JobOf(w)]
    /\ pending[w] > 0 => pc[w] # "none"
    /\ stop[w] # "none" => pc[w] # "none" /\ w \in cancelled

(* Nobody stops the scheduler before it is told to, and from s.cancel() on *)
(* every worker's context is cancelled, that of a later one too.           *)
Cancels(t) == spc[t] \notin {"no", "cancel"}

ShutdownInv ==
  /\ \A t \in Stoppers : spc[t] # "no" => down # "no"
  /\ (\E t \in Stoppers : Cancels(t)) => \A w \in Workers : pc[w] # "none" => w \in cancelled

Inv ==
  /\ MutexInv
  /\ MadeInv
  /\ ShutdownInv
  /\ NotificationKeepsData
  /\ WatchedHasData

IInv == Shape /\ Inv

-----------------------------------------------------------------------------
(* Constants and lock holders.                                             *)

(* A worker is a job, never an event job, and a number.                    *)
LEMMA WorkerShape ==
  \A w \in Workers : /\ JobOf(w) \in ConditionJobs \cup WebSocketJobs
                     /\ JobOf(w) \in Jobs /\ JobOf(w) \notin EventJobs
                     /\ w[2] \in Nat \ {0}
                     /\ w = <<JobOf(w), w[2]>>
<1> SUFFICES ASSUME NEW j \in ConditionJobs \cup WebSocketJobs,
                    NEW w \in {j} \X (1 .. MaxSchedules[j])
             PROVE  /\ JobOf(w) = j
                    /\ j \in Jobs /\ j \notin EventJobs
                    /\ w[2] \in Nat \ {0}
                    /\ w = <<JobOf(w), w[2]>>
  BY DEF Workers
<1>1. MaxSchedules[j] \in Nat /\ j \in Jobs /\ j \notin EventJobs
  BY ConditionSchedulerAssumption DEF Jobs
<1> QED
  BY <1>1 DEF JobOf

(* Two holders of a lock are told apart.                                   *)
LEMMA Holders ==
  /\ \A w, v \in Workers : (Loop(w) = Loop(v) \/ Stopping(w) = Stopping(v)) => w = v
  /\ \A w, v \in Workers : Loop(w) # Stopping(v)
  /\ \A i, j \in EventJobs : Handler(i) = Handler(j) => i = j
  /\ \A w \in Workers, j \in EventJobs : Loop(w) # Handler(j) /\ Stopping(w) # Handler(j)
  /\ \A w \in Workers : Loop(w) # Unscheduler /\ Stopping(w) # Unscheduler
  /\ \A j \in EventJobs : Handler(j) # Unscheduler
BY DEF Loop, Stopping, Handler, Unscheduler

(* With the mutex free nobody is between its Lock and its Unlock.          *)
LEMMA FreeMutex ==
  ASSUME MutexInv, notificationMutex = Free
  PROVE  /\ \A w \in Workers : pc[w] \notin {"lookup", "submit"} /\ stop[w] # "delete"
         /\ \A j \in EventJobs : hpc[j] \notin {"lookup", "submit"}
<1>1. \A w \in Workers : Loop(w) # Free /\ Stopping(w) # Free
  BY DEF Loop, Stopping, Free
<1>2. \A j \in EventJobs : Handler(j) # Free
  BY DEF Handler, Free
<1> QED
  BY <1>1, <1>2 DEF MutexInv

-----------------------------------------------------------------------------
(* A step keeps each part of the invariant.                                *)

(* Every action writes each variable in its range.                         *)
LEMMA ShapeStep == Shape /\ [Next]_vars => Shape'
<1> SUFFICES ASSUME Shape, [Next]_vars PROVE Shape'
  OBVIOUS
<1> USE WorkerShape DEF Shape, Step, Handle, maps, workerVars, stopVars
<1>1. ASSUME NEW u \in Workers, ScheduleWorker(u) PROVE Shape'
  BY <1>1 DEF ScheduleWorker
<1>2. ASSUME NEW u \in Workers, WorkerLoop(u) PROVE Shape'
  BY <1>2 DEF WorkerLoop, WorkerStart, LoopEnds, TickExpired
<1>3. ASSUME NEW u \in Workers, TickSatisfied(u) PROVE Shape'
  BY <1>3 DEF TickSatisfied
<1>4. ASSUME NEW u \in Workers, WorkerNotification(u) PROVE Shape'
  BY <1>4 DEF WorkerNotification, WorkerNotify, WorkerLookup, WorkerSubmit, Submitted,
       WorkerAfter
<1>5. ASSUME NEW u \in Workers, StopStep(u) PROVE Shape'
  BY <1>5 DEF StopStep, StopBegin, CleanupLock, CleanupDelete
<1>6. ASSUME NEW i \in EventJobs, ScheduleEvent(i) PROVE Shape'
  BY <1>6, i \in Jobs DEF ScheduleEvent, Jobs
<1>7. ASSUME NEW i \in EventJobs, MonitorDrops(i) PROVE Shape'
  BY <1>7, i \in Jobs DEF MonitorDrops, Jobs
<1>8. ASSUME NEW i \in EventJobs, EventArrives(i) PROVE Shape'
  BY <1>8, i \in Jobs DEF EventArrives, Jobs
<1>9. ASSUME NEW i \in EventJobs, HandlerStep(i) PROVE Shape'
  BY <1>9, i \in Jobs DEF HandlerStep, EventGet, EventNotify, EventLookup,
       EventSubmit, Submitted, UnregisterEventJob, Jobs
<1>10. ASSUME NEW i \in Jobs, Expire(i) PROVE Shape'
  BY <1>10, i \in Jobs DEF Expire, Jobs
<1>11. ASSUME Shutdown PROVE Shape'
  BY <1>11 DEF Shutdown
<1>12. ASSUME Exit PROVE Shape'
  BY <1>12 DEF Exit
<1>13. ASSUME NEW s \in Stoppers, StopperStep(s) PROVE Shape'
  BY <1>13 DEF StopperStep, StopCancel, StopLock, StopWorker, StopCleanup,
       StopRest
<1>14. ASSUME UnscheduleLock \/ UnscheduleJob PROVE Shape'
  BY <1>14 DEF UnscheduleLock, UnscheduleJob, Acquire, Release
<1>15. CASE UNCHANGED vars
  BY <1>15 DEF vars
<1> QED
  BY <1>1, <1>2, <1>3, <1>4, <1>5, <1>6, <1>7, <1>8, <1>9, <1>10, <1>11,
     <1>12, <1>13, <1>14, <1>15
  DEF Next

(* Lock is taken only when the mutex is free: nobody is inside then.       *)
LEMMA MutexInvStep == IInv /\ [Next]_vars => MutexInv'
<1> SUFFICES ASSUME IInv, [Next]_vars PROVE MutexInv'
  OBVIOUS
<1> USE Holders, FreeMutex
    DEF IInv, Inv, Shape, MutexInv,
        Step, Handle, Acquire, Release, locks, maps, workerVars, stopVars
<1>1. ASSUME NEW u \in Workers, ScheduleWorker(u) PROVE MutexInv'
  BY <1>1 DEF ScheduleWorker
<1>2. ASSUME NEW u \in Workers, WorkerLoop(u) PROVE MutexInv'
  BY <1>2 DEF WorkerLoop, WorkerStart, LoopEnds, TickExpired
<1>3. ASSUME NEW u \in Workers, TickSatisfied(u) PROVE MutexInv'
  BY <1>3 DEF TickSatisfied
<1>4. ASSUME NEW u \in Workers, WorkerNotify(u) PROVE MutexInv'
  BY <1>4 DEF WorkerNotify
<1>5. ASSUME NEW u \in Workers, WorkerLookup(u) PROVE MutexInv'
  BY <1>5 DEF WorkerLookup
<1>6. ASSUME NEW u \in Workers, WorkerSubmit(u) PROVE MutexInv'
  BY <1>6 DEF WorkerSubmit, Submitted
<1>7. ASSUME NEW u \in Workers, WorkerAfter(u) PROVE MutexInv'
  BY <1>7 DEF WorkerAfter
<1>8. ASSUME NEW u \in Workers, StopBegin(u) PROVE MutexInv'
  BY <1>8 DEF StopBegin
<1>9. ASSUME NEW u \in Workers, CleanupLock(u) PROVE MutexInv'
  BY <1>9 DEF CleanupLock
<1>10. ASSUME NEW u \in Workers, CleanupDelete(u) PROVE MutexInv'
  BY <1>10 DEF CleanupDelete
<1>11. ASSUME NEW i \in EventJobs, ScheduleEvent(i) PROVE MutexInv'
  BY <1>11 DEF ScheduleEvent
<1>12. ASSUME NEW i \in EventJobs, MonitorDrops(i) PROVE MutexInv'
  BY <1>12 DEF MonitorDrops
<1>13. ASSUME NEW i \in EventJobs, EventArrives(i) PROVE MutexInv'
  BY <1>13 DEF EventArrives
<1>14. ASSUME NEW i \in EventJobs, EventGet(i) PROVE MutexInv'
  BY <1>14 DEF EventGet
<1>15. ASSUME NEW i \in EventJobs, EventNotify(i) PROVE MutexInv'
  BY <1>15 DEF EventNotify
<1>16. ASSUME NEW i \in EventJobs, EventLookup(i) PROVE MutexInv'
  BY <1>16 DEF EventLookup
<1>17. ASSUME NEW i \in EventJobs, EventSubmit(i) PROVE MutexInv'
  BY <1>17 DEF EventSubmit, Submitted
<1>18. ASSUME NEW i \in EventJobs, UnregisterEventJob(i) PROVE MutexInv'
  BY <1>18 DEF UnregisterEventJob
<1>19. ASSUME NEW i \in Jobs, Expire(i) PROVE MutexInv'
  BY <1>19 DEF Expire
<1>20. ASSUME Shutdown PROVE MutexInv'
  BY <1>20 DEF Shutdown
<1>21. ASSUME Exit PROVE MutexInv'
  BY <1>21 DEF Exit
<1>22. ASSUME NEW s \in Stoppers, StopCancel(s) PROVE MutexInv'
  BY <1>22 DEF StopCancel
<1>23. ASSUME NEW s \in Stoppers, StopLock(s) PROVE MutexInv'
  BY <1>23 DEF StopLock
<1>24. ASSUME NEW s \in Stoppers, StopWorker(s) PROVE MutexInv'
  BY <1>24 DEF StopWorker
<1>25. ASSUME NEW s \in Stoppers, StopCleanup(s) PROVE MutexInv'
  BY <1>25 DEF StopCleanup
<1>26. ASSUME NEW s \in Stoppers, StopRest(s) PROVE MutexInv'
  BY <1>26 DEF StopRest
<1>27. ASSUME UnscheduleLock \/ UnscheduleJob PROVE MutexInv'
  BY <1>27 DEF UnscheduleLock, UnscheduleJob
<1>28. CASE UNCHANGED vars
  BY <1>28 DEF vars
<1> QED
  BY <1>1, <1>2, <1>3, <1>4, <1>5, <1>6, <1>7, <1>8, <1>9, <1>10, <1>11,
     <1>12, <1>13, <1>14, <1>15, <1>16, <1>17, <1>18, <1>19, <1>20, <1>21, <1>22,
     <1>23, <1>24, <1>25, <1>26, <1>27, <1>28
  DEF Next, WorkerNotification, StopStep, HandlerStep, StopperStep

(* A Stop begins on a worker that is running, and cancels it first.        *)
LEMMA MadeInvStep == IInv /\ [Next]_vars => MadeInv'
<1> SUFFICES ASSUME IInv, [Next]_vars PROVE MadeInv'
  OBVIOUS
<1> USE WorkerShape
    DEF IInv, Inv, Shape, MadeInv,
        Step, Handle, Acquire, Release, locks, maps, workerVars, stopVars
<1>1. ASSUME NEW u \in Workers, ScheduleWorker(u) PROVE MadeInv'
  BY <1>1 DEF ScheduleWorker
<1>2. ASSUME NEW u \in Workers, WorkerLoop(u) PROVE MadeInv'
  BY <1>2 DEF WorkerLoop, WorkerStart, LoopEnds, TickExpired
<1>3. ASSUME NEW u \in Workers, TickSatisfied(u) PROVE MadeInv'
  BY <1>3 DEF TickSatisfied
<1>4. ASSUME NEW u \in Workers, WorkerNotification(u) PROVE MadeInv'
  BY <1>4 DEF WorkerNotification, WorkerNotify, WorkerLookup, WorkerSubmit, Submitted,
       WorkerAfter
<1>5. ASSUME NEW u \in Workers, StopStep(u) PROVE MadeInv'
  BY <1>5 DEF StopStep, StopBegin, CleanupLock, CleanupDelete
<1>6. ASSUME NEW i \in EventJobs, ScheduleEvent(i) PROVE MadeInv'
  BY <1>6 DEF ScheduleEvent
<1>7. ASSUME NEW i \in EventJobs, MonitorDrops(i) PROVE MadeInv'
  BY <1>7 DEF MonitorDrops
<1>8. ASSUME NEW i \in EventJobs, EventArrives(i) PROVE MadeInv'
  BY <1>8 DEF EventArrives
<1>9. ASSUME NEW i \in EventJobs, HandlerStep(i) PROVE MadeInv'
  BY <1>9 DEF HandlerStep, EventGet, EventNotify, EventLookup, EventSubmit, Submitted,
       UnregisterEventJob
<1>10. ASSUME NEW i \in Jobs, Expire(i) PROVE MadeInv'
  BY <1>10 DEF Expire
<1>11. ASSUME Shutdown PROVE MadeInv'
  BY <1>11 DEF Shutdown
<1>12. ASSUME Exit PROVE MadeInv'
  BY <1>12 DEF Exit
<1>13. ASSUME NEW s \in Stoppers, StopperStep(s) PROVE MadeInv'
  BY <1>13 DEF StopperStep, StopCancel, StopLock, StopWorker, StopCleanup,
       StopRest
<1>14. ASSUME UnscheduleLock \/ UnscheduleJob PROVE MadeInv'
  BY <1>14 DEF UnscheduleLock, UnscheduleJob
<1>15. CASE UNCHANGED vars
  BY <1>15 DEF vars
<1> QED
  BY <1>1, <1>2, <1>3, <1>4, <1>5, <1>6, <1>7, <1>8, <1>9, <1>10, <1>11,
     <1>12, <1>13, <1>14, <1>15
  DEF Next

(* The workers ScheduleJob makes after s.cancel() are born cancelled.      *)
LEMMA ShutdownInvStep == IInv /\ [Next]_vars => ShutdownInv'
<1> SUFFICES ASSUME IInv, [Next]_vars PROVE ShutdownInv'
  OBVIOUS
<1> USE WorkerShape
    DEF IInv, Inv, Shape, ShutdownInv, Cancels, Stoppers,
        Step, Handle, Acquire, Release, locks, maps, workerVars, stopVars
<1>1. ASSUME NEW u \in Workers, ScheduleWorker(u) PROVE ShutdownInv'
  BY <1>1 DEF ScheduleWorker
<1>2. ASSUME NEW u \in Workers, WorkerLoop(u) PROVE ShutdownInv'
  BY <1>2 DEF WorkerLoop, WorkerStart, LoopEnds, TickExpired
<1>3. ASSUME NEW u \in Workers, TickSatisfied(u) PROVE ShutdownInv'
  BY <1>3 DEF TickSatisfied
<1>4. ASSUME NEW u \in Workers, WorkerNotification(u) PROVE ShutdownInv'
  BY <1>4 DEF WorkerNotification, WorkerNotify, WorkerLookup, WorkerSubmit, Submitted,
       WorkerAfter
<1>5. ASSUME NEW u \in Workers, StopStep(u) PROVE ShutdownInv'
  BY <1>5 DEF StopStep, StopBegin, CleanupLock, CleanupDelete
<1>6. ASSUME NEW i \in EventJobs, ScheduleEvent(i) PROVE ShutdownInv'
  BY <1>6 DEF ScheduleEvent
<1>7. ASSUME NEW i \in EventJobs, MonitorDrops(i) PROVE ShutdownInv'
  BY <1>7 DEF MonitorDrops
<1>8. ASSUME NEW i \in EventJobs, EventArrives(i) PROVE ShutdownInv'
  BY <1>8 DEF EventArrives
<1>9. ASSUME NEW i \in EventJobs, HandlerStep(i) PROVE ShutdownInv'
  BY <1>9 DEF HandlerStep, EventGet, EventNotify, EventLookup, EventSubmit, Submitted,
       UnregisterEventJob
<1>10. ASSUME NEW i \in Jobs, Expire(i) PROVE ShutdownInv'
  BY <1>10 DEF Expire
<1>11. ASSUME Shutdown PROVE ShutdownInv'
  BY <1>11 DEF Shutdown
<1>12. ASSUME Exit PROVE ShutdownInv'
  BY <1>12 DEF Exit
<1>13. ASSUME NEW s \in Stoppers, StopperStep(s) PROVE ShutdownInv'
  BY <1>13 DEF StopperStep, StopCancel, StopLock, StopWorker, StopCleanup,
       StopRest
<1>14. ASSUME UnscheduleLock \/ UnscheduleJob PROVE ShutdownInv'
  BY <1>14 DEF UnscheduleLock, UnscheduleJob
<1>15. CASE UNCHANGED vars
  BY <1>15 DEF vars
<1> QED
  BY <1>1, <1>2, <1>3, <1>4, <1>5, <1>6, <1>7, <1>8, <1>9, <1>10, <1>11,
     <1>12, <1>13, <1>14, <1>15
  DEF Next

(* Only cleanupJobData deletes data, and it holds the mutex then.          *)
LEMMA NotificationKeepsDataStep == IInv /\ [Next]_vars => NotificationKeepsData'
<1> SUFFICES ASSUME IInv, [Next]_vars PROVE NotificationKeepsData'
  OBVIOUS
<1> USE WorkerShape, Holders
    DEF IInv, Inv, Shape, NotificationKeepsData, MutexInv, ShutdownInv,
        Step, Handle, Acquire, Release, locks, maps, workerVars, stopVars
<1>1. ASSUME NEW u \in Workers, ScheduleWorker(u) PROVE NotificationKeepsData'
  BY <1>1 DEF ScheduleWorker
<1>2. ASSUME NEW u \in Workers, WorkerLoop(u) PROVE NotificationKeepsData'
  BY <1>2 DEF WorkerLoop, WorkerStart, LoopEnds, TickExpired
<1>3. ASSUME NEW u \in Workers, TickSatisfied(u) PROVE NotificationKeepsData'
  BY <1>3 DEF TickSatisfied
<1>4. ASSUME NEW u \in Workers, WorkerNotification(u) PROVE NotificationKeepsData'
  BY <1>4 DEF WorkerNotification, WorkerNotify, WorkerLookup, WorkerSubmit, Submitted,
       WorkerAfter
<1>5. ASSUME NEW u \in Workers, StopStep(u) PROVE NotificationKeepsData'
  BY <1>5 DEF StopStep, StopBegin, CleanupLock, CleanupDelete
<1>6. ASSUME NEW i \in EventJobs, ScheduleEvent(i) PROVE NotificationKeepsData'
  BY <1>6 DEF ScheduleEvent
<1>7. ASSUME NEW i \in EventJobs, MonitorDrops(i) PROVE NotificationKeepsData'
  BY <1>7 DEF MonitorDrops
<1>8. ASSUME NEW i \in EventJobs, EventArrives(i) PROVE NotificationKeepsData'
  BY <1>8 DEF EventArrives
<1>9. ASSUME NEW i \in EventJobs, HandlerStep(i) PROVE NotificationKeepsData'
  BY <1>9 DEF HandlerStep, EventGet, EventNotify, EventLookup, EventSubmit, Submitted,
       UnregisterEventJob
<1>10. ASSUME NEW i \in Jobs, Expire(i) PROVE NotificationKeepsData'
  BY <1>10 DEF Expire
<1>11. ASSUME Shutdown PROVE NotificationKeepsData'
  BY <1>11 DEF Shutdown
<1>12. ASSUME Exit PROVE NotificationKeepsData'
  BY <1>12 DEF Exit
<1>13. ASSUME NEW s \in Stoppers, StopperStep(s) PROVE NotificationKeepsData'
  BY <1>13 DEF StopperStep, StopCancel, StopLock, StopWorker, StopCleanup,
       StopRest
<1>14. ASSUME UnscheduleLock \/ UnscheduleJob PROVE NotificationKeepsData'
  BY <1>14 DEF UnscheduleLock, UnscheduleJob
<1>15. CASE UNCHANGED vars
  BY <1>15 DEF vars
<1> QED
  BY <1>1, <1>2, <1>3, <1>4, <1>5, <1>6, <1>7, <1>8, <1>9, <1>10, <1>11,
     <1>12, <1>13, <1>14, <1>15
  DEF Next

(* The worker whose cleanup deletes the data of a job scheduled once is    *)
(* the only worker of the job, and it is cancelled.                        *)
LEMMA WatchedHasDataStep == IInv /\ [Next]_vars => WatchedHasData'
<1> SUFFICES ASSUME IInv, [Next]_vars PROVE WatchedHasData'
  OBVIOUS
<1> USE WorkerShape
    DEF IInv, Inv, Shape, WatchedHasData, MadeInv, ShutdownInv, Cancels, Stoppers,
        Step, Handle, Acquire, Release, locks, maps, workerVars, stopVars
<1>1. ASSUME NEW u \in Workers, ScheduleWorker(u) PROVE WatchedHasData'
  BY <1>1 DEF ScheduleWorker
<1>2. ASSUME NEW u \in Workers, WorkerLoop(u) PROVE WatchedHasData'
  BY <1>2 DEF WorkerLoop, WorkerStart, LoopEnds, TickExpired
<1>3. ASSUME NEW u \in Workers, TickSatisfied(u) PROVE WatchedHasData'
  BY <1>3 DEF TickSatisfied
<1>4. ASSUME NEW u \in Workers, WorkerNotification(u) PROVE WatchedHasData'
  BY <1>4 DEF WorkerNotification, WorkerNotify, WorkerLookup, WorkerSubmit, Submitted,
       WorkerAfter
<1>5. ASSUME NEW u \in Workers, StopBegin(u) PROVE WatchedHasData'
  BY <1>5 DEF StopBegin
<1>6. ASSUME NEW u \in Workers, CleanupLock(u) PROVE WatchedHasData'
  BY <1>6 DEF CleanupLock
<1>7. ASSUME NEW u \in Workers, CleanupDelete(u) PROVE WatchedHasData'
  <2>1. /\ u \in cancelled /\ u[2] <= scheduled[JobOf(u)]
        /\ jobDataStore' = jobDataStore \ {JobOf(u)}
    BY <1>7 DEF CleanupDelete
  <2>2. ASSUME NEW w \in Workers, pc[w] # "none", scheduled[JobOf(w)] = 1, JobOf(w) = JobOf(u)
        PROVE  w \in cancelled
    <3>1. w[2] <= scheduled[JobOf(w)] /\ u[2] <= scheduled[JobOf(w)]
      BY <2>1, <2>2 DEF MadeInv
    <3>2. w[2] \in Nat \ {0} /\ u[2] \in Nat \ {0}
      BY WorkerShape
    <3>3. w[2] = 1 /\ u[2] = 1
      BY ONLY <3>1, <3>2, <2>2
    <3>4. w = <<JobOf(w), w[2]>> /\ u = <<JobOf(u), u[2]>>
      BY WorkerShape
    <3>5. w = u
      BY <3>3, <3>4, <2>2
    <3> QED
      BY <2>1, <3>5
  <2> QED
    BY <1>7, <2>1, <2>2 DEF CleanupDelete
<1>8. ASSUME NEW i \in EventJobs, ScheduleEvent(i) PROVE WatchedHasData'
  BY <1>8 DEF ScheduleEvent
<1>9. ASSUME NEW i \in EventJobs, MonitorDrops(i) PROVE WatchedHasData'
  BY <1>9 DEF MonitorDrops
<1>10. ASSUME NEW i \in EventJobs, EventArrives(i) PROVE WatchedHasData'
  BY <1>10 DEF EventArrives
<1>11. ASSUME NEW i \in EventJobs, HandlerStep(i) PROVE WatchedHasData'
  BY <1>11 DEF HandlerStep, EventGet, EventNotify, EventLookup, EventSubmit, Submitted,
       UnregisterEventJob
<1>12. ASSUME NEW i \in Jobs, Expire(i) PROVE WatchedHasData'
  BY <1>12 DEF Expire
<1>13. ASSUME Shutdown PROVE WatchedHasData'
  BY <1>13 DEF Shutdown
<1>14. ASSUME Exit PROVE WatchedHasData'
  BY <1>14 DEF Exit
<1>15. ASSUME NEW s \in Stoppers, StopperStep(s) PROVE WatchedHasData'
  BY <1>15 DEF StopperStep, StopCancel, StopLock, StopWorker, StopCleanup,
       StopRest
<1>16. ASSUME UnscheduleLock \/ UnscheduleJob PROVE WatchedHasData'
  BY <1>16 DEF UnscheduleLock, UnscheduleJob
<1>17. CASE UNCHANGED vars
  BY <1>17 DEF vars
<1> QED
  BY <1>1, <1>2, <1>3, <1>4, <1>5, <1>6, <1>7, <1>8, <1>9, <1>10, <1>11,
     <1>12, <1>13, <1>14, <1>15, <1>16, <1>17
  DEF Next, StopStep

-----------------------------------------------------------------------------
(* The theorems.                                                           *)

(* Nothing is scheduled, no lock is held.                                  *)
LEMMA InitIInv == Init => IInv
<1> SUFFICES ASSUME Init PROVE IInv
  OBVIOUS
<1>1. Shape
  BY DEF Init, Shape
<1>2. MutexInv /\ MadeInv /\ ShutdownInv
  BY DEF Init, MutexInv, MadeInv, ShutdownInv, Cancels
<1>3. NotificationKeepsData /\ WatchedHasData
  BY DEF Init, NotificationKeepsData, WatchedHasData
<1> QED
  BY <1>1, <1>2, <1>3 DEF IInv, Inv

(* IInv is inductive: no interleaving of the workers, the webhook          *)
(* handlers, the cleanups and the two Stops leaves it.                     *)
THEOREM Invariant == Spec => []IInv
<1>1. IInv /\ [Next]_vars => IInv'
  BY ShapeStep, MutexInvStep, MadeInvStep, ShutdownInvStep, NotificationKeepsDataStep,
     WatchedHasDataStep DEF IInv, Inv
<1> QED
  BY InitIInv, <1>1, PTL DEF Spec

(* notification.go:29, the notification mutex keeps cleanupJobData from    *)
(* deleting the data of a job whose task is being created and submitted.   *)
THEOREM NotificationSafe == Spec => []NotificationKeepsData
<1>1. IInv => NotificationKeepsData
  BY DEF IInv, Inv
<1> QED
  BY Invariant, <1>1, PTL

(* init_condition.go:94, Cancel comes before the cleanup: a job scheduled  *)
(* once has its data as long as its worker's context lives, so that no     *)
(* trigger of a watched job is lost for want of data.                      *)
THEOREM WatchedSafe == Spec => []WatchedHasData
<1>1. IInv => WatchedHasData
  BY DEF IInv, Inv
<1> QED
  BY Invariant, <1>1, PTL

-----------------------------------------------------------------------------
(* The verdicts of the two copies of the condition worker.                 *)

(* What either worker makes of a document, for the job they watch.         *)
Extracted(w, d) == IF w = "http" THEN extractValueFromResponse(d) ELSE extractNumericValueFromMessage(d)

(* What a worker has recorded of a document is its verdict on it: the job   *)
(* it watches never changes.                                               *)
Recorded ==
  /\ DOMAIN verdicts = Watchers
  /\ \A w \in Watchers : \A x \in verdicts[w] : x.made = Verdict(Extracted(w, x.seen))

(* The two searches of a document give the same number: they differ only   *)
(* where it names a route.                                                 *)
LEMMA SameNumber ==
  ASSUME NEW d, ~SelectsRoute(d)
  PROVE  Extracted("http", d) = Extracted("websocket", d)
<1> DEFINE routed == extractValueByKeyPath(d, watchJob.route)
<1>1. CASE watchJob.route # <<>> /\ routed # None
  BY <1>1 DEF Extracted, extractValueFromResponse, extractNumericValueFromMessage
<1>2. CASE ~(watchJob.route # <<>> /\ routed # None)
  BY <1>2 DEF Extracted, extractValueFromResponse, extractNumericValueFromMessage, FieldValue
<1> QED
  BY <1>1, <1>2

LEMMA SameJob ==
  ASSUME UNCHANGED watchJob, NEW w, NEW d
  PROVE  Verdict(Extracted(w, d))' = Verdict(Extracted(w, d))
<1>1. Extracted(w, d)' = Extracted(w, d)
  BY DEF Extracted, extractValueFromResponse, extractNumericValueFromMessage
<1> QED
  BY <1>1 DEF Verdict, evaluateCondition, Satisfies

LEMMA RecordedPreserved == Recorded /\ [ValuesNext]_valueVars => Recorded'
<1> SUFFICES ASSUME Recorded, [ValuesNext]_valueVars  PROVE Recorded'
  OBVIOUS
<1>0. UNCHANGED watchJob
  BY DEF ValuesNext, valueVars, Publish, Expires, StartWatcher, NextRound, FetchError, CheckDocument, StopWatcher
<1>1. CASE UNCHANGED verdicts
  <2>1. DOMAIN verdicts' = Watchers
    BY <1>1 DEF Recorded
  <2>2. ASSUME NEW w \in Watchers, NEW x \in verdicts'[w]  PROVE x.made = Verdict(Extracted(w, x.seen))'
    BY <1>0, <1>1, <2>2, SameJob DEF Recorded
  <2> QED
    BY <2>1, <2>2 DEF Recorded
<1>2. ASSUME NEW w \in Watchers, CheckDocument(w)  PROVE Recorded'
  <2>1. PICK v : v = Verdict(Extracted(w, document))
    OBVIOUS
  <2>2. verdicts' = [verdicts EXCEPT ![w] = @ \cup {[seen |-> document, made |-> v]}]
    BY <1>2, <2>1 DEF CheckDocument, Extracted
  <2>3. DOMAIN verdicts' = Watchers
    BY <2>2 DEF Recorded
  <2>4. ASSUME NEW u \in Watchers, NEW x \in verdicts'[u]  PROVE x.made = Verdict(Extracted(u, x.seen))'
    <3>1. x \in verdicts[u] \/ (u = w /\ x = [seen |-> document, made |-> v])
      BY <2>2, <2>4 DEF Recorded
    <3>2. x.made = Verdict(Extracted(u, x.seen))
      BY <2>1, <3>1 DEF Recorded
    <3> QED
      BY <1>0, <3>2, SameJob
  <2> QED
    BY <2>3, <2>4 DEF Recorded
<1>3. ValuesNext => UNCHANGED verdicts \/ \E w \in Watchers : CheckDocument(w)
  BY DEF ValuesNext, Publish, Expires, StartWatcher, NextRound, FetchError, StopWatcher
<1> QED
  BY <1>1, <1>2, <1>3 DEF valueVars

(* CopiesAgree: for every job, every set of documents and any number of      *)
(* rounds of either worker, the HTTP and the WebSocket worker reach the same *)
(* verdict on the same document, unless it selects a route of the document.  *)
THEOREM SameVerdicts == ValuesSpec => []CopiesAgree
<1>1. ValuesInit => Recorded
  BY DEF ValuesInit, Recorded
<1>2. Recorded => CopiesAgree
  BY SameNumber DEF Recorded, CopiesAgree, Watchers
<1> QED
  BY <1>1, <1>2, RecordedPreserved, PTL DEF ValuesSpec
=============================================================================
