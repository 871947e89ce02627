-------------------------- MODULE ConditionScheduler --------------------------
(***************************************************************************)
(* The condition scheduler (internal/schedulers/condition).  A condition   *)
(* job gets a worker, a goroutine that polls a value; a websocket job gets *)
(* one that reads a socket; an event job is registered at the event        *)
(* monitor, which calls a webhook.  All of them end in                     *)
(* HandleTriggerNotification, which creates a task for the job and submits *)
(* it.                                                                     *)
(*                                                                         *)
(* Three kinds of lock: notificationMutex, workersMutex, which guards the  *)
(* maps, and the Mutex of each worker.  A read lock is held for one lookup *)
(* only: it is a step that needs workersMutex free.                        *)
(*                                                                         *)
(* The maps of workers are keyed by *types.BigInt, that is by pointer, and *)
(* each call makes a pointer of its own.  So a lookup never finds an entry *)
(* of another call: ScheduleJob never meets a job that "is already         *)
(* scheduled", and UnscheduleJob and UnregisterEventJob always return an   *)
(* error and change nothing.  The store of job data is keyed by string.    *)
(***************************************************************************)
EXTENDS Integers, FiniteSets

CONSTANTS
  ConditionJobs, WebSocketJobs, EventJobs,
  Recurring,     \* the recurring jobs among them
  MaxSchedules,  \* bound: calls of ScheduleJob for each job
  MaxEvents,     \* bound: webhook calls for one job, and triggers of a worker
  MaxFaults      \* bound: calls to the database, dispatcher, monitor that fail

Jobs == ConditionJobs \cup WebSocketJobs \cup EventJobs

ASSUME ConditionSchedulerAssumption ==
  /\ ConditionJobs \cap WebSocketJobs = {}
  /\ EventJobs \cap (ConditionJobs \cup WebSocketJobs) = {}
  /\ Recurring \subseteq Jobs
  /\ MaxSchedules \in [Jobs -> Nat]
  /\ MaxEvents \in Nat
  /\ MaxFaults \in Nat

(* <<j, n>>: the n-th ScheduleJob of job j, its pointer and its worker.    *)
Workers ==
  UNION {{j} \X (1 .. MaxSchedules[j]) : j \in ConditionJobs \cup WebSocketJobs}
(* The goroutines that call Stop: main, and the one that runs Start.       *)
Stoppers == {"main", "start"}

(* Who may hold a lock: a worker's goroutine, the "go w.Stop()" of one, a  *)
(* webhook handler of a job, a handler of job/pause, a stopper.            *)
Free == <<"free">>
Loop(w) == <<"loop", w>>
Stopping(w) == <<"stop", w>>
Handler(j) == <<"event", j>>
Unscheduler == <<"unschedule">>
Stopper(t) == <<"stopper", t>>

VARIABLES
  notificationMutex, workersMutex,
  mutex,             \* Mutex of each worker
  conditionWorkers,  \* keys of the map; the value of a websocket job is nil
  eventWorkers,      \* jobs with a key in the map
  jobDataStore,      \* jobs with data
  monitored,         \* external: jobs registered at the event monitor
  scheduled,         \* calls of ScheduleJob for each job
  pc,                \* worker: "none", "start", "loop", "notify", "lookup",
                     \* "submit", "after", "done"
  active,            \* IsActive
  cancelled,         \* workers whose Ctx is cancelled
  pending,           \* goroutines "go w.Stop()" that have not begun
  stop,              \* the one that has: "none", "cleanup", "delete"
  hpc,               \* webhook handler: "idle", "get", "notify", "lookup",
                     \* "submit", "unregister"
  expired,           \* jobs whose ExpirationTime has passed
  down,              \* "no", "stopping", "exited", "panicked"
  spc, left,         \* Stop: where it is, the workers it still has to stop
  events, faults,
  tasks              \* tasks submitted for each job

locks == <<notificationMutex, workersMutex, mutex>>
maps == <<conditionWorkers, eventWorkers, jobDataStore, monitored>>
workerVars == <<pc, active, cancelled, pending, stop>>
stopVars == <<down, spc, left>>
bounds == <<events, faults>>
vars == <<locks, maps, scheduled, workerVars, hpc, expired, stopVars, bounds, tasks>>

JobOf(w) == w[1]
Up == down \in {"no", "stopping"}
Fault == faults < MaxFaults /\ faults' = faults + 1

-----------------------------------------------------------------------------
(* ScheduleJob, under workersMutex.                                        *)

ScheduleWorker(w) ==
  LET j == JobOf(w) IN
  /\ Up
  /\ workersMutex = Free
  /\ w[2] = scheduled[j] + 1
  /\ scheduled' = [scheduled EXCEPT ![j] = @ + 1]
  /\ conditionWorkers' = conditionWorkers \cup {w}
  /\ jobDataStore' = jobDataStore \cup {j}
  /\ pc' = [pc EXCEPT ![w] = "start"]
  /\ cancelled' = IF spc["main"] \in {"no", "cancel"} /\ spc["start"] \in {"no", "cancel"}
                  THEN cancelled ELSE cancelled \cup {w}
  /\ UNCHANGED <<locks, eventWorkers, monitored, active, pending, stop, hpc,
                 expired, stopVars, bounds, tasks>>

(* When the monitor's answer is lost the job is registered there all the   *)
(* same, and the scheduler knows nothing of it.                            *)
ScheduleEvent(j) ==
  /\ Up
  /\ workersMutex = Free
  /\ scheduled[j] < MaxSchedules[j]
  /\ scheduled' = [scheduled EXCEPT ![j] = @ + 1]
  /\ \/ /\ monitored' = monitored \cup {j}
        /\ eventWorkers' = eventWorkers \cup {j}
        /\ jobDataStore' = jobDataStore \cup {j}
        /\ UNCHANGED faults
     \/ /\ Fault
        /\ monitored' \in {monitored, monitored \cup {j}}
        /\ UNCHANGED <<eventWorkers, jobDataStore>>
  /\ UNCHANGED <<locks, conditionWorkers, workerVars, hpc, expired, stopVars,
                 events, tasks>>

(* Time passes; the event monitor drops the request of an expired job.     *)
Expire(j) ==
  /\ Up
  /\ j \notin expired
  /\ expired' = expired \cup {j}
  /\ UNCHANGED <<locks, maps, scheduled, workerVars, hpc, stopVars, bounds, tasks>>

MonitorDrops(j) ==
  /\ Up
  /\ j \in expired \cap monitored
  /\ monitored' = monitored \ {j}
  /\ UNCHANGED <<locks, conditionWorkers, eventWorkers, jobDataStore, scheduled,
                 workerVars, hpc, expired, stopVars, bounds, tasks>>

-----------------------------------------------------------------------------
(* HandleTriggerNotification, for a worker or a webhook handler: the lock, *)
(* the lookup of the job data under it, the calls to the database and the  *)
(* dispatcher.                                                             *)

Acquire(t) ==
  /\ notificationMutex = Free
  /\ notificationMutex' = t
  /\ UNCHANGED <<workersMutex, mutex>>

Release(t) ==
  /\ notificationMutex' = Free
  /\ UNCHANGED <<workersMutex, mutex>>

-----------------------------------------------------------------------------
(* Workers.                                                                *)

Step(w, from, to) ==
  /\ Up
  /\ pc[w] = from
  /\ pc' = [pc EXCEPT ![w] = to]

WorkerStart(w) ==
  /\ Step(w, "start", "loop")
  /\ mutex[w] = Free
  /\ active' = active \cup {w}
  /\ UNCHANGED <<locks, maps, scheduled, cancelled, pending, stop, hpc, expired,
                 stopVars, bounds, tasks>>

(* The loop ends with the context.  A websocket's read error ends it too,  *)
(* or a failed dial, and nothing else happens then.                        *)
LoopEnds(w) ==
  /\ Step(w, "loop", "done")
  /\ \/ w \in cancelled /\ UNCHANGED faults
     \/ JobOf(w) \in WebSocketJobs /\ Fault
  /\ UNCHANGED <<locks, maps, scheduled, active, cancelled, pending, stop, hpc,
                 expired, stopVars, events, tasks>>

(* A tick of a condition worker whose job has expired: "go w.Stop()".      *)
TickExpired(w) ==
  /\ Step(w, "loop", "done")
  /\ JobOf(w) \in ConditionJobs \cap expired
  /\ pending' = [pending EXCEPT ![w] = @ + 1]
  /\ UNCHANGED <<locks, maps, scheduled, active, cancelled, stop, hpc, expired,
                 stopVars, bounds, tasks>>

(* A tick or a message that satisfies the condition, also when the context *)
(* has ended: select takes any channel that is ready.  (Ticks that do not, *)
(* or whose value cannot be fetched, change nothing.)                      *)
TickSatisfied(w) ==
  /\ Step(w, "loop", "notify")
  /\ JobOf(w) \in ConditionJobs => JobOf(w) \notin expired
  /\ events[JobOf(w)] < MaxEvents
  /\ events' = [events EXCEPT ![JobOf(w)] = @ + 1]
  /\ UNCHANGED <<locks, maps, scheduled, active, cancelled, pending, stop, hpc,
                 expired, stopVars, faults, tasks>>

WorkerNotify(w) ==
  /\ Step(w, "notify", "lookup")
  /\ Acquire(Loop(w))
  /\ UNCHANGED <<maps, scheduled, active, cancelled, pending, stop, hpc, expired,
                 stopVars, bounds, tasks>>

WorkerLookup(w) ==
  /\ workersMutex = Free
  /\ \/ /\ JobOf(w) \in jobDataStore
        /\ Step(w, "lookup", "submit")
        /\ UNCHANGED locks
     \/ /\ JobOf(w) \notin jobDataStore
        /\ Step(w, "lookup", "after")
        /\ Release(Loop(w))
  /\ UNCHANGED <<maps, scheduled, active, cancelled, pending, stop, hpc, expired,
                 stopVars, bounds, tasks>>

(* A task reaches the task dispatcher, with the trigger's data in it.      *)
Submitted(j) == tasks' = [tasks EXCEPT ![j] = @ + 1]

WorkerSubmit(w) ==
  /\ Step(w, "submit", "after")
  /\ \/ /\ Submitted(JobOf(w))
        /\ UNCHANGED faults
     \/ /\ Fault
        /\ UNCHANGED tasks
  /\ Release(Loop(w))
  /\ UNCHANGED <<maps, scheduled, active, cancelled, pending, stop, hpc, expired,
                 stopVars, events>>

(* "For non-recurring jobs, stop the worker after triggering", whether the *)
(* scheduler took the notification or not.                                 *)
WorkerAfter(w) ==
  /\ Step(w, "after", "loop")
  /\ pending' = IF JobOf(w) \in Recurring THEN pending ELSE [pending EXCEPT ![w] = @ + 1]
  /\ UNCHANGED <<locks, maps, scheduled, active, cancelled, stop, hpc, expired,
                 stopVars, bounds, tasks>>

-----------------------------------------------------------------------------
(* "go w.Stop()".                                                          *)

StopBegin(w) ==
  /\ Up
  /\ pending[w] > 0
  /\ mutex[w] = Free
  /\ pending' = [pending EXCEPT ![w] = @ - 1]
  /\ \/ /\ w \in active
        /\ cancelled' = cancelled \cup {w}
        /\ active' = active \ {w}
        /\ mutex' = [mutex EXCEPT ![w] = Stopping(w)]
        /\ stop' = [stop EXCEPT ![w] = "cleanup"]
     \/ /\ w \notin active
        /\ UNCHANGED <<cancelled, active, mutex, stop>>
  /\ UNCHANGED <<notificationMutex, workersMutex, maps, scheduled, pc, hpc, expired,
                 stopVars, bounds, tasks>>

(* A faulty variant: the data goes without waiting for notifications.      *)
CleanupUnlocked(w) ==
  /\ Up
  /\ stop[w] = "cleanup"
  /\ workersMutex = Free
  /\ stop' = [stop EXCEPT ![w] = "none"]
  /\ jobDataStore' = jobDataStore \ {JobOf(w)}
  /\ mutex' = [mutex EXCEPT ![w] = Free]
  /\ UNCHANGED <<notificationMutex, workersMutex, conditionWorkers, eventWorkers,
                 monitored, scheduled, pc, active, cancelled, pending, hpc, expired,
                 stopVars, bounds, tasks>>

(* A faulty variant: Stop is called with workersMutex held.                *)
CleanupHoldsWorkers(w) ==
  /\ Up
  /\ stop[w] = "cleanup"
  /\ notificationMutex = Free /\ workersMutex = Free
  /\ notificationMutex' = Stopping(w)
  /\ workersMutex' = Stopping(w)
  /\ stop' = [stop EXCEPT ![w] = "delete"]
  /\ UNCHANGED <<mutex, maps, scheduled, pc, active, cancelled, pending, hpc,
                 expired, stopVars, bounds, tasks>>

(* cleanupJobData: notificationMutex, then workersMutex.                   *)
CleanupLock(w) ==
  /\ Up
  /\ stop[w] = "cleanup"
  /\ Acquire(Stopping(w))
  /\ stop' = [stop EXCEPT ![w] = "delete"]
  /\ UNCHANGED <<maps, scheduled, pc, active, cancelled, pending, hpc, expired,
                 stopVars, bounds, tasks>>

CleanupDelete(w) ==
  /\ Up
  /\ stop[w] = "delete"
  /\ workersMutex = Free
  /\ stop' = [stop EXCEPT ![w] = "none"]
  /\ jobDataStore' = jobDataStore \ {JobOf(w)}
  /\ notificationMutex' = Free
  /\ mutex' = [mutex EXCEPT ![w] = Free]
  /\ UNCHANGED <<workersMutex, conditionWorkers, eventWorkers, monitored, scheduled,
                 pc, active, cancelled, pending, hpc, expired, stopVars, bounds, tasks>>

-----------------------------------------------------------------------------
(* The webhook of an event job.  One notification per job at a time.       *)

Handle(j, from, to) ==
  /\ Up
  /\ hpc[j] = from
  /\ hpc' = [hpc EXCEPT ![j] = to]

EventArrives(j) ==
  /\ Handle(j, "idle", "get")
  /\ j \in monitored
  /\ events[j] < MaxEvents
  /\ events' = [events EXCEPT ![j] = @ + 1]
  /\ UNCHANGED <<locks, maps, scheduled, workerVars, expired, stopVars, faults, tasks>>

(* GetJobData, and the check of the expiration.                            *)
EventGet(j) ==
  /\ workersMutex = Free
  /\ \/ j \notin jobDataStore /\ Handle(j, "get", "idle")
     \/ j \in jobDataStore /\ j \in expired /\ Handle(j, "get", "unregister")
     \/ j \in jobDataStore /\ j \notin expired /\ Handle(j, "get", "notify")
  /\ UNCHANGED <<locks, maps, scheduled, workerVars, expired, stopVars, bounds, tasks>>

EventNotify(j) ==
  /\ Handle(j, "notify", "lookup")
  /\ Acquire(Handler(j))
  /\ UNCHANGED <<maps, scheduled, workerVars, expired, stopVars, bounds, tasks>>

EventLookup(j) ==
  /\ workersMutex = Free
  /\ \/ /\ j \in jobDataStore
        /\ Handle(j, "lookup", "submit")
        /\ UNCHANGED locks
     \/ /\ j \notin jobDataStore
        /\ Handle(j, "lookup", "idle")
        /\ Release(Handler(j))
  /\ UNCHANGED <<maps, scheduled, workerVars, expired, stopVars, bounds, tasks>>

(* A failed submission ends the handler.                                   *)
EventSubmit(j) ==
  /\ \/ /\ Submitted(j)
        /\ Handle(j, "submit", IF j \in Recurring THEN "idle" ELSE "unregister")
        /\ UNCHANGED faults
     \/ /\ Fault
        /\ Handle(j, "submit", "idle")
        /\ UNCHANGED tasks
  /\ Release(Handler(j))
  /\ UNCHANGED <<maps, scheduled, workerVars, expired, stopVars, events>>

(* UnregisterEventJob: its lookup misses, an error is logged, no more.     *)
UnregisterEventJob(j) ==
  /\ workersMutex = Free
  /\ Handle(j, "unregister", "idle")
  /\ UNCHANGED <<locks, maps, scheduled, workerVars, expired, stopVars, bounds, tasks>>

-----------------------------------------------------------------------------
(* UnscheduleJob, for job/pause: notificationMutex, then workersMutex, and *)
(* both lookups miss: an error is returned and the job goes on.            *)

UnscheduleLock ==
  /\ Up
  /\ Acquire(Unscheduler)
  /\ UNCHANGED <<maps, scheduled, workerVars, hpc, expired, stopVars, bounds, tasks>>

UnscheduleJob ==
  /\ Up
  /\ notificationMutex = Unscheduler
  /\ workersMutex = Free
  /\ Release(Unscheduler)
  /\ UNCHANGED <<maps, scheduled, workerVars, hpc, expired, stopVars, bounds, tasks>>

-----------------------------------------------------------------------------
(* Stop, called by main and by Start when main has cancelled its context.  *)

Shutdown ==
  /\ down = "no"
  /\ down' = "stopping"
  /\ spc' = [t \in Stoppers |-> "cancel"]
  /\ UNCHANGED <<locks, maps, scheduled, workerVars, hpc, expired, left, bounds, tasks>>

(* The statistics under a read lock, then s.cancel().                      *)
StopCancel(t) ==
  /\ Up
  /\ spc[t] = "cancel"
  /\ workersMutex = Free
  /\ spc' = [spc EXCEPT ![t] = "lock"]
  /\ cancelled' = {w \in Workers : pc[w] # "none"}
  /\ UNCHANGED <<locks, maps, scheduled, pc, active, pending, stop, hpc, expired,
                 down, left, bounds, tasks>>

StopLock(t) ==
  /\ Up
  /\ spc[t] = "lock"
  /\ workersMutex = Free
  /\ workersMutex' = Stopper(t)
  /\ spc' = [spc EXCEPT ![t] = "workers"]
  /\ left' = [left EXCEPT ![t] = conditionWorkers]
  /\ UNCHANGED <<notificationMutex, mutex, maps, scheduled, workerVars, hpc, expired,
                 down, bounds, tasks>>

(* worker.Stop() for each.  The nil of a websocket job panics.             *)
StopWorker(t) ==
  /\ Up
  /\ spc[t] = "workers"
  /\ \E w \in left[t] :
       /\ left' = [left EXCEPT ![t] = @ \ {w}]
       /\ \/ /\ JobOf(w) \in WebSocketJobs
             /\ down' = "panicked"
             /\ UNCHANGED <<spc, mutex, active>>
          \/ /\ JobOf(w) \in ConditionJobs
             /\ mutex[w] = Free
             /\ w \notin active
             /\ UNCHANGED <<down, spc, mutex, active>>
          \/ /\ JobOf(w) \in ConditionJobs
             /\ mutex[w] = Free
             /\ w \in active
             /\ active' = active \ {w}
             /\ mutex' = [mutex EXCEPT ![w] = Stopper(t)]
             /\ spc' = [spc EXCEPT ![t] = "cleanup"]
             /\ UNCHANGED down
  /\ UNCHANGED <<notificationMutex, workersMutex, maps, scheduled, pc, cancelled,
                 pending, stop, hpc, expired, bounds, tasks>>

(* Its cleanupJobData takes notificationMutex, and then waits for          *)
(* workersMutex, which this goroutine holds itself: there is no next step. *)
StopCleanup(t) ==
  /\ Up
  /\ spc[t] = "cleanup"
  /\ Acquire(Stopper(t))
  /\ spc' = [spc EXCEPT ![t] = "blocked"]
  /\ UNCHANGED <<maps, scheduled, workerVars, hpc, expired, down, left, bounds, tasks>>

(* The event jobs are unregistered, each with a call that may fail, and    *)
(* the maps made anew.                                                     *)
StopRest(t) ==
  /\ Up
  /\ spc[t] = "workers"
  /\ left[t] = {}
  /\ \/ monitored' = monitored \ eventWorkers /\ UNCHANGED faults
     \/ Fault /\ \E failed \in SUBSET eventWorkers : monitored' = monitored \ (eventWorkers \ failed)
  /\ conditionWorkers' = {}
  /\ eventWorkers' = {}
  /\ jobDataStore' = {}
  /\ workersMutex' = Free
  /\ spc' = [spc EXCEPT ![t] = "done"]
  /\ UNCHANGED <<notificationMutex, mutex, scheduled, workerVars, hpc, expired, down,
                 left, events, tasks>>

(* os.Exit, when the Stop of main has returned.                            *)
Exit ==
  /\ Up
  /\ spc["main"] = "done"
  /\ down' = "exited"
  /\ UNCHANGED <<locks, maps, scheduled, workerVars, hpc, expired, spc, left, bounds,
                 tasks>>

-----------------------------------------------------------------------------
Init ==
  /\ notificationMutex = Free
  /\ workersMutex = Free
  /\ mutex = [w \in Workers |-> Free]
  /\ conditionWorkers = {}
  /\ eventWorkers = {}
  /\ jobDataStore = {}
  /\ monitored = {}
  /\ scheduled = [j \in Jobs |-> 0]
  /\ pc = [w \in Workers |-> "none"]
  /\ active = {}
  /\ cancelled = {}
  /\ pending = [w \in Workers |-> 0]
  /\ stop = [w \in Workers |-> "none"]
  /\ hpc = [j \in EventJobs |-> "idle"]
  /\ expired = {}
  /\ down = "no"
  /\ spc = [t \in Stoppers |-> "no"]
  /\ left = [t \in Stoppers |-> {}]
  /\ events = [j \in Jobs |-> 0]
  /\ faults = 0
  /\ tasks = [j \in Jobs |-> 0]

(* What the goroutine of a worker does once it has a notification, and     *)
(* what it does in its loop.                                               *)
WorkerNotification(w) ==
  WorkerNotify(w) \/ WorkerLookup(w) \/ WorkerSubmit(w) \/ WorkerAfter(w)
WorkerLoop(w) == WorkerStart(w) \/ LoopEnds(w) \/ TickExpired(w)
StopStep(w) == StopBegin(w) \/ CleanupLock(w) \/ CleanupDelete(w)
HandlerStep(j) ==
  EventGet(j) \/ EventNotify(j) \/ EventLookup(j) \/ EventSubmit(j) \/ UnregisterEventJob(j)
StopperStep(t) ==
  StopCancel(t) \/ StopLock(t) \/ StopWorker(t) \/ StopCleanup(t) \/ StopRest(t)

Next ==
  \/ \E w \in Workers :
       ScheduleWorker(w) \/ WorkerLoop(w) \/ TickSatisfied(w) \/ WorkerNotification(w)
         \/ StopStep(w)
  \/ \E j \in EventJobs :
       ScheduleEvent(j) \/ MonitorDrops(j) \/ EventArrives(j) \/ HandlerStep(j)
  \/ \E j \in Jobs : Expire(j)
  \/ UnscheduleLock
  \/ UnscheduleJob
  \/ Shutdown
  \/ \E t \in Stoppers : StopperStep(t)
  \/ Exit

Spec == Init /\ [][Next]_vars

(***************************************************************************)
(* Goroutines run, and a sync.Mutex is given to one of those who wait for  *)
(* it, in its starvation mode at the latest: each process is strongly      *)
(* fair.  A failing read of a websocket, a schedule, an event, a pause or  *)
(* a shutdown need never come.                                             *)
(***************************************************************************)
Fairness ==
  /\ \A w \in Workers :
       SF_vars(WorkerNotification(w)) /\ SF_vars(StopStep(w))
         /\ WF_vars(WorkerStart(w)) /\ WF_vars(TickExpired(w))
         /\ WF_vars(w \in cancelled /\ LoopEnds(w))
  /\ \A j \in EventJobs : SF_vars(HandlerStep(j))
  /\ SF_vars(UnscheduleJob)
  /\ \A t \in Stoppers : SF_vars(StopperStep(t))
  /\ WF_vars(Exit)

FairSpec == Spec /\ Fairness

-----------------------------------------------------------------------------
(* notification.go:29, "Acquire notification mutex to prevent cleanup      *)
(* during processing": from the lookup to the end of the submission the    *)
(* job keeps its data, whichever worker of the job stops meanwhile; the    *)
(* Stop of the scheduler, which takes workersMutex only, is excepted.      *)
NotificationKeepsData ==
  /\ \A w \in Workers : pc[w] = "submit" /\ down = "no" => JobOf(w) \in jobDataStore
  /\ \A j \in EventJobs : hpc[j] = "submit" /\ down = "no" => j \in jobDataStore

(* A job that is being watched can be triggered: its data outlives the     *)
(* context of its worker (init_condition.go:94, Cancel before cleanup).    *)
(* A job that was scheduled twice is excepted: the first of its workers to *)
(* stop takes the data from the other.                                     *)
WatchedHasData ==
  \A w \in Workers :
    /\ pc[w] \notin {"none", "done"}
    /\ w \notin cancelled
    /\ scheduled[JobOf(w)] = 1
    => JobOf(w) \in jobDataStore

(* Every "go w.Stop()" ends: between the worker's mutex, the two mutexes   *)
(* of the scheduler, the notifications and the cleanups there is no        *)
(* deadlock ("Stop in a goroutine to avoid deadlock"), until the scheduler *)
(* is told to stop.                                                        *)
StoppedIsCleaned ==
  \A w \in Workers :
    (pending[w] > 0 \/ stop[w] # "none") ~>
      ((pending[w] = 0 /\ stop[w] = "none") \/ down # "no")

-----------------------------------------------------------------------------
(* init.go:123, "Stop gracefully stops all condition workers": a scheduler *)
(* that is told to stop is gone in the end.                                *)
StopTerminates == down = "stopping" ~> down \in {"exited", "panicked"}
===============================================================================
