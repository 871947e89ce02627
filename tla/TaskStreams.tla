------------------------------ MODULE TaskStreams ------------------------------
(***************************************************************************)
(* The life of a task after a scheduler hands it over: the task dispatcher *)
(* (internal/taskdispatcher) sends it to a performer and records it in     *)
(* Redis; the task monitor (internal/taskmonitor) moves it to the          *)
(* completed or the failed stream when its on-chain result arrives, when   *)
(* its keeper reports an error, or when the timeout worker finds it stale, *)
(* and writes its status to the database.                                  *)
(*                                                                         *)
(* The two services share nothing but Redis: three streams, the hash       *)
(* task_id_to_message_id and the sorted set dispatched_timeouts.  Each     *)
(* call to Redis, to the aggregator or to the database is a step of its    *)
(* own and may fail, and each service may crash between two calls (the     *)
(* budget MaxFaults bounds how often both happen).  Entries are only ever  *)
(* found with XRANGE, never with XREADGROUP, so no pending-entries list is *)
(* kept.                                                                   *)
(***************************************************************************)
EXTENDS Integers, FiniteSets

CONSTANTS
  Tasks,         \* task ids
  Requests,      \* the schedulers' submit-task calls: each a set of task ids
  MaxAttempts,   \* bound: calls of submit-task per request (9: two loops of 3)
  Workers,       \* event-processing goroutines of the listener
  Published,     \* deliveries whose keeper may publish a result on chain
  Reported,      \* deliveries whose keeper may report an error
  StreamMaxLen,  \* the MAXLEN the services give XADD
  ScanLimit,     \* newest messages the fallback of the index looks at (1000)
  Expiring,      \* the streams whose key Initialize created, with a TTL
  MaxId,         \* bound: message ids Redis hands out
  MaxFaults      \* bound: calls that fail and crashes, together

Streams == {"dispatched", "completed", "failed"}

ASSUME RequestsAssumption ==
  /\ UNION Requests = Tasks
  /\ {} \notin Requests
  /\ \A R, S \in Requests : R # S => R \cap S = {}

ASSUME BoundsAssumption ==
  /\ MaxAttempts \in Nat \ {0}
  /\ Workers \in Nat \ {0}
  /\ StreamMaxLen \in Nat \ {0}
  /\ ScanLimit \in Nat
  /\ MaxId \in Nat
  /\ MaxFaults \in Nat
  /\ Expiring \subseteq Streams

NoId == 0
Ids == 1 .. MaxId

NoStatus == "none"   \* task_status is absent, or the empty string

(* The n-th time a task reaches its performer: the performer may publish a *)
(* result on chain, report an error, do both (the aggregator took the      *)
(* result although its call failed), or neither.                           *)
Deliveries == Tasks \X (1 .. MaxAttempts)

ASSUME OutcomesAssumption ==
  Published \subseteq Deliveries /\ Reported \subseteq Deliveries

(* A stream entry.                                                         *)
Entry == [id : Ids, task : Tasks, stream : Streams]

VARIABLES
  \* schedulers and dispatcher
  attempts,    \* submit-task calls made for each request
  closed,      \* requests whose scheduler has stopped calling
  acked,       \* requests answered with Success: true
  dpc,         \* where the dispatcher's handler is, for each task
  dmid,        \* message id the handler got from XADD
  sent,        \* times the aggregator accepted the task for its performer
  \* Redis
  entries,     \* entries of the three streams
  gone,        \* entries Redis itself dropped: trimmed, or the key expired
  nextId,      \* next message id
  streamKey,   \* "armed": key with a TTL, "plain": without one, "absent"
  index,       \* hash task_id_to_message_id (NoId: no field)
  tracked,     \* members of the sorted set dispatched_timeouts
  due,         \* the members whose score (dispatch + 1h) has passed
  \* database and user
  status,      \* task_data.task_status
  notices,     \* outcomes each task's user was told
  \* monitor: event workers, error-report RPC handlers, timeout worker
  epc,
  rpc, rmid,
  wpc, wtask, wmid, wtodo, wdone,
  \* environment and history
  faults,
  trackLost,   \* tasks whose timeout tracking was lost, and to a named cause
  statusLost   \* tasks whose failed status was lost, and to a named cause

request  == <<attempts, closed, acked>>
dispatch == <<dpc, dmid, sent>>
redis    == <<entries, gone, nextId, streamKey>>
lookup   == <<index, tracked, due>>
db       == <<status, notices>>
report   == <<rpc, rmid>>
worker   == <<wpc, wtask, wmid, wtodo, wdone>>
history  == <<trackLost, statusLost>>
vars == <<request, dispatch, redis, lookup, db, epc, report, worker,
          faults, history>>

-----------------------------------------------------------------------------
(* Calls that can fail.                                                    *)

Ok == UNCHANGED faults
Fault == faults < MaxFaults /\ faults' = faults + 1

(***************************************************************************)
(* Redis.                                                                  *)
(***************************************************************************)

Of(stream) == {e \in entries : e.stream = stream}

(* MAXLEN ~ n: XADD may drop the oldest entries, and never so many that    *)
(* fewer than n are left.                                                  *)
Trimmable(stream, old) ==
  /\ old \subseteq Of(stream)
  /\ \A e \in old, f \in Of(stream) \ old : e.id < f.id
  /\ old = {} \/ Cardinality(Of(stream) \ old) >= StreamMaxLen - 1

(* XADD of n copies: n = 1 normally; executeWithRetry repeats a call whose *)
(* answer was lost, so a call can land twice, or land and report an error. *)
XAdd(stream, t, n) ==
  /\ nextId + n <= MaxId + 1
  /\ \E old \in SUBSET Of(stream) :
       /\ Trimmable(stream, old)
       /\ n = 0 => old = {}
       /\ entries' = (entries \ old) \cup
            {[id |-> i, task |-> t, stream |-> stream] : i \in nextId .. nextId + n - 1}
       /\ gone' = gone \cup old
  /\ nextId' = nextId + n
  /\ streamKey' = IF n > 0 /\ streamKey[stream] = "absent"
                    THEN [streamKey EXCEPT ![stream] = "plain"] ELSE streamKey

XAddOk(stream, t) ==
  \/ XAdd(stream, t, 1) /\ Ok
  \/ XAdd(stream, t, 2) /\ Fault

XAddFails(stream, t) == Fault /\ \E n \in {0, 1} : XAdd(stream, t, n)

(* XACK (nothing is pending), then XDEL of the dispatched entry.           *)
XDel(mid) ==
  /\ entries' = entries \ {e \in Of("dispatched") : e.id = mid}
  /\ UNCHANGED <<gone, nextId, streamKey>>

(* FindTaskByID: the index names a message that is still there, or there   *)
(* is no index field and the scan of the newest messages meets the task,   *)
(* which yields no message id.                                             *)
HasIndex(t) == index[t] # NoId
Indexed(t) == HasIndex(t) /\ \E e \in Of("dispatched") : e.id = index[t]
Scanned(t) ==
  /\ ~ HasIndex(t)
  /\ \E e \in Of("dispatched") :
       e.task = t /\ Cardinality({f \in Of("dispatched") : f.id > e.id}) < ScanLimit
CanFind(t) == Indexed(t) \/ Scanned(t)
Added == entries \cup gone

(* ZREM from dispatched_timeouts.                                          *)
Untrack(done) == tracked' = tracked \ done /\ due' = due \ done
FailedCopy(t) == \E e \in Added : e.stream = "failed" /\ e.task = t

(***************************************************************************)
(* Schedulers and dispatcher: SubmitTaskFromScheduler.                     *)
(***************************************************************************)

Request(t) == CHOOSE R \in Requests : t \in R
IsBatch(R) == Cardinality(R) > 1
Idle(R) == \A t \in R : dpc[t] = "idle"

(* A scheduler calls submit-task (again, while it has had no success).     *)
Submit(R) ==
  /\ R \notin closed
  /\ Idle(R)
  /\ attempts[R] < MaxAttempts
  /\ attempts' = [attempts EXCEPT ![R] = @ + 1]
  /\ dpc' = [t \in Tasks |-> IF t \in R THEN "send" ELSE dpc[t]]
  /\ UNCHANGED <<closed, acked, dmid, sent, redis, lookup, db, epc, report,
                 worker, faults, history>>

(* The call is refused before anything is sent: no performer is available, *)
(* or the request cannot be signed.                                        *)
SubmitRefused(R) ==
  /\ R \notin closed
  /\ Idle(R)
  /\ attempts[R] < MaxAttempts
  /\ Fault
  /\ attempts' = [attempts EXCEPT ![R] = @ + 1]
  /\ UNCHANGED <<closed, acked, dispatch, redis, lookup, db, epc, report,
                 worker, history>>

(* The scheduler's retries are used up, or its 60 s are over.              *)
GiveUp(R) ==
  /\ R \notin closed
  /\ Idle(R)
  /\ attempts[R] > 0
  /\ closed' = closed \cup {R}
  /\ UNCHANGED <<attempts, acked, dispatch, redis, lookup, db, epc, report,
                 worker, faults, history>>

(* AddTaskToDispatchedStream failed for t.  A batch goes on with its other *)
(* tasks; a request of a single task answers with the error.               *)
AfterError(t) == IF IsBatch(Request(t)) THEN "finished" ELSE "idle"

(* The tasks of a batch are dispatched one after the other.                *)
MyTurn(t) ==
  \A u \in Request(t) \ {t} : dpc[u] \notin {"xadd", "index", "timeout"}

(* First call of AddTaskToDispatchedStream: the aggregator forwards the    *)
(* task to the performer.                                                  *)
SendTaskToPerformer(t) ==
  /\ dpc[t] = "send"
  /\ MyTurn(t)
  /\ \/ Ok /\ sent' = [sent EXCEPT ![t] = @ + 1]
           /\ dpc' = [dpc EXCEPT ![t] = "xadd"]
     \/ /\ Fault
        /\ dpc' = [dpc EXCEPT ![t] = AfterError(t)]
        /\ sent' \in {sent, [sent EXCEPT ![t] = @ + 1]}
  /\ UNCHANGED <<request, dmid, redis, lookup, db, epc, report, worker,
                 history>>

(* Second: XADD to the dispatched stream.                                  *)
XAddDispatched(t) ==
  /\ dpc[t] = "xadd"
  /\ \/ /\ XAddOk("dispatched", t)
        /\ dpc' = [dpc EXCEPT ![t] = "index"]
        /\ dmid' = [dmid EXCEPT ![t] = nextId' - 1]
        /\ UNCHANGED trackLost
     \/ /\ XAddFails("dispatched", t)
        /\ dpc' = [dpc EXCEPT ![t] = AfterError(t)]
        /\ trackLost' = IF nextId' = nextId THEN trackLost
                                            ELSE trackLost \cup {t}
        /\ UNCHANGED dmid
  /\ UNCHANGED <<request, sent, lookup, db, epc, report, worker,
                 statusLost>>

(* Third: HSET of the index; a failure is only logged.                     *)
StoreTaskIndex(t) ==
  /\ dpc[t] = "index"
  /\ \/ Ok /\ index' = [index EXCEPT ![t] = dmid[t]]
     \/ Fault /\ UNCHANGED index
  /\ dpc' = [dpc EXCEPT ![t] = "timeout"]
  /\ dmid' = [dmid EXCEPT ![t] = NoId]
  /\ UNCHANGED <<request, sent, redis, tracked, due, db, epc, report,
                 worker, history>>

(* Last: ZADD to dispatched_timeouts with score now + 1h; a failure is     *)
(* only logged.                                                            *)
AddTaskToTimeoutTracking(t) ==
  /\ dpc[t] = "timeout"
  /\ \/ Ok /\ tracked' = tracked \cup {t} /\ due' = due \ {t}
           /\ UNCHANGED trackLost
     \/ Fault /\ trackLost' = trackLost \cup {t}
              /\ UNCHANGED <<tracked, due>>
  /\ dpc' = [dpc EXCEPT ![t] = "finished"]
  /\ UNCHANGED <<request, dmid, sent, redis, index, db, epc, report, worker,
                 statusLost>>

(* The answer Success: true reaches the scheduler, or is lost.             *)
Reply(R) ==
  /\ \A t \in R : dpc[t] = "finished"
  /\ \/ Ok /\ acked' = acked \cup {R} /\ closed' = closed \cup {R}
     \/ Fault /\ UNCHANGED <<acked, closed>>
  /\ dpc' = [t \in Tasks |-> IF t \in R THEN "idle" ELSE dpc[t]]
  /\ UNCHANGED <<attempts, dmid, sent, redis, lookup, db, epc, report,
                 worker, history>>

(***************************************************************************)
(* Time.  A score passes an hour after the dispatch, long after the last   *)
(* call a scheduler makes for the request.                                 *)
(***************************************************************************)

Elapse(t) ==
  /\ t \in tracked \ due
  /\ Request(t) \in closed
  /\ due' = due \cup {t}
  /\ UNCHANGED <<request, dispatch, redis, index, tracked, db, epc, report,
                 worker, faults, history>>

(* The TTL CreateStreamIfNotExists gave the key runs out: XADD never       *)
(* renews it.                                                              *)
StreamExpires(stream) ==
  /\ streamKey[stream] = "armed"
  /\ streamKey' = [streamKey EXCEPT ![stream] = "absent"]
  /\ gone' = gone \cup Of(stream)
  /\ entries' = entries \ Of(stream)
  /\ UNCHANGED <<request, dispatch, nextId, lookup, db, epc, report, worker,
                 faults, history>>

(***************************************************************************)
(* Monitor, on-chain results: ProcessTaskEvent.                            *)
(***************************************************************************)

EventActive == {"find", "add", "submission", "points", "notify"}

(* A TaskSubmitted or TaskRejected event of a delivered task reaches a     *)
(* free worker, and its IPFS data is fetched.  (One that is dropped on the *)
(* way is an event that never comes.)                                      *)
ReceiveEvent(d) ==
  /\ epc[d] = "none"
  /\ d \in Published
  /\ d[2] <= sent[d[1]]
  /\ Cardinality({c \in Deliveries : epc[c] \in EventActive}) < Workers
  /\ epc' = [epc EXCEPT ![d] = "find"]
  /\ UNCHANGED <<request, dispatch, redis, lookup, db, report, worker,
                 faults, history>>

(* moveTaskToCompleted: look the task up.  Not finding it is only logged.  *)
EventFind(d) ==
  /\ epc[d] = "find"
  /\ \/ Ok /\ epc' = [epc EXCEPT ![d] = IF CanFind(d[1]) THEN "add" ELSE "submission"]
     \/ Fault /\ epc' = [epc EXCEPT ![d] = "submission"]
  /\ UNCHANGED <<request, dispatch, redis, lookup, db, report, worker,
                 history>>

(* moveTaskToCompleted: XADD to the completed stream, and no more: the     *)
(* dispatched entry, its index field and its timeout stay.                 *)
EventAdd(d) ==
  /\ epc[d] = "add"
  /\ \/ XAddOk("completed", d[1])
     \/ XAddFails("completed", d[1])
  /\ epc' = [epc EXCEPT ![d] = "submission"]
  /\ UNCHANGED <<request, dispatch, lookup, db, report, worker,
                 history>>

(* UpdateTaskSubmissionData: status "completed", whatever it was before.   *)
UpdateTaskSubmissionData(d) ==
  /\ epc[d] = "submission"
  /\ \/ Ok /\ status' = [status EXCEPT ![d[1]] = "completed"]
     \/ Fault /\ UNCHANGED status
  /\ epc' = [epc EXCEPT ![d] = "points"]
  /\ UNCHANGED <<request, dispatch, redis, lookup, notices, report,
                 worker, history>>

(* UpdateKeeperPointsInDatabase: its rows are not part of this model, only *)
(* that the handler returns when it fails.                                 *)
UpdateKeeperPoints(d) ==
  /\ epc[d] = "points"
  /\ \/ Ok /\ epc' = [epc EXCEPT ![d] = "notify"]
     \/ Fault /\ epc' = [epc EXCEPT ![d] = "done"]
  /\ UNCHANGED <<request, dispatch, redis, lookup, db, report, worker,
                 history>>

(* The user hears "completed", or "failed" when the attesters rejected the *)
(* result; or nothing, when the mail cannot be sent.                       *)
EventNotify(d) ==
  /\ epc[d] = "notify"
  /\ \/ Ok /\ \E told \in {"completed", "failed"} :
                notices' = [notices EXCEPT ![d[1]] = @ \cup {told}]
     \/ Fault /\ UNCHANGED notices
  /\ epc' = [epc EXCEPT ![d] = "done"]
  /\ UNCHANGED <<request, dispatch, redis, lookup, status, report, worker,
                 history>>

(***************************************************************************)
(* Monitor, error reports: ReportTaskError, then MarkTaskFailed.           *)
(***************************************************************************)

ReportActive == {"check", "write", "find", "add", "ack", "unindex", "untrack"}

(* The keeper that performed delivery d reports an error.                  *)
ReceiveReport(d) ==
  /\ rpc[d] = "none"
  /\ d \in Reported
  /\ d[2] <= sent[d[1]]
  /\ rpc' = [rpc EXCEPT ![d] = "check"]
  /\ UNCHANGED <<request, dispatch, redis, lookup, db, epc, rmid, worker,
                 faults, history>>

(* UpdateTaskError, first half: a task that has a status is left alone.  A *)
(* failing read counts as "no status".                                     *)
ReportCheck(d) ==
  /\ rpc[d] = "check"
  /\ \/ Ok /\ rpc' = [rpc EXCEPT ![d] = IF status[d[1]] = NoStatus THEN "write" ELSE "find"]
     \/ Fault /\ rpc' = [rpc EXCEPT ![d] = "write"]
  /\ UNCHANGED <<request, dispatch, redis, lookup, db, epc, rmid, worker,
                 history>>

(* UpdateTaskError, second half.  On failure the report is refused.        *)
ReportWrite(d) ==
  /\ rpc[d] = "write"
  /\ \/ Ok /\ status' = [status EXCEPT ![d[1]] = "failed"]
           /\ rpc' = [rpc EXCEPT ![d] = "find"]
     \/ Fault /\ rpc' = [rpc EXCEPT ![d] = "done"] /\ UNCHANGED status
  /\ UNCHANGED <<request, dispatch, redis, lookup, notices, epc, rmid,
                 worker, history>>

(* MarkTaskFailed: find the task; a miss means it was already processed.   *)
ReportFind(d) ==
  /\ rpc[d] = "find"
  /\ \/ /\ Ok
        /\ rpc' = [rpc EXCEPT ![d] = IF CanFind(d[1]) THEN "add" ELSE "done"]
        /\ rmid' = [rmid EXCEPT ![d] = index[d[1]]]
     \/ Fault /\ rpc' = [rpc EXCEPT ![d] = "done"] /\ UNCHANGED rmid
  /\ UNCHANGED <<request, dispatch, redis, lookup, db, epc, worker,
                 history>>

(* moveTaskToFailed.  Without a message id there is nothing to acknowledge,*)
(* and nothing more is done.                                               *)
ReportAdd(d) ==
  /\ rpc[d] = "add"
  /\ \/ /\ XAddOk("failed", d[1])
        /\ rpc' = [rpc EXCEPT ![d] = IF rmid[d] = NoId THEN "done" ELSE "ack"]
     \/ /\ XAddFails("failed", d[1])
        /\ rpc' = [rpc EXCEPT ![d] = "done"]
  /\ UNCHANGED <<request, dispatch, lookup, db, epc, rmid, worker,
                 history>>

(* AckTaskProcessed: XACK, whose failure ends the handler's work, and XDEL,*)
(* whose failure is only logged.                                           *)
ReportAck(d) ==
  /\ rpc[d] = "ack"
  /\ \/ Ok /\ XDel(rmid[d]) /\ rpc' = [rpc EXCEPT ![d] = "unindex"]
     \/ /\ Fault
        /\ UNCHANGED redis
        /\ \E q \in {"unindex", "done"} : rpc' = [rpc EXCEPT ![d] = q]
  /\ rmid' = [rmid EXCEPT ![d] = NoId]
  /\ UNCHANGED <<request, dispatch, lookup, db, epc, worker, history>>

(* RemoveTaskIndex: by task id, whatever message the field names by now.   *)
ReportUnindex(d) ==
  /\ rpc[d] = "unindex"
  /\ \/ Ok /\ index' = [index EXCEPT ![d[1]] = NoId]
     \/ Fault /\ UNCHANGED index
  /\ rpc' = [rpc EXCEPT ![d] = "untrack"]
  /\ UNCHANGED <<request, dispatch, redis, tracked, due, db, epc, rmid,
                 worker, history>>

(* RemoveTaskTimeout.                                                      *)
ReportUntrack(d) ==
  /\ rpc[d] = "untrack"
  /\ \/ Ok /\ Untrack({d[1]})
     \/ Fault /\ UNCHANGED <<tracked, due>>
  /\ rpc' = [rpc EXCEPT ![d] = "done"]
  /\ UNCHANGED <<request, dispatch, redis, index, db, epc, rmid, worker,
                 history>>

(***************************************************************************)
(* Monitor, timeout worker: checkDispatchedTimeouts, every 30 s.           *)
(***************************************************************************)

WorkerSteps == {"next", "add", "ack", "unindex", "check", "write", "notify"}

(* GetExpiredTasks.                                                        *)
WorkerTick ==
  /\ wpc = "idle"
  /\ tracked \cap due # {}
  /\ wtodo' = tracked \cap due
  /\ wdone' = {}
  /\ wpc' = "next"
  /\ UNCHANGED <<request, dispatch, redis, lookup, db, epc, report, wtask,
                 wmid, faults, history>>

(* A faulty variant: every expired task counts as processed from the start.*)
WorkerFindCountsEarly(t) ==
  /\ wpc = "next"
  /\ t \in wtodo
  /\ wtodo' = wtodo \ {t}
  /\ wdone' = wdone \cup {t}
  /\ \/ /\ Ok /\ CanFind(t)
        /\ wtask' = t /\ wmid' = index[t] /\ wpc' = "add"
        /\ UNCHANGED trackLost
     \/ /\ (Ok /\ ~ CanFind(t)) \/ Fault
        /\ trackLost' = trackLost \cup {t}
        /\ UNCHANGED <<wpc, wtask, wmid>>
  /\ UNCHANGED <<request, dispatch, redis, lookup, db, epc, report,
                 statusLost>>

(* A faulty variant: a task that is not found is left for the next tick.   *)
WorkerFindRetries(t) ==
  /\ wpc = "next"
  /\ t \in wtodo
  /\ wtodo' = wtodo \ {t}
  /\ \/ /\ Ok /\ CanFind(t)
        /\ wtask' = t /\ wmid' = index[t] /\ wpc' = "add"
     \/ /\ (Ok /\ ~ CanFind(t)) \/ Fault
        /\ UNCHANGED <<wpc, wtask, wmid>>
  /\ UNCHANGED <<request, dispatch, redis, lookup, db, epc, report, wdone,
                 history>>

(* FindTaskByID of the next expired task.  One that is not found counts as *)
(* processed, "to prevent reprocessing".                                   *)
WorkerFind(t) ==
  /\ wpc = "next"
  /\ t \in wtodo
  /\ wtodo' = wtodo \ {t}
  /\ \/ /\ Ok
        /\ CanFind(t)
        /\ wtask' = t
        /\ wmid' = index[t]
        /\ wpc' = "add"
        /\ UNCHANGED <<wdone, trackLost>>
     \/ /\ (Ok /\ ~ CanFind(t)) \/ Fault
        /\ wdone' = wdone \cup {t}
        /\ trackLost' = trackLost \cup {t}
        /\ UNCHANGED <<wpc, wtask, wmid>>
  /\ UNCHANGED <<request, dispatch, redis, lookup, db, epc, report,
                 statusLost>>

(* Faulty variants: after a failed XADD the worker goes on to acknowledge, *)
(* or counts the task as processed.                                        *)
WorkerAddAcksAnyway ==
  /\ wpc = "add"
  /\ XAddOk("failed", wtask) \/ XAddFails("failed", wtask)
  /\ wpc' = IF wmid = NoId THEN "unindex" ELSE "ack"
  /\ UNCHANGED <<request, dispatch, lookup, db, epc, report, wtask, wmid,
                 wtodo, wdone, history>>

WorkerAddGivesUp ==
  /\ wpc = "add"
  /\ \/ /\ XAddOk("failed", wtask)
        /\ wpc' = IF wmid = NoId THEN "unindex" ELSE "ack"
        /\ UNCHANGED wdone
     \/ /\ XAddFails("failed", wtask)
        /\ wpc' = "next"
        /\ wdone' = wdone \cup {wtask}
  /\ UNCHANGED <<request, dispatch, lookup, db, epc, report, wtask, wmid,
                 wtodo, history>>

(* moveTaskToFailed.  On failure the task is left for the next tick.       *)
WorkerAdd ==
  /\ wpc = "add"
  /\ \/ /\ XAddOk("failed", wtask)
        /\ wpc' = IF wmid = NoId THEN "unindex" ELSE "ack"
        /\ UNCHANGED statusLost
     \/ /\ XAddFails("failed", wtask)
        /\ wpc' = "next"
        /\ statusLost' = IF nextId' = nextId THEN statusLost
                                             ELSE statusLost \cup {wtask}
  /\ UNCHANGED <<request, dispatch, lookup, db, epc, report, wtask, wmid,
                 wtodo, wdone, trackLost>>

(* AckTaskProcessed: a failure is only logged.                             *)
WorkerAck ==
  /\ wpc = "ack"
  /\ \/ Ok /\ XDel(wmid)
     \/ Fault /\ UNCHANGED redis
  /\ wpc' = "unindex"
  /\ wmid' = NoId
  /\ UNCHANGED <<request, dispatch, lookup, db, epc, report, wtask, wtodo,
                 wdone, history>>

(* RemoveTaskIndex; from here on the task counts as processed.             *)
WorkerUnindex ==
  /\ wpc = "unindex"
  /\ \/ Ok /\ index' = [index EXCEPT ![wtask] = NoId]
     \/ Fault /\ UNCHANGED index
  /\ wdone' = wdone \cup {wtask}
  /\ wpc' = "check"
  /\ UNCHANGED <<request, dispatch, redis, tracked, due, db, epc, report,
                 wtask, wmid, wtodo, history>>

(* A faulty variant: the test of the existing status is inverted.          *)
WorkerCheckInverted ==
  /\ wpc = "check"
  /\ Ok
  /\ wpc' = IF status[wtask] # NoStatus THEN "write" ELSE "notify"
  /\ UNCHANGED <<request, dispatch, redis, lookup, db, epc, report, wtask,
                 wmid, wtodo, wdone, history>>

(* UpdateTaskFailed, first half: as in ReportCheck.                        *)
WorkerCheck ==
  /\ wpc = "check"
  /\ \/ Ok /\ wpc' = IF status[wtask] = NoStatus THEN "write" ELSE "notify"
     \/ Fault /\ wpc' = "write"
  /\ UNCHANGED <<request, dispatch, redis, lookup, db, epc, report, wtask,
                 wmid, wtodo, wdone, history>>

(* UpdateTaskFailed, second half: a failure is only logged.                *)
WorkerWrite ==
  /\ wpc = "write"
  /\ \/ Ok /\ status' = [status EXCEPT ![wtask] = "failed"]
           /\ UNCHANGED statusLost
     \/ Fault /\ statusLost' = statusLost \cup {wtask}
              /\ UNCHANGED status
  /\ wpc' = "notify"
  /\ UNCHANGED <<request, dispatch, redis, lookup, notices, epc, report,
                 wtask, wmid, wtodo, wdone, trackLost>>

(* The user hears "failed", whatever status the task has.                  *)
WorkerNotify ==
  /\ wpc = "notify"
  /\ \/ Ok /\ notices' = [notices EXCEPT ![wtask] = @ \cup {"failed"}]
     \/ Fault /\ UNCHANGED notices
  /\ wpc' = "next"
  /\ UNCHANGED <<request, dispatch, redis, lookup, status, epc, report, wtask,
                 wmid, wtodo, wdone, history>>

(* RemoveMultipleTaskTimeouts, once every expired task has had its turn.   *)
WorkerUntrack ==
  /\ wpc = "next"
  /\ wtodo = {}
  /\ \/ Ok /\ Untrack(wdone)
     \/ wdone # {} /\ Fault /\ UNCHANGED <<tracked, due>>
  /\ wpc' = "idle"
  /\ UNCHANGED <<request, dispatch, redis, index, db, epc, report, wtask,
                 wmid, wtodo, wdone, history>>

(***************************************************************************)
(* Crashes.  What a service holds in memory is gone; Redis and the         *)
(* database are not touched.  Initialize creates a stream whose key is     *)
(* absent, again with a TTL.                                               *)
(***************************************************************************)

Initialize ==
  /\ streamKey' = [s \in Streams |-> IF streamKey[s] = "absent" THEN "armed"
                                                                ELSE streamKey[s]]
  /\ UNCHANGED <<entries, gone, nextId>>

DispatcherCrash ==
  /\ Fault
  /\ dpc' = [t \in Tasks |-> "idle"]
  /\ trackLost' = trackLost \cup {t \in Tasks : dpc[t] \in {"index", "timeout"}}
  /\ Initialize
  /\ UNCHANGED <<request, dmid, sent, lookup, db, epc, report, worker,
                 statusLost>>

(* A keeper whose report was cut off calls again, or gives up; an event    *)
(* whose handler was cut off is not seen again.                            *)
MonitorStops ==
  /\ Fault
  /\ epc' = [d \in Deliveries |-> IF epc[d] \in EventActive THEN "done" ELSE epc[d]]
  /\ rpc' = [d \in Deliveries |-> IF rpc[d] \in ReportActive THEN "none" ELSE rpc[d]]
  /\ wpc' = "idle"
  /\ wtodo' = {}
  /\ wdone' = {}
  /\ statusLost' = IF wpc \in {"ack", "unindex", "check", "write"}
                     THEN statusLost \cup {wtask} ELSE statusLost
  /\ Initialize
  /\ UNCHANGED <<request, dispatch, db, rmid, wtask, wmid>>

MonitorCrash == MonitorStops /\ UNCHANGED <<lookup, trackLost>>

(* The monitor is down so long that the TTL of the index and of the        *)
(* timeouts, two hours after the last dispatch, runs out.                  *)
MonitorOutage ==
  /\ tracked # {}
  /\ tracked \subseteq due
  /\ MonitorStops
  /\ index' = [t \in Tasks |-> NoId]
  /\ tracked' = {}
  /\ due' = {}
  /\ trackLost' = trackLost \cup tracked
-----------------------------------------------------------------------------
Init ==
  /\ attempts = [R \in Requests |-> 0]
  /\ closed = {}
  /\ acked = {}
  /\ dpc = [t \in Tasks |-> "idle"]
  /\ dmid = [t \in Tasks |-> NoId]
  /\ sent = [t \in Tasks |-> 0]
  /\ entries = {}
  /\ gone = {}
  /\ nextId = 1
  /\ streamKey = [s \in Streams |-> IF s \in Expiring THEN "armed" ELSE "plain"]
  /\ index = [t \in Tasks |-> NoId]
  /\ tracked = {}
  /\ due = {}
  /\ status = [t \in Tasks |-> NoStatus]
  /\ notices = [t \in Tasks |-> {}]
  /\ epc = [d \in Deliveries |-> "none"]
  /\ rpc = [d \in Deliveries |-> "none"]
  /\ rmid = [d \in Deliveries |-> NoId]
  /\ wpc = "idle"
  /\ wtask \in Tasks
  /\ wmid = NoId
  /\ wtodo = {}
  /\ wdone = {}
  /\ faults = 0
  /\ trackLost = {}
  /\ statusLost = {}

DispatcherItem(t) ==
  \/ SendTaskToPerformer(t)
  \/ XAddDispatched(t)
  \/ StoreTaskIndex(t)
  \/ AddTaskToTimeoutTracking(t)

SchedulerCall(R) == Submit(R) \/ SubmitRefused(R) \/ GiveUp(R) \/ Reply(R)

EventStep(d) ==
  \/ EventFind(d)
  \/ EventAdd(d)
  \/ UpdateTaskSubmissionData(d)
  \/ UpdateKeeperPoints(d)
  \/ EventNotify(d)

ReportStep(d) ==
  \/ ReportCheck(d)
  \/ ReportWrite(d)
  \/ ReportFind(d)
  \/ ReportAdd(d)
  \/ ReportAck(d)
  \/ ReportUnindex(d)
  \/ ReportUntrack(d)

TimeoutWorker ==
  \/ WorkerTick
  \/ \E t \in Tasks : WorkerFind(t)
  \/ WorkerAdd
  \/ WorkerAck
  \/ WorkerUnindex
  \/ WorkerCheck
  \/ WorkerWrite
  \/ WorkerNotify
  \/ WorkerUntrack

Next ==
  \/ \E R \in Requests : SchedulerCall(R)
  \/ \E t \in Tasks : DispatcherItem(t) \/ Elapse(t)
  \/ \E d \in Deliveries : ReceiveEvent(d) \/ EventStep(d)
  \/ \E d \in Deliveries : ReceiveReport(d) \/ ReportStep(d)
  \/ TimeoutWorker
  \/ \E s \in Streams : StreamExpires(s)
  \/ DispatcherCrash
  \/ MonitorCrash
  \/ MonitorOutage

Spec == Init /\ [][Next]_vars

-----------------------------------------------------------------------------
TypeOK ==
  /\ attempts \in [Requests -> 0 .. MaxAttempts]
  /\ closed \subseteq Requests
  /\ acked \subseteq Requests
  /\ dpc \in [Tasks -> {"idle", "send", "xadd", "index", "timeout", "finished"}]
  /\ dmid \in [Tasks -> Ids \cup {NoId}]
  /\ sent \in [Tasks -> Nat]
  /\ entries \subseteq Entry
  /\ gone \subseteq Entry
  /\ nextId \in 1 .. MaxId + 1
  /\ streamKey \in [Streams -> {"armed", "plain", "absent"}]
  /\ index \in [Tasks -> Ids \cup {NoId}]
  /\ tracked \subseteq Tasks
  /\ due \subseteq tracked
  /\ status \in [Tasks -> {NoStatus, "completed", "failed"}]
  /\ notices \in [Tasks -> SUBSET {"completed", "failed"}]
  /\ epc \in [Deliveries -> {"none", "done"} \cup EventActive]
  /\ rpc \in [Deliveries -> {"none", "done"} \cup ReportActive]
  /\ rmid \in [Deliveries -> Ids \cup {NoId}]
  /\ wpc \in {"idle"} \cup WorkerSteps
  /\ wtask \in Tasks
  /\ wmid \in Ids \cup {NoId}
  /\ wtodo \subseteq Tasks
  /\ wdone \subseteq Tasks
  /\ faults \in 0 .. MaxFaults
  /\ trackLost \subseteq Tasks
  /\ statusLost \subseteq Tasks

(* A message is deleted from the dispatched stream only when its task has  *)
(* a copy in the failed stream (workers.go:75, "Don't acknowledge if we    *)
(* failed to move to failed stream"): whatever mix of failing calls and    *)
(* concurrent handlers there is, no XDEL overtakes the XADD of the copy,   *)
(* and none hits the message of another task.                              *)
DeletedOnlyAfterCopy ==
  [][\A e \in entries \ (entries' \cup gone') :
        e.stream = "dispatched" /\ FailedCopy(e.task)]_vars

(* A task that sits in the dispatched stream is watched by the timeout     *)
(* worker, or its dispatcher is about to register it, or it has a copy in  *)
(* the failed stream already.  The exceptions are the ones named where     *)
(* trackLost grows: a failed ZADD or a crash before it, an XADD that       *)
(* landed although it failed, a lookup that failed, a long outage.         *)
TimeoutCoverage ==
  \A e \in Of("dispatched") :
    \/ e.task \in tracked
    \/ dpc[e.task] \in {"index", "timeout"}
    \/ FailedCopy(e.task)
    \/ e.task \in trackLost

(* A task with a copy in the failed stream has a status in the database,   *)
(* or the timeout worker is on its way to write it.  The exceptions are    *)
(* named where statusLost grows: the write failed, the monitor crashed     *)
(* between the two, the XADD landed although it failed.                    *)
FailedCopyHasStatus ==
  \A t \in Tasks :
    FailedCopy(t) =>
      \/ status[t] # NoStatus
      \/ wtask = t /\ wpc \in {"ack", "unindex", "check", "write"}
      \/ t \in statusLost

(* A scheduler that was told "Task submitted successfully" for a single    *)
(* task can rely on it: the task was sent and was recorded in Redis.       *)
Recorded(t) == \E e \in Added : e.task = t /\ e.stream # "completed"

AckedSingleRecorded ==
  \A R \in acked : ~ IsBatch(R) => \A t \in R : sent[t] > 0 /\ Recorded(t)

(***************************************************************************)
(* Fairness.  The dispatcher's handler, the event workers and the RPC      *)
(* handlers are goroutines that never block on one another; the timeout    *)
(* worker's ticker fires for as long as the monitor runs; an hour passes.  *)
(* Nothing makes a scheduler call, a keeper answer or a crash happen.      *)
(***************************************************************************)
Fairness ==
  /\ \A t \in Tasks : WF_vars(DispatcherItem(t)) /\ WF_vars(Elapse(t))
  /\ \A d \in Deliveries : WF_vars(EventStep(d)) /\ WF_vars(ReportStep(d))
  /\ WF_vars(TimeoutWorker)

FairSpec == Spec /\ Fairness

(* Every task of an acknowledged request gets a status in the end, from    *)
(* its result, its keeper's error report or the timeout worker, whatever   *)
(* fails on the way: a failing call leaves the task to a later tick.  The  *)
(* exceptions are those TimeoutCoverage and FailedCopyHasStatus name, and  *)
(* a task of a batch whose dispatch failed.                                *)
EventuallySettled ==
  \A R \in Requests : \A t \in R :
    (R \in acked /\ Recorded(t)) ~> (status[t] # NoStatus \/ t \in trackLost \cup statusLost)

(* An expired entry of dispatched_timeouts does not stay for ever.         *)
ExpiredDrained ==
  \A t \in Tasks : (t \in tracked \cap due) ~> (t \notin tracked)

=============================================================================
