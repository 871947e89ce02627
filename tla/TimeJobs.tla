------------------------------ MODULE TimeJobs ------------------------------
(***************************************************************************)
(* Time-based jobs, from the tables of the database server to the task     *)
(* dispatcher.  The time scheduler polls GET /tasks/time on a ticker; the  *)
(* handler selects the time jobs whose next execution falls into the       *)
(* look-ahead window, advances each row, adds the custom jobs that are     *)
(* due, creates a task_data row per task and answers.  The scheduler drops *)
(* expired tasks and submits the rest in a batch, with retries.            *)
(*                                                                         *)
(* An HTTP attempt the client gave up on keeps running on the server, so   *)
(* handlers of one poll may overlap.  Meanwhile jobs are deleted, updated  *)
(* and made inactive by the status checker, and the condition scheduler    *)
(* creates task rows of its own.                                           *)
(***************************************************************************)
EXTENDS Integers, Sequences, FiniteSets, SequencesExt

CONSTANTS
  Timed,          \* time jobs
  Custom,         \* custom script jobs
  Other,          \* a job of the condition scheduler
  FirstRun,       \* FirstRun[j]: its first next_execution_timestamp
  Interval,       \* Interval[j]: its time_interval
  Expiry,         \* Expiry[j]: its expiration_time
  LookAhead,      \* the window of the poll
  Slack,          \* a history bound: polls this far apart are timely
  Attempts,       \* HTTP attempts of GET /tasks/time, in total
  MaxTries,       \* attempts of one submission
  MaxNow,         \* bound on time
  MaxOtherTasks,  \* bound on the tasks of the condition scheduler
  MaxEdits,       \* bound on the updates by the user
  MaxTimeFaults   \* bound on failing statements, calls and lost answers

Dated == Timed \cup Custom

ASSUME TimeAssumption ==
  /\ Timed \cap Custom = {} /\ Other \notin Dated /\ IsFiniteSet(Custom)
  /\ FirstRun \in [Dated -> Nat] /\ Expiry \in [Dated -> Nat]
  /\ Interval \in [Dated -> Nat \ {0}]
  /\ LookAhead \in Nat /\ Slack \in Nat /\ Attempts \in Nat /\ MaxTries \in Nat \ {0}
  /\ MaxNow \in Nat /\ MaxOtherTasks \in Nat /\ MaxEdits \in Nat
  /\ MaxTimeFaults \in Nat
  \* A poll at least every Slack is in time for every job and window.
  /\ Slack <= LookAhead
  /\ \A j \in Timed : Slack <= Interval[j] /\ Slack <= FirstRun[j]

VARIABLES
  now,
  dated,      \* time_job_data and custom_jobs: [active, completed, next]
  jobStatus,  \* job_data.status
  taskJob,    \* task_data: task id -> job; ids are MAX(task_id) + 1
  taskIds,    \* job_data.task_ids
  poll,       \* per HTTP attempt: the handler on the server
  client,     \* the time scheduler: its attempt, the tasks it found and has not looked
              \* at, its batch and tries
  other,      \* the condition scheduler's CreateTaskData
  edits,      \* updates by the user so far
  accepted,   \* history: the tasks the dispatcher accepted, in order
  removed,    \* history: the time jobs whose DELETE was answered 200
  edited,     \* history: the jobs a user updated
  lastPoll,   \* history: when the last handler that advanced all rows selected them
  timely,     \* history: such handlers never selected more than Slack apart
  crossed,    \* history: a handler selected while another was still advancing
  doubled,    \* history: the batches submitted again after a lost answer
  timeFaults

timeVars == <<now, dated, jobStatus, taskJob, taskIds, poll, client, other, edits,
              accepted, removed, edited, lastPoll, timely, crossed, doubled,
              timeFaults>>

NoPoll == [pc |-> "idle", at |-> 0, todo |-> {}, job |-> Other, slot |-> 0,
           out |-> << >>, i |-> 0, id |-> 0, failed |-> FALSE]
EndPoll(a) == poll' = [poll EXCEPT ![a] = [NoPoll EXCEPT !.pc = "answered"]]
ClientIdle == [pc |-> "idle", attempt |-> 0, found |-> << >>, batch |-> << >>, tries |-> 0]

\* A task of an answer or a batch: the job, the execution it is for, its id.
Task(j, slot, id) == [job |-> j, slot |-> slot, id |-> id]

Advancing(a) == poll[a].pc \in {"advance", "status", "inactive"}
PollGoto(a, pc) == poll' = [poll EXCEPT ![a].pc = pc]

TimeInit ==
  /\ now = 0
  /\ dated = [j \in Dated |-> [active |-> TRUE, completed |-> FALSE, next |-> FirstRun[j]]]
  /\ jobStatus = [j \in Dated |-> "pending"]
  /\ taskJob = << >>
  /\ taskIds = [j \in Dated \cup {Other} |-> << >>]
  /\ poll = [a \in 1..Attempts |-> NoPoll]
  /\ client = ClientIdle
  /\ other = [pc |-> "idle", id |-> 0, made |-> 0]
  /\ edits = 0
  /\ accepted = << >>
  /\ removed = {}
  /\ edited = {}
  /\ lastPoll = 0
  /\ timely = TRUE
  /\ crossed = FALSE
  /\ doubled = {}
  /\ timeFaults = 0

-----------------------------------------------------------------------------
(* The handler of GET /tasks/time: GetTimeBasedTasks.                      *)

(* A faulty variant: the window starts after now.                          *)
SelectAfterNow(a) ==
  /\ poll[a].pc = "select"
  /\ poll' = [poll EXCEPT ![a] =
       [@ EXCEPT !.pc = "advance", !.at = now,
                 !.todo = {[job |-> j, slot |-> dated[j].next] :
                             j \in {k \in Timed : /\ dated[k].active
                                                  /\ dated[k].next \in (now + 1)..(now + LookAhead)}}]]
  /\ crossed' = (crossed \/ \E b \in 1..Attempts : b # a /\ Advancing(b))
  /\ UNCHANGED <<now, dated, jobStatus, taskJob, taskIds, client, other, edits, accepted,
                 removed, edited, lastPoll, timely, doubled, timeFaults>>

\* GetTimeJobsByNextExecutionTimestamp selects the active time jobs due
\* between now and the end of the window.
SelectDue(a) ==
  /\ poll[a].pc = "select"
  /\ poll' = [poll EXCEPT ![a] =
       [@ EXCEPT !.pc = "advance", !.at = now,
                 !.todo = {[job |-> j, slot |-> dated[j].next] :
                             j \in {k \in Timed : /\ dated[k].active
                                                  /\ dated[k].next \in now..(now + LookAhead)}}]]
  /\ crossed' = (crossed \/ \E b \in 1..Attempts : b # a /\ Advancing(b))
  /\ UNCHANGED <<now, dated, jobStatus, taskJob, taskIds, client, other, edits, accepted,
                 removed, edited, lastPoll, timely, doubled, timeFaults>>

(* A faulty variant: the next execution is not written.                    *)
AdvanceForgets(a) ==
  \E t \in poll[a].todo :
    /\ poll[a].pc = "advance"
    /\ poll' = [poll EXCEPT ![a].todo = @ \ {t},
                            ![a].out = Append(@, Task(t.job, t.slot, 0))]
    /\ UNCHANGED <<now, dated, jobStatus, taskJob, taskIds, client, other, edits, accepted,
                   removed, edited, lastPoll, timely, crossed, doubled, timeFaults>>

\* One selected row: its next execution is moved on by the interval.  When
\* that would be after the expiration, the row is completed instead.
AdvanceRow(a) ==
  \E t \in poll[a].todo :
    LET next == t.slot + Interval[t.job] IN
    /\ poll[a].pc = "advance"
    /\ IF next > Expiry[t.job]
         THEN /\ dated' = [dated EXCEPT ![t.job].completed = TRUE]
              /\ poll' = [poll EXCEPT ![a].pc = "status", ![a].job = t.job,
                                      ![a].todo = @ \ {t}, ![a].slot = t.slot]
         ELSE /\ dated' = [dated EXCEPT ![t.job].next = next]
              /\ poll' = [poll EXCEPT ![a].todo = @ \ {t},
                                      ![a].out = Append(@, Task(t.job, t.slot, 0))]
    /\ UNCHANGED <<now, jobStatus, taskJob, taskIds, client, other, edits, accepted, removed,
                   edited, lastPoll, timely, crossed, doubled, timeFaults>>

\* CompleteTimeJob, second statement: job_data.status.
CompleteJob(a) ==
  /\ poll[a].pc = "status"
  /\ jobStatus' = [jobStatus EXCEPT ![poll[a].job] = "completed"]
  /\ PollGoto(a, "inactive")
  /\ UNCHANGED <<now, dated, taskJob, taskIds, client, other, edits, accepted, removed,
                 edited, lastPoll, timely, crossed, doubled, timeFaults>>

\* UpdateTimeJobStatus(false); the completed row is still handed out.
DeactivateRow(a) ==
  /\ poll[a].pc = "inactive"
  /\ dated' = [dated EXCEPT ![poll[a].job].active = FALSE]
  /\ poll' = [poll EXCEPT ![a].pc = "advance",
                          ![a].out = Append(@, Task(poll[a].job, poll[a].slot, 0))]
  /\ UNCHANGED <<now, jobStatus, taskJob, taskIds, client, other, edits, accepted, removed,
                 edited, lastPoll, timely, crossed, doubled, timeFaults>>

\* All rows are done.  GetCustomJobsDueForExecution adds the active custom
\* jobs due before the end of a window that was fixed on arrival; their rows
\* are not written.  An error of this query is only logged.
AddCustom(a) ==
  /\ poll[a].pc = "advance" /\ poll[a].todo = {}
  /\ LET due == {j \in Custom : /\ dated[j].active /\ ~dated[j].completed
                                /\ dated[j].next < poll[a].at + LookAhead}
         found == SetToSeq({Task(j, dated[j].next, 0) : j \in due})
     IN \/ /\ poll' = [poll EXCEPT ![a].pc = "tasks", ![a].out = @ \o found, ![a].i = 1]
           /\ UNCHANGED timeFaults
        \/ /\ timeFaults < MaxTimeFaults
           /\ timeFaults' = timeFaults + 1
           /\ poll' = [poll EXCEPT ![a].pc = "tasks", ![a].i = 1]
  /\ lastPoll' = IF poll[a].at > lastPoll THEN poll[a].at ELSE lastPoll
  /\ timely' = (timely /\ poll[a].at - lastPoll <= Slack)
  /\ UNCHANGED <<now, dated, jobStatus, taskJob, taskIds, client, other, edits, accepted,
                 removed, edited, crossed, doubled>>

\* CreateTaskDataInDB reads MAX(task_id) ...
ReadMaxTaskID(a) ==
  /\ poll[a].pc = "tasks" /\ poll[a].i <= Len(poll[a].out)
  /\ poll' = [poll EXCEPT ![a].pc = "insert", ![a].id = Len(taskJob) + 1]
  /\ UNCHANGED <<now, dated, jobStatus, taskJob, taskIds, client, other, edits, accepted,
                 removed, edited, lastPoll, timely, crossed, doubled, timeFaults>>

\* An INSERT under an id somebody else took meanwhile overwrites the row.
Inserted(id, j) == IF id \in DOMAIN taskJob THEN [taskJob EXCEPT ![id] = j]
                                            ELSE Append(taskJob, j)

\* ... and inserts the row under the next id.
InsertTask(a) ==
  /\ poll[a].pc = "insert"
  /\ taskJob' = Inserted(poll[a].id, poll[a].out[poll[a].i].job)
  /\ PollGoto(a, "link")
  /\ UNCHANGED <<now, dated, jobStatus, taskIds, client, other, edits, accepted, removed,
                 edited, lastPoll, timely, crossed, doubled, timeFaults>>

\* AddTaskIDToJob scans the list into a variable the loop appends to, appends
\* the id again and writes the list: the id is in it twice.
Linked(j, id) == [taskIds EXCEPT ![j] = @ \o <<id, id>>]

LinkTask(a) ==
  /\ poll[a].pc = "link"
  /\ taskIds' = Linked(poll[a].out[poll[a].i].job, poll[a].id)
  /\ poll' = [poll EXCEPT ![a].pc = "tasks", ![a].i = @ + 1,
                          ![a].out[poll[a].i].id = poll[a].id]
  /\ UNCHANGED <<now, dated, jobStatus, taskJob, client, other, edits, accepted, removed,
                 edited, lastPoll, timely, crossed, doubled, timeFaults>>

\* The answer.  A failed task has already set the status to 500.
AnswerPoll(a) ==
  /\ poll[a].pc = "tasks" /\ poll[a].i > Len(poll[a].out)
  /\ EndPoll(a)
  /\ IF client.pc = "waiting" /\ client.attempt = a
       THEN client' = IF poll[a].failed THEN [client EXCEPT !.pc = "retry"]
                      ELSE IF poll[a].out = << >> THEN ClientIdle
                      ELSE [client EXCEPT !.pc = "filter", !.found = poll[a].out]
       ELSE UNCHANGED client
  /\ UNCHANGED <<now, dated, jobStatus, taskJob, taskIds, other, edits, accepted, removed,
                 edited, lastPoll, timely, crossed, doubled, timeFaults>>

\* A failing statement: before the task rows it ends the handler with 500,
\* and rows already advanced stay advanced; while creating a task it sets the
\* status to 500 and the loop goes on with the next task.
PollFails(a) ==
  /\ timeFaults < MaxTimeFaults
  /\ timeFaults' = timeFaults + 1
  /\ \/ /\ poll[a].pc = "select" \/ poll[a].pc \in {"status", "inactive"}
           \/ (poll[a].pc = "advance" /\ poll[a].todo # {})
        /\ EndPoll(a)
        /\ client' = IF client.pc = "waiting" /\ client.attempt = a
                       THEN [client EXCEPT !.pc = "retry"] ELSE client
     \/ /\ poll[a].pc \in {"insert", "link"}
        /\ poll' = [poll EXCEPT ![a].pc = "tasks", ![a].i = @ + 1, ![a].failed = TRUE]
        /\ UNCHANGED client
  /\ UNCHANGED <<now, dated, jobStatus, taskJob, taskIds, other, edits, accepted, removed,
                 edited, lastPoll, timely, crossed, doubled>>

-----------------------------------------------------------------------------
(* The time scheduler: pollAndScheduleTasks, one at a time.                *)

Fresh == {a \in 1..Attempts : poll[a].pc = "idle" /\ \A b \in 1..(a - 1) : poll[b].pc # "idle"}

\* A tick of the ticker, or an attempt after a 5xx: GET /tasks/time.
SendPoll ==
  \E a \in Fresh :
    /\ client.pc \in {"idle", "retry"}
    /\ client' = [client EXCEPT !.pc = "waiting", !.attempt = a]
    /\ PollGoto(a, "select")
    /\ UNCHANGED <<now, dated, jobStatus, taskJob, taskIds, other, edits, accepted, removed,
                   edited, lastPoll, timely, crossed, doubled, timeFaults>>

\* The client's timeout, or a connection that breaks: DoWithRetry tries again
\* while the handler may still be running.
PollTimesOut ==
  /\ client.pc = "waiting"
  /\ timeFaults < MaxTimeFaults
  /\ timeFaults' = timeFaults + 1
  /\ client' = [client EXCEPT !.pc = "retry"]
  /\ UNCHANGED <<now, dated, jobStatus, taskJob, taskIds, poll, other, edits, accepted,
                 removed, edited, lastPoll, timely, crossed, doubled>>

\* The attempts are used up: the poll is given up until the next tick.
GiveUpPoll ==
  /\ client.pc = "retry"
  /\ client' = ClientIdle
  /\ UNCHANGED <<now, dated, jobStatus, taskJob, taskIds, poll, other, edits, accepted,
                 removed, edited, lastPoll, timely, crossed, doubled, timeFaults>>

\* The loop of processBatch drops a task that has expired by then; after the
\* last one, nothing left is nothing to submit.
FilterTask ==
  LET t == Head(client.found)
      rest == Tail(client.found)
      kept == IF Expiry[t.job] < now THEN client.batch ELSE Append(client.batch, t)
  IN  /\ client.pc = "filter"
      /\ client' = IF rest # << >> THEN [client EXCEPT !.found = rest, !.batch = kept]
                   ELSE IF kept = << >> THEN ClientIdle
                   ELSE [client EXCEPT !.pc = "submit", !.found = rest, !.batch = kept]
      /\ UNCHANGED <<now, dated, jobStatus, taskJob, taskIds, poll, other, edits, accepted,
                     removed, edited, lastPoll, timely, crossed, doubled, timeFaults>>

Submitted == accepted' = accepted \o client.batch

\* submitBatchToTaskDispatcher: the dispatcher accepts and the answer arrives.
SubmitBatch ==
  /\ client.pc = "submit"
  /\ Submitted
  /\ client' = ClientIdle
  /\ UNCHANGED <<now, dated, jobStatus, taskJob, taskIds, poll, other, edits, removed,
                 edited, lastPoll, timely, crossed, doubled, timeFaults>>

\* The call fails, after the dispatcher accepted the batch or without: it is
\* made again, up to MaxTries times, and then the batch is dropped.
SubmitFails ==
  /\ client.pc = "submit"
  /\ timeFaults < MaxTimeFaults
  /\ timeFaults' = timeFaults + 1
  /\ \/ Submitted /\ doubled' = doubled \cup ToSet(client.batch)
     \/ UNCHANGED <<accepted, doubled>>
  /\ client' = IF client.tries + 1 = MaxTries THEN ClientIdle
                                              ELSE [client EXCEPT !.tries = @ + 1]
  /\ UNCHANGED <<now, dated, jobStatus, taskJob, taskIds, poll, other, edits, removed,
                 edited, lastPoll, timely, crossed>>

-----------------------------------------------------------------------------
(* What else happens to the rows.                                          *)

Tick ==
  /\ now < MaxNow
  /\ now' = now + 1
  /\ UNCHANGED <<dated, jobStatus, taskJob, taskIds, poll, client, other, edits, accepted,
                 removed, edited, lastPoll, timely, crossed, doubled, timeFaults>>

\* DeleteJobData of a time job: its last statement, UpdateTimeJobStatus(false),
\* and the answer.  (JobStore has the statements one by one.)
DeleteTimeJob(j) ==
  /\ j \in Timed \ removed
  /\ dated' = [dated EXCEPT ![j].active = FALSE]
  /\ jobStatus' = [jobStatus EXCEPT ![j] = "deleted"]
  /\ removed' = removed \cup {j}
  /\ UNCHANGED <<now, taskJob, taskIds, poll, client, other, edits, accepted, edited,
                 lastPoll, timely, crossed, doubled, timeFaults>>

\* UpdateJobDataFromUser of a time job: the next execution becomes the time of
\* the update plus the interval.
EditTimeJob(j) ==
  /\ j \in Timed /\ edits < MaxEdits
  /\ edits' = edits + 1
  /\ edited' = edited \cup {j}
  /\ dated' = [dated EXCEPT ![j].next = now + Interval[j]]
  /\ UNCHANGED <<now, jobStatus, taskJob, taskIds, poll, client, other, accepted, removed,
                 lastPoll, timely, crossed, doubled, timeFaults>>

\* checkTimeJobs makes an expired time job inactive.
CheckTimeJob(j) ==
  /\ j \in Timed /\ dated[j].active /\ Expiry[j] < now
  /\ dated' = [dated EXCEPT ![j].active = FALSE]
  /\ UNCHANGED <<now, jobStatus, taskJob, taskIds, poll, client, other, edits, accepted,
                 removed, edited, lastPoll, timely, crossed, doubled, timeFaults>>

\* CreateTaskData, the handler of POST /tasks, for the condition scheduler: it
\* allocates an id the same way.
OtherReadsMax ==
  /\ other.pc = "idle" /\ other.made < MaxOtherTasks
  /\ other' = [other EXCEPT !.pc = "insert", !.id = Len(taskJob) + 1]
  /\ UNCHANGED <<now, dated, jobStatus, taskJob, taskIds, poll, client, edits, accepted,
                 removed, edited, lastPoll, timely, crossed, doubled, timeFaults>>

OtherInserts ==
  /\ other.pc = "insert"
  /\ taskJob' = Inserted(other.id, Other)
  /\ other' = [other EXCEPT !.pc = "link"]
  /\ UNCHANGED <<now, dated, jobStatus, taskIds, poll, client, edits, accepted, removed,
                 edited, lastPoll, timely, crossed, doubled, timeFaults>>

OtherLinks ==
  /\ other.pc = "link"
  /\ taskIds' = Linked(Other, other.id)
  /\ other' = [other EXCEPT !.pc = "idle", !.made = @ + 1]
  /\ UNCHANGED <<now, dated, jobStatus, taskJob, poll, client, edits, accepted, removed,
                 edited, lastPoll, timely, crossed, doubled, timeFaults>>

TimeNext ==
  \/ \E a \in 1..Attempts :
       \/ SelectDue(a) \/ AdvanceRow(a) \/ CompleteJob(a) \/ DeactivateRow(a)
       \/ AddCustom(a) \/ ReadMaxTaskID(a) \/ InsertTask(a) \/ LinkTask(a)
       \/ AnswerPoll(a) \/ PollFails(a)
  \/ SendPoll \/ PollTimesOut \/ GiveUpPoll \/ FilterTask \/ SubmitBatch \/ SubmitFails
  \/ Tick
  \/ \E j \in Dated : DeleteTimeJob(j) \/ EditTimeJob(j) \/ CheckTimeJob(j)
  \/ OtherReadsMax \/ OtherInserts \/ OtherLinks

TimeSpec == TimeInit /\ [][TimeNext]_timeVars

-----------------------------------------------------------------------------
TaskRecord == [job : Dated, slot : Nat, id : Nat]
Selected == [job : Timed, slot : Nat]

\* The variables have the shapes declared above.
TimeTypeOK ==
  /\ now \in 0..MaxNow
  /\ dated \in [Dated -> [active : BOOLEAN, completed : BOOLEAN, next : Nat]]
  /\ jobStatus \in [Dated -> {"pending", "completed", "deleted"}]
  /\ taskJob \in Seq(Dated \cup {Other})
  /\ taskIds \in [Dated \cup {Other} -> Seq(Nat)]
  /\ DOMAIN poll = 1..Attempts
  /\ \A a \in 1..Attempts :
       /\ poll[a].pc \in {"idle", "select", "advance", "status", "inactive", "tasks",
                          "insert", "link", "answered"}
       /\ poll[a].todo \subseteq Selected /\ poll[a].out \in Seq(TaskRecord)
  /\ client.pc \in {"idle", "waiting", "retry", "filter", "submit"}
  /\ client.found \in Seq(TaskRecord) /\ client.batch \in Seq(TaskRecord)
  /\ accepted \in Seq(TaskRecord)
  /\ timeFaults \in 0..MaxTimeFaults

\* No job falls behind.  A row whose next execution has passed is outside the
\* window of every later poll: the job stays active and never runs again.  As
\* long as the polls are timely and do not overlap, whatever fails in between,
\* this happens to no active job that was not updated by its user.
NoStall ==
  timely /\ ~crossed /\ now - lastPoll <= Slack
    => \A j \in Timed \ edited :
         dated[j].active /\ ~dated[j].completed => dated[j].next >= now

\* An execution of a time job is accepted once: two accepted tasks for the
\* same execution of a job not updated meanwhile were submitted again after a
\* lost answer, or come from overlapping handlers.
SlotOnce ==
  ~crossed =>
    \A m, n \in DOMAIN accepted :
      /\ m < n
      /\ accepted[m].job = accepted[n].job /\ accepted[m].slot = accepted[n].slot
      /\ accepted[m].job \in Timed \ edited
      => accepted[m] \in doubled

=============================================================================
