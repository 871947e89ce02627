------------------------------ MODULE JobStore ------------------------------
(***************************************************************************)
(* The job API of the database server: POST /jobs, DELETE /jobs/:id,       *)
(* PUT /jobs/:id and the status checker.  A handler is a goroutine that    *)
(* issues one single-row statement after another; the statements of        *)
(* several requests interleave, and any of them may fail.  All requests    *)
(* come from one user address, the case in which they share rows.          *)
(*                                                                         *)
(* A job has a row in job_data and a row in the table of its kind          *)
(* (time_job_data, event_job_data, condition_job_data, custom_jobs).       *)
(* INSERT and UPDATE are both upserts.                                     *)
(***************************************************************************)
EXTENDS Naturals, Sequences, FiniteSets

CONSTANTS
  JobIds,     \* job ids, chosen by the client
  Kind,       \* Kind[j]: the kind its task_definition_id stands for
  Posts,      \* POST /jobs requests
  Batch,      \* Batch[p]: the jobs of the body, in order
  Worth,      \* Worth[j]: the points its creation earns (10, 20 if custom)
  Drops,      \* DELETE requests
  DropOf,     \* DropOf[d]: the job to delete
  Edits,      \* PUT /jobs/:id requests
  EditOf,     \* EditOf[e]: the job to update
  MaxJobFaults  \* bound on failing statements and calls

Kinds == {"time", "event", "condition", "custom", "unknown"}
Scheduled == {"event", "condition"}   \* the condition scheduler runs these

ASSUME JobAssumption ==
  /\ Kind \in [JobIds -> Kinds]
  /\ Batch \in [Posts -> Seq(JobIds)]
  /\ \A p \in Posts : Batch[p] # << >>
  /\ Worth \in [JobIds -> Nat]
  /\ DropOf \in [Drops -> JobIds]
  /\ EditOf \in [Edits -> JobIds]
  /\ MaxJobFaults \in Nat

VARIABLES
  users,     \* user_data: id -> [jobs, points]; ids are MAX(user_id) + 1
  jobRow,    \* job_data: [kind, status], kind "none" in a row only UPDATE wrote
  typed,     \* the typed tables: "none", "active" or "inactive"
  told,      \* jobs the condition scheduler was told to run
  post,      \* per POST: where the handler is and its local variables
  drop,      \* per DELETE: where the handler is
  edit,      \* per PUT: where the handler is
  expired,   \* jobs whose expiration_time has passed
  sole,      \* history: POSTs no other POST of the address has overlapped
  gone,      \* history: jobs the DELETE of which, sent after the job's creation
             \* was over, deactivated their row and was answered 200 (that of
             \* a custom job is answered 200 and leaves the row active)
  jobFaults

jobVars == <<users, jobRow, typed, told, post, drop, edit, expired, sole, gone,
             jobFaults>>

NoJobRow == [kind |-> "none", status |-> "none"]
RunningPc == {"lookup", "maxUser", "insertUser", "job", "typed", "notify",
              "points", "list"}
PostPc == RunningPc \cup {"idle", "done", "failed"}
DropPc == {"idle", "kind", "mark", "deactivate", "pause", "done", "failed"}
EditPc == {"idle", "row", "interval", "done", "failed"}

Running(p) == post[p].pc \in RunningPc
PostsOf(j) == {p \in Posts : \E n \in 1..Len(Batch[p]) : Batch[p][n] = j}

JobInit ==
  /\ users = << >>
  /\ jobRow = [j \in JobIds |-> NoJobRow]
  /\ typed = [j \in JobIds |-> "none"]
  /\ told = {}
  /\ post = [p \in Posts |-> [pc |-> "idle", i |-> 0, uid |-> 0, jobs |-> << >>,
                              points |-> 0]]
  /\ drop = [d \in Drops |-> [pc |-> "idle", late |-> FALSE, kind |-> "none"]]
  /\ edit = [e \in Edits |-> "idle"]
  /\ expired = {}
  /\ sole = Posts
  /\ gone = {}
  /\ jobFaults = 0

-----------------------------------------------------------------------------
(* POST /jobs: CreateJobData.                                              *)

PostGoto(p, pc) == post' = [post EXCEPT ![p].pc = pc]

\* A non-empty body arrives.  The requests running now overlap with it.
ReceivePost(p) ==
  LET others == {q \in Posts : Running(q)} IN
  /\ post[p].pc = "idle"
  /\ PostGoto(p, "lookup")
  /\ sole' = IF others = {} THEN sole ELSE sole \ (others \cup {p})
  /\ UNCHANGED <<users, jobRow, typed, told, drop, edit, expired, gone, jobFaults>>

\* GetUserDataByAddress: any row of the address, or ErrNotFound.  The rest of
\* the handler works on this snapshot of the row.
LookupUser(p) ==
  /\ post[p].pc = "lookup"
  /\ IF users = << >>
       THEN PostGoto(p, "maxUser")
       ELSE \E id \in DOMAIN users :
              post' = [post EXCEPT ![p] = [pc |-> "job", i |-> Len(Batch[p]), uid |-> id,
                                           jobs |-> users[id].jobs,
                                           points |-> users[id].points]]
  /\ UNCHANGED <<users, jobRow, typed, told, drop, edit, expired, sole, gone, jobFaults>>

\* CreateNewUser reads MAX(user_id) ...
ReadMaxUserID(p) ==
  /\ post[p].pc = "maxUser"
  /\ post' = [post EXCEPT ![p].pc = "insertUser", ![p].uid = Len(users) + 1]
  /\ UNCHANGED <<users, jobRow, typed, told, drop, edit, expired, sole, gone, jobFaults>>

\* ... and inserts the row under that id: a row that took the id meanwhile is
\* overwritten, save its job_ids, which the INSERT does not name.
InsertUser(p) ==
  LET id == post[p].uid IN
  /\ post[p].pc = "insertUser"
  /\ users' = IF id \in DOMAIN users THEN [users EXCEPT ![id].points = 0]
                                     ELSE Append(users, [jobs |-> << >>, points |-> 0])
  /\ post' = [post EXCEPT ![p] = [pc |-> "job", i |-> Len(Batch[p]), uid |-> id,
                                  jobs |-> << >>, points |-> 0]]
  /\ UNCHANGED <<jobRow, typed, told, drop, edit, expired, sole, gone, jobFaults>>

\* From the last job of the batch to the first: the job_data row.
InsertJob(p) ==
  LET j == Batch[p][post[p].i] IN
  /\ post[p].pc = "job"
  /\ jobRow' = [jobRow EXCEPT ![j] = [kind |-> Kind[j], status |-> "pending"]]
  /\ PostGoto(p, "typed")
  /\ UNCHANGED <<users, typed, told, drop, edit, expired, sole, gone, jobFaults>>

\* The row of the job's kind; an unknown task_definition_id is refused here,
\* after the job_data row was written.
InsertTyped(p) ==
  LET j == Batch[p][post[p].i] IN
  /\ post[p].pc = "typed"
  /\ IF Kind[j] = "unknown"
       THEN PostGoto(p, "failed") /\ UNCHANGED typed
       ELSE /\ typed' = [typed EXCEPT ![j] = "active"]
            /\ PostGoto(p, IF Kind[j] \in Scheduled THEN "notify" ELSE "points")
  /\ UNCHANGED <<users, jobRow, told, drop, edit, expired, sole, gone, jobFaults>>

\* notifyConditionScheduler: the outcome is only logged.  A failed call may
\* have reached the scheduler all the same.
NotifyScheduler(p) ==
  LET j == Batch[p][post[p].i] IN
  /\ post[p].pc = "notify"
  /\ \/ told' = told \cup {j} /\ UNCHANGED jobFaults
     \/ /\ jobFaults < MaxJobFaults
        /\ jobFaults' = jobFaults + 1
        /\ told' \in {told, told \cup {j}}
  /\ PostGoto(p, "points")
  /\ UNCHANGED <<users, jobRow, typed, drop, edit, expired, sole, gone>>

\* UpdateUserTasksAndPoints writes the points of the snapshot plus those of
\* this job: within a batch, and between requests, the last writer wins.
AddPoints(p) ==
  LET j == Batch[p][post[p].i] IN
  /\ post[p].pc = "points"
  /\ users' = [users EXCEPT ![post[p].uid].points = post[p].points + Worth[j]]
  /\ post' = [post EXCEPT ![p].pc = IF post[p].i = 1 THEN "list" ELSE "job",
                          ![p].i = post[p].i - 1]
  /\ UNCHANGED <<jobRow, typed, told, drop, edit, expired, sole, gone, jobFaults>>

(* A faulty variant: the job ids of the batch replace those of the row.    *)
ListBatchOnly(p) ==
  /\ post[p].pc = "list"
  /\ users' = [users EXCEPT ![post[p].uid].jobs = Batch[p]]
  /\ PostGoto(p, "done")
  /\ UNCHANGED <<jobRow, typed, told, drop, edit, expired, sole, gone, jobFaults>>

\* UpdateUserJobIDs writes the job ids of the snapshot and those of the batch.
ListJobs(p) ==
  /\ post[p].pc = "list"
  /\ users' = [users EXCEPT ![post[p].uid].jobs = post[p].jobs \o Batch[p]]
  /\ PostGoto(p, "done")
  /\ UNCHANGED <<jobRow, typed, told, drop, edit, expired, sole, gone, jobFaults>>

\* Any statement may fail, and a job may be refused before its row is written
\* (id format, script validation, missing safe address): the answer is an
\* error, and what earlier iterations wrote stays.
PostFails(p) ==
  /\ post[p].pc \in RunningPc \ {"notify"}
  /\ jobFaults < MaxJobFaults
  /\ jobFaults' = jobFaults + 1
  /\ PostGoto(p, "failed")
  /\ UNCHANGED <<users, jobRow, typed, told, drop, edit, expired, sole, gone>>

-----------------------------------------------------------------------------
(* DELETE /jobs/:id: DeleteJobData.                                        *)

DropGoto(d, pc) == drop' = [drop EXCEPT ![d].pc = pc]

\* late: the job exists and no POST still works on it.
ReceiveDrop(d) ==
  LET j == DropOf[d] IN
  /\ drop[d].pc = "idle"
  /\ drop' = [drop EXCEPT ![d] = [pc |-> "kind", kind |-> "none",
                late |-> \A p \in PostsOf(j) : post[p].pc \in {"done", "failed"}]]
  /\ UNCHANGED <<users, jobRow, typed, told, post, edit, expired, sole, gone, jobFaults>>

\* GetTaskDefinitionIDByJobID: 404 when there is no row.
ReadKind(d) ==
  /\ drop[d].pc = "kind"
  /\ LET row == jobRow[DropOf[d]] IN
       drop' = [drop EXCEPT ![d].pc = IF row = NoJobRow THEN "failed" ELSE "mark",
                            ![d].kind = row.kind]
  /\ UNCHANGED <<users, jobRow, typed, told, post, edit, expired, sole, gone, jobFaults>>

(* A faulty variant: the row is removed before the typed row is inactive.  *)
RemoveRow(d) ==
  LET j == DropOf[d] IN
  /\ drop[d].pc = "mark"
  /\ jobRow' = [jobRow EXCEPT ![j] = NoJobRow]
  /\ DropGoto(d, IF drop[d].kind \in Scheduled \cup {"time"} THEN "deactivate" ELSE "done")
  /\ UNCHANGED <<users, typed, told, post, edit, expired, sole, gone, jobFaults>>

MarkDeleted(d) ==
  LET j == DropOf[d] IN
  /\ drop[d].pc = "mark"
  /\ jobRow' = [jobRow EXCEPT ![j].status = "deleted"]
  /\ DropGoto(d, IF drop[d].kind \in Scheduled \cup {"time"} THEN "deactivate" ELSE "done")
  /\ UNCHANGED <<users, typed, told, post, edit, expired, sole, gone, jobFaults>>

Answered(d) ==
  gone' = IF drop[d].late THEN gone \cup {DropOf[d]} ELSE gone

(* A faulty variant: the condition scheduler is not told.                  *)
DeactivateQuietly(d) ==
  LET j == DropOf[d] IN
  /\ drop[d].pc = "deactivate"
  /\ typed' = [typed EXCEPT ![j] = "inactive"]
  /\ DropGoto(d, "done") /\ Answered(d)
  /\ UNCHANGED <<users, jobRow, told, post, edit, expired, sole, jobFaults>>

\* UpdateTimeJobStatus / UpdateEventJobStatus / UpdateConditionJobStatus(false).
Deactivate(d) ==
  LET j == DropOf[d] IN
  /\ drop[d].pc = "deactivate"
  /\ typed' = [typed EXCEPT ![j] = "inactive"]
  /\ IF drop[d].kind = "time"
       THEN DropGoto(d, "done") /\ Answered(d)
       ELSE DropGoto(d, "pause") /\ UNCHANGED gone
  /\ UNCHANGED <<users, jobRow, told, post, edit, expired, sole, jobFaults>>

\* notifyPauseToConditionScheduler; a failure is answered with 500.
PauseScheduler(d) ==
  LET j == DropOf[d] IN
  /\ drop[d].pc = "pause"
  /\ told' = told \ {j}
  /\ DropGoto(d, "done")
  /\ Answered(d)
  /\ UNCHANGED <<users, jobRow, typed, post, edit, expired, sole, jobFaults>>

DropFails(d) ==
  /\ drop[d].pc \in {"kind", "mark", "deactivate", "pause"}
  /\ jobFaults < MaxJobFaults
  /\ jobFaults' = jobFaults + 1
  /\ told' \in {told} \cup (IF drop[d].pc = "pause" THEN {told \ {DropOf[d]}} ELSE {})
  /\ DropGoto(d, "failed")
  /\ UNCHANGED <<users, jobRow, typed, post, edit, expired, sole, gone>>

-----------------------------------------------------------------------------
(* PUT /jobs/:id: UpdateJobDataFromUser.  The UPDATE takes its status from *)
(* the body and creates the row when there is none.                        *)

ReceiveEdit(e) ==
  /\ edit[e] = "idle"
  /\ edit' = [edit EXCEPT ![e] = "row"]
  /\ UNCHANGED <<users, jobRow, typed, told, post, drop, expired, sole, gone, jobFaults>>

EditJobRow(e) ==
  LET j == EditOf[e] IN
  /\ edit[e] = "row"
  /\ \E status \in {"pending", "paused"} :
       jobRow' = [jobRow EXCEPT ![j].status = status]
  /\ edit' = [edit EXCEPT ![e] = "interval"]
  /\ UNCHANGED <<users, typed, told, post, drop, expired, sole, gone, jobFaults>>

\* A time job: UPDATE of time_interval and of next_execution_timestamp, whose
\* errors are logged.  They leave is_active alone (in a row they create it is
\* null, which reads as false).
EditTimeRow(e) ==
  LET j == EditOf[e] IN
  /\ edit[e] = "interval"
  /\ typed' = IF jobRow[j].kind = "time" /\ typed[j] = "none"
                THEN [typed EXCEPT ![j] = "inactive"] ELSE typed
  /\ edit' = [edit EXCEPT ![e] = "done"]
  /\ UNCHANGED <<users, jobRow, told, post, drop, expired, sole, gone, jobFaults>>

EditFails(e) ==
  /\ edit[e] \in {"row", "interval"}
  /\ jobFaults < MaxJobFaults
  /\ jobFaults' = jobFaults + 1
  /\ edit' = [edit EXCEPT ![e] = IF @ = "row" THEN "failed" ELSE "done"]
  /\ UNCHANGED <<users, jobRow, typed, told, post, drop, expired, sole, gone>>

-----------------------------------------------------------------------------
(* Time, and the status checker that runs every minute.                    *)

Expire(j) ==
  /\ j \notin expired /\ typed[j] # "none"
  /\ expired' = expired \cup {j}
  /\ UNCHANGED <<users, jobRow, typed, told, post, drop, edit, sole, gone, jobFaults>>

\* checkTimeJobs, checkEventJobs, checkConditionJobs: an active job that has
\* expired is made inactive.  Custom jobs are not looked at, job_data and the
\* condition scheduler are not told.
CheckStatus(j) ==
  /\ j \in expired /\ typed[j] = "active" /\ Kind[j] # "custom"
  /\ typed' = [typed EXCEPT ![j] = "inactive"]
  /\ UNCHANGED <<users, jobRow, told, post, drop, edit, expired, sole, gone, jobFaults>>

JobNext ==
  \/ \E p \in Posts : \/ ReceivePost(p) \/ LookupUser(p) \/ ReadMaxUserID(p)
                      \/ InsertUser(p) \/ InsertJob(p) \/ InsertTyped(p)
                      \/ NotifyScheduler(p) \/ AddPoints(p) \/ ListJobs(p)
                      \/ PostFails(p)
  \/ \E d \in Drops : \/ ReceiveDrop(d) \/ ReadKind(d) \/ MarkDeleted(d)
                      \/ Deactivate(d) \/ PauseScheduler(d) \/ DropFails(d)
  \/ \E e \in Edits : ReceiveEdit(e) \/ EditJobRow(e) \/ EditTimeRow(e) \/ EditFails(e)
  \/ \E j \in JobIds : Expire(j) \/ CheckStatus(j)

JobSpec == JobInit /\ [][JobNext]_jobVars

-----------------------------------------------------------------------------
UserRow == [jobs : Seq(JobIds), points : Nat]

\* The variables have the shapes declared above.
JobTypeOK ==
  /\ users \in Seq(UserRow)
  /\ jobRow \in [JobIds -> [kind : Kinds \cup {"none"},
                            status : {"none", "pending", "paused", "deleted"}]]
  /\ typed \in [JobIds -> {"none", "active", "inactive"}]
  /\ told \subseteq JobIds
  /\ post \in [Posts -> [pc : PostPc, i : Nat, uid : Nat, jobs : Seq(JobIds), points : Nat]]
  /\ drop \in [Drops -> [pc : DropPc, late : BOOLEAN, kind : Kinds \cup {"none"}]]
  /\ edit \in [Edits -> EditPc]
  /\ expired \subseteq JobIds
  /\ sole \subseteq Posts
  /\ gone \subseteq JobIds
  /\ jobFaults \in 0..MaxJobFaults

\* An active typed row has a job_data row of the same kind, whatever fails
\* and in whatever order requests interleave: the poll for time jobs reads
\* the job_data row of every due time job and gives up as a whole when one
\* is missing.
ActiveJobHasRow ==
  \A j \in JobIds : typed[j] = "active" => jobRow[j].kind = Kind[j]

\* A DELETE answered 200 is true: unless the creation was still going on, the
\* job is inactive and the condition scheduler does not run it, and no update
\* from the user or check brings it back.
DeleteAnswerIsTrue ==
  \A j \in gone : typed[j] = "inactive" /\ j \notin told
=============================================================================
