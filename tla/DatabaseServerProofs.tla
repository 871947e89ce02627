------------------------ MODULE DatabaseServerProofs ------------------------
(***************************************************************************)
(* The database server, for every number of concurrent requests: the rows  *)
(* of jobs, those of keepers and API keys, and the requests themselves,    *)
(* with the Redis client that its rate limiter and the other services      *)
(* use.                                                                    *)
(***************************************************************************)
EXTENDS JobListings, TimeJobs, RedisClient, Requests, AccountStore,
        FiniteSetTheorems, SequenceTheorems, TLAPS

-----------------------------------------------------------------------------
(***************************************************************************)
(* The rows of a job.                                                      *)
(***************************************************************************)

JobShape ==
  /\ DOMAIN post = Posts /\ DOMAIN drop = Drops /\ DOMAIN jobRow = JobIds /\ DOMAIN typed = JobIds
  /\ \A p \in Posts : DOMAIN post[p] = {"pc", "i", "uid", "jobs", "points"}
  /\ \A d \in Drops : DOMAIN drop[d] = {"pc", "late", "kind"}
  /\ \A j \in JobIds : DOMAIN jobRow[j] = {"kind", "status"}

PostWorks(p) == post[p].pc \in {"job", "typed", "notify", "points"}
Now(p) == Batch[p][post[p].i]
PostInv ==
  \A p \in Posts : PostWorks(p) => /\ post[p].i \in 1..Len(Batch[p])
                                   /\ post[p].pc = "typed" => jobRow[Now(p)].kind = Kind[Now(p)]
                                   /\ post[p].pc = "notify" => Kind[Now(p)] \in Scheduled

(* No POST that has the job will do anything any more.                     *)
Over(j) == \A p \in PostsOf(j) : post[p].pc \in {"done", "failed"}

RowInv ==
  /\ \A j \in JobIds : jobRow[j].kind \in {Kind[j], "none"}
  /\ \A j \in told : j \in JobIds /\ Kind[j] \in Scheduled

DropInv ==
  /\ \A d \in Drops :
       /\ drop[d].late => Over(DropOf[d])
       /\ drop[d].kind \in {Kind[DropOf[d]], "none"}
       /\ drop[d].pc \in {"deactivate", "pause"} => drop[d].kind \in Scheduled \cup {"time"}
       /\ drop[d].pc = "pause" /\ drop[d].late => typed[DropOf[d]] = "inactive"
  /\ \A j \in gone : j \in JobIds /\ Over(j)

JobInv == JobShape /\ PostInv /\ RowInv /\ DropInv /\ ActiveJobHasRow /\ DeleteAnswerIsTrue
-----------------------------------------------------------------------------
LEMMA BatchedPosts ==
  ASSUME NEW p \in Posts, NEW i \in 1..Len(Batch[p])
  PROVE  /\ Batch[p][i] \in JobIds /\ p \in PostsOf(Batch[p][i])
         /\ Len(Batch[p]) \in 1..Len(Batch[p])
<1>1. Batch[p] \in Seq(JobIds) /\ Batch[p] # << >>
  BY JobAssumption
<1> QED
  BY <1>1 DEF PostsOf

LEMMA JobInitially == ASSUME JobInit  PROVE JobInv
<1>1. JobShape
  BY DEF JobInit, JobShape, NoJobRow
<1>2. PostInv /\ RowInv
  BY DEF JobInit, PostInv, PostWorks, RowInv, NoJobRow
<1>3. DropInv
  BY DEF JobInit, DropInv
<1> QED
  BY <1>1, <1>2, <1>3 DEF JobInit, JobInv, ActiveJobHasRow, DeleteAnswerIsTrue

(* A step of a POST that is not over: whatever is over stays over.         *)
LEMMA OnePost ==
  ASSUME JobInv, NEW p \in Posts, post[p].pc \notin {"done", "failed"},
         DOMAIN post' = Posts, DOMAIN post'[p] = {"pc", "i", "uid", "jobs", "points"},
         \A q \in Posts \ {p} : post'[q] = post[q]
  PROVE  /\ \A q \in Posts : DOMAIN post'[q] = {"pc", "i", "uid", "jobs", "points"}
         /\ \A j \in JobIds : Over(j) => Over(j)' /\ p \notin PostsOf(j)
<1>1. \A q \in Posts : DOMAIN post'[q] = {"pc", "i", "uid", "jobs", "points"}
  BY DEF JobInv, JobShape
<1>2. ASSUME NEW j \in JobIds, Over(j)  PROVE Over(j)' /\ p \notin PostsOf(j)
  <2>1. p \notin PostsOf(j)
    BY <1>2 DEF Over
  <2> QED
    BY <1>2, <2>1 DEF Over, PostsOf
<1> QED
  BY <1>1, <1>2

(* A POST moves on and leaves the tables alone.                            *)
LEMMA PostMoves ==
  ASSUME JobInv, NEW p \in Posts, post[p].pc \notin {"done", "failed"},
         DOMAIN post' = Posts, DOMAIN post'[p] = {"pc", "i", "uid", "jobs", "points"},
         \A q \in Posts \ {p} : post'[q] = post[q],
         post'[p].pc \notin {"typed", "notify"},
         post'[p].pc \in {"job", "points"} => post'[p].i \in 1..Len(Batch[p]),
         UNCHANGED <<jobRow, typed, told, drop, gone>>
  PROVE  JobInv'
<1>1. JobShape' /\ \A j \in JobIds : Over(j) => Over(j)'
  BY OnePost DEF JobInv, JobShape
<1>2. PostInv'
  BY DEF JobInv, PostInv, PostWorks, Now
<1>3. DropInv'
  BY <1>1, JobAssumption DEF JobInv, DropInv, JobShape
<1> QED
  BY <1>1, <1>2, <1>3 DEF JobInv, RowInv, ActiveJobHasRow, DeleteAnswerIsTrue

LEMMA PostKept ==
  ASSUME JobInv, NEW p \in Posts,
         \/ ReceivePost(p) \/ LookupUser(p) \/ ReadMaxUserID(p) \/ InsertUser(p)
         \/ AddPoints(p) \/ ListJobs(p) \/ PostFails(p)
  PROVE  JobInv'
<1>1. UNCHANGED <<jobRow, typed, told, drop, gone>>
  BY DEF ReceivePost, LookupUser, ReadMaxUserID, InsertUser, AddPoints, ListJobs, PostFails
<1>2. post[p].pc \notin {"done", "failed"} /\ DOMAIN post' = DOMAIN post
      /\ \A q \in Posts \ {p} : post'[q] = post[q]
  BY DEF ReceivePost, LookupUser, ReadMaxUserID, InsertUser, AddPoints, ListJobs, PostFails,
         PostGoto, RunningPc, JobInv, JobShape
<1>3. DOMAIN post'[p] = {"pc", "i", "uid", "jobs", "points"} /\ post'[p].pc \notin {"typed", "notify"}
  BY DEF ReceivePost, LookupUser, ReadMaxUserID, InsertUser, AddPoints, ListJobs, PostFails,
         PostGoto, RunningPc, JobInv, JobShape
<1>4. post'[p].pc \in {"job", "points"} => post'[p].i \in 1..Len(Batch[p])
  <2>1. Batch[p] \in Seq(JobIds) /\ Batch[p] # << >>
    BY JobAssumption
  <2>2. Len(Batch[p]) \in 1..Len(Batch[p])
    BY <2>1
  <2>3. CASE ReceivePost(p) \/ ReadMaxUserID(p) \/ ListJobs(p) \/ PostFails(p)
    BY <2>3 DEF ReceivePost, ReadMaxUserID, ListJobs, PostFails, PostGoto, JobInv, JobShape
  <2>4. CASE LookupUser(p) \/ InsertUser(p)
    BY <2>2, <2>4 DEF LookupUser, InsertUser, PostGoto, JobInv, JobShape
  <2>5. CASE AddPoints(p)
    <3>1. post[p].pc = "points" /\ post'[p].i = post[p].i - 1
          /\ post'[p].pc = IF post[p].i = 1 THEN "list" ELSE "job"
      BY <2>5 DEF AddPoints, JobInv, JobShape
    <3>2. post[p].i \in 1..Len(Batch[p]) /\ Len(Batch[p]) \in Nat
      BY <2>1, <3>1 DEF JobInv, PostInv, PostWorks
    <3> QED
      BY <3>1, <3>2
  <2> QED
    BY <2>3, <2>4, <2>5
<1> QED
  BY <1>1, <1>2, <1>3, <1>4, PostMoves DEF JobInv, JobShape

(* The steps that write the rows of a job.                                 *)
LEMMA RowInserted ==
  ASSUME JobInv, NEW p \in Posts, InsertJob(p)
  PROVE  JobInv'
<1> DEFINE j == Batch[p][post[p].i]
<1>1. /\ post[p].pc = "job" /\ jobRow' = [jobRow EXCEPT ![j] = [kind |-> Kind[j], status |-> "pending"]]
      /\ post' = [post EXCEPT ![p].pc = "typed"] /\ UNCHANGED <<typed, told, drop, gone>>
  BY DEF InsertJob, PostGoto
<1>2. post[p].i \in 1..Len(Batch[p])
  BY <1>1 DEF JobInv, PostInv, PostWorks
<1>3. j \in JobIds
  BY <1>2, BatchedPosts
<1>4. /\ DOMAIN post' = Posts /\ DOMAIN post'[p] = {"pc", "i", "uid", "jobs", "points"}
      /\ post'[p].i = post[p].i /\ post'[p].pc = "typed"
      /\ \A q \in Posts \ {p} : post'[q] = post[q]
  BY <1>1 DEF JobInv, JobShape
<1>5. /\ DOMAIN jobRow' = JobIds /\ jobRow'[j] = [kind |-> Kind[j], status |-> "pending"]
      /\ \A k \in JobIds : k # j => jobRow'[k] = jobRow[k]
  BY <1>1, <1>3 DEF JobInv, JobShape
<1> HIDE DEF j
<1>6. JobShape' /\ \A k \in JobIds : Over(k) => Over(k)'
  <2>1. \A k \in JobIds : DOMAIN jobRow'[k] = {"kind", "status"}
    BY <1>5 DEF JobInv, JobShape
  <2>2. /\ \A q \in Posts : DOMAIN post'[q] = {"pc", "i", "uid", "jobs", "points"}
        /\ \A k \in JobIds : Over(k) => Over(k)'
    BY <1>1, <1>4, OnePost
  <2> QED
    BY <1>1, <1>4, <1>5, <2>1, <2>2 DEF JobInv, JobShape
<1>7. \A k \in JobIds : jobRow'[k].kind = jobRow[k].kind \/ jobRow'[k].kind = Kind[k]
  BY <1>5
<1>8. PostInv'
  <2> SUFFICES ASSUME NEW q \in Posts, PostWorks(q)'
               PROVE  /\ post'[q].i \in 1..Len(Batch[q])
                      /\ post'[q].pc = "typed" => jobRow'[Batch[q][post'[q].i]].kind = Kind[Batch[q][post'[q].i]]
                      /\ post'[q].pc = "notify" => Kind[Batch[q][post'[q].i]] \in Scheduled
    BY DEF PostInv, Now
  <2>1. CASE q = p
    BY <1>2, <1>4, <1>5, <2>1 DEF j
  <2>2. CASE q # p
    <3>1. /\ post'[q] = post[q] /\ post[q].i \in 1..Len(Batch[q])
          /\ post[q].pc = "typed" => jobRow[Now(q)].kind = Kind[Now(q)]
          /\ post[q].pc = "notify" => Kind[Now(q)] \in Scheduled
      BY <1>4, <2>2 DEF PostWorks, JobInv, PostInv
    <3>2. Now(q) \in JobIds
      BY <3>1, BatchedPosts DEF Now
    <3> QED
      BY <1>7, <3>1, <3>2 DEF Now
  <2> QED
    BY <2>1, <2>2
<1>9. DropInv'
  BY <1>1, <1>6, JobAssumption DEF JobInv, DropInv, JobShape
<1> QED
  BY <1>1, <1>6, <1>7, <1>8, <1>9 DEF JobInv, RowInv, ActiveJobHasRow, DeleteAnswerIsTrue

LEMMA TypedInserted ==
  ASSUME JobInv, NEW p \in Posts, InsertTyped(p) \/ NotifyScheduler(p)
  PROVE  JobInv'
<1> DEFINE j == Batch[p][post[p].i]
<1>1. /\ post[p].pc \in {"typed", "notify"} /\ UNCHANGED <<jobRow, drop, gone>>
      /\ \E x \in {"failed", "notify", "points"} :
           /\ post' = [post EXCEPT ![p].pc = x]
           /\ x = "notify" => Kind[j] \in Scheduled
      /\ typed' = typed \/ (post[p].pc = "typed" /\ typed' = [typed EXCEPT ![j] = "active"])
      /\ told' = told \/ (post[p].pc = "notify" /\ told' = told \cup {j})
  BY DEF InsertTyped, NotifyScheduler, PostGoto
<1>2. post[p].i \in 1..Len(Batch[p])
      /\ (post[p].pc = "typed" => jobRow[j].kind = Kind[j])
      /\ (post[p].pc = "notify" => Kind[j] \in Scheduled)
  BY <1>1 DEF JobInv, PostInv, PostWorks, Now
<1>3. j \in JobIds /\ p \in PostsOf(j)
  BY <1>2, BatchedPosts
<1>4. /\ DOMAIN post' = Posts /\ DOMAIN post'[p] = {"pc", "i", "uid", "jobs", "points"}
      /\ post'[p].i = post[p].i /\ post'[p].pc \in {"failed", "notify", "points"}
      /\ post'[p].pc = "notify" => Kind[j] \in Scheduled
      /\ \A q \in Posts \ {p} : post'[q] = post[q]
  BY <1>1 DEF JobInv, JobShape
<1> HIDE DEF j
<1>5. /\ \A q \in Posts : DOMAIN post'[q] = {"pc", "i", "uid", "jobs", "points"}
      /\ \A k \in JobIds : Over(k) => Over(k)' /\ k # j
  BY <1>1, <1>3, <1>4, OnePost
<1>6. DOMAIN typed' = JobIds /\ \A k \in JobIds : k # j => typed'[k] = typed[k]
  BY <1>1 DEF JobInv, JobShape
<1>7. JobShape'
  BY <1>1, <1>4, <1>5, <1>6 DEF JobInv, JobShape
<1>8. PostInv'
  <2> SUFFICES ASSUME NEW q \in Posts, PostWorks(q)'
               PROVE  /\ post'[q].i \in 1..Len(Batch[q])
                      /\ post'[q].pc = "typed" => jobRow'[Batch[q][post'[q].i]].kind = Kind[Batch[q][post'[q].i]]
                      /\ post'[q].pc = "notify" => Kind[Batch[q][post'[q].i]] \in Scheduled
    BY DEF PostInv, Now
  <2>1. CASE q = p
    BY <1>2, <1>4, <2>1 DEF j
  <2>2. CASE q # p
    BY <1>1, <1>4, <2>2 DEF PostWorks, JobInv, PostInv, Now
  <2> QED
    BY <2>1, <2>2
<1>9. DropInv'
  <2>1. \A d \in Drops : DropOf[d] \in JobIds
    BY JobAssumption
  <2>2. ASSUME NEW d \in Drops, drop[d].pc = "pause", drop[d].late  PROVE typed'[DropOf[d]] = "inactive"
    <3>1. Over(DropOf[d]) /\ typed[DropOf[d]] = "inactive"
      BY <2>2 DEF JobInv, DropInv
    <3> QED
      BY <1>5, <1>6, <2>1, <3>1
  <2> QED
    BY <1>1, <1>5, <2>1, <2>2 DEF JobInv, DropInv
<1>10. ActiveJobHasRow'
  BY <1>1, <1>2, <1>6 DEF JobInv, ActiveJobHasRow
<1>11. DeleteAnswerIsTrue'
  <2>1. ASSUME NEW k \in gone  PROVE typed'[k] = "inactive" /\ k \notin told'
    <3>1. k \in JobIds /\ k # j /\ typed[k] = "inactive" /\ k \notin told
      BY <1>5 DEF JobInv, DropInv, DeleteAnswerIsTrue
    <3> QED
      BY <1>1, <1>6, <3>1
  <2> QED
    BY <1>1, <2>1 DEF DeleteAnswerIsTrue
<1>12. RowInv'
  BY <1>1, <1>2, <1>3 DEF JobInv, RowInv
<1> QED
  BY <1>7, <1>8, <1>9, <1>10, <1>11, <1>12 DEF JobInv

(* The status of a row is rewritten; no typed row becomes active.          *)
LEMMA RowsRewritten ==
  ASSUME JobInv, post' = post, DOMAIN jobRow' = JobIds, DOMAIN typed' = JobIds,
         \A j \in JobIds : DOMAIN jobRow'[j] = {"kind", "status"} /\ jobRow'[j].kind = jobRow[j].kind,
         \A j \in JobIds : typed'[j] = typed[j] \/ typed'[j] = "inactive",
         told' \subseteq told
  PROVE  PostInv' /\ RowInv' /\ ActiveJobHasRow' /\ \A j \in JobIds : Over(j)' <=> Over(j)
<1>1. \A j \in JobIds : Over(j)' <=> Over(j)
  BY DEF Over
<1>2. ASSUME NEW p \in Posts, PostWorks(p)
      PROVE  /\ post[p].i \in 1..Len(Batch[p])
             /\ post[p].pc = "typed" => jobRow'[Now(p)].kind = Kind[Now(p)]
             /\ post[p].pc = "notify" => Kind[Now(p)] \in Scheduled
  <2>1. /\ post[p].i \in 1..Len(Batch[p])
        /\ post[p].pc = "typed" => jobRow[Now(p)].kind = Kind[Now(p)]
        /\ post[p].pc = "notify" => Kind[Now(p)] \in Scheduled
    BY <1>2 DEF JobInv, PostInv
  <2>2. Now(p) \in JobIds
    BY <2>1, BatchedPosts DEF Now
  <2> QED
    BY <2>1, <2>2
<1>3. PostInv'
  BY <1>2 DEF PostInv, PostWorks, Now
<1>4. RowInv' /\ ActiveJobHasRow'
  BY DEF JobInv, RowInv, ActiveJobHasRow
<1> QED
  BY <1>1, <1>3, <1>4

LEMMA EditKept ==
  ASSUME JobInv,
         \/ \E e \in Edits : ReceiveEdit(e) \/ EditJobRow(e) \/ EditTimeRow(e) \/ EditFails(e)
         \/ \E j \in JobIds : Expire(j) \/ CheckStatus(j)
         \/ UNCHANGED jobVars
  PROVE  JobInv'
<1>1. post' = post /\ UNCHANGED <<drop, gone>> /\ told' \subseteq told
  BY DEF ReceiveEdit, EditJobRow, EditTimeRow, EditFails, Expire, CheckStatus, jobVars
<1>2. /\ DOMAIN jobRow' = JobIds
      /\ \A j \in JobIds : DOMAIN jobRow'[j] = {"kind", "status"} /\ jobRow'[j].kind = jobRow[j].kind
  <2>1. CASE jobRow' = jobRow
    BY <2>1 DEF JobInv, JobShape
  <2>2. CASE \E j \in JobIds, s \in {"pending", "paused"} : jobRow' = [jobRow EXCEPT ![j].status = s]
    BY <2>2 DEF JobInv, JobShape
  <2>3. \A e \in Edits : EditOf[e] \in JobIds
    BY JobAssumption
  <2> QED
    BY <2>1, <2>2, <2>3 DEF ReceiveEdit, EditJobRow, EditTimeRow, EditFails, Expire, CheckStatus, jobVars
<1>3. DOMAIN typed' = JobIds /\ \A j \in JobIds : typed'[j] = typed[j] \/ typed'[j] = "inactive"
  BY DEF ReceiveEdit, EditJobRow, EditTimeRow, EditFails, Expire, CheckStatus, jobVars, JobInv, JobShape
<1>4. PostInv' /\ RowInv' /\ ActiveJobHasRow' /\ \A j \in JobIds : Over(j)' <=> Over(j)
  BY <1>1, <1>2, <1>3, RowsRewritten
<1>5. DropInv'
  <2>1. \A d \in Drops : DropOf[d] \in JobIds
    BY JobAssumption
  <2> QED
    BY <1>1, <1>3, <1>4, <2>1 DEF JobInv, DropInv
<1>6. DeleteAnswerIsTrue' /\ JobShape'
  BY <1>1, <1>2, <1>3 DEF JobInv, DropInv, DeleteAnswerIsTrue, JobShape
<1> QED
  BY <1>4, <1>5, <1>6 DEF JobInv

(* A DELETE moves on; what it does to the rows does not disturb the others. *)
LEMMA OneDrop ==
  ASSUME JobInv, NEW d \in Drops, post' = post, DOMAIN jobRow' = JobIds,
         \A j \in JobIds : DOMAIN jobRow'[j] = {"kind", "status"} /\ jobRow'[j].kind = jobRow[j].kind,
         DOMAIN drop' = Drops, DOMAIN drop'[d] = {"pc", "late", "kind"},
         \A c \in Drops \ {d} : drop'[c] = drop[c],
         DOMAIN typed' = JobIds,
         \A j \in JobIds : typed'[j] = typed[j] \/ typed'[j] = "inactive",
         told' \subseteq told,
         drop'[d].late => Over(DropOf[d]),
         drop'[d].kind \in {Kind[DropOf[d]], "none"},
         drop'[d].pc \in {"deactivate", "pause"} => drop'[d].kind \in Scheduled \cup {"time"},
         drop'[d].pc = "pause" => typed'[DropOf[d]] = "inactive",
         gone' = gone \/ (/\ gone' = gone \cup {DropOf[d]}
                          /\ Over(DropOf[d]) /\ typed'[DropOf[d]] = "inactive"
                          /\ DropOf[d] \notin told')
  PROVE  JobInv'
<1>1. PostInv' /\ RowInv' /\ ActiveJobHasRow' /\ \A j \in JobIds : Over(j)' <=> Over(j)
  BY RowsRewritten
<1>2. \A c \in Drops : DropOf[c] \in JobIds
  BY JobAssumption
<1>4. JobShape'
  BY DEF JobInv, JobShape
<1>5. ASSUME NEW c \in Drops
      PROVE  /\ drop'[c].late => Over(DropOf[c])'
             /\ drop'[c].kind \in {Kind[DropOf[c]], "none"}
             /\ drop'[c].pc \in {"deactivate", "pause"} => drop'[c].kind \in Scheduled \cup {"time"}
             /\ drop'[c].pc = "pause" /\ drop'[c].late => typed'[DropOf[c]] = "inactive"
  <2>1. CASE c = d
    BY <1>1, <1>2, <2>1
  <2>2. CASE c # d
    BY <1>1, <1>2, <2>2 DEF JobInv, DropInv
  <2> QED
    BY <2>1, <2>2
<1>6. \A j \in gone' : j \in JobIds /\ Over(j)'
  BY <1>1, <1>2 DEF JobInv, DropInv
<1>7. DeleteAnswerIsTrue'
  BY DEF JobInv, DropInv, DeleteAnswerIsTrue
<1> QED
  BY <1>1, <1>4, <1>5, <1>6, <1>7 DEF JobInv, DropInv

LEMMA DropKept ==
  ASSUME JobInv, NEW d \in Drops,
         \/ ReceiveDrop(d) \/ ReadKind(d) \/ MarkDeleted(d) \/ Deactivate(d)
         \/ PauseScheduler(d) \/ DropFails(d)
  PROVE  JobInv'
<1> DEFINE j == DropOf[d]
<1>1. j \in JobIds
  BY JobAssumption
<1>2. /\ drop[d].late => Over(j)
      /\ drop[d].kind \in {Kind[j], "none"}
      /\ drop[d].pc \in {"deactivate", "pause"} => drop[d].kind \in Scheduled \cup {"time"}
      /\ drop[d].pc = "pause" /\ drop[d].late => typed[j] = "inactive"
  BY DEF JobInv, DropInv
<1>3. /\ DOMAIN drop = Drops /\ DOMAIN drop[d] = {"pc", "late", "kind"} /\ DOMAIN typed = JobIds
      /\ DOMAIN jobRow = JobIds /\ \A k \in JobIds : DOMAIN jobRow[k] = {"kind", "status"}
  BY DEF JobInv, JobShape
<1>4. CASE ReceiveDrop(d)
  <2>1. /\ UNCHANGED <<post, jobRow, typed, told, gone>>
        /\ drop' = [drop EXCEPT ![d] = [pc |-> "kind", kind |-> "none",
                      late |-> \A p \in PostsOf(j) : post[p].pc \in {"done", "failed"}]]
    BY <1>4 DEF ReceiveDrop
  <2>2. /\ DOMAIN drop' = Drops /\ DOMAIN drop'[d] = {"pc", "late", "kind"}
        /\ drop'[d].pc = "kind" /\ drop'[d].kind = "none" /\ (drop'[d].late => Over(j))
        /\ \A c \in Drops \ {d} : drop'[c] = drop[c]
    BY <1>3, <2>1 DEF Over
  <2> QED
    BY <1>3, <2>1, <2>2, OneDrop
<1>5. CASE ReadKind(d)
  <2>1. /\ UNCHANGED <<post, jobRow, typed, told, gone>>
        /\ \E x \in {"failed", "mark"} : drop' = [drop EXCEPT ![d].pc = x, ![d].kind = jobRow[j].kind]
    BY <1>5 DEF ReadKind
  <2>2. /\ DOMAIN drop' = Drops /\ DOMAIN drop'[d] = {"pc", "late", "kind"}
        /\ drop'[d].pc \in {"failed", "mark"} /\ drop'[d].kind = jobRow[j].kind
        /\ drop'[d].late = drop[d].late
        /\ \A c \in Drops \ {d} : drop'[c] = drop[c]
    BY <1>3, <2>1
  <2>3. jobRow[j].kind \in {Kind[j], "none"}
    BY <1>1 DEF JobInv, RowInv
  <2> QED
    BY <1>2, <1>3, <2>1, <2>2, <2>3, OneDrop
<1>6. CASE MarkDeleted(d)
  <2>1. /\ UNCHANGED <<post, typed, told, gone>> /\ jobRow' = [jobRow EXCEPT ![j].status = "deleted"]
        /\ \E x \in {"deactivate", "done"} :
             /\ drop' = [drop EXCEPT ![d].pc = x]
             /\ x = "deactivate" => drop[d].kind \in Scheduled \cup {"time"}
    BY <1>6 DEF MarkDeleted, DropGoto
  <2>2. /\ DOMAIN drop' = Drops /\ DOMAIN drop'[d] = {"pc", "late", "kind"}
        /\ drop'[d].pc \in {"deactivate", "done"} /\ drop'[d].kind = drop[d].kind
        /\ drop'[d].pc = "deactivate" => drop[d].kind \in Scheduled \cup {"time"}
        /\ drop'[d].late = drop[d].late
        /\ \A c \in Drops \ {d} : drop'[c] = drop[c]
    BY <1>3, <2>1
  <2>3. /\ DOMAIN jobRow' = JobIds
        /\ \A k \in JobIds : DOMAIN jobRow'[k] = {"kind", "status"} /\ jobRow'[k].kind = jobRow[k].kind
    BY <2>1 DEF JobInv, JobShape
  <2> QED
    BY <1>2, <1>3, <2>1, <2>2, <2>3, OneDrop
<1>7. CASE Deactivate(d)
  <2>1. /\ drop[d].pc = "deactivate" /\ UNCHANGED <<post, jobRow, told>>
        /\ typed' = [typed EXCEPT ![j] = "inactive"]
        /\ \/ /\ drop[d].kind = "time" /\ drop' = [drop EXCEPT ![d].pc = "done"]
              /\ gone' = IF drop[d].late THEN gone \cup {j} ELSE gone
           \/ drop' = [drop EXCEPT ![d].pc = "pause"] /\ gone' = gone
    BY <1>7 DEF Deactivate, DropGoto, Answered
  <2>2. /\ DOMAIN drop' = Drops /\ DOMAIN drop'[d] = {"pc", "late", "kind"}
        /\ drop'[d].pc \in {"done", "pause"} /\ drop'[d].kind = drop[d].kind
        /\ drop'[d].late = drop[d].late
        /\ \A c \in Drops \ {d} : drop'[c] = drop[c]
    BY <1>3, <2>1
  <2>3. /\ DOMAIN typed' = JobIds /\ typed'[j] = "inactive"
        /\ \A k \in JobIds : typed'[k] = typed[k] \/ typed'[k] = "inactive"
    BY <1>1, <1>3, <2>1
  <2>4. drop[d].kind = "time" => j \notin told
    <3>1. ASSUME drop[d].kind = "time"  PROVE Kind[j] \notin Scheduled
      BY <1>2, <3>1 DEF Scheduled
    <3> QED
      BY <3>1 DEF JobInv, RowInv
  <2>5. gone' = gone \/ (/\ gone' = gone \cup {j} /\ Over(j) /\ typed'[j] = "inactive" /\ j \notin told')
    BY <1>2, <2>1, <2>3, <2>4
  <2> QED
    BY <1>2, <1>3, <2>1, <2>2, <2>3, <2>5, OneDrop
<1>8. CASE PauseScheduler(d)
  <2>1. /\ drop[d].pc = "pause" /\ UNCHANGED <<post, jobRow, typed>> /\ told' = told \ {j}
        /\ drop' = [drop EXCEPT ![d].pc = "done"]
        /\ gone' = IF drop[d].late THEN gone \cup {j} ELSE gone
    BY <1>8 DEF PauseScheduler, DropGoto, Answered
  <2>2. /\ DOMAIN drop' = Drops /\ DOMAIN drop'[d] = {"pc", "late", "kind"}
        /\ drop'[d].pc = "done" /\ drop'[d].kind = drop[d].kind
        /\ drop'[d].late = drop[d].late
        /\ \A c \in Drops \ {d} : drop'[c] = drop[c]
    BY <1>3, <2>1
  <2>3. gone' = gone \/ (/\ gone' = gone \cup {j} /\ Over(j) /\ typed'[j] = "inactive" /\ j \notin told')
    BY <1>2, <2>1
  <2>4. told' \subseteq told
    BY <2>1
  <2> QED
    BY <1>2, <1>3, <2>1, <2>2, <2>3, <2>4, OneDrop
<1>9. CASE DropFails(d)
  <2>1. /\ UNCHANGED <<post, jobRow, typed, gone>> /\ told' \subseteq told
        /\ drop' = [drop EXCEPT ![d].pc = "failed"]
    BY <1>9 DEF DropFails, DropGoto
  <2>2. /\ DOMAIN drop' = Drops /\ DOMAIN drop'[d] = {"pc", "late", "kind"}
        /\ drop'[d].pc = "failed" /\ drop'[d].kind = drop[d].kind
        /\ drop'[d].late = drop[d].late
        /\ \A c \in Drops \ {d} : drop'[c] = drop[c]
    BY <1>3, <2>1
  <2> QED
    BY <1>2, <1>3, <2>1, <2>2, OneDrop
<1> QED
  BY <1>4, <1>5, <1>6, <1>7, <1>8, <1>9

LEMMA JobPreserved == ASSUME JobInv, [JobNext]_jobVars  PROVE JobInv'
BY PostKept, RowInserted, TypedInserted, DropKept, EditKept DEF JobNext

\* ActiveJobHasRow: an active typed row has a job_data row of the same kind, for every
\* number of concurrent POSTs, DELETEs, edits and failing calls: the poll for time
\* jobs never meets a due job without it.
THEOREM ActiveRows == JobSpec => []ActiveJobHasRow
<1>1. JobInv => ActiveJobHasRow
  BY DEF JobInv
<1> QED
  BY <1>1, JobInitially, JobPreserved, PTL DEF JobSpec

\* DeleteAnswerIsTrue: a job whose DELETE was answered 200 stays inactive and is not
\* with the condition scheduler, unless its creation was still going on then.
THEOREM Deletion == JobSpec => []DeleteAnswerIsTrue
<1>1. JobInv => DeleteAnswerIsTrue
  BY DEF JobInv
<1> QED
  BY <1>1, JobInitially, JobPreserved, PTL DEF JobSpec

-----------------------------------------------------------------------------
(***************************************************************************)
(* The listings of the jobs of a user.                                     *)
(***************************************************************************)

(* The tables have the rows of a job whose kind they know.  They keep them *)
(* from then on: no statement removes a row or changes its kind.           *)
Written(j) == jobRow[j].kind = Kind[j] /\ typed[j] # "none" /\ Kind[j] # "unknown"

Owning == {"job", "typed", "notify", "points", "list"}
UsersShape ==
  /\ users \in Seq(UserRow)
  /\ sole \subseteq Posts
  /\ \A p \in Posts :
       /\ post[p].pc \in PostPc
       /\ post[p].jobs \in Seq(JobIds)
       /\ post[p].points \in Nat
       /\ post[p].pc = "insertUser" => post[p].uid \in 1..(Len(users) + 1)
       /\ post[p].pc \in Owning => post[p].uid \in 1..Len(users)

(* A POST has written the jobs of its batch it has gone by, from the last. *)
GoneBy(p) ==
  /\ PostWorks(p) => \A n \in 1..Len(Batch[p]) : n > post[p].i => Written(Batch[p][n])
  /\ post[p].pc \in {"notify", "points"} => Written(Now(p))
  /\ post[p].pc \in {"list", "done"} => \A n \in 1..Len(Batch[p]) : Written(Batch[p][n])
BatchInv == \A p \in Posts : GoneBy(p)

SoleInv == \A p, q \in Posts : Running(p) /\ Running(q) /\ p # q => p \notin sole

(* No two POSTs have overlapped: the address has one row, the snapshot of  *)
(* the POST that runs is still true, and the row lists what is done.       *)
Quiet == \A p \in Posts : post[p].pc # "idle" => p \in sole
Lists(s, j) == \E n \in 1..Len(s) : s[n] = j
UserInv ==
  Quiet =>
    /\ Len(users) <= 1
    /\ \A p \in Posts :
         /\ post[p].pc \in {"maxUser", "insertUser"} => Len(users) = 0
         /\ post[p].pc = "insertUser" => post[p].uid = 1
         /\ post[p].pc \in Owning => post[p].jobs = users[1].jobs
         /\ post[p].pc = "done" =>
              /\ Len(users) = 1
              /\ \A n \in 1..Len(Batch[p]) : Lists(users[1].jobs, Batch[p][n])

RowsInv == JobInv /\ UsersShape /\ BatchInv /\ SoleInv /\ UserInv
-----------------------------------------------------------------------------
LEMMA RowsInitially == ASSUME JobInit  PROVE RowsInv
<1>1. UsersShape
  <2>1. \A p \in Posts : post[p].pc = "idle" /\ post[p].jobs = << >> /\ post[p].points = 0
    BY DEF JobInit
  <2>2. users \in Seq(UserRow) /\ sole \subseteq Posts
    BY DEF JobInit
  <2>3. << >> \in Seq(JobIds)
    OBVIOUS
  <2>4. \A p \in Posts : post[p].jobs \in Seq(JobIds)
    BY <2>1, <2>3, Zenon
  <2>5. \A p \in Posts : /\ post[p].pc \in PostPc /\ post[p].pc \notin Owning /\ post[p].points \in Nat
                         /\ post[p].pc # "insertUser"
    BY <2>1 DEF PostPc, Owning
  <2> QED
    BY <2>2, <2>4, <2>5 DEF UsersShape
<1>2. BatchInv
  BY DEF JobInit, BatchInv, GoneBy, PostWorks
<1>3. SoleInv
  BY DEF JobInit, SoleInv, Running, RunningPc
<1>4. UserInv
  BY DEF JobInit, UserInv, Owning
<1> QED
  BY <1>1, <1>2, <1>3, <1>4, JobInitially DEF RowsInv

LEMMA WrittenStays ==
  ASSUME JobInv, [JobNext]_jobVars, NEW j \in JobIds, Written(j)
  PROVE  Written(j)'
<1>1. jobRow'[j].kind \in {jobRow[j].kind, Kind[j]}
  <2>1. CASE UNCHANGED jobRow
    BY <2>1
  <2>2. ASSUME NEW p \in Posts, InsertJob(p)  PROVE jobRow'[j].kind \in {jobRow[j].kind, Kind[j]}
    BY <2>2 DEF InsertJob, JobInv, JobShape
  <2>3. ASSUME NEW d \in Drops, MarkDeleted(d)  PROVE jobRow'[j].kind \in {jobRow[j].kind, Kind[j]}
    BY <2>3 DEF MarkDeleted, JobInv, JobShape
  <2>4. ASSUME NEW e \in Edits, EditJobRow(e)  PROVE jobRow'[j].kind \in {jobRow[j].kind, Kind[j]}
    BY <2>4 DEF EditJobRow, JobInv, JobShape
  <2> QED
    BY <2>1, <2>2, <2>3, <2>4
    DEF JobNext, jobVars, ReceivePost, LookupUser, ReadMaxUserID, InsertUser, InsertTyped, NotifyScheduler,
        AddPoints, ListJobs, PostFails, ReceiveDrop, ReadKind, Deactivate, PauseScheduler, DropFails,
        ReceiveEdit, EditTimeRow, EditFails, Expire, CheckStatus
<1>2. typed'[j] # "none"
  <2>1. CASE UNCHANGED typed
    BY <2>1 DEF Written
  <2>2. ASSUME NEW p \in Posts, InsertTyped(p)  PROVE typed'[j] # "none"
    BY <2>2 DEF InsertTyped, JobInv, JobShape, Written
  <2>3. ASSUME NEW d \in Drops, Deactivate(d)  PROVE typed'[j] # "none"
    BY <2>3 DEF Deactivate, JobInv, JobShape, Written
  <2>4. ASSUME NEW e \in Edits, EditTimeRow(e)  PROVE typed'[j] # "none"
    BY <2>4 DEF EditTimeRow, JobInv, JobShape, Written
  <2>5. ASSUME NEW k \in JobIds, CheckStatus(k)  PROVE typed'[j] # "none"
    BY <2>5 DEF CheckStatus, JobInv, JobShape, Written
  <2> QED
    BY <2>1, <2>2, <2>3, <2>4, <2>5
    DEF JobNext, jobVars, ReceivePost, LookupUser, ReadMaxUserID, InsertUser, InsertJob, NotifyScheduler,
        AddPoints, ListJobs, PostFails, ReceiveDrop, ReadKind, MarkDeleted, PauseScheduler, DropFails,
        ReceiveEdit, EditJobRow, EditFails, Expire
<1> QED
  BY <1>1, <1>2 DEF Written

(* What a step of a POST does to itself and to the row of the address.     *)
PostStep(p) ==
  \/ ReceivePost(p) \/ LookupUser(p) \/ ReadMaxUserID(p) \/ InsertUser(p) \/ InsertJob(p)
  \/ InsertTyped(p) \/ NotifyScheduler(p) \/ AddPoints(p) \/ ListJobs(p) \/ PostFails(p)

LEMMA OtherPosts ==
  ASSUME RowsInv, NEW p \in Posts, PostStep(p)
  PROVE  /\ DOMAIN post' = Posts
         /\ \A q \in Posts \ {p} : post'[q] = post[q]
         /\ post[p].pc \notin {"done", "failed"} /\ post'[p].pc \in PostPc \ {"idle"}
<1> USE DEF PostGoto, RowsInv, JobInv, JobShape, RunningPc, PostPc
<1>1. CASE ReceivePost(p)
  BY <1>1 DEF ReceivePost
<1>2. CASE LookupUser(p)
  BY <1>2 DEF LookupUser
<1>3. CASE ReadMaxUserID(p) \/ InsertUser(p)
  BY <1>3 DEF ReadMaxUserID, InsertUser
<1>4. CASE InsertJob(p) \/ InsertTyped(p)
  BY <1>4 DEF InsertJob, InsertTyped
<1>5. CASE NotifyScheduler(p) \/ AddPoints(p)
  BY <1>5 DEF NotifyScheduler, AddPoints
<1>6. CASE ListJobs(p) \/ PostFails(p)
  BY <1>6 DEF ListJobs, PostFails
<1> QED
  BY <1>1, <1>2, <1>3, <1>4, <1>5, <1>6 DEF PostStep

LEMMA UserRowFields ==
  /\ \A r \in UserRow : /\ DOMAIN r = {"jobs", "points"}
                        /\ r.jobs \in Seq(JobIds) /\ r.points \in Nat
                        /\ r = [jobs |-> r.jobs, points |-> r.points]
  /\ \A s \in Seq(JobIds), n \in Nat : [jobs |-> s, points |-> n] \in UserRow
BY DEF UserRow

(* The row of the address: it is added once, and keeps what it lists.      *)
LEMMA RowWritten ==
  ASSUME users \in Seq(UserRow), NEW u \in 1..Len(users), NEW r \in UserRow, users' = [users EXCEPT ![u] = r]
  PROVE  /\ users' \in Seq(UserRow) /\ Len(users') = Len(users) /\ users'[u] = r
         /\ \A v \in 1..Len(users) : v # u => users'[v] = users[v]
BY ExceptSeq

LEMMA RowFields ==
  ASSUME users \in Seq(UserRow), NEW u \in 1..Len(users)
  PROVE  users[u] \in UserRow
OBVIOUS

LEMMA PointsWritten ==
  ASSUME RowsInv, NEW p \in Posts, AddPoints(p)
  PROVE  /\ post[p].uid \in 1..Len(users)
         /\ users' \in Seq(UserRow) /\ Len(users') = Len(users)
         /\ \A v \in 1..Len(users) : users'[v].jobs = users[v].jobs
<1>1. PICK u, n : /\ u = post[p].uid /\ n = post[p].points + Worth[Batch[p][post[p].i]]
                  /\ users' = [users EXCEPT ![u].points = n]
  BY DEF AddPoints
<1>2. u \in 1..Len(users) /\ users \in Seq(UserRow)
  BY <1>1 DEF AddPoints, RowsInv, UsersShape, Owning
<1>3. n \in Nat
  <2>1. Batch[p][post[p].i] \in JobIds
    BY BatchedPosts DEF AddPoints, RowsInv, JobInv, PostInv, PostWorks
  <2>2. Worth[Batch[p][post[p].i]] \in Nat /\ post[p].points \in Nat
    BY <2>1, JobAssumption DEF RowsInv, UsersShape
  <2> QED
    BY <1>1, <2>2
<1>4. PICK r : r = [jobs |-> users[u].jobs, points |-> n]
  OBVIOUS
<1>5. r \in UserRow /\ r.jobs = users[u].jobs
  BY <1>2, <1>3, <1>4, RowFields, UserRowFields
<1>6. users' = [users EXCEPT ![u] = r]
  <2>1. users[u] = [jobs |-> users[u].jobs, points |-> users[u].points]
    BY <1>2, RowFields, UserRowFields
  <2>2. [users[u] EXCEPT !.points = n] = r
    BY <1>4, <2>1
  <2> QED
    BY <1>1, <2>2
<1>7. /\ users' \in Seq(UserRow) /\ Len(users') = Len(users) /\ users'[u] = r
      /\ \A v \in 1..Len(users) : v # u => users'[v] = users[v]
  BY <1>2, <1>5, <1>6, RowWritten
<1> QED
  BY <1>1, <1>2, <1>5, <1>7

LEMMA JobsListed ==
  ASSUME RowsInv, NEW p \in Posts, ListJobs(p)
  PROVE  /\ post[p].uid \in 1..Len(users)
         /\ users' \in Seq(UserRow) /\ Len(users') = Len(users)
         /\ users'[post[p].uid].jobs = post[p].jobs \o Batch[p]
<1>1. PICK u, t : /\ u = post[p].uid /\ t = post[p].jobs \o Batch[p]
                  /\ users' = [users EXCEPT ![u].jobs = t]
  BY DEF ListJobs
<1>2. u \in 1..Len(users) /\ users \in Seq(UserRow)
  BY <1>1 DEF ListJobs, RowsInv, UsersShape, Owning
<1>3. t \in Seq(JobIds)
  <2>1. Batch[p] \in Seq(JobIds) /\ post[p].jobs \in Seq(JobIds)
    BY JobAssumption DEF RowsInv, UsersShape
  <2> QED
    BY <1>1, <2>1
<1>4. PICK r : r = [jobs |-> t, points |-> users[u].points]
  OBVIOUS
<1>5. r \in UserRow /\ r.jobs = t
  BY <1>2, <1>3, <1>4, RowFields, UserRowFields
<1>6. users' = [users EXCEPT ![u] = r]
  <2>1. users[u] = [jobs |-> users[u].jobs, points |-> users[u].points]
    BY <1>2, RowFields, UserRowFields
  <2>2. [users[u] EXCEPT !.jobs = t] = r
    BY <1>4, <2>1
  <2> QED
    BY <1>1, <2>2
<1>7. users' \in Seq(UserRow) /\ Len(users') = Len(users) /\ users'[u] = r
  BY <1>2, <1>5, <1>6, RowWritten
<1> QED
  BY <1>1, <1>2, <1>5, <1>7

LEMMA RowAdded ==
  ASSUME RowsInv, NEW p \in Posts, InsertUser(p)
  PROVE  /\ users' \in Seq(UserRow) /\ Len(users) <= Len(users')
         /\ post[p].uid \in 1..Len(users')
         /\ Len(users) = 0 => Len(users') = 1 /\ users'[1].jobs = << >>
<1>1. post[p].uid \in 1..(Len(users) + 1) /\ users \in Seq(UserRow)
  BY DEF InsertUser, RowsInv, UsersShape
<1>2. DOMAIN users = 1..Len(users) /\ Len(users) \in Nat
  BY <1>1
<1>3. PICK u : u = post[p].uid
  OBVIOUS
<1>4. CASE u \in DOMAIN users
  <2>1. users' = [users EXCEPT ![u].points = 0]
    BY <1>3, <1>4 DEF InsertUser
  <2>2. PICK r : r = [jobs |-> users[u].jobs, points |-> 0]
    OBVIOUS
  <2>3. users[u] = [jobs |-> users[u].jobs, points |-> users[u].points] /\ r \in UserRow
    BY <1>1, <1>2, <1>4, <2>2, RowFields, UserRowFields
  <2>4. [users[u] EXCEPT !.points = 0] = r
    BY <2>2, <2>3
  <2>5. users' = [users EXCEPT ![u] = r]
    BY <2>1, <2>4
  <2>6. users' \in Seq(UserRow) /\ Len(users') = Len(users)
    BY <1>1, <1>2, <1>4, <2>3, <2>5, RowWritten
  <2> QED
    BY <1>2, <1>3, <1>4, <2>6
<1>5. CASE u \notin DOMAIN users
  <2>1. PICK r : r = [jobs |-> << >>, points |-> 0]
    OBVIOUS
  <2>2. users' = Append(users, r)
    BY <1>3, <1>5, <2>1 DEF InsertUser
  <2>3. r \in UserRow /\ r.jobs = << >>
    <3>1. << >> \in Seq(JobIds) /\ 0 \in Nat
      OBVIOUS
    <3>2. r \in UserRow
      BY <2>1, <3>1, UserRowFields, Zenon
    <3> QED
      BY <2>1, <3>2
  <2>4. users' \in Seq(UserRow) /\ Len(users') = Len(users) + 1 /\ users'[Len(users) + 1] = r
    BY <1>1, <2>2, <2>3, AppendProperties
  <2>5. post[p].uid = Len(users) + 1
    BY <1>1, <1>2, <1>3, <1>5
  <2> QED
    BY <1>2, <2>3, <2>4, <2>5
<1> QED
  BY <1>4, <1>5

(* The row of the others stays, and POST p keeps to its part of UsersShape.  *)
LEMMA ShapeKept ==
  ASSUME RowsInv, NEW p \in Posts, PostStep(p)
  PROVE  UsersShape' /\ Len(users) <= Len(users')
<1> SUFFICES /\ users' \in Seq(UserRow) /\ Len(users) <= Len(users') /\ sole' \subseteq Posts
             /\ post'[p].jobs \in Seq(JobIds) /\ post'[p].points \in Nat
             /\ post'[p].pc = "insertUser" => post'[p].uid \in 1..(Len(users') + 1)
             /\ post'[p].pc \in Owning => post'[p].uid \in 1..Len(users')
  <2>1. \A q \in Posts \ {p} : post'[q] = post[q]
    BY OtherPosts
  <2>2. post'[p].pc \in PostPc
    BY OtherPosts
  <2>3. Len(users) \in Nat /\ Len(users') \in Nat
    BY DEF RowsInv, UsersShape
  <2>4. ASSUME NEW q \in Posts \ {p}
        PROVE  /\ post'[q].pc = "insertUser" => post'[q].uid \in 1..(Len(users') + 1)
               /\ post'[q].pc \in Owning => post'[q].uid \in 1..Len(users')
    BY <2>1, <2>3 DEF RowsInv, UsersShape
  <2> QED
    BY <2>1, <2>2, <2>4 DEF RowsInv, UsersShape
<1> USE DEF PostGoto, RowsInv, JobInv, JobShape
<1>1. /\ users \in Seq(UserRow) /\ Len(users) \in Nat /\ DOMAIN users = 1..Len(users) /\ sole \subseteq Posts
      /\ post[p].jobs \in Seq(JobIds) /\ post[p].points \in Nat
      /\ post[p].pc = "insertUser" => post[p].uid \in 1..(Len(users) + 1)
      /\ post[p].pc \in Owning => post[p].uid \in 1..Len(users)
  BY DEF UsersShape
<1>2. CASE ReceivePost(p)
  BY <1>1, <1>2 DEF ReceivePost, Owning
<1>3. CASE LookupUser(p)
  <2>1. CASE users = << >>
    BY <1>1, <1>3, <2>1 DEF LookupUser, Owning
  <2>2. CASE users # << >>
    <3>1. PICK u \in DOMAIN users : post' = [post EXCEPT ![p] = [pc |-> "job", i |-> Len(Batch[p]), uid |-> u,
                                           jobs |-> users[u].jobs, points |-> users[u].points]]
      BY <1>3, <2>2 DEF LookupUser
    <3>2. users[u].jobs \in Seq(JobIds) /\ users[u].points \in Nat
      BY <1>1, RowFields, UserRowFields
    <3>3. /\ post'[p].pc = "job" /\ post'[p].uid = u /\ post'[p].jobs = users[u].jobs
          /\ post'[p].points = users[u].points
      BY <3>1
    <3> QED
      BY <1>1, <1>3, <3>2, <3>3 DEF LookupUser
  <2> QED
    BY <2>1, <2>2
<1>4. CASE ReadMaxUserID(p)
  BY <1>1, <1>4 DEF ReadMaxUserID, Owning
<1>5. CASE InsertUser(p)
  <2>1. /\ post'[p].pc = "job" /\ post'[p].uid = post[p].uid /\ post'[p].jobs = << >> /\ post'[p].points = 0
        /\ sole' = sole
    BY <1>5 DEF InsertUser
  <2>2. post'[p].jobs \in Seq(JobIds)
    <3>1. << >> \in Seq(JobIds)
      OBVIOUS
    <3> QED
      BY <2>1, <3>1, Zenon
  <2> QED
    BY <1>1, <1>5, <2>1, <2>2, RowAdded
<1>6. CASE InsertJob(p) \/ NotifyScheduler(p)
  <2>1. /\ post[p].pc \in Owning /\ post'[p].pc \in Owning /\ post'[p].uid = post[p].uid
        /\ post'[p].jobs = post[p].jobs /\ post'[p].points = post[p].points
        /\ users' = users /\ sole' = sole /\ post'[p].pc # "insertUser"
    BY <1>6 DEF InsertJob, NotifyScheduler, Owning
  <2> QED
    BY <1>1, <2>1
<1>7. CASE InsertTyped(p)
  BY <1>1, <1>7 DEF InsertTyped, Owning
<1>8. CASE AddPoints(p)
  <2>1. /\ post'[p].pc # "insertUser" /\ post'[p].uid = post[p].uid /\ post'[p].jobs = post[p].jobs
        /\ post'[p].points = post[p].points /\ sole' = sole
    BY <1>8 DEF AddPoints
  <2> QED
    BY <1>1, <1>8, <2>1, PointsWritten
<1>9. CASE ListJobs(p)
  <2>1. /\ post'[p].pc = "done" /\ post'[p].jobs = post[p].jobs
        /\ post'[p].points = post[p].points /\ sole' = sole
    BY <1>9 DEF ListJobs
  <2> QED
    <3>1. post'[p].pc \notin Owning /\ post'[p].pc # "insertUser"
      BY <2>1 DEF Owning
    <3>2. users' \in Seq(UserRow) /\ Len(users') = Len(users)
      BY <1>9, JobsListed
    <3> QED
      BY <1>1, <2>1, <3>1, <3>2
<1>10. CASE PostFails(p)
  BY <1>1, <1>10 DEF PostFails, Owning
<1> QED
  BY <1>2, <1>3, <1>4, <1>5, <1>6, <1>7, <1>8, <1>9, <1>10 DEF PostStep

LEMMA BatchKept ==
  ASSUME RowsInv, NEW p \in Posts, PostStep(p)
  PROVE  BatchInv'
<1> USE DEF PostGoto, RowsInv, JobInv, JobShape
<1>1. [JobNext]_jobVars
  BY DEF PostStep, JobNext
<1>2. ASSUME NEW q \in Posts, NEW n \in 1..Len(Batch[q]), Written(Batch[q][n])  PROVE Written(Batch[q][n])'
  BY <1>1, <1>2, WrittenStays, BatchedPosts
<1>3. \A q \in Posts \ {p} : post'[q] = post[q]
  BY OtherPosts
<1>4. ASSUME NEW q \in Posts \ {p}  PROVE GoneBy(q)'
  <2>1. GoneBy(q) /\ post'[q] = post[q]
    BY <1>3 DEF BatchInv
  <2>2. post[q].pc \in {"notify", "points"} => Now(q) = Batch[q][post[q].i] /\ post[q].i \in 1..Len(Batch[q])
    BY DEF PostInv, PostWorks, Now
  <2> QED
    BY <1>2, <2>1, <2>2 DEF GoneBy, PostWorks, Now
<1>5. GoneBy(p)'
  <2>1. Batch[p] \in Seq(JobIds) /\ Len(Batch[p]) \in Nat
    BY JobAssumption
  <2>2. GoneBy(p) /\ (PostWorks(p) => post[p].i \in 1..Len(Batch[p]))
    BY DEF BatchInv, PostInv
  <2>3. CASE ReceivePost(p) \/ ReadMaxUserID(p) \/ PostFails(p)
    BY <2>3 DEF ReceivePost, ReadMaxUserID, PostFails, GoneBy, PostWorks
  <2>4. CASE LookupUser(p) \/ InsertUser(p)
    <3>1. post'[p].pc = "maxUser" \/ (post'[p].pc = "job" /\ post'[p].i = Len(Batch[p]))
      BY <2>4 DEF LookupUser, InsertUser
    <3> QED
      BY <2>1, <3>1 DEF GoneBy, PostWorks
  <2>5. CASE InsertJob(p)
    <3>1. post[p].pc = "job" /\ post'[p].pc = "typed" /\ post'[p].i = post[p].i
      BY <2>5 DEF InsertJob
    <3> QED
      BY <1>2, <2>2, <3>1 DEF GoneBy, PostWorks
  <2>6. CASE InsertTyped(p)
    <3>1. /\ post[p].pc = "typed" /\ post'[p].i = post[p].i
          /\ post'[p].pc \in {"failed", "notify", "points"}
      BY <2>6 DEF InsertTyped
    <3>2. Now(p) \in JobIds /\ jobRow[Now(p)].kind = Kind[Now(p)] /\ Now(p)' = Now(p)
      BY <2>2, <3>1, BatchedPosts DEF PostInv, PostWorks, Now
    <3>3. post'[p].pc # "failed" => typed'[Now(p)] = "active" /\ Kind[Now(p)] # "unknown" /\ jobRow' = jobRow
      BY <2>6, <3>2 DEF InsertTyped, Now
    <3>4. post'[p].pc # "failed" => Written(Now(p))'
      BY <3>2, <3>3 DEF Written
    <3> QED
      BY <1>2, <2>2, <3>1, <3>4 DEF GoneBy, PostWorks
  <2>7. CASE NotifyScheduler(p)
    <3>1. post[p].pc = "notify" /\ post'[p].pc = "points" /\ post'[p].i = post[p].i
      BY <2>7 DEF NotifyScheduler
    <3> QED
      BY <1>2, <2>2, <3>1 DEF GoneBy, PostWorks, Now
  <2>8. CASE AddPoints(p)
    <3>1. /\ post[p].pc = "points" /\ post'[p].i = post[p].i - 1
          /\ post'[p].pc = IF post[p].i = 1 THEN "list" ELSE "job"
      BY <2>8 DEF AddPoints
    <3>2. post[p].i \in 1..Len(Batch[p])
      BY <2>2, <3>1 DEF PostWorks
    <3>3. ASSUME NEW n \in 1..Len(Batch[p]), n >= post[p].i  PROVE Written(Batch[p][n])
      BY <2>1, <2>2, <3>1, <3>2, <3>3 DEF GoneBy, PostWorks, Now
    <3>4. ASSUME NEW n \in 1..Len(Batch[p]), n >= post[p].i  PROVE Written(Batch[p][n])'
      BY <1>2, <3>3, <3>4
    <3> QED
      BY <2>1, <3>1, <3>2, <3>4 DEF GoneBy, PostWorks
  <2>9. CASE ListJobs(p)
    <3>1. post[p].pc = "list" /\ post'[p].pc = "done"
      BY <2>9 DEF ListJobs
    <3> QED
      BY <1>2, <2>2, <3>1 DEF GoneBy, PostWorks
  <2> QED
    BY <2>3, <2>4, <2>5, <2>6, <2>7, <2>8, <2>9 DEF PostStep
<1> QED
  BY <1>4, <1>5 DEF BatchInv

LEMMA SoleKept ==
  ASSUME RowsInv, NEW p \in Posts, PostStep(p)
  PROVE  /\ SoleInv'
         /\ Quiet' => Quiet
         /\ Quiet => \A q \in Posts \ {p} : Running(p) => ~Running(q)
<1> USE DEF PostGoto, RowsInv, JobInv, JobShape
<1>1. /\ \A q \in Posts \ {p} : post'[q] = post[q]
      /\ post'[p].pc # "idle"
  BY OtherPosts
<1>2. sole' \subseteq sole
  BY DEF PostStep, ReceivePost, LookupUser, ReadMaxUserID, InsertUser, InsertJob, InsertTyped, NotifyScheduler,
         AddPoints, ListJobs, PostFails
<1>3. SoleInv'
  <2>1. CASE ReceivePost(p)
    <3>1. sole' = IF {q \in Posts : Running(q)} = {} THEN sole ELSE sole \ ({q \in Posts : Running(q)} \cup {p})
      BY <2>1 DEF ReceivePost
    <3>2. ASSUME NEW q \in Posts \ {p}, Running(q)'  PROVE q \notin sole' /\ p \notin sole'
      BY <1>1, <3>1, <3>2 DEF Running
    <3>3. ASSUME NEW q \in Posts \ {p}, NEW r \in Posts \ {p}, Running(q)', Running(r)', q # r
          PROVE  q \notin sole'
      BY <3>2, <3>3
    <3> QED
      BY <3>2, <3>3 DEF SoleInv
  <2>2. CASE ~ReceivePost(p)
    <3>1. Running(p)
      BY <2>2 DEF PostStep, LookupUser, ReadMaxUserID, InsertUser, InsertJob, InsertTyped, NotifyScheduler,
         AddPoints, ListJobs, PostFails, Running, RunningPc
    <3>2. \A q \in Posts : Running(q)' => Running(q)
      BY <1>1, <3>1 DEF Running
    <3> QED
      BY <1>2, <3>2 DEF SoleInv
  <2> QED
    BY <2>1, <2>2
<1>4. Quiet' => Quiet
  BY <1>1, <1>2 DEF Quiet
<1>5. Quiet => \A q \in Posts \ {p} : Running(p) => ~Running(q)
  BY DEF SoleInv, Quiet, Running, RunningPc
<1> QED
  BY <1>3, <1>4, <1>5

(* Without overlaps, the row of the address is the one that POST p knows.  *)
Knows(p) ==
  /\ post[p].pc \in {"maxUser", "insertUser"} => Len(users) = 0
  /\ post[p].pc = "insertUser" => post[p].uid = 1
  /\ post[p].pc \in Owning => post[p].jobs = users[1].jobs
  /\ post[p].pc = "done" =>
       /\ Len(users) = 1
       /\ \A n \in 1..Len(Batch[p]) : Lists(users[1].jobs, Batch[p][n])

LEMMA UserKept ==
  ASSUME RowsInv, NEW p \in Posts, PostStep(p)
  PROVE  UserInv'
<1> SUFFICES ASSUME Quiet'  PROVE Len(users') <= 1 /\ \A q \in Posts : Knows(q)'
  BY DEF UserInv, Knows
<1> USE DEF PostGoto, RowsInv, JobInv, JobShape
<1>1. /\ Len(users) <= 1 /\ \A q \in Posts : Knows(q)
      /\ users \in Seq(UserRow) /\ Len(users) \in Nat /\ DOMAIN users = 1..Len(users)
      /\ \A q \in Posts \ {p} : Running(p) => ~Running(q)
      /\ \A q \in Posts \ {p} : post'[q] = post[q]
      /\ post[p].pc \in Owning => post[p].uid \in 1..Len(users)
  BY SoleKept, OtherPosts DEF UserInv, Knows, UsersShape
<1>2. CASE ~(InsertUser(p) \/ AddPoints(p) \/ ListJobs(p))
  <2> users' = users
    BY <1>2
    DEF PostStep, ReceivePost, LookupUser, ReadMaxUserID, InsertJob, InsertTyped, NotifyScheduler, PostFails
  <2>1. \A q \in Posts \ {p} : Knows(q)'
    BY <1>1, <1>2 DEF Knows
  <2>2. CASE ReceivePost(p) \/ PostFails(p)
    <3>1. post'[p].pc \in {"lookup", "failed"}
      BY <2>2 DEF ReceivePost, PostFails
    <3> QED
      BY <1>1, <2>1, <3>1 DEF Knows, Owning
  <2>3. CASE LookupUser(p)
    <3>1. CASE users = << >>
      BY <1>1, <1>2, <2>3, <3>1 DEF LookupUser, Knows, Owning
    <3>2. CASE users # << >>
      <4>1. PICK u \in DOMAIN users : post' = [post EXCEPT ![p] = [pc |-> "job", i |-> Len(Batch[p]), uid |-> u,
                                           jobs |-> users[u].jobs, points |-> users[u].points]]
        BY <2>3, <3>2 DEF LookupUser
      <4>2. u = 1 /\ post'[p].pc = "job" /\ post'[p].jobs = users[u].jobs
        BY <1>1, <4>1
      <4>3. Knows(p)'
        BY <4>2 DEF Knows
      <4> QED
        BY <1>1, <2>1, <4>3
    <3> QED
      BY <3>1, <3>2
  <2>4. CASE ReadMaxUserID(p)
    <3>1. post[p].pc = "maxUser" /\ post'[p].pc = "insertUser" /\ post'[p].uid = Len(users) + 1
      BY <2>4 DEF ReadMaxUserID
    <3> QED
      BY <1>1, <1>2, <3>1 DEF Knows, Owning
  <2>5. CASE InsertJob(p) \/ InsertTyped(p) \/ NotifyScheduler(p)
    <3>1. /\ post[p].pc \in Owning /\ post'[p].pc \in Owning \cup {"failed"} /\ post'[p].jobs = post[p].jobs
      BY <2>5 DEF InsertJob, InsertTyped, NotifyScheduler, Owning
    <3> QED
      BY <1>1, <1>2, <3>1 DEF Knows, Owning
  <2> QED
    BY <1>1, <1>2, <2>1, <2>2, <2>3, <2>4, <2>5 DEF PostStep
<1>3. CASE InsertUser(p)
  <2>1. /\ post[p].pc = "insertUser" /\ post'[p].pc = "job" /\ post'[p].jobs = << >> /\ Running(p)
    BY <1>3 DEF InsertUser, Running, RunningPc
  <2>2. Len(users) = 0 /\ Len(users') = 1 /\ users'[1].jobs = << >>
    BY <1>1, <1>3, <2>1, RowAdded DEF Knows
  <2>3. Knows(p)'
    BY <2>1, <2>2 DEF Knows
  <2>4. ASSUME NEW q \in Posts \ {p}  PROVE Knows(q)'
    <3>1. post'[q] = post[q] /\ ~Running(q) /\ Knows(q)
      BY <1>1, <2>1
    <3>2. post[q].pc # "done"
      BY <2>2, <3>1 DEF Knows
    <3>3. post'[q].pc \notin {"maxUser", "insertUser", "done"} /\ post'[q].pc \notin Owning
      BY <3>1, <3>2 DEF Running, RunningPc, Owning
    <3> QED
      BY <3>3 DEF Knows
  <2> QED
    BY <2>2, <2>3, <2>4
<1>4. CASE AddPoints(p)
  <2>1. /\ post[p].pc = "points" /\ post'[p].pc \in {"list", "job"} /\ post'[p].jobs = post[p].jobs
    BY <1>4 DEF AddPoints
  <2>2. Len(users') = Len(users) /\ (Len(users) = 1 => users'[1].jobs = users[1].jobs) /\ Len(users) = 1
    BY <1>1, <1>4, <2>1, PointsWritten DEF Owning
  <2>3. Knows(p)'
    BY <1>1, <2>1, <2>2 DEF Knows, Owning
  <2>4. ASSUME NEW q \in Posts \ {p}  PROVE Knows(q)'
    BY <1>1, <2>2 DEF Knows
  <2> QED
    BY <1>1, <2>2, <2>3, <2>4
<1>5. CASE ListJobs(p)
  <2>1. post[p].pc = "list" /\ post'[p].pc = "done" /\ Running(p)
    BY <1>5 DEF ListJobs, Running, RunningPc
  <2>2. /\ Len(users) = 1 /\ Len(users') = 1 /\ users[1].jobs = post[p].jobs
        /\ users'[1].jobs = users[1].jobs \o Batch[p]
    <3>1. post[p].uid \in 1..Len(users) /\ Knows(p) /\ post[p].pc \in Owning
      BY <1>1, <2>1 DEF Owning
    <3>2. post[p].uid = 1 /\ Len(users) = 1
      BY <1>1, <3>1
    <3> QED
      BY <1>5, <3>1, <3>2, JobsListed DEF Knows
  <2>3. PICK s, b, t : s = users[1].jobs /\ b = Batch[p] /\ t = users'[1].jobs
    OBVIOUS
  <2>4. s \in Seq(JobIds) /\ b \in Seq(JobIds) /\ t = s \o b
    BY <2>2, <2>3, JobAssumption DEF UsersShape
  <2>5. /\ \A j : Lists(s, j) => Lists(t, j)
        /\ \A n \in 1..Len(b) : Lists(t, b[n])
    <3>1. /\ Len(t) = Len(s) + Len(b) /\ Len(s) \in Nat /\ Len(b) \in Nat
          /\ \A n \in 1..Len(s) : t[n] = s[n]
          /\ \A n \in 1..Len(b) : t[Len(s) + n] = b[n]
      BY <2>4, ConcatProperties
    <3>2. ASSUME NEW j, Lists(s, j)  PROVE Lists(t, j)
      BY <3>1, <3>2 DEF Lists
    <3>3. ASSUME NEW n \in 1..Len(b)  PROVE Lists(t, b[n])
      <4>1. Len(s) + n \in 1..Len(t) /\ t[Len(s) + n] = b[n]
        BY <3>1
      <4> QED
        BY <4>1 DEF Lists
    <3> QED
      BY <3>2, <3>3
  <2>6. Knows(p)'
    BY <2>1, <2>2, <2>3, <2>5 DEF Knows, Owning
  <2>7. ASSUME NEW q \in Posts \ {p}  PROVE Knows(q)'
    <3>1. post'[q] = post[q] /\ ~Running(q) /\ Knows(q)
      BY <1>1, <2>1
    <3>2. post'[q].pc \notin {"maxUser", "insertUser"} /\ post'[q].pc \notin Owning
      BY <3>1 DEF Running, RunningPc, Owning
    <3> QED
      BY <2>2, <2>3, <2>5, <3>1, <3>2 DEF Knows
  <2> QED
    BY <2>2, <2>6, <2>7
<1> QED
  BY <1>2, <1>3, <1>4, <1>5

(* A step of another handler does not touch the users or the POSTs.        *)
LEMMA RowsPreserved == ASSUME RowsInv, [JobNext]_jobVars  PROVE RowsInv'
<1>1. JobInv'
  BY JobPreserved DEF RowsInv
<1>2. ASSUME NEW p \in Posts, PostStep(p)  PROVE RowsInv'
  BY <1>1, <1>2, ShapeKept, BatchKept, SoleKept, UserKept DEF RowsInv
<1>3. CASE UNCHANGED <<users, post, sole>>
  <2>1. UsersShape' /\ SoleInv'
    BY <1>3 DEF RowsInv, UsersShape, SoleInv, Running
  <2>2. UserInv'
    BY <1>3 DEF RowsInv, UserInv, Quiet
  <2>3. BatchInv'
    <3>1. ASSUME NEW q \in Posts, NEW n \in 1..Len(Batch[q]), Written(Batch[q][n])  PROVE Written(Batch[q][n])'
      BY <3>1, WrittenStays, BatchedPosts DEF RowsInv
    <3>2. ASSUME NEW q \in Posts  PROVE GoneBy(q)'
      <4>1. GoneBy(q) /\ post'[q] = post[q]
        BY <1>3 DEF RowsInv, BatchInv
      <4>2. post[q].pc \in {"notify", "points"} => Now(q) = Batch[q][post[q].i] /\ post[q].i \in 1..Len(Batch[q])
        BY DEF RowsInv, JobInv, PostInv, PostWorks, Now
      <4> QED
        BY <3>1, <4>1, <4>2 DEF GoneBy, PostWorks, Now
    <3> QED
      BY <3>2 DEF BatchInv
  <2> QED
    BY <1>1, <2>1, <2>2, <2>3 DEF RowsInv
<1>4. (\E p \in Posts : PostStep(p)) \/ UNCHANGED <<users, post, sole>>
  BY DEF JobNext, jobVars, PostStep, ReceiveDrop, ReadKind, MarkDeleted, Deactivate, PauseScheduler, DropFails,
         ReceiveEdit, EditJobRow, EditTimeRow, EditFails, Expire, CheckStatus
<1> QED
  BY <1>2, <1>3, <1>4
-----------------------------------------------------------------------------
(* A GET still has every job to come that it has to find and has not found. *)
ListingShape ==
  /\ DOMAIN listing = Listings /\ DOMAIN due = Listings /\ DOMAIN broken = Listings
  /\ \A l \in Listings : DOMAIN listing[l] = {"pc", "chain", "ids", "seen", "found", "left"}
Belongs(chain, j) == chain = AnyChain \/ ChainOf[j] = chain
Asks(l) ==
  /\ listing[l].ids \in Seq(JobIds)
  /\ listing[l].pc = "reading" => listing[l].ids # << >>
  /\ listing[l].pc = "idle" => due[l] = {}
  /\ \A j \in due[l] :
       /\ j \in JobIds /\ Written(j) /\ Belongs(listing[l].chain, j)
       /\ j \in broken[l] \cup listing[l].found \/ Kind[j] = "custom"
            \/ (listing[l].pc = "reading" /\ Lists(listing[l].ids, j))
ListingInv == RowsInv /\ ListingShape /\ \A l \in Listings : Asks(l)

LEMMA ListingInitially == ASSUME JobInit, ListingsInit  PROVE ListingInv
<1>1. ListingShape
  BY DEF ListingsInit, ListingShape, NoListing
<1>2. ASSUME NEW l \in Listings  PROVE Asks(l)
  <2>1. listing[l].ids = << >> /\ listing[l].pc = "idle" /\ due[l] = {}
    BY DEF ListingsInit, NoListing
  <2>2. << >> \in Seq(JobIds)
    OBVIOUS
  <2>3. listing[l].ids \in Seq(JobIds)
    BY <2>1, <2>2, Zenon
  <2> QED
    BY <2>1, <2>3 DEF Asks
<1> QED
  BY <1>1, <1>2, RowsInitially DEF ListingInv

(* The jobs of the POSTs that are over are in the tables and on the row.   *)
LEMMA CreatedAreListed ==
  ASSUME RowsInv, NEW j \in CreatedJobs
  PROVE  /\ j \in JobIds /\ Written(j)
         /\ users # << >> /\ \A u \in DOMAIN users : Lists(users[u].jobs, j)
<1>1. Quiet /\ \E p \in Posts : post[p].pc = "done" /\ \E n \in DOMAIN Batch[p] : j = Batch[p][n]
  BY DEF CreatedJobs, Quiet
<1>2. PICK p \in Posts : post[p].pc = "done" /\ \E n \in DOMAIN Batch[p] : j = Batch[p][n]
  BY <1>1
<1>3. PICK n \in 1..Len(Batch[p]) : j = Batch[p][n]
  BY <1>2, JobAssumption
<1>4. j \in JobIds /\ Written(j)
  BY <1>2, <1>3, BatchedPosts DEF RowsInv, BatchInv, GoneBy
<1>5. Len(users) = 1 /\ Lists(users[1].jobs, j)
  BY <1>1, <1>2, <1>3 DEF RowsInv, UserInv
<1>6. users \in Seq(UserRow)
  BY DEF RowsInv, UsersShape
<1>7. users # << >> /\ \A u \in DOMAIN users : u = 1
  <2>1. DOMAIN users = 1..Len(users)
    BY <1>6
  <2> QED
    BY <1>5, <2>1
<1> QED
  BY <1>4, <1>5, <1>7

LEMMA WrittenInChain ==
  ASSUME NEW j \in JobIds, Written(j), NEW chain
  PROVE  InChain(chain, j) <=> Belongs(chain, j)
BY JobAssumption DEF Written, InChain, Belongs, Kinds

LEMMA RowsStay == ASSUME UNCHANGED jobVars  PROVE RowsInv => RowsInv'
BY DEF jobVars, RowsInv, JobInv, JobShape, PostInv, PostWorks, Now, RowInv, DropInv, Over, ActiveJobHasRow,
       DeleteAnswerIsTrue, UsersShape, BatchInv, GoneBy, Written, SoleInv, Running, UserInv, Quiet

(* A step of one GET.                                                      *)
LEMMA OneListing ==
  ASSUME ListingInv, UNCHANGED jobVars, NEW l \in Listings, NEW r, listing' = [listing EXCEPT ![l] = r],
         DOMAIN r = {"pc", "chain", "ids", "seen", "found", "left"},
         DOMAIN due' = Listings, DOMAIN broken' = Listings,
         \A m \in Listings \ {l} : due'[m] = due[m] /\ broken'[m] = broken[m],
         Asks(l)'
  PROVE  ListingInv'
<1>1. RowsInv'
  BY RowsStay DEF ListingInv
<1>2. ListingShape'
  BY DEF ListingInv, ListingShape
<1>3. ASSUME NEW m \in Listings \ {l}  PROVE Asks(m)'
  <2>1. Asks(m) /\ listing'[m] = listing[m] /\ jobRow' = jobRow /\ typed' = typed
    BY DEF ListingInv, ListingShape, jobVars
  <2> QED
    BY <2>1 DEF Asks, Written, Belongs
<1> QED
  BY <1>1, <1>2, <1>3 DEF ListingInv

LEMMA JobIDsRead ==
  ASSUME ListingInv, UNCHANGED jobVars, NEW l \in Listings, NEW chain, ReadJobIDs(l, chain)
  PROVE  ListingInv'
<1>1. /\ DOMAIN listing = Listings /\ DOMAIN due = Listings /\ DOMAIN broken = Listings
      /\ DOMAIN listing[l] = {"pc", "chain", "ids", "seen", "found", "left"}
      /\ listing[l].ids \in Seq(JobIds) /\ RowsInv /\ jobRow' = jobRow /\ typed' = typed
  BY DEF ListingInv, ListingShape, Asks, jobVars
<1>2. due' = [due EXCEPT ![l] = {j \in CreatedJobs : InChain(chain, j)}]
  BY DEF ReadJobIDs
<1>3. ASSUME NEW j \in due'[l]
      PROVE  /\ j \in JobIds /\ Written(j)' /\ Belongs(chain, j)
             /\ users # << >> /\ \A u \in DOMAIN users : Lists(users[u].jobs, j)
  <2>1. j \in CreatedJobs /\ InChain(chain, j)
    BY <1>1, <1>2
  <2> QED
    BY <1>1, <2>1, CreatedAreListed, WrittenInChain DEF Written
<1>4. ASSUME NEW ids \in JobIDLists,
             listing' = [listing EXCEPT ![l].pc = IF ids = << >> THEN "empty" ELSE "reading",
                                        ![l].chain = chain, ![l].ids = ids],
             broken' = broken
      PROVE  ListingInv'
  <2>1. PICK r : r = [listing[l] EXCEPT !.pc = IF ids = << >> THEN "empty" ELSE "reading",
                                        !.chain = chain, !.ids = ids]
    OBVIOUS
  <2>2. /\ listing' = [listing EXCEPT ![l] = r]
        /\ DOMAIN r = {"pc", "chain", "ids", "seen", "found", "left"}
        /\ r.pc = (IF ids = << >> THEN "empty" ELSE "reading") /\ r.chain = chain /\ r.ids = ids
    BY <1>1, <1>4, <2>1
  <2>3. ids \in Seq(JobIds)
    <3>1. users \in Seq(UserRow)
      BY <1>1 DEF RowsInv, UsersShape
    <3>2. CASE users = << >>
      <4>1. ids = << >>
        BY <3>2 DEF JobIDLists
      <4>2. << >> \in Seq(JobIds)
        OBVIOUS
      <4> QED
        BY <4>1, <4>2, Zenon
    <3>3. CASE users # << >>
      BY <3>1, <3>3, RowFields, UserRowFields DEF JobIDLists
    <3> QED
      BY <3>2, <3>3
  <2>4. ASSUME NEW j \in due'[l]  PROVE Lists(ids, j) /\ ids # << >>
    <3>1. Lists(ids, j)
      BY <1>3 DEF JobIDLists
    <3> QED
      BY <2>3, <3>1 DEF Lists
  <2>5. listing'[l] = r
    BY <1>1, <2>2
  <2>6. Asks(l)'
    BY <1>3, <2>2, <2>3, <2>4, <2>5 DEF Asks
  <2> QED
    BY <1>1, <1>2, <1>4, <2>2, <2>6, OneListing
<1>5. ASSUME listing' = [listing EXCEPT ![l].pc = "empty", ![l].chain = chain],
             broken' = [broken EXCEPT ![l] = JobIds]
      PROVE  ListingInv'
  <2>1. PICK r : r = [listing[l] EXCEPT !.pc = "empty", !.chain = chain]
    OBVIOUS
  <2>2. /\ listing' = [listing EXCEPT ![l] = r]
        /\ DOMAIN r = {"pc", "chain", "ids", "seen", "found", "left"}
        /\ r.pc = "empty" /\ r.chain = chain /\ r.ids = listing[l].ids
    BY <1>1, <1>5, <2>1
  <2>3. listing'[l] = r /\ broken'[l] = JobIds
    BY <1>1, <1>5, <2>2
  <2>4. Asks(l)'
    BY <1>1, <1>3, <2>2, <2>3 DEF Asks
  <2> QED
    BY <1>1, <1>2, <1>5, <2>2, <2>4, OneListing
<1> QED
  BY <1>4, <1>5 DEF ReadJobIDs

(* The GET goes on to its next job, or answers.                            *)
LEMMA JobPassed ==
  ASSUME ListingInv, UNCHANGED jobVars, NEW l \in Listings, listing[l].pc = "reading", NEW found, NEW left,
         listing' = [listing EXCEPT ![l] = NextJob(listing[l], found, left)],
         DOMAIN broken' = Listings, due' = due, \A m \in Listings \ {l} : broken'[m] = broken[m],
         listing[l].found \subseteq found, broken[l] \subseteq broken'[l],
         Head(listing[l].ids) \in due[l] =>
           Head(listing[l].ids) \in broken'[l] \cup found \/ Kind[Head(listing[l].ids)] = "custom"
  PROVE  ListingInv'
<1>1. /\ DOMAIN listing = Listings /\ DOMAIN due = Listings
      /\ DOMAIN listing[l] = {"pc", "chain", "ids", "seen", "found", "left"}
      /\ Asks(l) /\ jobRow' = jobRow /\ typed' = typed
  BY DEF ListingInv, ListingShape, jobVars
<1>2. PICK r, rest : r = NextJob(listing[l], found, left) /\ rest = Tail(listing[l].ids)
  OBVIOUS
<1>3. /\ DOMAIN r = {"pc", "chain", "ids", "seen", "found", "left"}
      /\ r.pc = (IF rest = << >> THEN Status(found, left) ELSE "reading")
      /\ r.chain = listing[l].chain /\ r.ids = rest /\ r.found = found
  BY <1>1, <1>2 DEF NextJob
<1>4. /\ rest \in Seq(JobIds) /\ Len(rest) = Len(listing[l].ids) - 1
      /\ \A n \in 1..Len(rest) : rest[n] = listing[l].ids[n + 1]
      /\ Head(listing[l].ids) = listing[l].ids[1] /\ Len(listing[l].ids) \in Nat
  BY <1>1, <1>2, HeadTailProperties DEF Asks
<1>5. ASSUME NEW j, Lists(listing[l].ids, j), j # Head(listing[l].ids)
      PROVE  Lists(rest, j) /\ rest # << >>
  <2>1. PICK n \in 1..Len(listing[l].ids) : listing[l].ids[n] = j
    BY <1>5 DEF Lists
  <2>2. n - 1 \in 1..Len(rest) /\ rest[n - 1] = j
    BY <1>4, <1>5, <2>1
  <2> QED
    BY <1>4, <2>2 DEF Lists
<1>6. listing'[l] = r
  BY <1>1, <1>2
<1>7. r.pc # "idle" /\ (r.pc = "reading" => rest # << >>)
  BY <1>3 DEF Status
<1>8. ASSUME NEW j \in due'[l]
      PROVE  /\ j \in JobIds /\ Written(j)' /\ Belongs(r.chain, j)
             /\ j \in broken'[l] \cup found \/ Kind[j] = "custom" \/ (r.pc = "reading" /\ Lists(rest, j))
  <2>1. /\ j \in JobIds /\ Written(j) /\ Belongs(listing[l].chain, j)
        /\ j \in broken[l] \cup listing[l].found \/ Kind[j] = "custom" \/ Lists(listing[l].ids, j)
    BY <1>1 DEF Asks
  <2>2. Written(j)'
    BY <1>1, <2>1 DEF Written
  <2>3. CASE j = Head(listing[l].ids)
    BY <1>3, <2>1, <2>2, <2>3
  <2>4. CASE j # Head(listing[l].ids)
    BY <1>3, <1>5, <2>1, <2>2, <2>4
  <2> QED
    BY <2>3, <2>4
<1>9. Asks(l)'
  BY <1>3, <1>4, <1>6, <1>7, <1>8 DEF Asks
<1> QED
  BY <1>2, <1>3, <1>9, OneListing DEF ListingInv, ListingShape

LEMMA ListingsPreserved ==
  ASSUME ListingInv, ListingsNext, UNCHANGED jobVars
  PROVE  ListingInv'
<1>1. ASSUME NEW l \in Listings, NEW chain, ReadJobIDs(l, chain)  PROVE ListingInv'
  BY <1>1, JobIDsRead
<1>2. ASSUME NEW l \in Listings, listing[l].pc = "reading"
      PROVE  /\ DOMAIN listing = Listings /\ DOMAIN broken = Listings
             /\ Head(listing[l].ids) \in JobIds
             /\ Head(listing[l].ids) \in due[l] =>
                  Written(Head(listing[l].ids)) /\ InChain(listing[l].chain, Head(listing[l].ids))
  <2>1. Asks(l)
    BY DEF ListingInv
  <2>2. Head(listing[l].ids) \in JobIds
    BY <1>2, <2>1, HeadTailProperties DEF Asks
  <2> QED
    BY <2>1, <2>2, WrittenInChain DEF Asks, ListingInv, ListingShape
<1>3. ASSUME NEW l \in Listings, ReadJobRow(l)  PROVE ListingInv'
  <2>1. PICK r, j : r = listing[l] /\ j = Head(listing[l].ids)
    OBVIOUS
  <2>2. r.pc = "reading" /\ due' = due /\ broken' = broken
    BY <1>3, <2>1 DEF ReadJobRow
  <2>3. j \in JobIds /\ (j \in due[l] => Written(j) /\ InChain(r.chain, j)) /\ DOMAIN broken = Listings
    BY <1>2, <2>1, <2>2
  <2>4. CASE jobRow[j] = NoJobRow \/ jobRow[j].kind \in {"custom", "unknown", "none"}
    <3>1. CASE listing' = [listing EXCEPT ![l] = LeaveOut(r)]
      <4>1. j \in due[l] => Kind[j] = "custom"
        <5>1. jobRow[j].kind \in {"custom", "unknown", "none"}
          BY <2>4 DEF NoJobRow
        <5>2. Kind[j] # "none"
          BY <2>3, JobAssumption DEF Kinds
        <5> QED
          BY <2>3, <5>1, <5>2 DEF Written
      <4> QED
        BY <2>1, <2>2, <2>3, <3>1, <4>1, JobPassed DEF LeaveOut
    <3>2. CASE listing' = [listing EXCEPT ![l] = Skip(r)] /\ ~InChain(r.chain, j)
      BY <2>1, <2>2, <2>3, <3>2, JobPassed DEF Skip
    <3> QED
      BY <1>3, <2>1, <2>4, <3>1, <3>2 DEF ReadJobRow
  <2>5. CASE ~(jobRow[j] = NoJobRow \/ jobRow[j].kind \in {"custom", "unknown", "none"})
    <3>1. CASE listing' = [listing EXCEPT ![l] = Skip(r)] /\ ~InChain(r.chain, j)
      BY <2>1, <2>2, <2>3, <3>1, JobPassed DEF Skip
    <3>2. CASE listing' = [listing EXCEPT ![l] = [r EXCEPT !.seen = TRUE]]
      <4>1. PICK t : t = [r EXCEPT !.seen = TRUE]
        OBVIOUS
      <4>2. /\ DOMAIN t = {"pc", "chain", "ids", "seen", "found", "left"}
            /\ t.pc = r.pc /\ t.ids = r.ids /\ t.chain = r.chain /\ t.found = r.found
        BY <2>1, <4>1 DEF ListingInv, ListingShape
      <4>3. listing'[l] = t
        BY <3>2, <4>1 DEF ListingInv, ListingShape
      <4>4. Asks(l) /\ jobRow' = jobRow /\ typed' = typed
        BY DEF ListingInv, jobVars
      <4>5. Asks(l)'
        BY <2>1, <2>2, <4>2, <4>3, <4>4 DEF Asks, Written, Belongs
      <4> QED
        BY <2>2, <3>2, <4>1, <4>2, <4>5, OneListing DEF ListingInv, ListingShape
    <3> QED
      BY <1>3, <2>1, <2>5, <3>1, <3>2 DEF ReadJobRow
  <2> QED
    BY <2>4, <2>5
<1>4. ASSUME NEW l \in Listings, ReadTypedRow(l)  PROVE ListingInv'
  <2>1. PICK r, j : r = listing[l] /\ j = Head(listing[l].ids)
    OBVIOUS
  <2>2. /\ r.pc = "reading" /\ due' = due /\ broken' = broken
        /\ listing' = [listing EXCEPT ![l] = IF typed[j] = "none" THEN LeaveOut(r) ELSE Found(r)]
    BY <1>4, <2>1 DEF ReadTypedRow
  <2>3. j \in JobIds /\ (j \in due[l] => Written(j)) /\ DOMAIN broken = Listings
    BY <1>2, <2>1, <2>2
  <2>4. CASE typed[j] = "none"
    <3>1. j \notin due[l]
      BY <2>3, <2>4 DEF Written
    <3> QED
      BY <2>1, <2>2, <2>3, <2>4, <3>1, JobPassed DEF LeaveOut
  <2>5. CASE typed[j] # "none"
    <3>1. listing' = [listing EXCEPT ![l] = NextJob(r, r.found \cup {j}, r.left)]
      BY <2>1, <2>2, <2>5 DEF Found
    <3>2. PICK f : f = r.found \cup {j}
      OBVIOUS
    <3>3. listing' = [listing EXCEPT ![l] = NextJob(listing[l], f, listing[l].left)]
      BY <2>1, <3>1, <3>2
    <3>4. listing[l].found \subseteq f /\ Head(listing[l].ids) \in f
      BY <2>1, <3>2
    <3> QED
      BY <2>1, <2>2, <2>3, <3>3, <3>4, JobPassed
  <2> QED
    BY <2>4, <2>5
<1>5. ASSUME NEW l \in Listings, ReadFails(l)  PROVE ListingInv'
  <2>1. PICK r, j : r = listing[l] /\ j = Head(listing[l].ids)
    OBVIOUS
  <2>2. /\ r.pc = "reading" /\ due' = due /\ broken' = [broken EXCEPT ![l] = @ \cup {j}]
        /\ listing' = [listing EXCEPT ![l] = NextJob(r, r.found, r.left \cup {j})]
    BY <1>5, <2>1 DEF ReadFails, LeaveOut
  <2>3. DOMAIN broken = Listings
    BY DEF ListingInv, ListingShape
  <2>4. /\ DOMAIN broken' = Listings /\ broken'[l] = broken[l] \cup {j}
        /\ \A m \in Listings \ {l} : broken'[m] = broken[m]
    BY <2>2, <2>3
  <2> QED
    BY <2>1, <2>2, <2>4, JobPassed
<1> QED
  BY <1>1, <1>3, <1>4, <1>5 DEF ListingsNext

LEMMA ListingPreserved ==
  ASSUME ListingInv,
         [JobsAndListingsNext]_<<jobVars, listVars>>
  PROVE  ListingInv'
<1>1. CASE [JobNext]_jobVars /\ UNCHANGED listVars
  <2>1. RowsInv'
    BY <1>1, RowsPreserved DEF ListingInv
  <2>2. ListingShape'
    BY <1>1 DEF ListingInv, ListingShape, listVars
  <2>3. ASSUME NEW l \in Listings  PROVE Asks(l)'
    <3>1. Asks(l) /\ listing' = listing /\ due' = due /\ broken' = broken
      BY <1>1 DEF ListingInv, listVars
    <3>2. \A j \in due[l] : j \in JobIds /\ Written(j)'
      BY <1>1, <3>1, WrittenStays DEF ListingInv, RowsInv, Asks
    <3> QED
      BY <3>1, <3>2 DEF Asks, Belongs
  <2> QED
    BY <2>1, <2>2, <2>3 DEF ListingInv
<1>2. CASE ListingsNext /\ UNCHANGED jobVars
  BY <1>2, ListingsPreserved
<1> QED
  BY <1>1, <1>2 DEF JobsAndListingsNext

\* ListingIsComplete: a GET shows every job of the POSTs that were over when it came,
\* unless two POSTs of the user overlapped, a read of the job failed or its kind is
\* custom: for every number of jobs, batches, POSTs, other requests and GETs.
THEOREM CompleteListings == ListSpec => []ListingIsComplete
<1>1. ListingInv => ListingIsComplete
  BY DEF ListingInv, Asks, ListingIsComplete
<1>2. JobInit /\ ListingsInit => ListingInv
  BY ListingInitially
<1> QED
  BY <1>1, <1>2, ListingPreserved, PTL DEF ListSpec

-----------------------------------------------------------------------------
(***************************************************************************)
(* The time jobs, from their rows to the task dispatcher.                  *)
(***************************************************************************)

PollFields == {"pc", "at", "todo", "job", "slot", "out", "i", "id", "failed"}
ClientFields == {"pc", "attempt", "found", "batch", "tries"}

PollShape(x) ==
  /\ DOMAIN poll[x] = PollFields
  /\ poll[x].at \in Nat /\ poll[x].todo \subseteq Selected /\ poll[x].slot \in Nat /\ poll[x].i \in Nat
  /\ poll[x].id \in Nat
  /\ poll[x].out \in Seq(TaskRecord)
  /\ poll[x].pc \in {"status", "inactive"} => poll[x].job \in Timed
  /\ poll[x].pc \in {"tasks", "insert", "link"} => poll[x].i # 0
  /\ poll[x].pc \in {"insert", "link"} => poll[x].i <= Len(poll[x].out)

RowShape(j) ==
  /\ DOMAIN dated[j] = {"active", "completed", "next"}
  /\ dated[j].active \in BOOLEAN /\ dated[j].completed \in BOOLEAN /\ dated[j].next \in Nat

TimeShape ==
  /\ now \in Nat /\ lastPoll \in Nat
  /\ DOMAIN dated = Dated /\ \A j \in Dated : RowShape(j)
  /\ DOMAIN poll = 1..Attempts /\ \A x \in 1..Attempts : PollShape(x)
  /\ DOMAIN client = ClientFields
  /\ client.found \in Seq(TaskRecord) /\ client.batch \in Seq(TaskRecord)
  /\ client.pc = "filter" => client.found # << >>
  /\ accepted \in Seq(TaskRecord) /\ taskJob \in Seq(Dated \cup {Other})

(* The job of a handler between the two statements that complete it.       *)
Completing(x, j) == poll[x].pc \in {"status", "inactive"} /\ poll[x].job = j
Selecting(x, j) == \E s \in poll[x].todo : s.job = j
Handling(x, j) == Advancing(x) /\ (Completing(x, j) \/ Selecting(x, j))

Apart ==
  /\ lastPoll <= now
  /\ \A x \in 1..Attempts : Advancing(x) =>
       /\ poll[x].at <= now
       /\ \A s, t \in poll[x].todo : s.job = t.job => s = t
       /\ \A s \in poll[x].todo : poll[x].at <= s.slot /\ ~Completing(x, s.job)
  /\ \A x \in 1..Attempts : poll[x].pc \in {"status", "inactive"} => dated[poll[x].job].completed
  /\ ~crossed =>
       \A x \in 1..Attempts : Advancing(x) =>
         /\ \A y \in 1..Attempts : Advancing(y) => y = x
         /\ lastPoll <= poll[x].at
         /\ \A s \in poll[x].todo : s.job \notin edited => s.slot = dated[s.job].next
         /\ \A j \in Timed \ edited : Completing(x, j) => poll[x].slot = dated[j].next

Waits(j) == j \notin edited /\ dated[j].active /\ ~dated[j].completed
AheadInv ==
  timely /\ ~crossed =>
    \A j \in Timed : Waits(j) =>
      /\ dated[j].next >= lastPoll + Slack
      /\ \A x \in 1..Attempts : Advancing(x) /\ poll[x].at - lastPoll <= Slack =>
           dated[j].next >= poll[x].at + Slack \/ Selecting(x, j)

Watched(j) == j \in Timed \ edited
Spent(j, u) ==
  \/ u < dated[j].next
  \/ /\ u = dated[j].next /\ ~dated[j].active
     /\ \A x \in 1..Attempts : ~Handling(x, j)

Holders == -1..Attempts
List(h) == IF h = -1 THEN client.batch ELSE IF h = 0 THEN client.found ELSE poll[h].out
Same(s, t) == s.job = t.job /\ s.slot = t.slot

SpentInv ==
  ~crossed =>
    \A h \in Holders : \A m \in DOMAIN List(h) :
      Watched(List(h)[m].job) => Spent(List(h)[m].job, List(h)[m].slot)
SingleInv ==
  ~crossed =>
    \A g, h \in Holders : \A m \in DOMAIN List(g), n \in DOMAIN List(h) :
      Watched(List(g)[m].job) /\ Same(List(g)[m], List(h)[n]) => g = h /\ m = n
AcceptedInv ==
  ~crossed =>
    \A n \in DOMAIN accepted : Watched(accepted[n].job) =>
      /\ Spent(accepted[n].job, accepted[n].slot)
      /\ \A h \in Holders : \A m \in DOMAIN List(h) :
           Same(accepted[n], List(h)[m]) => h = -1 /\ accepted[n] \in doubled

OnceInv == SpentInv /\ SingleInv /\ AcceptedInv /\ SlotOnce
TimeInv == TimeShape /\ Apart /\ AheadInv /\ OnceInv

-----------------------------------------------------------------------------
TimeBounds ==
  /\ Timed \subseteq Dated /\ Custom \subseteq Dated /\ Timed \cap Custom = {}
  /\ Attempts \in Nat /\ Slack \in Nat /\ LookAhead \in Nat /\ Slack <= LookAhead
  /\ \A j \in Dated : FirstRun[j] \in Nat /\ Interval[j] \in Nat \ {0} /\ Expiry[j] \in Nat
  /\ \A j \in Timed : Slack <= Interval[j] /\ Slack <= FirstRun[j]

LEMMA Bounded == TimeBounds
  BY TimeAssumption DEF TimeAssumption, TimeBounds, Dated

(* The custom jobs that are due, as tasks in some order.                   *)
LEMMA CustomTasks ==
  ASSUME TimeShape, NEW S, S \subseteq Custom
  PROVE  SetToSeq({Task(j, dated[j].next, 0) : j \in S}) \in Seq([job : Custom, slot : Nat, id : Nat])
<1> DEFINE F(j) == Task(j, dated[j].next, 0)
           T == {Task(j, dated[j].next, 0) : j \in S}
           R == [job : Custom, slot : Nat, id : Nat]
<1>1. IsFiniteSet(S)
  BY TimeAssumption, FS_Subset DEF TimeAssumption
<1>2. IsFiniteSet(T)
  <2> DEFINE f == [j \in S |-> Task(j, dated[j].next, 0)]
  <2>1. f \in Surjection(S, T)
    BY DEF Surjection
  <2> HIDE DEF f, T
  <2> QED
    BY <1>1, <2>1, FS_Surjection
<1>3. T \subseteq R
  BY Bounded DEF TimeShape, TimeBounds, Task, RowShape
<1> HIDE DEF T, R
<1>4. Cardinality(T) \in Nat /\ \E f : f \in Bijection(1..Cardinality(T), T)
  BY <1>2, FS_CardinalityType DEF ExistsBijection
<1>5. PICK f : f \in [1..Cardinality(T) -> T] /\ IsInjective(f)
  BY <1>4 DEF Bijection, Injection, Surjection, IsInjective
<1>6. SetToSeq(T) \in [1..Cardinality(T) -> T]
  BY <1>5 DEF SetToSeq
<1>7. SetToSeq(T) \in Seq(R)
  BY <1>3, <1>4, <1>6
<1> QED
  BY <1>7 DEF T, R

LEMMA TimeInitially == ASSUME TimeInit  PROVE TimeInv
<1>1. TimeShape
  <2>1. \A x \in 1..Attempts : PollShape(x)
    <3>1. \A x \in 1..Attempts : poll[x] = NoPoll
      BY DEF TimeInit
    <3>2. << >> \in Seq(TaskRecord) /\ 0 \in Nat /\ {} \subseteq Selected
      OBVIOUS
    <3>3. /\ DOMAIN NoPoll = PollFields /\ NoPoll.pc = "idle" /\ NoPoll.at = 0 /\ NoPoll.todo = {} /\ NoPoll.slot = 0
          /\ NoPoll.i = 0 /\ NoPoll.id = 0 /\ NoPoll.out = << >>
      BY DEF NoPoll, PollFields
    <3> QED
      BY <3>1, <3>2, <3>3 DEF PollShape
  <2>2. \A j \in Dated : RowShape(j)
    BY Bounded DEF TimeInit, TimeBounds, RowShape
  <2> QED
    BY <2>1, <2>2 DEF TimeInit, TimeShape, ClientIdle, ClientFields
<1>2. \A x \in 1..Attempts : ~Advancing(x) /\ poll[x].pc = "idle" /\ poll[x].out = << >>
  BY DEF TimeInit, Advancing, NoPoll
<1>3. Apart
  BY <1>2 DEF TimeInit, Apart
<1>4. AheadInv
  BY <1>2, Bounded DEF TimeInit, AheadInv, Waits, TimeBounds
<1>5. \A h \in Holders : List(h) = << >>
  BY <1>2, Bounded DEF Holders, List, TimeInit, ClientIdle, TimeBounds
<1>6. SpentInv /\ SingleInv /\ AcceptedInv
  BY <1>5 DEF SpentInv, SingleInv, AcceptedInv, TimeInit
<1>7. SlotOnce
  BY DEF SlotOnce, TimeInit
<1> QED
  BY <1>1, <1>3, <1>4, <1>6, <1>7 DEF TimeInv, OnceInv

-----------------------------------------------------------------------------
(* What a step does to the record of its handler.                          *)
OneHandler(a) ==
  /\ DOMAIN poll' = 1..Attempts /\ DOMAIN poll'[a] = PollFields
  /\ \A x \in 1..Attempts : x # a => poll'[x] = poll[x]

Clock == UNCHANGED <<now, edited, lastPoll, timely, crossed>>
Given == UNCHANGED <<accepted, doubled>>

LEMMA SelectEffect ==
  ASSUME TimeShape, NEW a \in 1..Attempts, SelectDue(a)
  PROVE  /\ OneHandler(a) /\ Given /\ UNCHANGED <<now, dated, client, edited, lastPoll, timely>>
         /\ poll[a].pc = "select" /\ poll'[a].pc = "advance" /\ poll'[a].at = now
         /\ poll'[a].todo = {[job |-> j, slot |-> dated[j].next] :
                               j \in {k \in Timed : dated[k].active /\ dated[k].next \in now..(now + LookAhead)}}
         /\ poll'[a].slot = poll[a].slot /\ poll'[a].out = poll[a].out /\ poll'[a].i = poll[a].i
         /\ poll'[a].id = poll[a].id /\ taskJob' = taskJob
         /\ crossed' = (crossed \/ \E b \in 1..Attempts : b # a /\ Advancing(b))
  BY DEF SelectDue, TimeShape, PollShape, OneHandler, PollFields, Given

LEMMA AdvanceEffect ==
  ASSUME TimeShape, NEW a \in 1..Attempts, AdvanceRow(a)
  PROVE  \E t \in poll[a].todo :
           /\ OneHandler(a) /\ Clock /\ Given /\ UNCHANGED client
           /\ poll[a].pc = "advance" /\ poll'[a].todo = poll[a].todo \ {t}
           /\ poll'[a].at = poll[a].at /\ poll'[a].i = poll[a].i
           /\ poll'[a].id = poll[a].id /\ taskJob' = taskJob
           /\ \/ /\ dated' = [dated EXCEPT ![t.job].completed = TRUE]
                 /\ poll'[a].pc = "status" /\ poll'[a].job = t.job /\ poll'[a].slot = t.slot
                 /\ poll'[a].out = poll[a].out
              \/ /\ dated' = [dated EXCEPT ![t.job].next = t.slot + Interval[t.job]]
                 /\ poll'[a].pc = "advance" /\ poll'[a].slot = poll[a].slot
                 /\ poll'[a].out = Append(poll[a].out, Task(t.job, t.slot, 0))
<1>1. PICK t \in poll[a].todo :
        LET next == t.slot + Interval[t.job] IN
        /\ poll[a].pc = "advance"
        /\ IF next > Expiry[t.job]
             THEN /\ dated' = [dated EXCEPT ![t.job].completed = TRUE]
                  /\ poll' = [poll EXCEPT ![a].pc = "status", ![a].job = t.job,
                                          ![a].todo = @ \ {t}, ![a].slot = t.slot]
             ELSE /\ dated' = [dated EXCEPT ![t.job].next = next]
                  /\ poll' = [poll EXCEPT ![a].todo = @ \ {t},
                                          ![a].out = Append(@, Task(t.job, t.slot, 0))]
        /\ Clock /\ Given /\ UNCHANGED <<client, taskJob>>
  BY DEF AdvanceRow, Clock, Given
<1>2. DOMAIN poll = 1..Attempts /\ DOMAIN poll[a] = PollFields
  BY DEF TimeShape, PollShape
<1>3. CASE t.slot + Interval[t.job] > Expiry[t.job]
  <2>1. /\ dated' = [dated EXCEPT ![t.job].completed = TRUE]
        /\ poll' = [poll EXCEPT ![a].pc = "status", ![a].job = t.job, ![a].todo = @ \ {t}, ![a].slot = t.slot]
    BY <1>1, <1>3
  <2> QED
    BY <1>1, <1>2, <2>1 DEF OneHandler, PollFields
<1>4. CASE ~(t.slot + Interval[t.job] > Expiry[t.job])
  <2>1. /\ dated' = [dated EXCEPT ![t.job].next = t.slot + Interval[t.job]]
        /\ poll' = [poll EXCEPT ![a].todo = @ \ {t}, ![a].out = Append(@, Task(t.job, t.slot, 0))]
    BY <1>1, <1>4
  <2> QED
    BY <1>1, <1>2, <2>1 DEF OneHandler, PollFields
<1> QED
  BY <1>3, <1>4

LEMMA DeactivateEffect ==
  ASSUME TimeShape, NEW a \in 1..Attempts, DeactivateRow(a)
  PROVE  /\ OneHandler(a) /\ Clock /\ Given /\ UNCHANGED client
         /\ poll[a].pc = "inactive" /\ poll'[a].pc = "advance"
         /\ poll'[a].todo = poll[a].todo /\ poll'[a].at = poll[a].at /\ poll'[a].i = poll[a].i
         /\ poll'[a].slot = poll[a].slot /\ poll'[a].id = poll[a].id /\ taskJob' = taskJob
         /\ poll'[a].out = Append(poll[a].out, Task(poll[a].job, poll[a].slot, 0))
         /\ dated' = [dated EXCEPT ![poll[a].job].active = FALSE]
  BY DEF DeactivateRow, TimeShape, PollShape, OneHandler, PollFields, Given, Clock

LEMMA AddEffect ==
  ASSUME TimeShape, NEW a \in 1..Attempts, AddCustom(a)
  PROVE  /\ OneHandler(a) /\ Given /\ UNCHANGED <<now, dated, client, edited, crossed>>
         /\ poll[a].pc = "advance" /\ poll[a].todo = {} /\ poll'[a].pc = "tasks"
         /\ poll'[a].todo = {} /\ poll'[a].at = poll[a].at /\ poll'[a].i = 1
         /\ poll'[a].slot = poll[a].slot /\ poll'[a].id = poll[a].id /\ taskJob' = taskJob
         /\ \E s \in Seq([job : Custom, slot : Nat, id : Nat]) : poll'[a].out = poll[a].out \o s
         /\ lastPoll' = IF poll[a].at > lastPoll THEN poll[a].at ELSE lastPoll
         /\ timely' = (timely /\ poll[a].at - lastPoll <= Slack)
<1>1. PICK ripe : ripe \subseteq Custom /\
          (\/ poll' = [poll EXCEPT ![a].pc = "tasks", ![a].out = @ \o SetToSeq({Task(j, dated[j].next, 0) : j \in ripe}), ![a].i = 1]
           \/ poll' = [poll EXCEPT ![a].pc = "tasks", ![a].i = 1])
  BY DEF AddCustom
<1> DEFINE R == [job : Custom, slot : Nat, id : Nat]
           found == SetToSeq({Task(j, dated[j].next, 0) : j \in ripe})
<1>2. found \in Seq(R)
  BY <1>1, CustomTasks
<1>3. DOMAIN poll = 1..Attempts /\ DOMAIN poll[a] = PollFields /\ poll[a].out \in Seq(TaskRecord)
  BY DEF TimeShape, PollShape
<1>4. \/ poll' = [poll EXCEPT ![a].pc = "tasks", ![a].out = @ \o found, ![a].i = 1]
      \/ poll' = [poll EXCEPT ![a].pc = "tasks", ![a].i = 1]
  BY <1>1
<1> HIDE DEF found, R
<1>5. << >> \in Seq(R) /\ poll[a].out \o << >> = poll[a].out
  BY <1>3
<1>6. PICK s \in Seq(R) : poll' = [poll EXCEPT ![a].pc = "tasks", ![a].out = poll[a].out \o s, ![a].i = 1]
                         \/ (poll' = [poll EXCEPT ![a].pc = "tasks", ![a].i = 1] /\ poll[a].out \o s = poll[a].out)
  BY <1>2, <1>3, <1>4, <1>5
<1>7. OneHandler(a) /\ poll'[a].pc = "tasks" /\ poll'[a].todo = poll[a].todo /\ poll'[a].at = poll[a].at /\ poll'[a].i = 1
      /\ poll'[a].slot = poll[a].slot /\ poll'[a].out = poll[a].out \o s /\ poll'[a].id = poll[a].id
  <2>1. CASE poll' = [poll EXCEPT ![a].pc = "tasks", ![a].out = poll[a].out \o s, ![a].i = 1]
    BY <1>3, <2>1 DEF OneHandler, PollFields
  <2>2. CASE poll' = [poll EXCEPT ![a].pc = "tasks", ![a].i = 1] /\ poll[a].out \o s = poll[a].out
    BY <1>3, <2>2 DEF OneHandler, PollFields
  <2> QED
    BY <1>6, <2>1, <2>2
<1> QED
  BY <1>7 DEF AddCustom, R, Given

LEMMA InsertedTyped ==
  ASSUME taskJob \in Seq(Dated \cup {Other}), NEW id, NEW j \in Dated \cup {Other}
  PROVE  Inserted(id, j) \in Seq(Dated \cup {Other})
<1> DEFINE S == Dated \cup {Other}
<1>1. taskJob \in Seq(S) /\ j \in S /\ DOMAIN taskJob = 1..Len(taskJob)
  OBVIOUS
<1> HIDE DEF S
<1>2. CASE id \in DOMAIN taskJob
  <2>1. [taskJob EXCEPT ![id] = j] \in Seq(S)
    BY <1>1, <1>2, ExceptSeq
  <2> QED
    BY <2>1, <1>2 DEF Inserted, S
<1>3. CASE id \notin DOMAIN taskJob
  <2>1. Append(taskJob, j) \in Seq(S)
    BY <1>1
  <2> QED
    BY <2>1, <1>3 DEF Inserted, S
<1> QED
  BY <1>2, <1>3

(* The steps of a handler that change nothing but what the tasks are.      *)
LEMMA TaskEffect ==
  ASSUME TimeShape, NEW a \in 1..Attempts,
         CompleteJob(a) \/ ReadMaxTaskID(a) \/ InsertTask(a) \/ LinkTask(a)
  PROVE  /\ OneHandler(a) /\ Clock /\ Given /\ UNCHANGED <<dated, client>>
         /\ \/ poll[a].pc = "status" /\ poll'[a].pc = "inactive" /\ poll'[a].i = poll[a].i
            \/ poll[a].pc = "tasks" /\ poll'[a].pc = "insert" /\ poll'[a].i = poll[a].i
               /\ poll[a].i <= Len(poll[a].out)
            \/ poll[a].pc = "insert" /\ poll'[a].pc = "link" /\ poll'[a].i = poll[a].i
            \/ poll[a].pc = "link" /\ poll'[a].pc = "tasks" /\ poll'[a].i = poll[a].i + 1
         /\ poll'[a].at = poll[a].at /\ poll'[a].todo = poll[a].todo /\ poll'[a].job = poll[a].job
         /\ poll'[a].slot = poll[a].slot /\ poll'[a].id \in Nat /\ taskJob' \in Seq(Dated \cup {Other})
         /\ poll'[a].out \in Seq(TaskRecord) /\ Len(poll'[a].out) = Len(poll[a].out)
         /\ \A m \in 1..Len(poll[a].out) : Same(poll'[a].out[m], poll[a].out[m])
<1>1. DOMAIN poll = 1..Attempts /\ DOMAIN poll[a] = PollFields /\ poll[a].out \in Seq(TaskRecord)
      /\ poll[a].id \in Nat /\ taskJob \in Seq(Dated \cup {Other}) /\ Len(taskJob) + 1 \in Nat
  BY DEF TimeShape, PollShape
<1>2. CASE CompleteJob(a)
  BY <1>1, <1>2 DEF CompleteJob, PollGoto, OneHandler, PollFields, Clock, Given, Same
<1>3. CASE ReadMaxTaskID(a)
  BY <1>1, <1>3 DEF ReadMaxTaskID, OneHandler, PollFields, Clock, Given, Same
<1>4. CASE InsertTask(a)
  <2>1. poll[a].pc = "insert" /\ poll[a].i \in 1..Len(poll[a].out)
    BY <1>1, <1>4 DEF InsertTask, TimeShape, PollShape
  <2>2. PICK j \in Dated \cup {Other} : taskJob' = Inserted(poll[a].id, j)
    <3>1. poll[a].out[poll[a].i] \in TaskRecord
      BY <1>1, <2>1
    <3> QED
      BY <1>4, <3>1 DEF InsertTask, TaskRecord
  <2>3. taskJob' \in Seq(Dated \cup {Other})
    BY <1>1, <2>2, InsertedTyped
  <2> QED
    BY <1>1, <1>4, <2>3 DEF InsertTask, PollGoto, OneHandler, PollFields, Clock, Given, Same
<1>5. CASE LinkTask(a)
  <2> DEFINE k == poll[a].i
             id == poll[a].id
  <2>1. poll[a].pc = "link" /\ k \in 1..Len(poll[a].out) /\ id \in Nat
    BY <1>1, <1>5 DEF LinkTask, TimeShape, PollShape
  <2>2. poll[a].out[k] \in TaskRecord
    BY <1>1, <2>1
  <2>3. /\ OneHandler(a) /\ Clock /\ Given /\ UNCHANGED <<dated, client>>
        /\ poll'[a].pc = "tasks" /\ poll'[a].i = k + 1
        /\ poll'[a].at = poll[a].at /\ poll'[a].todo = poll[a].todo /\ poll'[a].job = poll[a].job
        /\ poll'[a].slot = poll[a].slot /\ poll'[a].id = id /\ taskJob' = taskJob
        /\ poll'[a].out = [poll[a].out EXCEPT ![k].id = id]
    BY <1>1, <1>5 DEF LinkTask, OneHandler, PollFields, Clock, Given
  <2>4. PICK r : r = [poll[a].out[k] EXCEPT !.id = id]
    OBVIOUS
  <2>5. r \in TaskRecord /\ Same(r, poll[a].out[k])
    BY <2>1, <2>2, <2>4 DEF TaskRecord, Same
  <2>6. poll'[a].out = [poll[a].out EXCEPT ![k] = r]
    BY <2>3, <2>4
  <2>7. poll'[a].out \in Seq(TaskRecord) /\ Len(poll'[a].out) = Len(poll[a].out)
        /\ \A m \in 1..Len(poll[a].out) : poll'[a].out[m] = IF m = k THEN r ELSE poll[a].out[m]
    BY <1>1, <2>1, <2>5, <2>6, ExceptSeq
  <2> QED
    <3>1. \A m \in 1..Len(poll[a].out) : Same(poll'[a].out[m], poll[a].out[m])
      BY <2>5, <2>7 DEF Same
    <3>2. poll'[a].id \in Nat /\ taskJob' \in Seq(Dated \cup {Other})
      BY <1>1, <2>1, <2>3
    <3> QED
      BY <2>1, <2>3, <2>7, <3>1, <3>2
<1> QED
  BY <1>2, <1>3, <1>4, <1>5

(* A handler ends: with its answer, or before it has made the tasks.       *)
LEMMA EndEffect ==
  ASSUME TimeShape, NEW a \in 1..Attempts, EndPoll(a)
  PROVE  /\ OneHandler(a) /\ poll'[a].pc = "answered" /\ poll'[a].out = << >> /\ poll'[a].at = 0
         /\ poll'[a].todo = {} /\ poll'[a].slot = 0 /\ poll'[a].i = 0 /\ poll'[a].id = 0
  BY DEF TimeShape, EndPoll, OneHandler, NoPoll, PollFields

LEMMA ClientMade == DOMAIN ClientIdle = ClientFields /\ ClientIdle.pc = "idle" /\ ClientIdle.found = << >>
                    /\ ClientIdle.batch = << >>
  BY DEF ClientIdle, ClientFields

LEMMA WiderSeq == ASSUME NEW A, NEW B, A \subseteq B, NEW s \in Seq(A)  PROVE s \in Seq(B)
  OBVIOUS

(* The types of a record of a handler.                                     *)
LEMMA HandlerShape ==
  ASSUME TimeShape, NEW a \in 1..Attempts, OneHandler(a),
         poll'[a].at \in Nat, poll'[a].todo \subseteq Selected, poll'[a].slot \in Nat, poll'[a].i \in Nat,
         poll'[a].id \in Nat, poll'[a].out \in Seq(TaskRecord),
         poll'[a].pc \in {"status", "inactive"} => poll'[a].job \in Timed,
         poll'[a].pc \in {"tasks", "insert", "link"} => poll'[a].i # 0,
         poll'[a].pc \in {"insert", "link"} => poll'[a].i <= Len(poll'[a].out)
  PROVE  DOMAIN poll' = 1..Attempts /\ \A x \in 1..Attempts : PollShape(x)'
  BY DEF TimeShape, PollShape, OneHandler

LEMMA RowsShaped ==
  ASSUME TimeShape, NEW j \in Dated,
         \/ dated' = [dated EXCEPT ![j].completed = TRUE]
         \/ dated' = [dated EXCEPT ![j].active = FALSE]
         \/ \E n \in Nat : dated' = [dated EXCEPT ![j].next = n]
  PROVE  DOMAIN dated' = Dated /\ \A k \in Dated : RowShape(k)'
  BY DEF TimeShape, RowShape

LEMMA HandlerStepShape ==
  ASSUME TimeShape, NEW a \in 1..Attempts,
         \/ SelectDue(a) \/ AdvanceRow(a) \/ CompleteJob(a) \/ DeactivateRow(a)
         \/ AddCustom(a) \/ ReadMaxTaskID(a) \/ InsertTask(a) \/ LinkTask(a)
  PROVE  TimeShape'
<1> USE Bounded
<1>0. PollShape(a)
  BY DEF TimeShape
<1>1. CASE SelectDue(a)
  <2>1. poll'[a].todo \subseteq Selected
    BY <1>1, SelectEffect DEF TimeShape, RowShape, Selected, TimeBounds
  <2>2. \A x \in 1..Attempts : PollShape(x)'
    <3>1. /\ OneHandler(a) /\ poll'[a].pc = "advance" /\ poll'[a].at = now
          /\ poll'[a].slot = poll[a].slot /\ poll'[a].out = poll[a].out /\ poll'[a].i = poll[a].i
          /\ poll'[a].id = poll[a].id /\ now \in Nat
      BY <1>1, SelectEffect DEF TimeShape
    <3> QED
      BY <1>0, <2>1, <3>1, HandlerShape DEF PollShape
  <2>3. OneHandler(a) /\ UNCHANGED <<now, dated, client, lastPoll, accepted, taskJob>>
    BY <1>1, SelectEffect DEF Given
  <2> QED
    BY <2>2, <2>3 DEF TimeShape, OneHandler, RowShape
<1>2. CASE AdvanceRow(a)
  <2>1. PICK t \in poll[a].todo :
           /\ OneHandler(a) /\ Clock /\ Given /\ UNCHANGED client
           /\ poll[a].pc = "advance" /\ poll'[a].todo = poll[a].todo \ {t}
           /\ poll'[a].at = poll[a].at /\ poll'[a].i = poll[a].i
           /\ poll'[a].id = poll[a].id /\ taskJob' = taskJob
           /\ \/ /\ dated' = [dated EXCEPT ![t.job].completed = TRUE]
                 /\ poll'[a].pc = "status" /\ poll'[a].job = t.job /\ poll'[a].slot = t.slot
                 /\ poll'[a].out = poll[a].out
              \/ /\ dated' = [dated EXCEPT ![t.job].next = t.slot + Interval[t.job]]
                 /\ poll'[a].pc = "advance" /\ poll'[a].slot = poll[a].slot
                 /\ poll'[a].out = Append(poll[a].out, Task(t.job, t.slot, 0))
    BY <1>2, AdvanceEffect
  <2>2. t \in Selected /\ t.job \in Timed /\ t.job \in Dated /\ t.slot \in Nat
    BY <1>0, <2>1 DEF PollShape, Selected, TimeBounds
  <2>3. t.slot + Interval[t.job] \in Nat /\ Task(t.job, t.slot, 0) \in TaskRecord
    BY <2>2 DEF TimeBounds, Task, TaskRecord
  <2>4. DOMAIN dated' = Dated /\ \A k \in Dated : RowShape(k)'
    BY <2>1, <2>2, <2>3, RowsShaped
  <2>5. poll'[a].todo \subseteq Selected /\ poll'[a].out \in Seq(TaskRecord) /\ poll'[a].slot \in Nat
    <3>1. Append(poll[a].out, Task(t.job, t.slot, 0)) \in Seq(TaskRecord)
      BY <1>0, <2>3, AppendProperties DEF PollShape
    <3> QED
      BY <1>0, <2>1, <2>2, <3>1 DEF PollShape
  <2>6. \A x \in 1..Attempts : PollShape(x)'
    BY <1>0, <2>1, <2>2, <2>5, HandlerShape DEF PollShape
  <2> QED
    BY <2>1, <2>4, <2>6 DEF TimeShape, Clock, Given, OneHandler
<1>3. CASE CompleteJob(a) \/ ReadMaxTaskID(a) \/ InsertTask(a) \/ LinkTask(a)
  <2>1. /\ OneHandler(a) /\ UNCHANGED <<now, dated, client, lastPoll, accepted>>
        /\ \/ poll[a].pc = "status" /\ poll'[a].pc = "inactive" /\ poll'[a].i = poll[a].i
           \/ poll[a].pc = "tasks" /\ poll'[a].pc = "insert" /\ poll'[a].i = poll[a].i
              /\ poll[a].i <= Len(poll[a].out)
           \/ poll[a].pc = "insert" /\ poll'[a].pc = "link" /\ poll'[a].i = poll[a].i
           \/ poll[a].pc = "link" /\ poll'[a].pc = "tasks" /\ poll'[a].i = poll[a].i + 1
        /\ poll'[a].at = poll[a].at /\ poll'[a].todo = poll[a].todo /\ poll'[a].job = poll[a].job
        /\ poll'[a].slot = poll[a].slot /\ poll'[a].id \in Nat /\ taskJob' \in Seq(Dated \cup {Other})
        /\ poll'[a].out \in Seq(TaskRecord) /\ Len(poll'[a].out) = Len(poll[a].out)
    BY <1>3, TaskEffect DEF Clock, Given
  <2>2. poll'[a].i \in Nat
    BY <1>0, <2>1 DEF PollShape
  <2>3. poll'[a].pc \in {"status", "inactive"} => poll'[a].job \in Timed
    BY <1>0, <2>1 DEF PollShape
  <2>4. poll'[a].pc \in {"tasks", "insert", "link"} => poll'[a].i # 0
    BY <1>0, <2>1 DEF PollShape
  <2>5. poll'[a].pc \in {"insert", "link"} => poll'[a].i <= Len(poll'[a].out)
    BY <1>0, <2>1 DEF PollShape
  <2>6. \A x \in 1..Attempts : PollShape(x)'
    <3>1. poll'[a].at \in Nat /\ poll'[a].todo \subseteq Selected /\ poll'[a].slot \in Nat
      BY <1>0, <2>1 DEF PollShape
    <3> QED
      BY <2>1, <2>2, <2>3, <2>4, <2>5, <3>1, HandlerShape
  <2> QED
    BY <2>1, <2>6 DEF TimeShape, OneHandler, RowShape
<1>4. CASE DeactivateRow(a)
  <2>1. poll[a].job \in Timed /\ poll[a].job \in Dated
    BY <1>0, <1>4, DeactivateEffect DEF PollShape, TimeBounds
  <2>2. Task(poll[a].job, poll[a].slot, 0) \in TaskRecord
    BY <1>0, <2>1 DEF Task, TaskRecord, PollShape
  <2>3. poll'[a].out \in Seq(TaskRecord)
    <3>1. Append(poll[a].out, Task(poll[a].job, poll[a].slot, 0)) \in Seq(TaskRecord)
      BY <1>0, <2>2, AppendProperties DEF PollShape
    <3> QED
      BY <1>4, <3>1, DeactivateEffect
  <2>4. \A x \in 1..Attempts : PollShape(x)'
    BY <1>0, <1>4, <2>3, DeactivateEffect, HandlerShape DEF PollShape
  <2>5. DOMAIN dated' = Dated /\ \A k \in Dated : RowShape(k)'
    BY <1>4, <2>1, DeactivateEffect, RowsShaped
  <2> QED
    BY <1>4, <2>4, <2>5, DeactivateEffect DEF TimeShape, Clock, Given, OneHandler
<1>5. CASE AddCustom(a)
  <2>1. PICK s \in Seq([job : Custom, slot : Nat, id : Nat]) : poll'[a].out = poll[a].out \o s
    BY <1>5, AddEffect
  <2>2. [job : Custom, slot : Nat, id : Nat] \subseteq TaskRecord
    BY DEF TaskRecord, TimeBounds
  <2>3. s \in Seq(TaskRecord)
    BY <2>1, <2>2, WiderSeq
  <2>4. poll'[a].out \in Seq(TaskRecord)
    BY <1>0, <2>1, <2>3, ConcatProperties DEF PollShape
  <2>5. \A x \in 1..Attempts : PollShape(x)'
    <3>1. /\ OneHandler(a) /\ poll'[a].pc = "tasks" /\ poll'[a].todo = {} /\ poll'[a].at = poll[a].at /\ poll'[a].i = 1
          /\ poll'[a].slot = poll[a].slot /\ poll'[a].id = poll[a].id
      BY <1>5, AddEffect
    <3> QED
      BY <1>0, <2>4, <3>1, HandlerShape DEF PollShape
  <2>6. lastPoll' \in Nat
    BY <1>0, <1>5, AddEffect DEF TimeShape, PollShape
  <2> QED
    <3>1. OneHandler(a) /\ UNCHANGED <<now, dated, client, accepted, taskJob>>
      BY <1>5, AddEffect DEF Given
    <3> QED
      BY <2>5, <2>6, <3>1 DEF TimeShape, OneHandler, RowShape
<1> QED
  BY <1>1, <1>2, <1>3, <1>4, <1>5

(* What the other steps do.                                                *)
ClientHolds == DOMAIN client' = ClientFields /\ client'.found = client.found /\ client'.batch = client.batch
ClientRests == DOMAIN client' = ClientFields /\ client'.found = << >> /\ client'.batch = << >> /\ client'.pc = "idle"

LEMMA AnswerEffect ==
  ASSUME TimeShape, NEW a \in 1..Attempts, AnswerPoll(a)
  PROVE  /\ EndPoll(a) /\ Clock /\ Given /\ UNCHANGED <<dated, taskJob>>
         /\ \/ UNCHANGED client
            \/ ClientHolds /\ client'.pc = "retry"
            \/ ClientRests
            \/ /\ DOMAIN client' = ClientFields /\ client'.pc = "filter" /\ client'.batch = client.batch
               /\ client'.found = poll[a].out /\ poll[a].out # << >>
<1>1. EndPoll(a) /\ Clock /\ Given /\ UNCHANGED <<dated, taskJob>>
  BY DEF AnswerPoll, Clock, Given
<1>2. \/ UNCHANGED client
      \/ client' = [client EXCEPT !.pc = "retry"]
      \/ client' = ClientIdle
      \/ poll[a].out # << >> /\ client' = [client EXCEPT !.pc = "filter", !.found = poll[a].out]
  BY DEF AnswerPoll
<1>3. DOMAIN client = ClientFields
  BY DEF TimeShape
<1>4. CASE client' = [client EXCEPT !.pc = "retry"]
  BY <1>1, <1>3, <1>4 DEF ClientHolds, ClientFields
<1>5. CASE client' = ClientIdle
  BY <1>1, <1>5, ClientMade DEF ClientRests
<1>6. CASE poll[a].out # << >> /\ client' = [client EXCEPT !.pc = "filter", !.found = poll[a].out]
  BY <1>1, <1>3, <1>6 DEF ClientFields
<1> QED
  BY <1>1, <1>2, <1>4, <1>5, <1>6

LEMMA FailEffect ==
  ASSUME TimeShape, NEW a \in 1..Attempts, PollFails(a)
  PROVE  /\ Clock /\ Given /\ UNCHANGED <<dated, taskJob>>
         /\ \/ EndPoll(a) /\ (UNCHANGED client \/ (ClientHolds /\ client'.pc = "retry"))
            \/ /\ OneHandler(a) /\ UNCHANGED client
               /\ poll[a].pc \in {"insert", "link"} /\ poll'[a].pc = "tasks" /\ poll'[a].i = poll[a].i + 1
               /\ poll'[a].at = poll[a].at /\ poll'[a].todo = poll[a].todo /\ poll'[a].job = poll[a].job
               /\ poll'[a].slot = poll[a].slot /\ poll'[a].id = poll[a].id /\ poll'[a].out = poll[a].out
<1>1. Clock /\ Given /\ UNCHANGED <<dated, taskJob>>
  BY DEF PollFails, Clock, Given
<1>2. \/ EndPoll(a) /\ (UNCHANGED client \/ client' = [client EXCEPT !.pc = "retry"])
      \/ /\ poll[a].pc \in {"insert", "link"} /\ UNCHANGED client
         /\ poll' = [poll EXCEPT ![a].pc = "tasks", ![a].i = @ + 1, ![a].failed = TRUE]
  BY DEF PollFails
<1>3. DOMAIN client = ClientFields /\ DOMAIN poll = 1..Attempts /\ DOMAIN poll[a] = PollFields
  BY DEF TimeShape, PollShape
<1>4. CASE client' = [client EXCEPT !.pc = "retry"] /\ EndPoll(a)
  BY <1>1, <1>3, <1>4 DEF ClientHolds, ClientFields
<1>5. CASE /\ poll[a].pc \in {"insert", "link"} /\ UNCHANGED client
           /\ poll' = [poll EXCEPT ![a].pc = "tasks", ![a].i = @ + 1, ![a].failed = TRUE]
  BY <1>1, <1>3, <1>5 DEF OneHandler, PollFields
<1>6. CASE EndPoll(a) /\ UNCHANGED client
  BY <1>1, <1>6
<1> QED
  BY <1>2, <1>4, <1>5, <1>6

LEMMA SendEffect ==
  ASSUME TimeShape, SendPoll
  PROVE  /\ Clock /\ Given /\ UNCHANGED <<dated, taskJob>> /\ ClientHolds /\ client'.pc = "waiting"
         /\ \E a \in 1..Attempts :
              /\ OneHandler(a) /\ poll[a].pc = "idle" /\ poll'[a].pc = "select"
              /\ poll'[a].at = poll[a].at /\ poll'[a].todo = poll[a].todo /\ poll'[a].i = poll[a].i
              /\ poll'[a].slot = poll[a].slot /\ poll'[a].id = poll[a].id /\ poll'[a].out = poll[a].out
<1>1. PICK a \in 1..Attempts :
        /\ poll[a].pc = "idle" /\ client' = [client EXCEPT !.pc = "waiting", !.attempt = a]
        /\ poll' = [poll EXCEPT ![a].pc = "select"] /\ Clock /\ Given /\ UNCHANGED <<dated, taskJob>>
  BY DEF SendPoll, Fresh, PollGoto, Clock, Given
<1>2. DOMAIN client = ClientFields /\ DOMAIN poll = 1..Attempts /\ DOMAIN poll[a] = PollFields
  BY DEF TimeShape, PollShape
<1>3. ClientHolds /\ client'.pc = "waiting"
  BY <1>1, <1>2 DEF ClientHolds, ClientFields
<1> QED
  BY <1>1, <1>2, <1>3 DEF OneHandler, PollFields

(* The scheduler's own steps.                                              *)
LEMMA ClientEffect ==
  ASSUME TimeShape, PollTimesOut \/ GiveUpPoll \/ FilterTask \/ SubmitBatch \/ SubmitFails
  PROVE  /\ Clock /\ UNCHANGED <<dated, taskJob, poll>>
         /\ \/ Given /\ (ClientHolds \/ ClientRests) /\ client'.pc # "filter"
            \/ /\ Given /\ client.pc = "filter" /\ DOMAIN client' = ClientFields
               /\ client'.found = Tail(client.found)
               /\ client'.batch = client.batch \/ client'.batch = Append(client.batch, Head(client.found))
               /\ client'.pc = "filter" => client'.found # << >>
            \/ /\ accepted' = accepted \o client.batch /\ doubled \subseteq doubled' /\ client'.pc # "filter"
               /\ \/ ClientRests
                  \/ /\ ClientHolds
                     /\ \A m \in DOMAIN client.batch : client.batch[m] \in doubled'
<1>1. DOMAIN client = ClientFields /\ client.batch \in Seq(TaskRecord)
  BY DEF TimeShape
<1>2. CASE PollTimesOut
  BY <1>1, <1>2 DEF PollTimesOut, Clock, Given, ClientHolds, ClientFields
<1>3. CASE GiveUpPoll
  BY <1>3, ClientMade DEF GiveUpPoll, Clock, Given, ClientRests
<1>4. CASE FilterTask
  <2> DEFINE t == Head(client.found)
             kept == IF Expiry[t.job] < now THEN client.batch ELSE Append(client.batch, t)
  <2>1. /\ client.pc = "filter" /\ Clock /\ Given /\ UNCHANGED <<dated, taskJob, poll>>
        /\ client' = IF Tail(client.found) # << >> THEN [client EXCEPT !.found = Tail(client.found), !.batch = kept]
                     ELSE IF kept = << >> THEN ClientIdle
                     ELSE [client EXCEPT !.pc = "submit", !.found = Tail(client.found), !.batch = kept]
    BY <1>4 DEF FilterTask, Clock, Given
  <2>2. kept = client.batch \/ kept = Append(client.batch, t)
    OBVIOUS
  <2> HIDE DEF kept
  <2>3. CASE Tail(client.found) # << >>
    BY <1>1, <2>1, <2>2, <2>3 DEF ClientFields
  <2>4. CASE Tail(client.found) = << >> /\ kept = << >>
    BY <2>1, <2>4, ClientMade DEF ClientRests
  <2>5. CASE Tail(client.found) = << >> /\ kept # << >>
    BY <1>1, <2>1, <2>2, <2>5 DEF ClientFields
  <2> QED
    BY <2>3, <2>4, <2>5
<1>5. CASE SubmitBatch
  BY <1>5, ClientMade DEF SubmitBatch, Submitted, Clock, ClientRests
<1>6. CASE SubmitFails
  <2>1. /\ client.pc = "submit" /\ Clock /\ UNCHANGED <<dated, taskJob, poll>>
        /\ \/ accepted' = accepted \o client.batch /\ doubled' = doubled \cup ToSet(client.batch)
           \/ Given
        /\ client' = ClientIdle \/ client' = [client EXCEPT !.tries = @ + 1]
    BY <1>6 DEF SubmitFails, Submitted, Clock, Given
  <2>2. ClientRests \/ (ClientHolds /\ client'.pc = "submit")
    BY <1>1, <2>1, ClientMade DEF ClientRests, ClientHolds, ClientFields
  <2>3. \A m \in DOMAIN client.batch : client.batch[m] \in ToSet(client.batch)
    BY DEF ToSet
  <2>4. CASE accepted' = accepted \o client.batch /\ doubled' = doubled \cup ToSet(client.batch)
    BY <2>1, <2>2, <2>3, <2>4 DEF ClientRests
  <2>5. CASE Given
    BY <2>1, <2>2, <2>5 DEF ClientRests
  <2> QED
    BY <2>1, <2>4, <2>5
<1> QED
  BY <1>2, <1>3, <1>4, <1>5, <1>6

LEMMA RestShape ==
  ASSUME TimeShape,
         \/ \E a \in 1..Attempts : AnswerPoll(a) \/ PollFails(a)
         \/ SendPoll \/ PollTimesOut \/ GiveUpPoll \/ FilterTask \/ SubmitBatch \/ SubmitFails
         \/ Tick \/ (\E j \in Dated : DeleteTimeJob(j) \/ EditTimeJob(j) \/ CheckTimeJob(j))
         \/ OtherReadsMax \/ OtherInserts \/ OtherLinks
  PROVE  TimeShape'
<1> USE Bounded
<1>1. ASSUME NEW a \in 1..Attempts, AnswerPoll(a) \/ PollFails(a)  PROVE TimeShape'
  <2>0. PollShape(a)
    BY DEF TimeShape
  <2>1. Clock /\ Given /\ UNCHANGED <<dated, taskJob>>
    BY <1>1, AnswerEffect, FailEffect
  <2>2. DOMAIN poll' = 1..Attempts /\ \A x \in 1..Attempts : PollShape(x)'
    <3>1. CASE EndPoll(a)
      <4>1. << >> \in Seq(TaskRecord) /\ 0 \in Nat
        OBVIOUS
      <4> QED
        BY <3>1, <4>1, EndEffect, HandlerShape
    <3>2. CASE ~EndPoll(a)
      <4>1. /\ OneHandler(a)
            /\ poll[a].pc \in {"insert", "link"} /\ poll'[a].pc = "tasks" /\ poll'[a].i = poll[a].i + 1
            /\ poll'[a].at = poll[a].at /\ poll'[a].todo = poll[a].todo /\ poll'[a].job = poll[a].job
            /\ poll'[a].slot = poll[a].slot /\ poll'[a].id = poll[a].id /\ poll'[a].out = poll[a].out
        BY <1>1, <3>2, AnswerEffect, FailEffect
      <4>2. poll'[a].i \in Nat /\ poll'[a].i # 0
        BY <2>0, <4>1 DEF PollShape
      <4> QED
        BY <2>0, <4>1, <4>2, HandlerShape DEF PollShape
    <3> QED
      BY <3>1, <3>2
  <2>3. /\ DOMAIN client' = ClientFields /\ client'.found \in Seq(TaskRecord) /\ client'.batch \in Seq(TaskRecord)
        /\ client'.pc = "filter" => client'.found # << >>
    <3>1. \/ UNCHANGED client
          \/ ClientHolds /\ client'.pc = "retry"
          \/ ClientRests
          \/ /\ DOMAIN client' = ClientFields /\ client'.pc = "filter" /\ client'.batch = client.batch
             /\ client'.found = poll[a].out /\ poll[a].out # << >>
      BY <1>1, AnswerEffect, FailEffect
    <3>2. << >> \in Seq(TaskRecord)
      OBVIOUS
    <3> QED
      BY <2>0, <3>1, <3>2 DEF TimeShape, PollShape, ClientHolds, ClientRests
  <2> QED
    BY <2>1, <2>2, <2>3 DEF TimeShape, Clock, Given, RowShape
<1>2. CASE SendPoll
  <2>1. PICK a \in 1..Attempts :
              /\ OneHandler(a) /\ poll[a].pc = "idle" /\ poll'[a].pc = "select"
              /\ poll'[a].at = poll[a].at /\ poll'[a].todo = poll[a].todo /\ poll'[a].i = poll[a].i
              /\ poll'[a].slot = poll[a].slot /\ poll'[a].id = poll[a].id /\ poll'[a].out = poll[a].out
    BY <1>2, SendEffect
  <2>2. DOMAIN poll' = 1..Attempts /\ \A x \in 1..Attempts : PollShape(x)'
    BY <2>1, HandlerShape DEF TimeShape, PollShape
  <2>3. Clock /\ Given /\ UNCHANGED <<dated, taskJob>> /\ ClientHolds /\ client'.pc = "waiting"
    BY <1>2, SendEffect
  <2> QED
    BY <2>2, <2>3 DEF TimeShape, Clock, Given, ClientHolds, RowShape
<1>3. CASE PollTimesOut \/ GiveUpPoll \/ FilterTask \/ SubmitBatch \/ SubmitFails
  <2>1. Clock /\ UNCHANGED <<dated, taskJob, poll>>
    BY <1>3, ClientEffect
  <2>2. << >> \in Seq(TaskRecord) /\ client.found \in Seq(TaskRecord) /\ client.batch \in Seq(TaskRecord)
        /\ accepted \in Seq(TaskRecord)
    BY DEF TimeShape
  <2>3. /\ DOMAIN client' = ClientFields /\ client'.found \in Seq(TaskRecord) /\ client'.batch \in Seq(TaskRecord)
        /\ client'.pc = "filter" => client'.found # << >>
        /\ accepted' \in Seq(TaskRecord)
    <3>1. CASE (Given /\ (ClientHolds \/ ClientRests) /\ client'.pc # "filter")
      BY <2>2, <3>1 DEF Given, ClientHolds, ClientRests
    <3>2. CASE /\ Given /\ client.pc = "filter" /\ DOMAIN client' = ClientFields
               /\ client'.found = Tail(client.found)
               /\ client'.batch = client.batch \/ client'.batch = Append(client.batch, Head(client.found))
               /\ client'.pc = "filter" => client'.found # << >>
      <4>1. client.found # << >>
        BY <3>2 DEF TimeShape
      <4>2. Tail(client.found) \in Seq(TaskRecord) /\ Head(client.found) \in TaskRecord
        BY <2>2, <4>1, HeadTailProperties
      <4>3. Append(client.batch, Head(client.found)) \in Seq(TaskRecord)
        BY <2>2, <4>2, AppendProperties
      <4> QED
        BY <2>2, <3>2, <4>2, <4>3 DEF Given
    <3>3. CASE accepted' = accepted \o client.batch /\ client'.pc # "filter" /\ (ClientRests \/ ClientHolds)
      <4>1. accepted \o client.batch \in Seq(TaskRecord)
        BY <2>2, ConcatProperties
      <4> QED
        BY <2>2, <3>3, <4>1 DEF ClientRests, ClientHolds
    <3> QED
      BY <1>3, <3>1, <3>2, <3>3, ClientEffect
  <2> QED
    BY <2>1, <2>3 DEF TimeShape, Clock, PollShape, RowShape
<1>4. CASE Tick
  <2>1. now' \in Nat /\ UNCHANGED <<dated, taskJob, poll, client, lastPoll, accepted>>
    BY <1>4 DEF Tick, TimeShape
  <2> QED
    BY <2>1 DEF TimeShape, PollShape, RowShape
<1>5. ASSUME NEW j \in Dated, DeleteTimeJob(j) \/ EditTimeJob(j) \/ CheckTimeJob(j)  PROVE TimeShape'
  <2>1. UNCHANGED <<now, taskJob, poll, client, lastPoll, accepted>>
    BY <1>5 DEF DeleteTimeJob, EditTimeJob, CheckTimeJob
  <2>2. now + Interval[j] \in Nat
    BY DEF TimeShape, TimeBounds
  <2>3. dated' = [dated EXCEPT ![j].active = FALSE] \/ dated' = [dated EXCEPT ![j].next = now + Interval[j]]
    BY <1>5 DEF DeleteTimeJob, EditTimeJob, CheckTimeJob
  <2>4. DOMAIN dated' = Dated /\ \A k \in Dated : RowShape(k)'
    BY <2>2, <2>3, RowsShaped
  <2> QED
    BY <2>1, <2>4 DEF TimeShape, PollShape
<1>6. CASE OtherReadsMax \/ OtherInserts \/ OtherLinks
  <2>1. UNCHANGED <<now, dated, poll, client, lastPoll, accepted>>
    BY <1>6 DEF OtherReadsMax, OtherInserts, OtherLinks
  <2>2. taskJob' \in Seq(Dated \cup {Other})
    BY <1>6, InsertedTyped DEF OtherReadsMax, OtherInserts, OtherLinks, TimeShape
  <2> QED
    BY <2>1, <2>2 DEF TimeShape, PollShape, RowShape
<1> QED
  BY <1>1, <1>2, <1>3, <1>4, <1>5, <1>6

-----------------------------------------------------------------------------
(* What a step does to the rows and to what the handlers know of them.     *)
StillSpent == ~crossed' => \A j \in Timed \ edited', u \in Nat : Spent(j, u) => Spent(j, u)'
Steady == Apart' /\ AheadInv' /\ StillSpent

LEMMA Calm ==
  ASSUME TimeInv, Clock, UNCHANGED dated,
         \A x \in 1..Attempts : Advancing(x)' =>
           Advancing(x) /\ poll'[x].at = poll[x].at /\ poll'[x].todo = poll[x].todo,
         \A x \in 1..Attempts : poll'[x].pc \in {"status", "inactive"} =>
           poll[x].pc \in {"status", "inactive"} /\ poll'[x].job = poll[x].job /\ poll'[x].slot = poll[x].slot
  PROVE  Steady
<1>1. Apart'
  BY DEF TimeInv, Apart, Clock, Completing
<1>2. AheadInv'
  BY DEF TimeInv, AheadInv, Clock, Waits, Selecting
<1>3. \A x \in 1..Attempts, j \in Timed : Handling(x, j)' => Handling(x, j)
  BY DEF Handling, Completing, Selecting
<1>4. StillSpent
  BY <1>3 DEF StillSpent, Spent, Clock
<1> QED
  BY <1>1, <1>2, <1>4 DEF Steady

LEMMA OthersSame ==
  ASSUME NEW a \in 1..Attempts, OneHandler(a), NEW x \in 1..Attempts, x # a
  PROVE  /\ poll'[x] = poll[x] /\ Advancing(x)' = Advancing(x)
         /\ \A j \in Timed : Completing(x, j)' = Completing(x, j) /\ Selecting(x, j)' = Selecting(x, j)
  BY DEF OneHandler, Advancing, Completing, Selecting

LEMMA Tasks ==
  ASSUME TimeInv, NEW a \in 1..Attempts,
         CompleteJob(a) \/ ReadMaxTaskID(a) \/ InsertTask(a) \/ LinkTask(a) \/ AnswerPoll(a) \/ PollFails(a)
  PROVE  Steady
<1>0. TimeShape
  BY DEF TimeInv
<1>1. Clock /\ UNCHANGED dated /\ OneHandler(a)
  BY <1>0, TaskEffect, AnswerEffect, FailEffect, EndEffect
<1>2. \/ poll'[a].pc = "answered"
      \/ poll'[a].pc \notin {"advance", "status", "inactive"}
      \/ /\ poll[a].pc = "status" /\ poll'[a].pc = "inactive" /\ poll'[a].job = poll[a].job
         /\ poll'[a].slot = poll[a].slot /\ poll'[a].at = poll[a].at /\ poll'[a].todo = poll[a].todo
  BY <1>0, TaskEffect, AnswerEffect, FailEffect, EndEffect
<1>3. \A x \in 1..Attempts : Advancing(x)' =>
           Advancing(x) /\ poll'[x].at = poll[x].at /\ poll'[x].todo = poll[x].todo
  BY <1>1, <1>2 DEF OneHandler, Advancing
<1>4. \A x \in 1..Attempts : poll'[x].pc \in {"status", "inactive"} =>
           poll[x].pc \in {"status", "inactive"} /\ poll'[x].job = poll[x].job /\ poll'[x].slot = poll[x].slot
  BY <1>1, <1>2 DEF OneHandler
<1> QED
  BY <1>1, <1>3, <1>4, Calm

LEMMA SchedulerSteps ==
  ASSUME TimeInv,
         \/ SendPoll \/ PollTimesOut \/ GiveUpPoll \/ FilterTask \/ SubmitBatch \/ SubmitFails
         \/ OtherReadsMax \/ OtherInserts \/ OtherLinks
  PROVE  Steady
<1>0. TimeShape
  BY DEF TimeInv
<1>1. Clock /\ UNCHANGED dated
  BY <1>0, SendEffect, ClientEffect DEF OtherReadsMax, OtherInserts, OtherLinks, Clock
<1>2. \/ UNCHANGED poll
      \/ \E a \in 1..Attempts : OneHandler(a) /\ poll'[a].pc = "select"
  BY <1>0, SendEffect, ClientEffect DEF OtherReadsMax, OtherInserts, OtherLinks
<1>3. \A x \in 1..Attempts : poll'[x] = poll[x] \/ poll'[x].pc = "select"
  BY <1>2 DEF OneHandler
<1>4. \A x \in 1..Attempts : Advancing(x)' =>
           Advancing(x) /\ poll'[x].at = poll[x].at /\ poll'[x].todo = poll[x].todo
  BY <1>3 DEF Advancing
<1> QED
  BY <1>1, <1>3, <1>4, Calm

(* A poll selects: what is late by then has to be in time still.           *)
LEMMA Selects == ASSUME TimeInv, NEW a \in 1..Attempts, SelectDue(a)  PROVE Steady
<1> USE Bounded
<1>0. TimeShape /\ PollShape(a) /\ now \in Nat /\ lastPoll \in Nat
  BY DEF TimeInv, TimeShape
<1> DEFINE Due(k) == dated[k].active /\ dated[k].next \in now..(now + LookAhead)
<1>1. /\ OneHandler(a) /\ Given /\ UNCHANGED <<now, dated, edited, lastPoll, timely>>
      /\ poll[a].pc = "select" /\ poll'[a].pc = "advance" /\ poll'[a].at = now
      /\ poll'[a].todo = {[job |-> j, slot |-> dated[j].next] : j \in {k \in Timed : Due(k)}}
      /\ crossed' = (crossed \/ \E b \in 1..Attempts : b # a /\ Advancing(b))
  BY <1>0, SelectEffect
<1>2. \A s \in poll'[a].todo : /\ s.job \in Timed /\ s.slot = dated[s.job].next /\ dated[s.job].active
                               /\ s.slot \in now..(now + LookAhead) /\ s = [job |-> s.job, slot |-> dated[s.job].next]
  BY <1>1
<1>3. \A j \in Timed : Due(j) => Selecting(a, j)'
  <2>1. ASSUME NEW j \in Timed, Due(j)  PROVE Selecting(a, j)'
    <3>1. [job |-> j, slot |-> dated[j].next] \in poll'[a].todo
      BY <1>1, <2>1
    <3>2. [job |-> j, slot |-> dated[j].next].job = j
      OBVIOUS
    <3> QED
      BY <3>1, <3>2 DEF Selecting
  <2> QED
    BY <2>1
<1>4. ~crossed' => ~crossed /\ \A b \in 1..Attempts : Advancing(b) => b = a
  BY <1>1
<1>5. \A j : ~Completing(a, j)'
  BY <1>1 DEF Completing
<1>6. Apart'
  <2>1. lastPoll' <= now'
    BY <1>1 DEF TimeInv, Apart
  <2>2. ASSUME NEW x \in 1..Attempts, Advancing(x)'
        PROVE  /\ poll'[x].at <= now'
               /\ \A s, t \in poll'[x].todo : s.job = t.job => s = t
               /\ \A s \in poll'[x].todo : poll'[x].at <= s.slot /\ ~Completing(x, s.job)'
    <3>1. CASE x = a
      BY <1>0, <1>1, <1>2, <1>5, <3>1
    <3>2. CASE x # a
      BY <1>1, <2>2, <3>2 DEF TimeInv, Apart, OneHandler, Advancing, Completing
    <3> QED
      BY <3>1, <3>2
  <2>3. \A x \in 1..Attempts : poll'[x].pc \in {"status", "inactive"} => dated'[poll'[x].job].completed
    BY <1>1 DEF TimeInv, Apart, OneHandler
  <2>4. ASSUME ~crossed', NEW x \in 1..Attempts, Advancing(x)'
        PROVE  /\ \A y \in 1..Attempts : Advancing(y)' => y = x
               /\ lastPoll' <= poll'[x].at
               /\ \A s \in poll'[x].todo : s.job \notin edited' => s.slot = dated'[s.job].next
               /\ \A j \in Timed \ edited' : Completing(x, j)' => poll'[x].slot = dated'[j].next
    <3>1. \A y \in 1..Attempts : Advancing(y)' => y = a
      BY <1>1, <1>4, <2>4 DEF OneHandler, Advancing
    <3> QED
      BY <1>1, <1>2, <1>5, <2>1, <2>4, <3>1
  <2> QED
    BY <2>1, <2>2, <2>3, <2>4 DEF Apart
<1>7. AheadInv'
  <2>1. SUFFICES ASSUME timely, ~crossed', NEW j \in Timed, Waits(j)
                 PROVE  /\ dated[j].next >= lastPoll + Slack
                        /\ \A x \in 1..Attempts : Advancing(x)' /\ poll'[x].at - lastPoll <= Slack =>
                             dated[j].next >= poll'[x].at + Slack \/ Selecting(x, j)'
    BY <1>1 DEF AheadInv, Waits
  <2>2. dated[j].next \in Nat /\ dated[j].next >= lastPoll + Slack /\ dated[j].active
    BY <1>4, <2>1 DEF TimeInv, AheadInv, TimeShape, RowShape, TimeBounds, Waits
  <2>3. ASSUME NEW x \in 1..Attempts, Advancing(x)', poll'[x].at - lastPoll <= Slack
        PROVE  dated[j].next >= poll'[x].at + Slack \/ Selecting(x, j)'
    <3>1. x = a
      BY <1>1, <1>4, <2>1, <2>3 DEF OneHandler, Advancing
    <3>2. now - lastPoll <= Slack
      BY <1>1, <2>3, <3>1
    <3>3. dated[j].next >= now
      BY <1>0, <2>2, <3>2 DEF TimeBounds
    <3>4. CASE dated[j].next <= now + LookAhead
      <4>1. Due(j)
        BY <1>0, <2>2, <3>3, <3>4 DEF TimeBounds
      <4> QED
        BY <1>3, <3>1, <4>1
    <3>5. CASE ~(dated[j].next <= now + LookAhead)
      BY <1>0, <1>1, <2>2, <3>1, <3>5 DEF TimeBounds
    <3> QED
      BY <3>4, <3>5
  <2> QED
    BY <2>2, <2>3
<1>8. StillSpent
  <2>1. SUFFICES ASSUME ~crossed', NEW j \in Timed, NEW u \in Nat, Spent(j, u)  PROVE Spent(j, u)'
    BY DEF StillSpent
  <2>2. CASE u < dated[j].next
    BY <1>1, <2>2 DEF Spent
  <2>3. CASE ~(u < dated[j].next)
    <3>1. u = dated[j].next /\ ~dated[j].active /\ \A x \in 1..Attempts : ~Handling(x, j)
      BY <2>1, <2>3 DEF Spent
    <3>2. \A x \in 1..Attempts : ~Handling(x, j)'
      <4>1. ~Selecting(a, j)'
        BY <1>2, <3>1 DEF Selecting
      <4> QED
        BY <1>1, <1>5, <3>1, <4>1, OthersSame DEF Handling
    <3> QED
      BY <1>1, <3>1, <3>2 DEF Spent
  <2> QED
    BY <2>2, <2>3
<1> QED
  BY <1>6, <1>7, <1>8 DEF Steady

(* One row is taken from the list.                                         *)
LEMMA Advances == ASSUME TimeInv, NEW a \in 1..Attempts, AdvanceRow(a)  PROVE Steady
<1> USE Bounded
<1>0. TimeShape /\ PollShape(a) /\ now \in Nat /\ lastPoll \in Nat
  BY DEF TimeInv, TimeShape
<1>1. PICK t \in poll[a].todo :
           /\ OneHandler(a) /\ Clock /\ Given /\ UNCHANGED client
           /\ poll[a].pc = "advance" /\ poll'[a].todo = poll[a].todo \ {t}
           /\ poll'[a].at = poll[a].at /\ poll'[a].i = poll[a].i
           /\ poll'[a].id = poll[a].id /\ taskJob' = taskJob
           /\ \/ /\ dated' = [dated EXCEPT ![t.job].completed = TRUE]
                 /\ poll'[a].pc = "status" /\ poll'[a].job = t.job /\ poll'[a].slot = t.slot
                 /\ poll'[a].out = poll[a].out
              \/ /\ dated' = [dated EXCEPT ![t.job].next = t.slot + Interval[t.job]]
                 /\ poll'[a].pc = "advance" /\ poll'[a].slot = poll[a].slot
                 /\ poll'[a].out = Append(poll[a].out, Task(t.job, t.slot, 0))
  BY <1>0, AdvanceEffect
<1>2. /\ t.job \in Timed /\ t.job \in Dated /\ t.slot \in Nat /\ Interval[t.job] \in Nat \ {0}
      /\ Slack <= Interval[t.job] /\ poll[a].at \in Nat
  BY <1>0, <1>1 DEF PollShape, Selected, TimeBounds
<1>3. Advancing(a) /\ Advancing(a)'
  BY <1>1 DEF Advancing
<1>4. /\ poll[a].at <= now /\ poll[a].at <= t.slot
      /\ \A r, s \in poll[a].todo : r.job = s.job => r = s
      /\ \A s \in poll[a].todo : poll[a].at <= s.slot
  BY <1>1, <1>3 DEF TimeInv, Apart
<1>5. DOMAIN dated = Dated /\ \A j \in Dated : RowShape(j)
  BY <1>0 DEF TimeShape
<1>6. /\ \A j \in Dated : dated'[j].active = dated[j].active /\ (dated[j].completed => dated'[j].completed)
      /\ \A j \in Dated : j # t.job => dated'[j] = dated[j]
  BY <1>1, <1>2, <1>5 DEF RowShape
<1>7. \/ /\ poll'[a].pc = "status" /\ poll'[a].job = t.job /\ poll'[a].slot = t.slot
         /\ dated'[t.job].completed /\ dated'[t.job].next = dated[t.job].next
      \/ poll'[a].pc = "advance" /\ dated'[t.job].next = t.slot + Interval[t.job]
  BY <1>1, <1>2, <1>5 DEF RowShape
<1>8. \A s \in poll'[a].todo : s \in poll[a].todo /\ s.job # t.job /\ s.job \in Timed /\ s.job \in Dated
  BY <1>0, <1>1, <1>4 DEF PollShape, Selected, TimeBounds
<1>9. ~crossed => /\ \A y \in 1..Attempts : Advancing(y) => y = a
                  /\ lastPoll <= poll[a].at
                  /\ \A s \in poll[a].todo : s.job \notin edited => s.slot = dated[s.job].next
  BY <1>3 DEF TimeInv, Apart
<1>10. Apart'
  <2>1. lastPoll' <= now'
    BY <1>1 DEF TimeInv, Apart, Clock
  <2>2. ASSUME NEW x \in 1..Attempts, Advancing(x)'
        PROVE  /\ poll'[x].at <= now'
               /\ \A r, s \in poll'[x].todo : r.job = s.job => r = s
               /\ \A s \in poll'[x].todo : poll'[x].at <= s.slot /\ ~Completing(x, s.job)'
    <3>1. CASE x = a
      <4>1. poll'[a].at <= now' /\ \A r, s \in poll'[a].todo : r.job = s.job => r = s
        BY <1>1, <1>4, <1>8 DEF Clock
      <4>2. ASSUME NEW s \in poll'[a].todo  PROVE poll'[a].at <= s.slot /\ ~Completing(a, s.job)'
        BY <1>1, <1>4, <1>7, <1>8 DEF Completing
      <4> QED
        BY <3>1, <4>1, <4>2
    <3>2. CASE x # a
      BY <1>1, <2>2, <3>2 DEF TimeInv, Apart, OneHandler, Advancing, Completing, Clock
    <3> QED
      BY <3>1, <3>2
  <2>3. ASSUME NEW x \in 1..Attempts, poll'[x].pc \in {"status", "inactive"}  PROVE dated'[poll'[x].job].completed
    <3>1. CASE x = a
      BY <1>1, <1>7, <2>3, <3>1
    <3>2. CASE x # a
      <4>1. poll[x].pc \in {"status", "inactive"} /\ poll'[x].job = poll[x].job
        BY <1>1, <2>3, <3>2 DEF OneHandler
      <4>2. dated[poll[x].job].completed /\ poll[x].job \in Dated
        BY <1>0, <4>1 DEF TimeInv, Apart, TimeShape, PollShape, TimeBounds
      <4> QED
        BY <1>6, <4>1, <4>2
    <3> QED
      BY <3>1, <3>2
  <2>4. ASSUME ~crossed', NEW x \in 1..Attempts, Advancing(x)'
        PROVE  /\ \A y \in 1..Attempts : Advancing(y)' => y = x
               /\ lastPoll' <= poll'[x].at
               /\ \A s \in poll'[x].todo : s.job \notin edited' => s.slot = dated'[s.job].next
               /\ \A j \in Timed \ edited' : Completing(x, j)' => poll'[x].slot = dated'[j].next
    <3>1. ~crossed
      BY <1>1, <2>4 DEF Clock
    <3>2. \A y \in 1..Attempts : Advancing(y)' => y = a
      BY <1>1, <1>9, <3>1 DEF OneHandler, Advancing
    <3>3. x = a
      BY <2>4, <3>2
    <3>4. lastPoll' <= poll'[a].at
      BY <1>1, <1>9, <3>1 DEF Clock
    <3>5. \A s \in poll'[a].todo : s.job \notin edited' => s.slot = dated'[s.job].next
      BY <1>1, <1>6, <1>8, <1>9, <3>1 DEF Clock
    <3>6. \A j \in Timed \ edited' : Completing(a, j)' => poll'[a].slot = dated'[j].next
      BY <1>1, <1>7, <1>9, <3>1 DEF Clock, Completing
    <3> QED
      BY <3>2, <3>3, <3>4, <3>5, <3>6
  <2> QED
    BY <2>1, <2>2, <2>3, <2>4 DEF Apart
<1>11. AheadInv'
  <2>1. SUFFICES ASSUME timely, ~crossed, NEW j \in Timed, Waits(j)'
                 PROVE  /\ dated'[j].next >= lastPoll + Slack
                        /\ \A x \in 1..Attempts : Advancing(x)' /\ poll'[x].at - lastPoll <= Slack =>
                             dated'[j].next >= poll'[x].at + Slack \/ Selecting(x, j)'
    BY <1>1 DEF AheadInv, Clock
  <2>2. j \in Dated /\ Waits(j)
    BY <1>1, <1>6, <2>1 DEF Waits, Clock, TimeBounds
  <2>3. /\ dated[j].next >= lastPoll + Slack
        /\ poll[a].at - lastPoll <= Slack => dated[j].next >= poll[a].at + Slack \/ Selecting(a, j)
    BY <1>3, <2>1, <2>2 DEF TimeInv, AheadInv
  <2>4. \A x \in 1..Attempts : Advancing(x)' => x = a
    BY <1>1, <1>9, <2>1 DEF OneHandler, Advancing
  <2>5. CASE j = t.job
    <3>1. dated'[j].next = t.slot + Interval[t.job]
      BY <1>7, <2>1, <2>5 DEF Waits
    <3>2. dated'[j].next >= poll[a].at + Slack
      BY <1>2, <1>4, <3>1 DEF TimeBounds
    <3>3. dated'[j].next >= lastPoll + Slack
      BY <1>0, <1>2, <1>4, <1>9, <2>1, <3>1 DEF TimeBounds
    <3> QED
      BY <1>1, <2>4, <3>2, <3>3
  <2>6. CASE j # t.job
    <3>1. Selecting(a, j) => Selecting(a, j)'
      BY <1>1, <2>6 DEF Selecting
    <3> QED
      BY <1>1, <1>6, <2>2, <2>3, <2>4, <2>6, <3>1
  <2> QED
    BY <2>5, <2>6
<1>12. StillSpent
  <2>1. SUFFICES ASSUME ~crossed, NEW j \in Timed \ edited, NEW u \in Nat, Spent(j, u)  PROVE Spent(j, u)'
    BY <1>1 DEF StillSpent, Clock
  <2>0. j \in Dated /\ dated[j].next \in Nat
    BY <1>5 DEF TimeBounds, RowShape
  <2>2. CASE u < dated[j].next
    <3>1. CASE j = t.job
      <4>1. t.slot = dated[j].next
        BY <1>9, <2>1, <3>1
      <4> QED
        BY <1>2, <1>7, <2>0, <2>2, <3>1, <4>1 DEF Spent
    <3>2. CASE j # t.job
      BY <1>6, <2>0, <2>2, <3>2 DEF Spent
    <3> QED
      BY <3>1, <3>2
  <2>3. CASE ~(u < dated[j].next)
    <3>1. u = dated[j].next /\ ~dated[j].active /\ \A x \in 1..Attempts : ~Handling(x, j)
      BY <2>1, <2>3 DEF Spent
    <3>2. j # t.job
      BY <1>1, <1>3, <3>1 DEF Handling, Selecting
    <3>3. ~Handling(a, j)'
      <4>1. ~Completing(a, j)'
        BY <1>7, <3>2 DEF Completing
      <4>2. ~Selecting(a, j)'
        BY <1>1, <1>3, <3>1 DEF Handling, Selecting
      <4> QED
        BY <4>1, <4>2 DEF Handling
    <3>4. \A x \in 1..Attempts : ~Handling(x, j)'
      BY <1>1, <3>1, <3>3, OthersSame DEF Handling
    <3> QED
      BY <1>6, <2>0, <3>1, <3>2, <3>4 DEF Spent
  <2> QED
    BY <2>2, <2>3
<1> QED
  BY <1>10, <1>11, <1>12 DEF Steady

LEMMA Deactivates == ASSUME TimeInv, NEW a \in 1..Attempts, DeactivateRow(a)  PROVE Steady
<1> USE Bounded
<1>0. TimeShape /\ PollShape(a)
  BY DEF TimeInv, TimeShape
<1> DEFINE k == poll[a].job
<1>1. /\ OneHandler(a) /\ Clock /\ poll[a].pc = "inactive" /\ poll'[a].pc = "advance"
      /\ poll'[a].todo = poll[a].todo /\ poll'[a].at = poll[a].at
      /\ dated' = [dated EXCEPT ![k].active = FALSE]
  BY <1>0, DeactivateEffect
<1>2. k \in Timed /\ k \in Dated
  BY <1>0, <1>1 DEF PollShape, TimeBounds
<1>3. DOMAIN dated = Dated /\ \A j \in Dated : RowShape(j)
  BY <1>0 DEF TimeShape
<1>4. /\ \A j \in Dated : dated'[j].next = dated[j].next /\ (dated[j].completed => dated'[j].completed)
      /\ \A j \in Dated : dated'[j].active => dated[j].active
  BY <1>1, <1>2, <1>3 DEF RowShape
<1>5. Advancing(a) /\ Advancing(a)' /\ \A j : ~Completing(a, j)'
  BY <1>1 DEF Advancing, Completing
<1>6. \A x \in 1..Attempts : /\ Advancing(x)' = Advancing(x) /\ poll'[x].at = poll[x].at /\ poll'[x].todo = poll[x].todo
                             /\ \A j : Completing(x, j)' => Completing(x, j)
                             /\ x # a => poll'[x] = poll[x]
  BY <1>1, <1>5 DEF OneHandler, Advancing, Completing
<1>7. \A x \in 1..Attempts : \A s \in poll[x].todo : s.job \in Dated
  BY <1>0 DEF TimeShape, PollShape, Selected, TimeBounds
<1>8. Apart'
  <2>1. lastPoll' <= now' /\ \A x \in 1..Attempts : Advancing(x)' =>
           /\ poll'[x].at <= now'
           /\ \A r, s \in poll'[x].todo : r.job = s.job => r = s
           /\ \A s \in poll'[x].todo : poll'[x].at <= s.slot /\ ~Completing(x, s.job)'
    BY <1>1, <1>6 DEF TimeInv, Apart, Clock
  <2>2. ASSUME NEW x \in 1..Attempts, poll'[x].pc \in {"status", "inactive"}  PROVE dated'[poll'[x].job].completed
    <3>1. x # a /\ poll'[x] = poll[x]
      BY <1>1, <1>6, <2>2
    <3>2. dated[poll[x].job].completed /\ poll[x].job \in Dated
      BY <1>0, <2>2, <3>1 DEF TimeInv, Apart, TimeShape, PollShape, TimeBounds
    <3> QED
      BY <1>4, <3>1, <3>2
  <2>3. ASSUME ~crossed', NEW x \in 1..Attempts, Advancing(x)'
        PROVE  /\ \A y \in 1..Attempts : Advancing(y)' => y = x
               /\ lastPoll' <= poll'[x].at
               /\ \A s \in poll'[x].todo : s.job \notin edited' => s.slot = dated'[s.job].next
               /\ \A j \in Timed \ edited' : Completing(x, j)' => poll'[x].slot = dated'[j].next
    <3>1. ~crossed /\ Advancing(x)
      BY <1>1, <1>6, <2>3 DEF Clock
    <3>2. \A y \in 1..Attempts : Advancing(y)' => y = x
      BY <1>6, <3>1 DEF TimeInv, Apart
    <3>3. lastPoll' <= poll'[x].at
      BY <1>1, <1>6, <3>1 DEF TimeInv, Apart, Clock
    <3>4. \A s \in poll'[x].todo : s.job \notin edited' => s.slot = dated'[s.job].next
      BY <1>1, <1>4, <1>6, <1>7, <3>1 DEF TimeInv, Apart, Clock
    <3>5. x = a
      BY <1>5, <3>1 DEF TimeInv, Apart
    <3> QED
      BY <1>5, <3>2, <3>3, <3>4, <3>5
  <2> QED
    BY <2>1, <2>2, <2>3 DEF Apart
<1>9. AheadInv'
  <2>1. SUFFICES ASSUME timely, ~crossed, NEW j \in Timed, Waits(j)'
                 PROVE  /\ dated'[j].next >= lastPoll + Slack
                        /\ \A x \in 1..Attempts : Advancing(x)' /\ poll'[x].at - lastPoll <= Slack =>
                             dated'[j].next >= poll'[x].at + Slack \/ Selecting(x, j)'
    BY <1>1 DEF AheadInv, Clock
  <2>2. j \in Dated /\ Waits(j)
    BY <1>1, <1>4, <2>1 DEF Waits, Clock, TimeBounds
  <2>3. \A x \in 1..Attempts : Selecting(x, j)' = Selecting(x, j)
    BY <1>6 DEF Selecting
  <2> QED
    BY <1>4, <1>6, <2>1, <2>2, <2>3 DEF TimeInv, AheadInv
<1>10. StillSpent
  <2>1. SUFFICES ASSUME NEW j \in Timed, NEW u \in Nat, Spent(j, u)  PROVE Spent(j, u)'
    BY DEF StillSpent
  <2>2. \A x \in 1..Attempts : Handling(x, j)' => Handling(x, j)
    BY <1>6 DEF Handling, Selecting
  <2>3. j \in Dated
    BY DEF TimeBounds
  <2> QED
    BY <1>4, <2>1, <2>2, <2>3 DEF Spent
<1> QED
  BY <1>8, <1>9, <1>10 DEF Steady

(* A handler that has advanced all rows: the next poll has Slack from when *)
(* it selected them.                                                       *)
LEMMA Adds == ASSUME TimeInv, NEW a \in 1..Attempts, AddCustom(a)  PROVE Steady
<1> USE Bounded
<1>0. TimeShape /\ PollShape(a) /\ now \in Nat /\ lastPoll \in Nat
  BY DEF TimeInv, TimeShape
<1>1. /\ OneHandler(a) /\ UNCHANGED <<now, dated, edited, crossed>>
      /\ poll[a].pc = "advance" /\ poll[a].todo = {} /\ poll'[a].pc = "tasks"
      /\ lastPoll' = IF poll[a].at > lastPoll THEN poll[a].at ELSE lastPoll
      /\ timely' = (timely /\ poll[a].at - lastPoll <= Slack)
  BY <1>0, AddEffect
<1>2. Advancing(a) /\ ~Advancing(a)' /\ poll[a].at \in Nat
  BY <1>0, <1>1 DEF Advancing, PollShape
<1>3. \A x \in 1..Attempts : Advancing(x)' => /\ Advancing(x) /\ poll'[x] = poll[x] /\ x # a
                                             /\ \A j : Completing(x, j)' = Completing(x, j)
  BY <1>1, <1>2 DEF OneHandler, Advancing, Completing
<1>4. ~crossed => /\ \A y \in 1..Attempts : Advancing(y) => y = a
                  /\ lastPoll <= poll[a].at
  BY <1>2 DEF TimeInv, Apart
<1>5. ~crossed => lastPoll' = poll[a].at /\ \A x \in 1..Attempts : ~Advancing(x)'
  <2>1. ~crossed => lastPoll' = poll[a].at
    BY <1>0, <1>1, <1>2, <1>4
  <2> QED
    BY <1>3, <1>4, <2>1
<1>6. Apart'
  <2>1. lastPoll' <= now'
    BY <1>0, <1>1, <1>2 DEF TimeInv, Apart
  <2>2. \A x \in 1..Attempts : Advancing(x)' =>
           /\ poll'[x].at <= now'
           /\ \A r, s \in poll'[x].todo : r.job = s.job => r = s
           /\ \A s \in poll'[x].todo : poll'[x].at <= s.slot /\ ~Completing(x, s.job)'
    BY <1>1, <1>3 DEF TimeInv, Apart
  <2>3. \A x \in 1..Attempts : poll'[x].pc \in {"status", "inactive"} => dated'[poll'[x].job].completed
    BY <1>1 DEF TimeInv, Apart, OneHandler
  <2>4. ~crossed' => \A x \in 1..Attempts : ~Advancing(x)'
    BY <1>1, <1>5
  <2> QED
    BY <2>1, <2>2, <2>3, <2>4 DEF Apart
<1>7. AheadInv'
  <2>1. SUFFICES ASSUME timely, poll[a].at - lastPoll <= Slack, ~crossed, NEW j \in Timed, Waits(j)
                 PROVE  dated[j].next >= lastPoll' + Slack
    BY <1>1, <1>5 DEF AheadInv, Waits
  <2>2. dated[j].next >= poll[a].at + Slack \/ Selecting(a, j)
    BY <1>2, <2>1 DEF TimeInv, AheadInv
  <2>3. ~Selecting(a, j)
    BY <1>1 DEF Selecting
  <2> QED
    BY <1>5, <2>1, <2>2, <2>3
<1>8. StillSpent
  <2>1. SUFFICES ASSUME NEW j \in Timed, NEW u \in Nat, Spent(j, u)  PROVE Spent(j, u)'
    BY DEF StillSpent
  <2>2. \A x \in 1..Attempts : Handling(x, j)' => Handling(x, j)
    BY <1>3 DEF Handling, Selecting
  <2> QED
    BY <1>1, <2>1, <2>2 DEF Spent
<1> QED
  BY <1>6, <1>7, <1>8 DEF Steady

(* Time, and the other writers of the rows.                                *)
LEMMA Ticks == ASSUME TimeInv, Tick  PROVE Steady
<1>1. now' = now + 1 /\ UNCHANGED <<dated, poll, edited, lastPoll, timely, crossed>> /\ now \in Nat /\ lastPoll \in Nat
  BY DEF Tick, TimeInv, TimeShape
<1>2. \A x \in 1..Attempts : poll[x].at \in Nat
  BY DEF TimeInv, TimeShape, PollShape
<1>3. \A x \in 1..Attempts : Advancing(x)' = Advancing(x) /\ \A j : Completing(x, j)' = Completing(x, j) /\ Selecting(x, j)' = Selecting(x, j)
  BY <1>1 DEF Advancing, Completing, Selecting
<1>4. lastPoll' <= now' /\ \A x \in 1..Attempts : Advancing(x) => poll'[x].at <= now'
  BY <1>1, <1>2 DEF TimeInv, Apart
<1>5. Apart'
  BY <1>1, <1>3, <1>4 DEF TimeInv, Apart
<1>6. AheadInv'
  BY <1>1, <1>3 DEF TimeInv, AheadInv, Waits
<1>7. StillSpent
  BY <1>1, <1>3 DEF StillSpent, Spent, Handling
<1> QED
  BY <1>5, <1>6, <1>7 DEF Steady

LEMMA Writers ==
  ASSUME TimeInv, NEW j \in Dated, DeleteTimeJob(j) \/ EditTimeJob(j) \/ CheckTimeJob(j)
  PROVE  Steady
<1> USE Bounded
<1>0. TimeShape
  BY DEF TimeInv
<1>1. UNCHANGED <<now, poll, lastPoll, timely, crossed>> /\ edited \subseteq edited'
  BY DEF DeleteTimeJob, EditTimeJob, CheckTimeJob
<1>2. DOMAIN dated = Dated /\ \A k \in Dated : RowShape(k)
  BY <1>0 DEF TimeShape
<1>3. /\ \A k \in Dated : dated'[k].completed = dated[k].completed /\ (dated'[k].active => dated[k].active)
      /\ \A k \in Dated : k \notin edited' => dated'[k].next = dated[k].next
  <2>1. CASE dated' = [dated EXCEPT ![j].active = FALSE]
    BY <1>2, <2>1 DEF RowShape
  <2>2. CASE j \in edited' /\ dated' = [dated EXCEPT ![j].next = now + Interval[j]]
    BY <1>2, <2>2 DEF RowShape
  <2> QED
    BY <2>1, <2>2 DEF DeleteTimeJob, EditTimeJob, CheckTimeJob
<1>4. \A x \in 1..Attempts : Advancing(x)' = Advancing(x) /\ \A k : Completing(x, k)' = Completing(x, k) /\ Selecting(x, k)' = Selecting(x, k)
  BY <1>1 DEF Advancing, Completing, Selecting
<1>5. /\ \A x \in 1..Attempts : \A s \in poll[x].todo : s.job \in Dated
      /\ \A x \in 1..Attempts : poll[x].pc \in {"status", "inactive"} => poll[x].job \in Dated
      /\ \A k \in Timed : k \in Dated
  BY <1>0 DEF TimeShape, PollShape, Selected, TimeBounds
<1>6. Apart'
  <2>1. /\ lastPoll' <= now'
        /\ \A x \in 1..Attempts : Advancing(x)' =>
             /\ poll'[x].at <= now'
             /\ \A r, s \in poll'[x].todo : r.job = s.job => r = s
             /\ \A s \in poll'[x].todo : poll'[x].at <= s.slot /\ ~Completing(x, s.job)'
    BY <1>1, <1>4 DEF TimeInv, Apart
  <2>2. \A x \in 1..Attempts : poll'[x].pc \in {"status", "inactive"} => dated'[poll'[x].job].completed
    BY <1>1, <1>3, <1>5 DEF TimeInv, Apart
  <2>3. ASSUME ~crossed', NEW x \in 1..Attempts, Advancing(x)'
        PROVE  /\ \A y \in 1..Attempts : Advancing(y)' => y = x
               /\ lastPoll' <= poll'[x].at
               /\ \A s \in poll'[x].todo : s.job \notin edited' => s.slot = dated'[s.job].next
               /\ \A k \in Timed \ edited' : Completing(x, k)' => poll'[x].slot = dated'[k].next
    BY <1>1, <1>3, <1>4, <1>5, <2>3 DEF TimeInv, Apart
  <2> QED
    BY <2>1, <2>2, <2>3 DEF Apart
<1>7. AheadInv'
  <2>1. \A k \in Timed : Waits(k)' => Waits(k) /\ dated'[k].next = dated[k].next
    BY <1>1, <1>3, <1>5 DEF Waits
  <2> QED
    BY <1>1, <1>4, <2>1 DEF TimeInv, AheadInv
<1>8. StillSpent
  BY <1>1, <1>3, <1>4, <1>5 DEF StillSpent, Spent, Handling
<1> QED
  BY <1>6, <1>7, <1>8 DEF Steady

LEMMA StepSteady == ASSUME TimeInv, TimeNext  PROVE Steady /\ TimeShape'
<1>1. TimeShape'
  BY HandlerStepShape, RestShape DEF TimeNext, TimeInv
<1>2. ASSUME NEW a \in 1..Attempts,
             \/ SelectDue(a) \/ AdvanceRow(a) \/ CompleteJob(a) \/ DeactivateRow(a)
             \/ AddCustom(a) \/ ReadMaxTaskID(a) \/ InsertTask(a) \/ LinkTask(a)
             \/ AnswerPoll(a) \/ PollFails(a)
      PROVE Steady
  BY <1>2, Selects, Advances, Tasks, Deactivates, Adds
<1>3. CASE \/ SendPoll \/ PollTimesOut \/ GiveUpPoll \/ FilterTask \/ SubmitBatch \/ SubmitFails
           \/ OtherReadsMax \/ OtherInserts \/ OtherLinks
  BY <1>1, <1>3, SchedulerSteps
<1>4. CASE Tick \/ \E j \in Dated : DeleteTimeJob(j) \/ EditTimeJob(j) \/ CheckTimeJob(j)
  BY <1>1, <1>4, Ticks, Writers
<1> QED
  BY <1>1, <1>2, <1>3, <1>4 DEF TimeNext

-----------------------------------------------------------------------------
(* The tasks on their way from a handler to the dispatcher.                *)
LEMMA RecordSeq ==
  ASSUME NEW s \in Seq(TaskRecord), NEW m \in DOMAIN s
  PROVE  s[m].job \in Dated /\ s[m].slot \in Nat
<1>1. s[m] \in TaskRecord
  OBVIOUS
<1> QED
  BY <1>1 DEF TaskRecord

LEMMA ListTyped ==
  ASSUME TimeShape, NEW h \in Holders
  PROVE  List(h) \in Seq(TaskRecord)
<1>1. h = -1 \/ h = 0 \/ h \in 1..Attempts
  BY Bounded DEF Holders, TimeBounds
<1> QED
  BY <1>1 DEF List, TimeShape, PollShape

Forward == edited \subseteq edited' /\ (~crossed' => ~crossed)

LEMMA StepForward == ASSUME TimeInv, TimeNext  PROVE Forward
<1>0. TimeShape
  BY DEF TimeInv
<1>1. ASSUME NEW a \in 1..Attempts,
             \/ SelectDue(a) \/ AdvanceRow(a) \/ CompleteJob(a) \/ DeactivateRow(a)
             \/ AddCustom(a) \/ ReadMaxTaskID(a) \/ InsertTask(a) \/ LinkTask(a)
             \/ AnswerPoll(a) \/ PollFails(a)
      PROVE Forward
  BY <1>0, <1>1, SelectEffect, AdvanceEffect, TaskEffect, DeactivateEffect, AddEffect, AnswerEffect, FailEffect
     DEF Forward, Clock
<1>2. CASE \/ SendPoll \/ PollTimesOut \/ GiveUpPoll \/ FilterTask \/ SubmitBatch \/ SubmitFails
  BY <1>0, <1>2, SendEffect, ClientEffect DEF Forward, Clock
<1>3. CASE OtherReadsMax \/ OtherInserts \/ OtherLinks \/ Tick
  BY <1>3 DEF OtherReadsMax, OtherInserts, OtherLinks, Tick, Forward
<1>4. CASE \E j \in Dated : DeleteTimeJob(j) \/ EditTimeJob(j) \/ CheckTimeJob(j)
  BY <1>4 DEF DeleteTimeJob, EditTimeJob, CheckTimeJob, Forward
<1> QED
  BY <1>1, <1>2, <1>3, <1>4 DEF TimeNext

(* Every task of a time job on its way was on its way before.              *)
Moved ==
  \A h \in Holders : \A m \in DOMAIN List(h)' : List(h)'[m].job \in Timed =>
    \E g \in Holders : \E n \in DOMAIN List(g) :
      Same(List(h)'[m], List(g)[n]) /\ (g = -1 => h = -1)

LEMMA TasksMoved ==
  ASSUME TimeInv, StillSpent, Forward, Moved
  PROVE  SpentInv'
<1>1. SUFFICES ASSUME ~crossed', NEW h \in Holders, NEW m \in DOMAIN List(h)', Watched(List(h)[m].job)'
               PROVE  Spent(List(h)[m].job, List(h)[m].slot)'
  BY DEF SpentInv
<1>2. ~crossed /\ edited \subseteq edited' /\ SpentInv /\ TimeShape
  BY <1>1 DEF Forward, TimeInv, OnceInv
<1>3. PICK g \in Holders : \E n \in DOMAIN List(g) : Same(List(h)'[m], List(g)[n])
  BY <1>1 DEF Moved, Watched
<1>4. PICK n \in DOMAIN List(g) : Same(List(h)'[m], List(g)[n])
  BY <1>3
<1>5. PICK j, u : j = List(g)[n].job /\ u = List(g)[n].slot
  OBVIOUS
<1>6. u \in Nat
  BY <1>2, <1>5, ListTyped, RecordSeq
<1>7. j = List(h)'[m].job /\ u = List(h)'[m].slot
  BY <1>4, <1>5 DEF Same
<1>8. j \in Timed \ edited' /\ Watched(j)
  BY <1>1, <1>2, <1>7 DEF Watched
<1>9. Spent(j, u)
  BY <1>2, <1>5, <1>8 DEF SpentInv
<1>10. Spent(j, u)'
  BY <1>1, <1>6, <1>8, <1>9 DEF StillSpent
<1> QED
  BY <1>7, <1>10 DEF Spent

(* What was accepted stays apart from what is on its way.                  *)
LEMMA AcceptedStays ==
  ASSUME TimeInv, StillSpent, Forward, Moved, Given
  PROVE  AcceptedInv' /\ SlotOnce'
<1> SUFFICES ASSUME ~crossed'  PROVE AcceptedInv' /\ SlotOnce'
  BY DEF AcceptedInv, SlotOnce
<1>1. ~crossed /\ edited \subseteq edited' /\ AcceptedInv /\ SlotOnce /\ TimeShape
  BY DEF Forward, TimeInv, OnceInv
<1>3. AcceptedInv'
  <2>1. SUFFICES ASSUME NEW k \in DOMAIN accepted, accepted[k].job \in Timed \ edited'
                 PROVE  /\ Spent(accepted[k].job, accepted[k].slot)'
                        /\ \A h \in Holders : \A m \in DOMAIN List(h)' :
                             Same(accepted[k], List(h)'[m]) => h = -1 /\ accepted[k] \in doubled
    BY DEF AcceptedInv, Given, Watched, Same, Spent
  <2>2. PICK j, u : j = accepted[k].job /\ u = accepted[k].slot
    OBVIOUS
  <2>3. j \in Timed \ edited' /\ Watched(j) /\ u \in Nat
    BY <1>1, <2>1, <2>2, RecordSeq DEF Watched, TimeShape
  <2>4. Spent(j, u)
    BY <1>1, <2>2, <2>3 DEF AcceptedInv
  <2>5. ASSUME NEW h \in Holders, NEW m \in DOMAIN List(h)', Same(accepted[k], List(h)'[m])
        PROVE  h = -1 /\ accepted[k] \in doubled
    <3>1. PICK g \in Holders : \E n \in DOMAIN List(g) : Same(List(h)'[m], List(g)[n]) /\ (g = -1 => h = -1)
      BY <2>1, <2>5 DEF Moved, Same
    <3>2. PICK n \in DOMAIN List(g) : Same(List(h)'[m], List(g)[n]) /\ (g = -1 => h = -1)
      BY <3>1
    <3>3. Same(accepted[k], List(g)[n])
      BY <2>5, <3>2 DEF Same
    <3> QED
      BY <1>1, <2>2, <2>3, <3>2, <3>3 DEF AcceptedInv
  <2>6. Spent(j, u)'
    BY <2>3, <2>4 DEF StillSpent
  <2>7. j = accepted'[k].job /\ u = accepted'[k].slot
    BY <2>2 DEF Given
  <2> QED
    BY <2>5, <2>6, <2>7 DEF Spent
<1>4. SlotOnce'
  BY <1>1 DEF SlotOnce, Given
<1> QED
  BY <1>3, <1>4

(* No list gets another task of a time job.                                *)
Shrunk ==
  \A h \in Holders : \A m \in DOMAIN List(h)' : List(h)'[m].job \in Timed =>
    m \in DOMAIN List(h) /\ Same(List(h)'[m], List(h)[m])

LEMMA ShrunkApart ==
  ASSUME TimeInv, Forward, Shrunk
  PROVE  SingleInv' /\ Moved
<1>1. Moved
  BY DEF Moved, Shrunk
<1>2. SingleInv'
  <2>1. SUFFICES ASSUME ~crossed', NEW g \in Holders, NEW h \in Holders, NEW m \in DOMAIN List(g)',
                        NEW n \in DOMAIN List(h)', Watched(List(g)[m].job)', Same(List(g)'[m], List(h)'[n])
                 PROVE  g = h /\ m = n
    BY DEF SingleInv, Same
  <2>2. m \in DOMAIN List(g) /\ n \in DOMAIN List(h) /\ Same(List(g)[m], List(h)[n]) /\ Watched(List(g)[m].job)
    BY <2>1 DEF Shrunk, Same, Watched, Forward
  <2> QED
    BY <2>1, <2>2 DEF TimeInv, OnceInv, SingleInv, Forward
<1> QED
  BY <1>1, <1>2

LEMMA ListsShrunk ==
  ASSUME TimeInv, StillSpent, Given, Forward, Shrunk
  PROVE  OnceInv'
  BY ShrunkApart, TasksMoved, AcceptedStays DEF OnceInv

(* The lists of the others, of a handler's step.                           *)
LEMMA HandlerLists ==
  ASSUME NEW a \in 1..Attempts, OneHandler(a), UNCHANGED client
  PROVE  /\ a \in Holders /\ List(a) = poll[a].out /\ List(a)' = poll'[a].out
         /\ \A h \in Holders : h # a => List(h)' = List(h)
<1>1. a # -1 /\ a # 0 /\ a \in Holders
  BY Bounded DEF Holders, TimeBounds
<1>2. \A h \in Holders : h # -1 /\ h # 0 => h \in 1..Attempts
  BY Bounded DEF Holders, TimeBounds
<1> QED
  BY <1>1, <1>2 DEF List, OneHandler

(* One task is added to the list of a handler.                             *)
LEMMA TaskAdded ==
  ASSUME TimeInv, TimeShape', StillSpent, Given, Forward, NEW a \in 1..Attempts, OneHandler(a), UNCHANGED client,
         NEW j \in Timed, NEW u \in Nat, poll'[a].out = Append(poll[a].out, Task(j, u, 0)),
         ~crossed' /\ j \notin edited' => ~Spent(j, u) /\ Spent(j, u)'
  PROVE  OnceInv'
<1> DEFINE e == Task(j, u, 0)
           L == Len(poll[a].out)
<1>0. TimeShape /\ SpentInv /\ SingleInv /\ AcceptedInv /\ SlotOnce
  BY DEF TimeInv, OnceInv
<1>1. /\ a \in Holders /\ List(a) = poll[a].out /\ List(a)' = poll'[a].out
      /\ \A h \in Holders : h # a => List(h)' = List(h)
  BY HandlerLists
<1>2. e.job = j /\ e.slot = u
  BY DEF Task
<1>3. poll[a].out \in Seq(TaskRecord)
  BY <1>0 DEF TimeShape, PollShape
<1>4. /\ DOMAIN poll[a].out = 1..L /\ L \in Nat /\ DOMAIN List(a)' = 1..(L + 1)
      /\ List(a)'[L + 1] = e /\ \A m \in 1..L : List(a)'[m] = List(a)[m]
  <2>1. e \in TaskRecord
    BY Bounded DEF Task, TaskRecord, TimeBounds
  <2> HIDE DEF e
  <2> QED
    BY <1>1, <1>3, <2>1, AppendProperties DEF e
<1> HIDE DEF e, L
<1>5. \A h \in Holders : \A m \in DOMAIN List(h)' :
        \/ m \in DOMAIN List(h) /\ List(h)'[m] = List(h)[m]
        \/ h = a /\ m = L + 1 /\ List(h)'[m] = e
  <2>1. SUFFICES ASSUME NEW h \in Holders, NEW m \in DOMAIN List(h)'
                 PROVE  \/ m \in DOMAIN List(h) /\ List(h)'[m] = List(h)[m]
                        \/ h = a /\ m = L + 1 /\ List(h)'[m] = e
    OBVIOUS
  <2>2. CASE h # a
    BY <1>1, <2>1, <2>2
  <2>3. CASE h = a
    <3>1. m \in 1..L \/ m = L + 1
      BY <1>4, <2>3
    <3> QED
      BY <1>1, <1>4, <2>3, <3>1
  <2> QED
    BY <2>2, <2>3
<1>6. ASSUME ~crossed', j \notin edited'
      PROVE  /\ \A h \in Holders : \A m \in DOMAIN List(h) : ~Same(List(h)[m], e) /\ ~Same(e, List(h)[m])
             /\ \A k \in DOMAIN accepted : ~Same(accepted[k], e)
  <2>1. ~crossed /\ Watched(j) /\ ~Spent(j, u)
    BY <1>6 DEF Forward, Watched
  <2>2. ASSUME NEW h \in Holders, NEW m \in DOMAIN List(h), List(h)[m].job = j /\ List(h)[m].slot = u  PROVE FALSE
    BY <1>0, <2>1, <2>2 DEF SpentInv
  <2>3. ASSUME NEW k \in DOMAIN accepted, accepted[k].job = j /\ accepted[k].slot = u  PROVE FALSE
    BY <1>0, <2>1, <2>3 DEF AcceptedInv
  <2> QED
    BY <1>2, <2>2, <2>3 DEF Same
<1>7. SpentInv'
  <2>1. SUFFICES ASSUME ~crossed', NEW h \in Holders, NEW m \in DOMAIN List(h)', Watched(List(h)[m].job)'
                 PROVE  Spent(List(h)[m].job, List(h)[m].slot)'
    BY DEF SpentInv
  <2>2. PICK k, v : k = List(h)'[m].job /\ v = List(h)'[m].slot
    OBVIOUS
  <2>3. k \in Timed \ edited'
    BY <2>1, <2>2 DEF Watched
  <2>4. CASE List(h)'[m] = e
    BY <1>2, <2>1, <2>2, <2>3, <2>4 DEF Spent
  <2>5. CASE m \in DOMAIN List(h) /\ List(h)'[m] = List(h)[m]
    <3>1. Spent(k, v) /\ v \in Nat
      BY <1>0, <2>1, <2>2, <2>3, <2>5, ListTyped, RecordSeq DEF SpentInv, Watched, Forward
    <3>2. Spent(k, v)'
      BY <2>1, <2>3, <3>1 DEF StillSpent
    <3> QED
      BY <2>2, <3>2 DEF Spent
  <2> QED
    BY <1>5, <2>4, <2>5
<1>8. SingleInv'
  <2>1. SUFFICES ASSUME ~crossed', NEW g \in Holders, NEW h \in Holders, NEW m \in DOMAIN List(g)',
                        NEW n \in DOMAIN List(h)', Watched(List(g)[m].job)', Same(List(g)'[m], List(h)'[n])
                 PROVE  g = h /\ m = n
    BY DEF SingleInv, Same
  <2>2. List(g)'[m].job \notin edited' /\ List(g)'[m].job \in Timed \ edited /\ ~crossed
    BY <2>1 DEF Watched, Forward
  <2>3. CASE List(g)'[m] = e \/ List(h)'[n] = e
    <3>1. List(g)'[m].job = j /\ List(h)'[n].job = j
      BY <1>2, <2>1, <2>3 DEF Same
    <3> QED
      BY <1>5, <1>6, <2>1, <2>2, <2>3, <3>1
  <2>4. CASE /\ m \in DOMAIN List(g) /\ List(g)'[m] = List(g)[m]
             /\ n \in DOMAIN List(h) /\ List(h)'[n] = List(h)[n]
    BY <1>0, <2>1, <2>2, <2>4 DEF SingleInv, Watched
  <2> QED
    BY <1>5, <2>3, <2>4
<1>9. AcceptedInv'
  <2>1. SUFFICES ASSUME ~crossed', NEW k \in DOMAIN accepted, accepted[k].job \in Timed \ edited'
                 PROVE  /\ Spent(accepted[k].job, accepted[k].slot)'
                        /\ \A h \in Holders : \A m \in DOMAIN List(h)' :
                             Same(accepted[k], List(h)'[m]) => h = -1 /\ accepted[k] \in doubled
    BY DEF AcceptedInv, Given, Watched, Same, Spent
  <2>2. PICK i, v : i = accepted[k].job /\ v = accepted[k].slot
    OBVIOUS
  <2>3. i \in Timed \ edited' /\ Watched(i) /\ v \in Nat /\ ~crossed
    BY <1>0, <2>1, <2>2, RecordSeq DEF Watched, TimeShape, Forward
  <2>4. Spent(i, v)
    BY <1>0, <2>2, <2>3 DEF AcceptedInv
  <2>5. ASSUME NEW h \in Holders, NEW m \in DOMAIN List(h)', Same(accepted[k], List(h)'[m])
        PROVE  h = -1 /\ accepted[k] \in doubled
    <3>1. CASE List(h)'[m] = e
      <4>1. j \notin edited'
        BY <1>2, <2>1, <2>5, <3>1 DEF Same
      <4> QED
        BY <1>6, <2>1, <2>5, <3>1, <4>1
    <3>2. CASE m \in DOMAIN List(h) /\ List(h)'[m] = List(h)[m]
      BY <1>0, <2>2, <2>3, <2>5, <3>2 DEF AcceptedInv
    <3> QED
      BY <1>5, <3>1, <3>2
  <2>6. Spent(i, v)'
    BY <2>1, <2>3, <2>4 DEF StillSpent
  <2>7. i = accepted'[k].job /\ v = accepted'[k].slot
    BY <2>2 DEF Given
  <2> QED
    BY <2>5, <2>6, <2>7 DEF Spent
<1>10. SlotOnce'
  BY <1>0 DEF SlotOnce, Given, Forward
<1> QED
  BY <1>7, <1>8, <1>9, <1>10 DEF OnceInv

(* The tasks of the rows: a handler takes up an execution nobody has.      *)
LEMMA RowOnce ==
  ASSUME TimeInv, TimeShape', Steady, Forward, NEW a \in 1..Attempts, AdvanceRow(a)
  PROVE  OnceInv'
<1>0. TimeShape /\ PollShape(a)
  BY DEF TimeInv, TimeShape
<1>1. PICK t \in poll[a].todo :
           /\ OneHandler(a) /\ Clock /\ Given /\ UNCHANGED client /\ poll[a].pc = "advance"
           /\ \/ poll'[a].out = poll[a].out
              \/ /\ dated' = [dated EXCEPT ![t.job].next = t.slot + Interval[t.job]]
                 /\ poll'[a].out = Append(poll[a].out, Task(t.job, t.slot, 0))
  BY <1>0, AdvanceEffect
<1>2. PICK j, u : j = t.job /\ u = t.slot
  OBVIOUS
<1>3. j \in Timed /\ j \in Dated /\ u \in Nat /\ Interval[j] \in Nat \ {0}
  BY <1>0, <1>1, <1>2, Bounded DEF PollShape, Selected, TimeBounds
<1>4. CASE poll'[a].out = poll[a].out
  <2>1. Shrunk
    BY <1>1, <1>4, HandlerLists DEF Shrunk, Same
  <2> QED
    BY <1>1, <2>1, ListsShrunk DEF Steady
<1>5. CASE /\ dated' = [dated EXCEPT ![j].next = u + Interval[j]]
           /\ poll'[a].out = Append(poll[a].out, Task(j, u, 0))
  <2>1. DOMAIN dated = Dated /\ RowShape(j)
    BY <1>0, <1>3 DEF TimeShape
  <2>2. dated'[j].next = u + Interval[j] /\ u < u + Interval[j]
    BY <1>3, <1>5, <2>1 DEF RowShape
  <2>3. Spent(j, u)'
    BY <2>2 DEF Spent
  <2>4. Handling(a, j)
    BY <1>1, <1>2 DEF Handling, Advancing, Selecting
  <2>5. ~crossed' /\ j \notin edited' => u = dated[j].next
    BY <1>1, <1>2, <2>4 DEF TimeInv, Apart, Clock, Handling
  <2>6. ~crossed' /\ j \notin edited' => ~Spent(j, u)
    BY <1>3, <2>4, <2>5 DEF Spent
  <2> QED
    BY <1>1, <1>3, <1>5, <2>3, <2>6, TaskAdded DEF Steady
<1> QED
  BY <1>1, <1>2, <1>4, <1>5

LEMMA LastRowOnce ==
  ASSUME TimeInv, TimeShape', Steady, Forward, NEW a \in 1..Attempts, DeactivateRow(a)
  PROVE  OnceInv'
<1>0. TimeShape /\ PollShape(a)
  BY DEF TimeInv, TimeShape
<1>1. PICK j, u : j = poll[a].job /\ u = poll[a].slot
  OBVIOUS
<1>2. /\ OneHandler(a) /\ Clock /\ Given /\ UNCHANGED client
      /\ poll[a].pc = "inactive" /\ poll'[a].pc = "advance" /\ poll'[a].todo = poll[a].todo
      /\ poll'[a].out = Append(poll[a].out, Task(j, u, 0))
      /\ dated' = [dated EXCEPT ![j].active = FALSE]
  BY <1>0, <1>1, DeactivateEffect
<1>3. j \in Timed /\ j \in Dated /\ u \in Nat /\ DOMAIN dated = Dated /\ RowShape(j)
  BY <1>0, <1>1, <1>2, Bounded DEF PollShape, TimeBounds, TimeShape
<1>4. dated'[j].next = dated[j].next /\ ~dated'[j].active /\ dated[j].next \in Nat
  BY <1>2, <1>3 DEF RowShape
<1>5. Handling(a, j) /\ Completing(a, j) /\ Advancing(a)
  BY <1>1, <1>2 DEF Handling, Advancing, Completing
<1>6. ~crossed' /\ j \notin edited' => u = dated[j].next /\ \A y \in 1..Attempts : Advancing(y) => y = a
  BY <1>1, <1>2, <1>3, <1>5 DEF TimeInv, Apart, Clock
<1>7. ~crossed' /\ j \notin edited' => ~Spent(j, u)
  BY <1>3, <1>4, <1>5, <1>6 DEF Spent
<1>8. ~Handling(a, j)'
  <2>1. ~Completing(a, j)'
    BY <1>2 DEF Completing
  <2>2. ~Selecting(a, j)'
    BY <1>2, <1>5 DEF TimeInv, Apart, Selecting
  <2> QED
    BY <2>1, <2>2 DEF Handling
<1>9. ~crossed' /\ j \notin edited' => Spent(j, u)'
  <2>1. ASSUME ~crossed', j \notin edited', NEW x \in 1..Attempts  PROVE ~Handling(x, j)'
    BY <1>2, <1>6, <1>8, <2>1, OthersSame DEF Handling
  <2> QED
    BY <1>4, <1>6, <2>1 DEF Spent
<1> QED
  BY <1>2, <1>3, <1>7, <1>9, TaskAdded DEF Steady

LEMMA Element == ASSUME NEW R, NEW s \in Seq(R), NEW m \in 1..Len(s)  PROVE s[m] \in R
  OBVIOUS

(* A custom job's task concerns no time job.                               *)
LEMMA CustomOnce ==
  ASSUME TimeInv, Steady, Forward, NEW a \in 1..Attempts, AddCustom(a)
  PROVE  OnceInv'
<1>0. TimeShape /\ PollShape(a)
  BY DEF TimeInv, TimeShape
<1>1. PICK s \in Seq([job : Custom, slot : Nat, id : Nat]) :
        OneHandler(a) /\ Given /\ UNCHANGED client /\ poll'[a].out = poll[a].out \o s
  BY <1>0, AddEffect
<1>2. poll[a].out \in Seq(TaskRecord)
  BY <1>0 DEF PollShape
<1>3. \A m \in 1..Len(s) : s[m].job \notin Timed
  <2>1. ASSUME NEW m \in 1..Len(s)  PROVE s[m].job \notin Timed
    <3>1. s[m] \in [job : Custom, slot : Nat, id : Nat]
      BY <1>1, Element
    <3> QED
      BY <3>1, Bounded DEF TimeBounds
  <2> QED
    BY <2>1
<1>4. \A m \in DOMAIN List(a)' : List(a)'[m].job \in Timed => m \in DOMAIN List(a) /\ List(a)'[m] = List(a)[m]
  <2> DEFINE o == poll[a].out
             L == Len(poll[a].out)
  <2>1. List(a) = o /\ List(a)' = o \o s
    BY <1>1, HandlerLists
  <2>2. SUFFICES ASSUME NEW m \in DOMAIN (o \o s), (o \o s)[m].job \in Timed
                 PROVE  m \in DOMAIN o /\ (o \o s)[m] = o[m]
    BY <2>1
  <2>3. L \in Nat /\ DOMAIN o = 1..L /\ Len(s) \in Nat /\ m \in 1..(L + Len(s))
        /\ (o \o s)[m] = IF m <= L THEN o[m] ELSE s[m - L]
    BY <1>2, ConcatProperties
  <2> HIDE DEF o, L
  <2>4. CASE m <= L
    BY <2>3, <2>4
  <2>5. CASE ~(m <= L)
    <3>1. m - L \in 1..Len(s)
      BY <2>3, <2>5
    <3> QED
      BY <1>3, <2>2, <2>3, <2>5, <3>1
  <2> QED
    BY <2>4, <2>5
<1>5. Shrunk
  BY <1>1, <1>4, HandlerLists DEF Shrunk, Same
<1> QED
  BY <1>1, <1>5, ListsShrunk DEF Steady

(* The answer: the scheduler takes over the list of the handler.           *)
LEMMA AnswerOnce ==
  ASSUME TimeInv, Steady, Forward, NEW a \in 1..Attempts, AnswerPoll(a)
  PROVE  OnceInv'
<1>0. TimeShape /\ PollShape(a)
  BY DEF TimeInv, TimeShape
<1>1. /\ OneHandler(a) /\ Clock /\ Given /\ poll'[a].out = << >>
      /\ \/ UNCHANGED client
         \/ ClientHolds
         \/ ClientRests
         \/ client'.batch = client.batch /\ client'.found = poll[a].out
  BY <1>0, AnswerEffect, EndEffect
<1>2. a \in Holders /\ a # 0 /\ a # -1 /\ -1 # 0 /\ 0 \in Holders /\ -1 \in Holders
      /\ \A h \in Holders : h # -1 /\ h # 0 => h \in 1..Attempts
  BY Bounded DEF Holders, TimeBounds
<1>3. /\ List(a)' = << >>
      /\ \A h \in Holders : h # a /\ h # 0 /\ h # -1 => List(h)' = List(h)
      /\ List(-1)' = client'.batch /\ List(0)' = client'.found
      /\ List(-1) = client.batch /\ List(0) = client.found /\ List(a) = poll[a].out
  BY <1>1, <1>2 DEF List, OneHandler
<1>4. CASE UNCHANGED client \/ ClientHolds \/ ClientRests
  <2>1. \A h \in Holders : List(h)' = List(h) \/ List(h)' = << >>
    BY <1>3, <1>4 DEF ClientHolds, ClientRests
  <2>2. Shrunk
    BY <2>1 DEF Shrunk, Same
  <2> QED
    BY <1>1, <2>2, ListsShrunk DEF Steady
<1>5. CASE client'.batch = client.batch /\ client'.found = poll[a].out
  <2>1. /\ List(0)' = List(a) /\ List(a)' = << >>
        /\ \A h \in Holders : h # a /\ h # 0 => List(h)' = List(h)
    BY <1>3, <1>5
  <2>2. Moved
    BY <1>2, <2>1 DEF Moved, Same
  <2>3. SpentInv' /\ AcceptedInv' /\ SlotOnce'
    BY <1>1, <2>2, TasksMoved, AcceptedStays DEF Steady
  <2>4. SingleInv'
    <3>1. SUFFICES ASSUME ~crossed', NEW g \in Holders, NEW h \in Holders, NEW m \in DOMAIN List(g)',
                          NEW n \in DOMAIN List(h)', Watched(List(g)[m].job)', Same(List(g)'[m], List(h)'[n])
                   PROVE  g = h /\ m = n
      BY DEF SingleInv, Same
    <3>2. \A x \in {g, h} : x # a /\ \E y \in Holders : List(x)' = List(y) /\ y = IF x = 0 THEN a ELSE x
      BY <1>2, <2>1
    <3>3. PICK y \in Holders : List(g)' = List(y) /\ y = IF g = 0 THEN a ELSE g
      BY <3>2
    <3>4. PICK z \in Holders : List(h)' = List(z) /\ z = IF h = 0 THEN a ELSE h
      BY <3>2
    <3>5. Watched(List(y)[m].job) /\ ~crossed /\ Same(List(y)[m], List(z)[n])
      BY <3>1, <3>3, <3>4 DEF Watched, Forward
    <3>6. y = z /\ m = n
      BY <3>1, <3>3, <3>4, <3>5 DEF TimeInv, OnceInv, SingleInv
    <3> QED
      BY <3>2, <3>3, <3>4, <3>6
  <2> QED
    BY <2>3, <2>4 DEF OnceInv
<1> QED
  BY <1>1, <1>4, <1>5

(* The loop of the scheduler: a task goes on to the batch, or is dropped.  *)
LEMMA FilterOnce ==
  ASSUME TimeInv, Steady, Forward, Given, UNCHANGED poll, client.pc = "filter",
         client'.found = Tail(client.found),
         client'.batch = client.batch \/ client'.batch = Append(client.batch, Head(client.found))
  PROVE  OnceInv'
<1> DEFINE f == client.found
           b == client.batch
           B == Len(client.batch)
           F == Len(client.found)
<1>1. f \in Seq(TaskRecord) /\ b \in Seq(TaskRecord) /\ f # << >>
  BY DEF TimeInv, TimeShape
<1>2. /\ F \in Nat /\ F >= 1 /\ DOMAIN f = 1..F /\ DOMAIN Tail(f) = 1..(F - 1)
      /\ Head(f) = f[1] /\ \A m \in 1..(F - 1) : Tail(f)[m] = f[m + 1]
  BY <1>1, HeadTailProperties
<1>3. /\ B \in Nat /\ DOMAIN b = 1..B
      /\ DOMAIN Append(b, Head(f)) = 1..(B + 1) /\ Append(b, Head(f))[B + 1] = Head(f)
      /\ \A m \in 1..B : Append(b, Head(f))[m] = b[m]
  <2>1. Head(f) \in TaskRecord
    BY <1>1, HeadTailProperties
  <2> QED
    BY <1>1, <2>1, AppendProperties
<1>4. -1 # 0 /\ 0 \in Holders /\ -1 \in Holders /\ \A h \in Holders : h # -1 /\ h # 0 => h \in 1..Attempts
  BY Bounded DEF Holders, TimeBounds
<1>5. /\ \A h \in Holders : h # 0 /\ h # -1 => List(h)' = List(h)
      /\ List(-1)' = client'.batch /\ List(0)' = Tail(f) /\ List(-1) = b /\ List(0) = f
  BY <1>4 DEF List
<1> HIDE DEF f, b, B, F
<1> DEFINE From(h, m, g, n) == \/ h # 0 /\ h # -1 /\ g = h /\ n = m
                               \/ h = 0 /\ g = 0 /\ n = m + 1 /\ m \in 1..(F - 1)
                               \/ h = -1 /\ g = -1 /\ n = m /\ m \in 1..B
                               \/ h = -1 /\ m = B + 1 /\ g = 0 /\ n = 1
<1>6. \A h \in Holders : \A m \in DOMAIN List(h)' :
        \E g \in Holders : \E n \in DOMAIN List(g) : List(h)'[m] = List(g)[n] /\ From(h, m, g, n)
  <2>1. SUFFICES ASSUME NEW h \in Holders, NEW m \in DOMAIN List(h)'
                 PROVE  \E g \in Holders : \E n \in DOMAIN List(g) : List(h)'[m] = List(g)[n] /\ From(h, m, g, n)
    OBVIOUS
  <2>2. CASE h # 0 /\ h # -1
    BY <1>5, <2>2
  <2>3. CASE h = 0
    <3>1. m \in 1..(F - 1) /\ m + 1 \in 1..F /\ List(h)'[m] = f[m + 1]
      BY <1>2, <1>5, <2>3
    <3> QED
      BY <1>2, <1>4, <1>5, <2>3, <3>1
  <2>4. CASE h = -1
    <3>1. \/ m \in 1..B /\ List(h)'[m] = b[m]
          \/ m = B + 1 /\ List(h)'[m] = f[1]
      <4>1. CASE client'.batch = b
        BY <1>3, <1>5, <2>4, <4>1
      <4>2. CASE client'.batch = Append(b, Head(f))
        <5>1. m \in 1..B \/ m = B + 1
          BY <1>3, <1>5, <2>4, <4>2
        <5> QED
          BY <1>2, <1>3, <1>5, <2>4, <4>2, <5>1
      <4> QED
        BY <4>1, <4>2 DEF b, f
    <3>2. 1 \in 1..F
      BY <1>2
    <3> QED
      BY <1>2, <1>3, <1>4, <1>5, <2>4, <3>1, <3>2
  <2> QED
    BY <2>2, <2>3, <2>4
<1>7. Moved
  BY <1>4, <1>6 DEF Moved, Same
<1>8. SpentInv' /\ AcceptedInv' /\ SlotOnce'
  BY <1>7, TasksMoved, AcceptedStays DEF Steady
<1>9. SingleInv'
  <2>1. SUFFICES ASSUME ~crossed', NEW g \in Holders, NEW h \in Holders, NEW m \in DOMAIN List(g)',
                        NEW n \in DOMAIN List(h)', Watched(List(g)[m].job)', Same(List(g)'[m], List(h)'[n])
                 PROVE  g = h /\ m = n
    BY DEF SingleInv, Same
  <2>2. PICK y \in Holders : \E k \in DOMAIN List(y) : List(g)'[m] = List(y)[k] /\ From(g, m, y, k)
    BY <1>6
  <2>3. PICK k \in DOMAIN List(y) : List(g)'[m] = List(y)[k] /\ From(g, m, y, k)
    BY <2>2
  <2>4. PICK z \in Holders : \E l \in DOMAIN List(z) : List(h)'[n] = List(z)[l] /\ From(h, n, z, l)
    BY <1>6
  <2>5. PICK l \in DOMAIN List(z) : List(h)'[n] = List(z)[l] /\ From(h, n, z, l)
    BY <2>4
  <2>6. Watched(List(y)[k].job) /\ ~crossed /\ Same(List(y)[k], List(z)[l])
    BY <2>1, <2>3, <2>5 DEF Watched, Forward
  <2>7. y = z /\ k = l
    BY <2>6 DEF TimeInv, OnceInv, SingleInv
  <2> QED
    BY <1>2, <1>3, <1>4, <2>3, <2>5, <2>7
<1> QED
  BY <1>8, <1>9 DEF OnceInv

(* A batch is accepted: what is kept of it is marked as submitted again.   *)
LEMMA SubmitOnce ==
  ASSUME TimeInv, Steady, Forward, UNCHANGED poll, accepted' = accepted \o client.batch, doubled \subseteq doubled',
         \/ ClientRests
         \/ ClientHolds /\ \A m \in DOMAIN client.batch : client.batch[m] \in doubled'
  PROVE  OnceInv'
<1> DEFINE b == client.batch
           L == Len(accepted)
<1>1. TimeShape /\ SpentInv /\ SingleInv /\ AcceptedInv /\ SlotOnce
  BY DEF TimeInv, OnceInv
<1>2. b \in Seq(TaskRecord) /\ accepted \in Seq(TaskRecord)
  BY <1>1 DEF TimeShape
<1>3. -1 # 0 /\ 0 \in Holders /\ -1 \in Holders /\ \A h \in Holders : h # -1 /\ h # 0 => h \in 1..Attempts
  BY Bounded DEF Holders, TimeBounds
<1>4. List(-1) = b /\ List(0) = client.found /\ List(-1)' = client'.batch /\ List(0)' = client'.found
      /\ \A h \in Holders : h # 0 /\ h # -1 => List(h)' = List(h)
  BY <1>3 DEF List
<1>5. \A h \in Holders : List(h)' = List(h) \/ List(h)' = << >>
  BY <1>4 DEF ClientHolds, ClientRests
<1>6. Shrunk
  BY <1>5 DEF Shrunk, Same
<1>7. SpentInv' /\ SingleInv'
  BY <1>6, ShrunkApart, TasksMoved DEF Steady
<1>8. /\ L \in Nat /\ Len(b) \in Nat /\ DOMAIN accepted = 1..L /\ DOMAIN b = 1..Len(b)
      /\ DOMAIN accepted' = 1..(L + Len(b))
      /\ \A k \in 1..(L + Len(b)) : accepted'[k] = IF k <= L THEN accepted[k] ELSE b[k - L]
  BY <1>2, ConcatProperties
<1> HIDE DEF L
<1>9. \A k \in DOMAIN accepted' :
        \/ k \in DOMAIN accepted /\ accepted'[k] = accepted[k]
        \/ ~(k <= L) /\ k - L \in DOMAIN b /\ accepted'[k] = b[k - L]
  <2>1. SUFFICES ASSUME NEW k \in 1..(L + Len(b))
                 PROVE  \/ k \in DOMAIN accepted /\ accepted'[k] = accepted[k]
                        \/ ~(k <= L) /\ k - L \in DOMAIN b /\ accepted'[k] = b[k - L]
    BY <1>8
  <2>2. CASE k <= L
    BY <1>8, <2>2
  <2>3. CASE ~(k <= L)
    BY <1>8, <2>3
  <2> QED
    BY <2>2, <2>3
<1>10. \A k \in DOMAIN accepted : k <= L
  BY <1>8
<1> HIDE DEF b
<1>11. AcceptedInv'
  <2>1. SUFFICES ASSUME ~crossed', NEW k \in DOMAIN accepted', accepted'[k].job \in Timed \ edited'
                 PROVE  /\ Spent(accepted[k].job, accepted[k].slot)'
                        /\ \A h \in Holders : \A m \in DOMAIN List(h)' :
                             Same(accepted'[k], List(h)'[m]) => h = -1 /\ accepted'[k] \in doubled'
    BY DEF AcceptedInv, Watched, Same
  <2>2. PICK j, u : j = accepted'[k].job /\ u = accepted'[k].slot
    OBVIOUS
  <2>3. j \in Timed \ edited' /\ Watched(j) /\ ~crossed
    BY <2>1, <2>2 DEF Watched, Forward
  <2>4. Spent(j, u) /\ u \in Nat
    <3>1. CASE k \in DOMAIN accepted /\ accepted'[k] = accepted[k]
      BY <1>1, <1>2, <2>2, <2>3, <3>1, RecordSeq DEF AcceptedInv
    <3>2. CASE k - L \in DOMAIN b /\ accepted'[k] = b[k - L]
      BY <1>1, <1>2, <1>3, <1>4, <2>2, <2>3, <3>2, RecordSeq DEF SpentInv
    <3> QED
      BY <1>9, <3>1, <3>2
  <2>5. ASSUME NEW h \in Holders, NEW m \in DOMAIN List(h)', Same(accepted'[k], List(h)'[m])
        PROVE  h = -1 /\ accepted'[k] \in doubled'
    <3>1. List(h)' = List(h) /\ m \in DOMAIN List(h)
      BY <1>5
    <3>2. CASE k \in DOMAIN accepted /\ accepted'[k] = accepted[k]
      BY <1>1, <2>2, <2>3, <2>5, <3>1, <3>2 DEF AcceptedInv
    <3>3. CASE k - L \in DOMAIN b /\ accepted'[k] = b[k - L]
      <4>1. h = -1
        BY <1>1, <1>3, <1>4, <2>2, <2>3, <2>5, <3>1, <3>3 DEF SingleInv
      <4>2. ~ClientRests
        BY <1>4, <2>5, <4>1 DEF ClientRests
      <4> QED
        BY <3>3, <4>1, <4>2 DEF b
    <3> QED
      BY <1>9, <3>2, <3>3
  <2>6. Spent(j, u)'
    BY <2>1, <2>3, <2>4 DEF Steady, StillSpent
  <2> QED
    BY <2>2, <2>5, <2>6 DEF Spent
<1>12. SlotOnce'
  <2>1. SUFFICES ASSUME ~crossed', NEW m \in DOMAIN accepted', NEW n \in DOMAIN accepted', m < n,
                        Same(accepted'[m], accepted'[n]), accepted'[m].job \in Timed \ edited'
                 PROVE  accepted'[m] \in doubled'
    BY DEF SlotOnce, Same
  <2>2. Watched(accepted'[m].job) /\ ~crossed
    BY <2>1 DEF Watched, Forward
  <2>3. CASE m \in DOMAIN accepted /\ accepted'[m] = accepted[m]
    <3>1. CASE n \in DOMAIN accepted /\ accepted'[n] = accepted[n]
      BY <1>1, <2>1, <2>2, <2>3, <3>1 DEF SlotOnce, Same, Watched
    <3>2. CASE n - L \in DOMAIN b /\ accepted'[n] = b[n - L]
      BY <1>1, <1>3, <1>4, <2>1, <2>2, <2>3, <3>2 DEF AcceptedInv
    <3> QED
      BY <1>9, <3>1, <3>2
  <2>4. CASE ~(m <= L) /\ m - L \in DOMAIN b /\ accepted'[m] = b[m - L]
    <3>1. CASE n \in DOMAIN accepted
      <4>1. n <= L /\ m \in Int /\ n \in Int /\ L \in Int
        BY <1>8, <1>10, <3>1
      <4> QED
        BY <2>1, <2>4, <4>1
    <3>2. CASE n - L \in DOMAIN b /\ accepted'[n] = b[n - L]
      <4>1. m - L = n - L
        BY <1>1, <1>3, <1>4, <2>1, <2>2, <2>4, <3>2 DEF SingleInv
      <4>2. m \in Int /\ n \in Int /\ L \in Int
        BY <1>8
      <4> QED
        BY <2>1, <4>1, <4>2
    <3> QED
      BY <1>9, <3>1, <3>2
  <2> QED
    BY <1>9, <2>3, <2>4
<1> QED
  BY <1>7, <1>11, <1>12 DEF OnceInv

LEMMA CalmOnce ==
  ASSUME TimeInv, Steady, Forward, Given,
         \A h \in Holders : List(h)' = List(h) \/ List(h)' = << >>
  PROVE  OnceInv'
<1>1. Shrunk
  BY DEF Shrunk, Same
<1> QED
  BY <1>1, ListsShrunk DEF Steady

LEMMA HandlersOnce ==
  ASSUME TimeInv, TimeShape', Steady, Forward, NEW a \in 1..Attempts,
         \/ SelectDue(a) \/ AdvanceRow(a) \/ CompleteJob(a) \/ DeactivateRow(a)
         \/ AddCustom(a) \/ ReadMaxTaskID(a) \/ InsertTask(a) \/ LinkTask(a)
         \/ AnswerPoll(a) \/ PollFails(a)
  PROVE  OnceInv'
<1>0. TimeShape
  BY DEF TimeInv
<1>1. CASE SelectDue(a)
  <2>1. OneHandler(a) /\ Given /\ UNCHANGED client /\ poll'[a].out = poll[a].out
    BY <1>0, <1>1, SelectEffect
  <2>2. \A h \in Holders : List(h)' = List(h)
    BY <2>1, HandlerLists
  <2> QED
    BY <2>1, <2>2, CalmOnce
<1>2. CASE CompleteJob(a) \/ ReadMaxTaskID(a) \/ InsertTask(a) \/ LinkTask(a)
  <2>1. /\ OneHandler(a) /\ Given /\ UNCHANGED client /\ poll'[a].out \in Seq(TaskRecord)
        /\ Len(poll'[a].out) = Len(poll[a].out)
        /\ \A m \in 1..Len(poll[a].out) : Same(poll'[a].out[m], poll[a].out[m])
    BY <1>0, <1>2, TaskEffect
  <2>2. poll[a].out \in Seq(TaskRecord)
    BY <1>0 DEF TimeShape, PollShape
  <2>3. Shrunk
    <3>1. DOMAIN poll'[a].out = 1..Len(poll[a].out) /\ DOMAIN poll[a].out = 1..Len(poll[a].out)
      BY <2>1, <2>2
    <3> QED
      BY <2>1, <3>1, HandlerLists DEF Shrunk, Same
  <2> QED
    BY <2>1, <2>3, ListsShrunk DEF Steady
<1>3. CASE PollFails(a)
  <2>1. /\ OneHandler(a) /\ Given /\ (poll'[a].out = poll[a].out \/ poll'[a].out = << >>)
        /\ (UNCHANGED client \/ ClientHolds)
    BY <1>0, <1>3, FailEffect, EndEffect
  <2>2. \A h \in Holders : h # -1 /\ h # 0 => h \in 1..Attempts
    BY Bounded DEF Holders, TimeBounds
  <2>3. \A h \in Holders : List(h)' = List(h) \/ List(h)' = << >>
    BY <2>1, <2>2 DEF List, OneHandler, ClientHolds
  <2> QED
    BY <2>1, <2>3, CalmOnce
<1> QED
  BY <1>1, <1>2, <1>3, RowOnce, LastRowOnce, CustomOnce, AnswerOnce

LEMMA RestOnce ==
  ASSUME TimeInv, TimeShape', Steady, Forward,
         \/ SendPoll \/ PollTimesOut \/ GiveUpPoll \/ FilterTask \/ SubmitBatch \/ SubmitFails
         \/ Tick \/ (\E j \in Dated : DeleteTimeJob(j) \/ EditTimeJob(j) \/ CheckTimeJob(j))
         \/ OtherReadsMax \/ OtherInserts \/ OtherLinks
  PROVE  OnceInv'
<1>0. TimeShape
  BY DEF TimeInv
<1>1. \A h \in Holders : h # -1 /\ h # 0 => h \in 1..Attempts
  BY Bounded DEF Holders, TimeBounds
<1>2. CASE SendPoll
  <2>1. PICK a \in 1..Attempts : OneHandler(a) /\ poll'[a].out = poll[a].out
    BY <1>0, <1>2, SendEffect
  <2>2. Given /\ ClientHolds
    BY <1>0, <1>2, SendEffect
  <2>3. \A h \in Holders : List(h)' = List(h)
    BY <1>1, <2>1, <2>2 DEF List, OneHandler, ClientHolds
  <2> QED
    BY <2>2, <2>3, CalmOnce
<1>3. CASE PollTimesOut \/ GiveUpPoll \/ FilterTask \/ SubmitBatch \/ SubmitFails
  <2>1. UNCHANGED poll
    BY <1>0, <1>3, ClientEffect
  <2>2. CASE Given /\ (ClientHolds \/ ClientRests)
    <3>1. \A h \in Holders : List(h)' = List(h) \/ List(h)' = << >>
      BY <1>1, <2>1, <2>2 DEF List, ClientHolds, ClientRests
    <3> QED
      BY <2>2, <3>1, CalmOnce
  <2>3. CASE /\ Given /\ client.pc = "filter" /\ client'.found = Tail(client.found)
             /\ client'.batch = client.batch \/ client'.batch = Append(client.batch, Head(client.found))
    BY <2>1, <2>3, FilterOnce
  <2>4. CASE /\ accepted' = accepted \o client.batch /\ doubled \subseteq doubled'
             /\ \/ ClientRests
                \/ ClientHolds /\ \A m \in DOMAIN client.batch : client.batch[m] \in doubled'
    BY <2>1, <2>4, SubmitOnce
  <2> QED
    BY <1>0, <1>3, <2>2, <2>3, <2>4, ClientEffect
<1>4. CASE \/ Tick \/ (\E j \in Dated : DeleteTimeJob(j) \/ EditTimeJob(j) \/ CheckTimeJob(j))
           \/ OtherReadsMax \/ OtherInserts \/ OtherLinks
  <2>1. UNCHANGED <<poll, client, accepted, doubled>>
    BY <1>4 DEF Tick, DeleteTimeJob, EditTimeJob, CheckTimeJob, OtherReadsMax, OtherInserts, OtherLinks
  <2>2. Given /\ \A h \in Holders : List(h)' = List(h)
    BY <2>1 DEF Given, List
  <2> QED
    BY <2>2, CalmOnce
<1> QED
  BY <1>2, <1>3, <1>4

LEMMA TimeStutters == ASSUME TimeInv, UNCHANGED timeVars  PROVE TimeInv'
<1> USE DEF timeVars
<1>1. TimeShape'
  BY DEF TimeInv, TimeShape, PollShape, RowShape
<1>2. \A x \in 1..Attempts, j \in Timed : Handling(x, j)' = Handling(x, j)
  BY DEF Handling, Advancing, Completing, Selecting
<1>3. Apart'
  BY DEF TimeInv, Apart, Advancing, Completing
<1>4. AheadInv'
  BY DEF TimeInv, AheadInv, Waits, Advancing, Selecting
<1>5. Steady
  BY <1>2, <1>3, <1>4 DEF Steady, StillSpent, Spent
<1>6. Given /\ Forward /\ \A h \in Holders : List(h)' = List(h)
  BY DEF Given, Forward, List
<1>7. OnceInv'
  BY <1>5, <1>6, CalmOnce
<1> QED
  BY <1>1, <1>3, <1>4, <1>7 DEF TimeInv

LEMMA TimePreserved == TimeInv /\ [TimeNext]_timeVars => TimeInv'
<1> SUFFICES ASSUME TimeInv, [TimeNext]_timeVars  PROVE TimeInv'
  OBVIOUS
<1>1. CASE TimeNext
  <2>1. Steady /\ TimeShape' /\ Forward
    BY <1>1, StepSteady, StepForward
  <2>2. OnceInv'
    BY <1>1, <2>1, HandlersOnce, RestOnce DEF TimeNext
  <2> QED
    BY <2>1, <2>2 DEF TimeInv, Steady
<1>2. CASE UNCHANGED timeVars
  BY <1>2, TimeStutters
<1> QED
  BY <1>1, <1>2

LEMMA InTime == TimeInv => NoStall
<1> SUFFICES ASSUME TimeInv, timely, ~crossed, now - lastPoll <= Slack, NEW j \in Timed \ edited,
                    dated[j].active, ~dated[j].completed
             PROVE  dated[j].next >= now
  BY DEF NoStall
<1>1. dated[j].next >= lastPoll + Slack
  BY DEF TimeInv, AheadInv, Waits
<1>2. now \in Nat /\ lastPoll \in Nat /\ Slack \in Nat /\ dated[j].next \in Nat
  BY Bounded DEF TimeInv, TimeShape, RowShape, TimeBounds
<1> QED
  BY <1>1, <1>2

\* NoStall: no active job falls behind, whatever fails between two polls, as long as
\* the polls are timely and do not overlap: its next execution stays at or ahead of
\* now; for every number of jobs and attempts, all intervals and expirations.
THEOREM Punctual == TimeSpec => []NoStall
<1>1. TimeInit => TimeInv
  BY TimeInitially
<1> QED
  BY <1>1, TimePreserved, InTime, PTL DEF TimeSpec

\* SlotOnce: an execution of a time job is accepted once, unless its batch was
\* submitted again after a lost answer, the job was updated, or handlers overlapped;
\* for every number of polls, jobs, retries and faults.
THEOREM SingleSlots == TimeSpec => []SlotOnce
<1>1. TimeInit => TimeInv
  BY TimeInitially
<1>2. TimeInv => SlotOnce
  BY DEF TimeInv, OnceInv
<1> QED
  BY <1>1, <1>2, TimePreserved, PTL DEF TimeSpec

-----------------------------------------------------------------------------
(***************************************************************************)
(* The groups of the Redis client.                                         *)
(***************************************************************************)

DataFields == {"stream", "key", "value", "field", "member"}
StreamFields == {"on", "ttl", "groups", "length", "fresh", "pending"}
CallFields == {"at", "step", "cmd", "tries", "via", "locking", "says"}

WellFormed(d) == DOMAIN d = DataFields /\ DOMAIN d.stream = StreamFields

RedisShape ==
  /\ WellFormed(data)
  /\ DOMAIN running = RedisCallers \cup Pingers
  /\ \A p \in RedisCallers \cup Pingers : DOMAIN running[p] = CallFields

(* Register has one command, so that any answer to it is one to the        *)
(* creation of the group.                                                  *)
RegisterInv ==
  \A p \in RedisCallers \cup Pingers : Step(p).name = "Register" => running[p].cmd = 1

GroupInv == RedisShape /\ RegisterInv /\ CachedGroupExists

-----------------------------------------------------------------------------
(* No command takes a group away, and XGROUP CREATE makes one.             *)
LEMMA GroupsKept ==
  ASSUME WellFormed(data), NEW p, NEW cmd, NEW g
  PROVE  LET d == Execute(p, cmd, g).kept
         IN  /\ WellFormed(d)
             /\ data.stream.groups \subseteq d.stream.groups
             /\ cmd = "group" => g \in d.stream.groups
<1> USE DEF Reply, Counted
<1> DEFINE d == Execute(p, cmd, g).kept
<1>1. CASE cmd \in {"ping", "probe", "scan", "get", "set", "setnx", "del", "release"}
  BY <1>1 DEF Execute, DeleteOwn, WellFormed, DataFields
<1>2. CASE cmd \in {"hset", "hget", "hdel", "zadd", "exists", "zrange", "zrem"}
  BY <1>2 DEF Execute, WellFormed, DataFields
<1>3. CASE cmd \in {"create", "group", "groupttl"}
  <2>1. /\ WellFormed(CreateIfAbsent.kept)
        /\ data.stream.groups \subseteq CreateIfAbsent.kept.stream.groups
    BY DEF CreateIfAbsent, AddEntry, WellFormed, DataFields, StreamFields
  <2>2. LET made == AddGroup(data.stream, g) IN
        /\ DOMAIN made = StreamFields
        /\ made.groups = data.stream.groups \cup {g}
    BY DEF AddGroup, WellFormed, StreamFields
  <2>3. CASE cmd = "create"
    BY <2>1, <2>3 DEF Execute
  <2>4. CASE cmd = "group"
    BY <2>2, <2>4 DEF Execute, WellFormed, DataFields
  <2>5. CASE cmd = "groupttl"
    BY <2>2, <2>5 DEF Execute, WellFormed, DataFields, StreamFields
  <2> QED
    BY <1>3, <2>3, <2>4, <2>5
<1>4. CASE cmd \in {"xadd", "xreadgroup", "xack", "xtrim", "expire"}
  BY <1>4 DEF Execute, AddEntry, WellFormed, DataFields, StreamFields
<1>5. CASE cmd \notin {"ping", "probe", "scan", "get", "set", "setnx", "del", "release",
                       "hset", "hget", "hdel", "zadd", "exists", "zrange", "zrem",
                       "create", "group", "groupttl",
                       "xadd", "xreadgroup", "xack", "xtrim", "expire"}
  BY <1>5 DEF Execute
<1> QED
  BY <1>1, <1>2, <1>3, <1>4, <1>5

LEMMA RegisterMethod ==
  ASSUME NEW p, Step(p).name = "Register"
  PROVE  Len(MethodOf(p).cmds) = 1 /\ MethodOf(p).cmds[1] = "group"
<1>1. "Register" \notin DOMAIN KeyMethods \cup DOMAIN HashMethods \cup DOMAIN SortedSetMethods
        \cup DOMAIN GroupMethods \cup DOMAIN StreamMethods \cup DOMAIN ExpiryMethods
  BY DEF KeyMethods, HashMethods, SortedSetMethods, GroupMethods, StreamMethods, ExpiryMethods
<1>2. "Register" \in DOMAIN Wrappers /\ Wrappers["Register"].cmds = <<"group">>
  BY DEF Wrappers, GroupMethods, Method
<1>3. (CHOOSE t \in MethodTables : "Register" \in DOMAIN t) = Wrappers
  BY <1>1, <1>2 DEF MethodTables
<1>4. MethodOf(p).cmds = <<"group">>
  BY <1>2, <1>3 DEF MethodOf
<1>5. Len(<<"group">>) = 1 /\ <<"group">>[1] = "group"
  OBVIOUS
<1> QED
  BY <1>4, <1>5

-----------------------------------------------------------------------------
(* A step that leaves the groups alone, or adds some.                      *)
LEMMA CacheKept ==
  ASSUME GroupInv, WellFormed(data'), data.stream.groups \subseteq data'.stream.groups,
         UNCHANGED <<cached, expiredGroups>>
  PROVE  CachedGroupExists'
BY DEF GroupInv, CachedGroupExists

LEMMA CallKept ==
  ASSUME GroupInv, UNCHANGED program, NEW p \in RedisCallers \cup Pingers,
         NEW c, running' = [running EXCEPT ![p] = c], DOMAIN c = CallFields,
         c.cmd = 1 \/ (c.step = running[p].step /\ Step(p).name # "Register")
  PROVE  /\ DOMAIN running' = RedisCallers \cup Pingers
         /\ \A q \in RedisCallers \cup Pingers : DOMAIN running'[q] = CallFields
         /\ RegisterInv'
BY DEF GroupInv, RedisShape, RegisterInv, Step

LEMMA Outcomes ==
  ASSUME GroupInv, NEW p \in RedisCallers \cup Pingers, NEW says
  PROVE  /\ DOMAIN Again(running[p]) = CallFields /\ Again(running[p]).at \in {"ready", "failed"}
         /\ Again(running[p]).cmd = 1
         /\ DOMAIN Ready(running[p]) = CallFields /\ Ready(running[p]).at = "ready"
         /\ Ready(running[p]).cmd = 1
         /\ DOMAIN Passed(running[p]) = CallFields /\ Passed(running[p]).cmd = 1
         /\ DOMAIN Broken(running[p], says) = CallFields /\ Broken(running[p], says).at = "failed"
         /\ Broken(running[p], says).cmd = 1
         /\ DOMAIN Contended(running[p]) = CallFields
         /\ Contended(running[p]).at \in {"ready", "failed"} /\ Contended(running[p]).cmd = 1
<1>1. DOMAIN running[p] = CallFields
  BY DEF GroupInv, RedisShape
<1> QED
  BY <1>1 DEF Again, Ready, Passed, Broken, Contended, NoCall, CallFields

LEMMA Answers ==
  ASSUME GroupInv, NEW p \in RedisCallers \cup Pingers, NEW says
  PROVE  LET c == Replied(p, says) IN
         /\ DOMAIN c = CallFields
         /\ c.cmd = 1 \/ (c.step = running[p].step /\ Step(p).name # "Register")
<1>1. DOMAIN running[p] = CallFields /\ (Step(p).name = "Register" => running[p].cmd = 1)
  BY DEF GroupInv, RedisShape, RegisterInv
<1>2. ASSUME running[p].cmd < Len(MethodOf(p).cmds)
      PROVE  Step(p).name # "Register"
  <2> SUFFICES ASSUME Step(p).name = "Register"  PROVE FALSE
    OBVIOUS
  <2>1. Len(MethodOf(p).cmds) = 1 /\ running[p].cmd = 1
    BY <1>1, RegisterMethod
  <2> QED
    BY <1>2, <2>1
<1> DEFINE c == running[p]
             next == [c EXCEPT !.cmd = @ + 1]
<1>4. DOMAIN next = CallFields /\ next.step = c.step
  BY <1>1 DEF CallFields
<1> HIDE DEF next
<1>5. \/ Replied(p, says) \in {Contended(c), Passed(c)}
      \/ \E s : Replied(p, says) = Broken(c, s)
      \/ Replied(p, says) = next /\ running[p].cmd < Len(MethodOf(p).cmds)
  BY DEF Replied, next
<1> QED
  BY <1>2, <1>4, <1>5, Outcomes

-----------------------------------------------------------------------------
LEMMA CallsGroup ==
  ASSUME GroupInv, NEW p \in RedisCallers \cup Pingers,
         Call(p) \/ Attempt(p) \/ NoAnswer(p) \/ ContextEnds(p)
  PROVE  GroupInv'
<1>1. UNCHANGED <<data, program, expiredGroups>>
  BY DEF Call, Attempt, NoAnswer, ContextEnds
<1>2. UNCHANGED cached
  <2>1. CASE Call(p) \/ Attempt(p)
    BY <2>1 DEF Call, Attempt
  <2>2. CASE NoAnswer(p) \/ ContextEnds(p)
    BY <2>2, Outcomes DEF NoAnswer, ContextEnds, Settle
  <2> QED
    BY <2>1, <2>2
<1>3. \E c : /\ running' = [running EXCEPT ![p] = c] /\ DOMAIN c = CallFields
             /\ c.cmd = 1 \/ (c.step = running[p].step /\ Step(p).name # "Register")
  <2>1. CASE Call(p)
    BY <2>1, Outcomes DEF Call
  <2>2. CASE Attempt(p)
    <3> DEFINE c == [running[p] EXCEPT !.at = "sent", !.via = handle]
    <3>1. running' = [running EXCEPT ![p] = c]
      BY <2>2 DEF Attempt
    <3>2. DOMAIN running[p] = CallFields /\ (Step(p).name = "Register" => running[p].cmd = 1)
      BY DEF GroupInv, RedisShape, RegisterInv
    <3>3. DOMAIN c = CallFields /\ c.cmd = running[p].cmd /\ c.step = running[p].step
      BY <3>2 DEF CallFields
    <3> QED
      BY <3>1, <3>2, <3>3
  <2>3. CASE NoAnswer(p) \/ ContextEnds(p)
    <3>1. PICK c : /\ running' = [running EXCEPT ![p] = c]
                   /\ c = Again(running[p]) \/ \E s : c = Broken(running[p], s)
      BY <2>3 DEF NoAnswer, ContextEnds, Settle
    <3> QED
      BY <3>1, Outcomes
  <2> QED
    BY <2>1, <2>2, <2>3
<1>4. RedisShape' /\ RegisterInv'
  BY <1>1, <1>3, CallKept DEF RedisShape, GroupInv
<1>5. CachedGroupExists'
  BY <1>1, <1>2, CacheKept DEF GroupInv, RedisShape
<1> QED
  BY <1>4, <1>5 DEF GroupInv

LEMMA AnsweredGroup ==
  ASSUME GroupInv, NEW p \in RedisCallers \cup Pingers, Answer(p)
  PROVE  GroupInv'
<1> DEFINE r == Execute(p, Command(p), Step(p).arg)
           c == Replied(p, r.says)
<1>1. data' = r.kept /\ Settle(p, c) /\ UNCHANGED <<program, expiredGroups>>
  BY DEF Answer
<1>2. /\ WellFormed(data') /\ data.stream.groups \subseteq data'.stream.groups
      /\ Command(p) = "group" => Step(p).arg \in data'.stream.groups
  BY <1>1, GroupsKept DEF GroupInv, RedisShape
<1>3. /\ DOMAIN c = CallFields
      /\ c.cmd = 1 \/ (c.step = running[p].step /\ Step(p).name # "Register")
  BY Answers
<1> HIDE DEF r, c
<1>4. RedisShape' /\ RegisterInv'
  BY <1>1, <1>2, <1>3, CallKept DEF Settle, RedisShape
<1>5. Step(p).name = "Register" => Command(p) = "group"
  BY RegisterMethod DEF GroupInv, RegisterInv, Command
<1>6. cached' \subseteq cached \cup data'.stream.groups
  BY <1>1, <1>2, <1>5 DEF Settle
<1>7. CachedGroupExists'
  BY <1>1, <1>2, <1>6 DEF GroupInv, CachedGroupExists
<1> QED
  BY <1>4, <1>7 DEF GroupInv

LEMMA RoutineGroup ==
  ASSUME GroupInv,
         \/ \E c \in late : Arrives(c)
         \/ TickCheck \/ TickEnds \/ CloseOld \/ OpenNew \/ TestEnds \/ CloseClient
         \/ Outage \/ LockExpires
  PROVE  GroupInv'
<1>1. UNCHANGED <<program, cached, expiredGroups>>
  BY DEF Arrives, TickCheck, TickEnds, CloseOld, OpenNew, TestEnds, CloseClient, Outage,
         LockExpires
<1>2. WellFormed(data') /\ data.stream.groups \subseteq data'.stream.groups
  <2>1. ASSUME NEW c \in late, Arrives(c)
        PROVE  WellFormed(data') /\ data.stream.groups \subseteq data'.stream.groups
    BY <2>1, GroupsKept DEF Arrives, GroupInv, RedisShape
  <2>2. CASE LockExpires
    BY <2>2 DEF LockExpires, GroupInv, RedisShape, WellFormed, DataFields
  <2>3. ASSUME \/ TickCheck \/ TickEnds \/ CloseOld \/ OpenNew \/ TestEnds \/ CloseClient
               \/ Outage
        PROVE  data' = data
    BY <2>3 DEF TickCheck, TickEnds, CloseOld, OpenNew, TestEnds, CloseClient, Outage
  <2> QED
    BY <2>1, <2>2, <2>3 DEF GroupInv, RedisShape
<1>3. \/ running' = running
      \/ \E p \in Pingers : running' = [running EXCEPT ![p] = Ready(running[p])]
                            \/ running' = [running EXCEPT ![p] = NoCall]
  BY DEF Arrives, TickCheck, TickEnds, CloseOld, OpenNew, TestEnds, CloseClient, Outage,
         LockExpires, Pingers
<1>4. RedisShape' /\ RegisterInv'
  <2>1. CASE running' = running
    BY <2>1, <1>1, <1>2 DEF GroupInv, RedisShape, RegisterInv, Step
  <2>2. DOMAIN NoCall = CallFields /\ NoCall.cmd = 1
    BY DEF NoCall, CallFields
  <2>3. ASSUME NEW p \in Pingers, running' = [running EXCEPT ![p] = Ready(running[p])]
                                  \/ running' = [running EXCEPT ![p] = NoCall]
        PROVE  RedisShape' /\ RegisterInv'
    BY <2>2, <2>3, <1>1, <1>2, Outcomes, CallKept DEF RedisShape
  <2> QED
    BY <1>3, <2>1, <2>3
<1>5. CachedGroupExists'
  BY <1>1, <1>2, CacheKept
<1> QED
  BY <1>4, <1>5 DEF GroupInv

LEMMA ExpiredGroup == ASSUME GroupInv, TaskStreamExpires  PROVE GroupInv'
<1>1. /\ data' = [data EXCEPT !.stream = NoStream]
      /\ expiredGroups' = expiredGroups \cup data.stream.groups
      /\ UNCHANGED <<running, program, cached>>
  BY DEF TaskStreamExpires
<1>2. RedisShape' /\ RegisterInv'
  BY <1>1 DEF GroupInv, RedisShape, RegisterInv, Step, WellFormed, DataFields, StreamFields,
              NoStream
<1>3. CachedGroupExists'
  BY <1>1 DEF GroupInv, CachedGroupExists
<1> QED
  BY <1>2, <1>3 DEF GroupInv

-----------------------------------------------------------------------------

\* CachedGroupExists: a group that RegisterConsumerGroup answers for from its map is
\* there on the server, unless the stream expired with its groups, for every number
\* of callers, retries and lost answers.
THEOREM Registration == RedisInit /\ [][RedisNext]_redisVars => []CachedGroupExists
<1>1. RedisInit => GroupInv
  BY DEF RedisInit, GroupInv, RedisShape, RegisterInv, CachedGroupExists, WellFormed, NoStream,
         NoCall, DataFields, StreamFields, CallFields
<1>2. GroupInv /\ [RedisNext]_redisVars => GroupInv'
  <2> SUFFICES ASSUME GroupInv, [RedisNext]_redisVars  PROVE GroupInv'
    OBVIOUS
  <2>1. CASE UNCHANGED redisVars
    BY <2>1 DEF redisVars, GroupInv, RedisShape, RegisterInv, CachedGroupExists, Step
  <2>2. CASE RedisNext
    BY <2>2, CallsGroup, AnsweredGroup, RoutineGroup, ExpiredGroup DEF RedisNext
  <2> QED
    BY <2>1, <2>2
<1>3. GroupInv => CachedGroupExists
  BY DEF GroupInv
<1> QED
  BY <1>1, <1>2, <1>3, PTL

-----------------------------------------------------------------------------
(***************************************************************************)
(* The requests that share the pool of contexts.                           *)
(***************************************************************************)

HandlerNames == {"gin.Recovery", "Trace", "Recovery", "Timeout"} \cup PassThrough \cup Handlers

\* The chain as far as handlers may follow.
Begun(s) ==
  /\ s \in Seq(HandlerNames)
  /\ \A i \in 1..Len(s) : s[i] # "handler"
  /\ Len(s) >= 6 /\ \A i \in 5..Len(s) : s[i] \in PassThrough \cup Handlers

Cat(u, s, t) == u = s \o t

LEMMA ChainJoined ==
  ASSUME NEW s \in Seq(HandlerNames), NEW t \in Seq(HandlerNames), NEW u, Cat(u, s, t)
  PROVE  /\ u \in Seq(HandlerNames) /\ Len(u) = Len(s) + Len(t)
         /\ \A i \in 1..Len(s) : u[i] = s[i]
         /\ \A i \in 1..Len(t) : u[Len(s) + i] = t[i]
BY ConcatProperties DEF Cat

LEMMA ChainExtended ==
  ASSUME NEW s, Begun(s), NEW x \in {"GinMiddleware", "Validator"},
         NEW more, more = << >> \/ more = <<x>>, NEW t, Cat(t, s, more)
  PROVE  /\ Begun(t)
         /\ Len(t) >= Len(s) /\ Len(t) <= Len(s) + 1
         /\ \A i \in 1..Len(s) : t[i] = s[i]
         /\ more = <<x>> => Len(t) = Len(s) + 1 /\ t[Len(s) + 1] = x
<1>0. s \in Seq(HandlerNames) /\ Len(s) \in Nat
  BY DEF Begun
<1>1. CASE more = <<x>>
  <2>1. more \in Seq(HandlerNames) /\ Len(more) = 1 /\ more[1] = x
    BY <1>1 DEF HandlerNames, Handlers
  <2>2. /\ t \in Seq(HandlerNames) /\ Len(t) = Len(s) + Len(more)
        /\ \A i \in 1..Len(s) : t[i] = s[i]
        /\ \A i \in 1..Len(more) : t[Len(s) + i] = more[i]
    <3>1. more \in Seq(HandlerNames) /\ s \in Seq(HandlerNames)
      BY <1>0, <2>1
    <3>2. t \in Seq(HandlerNames) /\ Len(t) = Len(s) + Len(more)
      BY <3>1, ChainJoined
    <3>3. \A i \in 1..Len(s) : t[i] = s[i]
      BY <3>1, ChainJoined
    <3>4. \A i \in 1..Len(more) : t[Len(s) + i] = more[i]
      BY <3>1, ChainJoined
    <3> QED BY <3>2, <3>3, <3>4
  <2>3. Len(t) = Len(s) + 1 /\ t[Len(s) + 1] = x
    BY <2>1, <2>2
  <2>4. Begun(t)
    BY <1>0, <2>2, <2>3 DEF Begun, Handlers
  <2> QED BY <1>0, <2>2, <2>3, <2>4
<1>2. CASE more = << >> /\ more # <<x>>
  <2>1. t = s
    BY <1>0, <1>2 DEF Cat
  <2> QED BY <1>0, <1>2, <2>1
<1> QED BY <1>1, <1>2

LEMMA ChainBase == Begun(Outer \o <<"Metrics", "CORS">>) /\ Len(Outer \o <<"Metrics", "CORS">>) = 6
<1> DEFINE base == Outer \o <<"Metrics", "CORS">>
<1>1. Begun(base) /\ Len(base) = 6
  <2>1. /\ Outer \in Seq(HandlerNames) /\ Len(Outer) = 4
        /\ \A i \in 1..4 : Outer[i] # "handler"
    BY DEF Outer, HandlerNames
  <2> DEFINE two == <<"Metrics", "CORS">>
  <2>2. two \in Seq(HandlerNames) /\ Len(two) = 2 /\ two[1] = "Metrics" /\ two[2] = "CORS"
    BY DEF HandlerNames, PassThrough
  <2>3. /\ base \in Seq(HandlerNames) /\ Len(base) = 6
        /\ base[5] = "Metrics" /\ base[6] = "CORS"
        /\ \A i \in 1..4 : base[i] = Outer[i]
    <3>1. Cat(base, Outer, two)
      BY DEF Cat
    <3> HIDE DEF base, two
    <3>2. /\ base \in Seq(HandlerNames) /\ Len(base) = Len(Outer) + Len(two)
          /\ \A i \in 1..Len(Outer) : base[i] = Outer[i]
          /\ \A i \in 1..Len(two) : base[Len(Outer) + i] = two[i]
      <4>1. Outer \in Seq(HandlerNames) /\ two \in Seq(HandlerNames)
        BY <2>1, <2>2
      <4>2. base \in Seq(HandlerNames) /\ Len(base) = Len(Outer) + Len(two)
        BY <3>1, <4>1, ChainJoined
      <4>3. \A i \in 1..Len(Outer) : base[i] = Outer[i]
        BY <3>1, <4>1, ChainJoined
      <4>4. \A i \in 1..Len(two) : base[Len(Outer) + i] = two[i]
        BY <3>1, <4>1, ChainJoined
      <4> QED BY <4>2, <4>3, <4>4
    <3>3. base[4 + 1] = "Metrics" /\ base[4 + 2] = "CORS"
      BY <2>1, <2>2, <3>2
    <3> QED BY <2>1, <2>2, <3>2, <3>3
  <2> HIDE DEF base
  <2>4. \A i \in 1..6 : base[i] # "handler"
    BY <2>1, <2>3
  <2>5. \A i \in 5..6 : base[i] \in PassThrough
    BY <2>3 DEF PassThrough
  <2> QED BY <2>3, <2>4, <2>5 DEF Begun
<1> QED BY <1>1

\* With the middlewares of the route.
LEMMA ChainMiddle ==
  ASSUME NEW base, Begun(base), Len(base) = 6,
         NEW k, k = << >> \/ k = <<"GinMiddleware">>, NEW v, v = << >> \/ v = <<"Validator">>,
         NEW keyed, Cat(keyed, base, k), NEW read, Cat(read, keyed, v)
  PROVE  /\ Begun(read) /\ Len(read) \in Nat /\ 6 <= Len(read) /\ Len(read) <= 8
         /\ k = <<"GinMiddleware">> => \E i \in 5..Len(read) : read[i] = "GinMiddleware"
         /\ v = <<"Validator">> => \E i \in 5..Len(read) : read[i] = "Validator"
<1>1. /\ Begun(keyed) /\ Len(keyed) >= 6 /\ Len(keyed) <= 7
      /\ k = <<"GinMiddleware">> => Len(keyed) = 7 /\ keyed[7] = "GinMiddleware"
  <2>1. /\ Begun(keyed) /\ Len(keyed) >= Len(base) /\ Len(keyed) <= Len(base) + 1
        /\ k = <<"GinMiddleware">> =>
             Len(keyed) = Len(base) + 1 /\ keyed[Len(base) + 1] = "GinMiddleware"
    BY ChainExtended
  <2> QED BY <2>1
<1>2. /\ Begun(read) /\ Len(read) >= Len(keyed) /\ Len(read) <= Len(keyed) + 1
      /\ \A i \in 1..Len(keyed) : read[i] = keyed[i]
      /\ v = <<"Validator">> => Len(read) = Len(keyed) + 1 /\ read[Len(keyed) + 1] = "Validator"
  BY <1>1, ChainExtended
<1>3. Len(keyed) \in Nat /\ Len(read) \in Nat
  BY <1>1, <1>2 DEF Begun
<1>4. Len(read) \in Nat /\ 6 <= Len(read) /\ Len(read) <= 8
  BY <1>1, <1>2, <1>3
<1>5. ASSUME k = <<"GinMiddleware">> PROVE \E i \in 5..Len(read) : read[i] = "GinMiddleware"
  <2>1. Len(keyed) = 7 /\ keyed[7] = "GinMiddleware"
    BY <1>1, <1>5
  <2>2. Len(read) >= 7 /\ read[7] = "GinMiddleware"
    BY <1>2, <1>3, <2>1
  <2>3. 7 \in 5..Len(read)
    BY <1>3, <2>2
  <2> QED BY <2>2, <2>3
<1>6. ASSUME v = <<"Validator">> PROVE \E i \in 5..Len(read) : read[i] = "Validator"
  <2>1. Len(read) = Len(keyed) + 1 /\ read[Len(read)] = "Validator"
    BY <1>2, <1>6
  <2>2. Len(read) \in 5..Len(read)
    BY <1>4
  <2> QED BY <2>1, <2>2
<1> QED BY <1>2, <1>4, <1>5, <1>6

\* With the handler of the route behind them.
LEMMA ChainWhole ==
  ASSUME NEW read, Begun(read), Len(read) \in Nat /\ 6 <= Len(read) /\ Len(read) <= 8, NEW ch, Cat(ch, read, <<"handler">>)
  PROVE  /\ ch \in Seq(HandlerNames)
         /\ Len(ch) \in Nat /\ 7 <= Len(ch) /\ Len(ch) <= 9 /\ Len(ch) = Len(read) + 1
         /\ \A i \in 1..Len(read) : ch[i] = read[i]
         /\ \A i \in 1..Len(ch) : (ch[i] = "handler") <=> i = Len(ch)
         /\ \A i \in 5..Len(ch) : ch[i] \in PassThrough \cup Handlers
<1> DEFINE last == <<"handler">>
<1>1. last \in Seq(HandlerNames) /\ Len(last) = 1 /\ last[1] = "handler"
  BY DEF HandlerNames, Handlers
<1>2. read \in Seq(HandlerNames)
  BY DEF Begun
<1>3. Cat(ch, read, last)
  OBVIOUS
<1> HIDE DEF last
<1>4. /\ ch \in Seq(HandlerNames) /\ Len(ch) = Len(read) + Len(last)
      /\ \A i \in 1..Len(read) : ch[i] = read[i]
      /\ \A i \in 1..Len(last) : ch[Len(read) + i] = last[i]
  BY <1>1, <1>2, <1>3, ChainJoined
<1>5. ch[Len(read) + 1] = "handler" /\ Len(ch) = Len(read) + 1
  BY <1>1, <1>4
<1>6. \A i \in 1..Len(ch) : (ch[i] = "handler") <=> i = Len(ch)
  BY <1>4, <1>5 DEF Begun
<1>7. \A i \in 5..Len(ch) : ch[i] \in PassThrough \cup Handlers
  BY <1>4, <1>5 DEF Begun, Handlers
<1>8. Len(ch) \in Nat /\ 7 <= Len(ch) /\ Len(ch) <= 9
  BY <1>5
<1> QED BY <1>4, <1>5, <1>6, <1>7, <1>8

LEMMA ChainShape ==
  ASSUME RequestAssumption, NEW r \in WebRequests
  PROVE  /\ Chain(r) \in Seq(HandlerNames)
         /\ Len(Chain(r)) \in Nat /\ 7 <= Len(Chain(r)) /\ Len(Chain(r)) <= 9
         /\ \A i \in 1..Len(Chain(r)) : (Chain(r)[i] = "handler") <=> i = Len(Chain(r))
         /\ \A i \in 5..Len(Chain(r)) : Chain(r)[i] \in PassThrough \cup Handlers
         /\ \A x \in Needs(r) : \E i \in 5..(Len(Chain(r)) - 1) : Chain(r)[i] = x
<1>1. PICK base : base = Outer \o <<"Metrics", "CORS">>
  OBVIOUS
<1>2. PICK k :
        /\ k = << >> \/ k = <<"GinMiddleware">>
        /\ k = IF Route[r].key THEN <<"GinMiddleware">> ELSE << >>
        /\ Route[r].key => k = <<"GinMiddleware">>
  OBVIOUS
<1>3. PICK v :
        /\ v = << >> \/ v = <<"Validator">>
        /\ v = IF Route[r].body THEN <<"Validator">> ELSE << >>
        /\ Route[r].body => v = <<"Validator">>
  OBVIOUS
<1>4. PICK keyed : Cat(keyed, base, k)
  BY DEF Cat
<1>5. PICK read : Cat(read, keyed, v)
  BY DEF Cat
<1>6. PICK ch : Cat(ch, read, <<"handler">>)
  BY DEF Cat
<1>a. Chain(r) = ch
  <2>1. r # NoRequest
    BY DEF RequestAssumption
  <2> QED BY <1>1, <1>2, <1>3, <1>4, <1>5, <1>6, <2>1 DEF Chain, Cat
<1>7. Begun(base) /\ Len(base) = 6
  BY <1>1, ChainBase
<1>8. /\ Begun(read) /\ Len(read) \in Nat /\ 6 <= Len(read) /\ Len(read) <= 8
      /\ Route[r].key => \E i \in 5..Len(read) : read[i] = "GinMiddleware"
      /\ Route[r].body => \E i \in 5..Len(read) : read[i] = "Validator"
  <2>1. /\ Begun(read) /\ Len(read) \in Nat /\ 6 <= Len(read) /\ Len(read) <= 8
        /\ k = <<"GinMiddleware">> => \E i \in 5..Len(read) : read[i] = "GinMiddleware"
        /\ v = <<"Validator">> => \E i \in 5..Len(read) : read[i] = "Validator"
    BY <1>2, <1>3, <1>4, <1>5, <1>7, ChainMiddle
  <2> QED BY <1>2, <1>3, <2>1
<1>9. /\ ch \in Seq(HandlerNames)
      /\ Len(ch) \in Nat /\ 7 <= Len(ch) /\ Len(ch) <= 9 /\ Len(ch) = Len(read) + 1
      /\ \A i \in 1..Len(read) : ch[i] = read[i]
      /\ \A i \in 1..Len(ch) : (ch[i] = "handler") <=> i = Len(ch)
      /\ \A i \in 5..Len(ch) : ch[i] \in PassThrough \cup Handlers
  BY <1>6, <1>8, ChainWhole
<1>10. \A x \in Needs(r) : \E i \in 5..Len(read) : read[i] = x
  BY <1>8 DEF Needs
<1>11. \A x \in Needs(r) : \E i \in 5..(Len(ch) - 1) : ch[i] = x
  BY <1>8, <1>9, <1>10
<1> QED BY <1>a, <1>9, <1>11
-----------------------------------------------------------------------------
Says == {"timeout", "no key", "bad body", "done"}
RequestAnswers == [by : WebRequests \cup {NoRequest}, says : Says]

Ctx(g) == inner[g].ctx
AtWork(g) == inner[g].at \in {"next", "runs"}

RequestShape ==
  /\ DOMAIN context = Contexts
  /\ \A c \in Contexts : /\ DOMAIN context[c] = {"req", "index", "open"}
                         /\ context[c].index \in Nat
                         /\ context[c].req \in WebRequests \cup {NoRequest}
  /\ DOMAIN inner = WebRequests
  /\ \A g \in WebRequests : /\ DOMAIN inner[g] = {"at", "ctx", "depth", "runs", "of"}
                            /\ inner[g].at \in {"none", "next", "runs", "done"}
                            /\ inner[g].ctx \in Contexts
                            /\ inner[g].of \in WebRequests \cup {NoRequest}
  /\ outer \in [WebRequests -> {"new", "waits", "ends", "gone"}]
  /\ answers \in [WebRequests -> Seq(RequestAnswers)]
  /\ DOMAIN passed = WebRequests /\ DOMAIN effects = WebRequests
  /\ lateOnes \subseteq WebRequests /\ clean \subseteq WebRequests

\* A context serves the last request that took it, and that one only.
PoolInv ==
  /\ \A r \in WebRequests : outer[r] = "new" =>
       /\ inner[r].at = "none" /\ r \notin clean /\ r \notin lateOnes
       /\ answers[r] = << >> /\ effects[r] = 0
       /\ \A c \in Contexts : context[c].req # r
       /\ \A g \in WebRequests : inner[g].of # r
  /\ \A r \in WebRequests : outer[r] \in {"waits", "ends"} =>
       context[Ctx(r)].open /\ context[Ctx(r)].req = r
  /\ \A c \in Contexts : context[c].open =>
       context[c].req \in WebRequests /\ outer[context[c].req] \in {"waits", "ends"}
  /\ \A r \in WebRequests, c \in Contexts : context[c].req = r => Ctx(r) = c

\* Only its own goroutine works on the context of a clean request, and for it.
OwnInv ==
  /\ \A r \in clean, g \in WebRequests : AtWork(g) /\ context[Ctx(g)].req = r => g = r
  /\ \A g \in WebRequests : inner[g].at = "runs" /\ inner[g].of \in clean => inner[g].of = g
  /\ \A g \in clean : inner[g].at = "runs" /\ context[Ctx(g)].req = g => inner[g].of = g

\* What the goroutine of g does in a step, whichever handler it is in: a handler
\* that lets the request pass, one that refuses it, the handler of the route.
Middlewares == {"GinMiddleware", "Validator"}
PassesOn(g) == \E name \in Middlewares :
  Runs(g, name) /\ LetPass(g, name) /\ UNCHANGED <<outer, effects, lateOnes, clean>>
Refuses(g) == \E name \in Middlewares, says \in Says :
  Runs(g, name) /\ Refuse(g, says) /\ UNCHANGED <<outer, effects, lateOnes, clean>>
Moves(g) == Advance(g) \/ PassesOn(g) \/ Refuses(g) \/ Serve(g)

LEMMA MiddlewareSteps ==
  \A g \in WebRequests : Authenticate(g) \/ Validate(g) => PassesOn(g) \/ Refuses(g)
BY DEF Authenticate, Validate, PassesOn, Refuses, Middlewares, Says

\* What a new value of the goroutine of g is about.
LEMMA Replaced ==
  ASSUME DOMAIN inner = WebRequests, NEW g \in WebRequests, NEW new,
         inner' = [inner EXCEPT ![g] = new]
  PROVE  /\ DOMAIN inner' = WebRequests /\ inner'[g] = new
         /\ \A h \in WebRequests : h # g => inner'[h] = inner[h]
OBVIOUS

\* The part of a step that all of them have in common.
LEMMA Common ==
  ASSUME RequestShape, NEW g \in WebRequests, Moves(g)
  PROVE  /\ UNCHANGED <<outer, lateOnes, clean>>
         /\ AtWork(g)
         /\ DOMAIN inner' = WebRequests /\ DOMAIN inner'[g] = {"at", "ctx", "depth", "runs", "of"}
         /\ \A h \in WebRequests : h # g => inner'[h] = inner[h]
         /\ inner'[g].ctx = Ctx(g)
         /\ inner'[g].at = "runs" => inner[g].at = "next" /\ inner'[g].of = context[Ctx(g)].req
         /\ inner'[g].at \in {"next", "runs", "done"}
         /\ inner'[g].of \in {inner[g].of, context[Ctx(g)].req}
<1>1. g \in DOMAIN inner /\ DOMAIN inner[g] = {"at", "ctx", "depth", "runs", "of"}
  BY DEF RequestShape
<1>2. CASE Advance(g)
  <2> DEFINE me == inner[g]
             i == context[me.ctx].index + 1
             chain == Chain(context[me.ctx].req)
  <2>1. /\ me.at = "next" /\ UNCHANGED <<outer, lateOnes, clean>>
        /\ \/ inner' = [inner EXCEPT ![g] = [me EXCEPT !.depth = @ + 1]]
           \/ inner' = [inner EXCEPT ![g] = [me EXCEPT !.at = "runs", !.runs = chain[i],
                                                       !.of = context[me.ctx].req]]
           \/ inner' = [inner EXCEPT ![g] = [me EXCEPT !.depth = @ - 1]]
           \/ inner' = [inner EXCEPT ![g] = [me EXCEPT !.at = "done"]]
    BY <1>2 DEF Advance
  <2> HIDE DEF i, chain
  <2>a. me.at = inner[g].at /\ me.ctx = inner[g].ctx /\ me.of = inner[g].of
    OBVIOUS
  <2>2. PICK new :
          /\ inner' = [inner EXCEPT ![g] = new]
          /\ \/ new = [me EXCEPT !.depth = @ + 1]
             \/ new = [me EXCEPT !.at = "runs", !.runs = chain[i], !.of = context[me.ctx].req]
             \/ new = [me EXCEPT !.depth = @ - 1]
             \/ new = [me EXCEPT !.at = "done"]
    BY <2>1
  <2>3. /\ DOMAIN new = {"at", "ctx", "depth", "runs", "of"} /\ new.ctx = me.ctx
        /\ new.at \in {"next", "runs", "done"} /\ new.of \in {me.of, context[me.ctx].req}
        /\ new.at = "runs" => new.of = context[me.ctx].req
    <3>1. CASE new = [me EXCEPT !.depth = @ + 1]
      BY <1>1, <2>1, <3>1
    <3>2. CASE new = [me EXCEPT !.at = "runs", !.runs = chain[i], !.of = context[me.ctx].req]
      BY <1>1, <3>2
    <3>3. CASE new = [me EXCEPT !.depth = @ - 1]
      BY <1>1, <2>1, <3>3
    <3>4. CASE new = [me EXCEPT !.at = "done"]
      BY <1>1, <3>4
    <3> QED BY <2>2, <3>1, <3>2, <3>3, <3>4
  <2>4. /\ DOMAIN inner' = WebRequests /\ inner'[g] = new
        /\ \A h \in WebRequests : h # g => inner'[h] = inner[h]
    BY <2>2, Replaced DEF RequestShape
  <2> HIDE DEF me
  <2> QED BY <2>1, <2>3, <2>4, <2>a DEF AtWork, Ctx
<1>3. CASE PassesOn(g) \/ Refuses(g) \/ Serve(g)
  <2>1. inner[g].at = "runs" /\ UNCHANGED <<outer, lateOnes, clean>>
    BY <1>3 DEF PassesOn, Refuses, Serve, Runs
  <2>2. CallNext(g) \/ Return(g)
    BY <1>3 DEF PassesOn, Refuses, Serve, LetPass, Refuse
  <2>3. /\ DOMAIN inner' = WebRequests
        /\ \A h \in WebRequests : h # g => inner'[h] = inner[h]
    BY <2>2 DEF CallNext, Return, RequestShape
  <2>4. /\ DOMAIN inner'[g] = {"at", "ctx", "depth", "runs", "of"} /\ inner'[g].at = "next"
        /\ inner'[g].ctx = inner[g].ctx /\ inner'[g].of = inner[g].of
    <3>1. CASE CallNext(g)
      BY <1>1, <3>1 DEF CallNext
    <3>2. CASE Return(g)
      BY <1>1, <3>2 DEF Return
    <3> QED BY <2>2, <3>1, <3>2
  <2> QED BY <2>1, <2>3, <2>4 DEF AtWork, Ctx
<1> QED BY <1>2, <1>3 DEF Moves

\* What the others see of it: the context keeps its request, an answer goes to
\* the request that the context serves, and what is done is done for the one
\* that the handler began with.
LEMMA Outside ==
  ASSUME RequestShape, NEW g \in WebRequests, Moves(g)
  PROVE  /\ DOMAIN context' = Contexts
         /\ \A c \in Contexts : /\ DOMAIN context'[c] = {"req", "index", "open"}
                                /\ context'[c].req = context[c].req
                                /\ context'[c].open = context[c].open
                                /\ context'[c].index \in Nat
                                /\ c # Ctx(g) => context'[c] = context[c]
                                /\ context'[c].index = context[c].index \/ context'[c].index >= AbortIndex
                                     \/ context'[c].index = context[c].index + 1
         /\ DOMAIN answers' = WebRequests
         /\ \A r \in WebRequests : answers'[r] # answers[r] =>
              /\ inner[g].at = "runs" /\ context[Ctx(g)].req = r /\ context[Ctx(g)].open
              /\ \E says \in Says : answers'[r] = Append(answers[r], [by |-> inner[g].of, says |-> says])
         /\ DOMAIN effects' = WebRequests
         /\ \A r \in WebRequests : effects'[r] # effects[r] => inner[g].at = "runs" /\ inner[g].of = r
         /\ DOMAIN passed' = WebRequests
         /\ \A r \in WebRequests : passed[r] \subseteq passed'[r]
<1>1. Ctx(g) \in Contexts
  BY DEF RequestShape, Ctx
<1>2. /\ DOMAIN context' = Contexts
      /\ \A c \in Contexts : /\ DOMAIN context'[c] = {"req", "index", "open"}
                             /\ context'[c].req = context[c].req
                             /\ context'[c].open = context[c].open
                             /\ context'[c].index \in Nat
                             /\ c # Ctx(g) => context'[c] = context[c]
                             /\ context'[c].index = context[c].index \/ context'[c].index >= AbortIndex
                                  \/ context'[c].index = context[c].index + 1
  <2>1. \/ context' = context
        \/ context' = [context EXCEPT ![Ctx(g)].index = AbortIndex]
        \/ context' = [context EXCEPT ![Ctx(g)].index = context[Ctx(g)].index + 1]
    BY DEF Moves, Advance, PassesOn, Refuses, Serve, LetPass, Refuse, Abort, Ctx
  <2>2. CASE context' = context
    BY <2>2 DEF RequestShape
  <2>3. CASE context' = [context EXCEPT ![Ctx(g)].index = AbortIndex]
    BY <1>1, <2>3 DEF RequestShape, AbortIndex
  <2>4. CASE context' = [context EXCEPT ![Ctx(g)].index = context[Ctx(g)].index + 1]
    BY <1>1, <2>4 DEF RequestShape
  <2> QED BY <2>1, <2>2, <2>3, <2>4
<1>3. /\ DOMAIN answers' = WebRequests
      /\ \A r \in WebRequests : answers'[r] # answers[r] =>
           /\ inner[g].at = "runs" /\ context[Ctx(g)].req = r /\ context[Ctx(g)].open
           /\ \E says \in Says : answers'[r] = Append(answers[r], [by |-> inner[g].of, says |-> says])
  <2>1. CASE answers' = answers
    BY <2>1 DEF RequestShape
  <2>2. ASSUME NEW says \in Says, Respond(g, says), inner[g].at = "runs"
        PROVE  /\ DOMAIN answers' = WebRequests
               /\ \A r \in WebRequests : answers'[r] # answers[r] =>
                    /\ inner[g].at = "runs" /\ context[Ctx(g)].req = r /\ context[Ctx(g)].open
                    /\ \E x \in Says : answers'[r] = Append(answers[r], [by |-> inner[g].of, says |-> x])
    BY <2>2 DEF RequestShape, Respond, Ctx
  <2>3. \/ answers' = answers
        \/ inner[g].at = "runs" /\ \E says \in Says : Respond(g, says)
    BY DEF Moves, Advance, PassesOn, Refuses, Serve, LetPass, Refuse, Runs, Says
  <2> QED BY <2>1, <2>2, <2>3
<1>4. /\ DOMAIN effects' = WebRequests
      /\ \A r \in WebRequests : effects'[r] # effects[r] => inner[g].at = "runs" /\ inner[g].of = r
  BY DEF RequestShape, Moves, Advance, PassesOn, Refuses, Serve, Runs
<1>5. /\ DOMAIN passed' = WebRequests
      /\ \A r \in WebRequests : passed[r] \subseteq passed'[r]
  BY DEF RequestShape, Moves, Advance, PassesOn, Refuses, Serve, LetPass, Refuse
<1> QED BY <1>2, <1>3, <1>4, <1>5

LEMMA AppendedAnswer ==
  ASSUME NEW S, NEW s \in Seq(S), NEW e \in S, NEW t, t = Append(s, e)
  PROVE  /\ t \in Seq(S) /\ Len(t) = Len(s) + 1 /\ Len(s) \in Nat
         /\ \A i \in DOMAIN t : i \in DOMAIN s \/ i = Len(s) + 1
         /\ \A i \in DOMAIN s : t[i] = s[i]
         /\ t[Len(s) + 1] = e
OBVIOUS

\* The steps, by kind.
LEMMA StepKinds ==
  ASSUME [RequestsNext]_requestVars
  PROVE  \/ \E r \in WebRequests : \/ \E c \in Contexts : Receive(r, c)
                                   \/ Complete(r) \/ TimesOut(r) \/ PutBack(r)
         \/ \E g \in WebRequests : Moves(g)
         \/ UNCHANGED <<context, outer, inner, answers, passed, effects, lateOnes, clean>>
BY MiddlewareSteps DEF RequestsNext, requestVars, Moves, Panic

LEMMA ShapeStep ==
  ASSUME RequestAssumption, RequestShape, [RequestsNext]_requestVars
  PROVE  RequestShape'
<1>1. ASSUME NEW r \in WebRequests, NEW c \in Contexts, Receive(r, c) PROVE RequestShape'
  <2>1. /\ context' = [context EXCEPT ![c] = [req |-> r, index |-> Len(Outer), open |-> TRUE]]
        /\ outer' = [outer EXCEPT ![r] = "waits"]
        /\ clean' \subseteq WebRequests
        /\ UNCHANGED <<answers, passed, effects, lateOnes>>
    BY <1>1 DEF Receive, RequestShape
  <2>2. /\ DOMAIN inner' = WebRequests
        /\ \A h \in WebRequests : h # r => inner'[h] = inner[h]
        /\ inner'[r] = [at |-> "next", ctx |-> c, depth |-> 0, runs |-> "none", of |-> NoRequest]
    BY <1>1 DEF Receive, RequestShape, NoRoutine
  <2>3. Len(Outer) = 4
    BY DEF Outer
  <2> QED BY <2>1, <2>2, <2>3 DEF RequestShape
<1>2. ASSUME NEW r \in WebRequests, Complete(r) PROVE RequestShape'
  BY <1>2 DEF Complete, RequestShape
<1>3. ASSUME NEW r \in WebRequests, TimesOut(r) PROVE RequestShape'
  <2>1. /\ context' = [context EXCEPT ![inner[r].ctx].index = AbortIndex]
        /\ outer' = [outer EXCEPT ![r] = "ends"]
        /\ lateOnes' = lateOnes \cup {r}
        /\ UNCHANGED <<inner, passed, effects, clean>>
    BY <1>3 DEF TimesOut
  <2>2. answers' \in [WebRequests -> Seq(RequestAnswers)]
    <3>1. [by |-> r, says |-> "timeout"] \in RequestAnswers
      BY DEF RequestAnswers, Says
    <3>2. Append(answers[r], [by |-> r, says |-> "timeout"]) \in Seq(RequestAnswers)
      BY <3>1 DEF RequestShape
    <3>3. answers' = [answers EXCEPT ![r] = Append(answers[r], [by |-> r, says |-> "timeout"])]
      BY <1>3 DEF TimesOut
    <3> QED BY <3>2, <3>3 DEF RequestShape
  <2> QED BY <2>1, <2>2 DEF RequestShape, AbortIndex
<1>4. ASSUME NEW r \in WebRequests, PutBack(r) PROVE RequestShape'
  BY <1>4 DEF PutBack, RequestShape
<1>5. ASSUME NEW g \in WebRequests, Moves(g) PROVE RequestShape'
  <2>1. answers' \in [WebRequests -> Seq(RequestAnswers)]
    <3>1. ASSUME NEW r \in WebRequests PROVE answers'[r] \in Seq(RequestAnswers)
      <4>1. CASE answers'[r] = answers[r]
        BY <4>1 DEF RequestShape
      <4>2. CASE answers'[r] # answers[r]
        <5>1. PICK says \in Says :
                answers'[r] = Append(answers[r], [by |-> inner[g].of, says |-> says])
          BY <1>5, <4>2, Outside
        <5>2. [by |-> inner[g].of, says |-> says] \in RequestAnswers
          BY DEF RequestShape, RequestAnswers
        <5>3. answers[r] \in Seq(RequestAnswers)
          BY DEF RequestShape
        <5> QED BY <5>1, <5>2, <5>3, AppendedAnswer
      <4> QED BY <4>1, <4>2
    <3>2. DOMAIN answers' = WebRequests
      BY <1>5, Outside
    <3>3. answers' = [r \in WebRequests |-> answers'[r]]
      <4>1. answers' = [answers EXCEPT ![context[Ctx(g)].req] = answers'[context[Ctx(g)].req]]
              \/ answers' = answers
        BY <1>5 DEF RequestShape, Moves, Advance, PassesOn, Refuses, Serve, LetPass, Refuse, Respond, Ctx
      <4> QED BY <3>2, <4>1 DEF RequestShape
    <3> QED BY <3>1, <3>3
  <2>2. /\ DOMAIN context' = Contexts
        /\ \A c \in Contexts : /\ DOMAIN context'[c] = {"req", "index", "open"}
                               /\ context'[c].index \in Nat
                               /\ context'[c].req \in WebRequests \cup {NoRequest}
    BY <1>5, Outside DEF RequestShape
  <2>3. /\ DOMAIN inner' = WebRequests
        /\ \A h \in WebRequests : /\ DOMAIN inner'[h] = {"at", "ctx", "depth", "runs", "of"}
                                  /\ inner'[h].at \in {"none", "next", "runs", "done"}
                                  /\ inner'[h].ctx \in Contexts
                                  /\ inner'[h].of \in WebRequests \cup {NoRequest}
    <3>1. /\ DOMAIN inner' = WebRequests /\ DOMAIN inner'[g] = {"at", "ctx", "depth", "runs", "of"}
          /\ \A h \in WebRequests : h # g => inner'[h] = inner[h]
          /\ inner'[g].ctx = inner[g].ctx
          /\ inner'[g].at \in {"next", "runs", "done"}
          /\ inner'[g].of \in {inner[g].of, context[inner[g].ctx].req}
      BY <1>5, Common DEF Ctx
    <3>2. /\ inner'[g].ctx \in Contexts
          /\ inner'[g].of \in WebRequests \cup {NoRequest}
      BY <3>1 DEF RequestShape
    <3>3. \A h \in WebRequests : h # g =>
            /\ DOMAIN inner'[h] = {"at", "ctx", "depth", "runs", "of"}
            /\ inner'[h].at \in {"none", "next", "runs", "done"}
            /\ inner'[h].ctx \in Contexts
            /\ inner'[h].of \in WebRequests \cup {NoRequest}
      BY <3>1 DEF RequestShape
    <3> QED BY <3>1, <3>2, <3>3
  <2>4. DOMAIN passed' = WebRequests /\ DOMAIN effects' = WebRequests
    BY <1>5, Outside
  <2>5. UNCHANGED <<outer, lateOnes, clean>>
    BY <1>5, Common
  <2> QED BY <2>1, <2>2, <2>3, <2>4, <2>5 DEF RequestShape
<1>6. CASE UNCHANGED <<context, outer, inner, answers, passed, effects, lateOnes, clean>>
  BY <1>6 DEF RequestShape
<1> QED BY <1>1, <1>2, <1>3, <1>4, <1>5, <1>6, StepKinds

LEMMA PoolStep ==
  ASSUME RequestAssumption, RequestShape, PoolInv, [RequestsNext]_requestVars
  PROVE  PoolInv'
<1>0. \A h \in WebRequests : inner[h].ctx \in Contexts
  BY DEF RequestShape
<1>1. ASSUME NEW r \in WebRequests, NEW c \in Contexts, Receive(r, c) PROVE PoolInv'
  <2>1. /\ outer[r] = "new" /\ ~context[c].open
        /\ outer'[r] = "waits" /\ \A h \in WebRequests : h # r => outer'[h] = outer[h]
        /\ context'[c].req = r /\ context'[c].open
        /\ \A d \in Contexts : d # c => context'[d] = context[d]
        /\ inner'[r].ctx = c /\ inner'[r].of = NoRequest
        /\ \A h \in WebRequests : h # r => inner'[h] = inner[h]
        /\ \A h \in WebRequests : h # r /\ h \notin clean => h \notin clean'
        /\ UNCHANGED <<answers, effects, lateOnes>>
    BY <1>1 DEF Receive, RequestShape, NoRoutine
  <2>2. NoRequest \notin WebRequests
    BY DEF RequestAssumption
  <2>3. \A h \in WebRequests : outer'[h] = "new" =>
          /\ inner'[h].at = "none" /\ h \notin clean' /\ h \notin lateOnes'
          /\ answers'[h] = << >> /\ effects'[h] = 0
          /\ \A d \in Contexts : context'[d].req # h
          /\ \A g \in WebRequests : inner'[g].of # h
    BY <2>1, <2>2 DEF PoolInv
  <2>4. \A h \in WebRequests : outer'[h] \in {"waits", "ends"} =>
          context'[inner'[h].ctx].open /\ context'[inner'[h].ctx].req = h
    <3>1. ASSUME NEW h \in WebRequests, h # r, outer'[h] \in {"waits", "ends"}
          PROVE  context'[inner'[h].ctx].open /\ context'[inner'[h].ctx].req = h
      <4>1. context[inner[h].ctx].open /\ context[inner[h].ctx].req = h
        BY <2>1, <3>1 DEF PoolInv, Ctx
      <4>2. inner[h].ctx # c /\ inner'[h] = inner[h]
        BY <2>1, <3>1, <4>1
      <4> QED BY <1>0, <2>1, <4>1, <4>2
    <3> QED BY <2>1, <3>1
  <2>5. \A d \in Contexts : context'[d].open =>
          context'[d].req \in WebRequests /\ outer'[context'[d].req] \in {"waits", "ends"}
    BY <2>1 DEF PoolInv
  <2>6. \A h \in WebRequests, d \in Contexts : context'[d].req = h => inner'[h].ctx = d
    BY <2>1 DEF PoolInv, Ctx
  <2> QED BY <2>3, <2>4, <2>5, <2>6 DEF PoolInv, Ctx
<1>2. ASSUME NEW r \in WebRequests, Complete(r) PROVE PoolInv'
  BY <1>2 DEF Complete, RequestShape, PoolInv, Ctx
<1>3. ASSUME NEW r \in WebRequests, TimesOut(r) PROVE PoolInv'
  <2>1. /\ outer[r] = "waits" /\ outer'[r] = "ends"
        /\ \A h \in WebRequests : h # r => /\ outer'[h] = outer[h]
                                           /\ answers'[h] = answers[h]
                                           /\ (h \in lateOnes' <=> h \in lateOnes)
        /\ \A d \in Contexts : context'[d].req = context[d].req /\ context'[d].open = context[d].open
        /\ UNCHANGED <<inner, effects, clean>>
    BY <1>3 DEF TimesOut, RequestShape
  <2>2. \A h \in WebRequests : outer'[h] = "new" =>
          /\ h # r /\ outer[h] = "new" /\ answers'[h] = answers[h]
          /\ (h \in lateOnes' <=> h \in lateOnes)
    BY <2>1
  <2>3. \A h \in WebRequests : outer'[h] \in {"waits", "ends"} <=> outer[h] \in {"waits", "ends"}
    BY <2>1
  <2> QED BY <1>0, <2>1, <2>2, <2>3 DEF PoolInv, Ctx
<1>4. ASSUME NEW r \in WebRequests, PutBack(r) PROVE PoolInv'
  <2>1. /\ outer[r] = "ends" /\ outer'[r] = "gone"
        /\ \A h \in WebRequests : h # r => outer'[h] = outer[h]
        /\ \A d \in Contexts : /\ context'[d].req = context[d].req
                               /\ d # Ctx(r) => context'[d].open = context[d].open
        /\ ~context'[Ctx(r)].open
        /\ UNCHANGED <<inner, answers, effects, lateOnes, clean>>
    BY <1>4 DEF PutBack, RequestShape, Ctx
  <2>2. \A h \in WebRequests : outer'[h] = "new" => outer[h] = "new"
    BY <2>1
  <2>3. ASSUME NEW h \in WebRequests, outer'[h] \in {"waits", "ends"}
        PROVE  context'[Ctx(h)].open /\ context'[Ctx(h)].req = h
    <3>1. h # r /\ outer[h] \in {"waits", "ends"}
      BY <2>1, <2>3
    <3>2. context[Ctx(h)].open /\ context[Ctx(h)].req = h /\ context[Ctx(r)].req = r
      BY <2>1, <3>1 DEF PoolInv
    <3>3. Ctx(h) # Ctx(r)
      BY <3>1, <3>2
    <3> QED BY <1>0, <2>1, <3>2, <3>3 DEF Ctx
  <2>4. ASSUME NEW d \in Contexts, context'[d].open
        PROVE  context'[d].req \in WebRequests /\ outer'[context'[d].req] \in {"waits", "ends"}
    <3>1. d # Ctx(r) /\ context[d].open
      BY <2>1, <2>4
    <3>2. context[d].req # r
      BY <3>1 DEF PoolInv
    <3> QED BY <2>1, <3>1, <3>2 DEF PoolInv
  <2> QED BY <2>1, <2>2, <2>3, <2>4 DEF PoolInv, Ctx
<1>5. ASSUME NEW g \in WebRequests, Moves(g) PROVE PoolInv'
  <2>1. /\ UNCHANGED <<outer, lateOnes, clean>>
        /\ AtWork(g)
        /\ \A h \in WebRequests : h # g => inner'[h] = inner[h]
        /\ inner'[g].ctx = Ctx(g)
        /\ inner'[g].of \in {inner[g].of, context[Ctx(g)].req}
    BY <1>5, Common
  <2>2. /\ \A c \in Contexts : context'[c].req = context[c].req /\ context'[c].open = context[c].open
        /\ \A r \in WebRequests : answers'[r] # answers[r] => context[Ctx(g)].req = r
        /\ \A r \in WebRequests : effects'[r] # effects[r] => inner[g].of = r
    BY <1>5, Outside
  <2>3. outer[g] # "new" /\ Ctx(g) \in Contexts
    BY <2>1 DEF PoolInv, AtWork, RequestShape, Ctx
  <2>4. \A h \in WebRequests : outer'[h] = "new" =>
          /\ inner'[h].at = "none" /\ h \notin clean' /\ h \notin lateOnes'
          /\ answers'[h] = << >> /\ effects'[h] = 0
          /\ \A d \in Contexts : context'[d].req # h
          /\ \A k \in WebRequests : inner'[k].of # h
    BY <2>1, <2>2, <2>3 DEF PoolInv
  <2>5. \A h \in WebRequests : inner'[h].ctx = inner[h].ctx
    BY <2>1 DEF Ctx
  <2> QED BY <2>1, <2>2, <2>4, <2>5 DEF PoolInv, Ctx, RequestShape
<1>6. CASE UNCHANGED <<context, outer, inner, answers, passed, effects, lateOnes, clean>>
  BY <1>6 DEF PoolInv, Ctx
<1> QED BY <1>1, <1>2, <1>3, <1>4, <1>5, <1>6, StepKinds

LEMMA OwnStep ==
  ASSUME RequestAssumption, RequestShape, PoolInv, OwnInv, [RequestsNext]_requestVars
  PROVE  OwnInv'
<1>0. /\ \A h \in WebRequests : inner[h].ctx \in Contexts
      /\ clean \subseteq WebRequests
  BY DEF RequestShape
<1>1. ASSUME NEW r \in WebRequests, NEW c \in Contexts, Receive(r, c) PROVE OwnInv'
  <2>1. /\ outer[r] = "new"
        /\ context'[c].req = r
        /\ \A d \in Contexts : d # c => context'[d] = context[d]
        /\ inner'[r].ctx = c /\ inner'[r].at = "next"
        /\ \A h \in WebRequests : h # r => inner'[h] = inner[h]
        /\ clean \subseteq clean' /\ clean' \subseteq clean \cup {r}
        /\ r \in clean' => \A g \in WebRequests : ~WorksOn(g, c)
    BY <1>1 DEF Receive, RequestShape, NoRoutine, PoolInv
  <2>2. r \notin clean /\ \A g \in WebRequests : inner[g].of # r
    BY <2>1 DEF PoolInv
  <2>3. \A q \in clean', g \in WebRequests :
          (inner'[g].at \in {"next", "runs"} /\ context'[inner'[g].ctx].req = q) => g = q
    <3>1. ASSUME NEW q \in clean', NEW g \in WebRequests, g # r,
                 inner'[g].at \in {"next", "runs"}, context'[inner'[g].ctx].req = q
          PROVE  g = q
      <4>1. CASE inner[g].ctx = c
        <5>1. q = r /\ WorksOn(g, c)
          BY <2>1, <3>1, <4>1 DEF WorksOn
        <5> QED BY <2>1, <5>1
      <4>2. CASE inner[g].ctx # c
        <5>1. context[inner[g].ctx].req = q /\ inner[g].at \in {"next", "runs"}
          BY <1>0, <2>1, <3>1, <4>2
        <5>2. q # r
          BY <1>0, <2>1, <5>1 DEF PoolInv
        <5> QED BY <2>1, <5>1, <5>2 DEF OwnInv, AtWork, Ctx
      <4> QED BY <4>1, <4>2
    <3>2. ASSUME NEW q \in clean', context'[inner'[r].ctx].req = q PROVE r = q
      BY <2>1, <3>2
    <3> QED BY <3>1, <3>2
  <2>4. \A g \in WebRequests : inner'[g].at = "runs" /\ inner'[g].of \in clean' => inner'[g].of = g
    BY <2>1, <2>2 DEF OwnInv
  <2>5. \A g \in clean' : inner'[g].at = "runs" /\ context'[inner'[g].ctx].req = g => inner'[g].of = g
    <3>1. ASSUME NEW g \in clean', inner'[g].at = "runs", context'[inner'[g].ctx].req = g
          PROVE  inner'[g].of = g
      <4>1. g # r /\ g \in clean /\ inner'[g] = inner[g]
        BY <1>0, <2>1, <3>1
      <4>2. inner[g].ctx # c
        BY <2>1, <3>1, <4>1
      <4> QED BY <1>0, <2>1, <3>1, <4>1, <4>2 DEF OwnInv, Ctx
    <3> QED BY <3>1
  <2> QED BY <2>3, <2>4, <2>5 DEF OwnInv, Ctx, AtWork
<1>2. ASSUME NEW r \in WebRequests, Complete(r) \/ TimesOut(r) \/ PutBack(r) PROVE OwnInv'
  <2>1. /\ UNCHANGED <<inner, clean>>
        /\ \A d \in Contexts : context'[d].req = context[d].req
    <3>1. CASE Complete(r)
      BY <3>1 DEF Complete
    <3>2. CASE TimesOut(r)
      BY <3>2 DEF TimesOut, RequestShape
    <3>3. CASE PutBack(r)
      BY <3>3 DEF PutBack, RequestShape
    <3> QED BY <1>2, <3>1, <3>2, <3>3
  <2> QED BY <1>0, <2>1 DEF OwnInv, Ctx, AtWork
<1>3. ASSUME NEW g \in WebRequests, Moves(g) PROVE OwnInv'
  <2>1. /\ UNCHANGED clean
        /\ AtWork(g)
        /\ \A h \in WebRequests : h # g => inner'[h] = inner[h]
        /\ inner'[g].ctx = Ctx(g)
        /\ inner'[g].at = "runs" => inner'[g].of = context[Ctx(g)].req
    BY <1>3, Common
  <2>2. \A c \in Contexts : context'[c].req = context[c].req
    BY <1>3, Outside
  <2>3. \A h \in WebRequests : inner'[h].ctx = inner[h].ctx /\ inner[h].ctx \in Contexts
    BY <2>1 DEF Ctx, RequestShape
  <2>4. \A q \in clean, h \in WebRequests :
          (inner'[h].at \in {"next", "runs"} /\ context'[inner'[h].ctx].req = q) => h = q
    BY <2>1, <2>2, <2>3 DEF OwnInv, AtWork, Ctx
  <2>5. \A h \in WebRequests : inner'[h].at = "runs" /\ inner'[h].of \in clean => inner'[h].of = h
    BY <2>1, <2>2, <2>3 DEF OwnInv, AtWork, Ctx
  <2>6. \A h \in clean : inner'[h].at = "runs" /\ context'[inner'[h].ctx].req = h => inner'[h].of = h
    BY <1>0, <2>1, <2>2, <2>3 DEF OwnInv, Ctx
  <2> QED BY <2>1, <2>4, <2>5, <2>6 DEF OwnInv, Ctx, AtWork
<1>4. CASE UNCHANGED <<context, outer, inner, answers, passed, effects, lateOnes, clean>>
  BY <1>4 DEF OwnInv, Ctx, AtWork
<1> QED BY <1>1, <1>2, <1>3, <1>4, StepKinds

-----------------------------------------------------------------------------
\* The middlewares at the first i places of its chain have let r pass.
PassedUpTo(r, i) ==
  \A k \in 5..i : Chain(r)[k] \in Middlewares => Chain(r)[k] \in passed[r]

AnsweredByItself(r) == \A i \in DOMAIN answers[r] : answers[r][i].by = r
ServedOnce(r) == effects[r] \in {0, 1} /\ (effects[r] = 1 => Needs(r) \subseteq passed[r])

\* A handler that began with r has not answered yet; the one of the route runs
\* after the middlewares.
InHandler(r) ==
  inner[r].at = "runs" /\ inner[r].of = r =>
    /\ effects[r] = 0
    /\ inner[r].runs = "handler" => Needs(r) \subseteq passed[r]
    /\ r \notin lateOnes => answers[r] = << >>
    /\ r \in lateOnes => Len(answers[r]) = 1

\* Where a request is that has not timed out: before its answer, the index is
\* within its chain and the middlewares before it have let it pass.
Waiting(r) ==
  outer[r] = "waits" =>
    LET i == context[Ctx(r)].index IN
    /\ r \notin lateOnes /\ i >= 4 /\ inner[r].at # "none"
    /\ inner[r].at = "next" =>
         \/ (i < Len(Chain(r)) /\ answers[r] = << >> /\ effects[r] = 0 /\ PassedUpTo(r, i))
         \/ (i >= Len(Chain(r)) /\ Len(answers[r]) = 1)
    /\ inner[r].at = "runs" =>
         /\ inner[r].of = r /\ 5 <= i /\ i <= Len(Chain(r))
         /\ inner[r].runs = Chain(r)[i] /\ PassedUpTo(r, i - 1)
    /\ inner[r].at = "done" => Len(answers[r]) = 1

TurnEnded(r) ==
  outer[r] \in {"ends", "gone"} =>
    /\ r \notin lateOnes => inner[r].at = "done" /\ Len(answers[r]) = 1
    /\ r \in lateOnes => /\ Len(answers[r]) \in {1, 2}
                         /\ context[Ctx(r)].req = r => context[Ctx(r)].index >= AbortIndex

Phase(r) == AnsweredByItself(r) /\ ServedOnce(r) /\ InHandler(r) /\ Waiting(r) /\ TurnEnded(r)

\* What is left alone stays in its phase.
LEMMA PhaseKept ==
  ASSUME NEW r \in WebRequests, Phase(r),
         inner'[r] = inner[r], outer'[r] = outer[r], answers'[r] = answers[r],
         effects'[r] = effects[r], passed[r] \subseteq passed'[r],
         (r \in lateOnes') <=> (r \in lateOnes),
         outer[r] = "waits" => context'[Ctx(r)].index = context[Ctx(r)].index,
         context'[Ctx(r)].req = r =>
           /\ context[Ctx(r)].req = r
           /\ \/ context'[Ctx(r)].index = context[Ctx(r)].index
              \/ context'[Ctx(r)].index >= AbortIndex
  PROVE  Phase(r)'
<1>1. AnsweredByItself(r)' /\ ServedOnce(r)' /\ InHandler(r)'
  BY DEF Phase, AnsweredByItself, ServedOnce, InHandler
<1>2. \A i : PassedUpTo(r, i) => PassedUpTo(r, i)'
  BY DEF PassedUpTo
<1>3. Waiting(r)'
  BY <1>2 DEF Phase, Waiting, Ctx
<1>4. TurnEnded(r)'
  BY DEF Phase, TurnEnded, Ctx
<1> QED BY <1>1, <1>3, <1>4 DEF Phase

LEMMA OneMore == \A n, m : (n \in {0, 1} /\ m = n + 1) => m \in {1, 2}
OBVIOUS

LEMMA AtMost == \A n : /\ (n \in {0, 1} => n <= 1) /\ (n \in {1, 2} => n <= 2 /\ n # 0) /\ (n = 1 => n <= 1 /\ n # 0)
OBVIOUS

LEMMA EmptyLen == \A s : s = << >> => Len(s) = 0
OBVIOUS

LEMMA AnsweredOnceMore ==
  ASSUME RequestShape, NEW r \in WebRequests, AnsweredByItself(r),
         NEW says \in Says, answers'[r] = Append(answers[r], [by |-> r, says |-> says])
  PROVE  AnsweredByItself(r)' /\ Len(answers'[r]) = Len(answers[r]) + 1 /\ Len(answers[r]) \in Nat
<1>1. [by |-> r, says |-> says] \in RequestAnswers /\ answers[r] \in Seq(RequestAnswers)
  BY DEF RequestAnswers, RequestShape
<1>2. PICK e : e = [by |-> r, says |-> says]
  OBVIOUS
<1>3. e \in RequestAnswers /\ e.by = r /\ answers'[r] = Append(answers[r], e)
  BY <1>1, <1>2
<1>4. /\ Len(answers'[r]) = Len(answers[r]) + 1 /\ Len(answers[r]) \in Nat
      /\ \A i \in DOMAIN answers'[r] : i \in DOMAIN answers[r] \/ i = Len(answers[r]) + 1
      /\ \A i \in DOMAIN answers[r] : answers'[r][i] = answers[r][i]
      /\ answers'[r][Len(answers[r]) + 1] = e
  BY <1>1, <1>3, AppendedAnswer
<1> QED BY <1>3, <1>4 DEF AnsweredByItself

\* A request is not disturbed by the goroutines of the others.
LEMMA OthersMove ==
  ASSUME RequestShape, PoolInv, OwnInv, NEW r \in clean, Phase(r),
         NEW g \in WebRequests, g # r, Moves(g)
  PROVE  Phase(r)'
<1>1. r \in WebRequests /\ Ctx(r) \in Contexts
  BY DEF RequestShape, Ctx
<1>2. /\ AtWork(g) /\ inner'[r] = inner[r]
      /\ outer'[r] = outer[r] /\ ((r \in lateOnes') <=> (r \in lateOnes))
  BY <1>1, Common
<1>3. context[Ctx(g)].req # r
  BY <1>2 DEF OwnInv
<1>4. ~(inner[g].at = "runs" /\ inner[g].of = r)
  BY DEF OwnInv
<1>5. answers'[r] = answers[r] /\ effects'[r] = effects[r] /\ passed[r] \subseteq passed'[r]
  <2>1. answers'[r] = answers[r]
    BY <1>1, <1>3, Outside
  <2>2. effects'[r] = effects[r]
    BY <1>1, <1>4, Outside
  <2>3. passed[r] \subseteq passed'[r]
    BY <1>1, Outside
  <2> QED BY <2>1, <2>2, <2>3
<1>6. /\ context'[Ctx(r)].req = context[Ctx(r)].req
      /\ Ctx(r) # Ctx(g) => context'[Ctx(r)] = context[Ctx(r)]
  BY <1>1, Outside
<1>7. outer[r] = "waits" => context'[Ctx(r)].index = context[Ctx(r)].index
  BY <1>1, <1>3, <1>6 DEF PoolInv
<1>8. context'[Ctx(r)].req = r => context'[Ctx(r)].index = context[Ctx(r)].index
  BY <1>3, <1>6
<1> QED BY <1>1, <1>2, <1>5, <1>6, <1>7, <1>8, PhaseKept

\* An answer that the goroutine of r gives to r is its own.
LEMMA OwnAnswer ==
  ASSUME RequestShape, OwnInv, NEW r \in clean, Moves(r), AnsweredByItself(r), answers'[r] # answers[r]
  PROVE  /\ inner[r].at = "runs" /\ inner[r].of = r /\ context[Ctx(r)].req = r
         /\ AnsweredByItself(r)' /\ Len(answers'[r]) = Len(answers[r]) + 1 /\ Len(answers[r]) \in Nat
<1>1. r \in WebRequests
  BY DEF RequestShape
<1>2. /\ inner[r].at = "runs" /\ context[Ctx(r)].req = r
      /\ \E says \in Says : answers'[r] = Append(answers[r], [by |-> inner[r].of, says |-> says])
  BY <1>1, Outside
<1>3. inner[r].of = r
  BY <1>2 DEF OwnInv
<1>4. PICK says \in Says : answers'[r] = Append(answers[r], [by |-> r, says |-> says])
  BY <1>2, <1>3
<1> QED BY <1>1, <1>2, <1>3, <1>4, AnsweredOnceMore

\* What the goroutine of a request that has timed out may still do.
LEMMA LateMove ==
  ASSUME RequestAssumption, RequestShape, PoolInv, OwnInv,
         NEW r \in clean, r \in lateOnes, Phase(r), Moves(r)
  PROVE  Phase(r)'
<1>1. /\ r \in WebRequests /\ Ctx(r) \in Contexts
      /\ outer[r] \in {"new", "waits", "ends", "gone"} /\ DOMAIN inner = WebRequests
  BY DEF RequestShape, Ctx
<1>2. /\ outer'[r] = outer[r] /\ r \in lateOnes' /\ inner'[r].ctx = Ctx(r)
      /\ inner'[r].at = "runs" => inner[r].at = "next" /\ inner'[r].of = context[Ctx(r)].req
  BY <1>1, Common
<1>3. outer[r] \in {"ends", "gone"}
  BY <1>1 DEF PoolInv, Phase, Waiting
<1>4. /\ Len(answers[r]) \in {1, 2}
      /\ context[Ctx(r)].req = r => context[Ctx(r)].index >= AbortIndex
  BY <1>3 DEF Phase, TurnEnded
<1>5. /\ context'[Ctx(r)].req = context[Ctx(r)].req
      /\ context'[Ctx(r)].index = context[Ctx(r)].index \/ context'[Ctx(r)].index >= AbortIndex
           \/ context'[Ctx(r)].index = context[Ctx(r)].index + 1
      /\ context[Ctx(r)].index \in Nat
      /\ passed[r] \subseteq passed'[r]
  <2>1. /\ context'[Ctx(r)].req = context[Ctx(r)].req
        /\ context'[Ctx(r)].index = context[Ctx(r)].index \/ context'[Ctx(r)].index >= AbortIndex
           \/ context'[Ctx(r)].index = context[Ctx(r)].index + 1
    BY <1>1, Outside
  <2>2. passed[r] \subseteq passed'[r]
    BY <1>1, Outside
  <2> QED BY <1>1, <2>1, <2>2 DEF RequestShape
<1>6. context'[Ctx(r)].req = r => context'[Ctx(r)].index >= AbortIndex
  BY <1>4, <1>5 DEF AbortIndex
<1>7. AnsweredByItself(r)' /\ Len(answers'[r]) \in {1, 2}
  <2>1. CASE answers'[r] = answers[r]
    BY <1>4, <2>1 DEF Phase, AnsweredByItself
  <2>2. CASE answers'[r] # answers[r]
    <3>1. /\ inner[r].at = "runs" /\ inner[r].of = r
          /\ AnsweredByItself(r)' /\ Len(answers'[r]) = Len(answers[r]) + 1
      BY <2>2, OwnAnswer DEF Phase
    <3>2. Len(answers[r]) = 1
      BY <3>1 DEF Phase, InHandler
    <3> QED BY <3>1, <3>2
  <2> QED BY <2>1, <2>2
<1>8. ServedOnce(r)'
  <2>1. CASE effects'[r] = effects[r]
    BY <1>5, <2>1 DEF Phase, ServedOnce
  <2>2. CASE effects'[r] # effects[r]
    <3>1. inner[r].at = "runs" /\ inner[r].of = r
      BY <1>1, <2>2, Outside
    <3>2. Serve(r)
      BY <2>2 DEF Moves, Advance, PassesOn, Refuses
    <3>3. inner[r].runs = "handler" /\ effects' = [effects EXCEPT ![inner[r].of] = @ + 1]
      BY <3>2 DEF Serve, Runs
    <3>4. effects[r] = 0 /\ Needs(r) \subseteq passed[r]
      BY <3>1, <3>3 DEF Phase, InHandler
    <3>5. effects'[r] = 1
      BY <1>1, <3>1, <3>3, <3>4 DEF RequestShape
    <3> QED BY <1>5, <3>4, <3>5 DEF ServedOnce
  <2> QED BY <2>1, <2>2
<1>9. ~(inner'[r].at = "runs" /\ inner'[r].of = r)
  <2>1. SUFFICES ASSUME inner'[r].at = "runs", inner'[r].of = r PROVE FALSE
    OBVIOUS
  <2>2. inner[r].at = "next" /\ context[Ctx(r)].req = r
    BY <1>2, <2>1
  <2>3. Advance(r)
    BY <2>2 DEF Moves, PassesOn, Refuses, Serve, Runs
  <2>4. context[Ctx(r)].index + 1 > Len(Chain(r))
    <3>1. Len(Chain(r)) \in Nat /\ Len(Chain(r)) <= 9
      BY <1>1, ChainShape
    <3> QED BY <1>4, <1>5, <2>2, <3>1 DEF AbortIndex
  <2>5. Len(Chain(r)) \in Nat
    BY <1>1, ChainShape
  <2>6. \/ inner' = [inner EXCEPT ![r] = [inner[r] EXCEPT !.depth = @ - 1]]
        \/ inner' = [inner EXCEPT ![r] = [inner[r] EXCEPT !.at = "done"]]
    <3>1. PICK i : i = context[inner[r].ctx].index + 1
      OBVIOUS
    <3>2. ~(i <= Len(Chain(r)))
      BY <1>5, <2>4, <2>5, <3>1 DEF Ctx
    <3>3. inner' = [inner EXCEPT ![r] =
            IF i <= Len(Chain(r)) /\ Chain(r)[i] \in PassThrough
            THEN [inner[r] EXCEPT !.depth = @ + 1]
            ELSE IF i <= Len(Chain(r))
            THEN [inner[r] EXCEPT !.at = "runs", !.runs = Chain(r)[i], !.of = r]
            ELSE IF inner[r].depth > 0 THEN [inner[r] EXCEPT !.depth = @ - 1]
            ELSE [inner[r] EXCEPT !.at = "done"]]
      BY <2>2, <2>3, <3>1 DEF Advance, Ctx
    <3> QED BY <3>2, <3>3
  <2>7. inner'[r].at \in {"next", "done"}
    BY <1>1, <2>2, <2>6 DEF RequestShape
  <2> QED BY <2>1, <2>7
<1>10. InHandler(r)' /\ Waiting(r)'
  BY <1>2, <1>3, <1>9 DEF InHandler, Waiting
<1>11. TurnEnded(r)'
  BY <1>2, <1>6, <1>7 DEF TurnEnded, Ctx
<1> QED BY <1>7, <1>8, <1>10, <1>11 DEF Phase

\* What is known of a request whose time is not over when its goroutine moves.
LEMMA Awaited ==
  ASSUME RequestAssumption, RequestShape, PoolInv, NEW r \in clean, r \notin lateOnes, Phase(r),
         Moves(r)
  PROVE  /\ r \in WebRequests /\ Ctx(r) \in Contexts /\ outer[r] = "waits"
         /\ context[Ctx(r)].open /\ context[Ctx(r)].req = r /\ context[Ctx(r)].index \in Nat
         /\ DOMAIN inner = WebRequests /\ DOMAIN inner[r] = {"at", "ctx", "depth", "runs", "of"}
         /\ outer'[r] = "waits" /\ r \notin lateOnes' /\ inner'[r].ctx = Ctx(r)
         /\ Len(Chain(r)) \in Nat
<1>1. /\ r \in WebRequests /\ Ctx(r) \in Contexts
      /\ outer[r] \in {"new", "waits", "ends", "gone"}
      /\ context[Ctx(r)].index \in Nat
      /\ DOMAIN inner = WebRequests /\ DOMAIN inner[r] = {"at", "ctx", "depth", "runs", "of"}
  BY DEF RequestShape, Ctx
<1>2. outer'[r] = outer[r] /\ r \notin lateOnes' /\ inner'[r].ctx = Ctx(r) /\ AtWork(r)
  BY <1>1, Common
<1>3. outer[r] = "waits"
  BY <1>1, <1>2 DEF PoolInv, Phase, TurnEnded, AtWork
<1>4. context[Ctx(r)].open /\ context[Ctx(r)].req = r
  BY <1>1, <1>3 DEF PoolInv
<1>5. Len(Chain(r)) \in Nat
  BY <1>1, ChainShape
<1> QED BY <1>1, <1>2, <1>3, <1>4, <1>5

LEMMA EarlyAdvance ==
  ASSUME RequestAssumption, RequestShape, PoolInv, OwnInv,
         NEW r \in clean, r \notin lateOnes, Phase(r), Advance(r)
  PROVE  Phase(r)'
<1> DEFINE n == Len(Chain(r))
<1>1. /\ r \in WebRequests /\ Ctx(r) \in Contexts /\ outer[r] = "waits"
      /\ context[Ctx(r)].req = r /\ context[Ctx(r)].index \in Nat
      /\ DOMAIN inner = WebRequests /\ DOMAIN inner[r] = {"at", "ctx", "depth", "runs", "of"}
      /\ outer'[r] = "waits" /\ r \notin lateOnes' /\ inner'[r].ctx = Ctx(r)
      /\ n \in Nat
  BY Awaited DEF Moves
<1>2. PICK i : i = context[Ctx(r)].index
  OBVIOUS
<1>a. i \in Nat
  BY <1>1, <1>2
<1>3. /\ inner[r].at = "next"
      /\ context' = [context EXCEPT ![Ctx(r)].index = i + 1]
      /\ inner' = [inner EXCEPT ![r] =
           IF i + 1 <= n /\ Chain(r)[i + 1] \in PassThrough
           THEN [inner[r] EXCEPT !.depth = @ + 1]
           ELSE IF i + 1 <= n
           THEN [inner[r] EXCEPT !.at = "runs", !.runs = Chain(r)[i + 1], !.of = r]
           ELSE IF inner[r].depth > 0 THEN [inner[r] EXCEPT !.depth = @ - 1]
           ELSE [inner[r] EXCEPT !.at = "done"]]
      /\ UNCHANGED <<answers, passed, effects>>
  BY <1>1, <1>2 DEF Advance, Ctx
<1>4. context'[Ctx(r)].index = i + 1
  BY <1>1, <1>3 DEF RequestShape
<1>5. /\ i >= 4
      /\ \/ (i < n /\ answers[r] = << >> /\ effects[r] = 0 /\ PassedUpTo(r, i))
         \/ (i >= n /\ Len(answers[r]) = 1)
  BY <1>1, <1>2, <1>3 DEF Phase, Waiting
<1>6. /\ \A k \in 1..n : (Chain(r)[k] = "handler") <=> k = n
      /\ \A k \in 5..n : Chain(r)[k] \in PassThrough \cup Handlers
      /\ \A x \in Needs(r) : \E k \in 5..(n - 1) : Chain(r)[k] = x
  BY <1>1, ChainShape
<1> HIDE DEF n
<1>7. AnsweredByItself(r)' /\ ServedOnce(r)'
  BY <1>3 DEF Phase, AnsweredByItself, ServedOnce
<1>8. \A k : PassedUpTo(r, k)' <=> PassedUpTo(r, k)
  BY <1>3 DEF PassedUpTo
<1>9. CASE i < n /\ Chain(r)[i + 1] \in PassThrough
  <2>0. i + 1 <= n /\ Chain(r)[i + 1] \in PassThrough
    BY <1>1, <1>a, <1>9
  <2>1. inner' = [inner EXCEPT ![r] = [inner[r] EXCEPT !.depth = @ + 1]]
    BY <1>3, <2>0
  <2>2. inner'[r].at = "next"
    BY <1>1, <1>3, <2>1
  <2>3. i + 1 < n
    BY <1>1, <1>a, <1>6, <1>9 DEF PassThrough
  <2>4. PassedUpTo(r, i + 1)
    <3>1. PassedUpTo(r, i) /\ Chain(r)[i + 1] \notin Middlewares
      BY <1>1, <1>a, <1>5, <1>9 DEF PassThrough, Middlewares
    <3>2. \A k \in 5..(i + 1) : k \in 5..i \/ k = i + 1
      BY <1>a
    <3> QED BY <3>1, <3>2 DEF PassedUpTo
  <2>5. answers[r] = << >> /\ effects[r] = 0
    BY <1>1, <1>a, <1>5, <1>9
  <2>6. Waiting(r)'
    <3>1. context'[inner'[r].ctx].index = i + 1 /\ i + 1 >= 4
      BY <1>1, <1>a, <1>4, <1>5
    <3>2. answers'[r] = << >> /\ effects'[r] = 0 /\ PassedUpTo(r, i + 1)'
      BY <1>3, <1>8, <2>4, <2>5
    <3> QED BY <1>1, <2>2, <2>3, <3>1, <3>2 DEF Waiting, Ctx, n
  <2> QED BY <1>1, <1>7, <2>2, <2>6 DEF Phase, InHandler, TurnEnded
<1>10. CASE i < n /\ Chain(r)[i + 1] \notin PassThrough
  <2>0. i + 1 <= n /\ i + 1 \in 1..n /\ Chain(r)[i + 1] \notin PassThrough
    BY <1>1, <1>a, <1>10
  <2>1. inner' = [inner EXCEPT ![r] =
                   [inner[r] EXCEPT !.at = "runs", !.runs = Chain(r)[i + 1], !.of = r]]
    BY <1>3, <2>0
  <2>2. inner'[r].at = "runs" /\ inner'[r].runs = Chain(r)[i + 1] /\ inner'[r].of = r
    BY <1>1, <2>1
  <2>3. answers'[r] = << >> /\ effects'[r] = 0 /\ PassedUpTo(r, i)'
    <3>1. answers[r] = << >> /\ effects[r] = 0 /\ PassedUpTo(r, i)
      BY <1>1, <1>a, <1>5, <1>10
    <3> QED BY <1>3, <1>8, <3>1
  <2>4. inner'[r].runs = "handler" => Needs(r) \subseteq passed'[r]
    <3>1. SUFFICES ASSUME inner'[r].runs = "handler", NEW x \in Needs(r) PROVE x \in passed'[r]
      OBVIOUS
    <3>2. n = i + 1
      BY <1>6, <2>0, <2>2, <3>1
    <3>3. PICK k \in 5..(n - 1) : Chain(r)[k] = x
      BY <1>6
    <3>4. x \in Middlewares
      BY DEF Needs, Middlewares
    <3>5. k \in 5..i
      BY <1>1, <1>a, <3>2, <3>3
    <3> QED BY <2>3, <3>3, <3>4, <3>5 DEF PassedUpTo
  <2>5. InHandler(r)'
    BY <1>1, <2>3, <2>4 DEF InHandler
  <2>6. Waiting(r)'
    <3>1. context'[inner'[r].ctx].index = i + 1 /\ 5 <= i + 1 /\ i + 1 >= 4 /\ i + 1 <= n /\ (i + 1) - 1 = i
      BY <1>1, <1>a, <1>4, <1>5, <1>10
    <3> QED BY <1>1, <2>2, <2>3, <3>1 DEF Waiting, Ctx, n
  <2> QED BY <1>1, <1>7, <2>5, <2>6 DEF Phase, TurnEnded
<1>11. CASE i >= n
  <2>1. \/ inner' = [inner EXCEPT ![r] = [inner[r] EXCEPT !.depth = @ - 1]]
        \/ inner' = [inner EXCEPT ![r] = [inner[r] EXCEPT !.at = "done"]]
    <3>1. ~(i + 1 <= n)
      BY <1>1, <1>a, <1>11
    <3> QED BY <1>3, <3>1
  <2>2. inner'[r].at \in {"next", "done"}
    <3>1. CASE inner' = [inner EXCEPT ![r] = [inner[r] EXCEPT !.depth = @ - 1]]
      <4>1. inner'[r] = [inner[r] EXCEPT !.depth = @ - 1]
        BY <1>1, <3>1
      <4> QED BY <1>1, <1>3, <4>1
    <3>2. CASE inner' = [inner EXCEPT ![r] = [inner[r] EXCEPT !.at = "done"]]
      BY <1>1, <3>2
    <3> QED BY <2>1, <3>1, <3>2
  <2>3. Len(answers'[r]) = 1
    BY <1>1, <1>a, <1>3, <1>5, <1>11
  <2>4. Waiting(r)'
    <3>1. context'[inner'[r].ctx].index = i + 1 /\ i + 1 >= 4 /\ i + 1 >= n
      BY <1>1, <1>a, <1>4, <1>5, <1>11
    <3> QED BY <1>1, <2>2, <2>3, <3>1 DEF Waiting, Ctx, n
  <2> QED BY <1>1, <1>7, <2>2, <2>4 DEF Phase, InHandler, TurnEnded
<1> QED BY <1>1, <1>a, <1>5, <1>9, <1>10, <1>11

\* The handlers of a request whose time is not over run on its own context.
LEMMA EarlyHandler ==
  ASSUME RequestAssumption, RequestShape, PoolInv, OwnInv,
         NEW r \in clean, r \notin lateOnes, Phase(r), PassesOn(r) \/ Refuses(r) \/ Serve(r)
  PROVE  /\ r \in WebRequests /\ outer'[r] = "waits" /\ r \notin lateOnes'
         /\ Ctx(r) \in Contexts /\ inner'[r].ctx = Ctx(r)
         /\ context[Ctx(r)].req = r /\ context[Ctx(r)].open
         /\ inner[r].of = r /\ effects[r] = 0 /\ answers[r] = << >>
         /\ inner'[r].at = "next"
         /\ context[Ctx(r)].index \in Nat /\ 5 <= context[Ctx(r)].index
         /\ context[Ctx(r)].index <= Len(Chain(r)) /\ Len(Chain(r)) \in Nat
         /\ inner[r].runs = Chain(r)[context[Ctx(r)].index]
         /\ PassedUpTo(r, context[Ctx(r)].index - 1)
         /\ inner[r].runs = "handler" => Needs(r) \subseteq passed[r]
<1>1. Moves(r)
  BY DEF Moves
<1>2. /\ r \in WebRequests /\ Ctx(r) \in Contexts /\ outer[r] = "waits"
      /\ context[Ctx(r)].open /\ context[Ctx(r)].req = r /\ context[Ctx(r)].index \in Nat
      /\ DOMAIN inner = WebRequests /\ DOMAIN inner[r] = {"at", "ctx", "depth", "runs", "of"}
      /\ outer'[r] = "waits" /\ r \notin lateOnes' /\ inner'[r].ctx = Ctx(r)
      /\ Len(Chain(r)) \in Nat
  BY <1>1, Awaited
<1>3. inner[r].at = "runs"
  BY DEF PassesOn, Refuses, Serve, Runs
<1>4. CallNext(r) \/ Return(r)
  BY DEF PassesOn, Refuses, Serve, LetPass, Refuse
<1>5. inner'[r].at = "next"
  <2>1. CASE CallNext(r)
    BY <1>2, <2>1 DEF CallNext
  <2>2. CASE Return(r)
    BY <1>2, <2>2 DEF Return
  <2> QED BY <1>4, <2>1, <2>2
<1>6. /\ inner[r].of = r /\ 5 <= context[Ctx(r)].index /\ context[Ctx(r)].index <= Len(Chain(r))
      /\ inner[r].runs = Chain(r)[context[Ctx(r)].index]
      /\ PassedUpTo(r, context[Ctx(r)].index - 1)
  BY <1>2, <1>3 DEF Phase, Waiting
<1>7. /\ effects[r] = 0 /\ answers[r] = << >>
      /\ inner[r].runs = "handler" => Needs(r) \subseteq passed[r]
  BY <1>3, <1>6 DEF Phase, InHandler
<1> QED BY <1>2, <1>5, <1>6, <1>7

LEMMA EarlyPass ==
  ASSUME RequestAssumption, RequestShape, PoolInv, OwnInv,
         NEW r \in clean, r \notin lateOnes, Phase(r), PassesOn(r)
  PROVE  Phase(r)'
<1>1. PICK i : i = context[Ctx(r)].index
  OBVIOUS
<1>2. /\ r \in WebRequests /\ outer'[r] = "waits" /\ r \notin lateOnes' /\ inner'[r].ctx = Ctx(r)
      /\ inner[r].of = r /\ effects[r] = 0 /\ answers[r] = << >> /\ inner'[r].at = "next"
      /\ i \in Nat /\ 5 <= i /\ i <= Len(Chain(r)) /\ Len(Chain(r)) \in Nat
      /\ inner[r].runs = Chain(r)[i] /\ PassedUpTo(r, i - 1)
  BY <1>1, EarlyHandler
<1>3. PICK name \in Middlewares :
        /\ inner[r].runs = name
        /\ passed' = [passed EXCEPT ![r] = @ \cup {name}]
        /\ UNCHANGED <<answers, context, effects>>
  BY <1>2 DEF PassesOn, Runs, LetPass
<1>4. passed'[r] = passed[r] \cup {name}
  BY <1>2, <1>3 DEF RequestShape
<1>5. i < Len(Chain(r))
  <2>1. \A k \in 1..Len(Chain(r)) : (Chain(r)[k] = "handler") <=> k = Len(Chain(r))
    BY <1>2, ChainShape
  <2>2. Chain(r)[i] # "handler"
    BY <1>2, <1>3 DEF Middlewares
  <2>3. i # Len(Chain(r))
    BY <1>2, <2>1, <2>2
  <2> QED BY <1>2, <2>3
<1>6. PassedUpTo(r, i)'
  <2>1. \A k \in 5..i : k \in 5..(i - 1) \/ k = i
    BY <1>2
  <2> QED BY <1>2, <1>3, <1>4, <2>1 DEF PassedUpTo
<1>7. effects'[r] = 0 /\ answers'[r] = << >> /\ context'[Ctx(r)].index = i
  BY <1>1, <1>2, <1>3
<1>8. AnsweredByItself(r)' /\ ServedOnce(r)' /\ InHandler(r)' /\ TurnEnded(r)'
  BY <1>2, <1>7 DEF AnsweredByItself, ServedOnce, InHandler, TurnEnded
<1>9. Waiting(r)'
  BY <1>2, <1>5, <1>6, <1>7 DEF Waiting, Ctx
<1> QED BY <1>8, <1>9 DEF Phase

LEMMA EarlyAnswer ==
  ASSUME RequestAssumption, RequestShape, PoolInv, OwnInv,
         NEW r \in clean, r \notin lateOnes, Phase(r), Refuses(r) \/ Serve(r)
  PROVE  Phase(r)'
<1>1. PICK i : i = context[Ctx(r)].index
  OBVIOUS
<1>2. /\ r \in WebRequests /\ outer'[r] = "waits" /\ r \notin lateOnes' /\ inner'[r].ctx = Ctx(r)
      /\ Ctx(r) \in Contexts /\ context[Ctx(r)].req = r /\ context[Ctx(r)].open
      /\ inner[r].of = r /\ effects[r] = 0 /\ answers[r] = << >> /\ inner'[r].at = "next"
      /\ i \in Nat /\ 5 <= i /\ i <= Len(Chain(r)) /\ Len(Chain(r)) \in Nat
      /\ inner[r].runs = Chain(r)[i]
      /\ inner[r].runs = "handler" => Needs(r) \subseteq passed[r]
  BY <1>1, EarlyHandler
<1>3. \E says \in Says : Respond(r, says)
  BY DEF Refuses, Refuse, Serve, Says
<1>4. PICK says \in Says : answers' = [answers EXCEPT ![r] = Append(@, [by |-> r, says |-> says])]
  BY <1>2, <1>3 DEF Respond, Ctx
<1>5. answers'[r] = Append(answers[r], [by |-> r, says |-> says])
  BY <1>2, <1>4 DEF RequestShape
<1>6. AnsweredByItself(r)' /\ Len(answers'[r]) = 1
  <2>1. AnsweredByItself(r)' /\ Len(answers'[r]) = Len(answers[r]) + 1
    BY <1>2, <1>5, AnsweredOnceMore DEF Phase
  <2> QED BY <1>2, <2>1
<1>7. ServedOnce(r)' /\ context'[Ctx(r)].index >= Len(Chain(r)) /\ context'[Ctx(r)].index >= 4
  <2>1. CASE Refuses(r)
    <3>1. /\ context' = [context EXCEPT ![Ctx(r)].index = AbortIndex]
          /\ UNCHANGED <<passed, effects>>
      BY <2>1 DEF Refuses, Refuse, Abort, Ctx
    <3>2. context'[Ctx(r)].index = AbortIndex
      BY <1>2, <3>1 DEF RequestShape
    <3>3. Len(Chain(r)) <= 9
      BY <1>2, ChainShape
    <3>4. ServedOnce(r)'
      BY <1>2, <3>1 DEF ServedOnce
    <3> QED BY <1>2, <3>2, <3>3, <3>4 DEF AbortIndex
  <2>2. CASE Serve(r)
    <3>1. /\ inner[r].runs = "handler" /\ effects' = [effects EXCEPT ![r] = @ + 1]
          /\ UNCHANGED <<context, passed>>
      BY <1>2, <2>2 DEF Serve, Runs
    <3>2. effects'[r] = 1
      BY <1>2, <3>1 DEF RequestShape
    <3>3. ServedOnce(r)'
      BY <1>2, <3>1, <3>2 DEF ServedOnce
    <3>4. \A k \in 1..Len(Chain(r)) : (Chain(r)[k] = "handler") <=> k = Len(Chain(r))
      BY <1>2, ChainShape
    <3>5. i \in 1..Len(Chain(r)) /\ Chain(r)[i] = "handler"
      BY <1>2, <3>1
    <3>6. i = Len(Chain(r))
      BY <3>4, <3>5
    <3> QED BY <1>1, <1>2, <3>1, <3>3, <3>6
  <2> QED BY <2>1, <2>2
<1>8. InHandler(r)' /\ TurnEnded(r)'
  BY <1>2 DEF InHandler, TurnEnded
<1>9. Waiting(r)'
  BY <1>2, <1>6, <1>7 DEF Waiting, Ctx
<1> QED BY <1>6, <1>7, <1>8, <1>9 DEF Phase

\* What is done to a request by the goroutines of connections.
LEMMA OthersTurn ==
  ASSUME RequestAssumption, RequestShape, PoolInv, OwnInv, NEW r \in clean, Phase(r),
         NEW q \in WebRequests, q # r,
         (\E c \in Contexts : Receive(q, c)) \/ Complete(q) \/ TimesOut(q) \/ PutBack(q)
  PROVE  Phase(r)'
<1>1. r \in WebRequests /\ Ctx(r) \in Contexts /\ DOMAIN context = Contexts
  BY DEF RequestShape, Ctx
<1>2. /\ inner'[r] = inner[r] /\ outer'[r] = outer[r] /\ answers'[r] = answers[r]
      /\ UNCHANGED <<effects, passed>> /\ ((r \in lateOnes') <=> (r \in lateOnes))
  BY <1>1 DEF Receive, Complete, TimesOut, PutBack, RequestShape
<1>3. /\ outer[r] = "waits" => context'[Ctx(r)].index = context[Ctx(r)].index
      /\ context'[Ctx(r)].req = r =>
           /\ context[Ctx(r)].req = r
           /\ \/ context'[Ctx(r)].index = context[Ctx(r)].index
              \/ context'[Ctx(r)].index >= AbortIndex
  <2>1. ASSUME NEW c \in Contexts, Receive(q, c)
        PROVE  /\ outer[r] = "waits" => context'[Ctx(r)] = context[Ctx(r)]
               /\ context'[Ctx(r)].req = r => context'[Ctx(r)] = context[Ctx(r)]
    <3>1. ~context[c].open /\ context'[c].req = q /\ (Ctx(r) # c => context'[Ctx(r)] = context[Ctx(r)])
      BY <1>1, <2>1 DEF Receive
    <3>2. outer[r] = "waits" => Ctx(r) # c
      BY <1>1, <3>1 DEF PoolInv
    <3> QED BY <3>1, <3>2
  <2>2. CASE Complete(q) \/ PutBack(q)
    <3>1. \A c \in Contexts : context'[c].req = context[c].req /\ context'[c].index = context[c].index
      <4>1. CASE Complete(q)
        BY <4>1 DEF Complete
      <4>2. CASE PutBack(q)
        BY <4>2 DEF PutBack, RequestShape
      <4> QED BY <2>2, <4>1, <4>2
    <3> QED BY <1>1, <3>1
  <2>3. CASE TimesOut(q)
    <3>1. /\ context' = [context EXCEPT ![Ctx(q)].index = AbortIndex]
          /\ outer[q] = "waits"
      BY <2>3 DEF TimesOut, Ctx
    <3>2. Ctx(q) \in Contexts /\ context[Ctx(q)].req = q
      BY <3>1 DEF PoolInv, RequestShape, Ctx
    <3>3. /\ context'[Ctx(r)].req = context[Ctx(r)].req
          /\ Ctx(r) # Ctx(q) => context'[Ctx(r)] = context[Ctx(r)]
          /\ Ctx(r) = Ctx(q) => context[Ctx(r)].req # r
      BY <1>1, <3>1, <3>2 DEF RequestShape
    <3>4. outer[r] = "waits" => context[Ctx(r)].req = r
      BY <1>1 DEF PoolInv
    <3> QED BY <3>3, <3>4
  <2> QED BY <2>1, <2>2, <2>3
<1> QED BY <1>1, <1>2, <1>3, PhaseKept

LEMMA OwnTurn ==
  ASSUME RequestAssumption, RequestShape, PoolInv, OwnInv, NEW r \in clean, Phase(r),
         Complete(r) \/ TimesOut(r) \/ PutBack(r)
  PROVE  Phase(r)'
<1>1. r \in WebRequests /\ Ctx(r) \in Contexts /\ DOMAIN context = Contexts
  BY DEF RequestShape, Ctx
<1>2. CASE Complete(r)
  <2>1. /\ outer[r] = "waits" /\ inner[r].at = "done" /\ outer'[r] = "ends"
        /\ UNCHANGED <<context, inner, answers, passed, effects, lateOnes>>
    BY <1>1, <1>2 DEF Complete, RequestShape
  <2>2. r \notin lateOnes /\ Len(answers[r]) = 1
    BY <2>1 DEF Phase, Waiting
  <2>3. AnsweredByItself(r)' /\ ServedOnce(r)' /\ InHandler(r)'
    BY <2>1 DEF Phase, AnsweredByItself, ServedOnce, InHandler
  <2>4. Waiting(r)' /\ TurnEnded(r)'
    BY <2>1, <2>2 DEF Waiting, TurnEnded
  <2> QED BY <2>3, <2>4 DEF Phase
<1>3. CASE TimesOut(r)
  <2>1. /\ outer[r] = "waits" /\ outer'[r] = "ends" /\ r \in lateOnes'
        /\ context' = [context EXCEPT ![Ctx(r)].index = AbortIndex]
        /\ answers'[r] = Append(answers[r], [by |-> r, says |-> "timeout"])
        /\ UNCHANGED <<inner, passed, effects>>
    BY <1>1, <1>3 DEF TimesOut, RequestShape, Ctx
  <2>2. context'[Ctx(r)].index >= AbortIndex
    BY <1>1, <2>1 DEF RequestShape, AbortIndex
  <2>3. AnsweredByItself(r)' /\ Len(answers'[r]) = Len(answers[r]) + 1
    <3>1. "timeout" \in Says
      BY DEF Says
    <3> QED BY <1>1, <2>1, <3>1, AnsweredOnceMore DEF Phase
  <2>4. /\ r \notin lateOnes
        /\ Len(answers[r]) \in {0, 1}
        /\ inner[r].at = "runs" /\ inner[r].of = r => Len(answers[r]) = 0
    <3>0. answers[r] = << >> => Len(answers[r]) = 0
      BY EmptyLen
    <3>1. /\ r \notin lateOnes /\ inner[r].at # "none"
          /\ inner[r].at = "next" => answers[r] = << >> \/ Len(answers[r]) = 1
          /\ inner[r].at = "runs" => inner[r].of = r
          /\ inner[r].at = "done" => Len(answers[r]) = 1
      BY <2>1 DEF Phase, Waiting
    <3>2. inner[r].at = "runs" /\ inner[r].of = r => answers[r] = << >>
      BY <3>1 DEF Phase, InHandler
    <3>3. inner[r].at \in {"none", "next", "runs", "done"}
      BY <1>1 DEF RequestShape
    <3> QED BY <3>0, <3>1, <3>2, <3>3
  <2>5. Len(answers'[r]) \in {1, 2} /\ ((inner[r].at = "runs" /\ inner[r].of = r) => Len(answers'[r]) = 1)
    <3>1. Len(answers'[r]) \in {1, 2}
      BY <2>3, <2>4, OneMore
    <3>2. ASSUME inner[r].at = "runs", inner[r].of = r PROVE Len(answers'[r]) = 1
      <4>1. Len(answers[r]) = 0
        BY <2>4, <3>2
      <4> QED BY <2>3, <4>1
    <3> QED BY <3>1, <3>2
  <2>6. ServedOnce(r)'
    BY <2>1 DEF Phase, ServedOnce
  <2>7. InHandler(r)'
    BY <2>1, <2>5 DEF Phase, InHandler
  <2>8. Waiting(r)' /\ TurnEnded(r)'
    BY <2>1, <2>2, <2>5 DEF Waiting, TurnEnded, Ctx
  <2> QED BY <2>3, <2>6, <2>7, <2>8 DEF Phase
<1>4. CASE PutBack(r)
  <2>1. /\ outer[r] = "ends" /\ outer'[r] = "gone"
        /\ \A c \in Contexts : context'[c].req = context[c].req /\ context'[c].index = context[c].index
        /\ UNCHANGED <<inner, answers, passed, effects, lateOnes>>
    BY <1>1, <1>4 DEF PutBack, RequestShape
  <2>2. AnsweredByItself(r)' /\ ServedOnce(r)' /\ InHandler(r)'
    BY <2>1 DEF Phase, AnsweredByItself, ServedOnce, InHandler
  <2>3. Waiting(r)' /\ TurnEnded(r)'
    BY <1>1, <2>1 DEF Phase, Waiting, TurnEnded, Ctx
  <2> QED BY <2>2, <2>3 DEF Phase
<1> QED BY <1>2, <1>3, <1>4

\* A request that gets a context nobody works on begins at the first handler.
LEMMA Begins ==
  ASSUME RequestAssumption, RequestShape, PoolInv, NEW r \in WebRequests, NEW c \in Contexts,
         Receive(r, c)
  PROVE  Phase(r)'
<1>1. /\ outer[r] = "new" /\ outer'[r] = "waits"
      /\ context'[c].index = Len(Outer) /\ inner'[r].ctx = c /\ inner'[r].at = "next"
      /\ UNCHANGED <<answers, passed, effects, lateOnes>>
  BY DEF Receive, RequestShape, NoRoutine
<1>2. answers[r] = << >> /\ effects[r] = 0 /\ r \notin lateOnes
  BY <1>1 DEF PoolInv
<1>3. Len(Outer) = 4
  BY DEF Outer
<1>4. Len(Chain(r)) \in Nat /\ 7 <= Len(Chain(r))
  BY ChainShape
<1>5. AnsweredByItself(r)' /\ ServedOnce(r)' /\ InHandler(r)' /\ TurnEnded(r)'
  BY <1>1, <1>2 DEF AnsweredByItself, ServedOnce, InHandler, TurnEnded
<1>6. Waiting(r)'
  BY <1>1, <1>2, <1>3, <1>4 DEF Waiting, PassedUpTo, Ctx
<1> QED BY <1>5, <1>6 DEF Phase

RequestInv == RequestShape /\ PoolInv /\ OwnInv /\ \A r \in clean : Phase(r)

LEMMA PhaseStep ==
  ASSUME RequestAssumption, RequestInv, [RequestsNext]_requestVars, NEW r \in clean'
  PROVE  Phase(r)'
<1>0. RequestShape /\ PoolInv /\ OwnInv /\ \A q \in clean : Phase(q)
  BY DEF RequestInv
<1>1. CASE r \notin clean
  <2>1. PICK q \in WebRequests, c \in Contexts : Receive(q, c)
    <3>1. \A g \in WebRequests : Moves(g) => UNCHANGED clean
      BY <1>0, Common
    <3>2. \A q \in WebRequests : Complete(q) \/ TimesOut(q) \/ PutBack(q) => UNCHANGED clean
      BY DEF Complete, TimesOut, PutBack
    <3> QED BY <1>1, <3>1, <3>2, StepKinds
  <2>2. r = q
    BY <1>1, <2>1 DEF Receive
  <2> QED BY <1>0, <2>1, <2>2, Begins
<1>2. CASE r \in clean
  <2>1. Phase(r) /\ r \in WebRequests
    BY <1>0, <1>2 DEF RequestShape
  <2>2. ASSUME NEW q \in WebRequests, NEW c \in Contexts, Receive(q, c) PROVE Phase(r)'
    <3>1. q # r
      BY <1>0, <1>2, <2>2 DEF Receive, PoolInv
    <3> QED BY <1>0, <1>2, <2>1, <2>2, <3>1, OthersTurn
  <2>3. ASSUME NEW q \in WebRequests, Complete(q) \/ TimesOut(q) \/ PutBack(q) PROVE Phase(r)'
    <3>1. CASE q = r
      BY <1>0, <1>2, <2>1, <2>3, <3>1, OwnTurn
    <3>2. CASE q # r
      BY <1>0, <1>2, <2>1, <2>3, <3>2, OthersTurn
    <3> QED BY <3>1, <3>2
  <2>4. ASSUME NEW g \in WebRequests, g # r, Moves(g) PROVE Phase(r)'
    BY <1>0, <1>2, <2>1, <2>4, OthersMove
  <2>5. CASE Moves(r) /\ r \in lateOnes
    BY <1>0, <1>2, <2>1, <2>5, LateMove
  <2>6. CASE Moves(r) /\ r \notin lateOnes
    <3>1. CASE Advance(r)
      BY <1>0, <1>2, <2>1, <2>6, <3>1, EarlyAdvance
    <3>2. CASE PassesOn(r)
      BY <1>0, <1>2, <2>1, <2>6, <3>2, EarlyPass
    <3>3. CASE Refuses(r) \/ Serve(r)
      BY <1>0, <1>2, <2>1, <2>6, <3>3, EarlyAnswer
    <3> QED BY <2>6, <3>1, <3>2, <3>3 DEF Moves
  <2>7. CASE UNCHANGED <<context, outer, inner, answers, passed, effects, lateOnes, clean>>
    BY <2>1, <2>7, PhaseKept
  <2> QED BY <2>2, <2>3, <2>4, <2>5, <2>6, <2>7, StepKinds
<1> QED BY <1>1, <1>2

LEMMA RequestsStart ==
  ASSUME RequestAssumption, RequestsInit
  PROVE  RequestInv
<1>1. PICK c0 \in Contexts : c0 = CHOOSE c \in Contexts : TRUE
  BY DEF RequestAssumption
<1>2. /\ context = [c \in Contexts |-> [req |-> NoRequest, index |-> 0, open |-> FALSE]]
      /\ outer = [r \in WebRequests |-> "new"]
      /\ inner = [r \in WebRequests |-> [at |-> "none", ctx |-> c0, depth |-> 0, runs |-> "none", of |-> NoRequest]]
      /\ answers = [r \in WebRequests |-> << >>]
      /\ passed = [r \in WebRequests |-> {}]
      /\ effects = [r \in WebRequests |-> 0]
      /\ lateOnes = {} /\ clean = {}
  BY <1>1 DEF RequestsInit, NoRoutine
<1>3. NoRequest \notin WebRequests
  BY DEF RequestAssumption
<1>4. RequestShape
  BY <1>2 DEF RequestShape
<1>5. PoolInv
  BY <1>2, <1>3 DEF PoolInv
<1>6. OwnInv
  BY <1>2 DEF OwnInv
<1> QED BY <1>2, <1>4, <1>5, <1>6 DEF RequestInv

\* AnswerIsOwn: a request that gets a context on which no late goroutine works is
\* served as if it were alone - its handler at most once and after the middlewares
\* of its route, one answer that is its own, two if it times out - for every number
\* of requests, contexts, time-outs and panics.
THEOREM OwnAnswers == RequestsInit /\ [][RequestsNext]_requestVars => []AnswerIsOwn
<1>1. RequestsInit => RequestInv
  BY RequestAssumption, RequestsStart
<1>2. RequestInv /\ [RequestsNext]_requestVars => RequestInv'
  <2>1. SUFFICES ASSUME RequestInv, [RequestsNext]_requestVars PROVE RequestInv'
    OBVIOUS
  <2>2. RequestShape' /\ PoolInv' /\ OwnInv'
    BY <2>1, RequestAssumption, ShapeStep, PoolStep, OwnStep DEF RequestInv
  <2>3. \A r \in clean' : Phase(r)'
    BY <2>1, RequestAssumption, PhaseStep
  <2> QED BY <2>2, <2>3 DEF RequestInv
<1>3. RequestInv => AnswerIsOwn
  <2>1. SUFFICES ASSUME RequestInv, NEW r \in clean
                 PROVE  /\ effects[r] <= 1
                        /\ effects[r] = 1 => Needs(r) \subseteq passed[r]
                        /\ \A i \in DOMAIN answers[r] : answers[r][i].by = r
                        /\ Len(answers[r]) <= IF r \in lateOnes THEN 2 ELSE 1
                        /\ outer[r] = "gone" => answers[r] # << >>
    BY DEF AnswerIsOwn
  <2>2. /\ AnsweredByItself(r) /\ ServedOnce(r) /\ InHandler(r) /\ Waiting(r) /\ TurnEnded(r)
        /\ r \in WebRequests /\ RequestShape /\ PoolInv
    BY <2>1 DEF RequestInv, Phase, RequestShape
  <2>3. /\ inner[r].at \in {"none", "next", "runs", "done"}
        /\ outer[r] \in {"waits", "ends", "gone"}
        /\ answers[r] \in Seq(RequestAnswers)
    <3>1. /\ inner[r].at \in {"none", "next", "runs", "done"}
          /\ outer[r] \in {"new", "waits", "ends", "gone"}
          /\ answers[r] \in Seq(RequestAnswers)
      BY <2>2 DEF RequestShape
    <3> QED BY <2>1, <2>2, <3>1 DEF PoolInv
  <2>4. outer[r] = "waits" => answers[r] = << >> \/ Len(answers[r]) = 1
    BY <2>2, <2>3 DEF Waiting, InHandler
  <2>5. outer[r] = "waits" => Len(answers[r]) <= 1
    <3>1. answers[r] = << >> => Len(answers[r]) = 0
      BY EmptyLen
    <3>2. outer[r] = "waits" => Len(answers[r]) \in {0, 1}
      BY <2>4, <3>1
    <3> QED BY <3>2, AtMost
  <2>6. outer[r] \in {"ends", "gone"} =>
          /\ Len(answers[r]) <= IF r \in lateOnes THEN 2 ELSE 1
          /\ answers[r] # << >>
    <3>1. answers[r] = << >> => Len(answers[r]) = 0
      BY EmptyLen
    <3>2. outer[r] \in {"ends", "gone"} => IF r \in lateOnes THEN Len(answers[r]) \in {1, 2} ELSE Len(answers[r]) = 1
      BY <2>2 DEF TurnEnded
    <3> QED BY <3>1, <3>2, AtMost
  <2>7. Len(answers[r]) <= IF r \in lateOnes THEN 2 ELSE 1
    BY <2>3, <2>5, <2>6
  <2> QED BY <2>2, <2>3, <2>6, <2>7 DEF AnsweredByItself, ServedOnce
<1> QED BY <1>1, <1>2, <1>3, PTL

-----------------------------------------------------------------------------
(***************************************************************************)
(* The rows of keepers and API keys.                                       *)
(***************************************************************************)

(***************************************************************************)
(* Type correctness.                                                       *)
(***************************************************************************)
KeeperRows == [keeper : Keepers \cup {"none"}, tasks : Nat, points : Nat, chat : Nat]
RowsOK == keeperRow \in [KeeperIds -> KeeperRows]
SignupsOK == signup \in [Signups -> [pc : {"idle", "check", "max", "insert", "update", "done",
                                          "failed"}, id : Nat]]
RewardsOK == reward \in [Rewards -> [pc : {"idle", "write", "done", "failed"}, read : Nat]]
ChatsOK == chat \in [Chats -> [pc : {"idle", "write", "done"}, id : Nat]]
CallsOK == call \in [Calls -> [pc : {"idle", "key", "limit", "admitted", "refused"},
                               after : BOOLEAN]]
RestOK ==
  /\ keyRow \in [ApiKeys -> {"none", "active", "touched"}]
  /\ touch \subseteq Calls
  /\ counter \in [ApiKeys -> Nat] /\ admitted \in [ApiKeys -> Nat]
  /\ windows \in 0..MaxWindows /\ acctFaults \in 0..MaxAcctFaults

USE AccountAssumption DEF AccountAssumption

LEMMA RowSet ==
  ASSUME NEW f \in [KeeperIds -> KeeperRows], NEW id,
         NEW row, id \in KeeperIds => row \in KeeperRows
  PROVE  [f EXCEPT ![id] = row] \in [KeeperIds -> KeeperRows]
OBVIOUS

LEMMA FieldSet ==
  ASSUME NEW row \in KeeperRows
  PROVE  /\ \A k \in Keepers : [row EXCEPT !.keeper = k] \in KeeperRows
         /\ \A n \in Nat : /\ [row EXCEPT !.tasks = n] \in KeeperRows
                          /\ [row EXCEPT !.points = n] \in KeeperRows
                          /\ [row EXCEPT !.chat = n] \in KeeperRows
BY DEF KeeperRows

LEMMA IdsAreNumbers == \A id \in KeeperIds : id \in Nat /\ id # 0
BY DEF KeeperIds

LEMMA AccountsTyped == AcctInit => AcctTypeOK
BY DEF AcctInit, AcctTypeOK, NoRow

LEMMA KeepersStepTyped == AcctTypeOK /\ KeepersNext => AcctTypeOK'
<1>1. SUFFICES ASSUME RowsOK, SignupsOK, RewardsOK, ChatsOK, CallsOK, RestOK, KeepersNext
               PROVE  RowsOK' /\ SignupsOK' /\ RewardsOK' /\ ChatsOK' /\ CallsOK' /\ RestOK'
  BY DEF AcctTypeOK, RowsOK, KeeperRows, SignupsOK, RewardsOK, ChatsOK, CallsOK, RestOK
<1>2. ASSUME NEW s \in Signups, ReceiveSignup(s)
      PROVE  RowsOK' /\ SignupsOK' /\ RewardsOK' /\ ChatsOK' /\ CallsOK' /\ RestOK'
  <2>1. SignupsOK'
    BY <1>1, <1>2 DEF ReceiveSignup, SignupsOK
  <2> QED
    BY <1>1, <1>2, <2>1 DEF ReceiveSignup, RowsOK, RewardsOK, ChatsOK, CallsOK, RestOK
<1>3. ASSUME NEW s \in Signups, CheckKeeperExists(s)
      PROVE  RowsOK' /\ SignupsOK' /\ RewardsOK' /\ ChatsOK' /\ CallsOK' /\ RestOK'
  <2>1. \A id \in IdOf(SignupOf[s].keeper) : id \in Nat
    BY IdsAreNumbers DEF IdOf
  <2>2. SignupsOK'
    <3>1. CASE IdOf(SignupOf[s].keeper) = {}
      BY <1>1, <1>3, <3>1 DEF CheckKeeperExists, SignupsOK
    <3>2. CASE IdOf(SignupOf[s].keeper) # {}
      <4>1. PICK id \in IdOf(SignupOf[s].keeper) :
              signup' = [signup EXCEPT ![s] =
                           [pc |-> IF SignupOf[s].form THEN "update" ELSE "done", id |-> id]]
        BY <1>3, <3>2 DEF CheckKeeperExists
      <4> QED BY <1>1, <2>1, <4>1 DEF SignupsOK
    <3> QED BY <3>1, <3>2
  <2> QED
    BY <1>1, <1>3, <2>2 DEF CheckKeeperExists, RowsOK, RewardsOK, ChatsOK, CallsOK, RestOK
<1>4. ASSUME NEW s \in Signups, UpdateFromForm(s)
      PROVE  RowsOK' /\ SignupsOK' /\ RewardsOK' /\ ChatsOK' /\ CallsOK' /\ RestOK'
  <2>1. RowsOK'
    <3>1. keeperRow' = [keeperRow EXCEPT ![signup[s].id] =
                          [keeperRow[signup[s].id] EXCEPT !.keeper = SignupOf[s].keeper]]
      BY <1>4 DEF UpdateFromForm
    <3>2. SignupOf[s].keeper \in Keepers
      OBVIOUS
    <3> QED BY <1>1, <3>1, <3>2, RowSet, FieldSet DEF RowsOK
  <2>2. SignupsOK'
    BY <1>1, <1>4 DEF UpdateFromForm, SignupsOK
  <2> QED
    BY <1>1, <1>4, <2>1, <2>2 DEF UpdateFromForm, RewardsOK, ChatsOK, CallsOK, RestOK
<1>5. ASSUME NEW s \in Signups, ReadMaxKeeperID(s)
      PROVE  RowsOK' /\ SignupsOK' /\ RewardsOK' /\ ChatsOK' /\ CallsOK' /\ RestOK'
  <2>1. \A max \in Taken \cup {0} : max + 1 \in Nat
    BY IdsAreNumbers DEF Taken
  <2>2. SignupsOK'
    BY <1>1, <1>5, <2>1 DEF ReadMaxKeeperID, SignupsOK
  <2> QED
    BY <1>1, <1>5, <2>2 DEF ReadMaxKeeperID, RowsOK, RewardsOK, ChatsOK, CallsOK, RestOK
<1>6. ASSUME NEW s \in Signups, InsertKeeper(s)
      PROVE  RowsOK' /\ SignupsOK' /\ RewardsOK' /\ ChatsOK' /\ CallsOK' /\ RestOK'
  <2>1. RowsOK'
    <3> DEFINE id == signup[s].id
               named == [keeperRow[id] EXCEPT !.keeper = SignupOf[s].keeper]
    <3>1. \/ keeperRow' = [keeperRow EXCEPT ![id] = named]
          \/ keeperRow' = [keeperRow EXCEPT ![id] = [named EXCEPT !.points = 0]]
      BY <1>6 DEF InsertKeeper
    <3>2. SignupOf[s].keeper \in Keepers
      OBVIOUS
    <3>3. id \in KeeperIds => named \in KeeperRows /\ [named EXCEPT !.points = 0] \in KeeperRows
      BY <1>1, <3>2, FieldSet DEF RowsOK
    <3> HIDE DEF named
    <3> QED BY <1>1, <3>1, <3>3, RowSet DEF RowsOK
  <2>2. SignupsOK'
    BY <1>1, <1>6 DEF InsertKeeper, SignupsOK
  <2> QED
    BY <1>1, <1>6, <2>1, <2>2 DEF InsertKeeper, RewardsOK, ChatsOK, CallsOK, RestOK
<1>7. ASSUME NEW s \in Signups, SignupFails(s)
      PROVE  RowsOK' /\ SignupsOK' /\ RewardsOK' /\ ChatsOK' /\ CallsOK' /\ RestOK'
  <2>1. SignupsOK'
    BY <1>1, <1>7 DEF SignupFails, SignupsOK
  <2>2. RestOK'
    BY <1>1, <1>7 DEF SignupFails, RestOK
  <2> QED
    BY <1>1, <1>7, <2>1, <2>2 DEF SignupFails, RowsOK, RewardsOK, ChatsOK, CallsOK
<1>8. ASSUME NEW r \in Rewards, ReadColumn(r)
      PROVE  RowsOK' /\ SignupsOK' /\ RewardsOK' /\ ChatsOK' /\ CallsOK' /\ RestOK'
  <2>1. RewardsOK'
    BY <1>1, <1>8 DEF ReadColumn, RewardsOK, Column, Taken, RowsOK, KeeperRows
  <2> QED
    BY <1>1, <1>8, <2>1 DEF ReadColumn, RowsOK, SignupsOK, ChatsOK, CallsOK, RestOK
<1>9. ASSUME NEW r \in Rewards, WriteColumn(r)
      PROVE  RowsOK' /\ SignupsOK' /\ RewardsOK' /\ ChatsOK' /\ CallsOK' /\ RestOK'
  <2>1. RowsOK'
    <3>1. reward[r].read + RewardOf[r].amount \in Nat
      BY <1>1 DEF RewardsOK
    <3> DEFINE w == RewardOf[r]
    <3>2. \/ keeperRow' = [keeperRow EXCEPT ![w.id] =
                             [keeperRow[w.id] EXCEPT !.tasks = reward[r].read + w.amount]]
          \/ keeperRow' = [keeperRow EXCEPT ![w.id] =
                             [keeperRow[w.id] EXCEPT !.points = reward[r].read + w.amount]]
      BY <1>9 DEF WriteColumn, WithColumn
    <3>3. w.id \in KeeperIds =>
            /\ [keeperRow[w.id] EXCEPT !.tasks = reward[r].read + w.amount] \in KeeperRows
            /\ [keeperRow[w.id] EXCEPT !.points = reward[r].read + w.amount] \in KeeperRows
      BY <1>1, <3>1, FieldSet DEF RowsOK
    <3> HIDE DEF w
    <3> QED BY <1>1, <3>2, <3>3, RowSet DEF RowsOK
  <2>2. RewardsOK'
    BY <1>1, <1>9 DEF WriteColumn, RewardsOK, WithColumn
  <2> QED
    BY <1>1, <1>9, <2>1, <2>2 DEF WriteColumn, SignupsOK, ChatsOK, CallsOK, RestOK
<1>10. ASSUME NEW r \in Rewards, RewardFails(r)
      PROVE  RowsOK' /\ SignupsOK' /\ RewardsOK' /\ ChatsOK' /\ CallsOK' /\ RestOK'
  <2>1. RewardsOK'
    BY <1>1, <1>10 DEF RewardFails, RewardsOK
  <2>2. RestOK'
    BY <1>1, <1>10 DEF RewardFails, RestOK
  <2> QED
    BY <1>1, <1>10, <2>1, <2>2 DEF RewardFails, RowsOK, SignupsOK, ChatsOK, CallsOK
<1>11. ASSUME NEW c \in Chats, FindKeeper(c)
      PROVE  RowsOK' /\ SignupsOK' /\ RewardsOK' /\ ChatsOK' /\ CallsOK' /\ RestOK'
  <2>1. \A id \in IdOf(ChatOf[c].keeper) : id \in Nat
    BY IdsAreNumbers DEF IdOf
  <2>2. ChatsOK'
    BY <1>1, <1>11, <2>1 DEF FindKeeper, ChatsOK
  <2> QED
    BY <1>1, <1>11, <2>2 DEF FindKeeper, RowsOK, SignupsOK, RewardsOK, CallsOK, RestOK
<1>12. ASSUME NEW c \in Chats, WriteChatID(c)
      PROVE  RowsOK' /\ SignupsOK' /\ RewardsOK' /\ ChatsOK' /\ CallsOK' /\ RestOK'
  <2>1. RowsOK'
    <3>1. chat[c].id \in Nat
      BY <1>1 DEF ChatsOK
    <3>2. keeperRow' = [keeperRow EXCEPT ![ChatOf[c].chat] =
                          [keeperRow[ChatOf[c].chat] EXCEPT !.chat = chat[c].id]]
      BY <1>12 DEF WriteChatID
    <3> QED BY <1>1, <3>1, <3>2, RowSet, FieldSet DEF RowsOK
  <2>2. ChatsOK'
    BY <1>1, <1>12 DEF WriteChatID, ChatsOK
  <2> QED
    BY <1>1, <1>12, <2>1, <2>2 DEF WriteChatID, SignupsOK, RewardsOK, CallsOK, RestOK
<1> QED
  BY <1>1, <1>2, <1>3, <1>4, <1>5, <1>6, <1>7, <1>8, <1>9, <1>10, <1>11, <1>12 DEF KeepersNext

LEMMA KeysStepTyped == AcctTypeOK /\ KeysNext => AcctTypeOK'
<1>1. SUFFICES ASSUME RowsOK, SignupsOK, RewardsOK, ChatsOK, CallsOK, RestOK, KeysNext
               PROVE  RowsOK' /\ SignupsOK' /\ RewardsOK' /\ ChatsOK' /\ CallsOK' /\ RestOK'
  BY DEF AcctTypeOK, RowsOK, KeeperRows, SignupsOK, RewardsOK, ChatsOK, CallsOK, RestOK
<1>2. ASSUME NEW k \in ApiKeys, CreateApiKey(k)
      PROVE  RowsOK' /\ SignupsOK' /\ RewardsOK' /\ ChatsOK' /\ CallsOK' /\ RestOK'
  <2>1. RestOK'
    BY <1>1, <1>2 DEF CreateApiKey, RestOK
  <2> QED
    BY <1>1, <1>2, <2>1 DEF CreateApiKey, RowsOK, SignupsOK, RewardsOK, ChatsOK, CallsOK
<1>3. ASSUME NEW k \in ApiKeys, DeleteApiKey(k)
      PROVE  RowsOK' /\ SignupsOK' /\ RewardsOK' /\ ChatsOK' /\ CallsOK' /\ RestOK'
  <2>1. RestOK'
    BY <1>1, <1>3 DEF DeleteApiKey, RestOK
  <2> QED
    BY <1>1, <1>3, <2>1 DEF DeleteApiKey, RowsOK, SignupsOK, RewardsOK, ChatsOK, CallsOK
<1>4. ASSUME NEW k \in ApiKeys, WindowEnds(k)
      PROVE  RowsOK' /\ SignupsOK' /\ RewardsOK' /\ ChatsOK' /\ CallsOK' /\ RestOK'
  <2>1. RestOK'
    BY <1>1, <1>4 DEF WindowEnds, RestOK
  <2> QED
    BY <1>1, <1>4, <2>1 DEF WindowEnds, RowsOK, SignupsOK, RewardsOK, ChatsOK, CallsOK
<1>5. ASSUME NEW q \in Calls, ReceiveCall(q)
      PROVE  RowsOK' /\ SignupsOK' /\ RewardsOK' /\ ChatsOK' /\ CallsOK' /\ RestOK'
  <2>1. CallsOK'
    BY <1>1, <1>5 DEF ReceiveCall, CallsOK
  <2> QED
    BY <1>1, <1>5, <2>1 DEF ReceiveCall, RowsOK, SignupsOK, RewardsOK, ChatsOK, RestOK
<1>6. ASSUME NEW q \in Calls, CheckApiKey(q)
      PROVE  RowsOK' /\ SignupsOK' /\ RewardsOK' /\ ChatsOK' /\ CallsOK' /\ RestOK'
  <2>1. CallsOK'
    BY <1>1, <1>6 DEF CheckApiKey, CallsOK
  <2>2. RestOK'
    BY <1>1, <1>6 DEF CheckApiKey, RestOK
  <2> QED
    BY <1>1, <1>6, <2>1, <2>2 DEF CheckApiKey, RowsOK, SignupsOK, RewardsOK, ChatsOK
<1>7. ASSUME NEW q \in Calls, TouchKey(q)
      PROVE  RowsOK' /\ SignupsOK' /\ RewardsOK' /\ ChatsOK' /\ CallsOK' /\ RestOK'
  <2>1. RestOK'
    BY <1>1, <1>7 DEF TouchKey, RestOK
  <2> QED
    BY <1>1, <1>7, <2>1 DEF TouchKey, RowsOK, SignupsOK, RewardsOK, ChatsOK, CallsOK
<1>8. ASSUME NEW q \in Calls, ApplyRateLimit(q)
      PROVE  RowsOK' /\ SignupsOK' /\ RewardsOK' /\ ChatsOK' /\ CallsOK' /\ RestOK'
  <2>1. CallsOK'
    <3>1. call' = [call EXCEPT ![q].pc = "refused"] \/ call' = [call EXCEPT ![q].pc = "admitted"]
      BY <1>8 DEF ApplyRateLimit
    <3>2. CASE call' = [call EXCEPT ![q].pc = "refused"]
      BY <1>1, <3>2 DEF CallsOK
    <3>3. CASE call' = [call EXCEPT ![q].pc = "admitted"]
      BY <1>1, <3>3 DEF CallsOK
    <3> QED BY <3>1, <3>2, <3>3
  <2>2. RestOK'
    BY <1>1, <1>8 DEF ApplyRateLimit, RestOK
  <2> QED
    BY <1>1, <1>8, <2>1, <2>2 DEF ApplyRateLimit, RowsOK, SignupsOK, RewardsOK, ChatsOK
<1>9. ASSUME NEW q \in Calls, CallFails(q)
      PROVE  RowsOK' /\ SignupsOK' /\ RewardsOK' /\ ChatsOK' /\ CallsOK' /\ RestOK'
  <2>1. CallsOK'
    BY <1>1, <1>9 DEF CallFails, CallsOK
  <2>2. RestOK'
    BY <1>1, <1>9 DEF CallFails, RestOK
  <2> QED
    BY <1>1, <1>9, <2>1, <2>2 DEF CallFails, RowsOK, SignupsOK, RewardsOK, ChatsOK
<1> QED
  BY <1>1, <1>2, <1>3, <1>4, <1>5, <1>6, <1>7, <1>8, <1>9 DEF KeysNext

\* Every row, counter and request in progress keeps to its type.
THEOREM AccountsTypeCorrect == AcctSpec => []AcctTypeOK
<1>1. AcctTypeOK /\ [AcctNext]_acctVars => AcctTypeOK'
  BY KeepersStepTyped, KeysStepTyped DEF AcctNext, acctVars, AcctTypeOK
<1> QED BY <1>1, AccountsTyped, PTL DEF AcctSpec

(***************************************************************************)
(* The middleware admits soundly.  The counter of a window is at least the *)
(* number of admitted requests; a key whose DELETE was answered is never   *)
(* active again, because an UPDATE brings back only a row without          *)
(* is_active, so a request that came afterwards stops at getApiKey.        *)
(***************************************************************************)
AdmissionInv ==
  /\ counter \in [ApiKeys -> Nat] /\ admitted \in [ApiKeys -> Nat]
  /\ DOMAIN keyRow = ApiKeys
  /\ DOMAIN call = Calls /\ \A q \in Calls : DOMAIN call[q] = {"pc", "after"}
  /\ \A k \in ApiKeys : admitted[k] <= counter[k] /\ admitted[k] <= Limit[k]
  /\ \A k \in deletedKeys : keyRow[k] # "active"
  /\ \A q \in Calls : call[q].after => CallOf[q] \in deletedKeys
  /\ \A q \in Calls : call[q].pc = "limit" => ~call[q].after
  /\ ~intruder

\* AdmissionIsSound: the middleware admits no more requests of a key in a window than
\* its limit, and none that arrived after the key was deleted, although the goroutine
\* of an earlier request may bring the deleted row back; for every number of keys and
\* requests.
THEOREM Admission == AcctSpec => []AdmissionIsSound
<1>1. AcctInit => AdmissionInv
  BY DEF AcctInit, AdmissionInv
<1>2. AdmissionInv /\ [AcctNext]_acctVars => AdmissionInv'
  <2>1. SUFFICES ASSUME AdmissionInv, [AcctNext]_acctVars PROVE AdmissionInv'
    OBVIOUS
  <2>2. CASE UNCHANGED <<counter, admitted, keyRow, call, deletedKeys, intruder>>
    BY <2>1, <2>2 DEF AdmissionInv
  <2>3. CASE KeepersNext
    <3>1. UNCHANGED <<counter, admitted, keyRow, call, deletedKeys, intruder>>
      BY <2>3 DEF KeepersNext, ReceiveSignup, CheckKeeperExists, UpdateFromForm, ReadMaxKeeperID,
         InsertKeeper, SignupFails, ReadColumn, WriteColumn, RewardFails, FindKeeper, WriteChatID
    <3> QED BY <2>2, <3>1
  <2>4. ASSUME NEW k \in ApiKeys, CreateApiKey(k) PROVE AdmissionInv'
    BY <2>1, <2>4 DEF CreateApiKey, AdmissionInv
  <2>5. ASSUME NEW k \in ApiKeys, DeleteApiKey(k) PROVE AdmissionInv'
    BY <2>1, <2>5 DEF DeleteApiKey, AdmissionInv
  <2>6. ASSUME NEW k \in ApiKeys, WindowEnds(k) PROVE AdmissionInv'
    BY <2>1, <2>6 DEF WindowEnds, AdmissionInv
  <2>7. ASSUME NEW q \in Calls, ReceiveCall(q) PROVE AdmissionInv'
    BY <2>1, <2>7 DEF ReceiveCall, AdmissionInv
  <2>8. ASSUME NEW q \in Calls, CheckApiKey(q) PROVE AdmissionInv'
    <3>1. CASE keyRow[CallOf[q]] = "active"
      <4>1. ~call[q].after
        BY <2>1, <3>1 DEF AdmissionInv
      <4>2. /\ call' = [call EXCEPT ![q].pc = "limit"]
            /\ UNCHANGED <<counter, admitted, keyRow, deletedKeys, intruder>>
        BY <2>8, <3>1 DEF CheckApiKey
      <4> QED BY <2>1, <4>1, <4>2 DEF AdmissionInv
    <3>2. CASE keyRow[CallOf[q]] # "active"
      <4>1. /\ call' = [call EXCEPT ![q].pc = "refused"]
            /\ UNCHANGED <<counter, admitted, keyRow, deletedKeys, intruder>>
        BY <2>8, <3>2 DEF CheckApiKey
      <4> QED BY <2>1, <4>1 DEF AdmissionInv
    <3> QED BY <3>1, <3>2
  <2>9. ASSUME NEW q \in Calls, TouchKey(q) PROVE AdmissionInv'
    BY <2>1, <2>9 DEF TouchKey, AdmissionInv
  <2>10. ASSUME NEW q \in Calls, ApplyRateLimit(q) PROVE AdmissionInv'
    <3> DEFINE k == CallOf[q]
    <3>1. /\ ~call[q].after /\ ~intruder
          /\ counter' = [counter EXCEPT ![k] = @ + 1]
          /\ UNCHANGED <<keyRow, deletedKeys>>
      BY <2>1, <2>10 DEF ApplyRateLimit, AdmissionInv
    <3>2. CASE counter[k] + 1 > Limit[k]
      <4>1. call' = [call EXCEPT ![q].pc = "refused"] /\ UNCHANGED <<admitted, intruder>>
        BY <2>10, <3>2 DEF ApplyRateLimit
      <4> QED BY <2>1, <3>1, <4>1 DEF AdmissionInv
    <3>3. CASE ~(counter[k] + 1 > Limit[k])
      <4>1. /\ call' = [call EXCEPT ![q].pc = "admitted"]
            /\ admitted' = [admitted EXCEPT ![k] = @ + 1]
            /\ intruder' = (intruder \/ call[q].after)
        BY <2>10, <3>3 DEF ApplyRateLimit
      <4>2. ~intruder'
        BY <3>1, <4>1, Zenon
      <4>3. \A j \in ApiKeys : admitted'[j] <= counter'[j] /\ admitted'[j] <= Limit[j]
        BY <2>1, <3>1, <3>3, <4>1 DEF AdmissionInv
      <4> QED BY <2>1, <3>1, <4>1, <4>2, <4>3 DEF AdmissionInv
    <3> QED BY <3>2, <3>3
  <2>11. ASSUME NEW q \in Calls, CallFails(q) PROVE AdmissionInv'
    BY <2>1, <2>11 DEF CallFails, AdmissionInv
  <2> QED
    BY <2>1, <2>2, <2>3, <2>4, <2>5, <2>6, <2>7, <2>8, <2>9, <2>10, <2>11
    DEF AcctNext, KeysNext, acctVars
<1>3. AdmissionInv => AdmissionIsSound
  BY DEF AdmissionInv, AdmissionIsSound
<1> QED BY <1>1, <1>2, <1>3, PTL DEF AcctSpec

(***************************************************************************)
(* The counters add up.                                                    *)
(***************************************************************************)
Present(id) == keeperRow[id].keeper # "none" \/ keeperRow[id].chat # 0
Paying(r, id, c) == reward[r].pc = "write" /\ RewardOf[r].id = id /\ RewardOf[r].column = c

\* A row that is not there is empty; an update that is about to write read the
\* row of its keeper, and what comes to keeper_data is never removed.
PresentInv ==
  /\ \A id \in KeeperIds : Present(id) \/ keeperRow[id] = NoRow
  /\ \A r \in Rewards : reward[r].pc = "write" =>
       RewardOf[r].id \in KeeperIds /\ Present(RewardOf[r].id)
  /\ \A s \in Signups : signup[s].pc = "update" => signup[s].id \in KeeperIds
  /\ \A c \in Chats : chat[c].pc = "write" => chat[c].id \in KeeperIds

\* Without overlap one registration runs at a time, and what it inserts is new.
FreshInv ==
  /\ alone \subseteq Signups
  /\ alone = Signups =>
       /\ \A s, t \in Signups : SigningUp(s) /\ SigningUp(t) => s = t
       /\ \A s \in Signups : signup[s].pc = "insert" /\ signup[s].id \in KeeperIds =>
            keeperRow[signup[s].id] = NoRow

\* An update that no other one races with wrote nothing yet over what it read.
SettledInv ==
  alone = Signups =>
    \A id \in KeeperIds \ raced : \A c \in Columns :
      /\ Column(keeperRow[id], c) = Column(paid[id], c)
      /\ \A r \in Rewards : Paying(r, id, c) => reward[r].read = Column(keeperRow[id], c)
      /\ \A r, q \in Rewards : Paying(r, id, c) /\ Paying(q, id, c) => r = q

\* A row only changes into one that is there: what a statement writes names a
\* keeper or a chat id, or updates a row that is there.
LEMMA RowsKept ==
  ASSUME RowsOK, ChatsOK, PresentInv, [AcctNext]_acctVars
  PROVE  \A id \in KeeperIds : keeperRow'[id] = keeperRow[id] \/ Present(id)'
<1>1. CASE UNCHANGED keeperRow
  BY <1>1
<1>2. ASSUME NEW s \in Signups, UpdateFromForm(s)
      PROVE  \A id \in KeeperIds : keeperRow'[id] = keeperRow[id] \/ Present(id)'
  <2>1. SignupOf[s].keeper # "none"
    OBVIOUS
  <2>2. keeperRow' = [keeperRow EXCEPT ![signup[s].id] =
                        [keeperRow[signup[s].id] EXCEPT !.keeper = SignupOf[s].keeper]]
    BY <1>2 DEF UpdateFromForm
  <2> QED BY <2>1, <2>2 DEF RowsOK, KeeperRows, Present
<1>3. ASSUME NEW s \in Signups, InsertKeeper(s)
      PROVE  \A id \in KeeperIds : keeperRow'[id] = keeperRow[id] \/ Present(id)'
  <2> DEFINE named == [keeperRow[signup[s].id] EXCEPT !.keeper = SignupOf[s].keeper]
  <2>1. SignupOf[s].keeper # "none"
    OBVIOUS
  <2>2. \/ keeperRow' = [keeperRow EXCEPT ![signup[s].id] = named]
        \/ keeperRow' = [keeperRow EXCEPT ![signup[s].id] = [named EXCEPT !.points = 0]]
    BY <1>3 DEF InsertKeeper
  <2>3. \A id \in KeeperIds : id # signup[s].id => keeperRow'[id] = keeperRow[id]
    BY <2>2 DEF RowsOK
  <2>4. signup[s].id \in KeeperIds => keeperRow'[signup[s].id].keeper = SignupOf[s].keeper
    <3>1. CASE keeperRow' = [keeperRow EXCEPT ![signup[s].id] = named]
      BY <3>1 DEF RowsOK, KeeperRows
    <3>2. CASE keeperRow' = [keeperRow EXCEPT ![signup[s].id] = [named EXCEPT !.points = 0]]
      BY <3>2 DEF RowsOK, KeeperRows
    <3> QED BY <2>2, <3>1, <3>2
  <2> QED BY <2>1, <2>3, <2>4 DEF Present
<1>4. ASSUME NEW r \in Rewards, WriteColumn(r)
      PROVE  \A id \in KeeperIds : keeperRow'[id] = keeperRow[id] \/ Present(id)'
  <2> DEFINE w == RewardOf[r]
  <2>1. w.id \in KeeperIds /\ Present(w.id)
    BY <1>4 DEF WriteColumn, PresentInv
  <2>2. \/ keeperRow' = [keeperRow EXCEPT ![w.id] =
                           [keeperRow[w.id] EXCEPT !.tasks = reward[r].read + w.amount]]
        \/ keeperRow' = [keeperRow EXCEPT ![w.id] =
                           [keeperRow[w.id] EXCEPT !.points = reward[r].read + w.amount]]
    BY <1>4 DEF WriteColumn, WithColumn
  <2> QED BY <2>1, <2>2 DEF RowsOK, KeeperRows, Present
<1>5. ASSUME NEW c \in Chats, WriteChatID(c)
      PROVE  \A id \in KeeperIds : keeperRow'[id] = keeperRow[id] \/ Present(id)'
  <2>1. chat[c].id # 0
    BY <1>5, IdsAreNumbers DEF WriteChatID, PresentInv
  <2>2. keeperRow' = [keeperRow EXCEPT ![ChatOf[c].chat] =
                        [keeperRow[ChatOf[c].chat] EXCEPT !.chat = chat[c].id]]
    BY <1>5 DEF WriteChatID
  <2> QED BY <2>1, <2>2 DEF RowsOK, KeeperRows, Present
<1>6. \/ UNCHANGED keeperRow
      \/ \E s \in Signups : UpdateFromForm(s) \/ InsertKeeper(s)
      \/ \E r \in Rewards : WriteColumn(r)
      \/ \E c \in Chats : WriteChatID(c)
  BY DEF AcctNext, KeepersNext, KeysNext, acctVars, ReceiveSignup, CheckKeeperExists,
     ReadMaxKeeperID, SignupFails, ReadColumn, RewardFails, FindKeeper, CreateApiKey,
     DeleteApiKey, WindowEnds, ReceiveCall, CheckApiKey, TouchKey, ApplyRateLimit, CallFails
<1> QED BY <1>1, <1>2, <1>3, <1>4, <1>5, <1>6

\* What the actions of the keys leave alone.
LEMMA KeysApart ==
  KeysNext => UNCHANGED <<keeperRow, signup, reward, chat, alone, paid, raced>>
BY DEF KeysNext, CreateApiKey, DeleteApiKey, WindowEnds, ReceiveCall, CheckApiKey, TouchKey,
   ApplyRateLimit, CallFails

LEMMA PresentStep ==
  ASSUME AcctTypeOK, PresentInv, [AcctNext]_acctVars
  PROVE  PresentInv'
<1>1. RowsOK /\ SignupsOK /\ RewardsOK /\ ChatsOK
  BY DEF AcctTypeOK, RowsOK, KeeperRows, SignupsOK, RewardsOK, ChatsOK
<1>2. \A id \in KeeperIds : keeperRow'[id] = keeperRow[id] \/ Present(id)'
  BY <1>1, RowsKept
<1>3. \A id \in KeeperIds : /\ Present(id) => Present(id)'
                            /\ Present(id)' \/ keeperRow'[id] = NoRow
  BY <1>2 DEF PresentInv, Present
<1>4. \A r \in Rewards : reward'[r].pc = "write" =>
        RewardOf[r].id \in KeeperIds /\ Present(RewardOf[r].id)'
  <2>1. CASE UNCHANGED reward
    BY <1>3, <2>1 DEF PresentInv
  <2>2. ASSUME NEW r \in Rewards, ReadColumn(r)
        PROVE  \A q \in Rewards : reward'[q].pc = "write" =>
                 RewardOf[q].id \in KeeperIds /\ Present(RewardOf[q].id)'
    <3>1. RewardOf[r].id \in KeeperIds /\ Present(RewardOf[r].id)
      BY <2>2 DEF ReadColumn, Taken, PresentInv
    <3>2. \A q \in Rewards : q # r => reward'[q] = reward[q]
      BY <1>1, <2>2 DEF ReadColumn, RewardsOK
    <3> QED BY <1>3, <3>1, <3>2 DEF PresentInv
  <2>3. ASSUME NEW r \in Rewards, WriteColumn(r) \/ RewardFails(r)
        PROVE  \A q \in Rewards : reward'[q].pc = "write" =>
                 RewardOf[q].id \in KeeperIds /\ Present(RewardOf[q].id)'
    <3>1. \A q \in Rewards : reward'[q].pc = "write" => reward[q].pc = "write"
      BY <1>1, <2>3 DEF WriteColumn, RewardFails, RewardsOK
    <3> QED BY <1>3, <3>1 DEF PresentInv
  <2>4. UNCHANGED reward \/ \E r \in Rewards : ReadColumn(r) \/ WriteColumn(r) \/ RewardFails(r)
    BY KeysApart DEF AcctNext, KeepersNext, acctVars, ReceiveSignup, CheckKeeperExists,
       UpdateFromForm, ReadMaxKeeperID, InsertKeeper, SignupFails, FindKeeper, WriteChatID
  <2> QED BY <2>1, <2>2, <2>3, <2>4
<1>5. \A s \in Signups : signup'[s].pc = "update" => signup'[s].id \in KeeperIds
  <2>1. CASE UNCHANGED signup
    BY <2>1 DEF PresentInv
  <2>2. ASSUME NEW s \in Signups, CheckKeeperExists(s)
        PROVE  \A t \in Signups : signup'[t].pc = "update" => signup'[t].id \in KeeperIds
    <3>1. \A t \in Signups : t # s => signup'[t] = signup[t]
      BY <1>1, <2>2 DEF CheckKeeperExists, SignupsOK
    <3>2. signup'[s].pc = "update" => signup'[s].id \in KeeperIds
      <4>1. CASE IdOf(SignupOf[s].keeper) = {}
        BY <1>1, <2>2, <4>1 DEF CheckKeeperExists, SignupsOK
      <4>2. CASE IdOf(SignupOf[s].keeper) # {}
        BY <1>1, <2>2, <4>2 DEF CheckKeeperExists, SignupsOK, IdOf
      <4> QED BY <4>1, <4>2
    <3> QED BY <3>1, <3>2 DEF PresentInv
  <2>3. ASSUME NEW s \in Signups,
               \/ ReceiveSignup(s) \/ UpdateFromForm(s) \/ ReadMaxKeeperID(s)
               \/ InsertKeeper(s) \/ SignupFails(s)
        PROVE  \A t \in Signups : signup'[t].pc = "update" => signup'[t].id \in KeeperIds
    <3>1. \A t \in Signups : signup'[t].pc = "update" => signup'[t] = signup[t]
      BY <1>1, <2>3 DEF ReceiveSignup, UpdateFromForm, ReadMaxKeeperID, InsertKeeper, SignupFails,
         SignupsOK
    <3> QED BY <3>1 DEF PresentInv
  <2>4. \/ UNCHANGED signup
        \/ \E s \in Signups : \/ ReceiveSignup(s) \/ UpdateFromForm(s) \/ ReadMaxKeeperID(s)
                              \/ InsertKeeper(s) \/ SignupFails(s) \/ CheckKeeperExists(s)
    BY KeysApart DEF AcctNext, KeepersNext, acctVars, ReadColumn, WriteColumn, RewardFails,
       FindKeeper, WriteChatID
  <2> QED BY <2>1, <2>2, <2>3, <2>4
<1>6. \A c \in Chats : chat'[c].pc = "write" => chat'[c].id \in KeeperIds
  <2>1. CASE UNCHANGED chat
    BY <2>1 DEF PresentInv
  <2>2. ASSUME NEW c \in Chats, FindKeeper(c)
        PROVE  \A d \in Chats : chat'[d].pc = "write" => chat'[d].id \in KeeperIds
    BY <1>1, <2>2 DEF FindKeeper, IdOf, ChatsOK, PresentInv
  <2>3. ASSUME NEW c \in Chats, WriteChatID(c)
        PROVE  \A d \in Chats : chat'[d].pc = "write" => chat'[d].id \in KeeperIds
    BY <1>1, <2>3 DEF WriteChatID, ChatsOK, PresentInv
  <2>4. UNCHANGED chat \/ \E c \in Chats : FindKeeper(c) \/ WriteChatID(c)
    BY KeysApart DEF AcctNext, KeepersNext, acctVars, ReceiveSignup, CheckKeeperExists,
       UpdateFromForm, ReadMaxKeeperID, InsertKeeper, SignupFails, ReadColumn, WriteColumn,
       RewardFails
  <2> QED BY <2>1, <2>2, <2>3, <2>4
<1> QED BY <1>3, <1>4, <1>5, <1>6 DEF PresentInv

LEMMA FreshStep ==
  ASSUME AcctTypeOK, PresentInv, FreshInv, [AcctNext]_acctVars
  PROVE  FreshInv'
<1>1. RowsOK /\ SignupsOK /\ RewardsOK
  BY DEF AcctTypeOK, RowsOK, KeeperRows, SignupsOK, RewardsOK
<1> DEFINE Underway == {"check", "max", "insert", "update"}
           Lone(sg) == \A s, t \in Signups :
             (sg[s].pc \in Underway /\ sg[t].pc \in Underway) => s = t
           Unused(sg, row) == \A s \in Signups :
             sg[s].pc = "insert" /\ sg[s].id \in KeeperIds => row[sg[s].id] = NoRow
<1>2. SUFFICES ASSUME alone' = Signups
               PROVE  Lone(signup') /\ Unused(signup', keeperRow')
  <2>1. alone' \subseteq Signups
    BY KeysApart DEF FreshInv, AcctNext, KeepersNext, acctVars, ReceiveSignup, CheckKeeperExists,
       UpdateFromForm, ReadMaxKeeperID, InsertKeeper, SignupFails, ReadColumn, WriteColumn,
       RewardFails, FindKeeper, WriteChatID
  <2> QED BY <2>1 DEF FreshInv, SigningUp
<1>a. alone = Signups => Lone(signup) /\ Unused(signup, keeperRow)
  BY DEF FreshInv, SigningUp
<1>3. ASSUME NEW s \in Signups, ReceiveSignup(s) PROVE Lone(signup') /\ Unused(signup', keeperRow')
  <2>1. {t \in Signups : SigningUp(t)} = {} /\ alone = Signups
    BY <1>2, <1>3 DEF ReceiveSignup, FreshInv
  <2>2. Unused(signup, keeperRow) /\ keeperRow' = keeperRow
    BY <1>3, <2>1 DEF FreshInv, ReceiveSignup
  <2>3. \A t \in Signups : t # s => signup'[t] = signup[t]
    BY <1>1, <1>3 DEF ReceiveSignup, SignupsOK
  <2>4. signup'[s].pc = "check"
    BY <1>1, <1>3 DEF ReceiveSignup, SignupsOK
  <2> QED BY <2>1, <2>2, <2>3, <2>4 DEF SigningUp
<1>4. ASSUME alone = Signups, NEW s \in Signups, UNCHANGED keeperRow,
             SigningUp(s), \A t \in Signups : t # s => signup'[t] = signup[t],
             signup'[s].pc = "insert" => signup'[s].id \notin Taken
      PROVE  Lone(signup') /\ Unused(signup', keeperRow')
  BY <1>a, <1>4 DEF SigningUp, Taken
<1>5. ASSUME NEW s \in Signups, CheckKeeperExists(s)
      PROVE  Lone(signup') /\ Unused(signup', keeperRow')
  <2>1. signup'[s].pc # "insert" /\ SigningUp(s)
    BY <1>1, <1>5 DEF CheckKeeperExists, SignupsOK, SigningUp
  <2>2. \A t \in Signups : t # s => signup'[t] = signup[t]
    BY <1>1, <1>5 DEF CheckKeeperExists, SignupsOK
  <2>3. alone = Signups /\ UNCHANGED keeperRow
    BY <1>2, <1>5 DEF CheckKeeperExists
  <2> QED BY <1>4, <2>1, <2>2, <2>3
<1>6. ASSUME NEW s \in Signups, ReadMaxKeeperID(s)
      PROVE  Lone(signup') /\ Unused(signup', keeperRow')
  <2>1. signup'[s].id \notin Taken
    <3>1. PICK max \in Taken \cup {0} :
            /\ \A id \in Taken : id <= max
            /\ signup' = [signup EXCEPT ![s] = [pc |-> "insert", id |-> max + 1]]
      BY <1>6 DEF ReadMaxKeeperID
    <3>2. max \in Nat
      BY IdsAreNumbers DEF Taken
    <3> QED BY <1>1, <3>1, <3>2 DEF SignupsOK
  <2>2. SigningUp(s) /\ \A t \in Signups : t # s => signup'[t] = signup[t]
    BY <1>1, <1>6 DEF ReadMaxKeeperID, SignupsOK, SigningUp
  <2>3. alone = Signups /\ UNCHANGED keeperRow
    BY <1>2, <1>6 DEF ReadMaxKeeperID
  <2> QED BY <1>4, <2>1, <2>2, <2>3
<1>7. ASSUME NEW s \in Signups, UpdateFromForm(s) \/ InsertKeeper(s)
      PROVE  Lone(signup') /\ Unused(signup', keeperRow')
  <2>1. /\ SigningUp(s) /\ alone = Signups
        /\ signup'[s].pc = "done"
        /\ \A t \in Signups : t # s => signup'[t] = signup[t]
    BY <1>1, <1>2, <1>7 DEF UpdateFromForm, InsertKeeper, SignupsOK, SigningUp
  <2>2. \A t \in Signups : signup'[t].pc \notin Underway
    BY <1>a, <2>1 DEF SigningUp
  <2> QED BY <2>2
<1>8. ASSUME NEW s \in Signups, SignupFails(s)
      PROVE  Lone(signup') /\ Unused(signup', keeperRow')
  <2>1. /\ SigningUp(s) /\ alone = Signups /\ UNCHANGED keeperRow
        /\ signup'[s].pc = "failed"
        /\ \A t \in Signups : t # s => signup'[t] = signup[t]
    BY <1>1, <1>2, <1>8 DEF SignupFails, SignupsOK
  <2> QED BY <1>4, <2>1
<1>9. ASSUME NEW r \in Rewards, WriteColumn(r)
      PROVE  Lone(signup') /\ Unused(signup', keeperRow')
  <2>1. \A id \in KeeperIds : keeperRow[id] = NoRow => keeperRow'[id] = keeperRow[id]
    <3>1. Present(RewardOf[r].id)
      BY <1>9 DEF WriteColumn, PresentInv
    <3>2. keeperRow[RewardOf[r].id] # NoRow
      BY <3>1 DEF Present, NoRow
    <3> QED BY <1>1, <1>9, <3>2 DEF WriteColumn, RowsOK
  <2>2. alone = Signups /\ UNCHANGED signup
    BY <1>2, <1>9 DEF WriteColumn
  <2> QED BY <1>a, <2>1, <2>2
<1>10. ASSUME NEW c \in Chats, WriteChatID(c)
       PROVE  Lone(signup') /\ Unused(signup', keeperRow')
  <2>1. /\ alone \subseteq Signups /\ UNCHANGED signup
        /\ alone' = alone \ {s \in Signups : signup[s].pc = "insert"
                                              /\ signup[s].id = ChatOf[c].chat}
    BY <1>10 DEF WriteChatID, FreshInv
  <2>2. /\ alone = Signups
        /\ \A s \in Signups : signup[s].pc = "insert" => signup[s].id # ChatOf[c].chat
    BY <1>2, <2>1
  <2>3. \A id \in KeeperIds : id # ChatOf[c].chat => keeperRow'[id] = keeperRow[id]
    BY <1>1, <1>10 DEF WriteChatID, RowsOK
  <2> QED BY <1>a, <2>1, <2>2, <2>3
<1>11. CASE UNCHANGED <<signup, keeperRow, alone>>
  BY <1>2, <1>a, <1>11
<1> HIDE DEF Lone, Unused
<1>12. \/ UNCHANGED <<signup, keeperRow, alone>>
       \/ \E s \in Signups : \/ ReceiveSignup(s) \/ CheckKeeperExists(s) \/ UpdateFromForm(s)
                             \/ ReadMaxKeeperID(s) \/ InsertKeeper(s) \/ SignupFails(s)
       \/ \E r \in Rewards : WriteColumn(r)
       \/ \E c \in Chats : WriteChatID(c)
  BY KeysApart DEF AcctNext, KeepersNext, acctVars, ReadColumn, RewardFails, FindKeeper
<1> QED BY <1>3, <1>5, <1>6, <1>7, <1>8, <1>9, <1>10, <1>11, <1>12

PaidOK == paid \in [KeeperIds -> [tasks : Nat, points : Nat]]

LEMMA PaidStep ==
  ASSUME PaidOK, [AcctNext]_acctVars
  PROVE  PaidOK'
<1>1. ASSUME NEW r \in Rewards, WriteColumn(r) PROVE PaidOK'
  <2> DEFINE w == RewardOf[r]
             v == Column(paid[w.id], w.column) + w.amount
  <2>1. \/ paid' = [paid EXCEPT ![w.id] = [paid[w.id] EXCEPT !.tasks = v]]
        \/ paid' = [paid EXCEPT ![w.id] = [paid[w.id] EXCEPT !.points = v]]
    BY <1>1 DEF WriteColumn, WithColumn
  <2>2. w.id \in KeeperIds => v \in Nat
    BY DEF PaidOK, Column
  <2> HIDE DEF v
  <2>3. CASE paid' = [paid EXCEPT ![w.id] = [paid[w.id] EXCEPT !.tasks = v]]
    BY <2>2, <2>3 DEF PaidOK
  <2>4. CASE paid' = [paid EXCEPT ![w.id] = [paid[w.id] EXCEPT !.points = v]]
    BY <2>2, <2>4 DEF PaidOK
  <2> QED BY <2>1, <2>3, <2>4
<1>2. UNCHANGED paid \/ \E r \in Rewards : WriteColumn(r)
  BY KeysApart DEF AcctNext, KeepersNext, acctVars, ReceiveSignup, CheckKeeperExists,
     UpdateFromForm, ReadMaxKeeperID, InsertKeeper, SignupFails, ReadColumn, RewardFails,
     FindKeeper, WriteChatID
<1>3. CASE UNCHANGED paid
  BY <1>3 DEF PaidOK
<1> QED BY <1>1, <1>2, <1>3

LEMMA SettledStep ==
  ASSUME AcctTypeOK, PaidOK, PresentInv, FreshInv, SettledInv, [AcctNext]_acctVars
  PROVE  SettledInv'
<1>1. RowsOK /\ SignupsOK /\ RewardsOK
  BY DEF AcctTypeOK, RowsOK, KeeperRows, SignupsOK, RewardsOK
<1>2. SUFFICES ASSUME alone' = Signups PROVE SettledInv'
  BY DEF SettledInv
<1>3. alone = Signups
  <2>1. alone \subseteq Signups
    BY DEF FreshInv
  <2> QED
    BY <1>2, <2>1, KeysApart DEF AcctNext, KeepersNext, acctVars, ReceiveSignup,
       CheckKeeperExists, UpdateFromForm, ReadMaxKeeperID, InsertKeeper, SignupFails, ReadColumn,
       WriteColumn, RewardFails, FindKeeper, WriteChatID
<1> DEFINE Settled(id, c) ==
             /\ Column(keeperRow[id], c) = Column(paid[id], c)
             /\ \A r \in Rewards : Paying(r, id, c) => reward[r].read = Column(keeperRow[id], c)
             /\ \A r, q \in Rewards : (Paying(r, id, c) /\ Paying(q, id, c)) => r = q
<1>4. \A id \in KeeperIds \ raced : \A c \in Columns : Settled(id, c)
  BY <1>3 DEF SettledInv
<1>5. SUFFICES ASSUME NEW id \in KeeperIds, id \notin raced', NEW c \in Columns
               PROVE  Settled(id, c)'
  BY DEF SettledInv
<1>6. id \notin raced
  BY <1>5, KeysApart DEF AcctNext, KeepersNext, acctVars, ReceiveSignup, CheckKeeperExists,
     UpdateFromForm, ReadMaxKeeperID, InsertKeeper, SignupFails, ReadColumn, WriteColumn,
     RewardFails, FindKeeper, WriteChatID
<1>7. Settled(id, c)
  BY <1>4, <1>6
<1>8. ASSUME UNCHANGED paid, \A r \in Rewards : reward'[r].pc = "write" => reward'[r] = reward[r],
             Column(keeperRow'[id], c) = Column(keeperRow[id], c)
      PROVE  Settled(id, c)'
  BY <1>7, <1>8 DEF Paying
<1>9. ASSUME NEW s \in Signups, UpdateFromForm(s) PROVE Settled(id, c)'
  <2>1. Column(keeperRow'[id], c) = Column(keeperRow[id], c)
    BY <1>1, <1>9 DEF UpdateFromForm, Column, RowsOK, KeeperRows
  <2> QED BY <1>8, <1>9, <2>1 DEF UpdateFromForm
<1>10. ASSUME NEW c1 \in Chats, WriteChatID(c1) PROVE Settled(id, c)'
  <2>1. Column(keeperRow'[id], c) = Column(keeperRow[id], c)
    BY <1>1, <1>10 DEF WriteChatID, Column, RowsOK, KeeperRows
  <2> QED BY <1>8, <1>10, <2>1 DEF WriteChatID
<1>11. ASSUME NEW s \in Signups, InsertKeeper(s) PROVE Settled(id, c)'
  <2>1. Column(keeperRow'[id], c) = Column(keeperRow[id], c)
    <3>1. CASE signup[s].id # id
      BY <1>1, <1>11, <3>1 DEF InsertKeeper, RowsOK
    <3>2. CASE signup[s].id = id
      <4>1. keeperRow[id] = NoRow
        BY <1>3, <1>11, <3>2 DEF InsertKeeper, FreshInv
      <4>2. keeperRow[id].tasks = 0 /\ keeperRow[id].points = 0
        BY <4>1 DEF NoRow
      <4>3. keeperRow'[id].tasks = 0 /\ keeperRow'[id].points = 0
        <5> DEFINE named == [keeperRow[id] EXCEPT !.keeper = SignupOf[s].keeper]
        <5>1. keeperRow'[id] = named \/ keeperRow'[id] = [named EXCEPT !.points = 0]
          BY <1>1, <1>11, <3>2 DEF InsertKeeper, RowsOK
        <5>2. /\ named.tasks = 0 /\ named.points = 0
              /\ [named EXCEPT !.points = 0].tasks = 0
              /\ [named EXCEPT !.points = 0].points = 0
          BY <1>1, <4>2 DEF RowsOK, KeeperRows
        <5> HIDE DEF named
        <5> QED BY <5>1, <5>2
      <4> QED BY <4>2, <4>3 DEF Column
    <3> QED BY <3>1, <3>2
  <2> QED BY <1>8, <1>11, <2>1 DEF InsertKeeper
<1>12. ASSUME NEW r \in Rewards, ReadColumn(r) PROVE Settled(id, c)'
  <2> DEFINE w == RewardOf[r]
  <2>1. /\ UNCHANGED <<keeperRow, paid>>
        /\ reward'[r].read = Column(keeperRow[w.id], w.column)
        /\ \A q \in Rewards : q # r => reward'[q] = reward[q]
    BY <1>1, <1>12 DEF ReadColumn, RewardsOK
  <2>2. CASE w.id = id /\ w.column = c
    <3>1. ~ \E t \in Rewards : reward[t].pc = "write" /\ RewardOf[t].id = id
                               /\ RewardOf[t].column = c
      BY <1>5, <1>12, <2>2 DEF ReadColumn
    <3>2. \A q \in Rewards : Paying(q, id, c)' => q = r
      BY <2>1, <3>1 DEF Paying
    <3> QED BY <1>7, <2>1, <2>2, <3>2
  <2>3. CASE ~(w.id = id /\ w.column = c)
    <3>1. \A q \in Rewards : Paying(q, id, c)' => q # r /\ Paying(q, id, c)
      BY <2>1, <2>3 DEF Paying
    <3> QED BY <1>7, <2>1, <3>1
  <2> QED BY <2>2, <2>3
<1>13. ASSUME NEW r \in Rewards, WriteColumn(r) PROVE Settled(id, c)'
  <2> DEFINE w == RewardOf[r]
  <2>1. /\ reward[r].pc = "write" /\ reward'[r].pc = "done"
        /\ \A q \in Rewards : q # r => reward'[q] = reward[q]
    BY <1>1, <1>13 DEF WriteColumn, RewardsOK
  <2>2. \A q \in Rewards : Paying(q, id, c)' => q # r /\ Paying(q, id, c)
                                               /\ reward'[q] = reward[q]
    BY <2>1 DEF Paying
  <2>3. CASE w.id # id
    <3>1. keeperRow'[id] = keeperRow[id] /\ paid'[id] = paid[id]
      BY <1>1, <1>13, <2>3 DEF WriteColumn, RowsOK, PaidOK
    <3> QED BY <1>7, <2>2, <3>1
  <2>4. CASE w.id = id
    <3>1. /\ keeperRow'[id] = WithColumn(keeperRow[id], w.column, reward[r].read + w.amount)
          /\ paid'[id] = WithColumn(paid[id], w.column,
                                    Column(paid[id], w.column) + w.amount)
      BY <1>1, <1>13, <2>4 DEF WriteColumn, RowsOK, PaidOK
    <3>2. keeperRow[id] \in KeeperRows /\ paid[id] \in [tasks : Nat, points : Nat]
      BY <1>1 DEF RowsOK, PaidOK
    <3>3. w.column \in Columns
      OBVIOUS
    <3>4. CASE w.column = c
      <4>1. reward[r].read = Column(keeperRow[id], c) /\ Paying(r, id, c)
        BY <1>7, <2>1, <2>4, <3>4 DEF Paying
      <4>2. \A q \in Rewards : ~Paying(q, id, c)'
        BY <1>7, <2>2, <4>1
      <4>3. Column(keeperRow'[id], c) = Column(paid'[id], c)
        BY <1>7, <3>1, <3>2, <3>4, <4>1 DEF Column, WithColumn, KeeperRows
      <4> QED BY <4>2, <4>3
    <3>5. CASE w.column # c
      <4>1. /\ Column(keeperRow'[id], c) = Column(keeperRow[id], c)
            /\ Column(paid'[id], c) = Column(paid[id], c)
        BY <3>1, <3>2, <3>3, <3>5 DEF Column, WithColumn, KeeperRows, Columns
      <4> QED BY <1>7, <2>2, <4>1
    <3> QED BY <3>4, <3>5
  <2> QED BY <2>3, <2>4
<1>14. ASSUME NEW r \in Rewards, RewardFails(r) PROVE Settled(id, c)'
  <2>1. UNCHANGED <<paid, keeperRow>>
        /\ \A q \in Rewards : reward'[q].pc = "write" => reward'[q] = reward[q]
    BY <1>1, <1>14 DEF RewardFails, RewardsOK
  <2> QED BY <1>8, <2>1
<1>15. CASE UNCHANGED <<keeperRow, reward, paid>>
  BY <1>8, <1>15
<1> HIDE DEF Settled
<1>16. \/ UNCHANGED <<keeperRow, reward, paid>>
       \/ \E s \in Signups : UpdateFromForm(s) \/ InsertKeeper(s)
       \/ \E r \in Rewards : ReadColumn(r) \/ WriteColumn(r) \/ RewardFails(r)
       \/ \E c1 \in Chats : WriteChatID(c1)
  BY KeysApart DEF AcctNext, KeepersNext, acctVars, ReceiveSignup, CheckKeeperExists,
     ReadMaxKeeperID, SignupFails, FindKeeper
<1> QED BY <1>9, <1>10, <1>11, <1>12, <1>13, <1>14, <1>15, <1>16

\* CountersAddUp: a keeper's counter is what its answered updates added up to, unless
\* two updates of one column were in flight at once or the row was inserted again;
\* for every number of keepers, registrations, rewards and chat ids.
THEOREM Counters == AcctSpec => []CountersAddUp
<1> DEFINE Inv == AcctTypeOK /\ PaidOK /\ PresentInv /\ FreshInv /\ SettledInv
<1>1. AcctInit => Inv
  <2>1. AcctInit => PaidOK /\ PresentInv
    BY DEF AcctInit, PaidOK, PresentInv
  <2>2. AcctInit => FreshInv
    BY DEF AcctInit, FreshInv, SigningUp
  <2>3. AcctInit => SettledInv
    BY DEF AcctInit, SettledInv, Paying, Column, NoRow
  <2> QED BY <2>1, <2>2, <2>3, AccountsTyped
<1>2. Inv /\ [AcctNext]_acctVars => Inv'
  <2>1. AcctTypeOK /\ [AcctNext]_acctVars => AcctTypeOK'
    BY KeepersStepTyped, KeysStepTyped DEF AcctNext, acctVars, AcctTypeOK
  <2> QED BY <2>1, PaidStep, PresentStep, FreshStep, SettledStep
<1>3. Inv => CountersAddUp
  BY DEF SettledInv, CountersAddUp
<1> QED BY <1>1, <1>2, <1>3, PTL DEF AcctSpec
=============================================================================
