---------------------------- MODULE CodeExecutor ----------------------------
(***************************************************************************)
(* The Docker executor of a keeper: executions that go through a pipeline, *)
(* the container pool of one language they share, the pool's health check, *)
(* and Close.                                                              *)
(*                                                                         *)
(* The pool holds a semaphore of MaxContainers tokens, each the right to   *)
(* create a container, and a channel of ready containers.  The containers  *)
(* made by initialize take no token, and a new container is put into the   *)
(* channel as well as handed to the execution that created it.             *)
(*                                                                         *)
(* Container status, statistics, alerts and fees are left out: no step of  *)
(* the pool or of the pipeline depends on them.                            *)
(***************************************************************************)
EXTENDS Naturals, Sequences, FiniteSets

CONSTANTS
  Execs,          \* calls of Execute and ExecuteSource
  StaticExecs,    \* those that only compute fees and need no container
  SourceExecs,    \* those of ExecuteSource, which are given the code itself
  MaxContainers,  \* max_containers: tokens, and capacity of readyQueue
  MinContainers,  \* min_containers: made by initialize
  MaxCreated,     \* bound on the containers created in a behaviour
  MaxExecFaults   \* bound on errors of Docker, scripts and downloads

ASSUME ExecutorAssumption ==
  /\ IsFiniteSet(Execs) /\ StaticExecs \cup SourceExecs \subseteq Execs
  /\ MaxContainers \in Nat \ {0} /\ MinContainers \in 0..MaxContainers
  /\ MaxCreated \in Nat /\ MinContainers <= MaxCreated
  /\ MaxExecFaults \in Nat

Containers == 1..MaxCreated

VARIABLES
  stage,     \* per execution: where it is
  held,      \* per execution: the container it got, 0 if none
  cancelled, \* executions the context of which is cancelled
  pooled,    \* containers in the pool's map
  running,   \* containers running in Docker
  ready,     \* the readyQueue channel
  tokens,    \* tokens in creationSemaphore
  created,   \* containers created so far
  stranded,  \* history: containers kept in the map after a failed reset and cleanup
  closing,   \* progress of Close
  execFaults

execVars == <<stage, held, cancelled, pooled, running, ready, tokens, created, stranded,
              closing, execFaults>>

Stages == {"idle", "entered", "checked", "preparing", "getting", "creating",
           "refunding", "waiting", "executing", "failing", "returning", "finishing", "done"}

\* initialize makes up to MinContainers containers, some may fail; each is put
\* into the channel when it is made, and again, if there is room, by
\* populateReadyQueue.
PreWarmed(n) ==
  LET again == IF 2 * n <= MaxContainers THEN n ELSE MaxContainers - n
  IN  [i \in 1..(n + again) |-> IF i <= n THEN i ELSE i - n]

ExecInit ==
  /\ stage = [e \in Execs |-> "idle"]
  /\ held = [e \in Execs |-> 0]
  /\ cancelled = {}
  /\ created \in 0..MinContainers
  /\ pooled = 1..created /\ running = 1..created
  /\ ready = PreWarmed(created)
  /\ tokens = MaxContainers
  /\ stranded = {}
  /\ closing = "no"
  /\ execFaults = 0

poolVars == <<pooled, running, ready, tokens, created, stranded>>

\* close() holds the pipeline's mutex until its wait is over.
PipelineFree == closing # "waiting"
\* GetContainer keeps the manager's read lock while it creates or waits ...
Readers == {e \in Execs : stage[e] \in {"creating", "refunding", "waiting"}}
\* ... and a writer that waits for them keeps new readers out.
ManagerReadable == closing # "locking"

Goto(e, s) == stage' = [stage EXCEPT ![e] = s]
Fault == execFaults < MaxExecFaults /\ execFaults' = execFaults + 1
AddReady(c) == ready' = IF Len(ready) < MaxContainers THEN Append(ready, c) ELSE ready
\* a release that finds the semaphore full is dropped
Release(n) == tokens' = IF tokens + n > MaxContainers THEN MaxContainers ELSE tokens + n

-----------------------------------------------------------------------------
(* An execution up to its container.                                       *)

\* DockerExecutor.Execute: neither closed nor closing (Close holds the lock).
Enter(e) ==
  /\ stage[e] = "idle" /\ closing = "no"
  /\ Goto(e, "entered")
  /\ UNCHANGED <<held, cancelled, poolVars, closing, execFaults>>

\* execute: refused when shutdownChan is closed ...
CheckShutdown(e) ==
  /\ stage[e] = "entered"
  /\ Goto(e, IF closing = "no" THEN "checked" ELSE "done")
  /\ UNCHANGED <<held, cancelled, poolVars, closing, execFaults>>

\* ... and entered into activeExecutions under the pipeline's mutex, later on.
Track(e) ==
  /\ e \notin SourceExecs
  /\ stage[e] = "checked" /\ PipelineFree
  /\ Goto(e, IF e \in StaticExecs THEN "finishing" ELSE "preparing")
  /\ UNCHANGED <<held, cancelled, poolVars, closing, execFaults>>

\* executeSource writes the code into a file of its own before, which may fail,
\* and so goes past stage 1.
TrackSource(e) ==
  /\ e \in SourceExecs
  /\ stage[e] = "checked"
  /\ \/ /\ PipelineFree /\ UNCHANGED execFaults
        /\ Goto(e, IF e \in StaticExecs THEN "finishing" ELSE "getting")
     \/ Fault /\ Goto(e, "done")
  /\ UNCHANGED <<held, cancelled, poolVars, closing>>

\* Stage 1: the file is in the cache or downloaded, or it is refused.
PrepareFile(e) ==
  /\ stage[e] = "preparing"
  /\ \/ Goto(e, "getting") /\ UNCHANGED execFaults
     \/ Goto(e, "finishing") /\ Fault
     \/ e \in cancelled /\ Goto(e, "finishing") /\ UNCHANGED execFaults
  /\ UNCHANGED <<held, cancelled, poolVars, closing>>

\* getContainer takes a ready container, first thing or while it waits.
TakeReady(e) ==
  /\ \/ stage[e] = "getting" /\ ManagerReadable
     \/ stage[e] = "waiting"
  /\ ready # << >>
  /\ held' = [held EXCEPT ![e] = Head(ready)]
  /\ ready' = Tail(ready)
  /\ Goto(e, "executing")
  /\ UNCHANGED <<cancelled, pooled, running, tokens, created, stranded, closing, execFaults>>

\* None is ready: a token is the permission to create one.
TakeToken(e) ==
  /\ stage[e] = "getting" /\ ManagerReadable /\ ready = << >> /\ tokens > 0
  /\ tokens' = tokens - 1
  /\ Goto(e, "creating")
  /\ UNCHANGED <<held, cancelled, pooled, running, ready, created, stranded, closing, execFaults>>

\* Neither: wait for a container to be returned.
AwaitReady(e) ==
  /\ stage[e] = "getting" /\ ManagerReadable /\ ready = << >> /\ tokens = 0
  /\ Goto(e, "waiting")
  /\ UNCHANGED <<held, cancelled, poolVars, closing, execFaults>>

(* A faulty variant: the wait has no timer.                                *)
WaitUntilCancelled(e) ==
  /\ stage[e] = "waiting" /\ e \in cancelled
  /\ Goto(e, "finishing")
  /\ UNCHANGED <<held, cancelled, poolVars, closing, execFaults>>

\* MaxWaitTime passes, or the context is cancelled.
WaitEnds(e) ==
  /\ stage[e] = "waiting"
  /\ Goto(e, "finishing")
  /\ UNCHANGED <<held, cancelled, poolVars, closing, execFaults>>

\* Every call to Docker on the way needs the execution's context.
Verified(e) == e \notin cancelled

\* createPreparedContainer: into the map, into the channel, and to the caller.
Create(e) ==
  /\ stage[e] = "creating" /\ Verified(e) /\ created < MaxCreated
  /\ created' = created + 1
  /\ pooled' = pooled \cup {created'}
  /\ running' = running \cup {created'}
  /\ AddReady(created')
  /\ held' = [held EXCEPT ![e] = created']
  /\ Goto(e, "executing")
  /\ UNCHANGED <<cancelled, tokens, stranded, closing, execFaults>>

\* createContainer fails, and no container runs.
CreateFails(e) ==
  /\ stage[e] = "creating"
  /\ \/ e \in cancelled /\ UNCHANGED execFaults
     \/ Fault
  /\ Goto(e, "refunding")
  /\ UNCHANGED <<held, cancelled, poolVars, closing>>

\* The container runs, and its first script, or the test after it, fails.  It is
\* removed, with the same context: one that is cancelled leaves it running, in no
\* map and never removed.
InitializeFails(e) ==
  /\ stage[e] = "creating" /\ created < MaxCreated
  /\ created' = created + 1
  /\ \/ Verified(e) /\ Fault /\ UNCHANGED running
     \/ ~Verified(e) /\ UNCHANGED execFaults /\ running' = running \cup {created'}
  /\ Goto(e, "refunding")
  /\ UNCHANGED <<held, cancelled, pooled, ready, tokens, stranded, closing>>

\* The token goes back by a send that waits when the semaphore is full.
Refund(e) ==
  /\ stage[e] = "refunding" /\ tokens < MaxContainers
  /\ tokens' = tokens + 1
  /\ Goto(e, "finishing")
  /\ UNCHANGED <<held, cancelled, pooled, running, ready, created, stranded, closing, execFaults>>

-----------------------------------------------------------------------------
(* An execution from its container to its end.                             *)

\* ExecuteInContainer succeeds in a container that runs.
RunScript(e) ==
  /\ stage[e] = "executing" /\ held[e] \in running
  /\ Goto(e, "returning")
  /\ UNCHANGED <<held, cancelled, poolVars, closing, execFaults>>

\* It fails: the container is gone, the context cancelled, or Docker or the
\* script fails.
RunFails(e) ==
  /\ stage[e] = "executing"
  /\ \/ (held[e] \notin running \/ e \in cancelled) /\ UNCHANGED execFaults
     \/ Fault
  /\ Goto(e, "failing")
  /\ UNCHANGED <<held, cancelled, poolVars, closing>>

(* A faulty variant: the token goes back and the container stays.          *)
MarkKeepsContainer(e) ==
  /\ stage[e] = "failing" /\ ManagerReadable
  /\ Release(1)
  /\ Goto(e, "returning")
  /\ UNCHANGED <<held, cancelled, pooled, running, ready, created, stranded, closing, execFaults>>

\* MarkContainerAsFailed: out of the map, not out of the channel, and removed
\* from Docker by a goroutine, if Docker does it.
MarkAsFailed(e) ==
  /\ stage[e] = "failing" /\ ManagerReadable
  /\ IF held[e] \in pooled
       THEN /\ pooled' = pooled \ {held[e]}
            /\ Release(1)
            /\ \/ running' = running \ {held[e]} /\ UNCHANGED execFaults
               \/ Fault /\ UNCHANGED running
       ELSE UNCHANGED <<pooled, tokens, running, execFaults>>
  /\ Goto(e, "returning")
  /\ UNCHANGED <<held, cancelled, ready, created, stranded, closing>>

(* A faulty variant: a container that was reset is not put back.           *)
ReturnForgets(e) ==
  /\ stage[e] = "returning" /\ ManagerReadable
  /\ held' = [held EXCEPT ![e] = 0]
  /\ Goto(e, "finishing")
  /\ UNCHANGED <<poolVars, cancelled, closing, execFaults>>

\* The deferred ReturnContainer: a container of the map is reset and ready
\* again; one that cannot be reset is removed; one that cannot be removed
\* either stays in the map.
ReturnContainer(e) ==
  /\ stage[e] = "returning" /\ ManagerReadable
  /\ \/ /\ held[e] \notin pooled
        /\ UNCHANGED <<poolVars, execFaults>>
     \/ /\ held[e] \in pooled \cap running
        /\ AddReady(held[e])
        /\ UNCHANGED <<pooled, running, tokens, created, stranded, execFaults>>
     \/ /\ held[e] \in pooled
        /\ IF held[e] \in running THEN Fault ELSE UNCHANGED execFaults
        /\ pooled' = pooled \ {held[e]}
        /\ running' = running \ {held[e]}
        /\ Release(1)
        /\ UNCHANGED <<ready, created, stranded>>
     \/ /\ held[e] \in pooled
        /\ Fault
        /\ stranded' = stranded \cup {held[e]}
        /\ UNCHANGED <<pooled, running, ready, tokens, created>>
  /\ held' = [held EXCEPT ![e] = 0]
  /\ Goto(e, "finishing")
  /\ UNCHANGED <<cancelled, closing>>

\* The deferred functions of execute: out of activeExecutions, then Done.
Finish(e) ==
  /\ stage[e] = "finishing" /\ PipelineFree
  /\ Goto(e, "done")
  /\ UNCHANGED <<held, cancelled, poolVars, closing, execFaults>>

-----------------------------------------------------------------------------
(* The rest of the executor.                                               *)

Active == {e \in Execs : stage[e] \notin {"idle", "entered", "checked", "done"}}

\* CancelExecution.
CancelExecution(e) ==
  /\ closing = "no" /\ e \in Active \ cancelled
  /\ cancelled' = cancelled \cup {e}
  /\ UNCHANGED <<stage, held, poolVars, closing, execFaults>>

\* A container stops by itself.
ContainerStops(c) ==
  /\ c \in running /\ Fault
  /\ running' = running \ {c}
  /\ UNCHANGED <<stage, held, cancelled, pooled, ready, tokens, created, stranded, closing>>

\* healthCheck removes what does not run or cannot be inspected.
HealthCheck ==
  /\ closing # "closed"
  /\ \E sick \in SUBSET pooled :
       /\ sick # {} /\ pooled \ running \subseteq sick
       /\ IF sick \subseteq pooled \ running THEN UNCHANGED execFaults ELSE Fault
       /\ pooled' = pooled \ sick
       /\ running' = running \ sick
       /\ Release(Cardinality(sick))
  /\ UNCHANGED <<stage, held, cancelled, ready, created, stranded, closing>>

\* Close: the pipeline refuses executions, cancels the active ones ...
BeginClose ==
  /\ closing = "no"
  /\ closing' = "waiting"
  /\ cancelled' = cancelled \cup Active
  /\ UNCHANGED <<stage, held, poolVars, execFaults>>

\* ... waits, with the mutex they need to finish, until none is left or 30 s ...
EndWait ==
  /\ closing = "waiting"
  /\ closing' = "waited"
  /\ UNCHANGED <<stage, held, cancelled, poolVars, execFaults>>

\* ... monitor and file manager close, and the manager asks for its lock ...
LockManager ==
  /\ closing = "waited"
  /\ closing' = "locking"
  /\ UNCHANGED <<stage, held, cancelled, poolVars, execFaults>>

\* The pool's containers are removed from Docker.
EmptyPool == running' = running \ pooled /\ pooled' = {}

\* ... and gets it when no getContainer is under way: every pool is emptied.
ClosePools ==
  /\ closing = "locking" /\ Readers = {}
  /\ closing' = "closed"
  /\ EmptyPool
  /\ UNCHANGED <<stage, held, cancelled, ready, tokens, created, stranded, execFaults>>

ExecStep(e) ==
  \/ CheckShutdown(e) \/ Track(e) \/ TrackSource(e) \/ PrepareFile(e)
  \/ TakeReady(e) \/ TakeToken(e) \/ AwaitReady(e) \/ WaitEnds(e)
  \/ Create(e) \/ CreateFails(e) \/ InitializeFails(e) \/ Refund(e)
  \/ RunScript(e) \/ RunFails(e) \/ MarkAsFailed(e) \/ ReturnContainer(e) \/ Finish(e)

CloseStep == EndWait \/ LockManager \/ ClosePools

ExecNext ==
  \/ \E e \in Execs : Enter(e) \/ ExecStep(e) \/ CancelExecution(e)
  \/ \E c \in Containers : ContainerStops(c)
  \/ HealthCheck \/ BeginClose \/ CloseStep

\* Every goroutine goes on when it can, and its timers fire.
ExecFairness == WF_execVars(CloseStep) /\ \A e \in Execs : WF_execVars(ExecStep(e))

ExecSpec == ExecInit /\ [][ExecNext]_execVars /\ ExecFairness

-----------------------------------------------------------------------------
\* The variables have the shapes declared above.
ExecTypeOK ==
  /\ stage \in [Execs -> Stages]
  /\ held \in [Execs -> 0..MaxCreated]
  /\ cancelled \subseteq Execs
  /\ pooled \subseteq Containers /\ running \subseteq Containers
  /\ stranded \subseteq Containers
  /\ ready \in Seq(Containers) /\ Len(ready) <= MaxContainers
  /\ tokens \in 0..MaxContainers /\ created \in 0..MaxCreated
  /\ closing \in {"no", "waiting", "waited", "locking", "closed"}
  /\ execFaults \in 0..MaxExecFaults

\* However containers fail, are marked, returned and found dead, no token is
\* given back twice for one container: what exists and what may still be
\* created never exceeds the pre-warmed containers and the tokens together.
CapacityBound ==
  Cardinality(pooled) + tokens
    + Cardinality({e \in Execs : stage[e] \in {"creating", "refunding"}})
    <= MaxContainers + MinContainers

\* The pool never runs dry for good: when nobody holds a container or waits for
\* one to be made, either one is ready or one may be created, unless Docker
\* refused to remove a container that could not be reset.
PoolRecovers ==
  (/\ stranded = {} /\ closing # "closed"
   /\ \A e \in Execs : held[e] = 0 /\ stage[e] \notin {"creating", "refunding"})
  => ready # << >> \/ tokens > 0

\* Close ends, whatever the executions do meanwhile, unless one of them is
\* stuck returning its token to a full semaphore.
Stuck == tokens = MaxContainers /\ \E e \in Execs : stage[e] = "refunding"
CloseEnds == closing = "waiting" ~> closing = "closed" \/ Stuck

=============================================================================
