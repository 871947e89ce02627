------------------------ MODULE DockerExecutorProofs ------------------------
(***************************************************************************)
(* The executor of tasks' code: its pool of containers, the run of a       *)
(* script in one of them, the cache of downloaded scripts, the fees it     *)
(* quotes, and the arguments of the call made from a script's output; for  *)
(* every set of executions, containers, callers, URLs, quotes, outputs and *)
(* parameters.                                                             *)
(*                                                                         *)
(* Capacity and recovery of the pool need an inductive invariant each.     *)
(* The semaphore alone does not bound the pool, as tokens come back by     *)
(* four ways: the bound needs that each of them takes a container out of   *)
(* the map, and that a new container is in no map (CapacityInv). That an   *)
(* execution can always hope for a container needs that a container in     *)
(* the channel that has left the map left a token behind (SupplyInv).      *)
(***************************************************************************)
EXTENDS CodeExecutor, ScriptRun, FileCache, TaskFees, CallArguments,
        FiniteSetTheorems, SequenceTheorems, WellFoundedInduction, TLAPS

-----------------------------------------------------------------------------
(***************************************************************************)
(* The capacity of the pool.                                               *)
(***************************************************************************)

(* The executions that took a token and have neither a container for it    *)
(* nor returned it.                                                        *)
Creating == {e \in Execs : stage[e] \in {"creating", "refunding"}}

CapacityShape ==
  /\ stage \in [Execs -> Stages]
  /\ tokens \in 0..MaxContainers
  /\ created \in Nat

(* Containers are numbered as they are created.                            *)
Numbered == pooled \subseteq 1..created

CapacityInv == CapacityShape /\ Numbered /\ CapacityBound

-----------------------------------------------------------------------------
(* Cardinalities.                                                          *)

LEMMA FinitePool ==
  ASSUME CapacityShape, Numbered
  PROVE  /\ IsFiniteSet(pooled) /\ Cardinality(pooled) \in Nat
         /\ created + 1 \notin pooled
<1>1. IsFiniteSet(1..created)
  BY FS_Interval DEF CapacityShape
<1>2. IsFiniteSet(pooled)
  BY <1>1, FS_Subset DEF Numbered
<1>3. created + 1 \notin 1..created
  BY DEF CapacityShape
<1> QED
  BY <1>2, <1>3, FS_CardinalityType DEF Numbered

LEMMA FiniteCreating == IsFiniteSet(Creating) /\ Cardinality(Creating) \in Nat
<1>1. IsFiniteSet(Creating)
  BY ExecutorAssumption, FS_Subset DEF Creating
<1> QED
  BY <1>1, FS_CardinalityType

(* Removing containers from the map gives back as many places.             *)
LEMMA Removed ==
  ASSUME NEW P, IsFiniteSet(P), NEW S \in SUBSET P
  PROVE  /\ IsFiniteSet(S) /\ Cardinality(S) \in Nat
         /\ Cardinality(P \ S) \in Nat
         /\ Cardinality(P \ S) + Cardinality(S) = Cardinality(P)
<1>1. IsFiniteSet(S) /\ Cardinality(S) \in Nat
  BY FS_Subset, FS_CardinalityType
<1>2. Cardinality(P) \in Nat /\ P \cap S = S
  BY FS_CardinalityType
<1>3. /\ IsFiniteSet(P \ S)
      /\ Cardinality(P \ S) = Cardinality(P) - Cardinality(P \cap S)
  BY FS_Difference
<1>4. Cardinality(P \ S) \in Nat /\ Cardinality(P \ S) = Cardinality(P) - Cardinality(S)
  BY <1>2, <1>3, FS_CardinalityType
<1> QED
  BY <1>1, <1>2, <1>4

(* A release never adds more tokens than it is asked to.                   *)
LEMMA Released ==
  ASSUME NEW n \in Nat, CapacityShape, Release(n)
  PROVE  tokens' \in 0..MaxContainers /\ tokens' <= tokens + n
BY ExecutorAssumption DEF Release, CapacityShape

(* The count of CapacityBound by its three parts.                          *)
LEMMA Counted ==
  ASSUME CapacityInv, CapacityShape', IsFiniteSet(pooled'), IsFiniteSet(Creating'),
         Cardinality(pooled') + tokens' + Cardinality(Creating')
           <= Cardinality(pooled) + tokens + Cardinality(Creating)
  PROVE  CapacityBound'
<1>1. /\ Cardinality(pooled) \in Nat /\ Cardinality(Creating) \in Nat
      /\ tokens \in Nat /\ MaxContainers \in Nat /\ MinContainers \in Nat
  BY FinitePool, FiniteCreating, ExecutorAssumption DEF CapacityInv, CapacityShape
<1>2. /\ Cardinality(pooled') \in Nat /\ Cardinality(Creating') \in Nat
      /\ tokens' \in Nat
  BY FS_CardinalityType, ExecutorAssumption DEF CapacityShape
<1>3. Cardinality(pooled) + tokens + Cardinality(Creating) <= MaxContainers + MinContainers
  BY DEF CapacityInv, CapacityBound, Creating
<1>4. Cardinality(pooled') + tokens' + Cardinality(Creating') <= MaxContainers + MinContainers
  BY <1>1, <1>2, <1>3
<1> QED
  BY <1>4 DEF CapacityBound, Creating

-----------------------------------------------------------------------------
(* The steps, grouped by what they do to the count.                        *)

(* A step that keeps the pool, and no execution enters or leaves Creating. *)
LEMMA PoolKept ==
  ASSUME CapacityInv, CapacityShape', Creating' = Creating, UNCHANGED <<pooled, tokens>>,
         created' \in {created, created + 1}
  PROVE  CapacityInv'
<1>1. Numbered'
  BY DEF CapacityInv, Numbered, CapacityShape
<1>2. /\ Cardinality(pooled) \in Nat /\ Cardinality(Creating) \in Nat
      /\ IsFiniteSet(pooled) /\ IsFiniteSet(Creating) /\ tokens \in Nat
  BY FinitePool, FiniteCreating DEF CapacityInv, CapacityShape
<1>3. CapacityBound'
  <2>1. /\ IsFiniteSet(pooled') /\ IsFiniteSet(Creating')
        /\ Cardinality(pooled') + tokens' + Cardinality(Creating')
             <= Cardinality(pooled) + tokens + Cardinality(Creating)
    BY <1>2
  <2> QED
    BY <2>1, Counted
<1> QED
  BY <1>1, <1>3 DEF CapacityInv

(* A step that removes containers of the map and releases as many tokens,  *)
(* or none.                                                                *)
LEMMA PoolShrinks ==
  ASSUME CapacityInv, stage' \in [Execs -> Stages], Creating' = Creating, created' = created,
         NEW S \in SUBSET pooled, pooled' = pooled \ S,
         Release(Cardinality(S)) \/ tokens' = tokens
  PROVE  CapacityInv'
<1>1. Numbered'
  BY DEF CapacityInv, Numbered
<1>2. /\ Cardinality(pooled) \in Nat /\ Cardinality(Creating) \in Nat
      /\ IsFiniteSet(pooled) /\ IsFiniteSet(Creating) /\ tokens \in Nat
  BY FinitePool, FiniteCreating DEF CapacityInv, CapacityShape
<1>3. /\ IsFiniteSet(S) /\ Cardinality(S) \in Nat
      /\ Cardinality(pooled \ S) \in Nat
      /\ Cardinality(pooled \ S) + Cardinality(S) = Cardinality(pooled)
  BY <1>2, Removed
<1>4. tokens' \in 0..MaxContainers /\ tokens' <= tokens + Cardinality(S)
  <2>1. CASE Release(Cardinality(S))
    BY <2>1, <1>3, Released DEF CapacityInv
  <2>2. CASE tokens' = tokens
    BY <2>2, <1>2, <1>3 DEF CapacityInv, CapacityShape
  <2> QED
    BY <2>1, <2>2
<1>5. CapacityShape'
  BY <1>4 DEF CapacityInv, CapacityShape
<1>6. tokens' \in Nat
  BY <1>4, ExecutorAssumption
<1>7. IsFiniteSet(pooled')
  BY <1>2, FS_Subset
<1>8. Cardinality(pooled') + tokens' + Cardinality(Creating')
        <= Cardinality(pooled) + tokens + Cardinality(Creating)
  BY <1>2, <1>3, <1>4, <1>6
<1>9. CapacityBound'
  BY <1>2, <1>5, <1>7, <1>8, Counted
<1> QED
  BY <1>1, <1>5, <1>9 DEF CapacityInv

LEMMA TokenTaken == ASSUME CapacityInv, NEW e \in Execs, TakeToken(e)  PROVE CapacityInv'
<1>1. /\ Cardinality(pooled) \in Nat /\ Cardinality(Creating) \in Nat
      /\ IsFiniteSet(pooled) /\ IsFiniteSet(Creating) /\ tokens \in Nat
  BY FinitePool, FiniteCreating DEF CapacityInv, CapacityShape
<1>2. Creating' = Creating \cup {e} /\ e \notin Creating
  BY DEF CapacityInv, CapacityShape, TakeToken, Goto, Creating, Stages
<1>3. IsFiniteSet(Creating') /\ Cardinality(Creating') = Cardinality(Creating) + 1
  BY <1>1, <1>2, FS_AddElement
<1>4. CapacityShape' /\ Numbered' /\ pooled' = pooled /\ tokens' = tokens - 1
  BY ExecutorAssumption DEF CapacityInv, CapacityShape, Numbered, TakeToken, Goto, Stages
<1>5. CapacityBound'
  BY <1>1, <1>3, <1>4, Counted
<1> QED
  BY <1>4, <1>5 DEF CapacityInv

LEMMA Created == ASSUME CapacityInv, NEW e \in Execs, Create(e)  PROVE CapacityInv'
<1>1. /\ Cardinality(pooled) \in Nat /\ Cardinality(Creating) \in Nat
      /\ IsFiniteSet(pooled) /\ IsFiniteSet(Creating) /\ tokens \in Nat
      /\ created + 1 \notin pooled
  BY FinitePool, FiniteCreating DEF CapacityInv, CapacityShape
<1>2. Creating' = Creating \ {e} /\ e \in Creating
  BY DEF CapacityInv, CapacityShape, Create, Goto, Creating, Stages
<1>3. IsFiniteSet(Creating') /\ Cardinality(Creating') = Cardinality(Creating) - 1
  BY <1>1, <1>2, FS_RemoveElement
<1>4. pooled' = pooled \cup {created + 1} /\ created' = created + 1 /\ tokens' = tokens
  BY DEF Create
<1>5. IsFiniteSet(pooled') /\ Cardinality(pooled') = Cardinality(pooled) + 1
  BY <1>1, <1>4, FS_AddElement
<1>6. CapacityShape' /\ Numbered'
  BY <1>4 DEF CapacityInv, CapacityShape, Numbered, Create, Goto, Stages
<1>7. CapacityBound'
  BY <1>1, <1>3, <1>4, <1>5, <1>6, Counted
<1> QED
  BY <1>6, <1>7 DEF CapacityInv

LEMMA Refunded == ASSUME CapacityInv, NEW e \in Execs, Refund(e)  PROVE CapacityInv'
<1>1. /\ Cardinality(pooled) \in Nat /\ Cardinality(Creating) \in Nat
      /\ IsFiniteSet(pooled) /\ IsFiniteSet(Creating) /\ tokens \in Nat
  BY FinitePool, FiniteCreating DEF CapacityInv, CapacityShape
<1>2. Creating' = Creating \ {e} /\ e \in Creating
  BY DEF CapacityInv, CapacityShape, Refund, Goto, Creating, Stages
<1>3. IsFiniteSet(Creating') /\ Cardinality(Creating') = Cardinality(Creating) - 1
  BY <1>1, <1>2, FS_RemoveElement
<1>4. CapacityShape' /\ Numbered' /\ pooled' = pooled /\ tokens' = tokens + 1
  BY ExecutorAssumption DEF CapacityInv, CapacityShape, Numbered, Refund, Goto, Stages
<1>5. CapacityBound'
  BY <1>1, <1>3, <1>4, Counted
<1> QED
  BY <1>4, <1>5 DEF CapacityInv

(* Steps of an execution that touch neither map nor semaphore.             *)
LEMMA PoolUntouched ==
  ASSUME CapacityInv, NEW e \in Execs,
         \/ Enter(e) \/ CheckShutdown(e) \/ Track(e) \/ TrackSource(e)
         \/ PrepareFile(e) \/ TakeReady(e) \/ AwaitReady(e) \/ WaitEnds(e)
         \/ CreateFails(e) \/ InitializeFails(e) \/ RunScript(e) \/ RunFails(e)
         \/ Finish(e) \/ CancelExecution(e)
  PROVE  CapacityInv'
<1> USE DEF CapacityInv, CapacityShape, Creating, Goto, Stages, poolVars
<1>1. CASE Enter(e) \/ CheckShutdown(e) \/ Track(e) \/ TrackSource(e) \/ PrepareFile(e)
  <2>1. CapacityShape' /\ Creating' = Creating /\ UNCHANGED <<pooled, tokens, created>>
    BY <1>1 DEF Enter, CheckShutdown, Track, TrackSource, PrepareFile
  <2> QED
    BY ONLY CapacityInv, <2>1, PoolKept
<1>2. CASE TakeReady(e) \/ AwaitReady(e) \/ WaitEnds(e) \/ CreateFails(e) \/ InitializeFails(e)
  <2>1. /\ CapacityShape' /\ Creating' = Creating /\ UNCHANGED <<pooled, tokens>>
        /\ created' \in {created, created + 1}
    BY <1>2 DEF TakeReady, AwaitReady, WaitEnds, CreateFails, InitializeFails
  <2> QED
    BY ONLY CapacityInv, <2>1, PoolKept
<1>3. CASE RunScript(e) \/ RunFails(e) \/ Finish(e) \/ CancelExecution(e)
  <2>1. CapacityShape' /\ Creating' = Creating /\ UNCHANGED <<pooled, tokens, created>>
    BY <1>3 DEF RunScript, RunFails, Finish, CancelExecution
  <2> QED
    BY ONLY CapacityInv, <2>1, PoolKept
<1> QED
  BY <1>1, <1>2, <1>3

(* A container leaves the map when it is marked as failed.                 *)
LEMMA Marked == ASSUME CapacityInv, NEW e \in Execs, MarkAsFailed(e)  PROVE CapacityInv'
<1>1. stage' \in [Execs -> Stages] /\ Creating' = Creating /\ created' = created
  BY DEF CapacityInv, CapacityShape, Creating, MarkAsFailed, Goto, Stages
<1>2. CASE held[e] \in pooled
  <2>1. pooled' = pooled \ {held[e]} /\ Release(1)
    BY <1>2 DEF MarkAsFailed
  <2>2. {held[e]} \in SUBSET pooled /\ Cardinality({held[e]}) = 1
    BY <1>2, FS_Singleton
  <2> QED
    BY <1>1, <2>1, <2>2, PoolShrinks
<1>3. CASE held[e] \notin pooled
  <2>1. pooled' = pooled /\ tokens' = tokens
    BY <1>3 DEF MarkAsFailed
  <2>2. CapacityShape'
    BY <1>1, <2>1 DEF CapacityInv, CapacityShape
  <2> QED
    BY <1>1, <2>1, <2>2, PoolKept
<1> QED
  BY <1>2, <1>3

(* A container that is returned is kept, or removed with its place.        *)
LEMMA Returned == ASSUME CapacityInv, NEW e \in Execs, ReturnContainer(e)  PROVE CapacityInv'
<1>1. stage' \in [Execs -> Stages] /\ Creating' = Creating /\ created' = created
  BY DEF CapacityInv, CapacityShape, Creating, ReturnContainer, Goto, Stages, poolVars
<1>2. \/ UNCHANGED <<pooled, tokens>>
      \/ held[e] \in pooled /\ pooled' = pooled \ {held[e]} /\ Release(1)
  BY DEF ReturnContainer, poolVars
<1>3. CASE UNCHANGED <<pooled, tokens>>
  <2>1. CapacityShape'
    BY <1>1, <1>3 DEF CapacityInv, CapacityShape
  <2> QED
    BY <1>1, <1>3, <2>1, PoolKept
<1>4. CASE held[e] \in pooled /\ pooled' = pooled \ {held[e]} /\ Release(1)
  <2>1. {held[e]} \in SUBSET pooled /\ Cardinality({held[e]}) = 1
    BY <1>4, FS_Singleton
  <2> QED
    BY <1>1, <1>4, <2>1, PoolShrinks
<1> QED
  BY <1>2, <1>3, <1>4

(* The health check and Close.                                             *)
LEMMA Others ==
  ASSUME CapacityInv,
         \/ \E c \in Containers : ContainerStops(c)
         \/ HealthCheck \/ BeginClose \/ CloseStep
  PROVE  CapacityInv'
<1>1. ASSUME \/ \E c \in Containers : ContainerStops(c)
             \/ BeginClose \/ EndWait \/ LockManager
      PROVE  CapacityInv'
  <2>1. UNCHANGED <<stage, pooled, tokens, created>>
    BY <1>1 DEF ContainerStops, BeginClose, EndWait, LockManager, poolVars
  <2>2. CapacityShape' /\ Creating' = Creating
    BY <2>1 DEF CapacityInv, CapacityShape, Creating
  <2> QED
    BY <2>1, <2>2, PoolKept
<1>2. ASSUME HealthCheck  PROVE CapacityInv'
  <2>1. /\ UNCHANGED <<stage, created>>
        /\ \E sick \in SUBSET pooled : /\ pooled' = pooled \ sick
                                       /\ Release(Cardinality(sick))
    BY <1>2 DEF HealthCheck
  <2>2. stage' \in [Execs -> Stages] /\ Creating' = Creating
    BY <2>1 DEF CapacityInv, CapacityShape, Creating
  <2> QED
    BY <2>1, <2>2, PoolShrinks
<1>3. ASSUME ClosePools  PROVE CapacityInv'
  <2>1. UNCHANGED <<stage, created, tokens>> /\ pooled' = pooled \ pooled
    BY <1>3 DEF ClosePools, EmptyPool
  <2>2. stage' \in [Execs -> Stages] /\ Creating' = Creating
    BY <2>1 DEF CapacityInv, CapacityShape, Creating
  <2> QED
    BY <2>1, <2>2, PoolShrinks
<1> QED
  BY <1>1, <1>2, <1>3 DEF CloseStep

-----------------------------------------------------------------------------
LEMMA CapacityInitially == ASSUME ExecInit  PROVE CapacityInv
<1>1. /\ created \in 0..MinContainers /\ created \in Nat /\ pooled = 1..created
      /\ tokens = MaxContainers
  BY ExecutorAssumption DEF ExecInit
<1>2. Cardinality(pooled) = created
  BY <1>1, FS_Interval
<1>3. {e \in Execs : stage[e] \in {"creating", "refunding"}} = {}
  BY DEF ExecInit
<1>4. Cardinality({e \in Execs : stage[e] \in {"creating", "refunding"}}) = 0
  BY <1>3, FS_EmptySet
<1>5. CapacityBound
  BY <1>1, <1>2, <1>4, ExecutorAssumption DEF CapacityBound
<1>6. CapacityShape /\ Numbered
  BY <1>1, ExecutorAssumption DEF ExecInit, CapacityShape, Stages, Numbered
<1> QED
  BY <1>5, <1>6 DEF CapacityInv

LEMMA CapacityPreserved == ASSUME CapacityInv, [ExecNext]_execVars  PROVE CapacityInv'
<1>1. ASSUME NEW e \in Execs, Enter(e) \/ ExecStep(e) \/ CancelExecution(e)
      PROVE  CapacityInv'
  BY <1>1, PoolUntouched, TokenTaken, Created, Refunded, Marked, Returned DEF ExecStep
<1>2. ASSUME UNCHANGED execVars  PROVE CapacityInv'
  <2>1. UNCHANGED <<stage, pooled, tokens, created>>
    BY <1>2 DEF execVars
  <2> QED
    BY <2>1 DEF CapacityInv, CapacityShape, Numbered, CapacityBound
<1> QED
  BY <1>1, <1>2, Others DEF ExecNext

(* For every set of executions and every size of the pool, the containers  *)
(* of the map, the tokens and the containers under construction together   *)
(* never exceed max_containers and the pre-warmed ones: what MarkContainer- *)
(* AsFailed, ReturnContainer, the health check and a failed creation give  *)
(* back was taken before.                                                  *)
THEOREM Capacity == ExecSpec => []CapacityBound
<1>1. ExecInit => CapacityInv
  BY CapacityInitially
<1>2. CapacityInv /\ [ExecNext]_execVars => CapacityInv'
  BY CapacityPreserved
<1>3. CapacityInv => CapacityBound
  BY DEF CapacityInv
<1> QED
  BY <1>1, <1>2, <1>3, PTL DEF ExecSpec

-----------------------------------------------------------------------------
(***************************************************************************)
(* What a caller of GetContainer can hope for.                             *)
(***************************************************************************)

(* A container that waits in the channel and has left the map left a token *)
(* behind, and no token is taken while the channel has anything.           *)
QueueInv == closing # "closed" => tokens > 0 \/ \A i \in 1..Len(ready) : ready[i] \in pooled

(* Somebody brings a container or a token back, if neither is there.       *)
ReturnInv ==
  closing # "closed" /\ stranded = {} =>
    \/ tokens > 0 \/ ready # << >>
    \/ Creating # {}
    \/ \E e \in Execs : held[e] \in pooled

SupplyInv == ExecTypeOK /\ QueueInv /\ ReturnInv

-----------------------------------------------------------------------------
LEMMA QueueType ==
  ASSUME ExecTypeOK, NEW c \in Containers, AddReady(c)
  PROVE  /\ ready' \in Seq(Containers) /\ Len(ready') <= MaxContainers
         /\ ready' # << >>
         /\ \A i \in 1..Len(ready') : ready'[i] = c \/ (i \in 1..Len(ready) /\ ready'[i] = ready[i])
<1>1. CASE Len(ready) < MaxContainers
  <2>1. ready' = Append(ready, c) /\ ready \in Seq(Containers)
    BY <1>1 DEF AddReady, ExecTypeOK
  <2>2. ready' \in Seq(Containers) /\ Len(ready') = Len(ready) + 1
    BY <2>1
  <2>3. \A i \in 1..Len(ready) : ready'[i] = ready[i]
    BY <2>1
  <2>4. ready'[Len(ready) + 1] = c
    BY <2>1
  <2>5. \A i \in 1..Len(ready') : i = Len(ready) + 1 \/ i \in 1..Len(ready)
    BY <2>1, <2>2
  <2>6. ready' # << >>
    BY <2>1, <2>2
  <2>7. Len(ready') <= MaxContainers
    BY <1>1, <2>1, <2>2, ExecutorAssumption
  <2> QED
    BY <2>2, <2>3, <2>4, <2>5, <2>6, <2>7
<1>2. CASE ~(Len(ready) < MaxContainers)
  BY <1>2, ExecutorAssumption DEF AddReady, ExecTypeOK
<1> QED
  BY <1>1, <1>2

LEMMA ReleasedType ==
  ASSUME ExecTypeOK, NEW n \in Nat, Release(n)
  PROVE  tokens' \in 0..MaxContainers /\ (n > 0 => tokens' > 0) /\ tokens' >= tokens
BY ExecutorAssumption DEF Release, ExecTypeOK

(* The channel loses its first element.                                    *)
LEMMA TakenType ==
  ASSUME ExecTypeOK, ready # << >>, ready' = Tail(ready)
  PROVE  /\ Head(ready) \in Containers
         /\ ready' \in Seq(Containers) /\ Len(ready') <= MaxContainers
         /\ Head(ready) = ready[1] /\ Len(ready) > 0
         /\ \A i \in 1..Len(ready') : i + 1 \in 1..Len(ready) /\ ready'[i] = ready[i + 1]
BY ExecutorAssumption DEF ExecTypeOK

(* Steps of an execution without the pool.                                 *)
LEMMA Apart ==
  ASSUME SupplyInv, NEW e \in Execs,
         \/ Enter(e) \/ CheckShutdown(e) \/ Track(e) \/ TrackSource(e)
         \/ PrepareFile(e) \/ AwaitReady(e) \/ WaitEnds(e) \/ CreateFails(e)
         \/ RunScript(e) \/ RunFails(e) \/ Finish(e) \/ CancelExecution(e)
  PROVE  SupplyInv'
<1> USE DEF SupplyInv, Goto, poolVars
<1>1. UNCHANGED <<held, closing, pooled, running, ready, tokens, created, stranded>>
  BY DEF Enter, CheckShutdown, Track, TrackSource, PrepareFile, AwaitReady, WaitEnds,
         CreateFails, RunScript, RunFails, Finish, CancelExecution
<1>2. ExecTypeOK'
  <2>1. stage' \in [Execs -> Stages] /\ cancelled' \subseteq Execs
    BY DEF Enter, CheckShutdown, Track, TrackSource, PrepareFile, AwaitReady, WaitEnds,
           CreateFails, RunScript, RunFails, Finish, CancelExecution, ExecTypeOK, Stages, Active
  <2>2. execFaults' \in 0..MaxExecFaults
    BY ExecutorAssumption
       DEF Enter, CheckShutdown, Track, TrackSource, PrepareFile, AwaitReady, WaitEnds,
           CreateFails, RunScript, RunFails, Finish, CancelExecution, ExecTypeOK, Fault
  <2> QED
    BY <1>1, <2>1, <2>2 DEF ExecTypeOK
<1>3. Creating \subseteq Creating'
  BY DEF Enter, CheckShutdown, Track, TrackSource, PrepareFile, AwaitReady, WaitEnds,
         CreateFails, RunScript, RunFails, Finish, CancelExecution, Creating, ExecTypeOK, Stages
<1> QED
  BY <1>1, <1>2, <1>3 DEF QueueInv, ReturnInv

LEMMA Taken == ASSUME SupplyInv, NEW e \in Execs, TakeReady(e)  PROVE SupplyInv'
<1> USE DEF SupplyInv
<1>1. /\ ready # << >> /\ ready' = Tail(ready) /\ held' = [held EXCEPT ![e] = Head(ready)]
      /\ UNCHANGED <<cancelled, pooled, running, tokens, created, stranded, closing, execFaults>>
      /\ stage' = [stage EXCEPT ![e] = "executing"]
  BY DEF TakeReady, Goto
<1>2. /\ Head(ready) \in Containers
      /\ ready' \in Seq(Containers) /\ Len(ready') <= MaxContainers
      /\ Head(ready) = ready[1] /\ Len(ready) > 0
      /\ \A i \in 1..Len(ready') : i + 1 \in 1..Len(ready) /\ ready'[i] = ready[i + 1]
  BY <1>1, TakenType
<1>3. ExecTypeOK'
  BY <1>1, <1>2, ExecutorAssumption DEF ExecTypeOK, Stages, Containers
<1>4. QueueInv'
  BY <1>1, <1>2 DEF QueueInv
<1>5. closing # "closed" => tokens > 0 \/ held'[e] \in pooled
  BY <1>1, <1>2 DEF QueueInv, ExecTypeOK
<1>6. ReturnInv'
  BY <1>1, <1>5 DEF ReturnInv
<1> QED
  BY <1>3, <1>4, <1>6

LEMMA TokenMoves ==
  ASSUME SupplyInv, NEW e \in Execs, TakeToken(e) \/ InitializeFails(e) \/ Refund(e)
  PROVE  SupplyInv'
<1> USE DEF SupplyInv, Goto
<1>1. CASE TakeToken(e)
  BY <1>1, ExecutorAssumption
     DEF TakeToken, ExecTypeOK, QueueInv, ReturnInv, Creating, Stages
<1>2. CASE InitializeFails(e)
  <2>1. ExecTypeOK'
    <3>1. created' \in Containers /\ created' \in 0..MaxCreated
      BY <1>2, ExecutorAssumption DEF InitializeFails, ExecTypeOK, Containers
    <3>2. running' \subseteq running \cup {created'}
      BY <1>2 DEF InitializeFails
    <3>3. execFaults' \in 0..MaxExecFaults
      BY <1>2, ExecutorAssumption DEF InitializeFails, ExecTypeOK, Fault
    <3>4. stage' \in [Execs -> Stages]
      BY <1>2 DEF InitializeFails, ExecTypeOK, Stages
    <3>5. UNCHANGED <<held, cancelled, pooled, ready, tokens, stranded, closing>>
      BY <1>2 DEF InitializeFails
    <3> QED
      BY <3>1, <3>2, <3>3, <3>4, <3>5 DEF ExecTypeOK
  <2>2. /\ e \in Creating'
        /\ UNCHANGED <<pooled, ready, tokens, closing>>
    BY <1>2 DEF InitializeFails, ExecTypeOK, Creating
  <2> QED
    BY <2>1, <2>2 DEF QueueInv, ReturnInv
<1>3. CASE Refund(e)
  BY <1>3, ExecutorAssumption DEF Refund, ExecTypeOK, QueueInv, ReturnInv, Stages
<1> QED
  BY <1>1, <1>2, <1>3

LEMMA Made == ASSUME SupplyInv, NEW e \in Execs, Create(e)  PROVE SupplyInv'
<1> USE DEF SupplyInv, Goto
<1>1. created + 1 \in Containers /\ created' = created + 1 /\ AddReady(created + 1)
  BY ExecutorAssumption DEF Create, ExecTypeOK, Containers, AddReady
<1>2. /\ ready' \in Seq(Containers) /\ Len(ready') <= MaxContainers /\ ready' # << >>
      /\ \A i \in 1..Len(ready') :
           ready'[i] = created + 1 \/ (i \in 1..Len(ready) /\ ready'[i] = ready[i])
  BY <1>1, QueueType
<1>3. ExecTypeOK'
  BY <1>1, <1>2, ExecutorAssumption DEF Create, ExecTypeOK, Stages, Containers
<1>4. QueueInv' /\ ReturnInv'
  BY <1>1, <1>2 DEF Create, QueueInv, ReturnInv
<1> QED
  BY <1>3, <1>4

LEMMA MarkedSupply == ASSUME SupplyInv, NEW e \in Execs, MarkAsFailed(e)  PROVE SupplyInv'
<1> USE DEF SupplyInv, Goto
<1>1. /\ stage' = [stage EXCEPT ![e] = "returning"] /\ stage[e] = "failing"
      /\ UNCHANGED <<held, cancelled, ready, created, stranded, closing>>
  BY DEF MarkAsFailed
<1>2. Creating' = Creating
  BY <1>1 DEF Creating, ExecTypeOK, Stages
<1>3. CASE held[e] \in pooled
  <2>1. pooled' = pooled \ {held[e]} /\ Release(1) /\ running' \subseteq running
    BY <1>3 DEF MarkAsFailed
  <2>2. tokens' \in 0..MaxContainers /\ tokens' > 0
    BY <2>1, ReleasedType
  <2>3. execFaults' \in 0..MaxExecFaults
    BY <1>3, ExecutorAssumption DEF MarkAsFailed, Fault, ExecTypeOK
  <2>4. ExecTypeOK'
    BY <1>1, <2>1, <2>2, <2>3 DEF ExecTypeOK, Stages
  <2> QED
    BY <2>2, <2>4 DEF QueueInv, ReturnInv
<1>4. CASE held[e] \notin pooled
  <2>1. UNCHANGED <<pooled, tokens, running, execFaults>>
    BY <1>4 DEF MarkAsFailed
  <2>2. ExecTypeOK'
    BY <1>1, <2>1 DEF ExecTypeOK, Stages
  <2> QED
    BY <1>1, <1>2, <2>1, <2>2 DEF QueueInv, ReturnInv
<1> QED
  BY <1>3, <1>4

LEMMA ReturnedSupply == ASSUME SupplyInv, NEW e \in Execs, ReturnContainer(e)  PROVE SupplyInv'
<1> USE DEF SupplyInv, Goto
<1>1. /\ stage' = [stage EXCEPT ![e] = "finishing"] /\ stage[e] = "returning"
      /\ held' = [held EXCEPT ![e] = 0]
      /\ UNCHANGED <<cancelled, closing>>
  BY DEF ReturnContainer
<1>2. /\ Creating' = Creating /\ stage' \in [Execs -> Stages]
      /\ held' \in [Execs -> 0..MaxCreated]
  BY <1>1, ExecutorAssumption DEF Creating, ExecTypeOK, Stages
<1>3. CASE held[e] \notin pooled /\ UNCHANGED <<poolVars, execFaults>>
  <2>1. \A d \in Execs : held[d] \in pooled => held'[d] \in pooled
    BY <1>1, <1>3 DEF ExecTypeOK
  <2> QED
    BY <1>1, <1>2, <1>3, <2>1 DEF poolVars, ExecTypeOK, QueueInv, ReturnInv
<1>4. CASE /\ held[e] \in pooled \cap running
           /\ AddReady(held[e])
           /\ UNCHANGED <<pooled, running, tokens, created, stranded, execFaults>>
  <2>1. held[e] \in Containers
    BY <1>4 DEF ExecTypeOK
  <2>2. /\ ready' \in Seq(Containers) /\ Len(ready') <= MaxContainers /\ ready' # << >>
        /\ \A i \in 1..Len(ready') :
             ready'[i] = held[e] \/ (i \in 1..Len(ready) /\ ready'[i] = ready[i])
    BY <1>4, <2>1, QueueType
  <2>3. ExecTypeOK'
    BY <1>1, <1>2, <1>4, <2>2 DEF ExecTypeOK
  <2> QED
    BY <1>1, <1>4, <2>2, <2>3 DEF QueueInv, ReturnInv
<1>5. CASE /\ held[e] \in pooled
           /\ IF held[e] \in running THEN Fault ELSE UNCHANGED execFaults
           /\ pooled' = pooled \ {held[e]}
           /\ running' = running \ {held[e]}
           /\ Release(1)
           /\ UNCHANGED <<ready, created, stranded>>
  <2>1. tokens' \in 0..MaxContainers /\ tokens' > 0
    BY <1>5, ReleasedType
  <2>2. execFaults' \in 0..MaxExecFaults
    BY <1>5, ExecutorAssumption DEF Fault, ExecTypeOK
  <2>3. ExecTypeOK'
    BY <1>1, <1>2, <1>5, <2>1, <2>2 DEF ExecTypeOK
  <2> QED
    BY <2>1, <2>3 DEF QueueInv, ReturnInv
<1>6. CASE /\ held[e] \in pooled
           /\ Fault
           /\ stranded' = stranded \cup {held[e]}
           /\ UNCHANGED <<pooled, running, ready, tokens, created>>
  <2>1. execFaults' \in 0..MaxExecFaults /\ stranded' \subseteq Containers
    BY <1>6, ExecutorAssumption DEF Fault, ExecTypeOK
  <2>2. ExecTypeOK'
    BY <1>1, <1>2, <1>6, <2>1 DEF ExecTypeOK
  <2> QED
    BY <1>1, <1>6, <2>2 DEF QueueInv, ReturnInv
<1> QED
  BY <1>3, <1>4, <1>5, <1>6 DEF ReturnContainer

LEMMA OthersSupply ==
  ASSUME SupplyInv,
         \/ \E c \in Containers : ContainerStops(c)
         \/ HealthCheck \/ BeginClose \/ CloseStep
  PROVE  SupplyInv'
<1> USE DEF SupplyInv
<1>1. ASSUME NEW c \in Containers, ContainerStops(c)  PROVE SupplyInv'
  BY <1>1, ExecutorAssumption
     DEF ContainerStops, Fault, ExecTypeOK, QueueInv, ReturnInv, Creating
<1>2. ASSUME BeginClose \/ EndWait \/ LockManager  PROVE SupplyInv'
  BY <1>2 DEF BeginClose, EndWait, LockManager, poolVars, Active, ExecTypeOK, QueueInv,
              ReturnInv, Creating
<1>3. ASSUME HealthCheck  PROVE SupplyInv'
  <2>1. PICK sick \in SUBSET pooled :
          /\ sick # {}
          /\ IF sick \subseteq pooled \ running THEN UNCHANGED execFaults ELSE Fault
          /\ pooled' = pooled \ sick
          /\ running' = running \ sick
          /\ Release(Cardinality(sick))
    BY <1>3 DEF HealthCheck
  <2>2. IsFiniteSet(Containers) /\ sick \subseteq Containers
    BY ExecutorAssumption, FS_Interval DEF Containers, ExecTypeOK
  <2>3. IsFiniteSet(sick) /\ Cardinality(sick) \in Nat /\ Cardinality(sick) > 0
    BY <2>1, <2>2, FS_Subset, FS_CardinalityType, FS_EmptySet
  <2>4. tokens' \in 0..MaxContainers /\ tokens' > 0
    BY <2>1, <2>3, ReleasedType
  <2>5. execFaults' \in 0..MaxExecFaults
    BY <2>1, ExecutorAssumption DEF Fault, ExecTypeOK
  <2>6. ExecTypeOK'
    BY <1>3, <2>1, <2>4, <2>5 DEF HealthCheck, ExecTypeOK
  <2> QED
    BY <2>4, <2>6 DEF QueueInv, ReturnInv
<1>4. ASSUME ClosePools  PROVE SupplyInv'
  BY <1>4 DEF ClosePools, EmptyPool, ExecTypeOK, QueueInv, ReturnInv
<1> QED
  BY <1>1, <1>2, <1>3, <1>4 DEF CloseStep

-----------------------------------------------------------------------------
LEMMA SupplyInitially == ASSUME ExecInit  PROVE SupplyInv
<1>1. created \in 0..MaxCreated /\ pooled = 1..created /\ created \in 0..MaxContainers
  BY ExecutorAssumption DEF ExecInit
<1>2. ready \in Seq(Containers) /\ Len(ready) <= MaxContainers
  <2> DEFINE again == IF 2 * created <= MaxContainers THEN created ELSE MaxContainers - created
  <2>1. again \in Nat /\ again <= created /\ created + again <= MaxContainers
    BY <1>1, ExecutorAssumption
  <2>2. ready = [i \in 1..(created + again) |-> IF i <= created THEN i ELSE i - created]
    BY DEF ExecInit, PreWarmed
  <2> HIDE DEF again
  <2>3. \A i \in 1..(created + again) :
          (IF i <= created THEN i ELSE i - created) \in Containers
    BY <1>1, <2>1, ExecutorAssumption DEF Containers
  <2>4. ready \in [1..(created + again) -> Containers]
    BY <2>2, <2>3
  <2>5. Len(ready) = created + again /\ ready \in Seq(Containers)
    BY <1>1, <2>1, <2>4
  <2> QED
    BY <2>1, <2>5
<1>3. tokens = MaxContainers /\ tokens > 0
  BY ExecutorAssumption DEF ExecInit
<1>4. ExecTypeOK
  BY <1>1, <1>2, <1>3, ExecutorAssumption DEF ExecInit, ExecTypeOK, Stages, Containers
<1> QED
  BY <1>3, <1>4 DEF SupplyInv, QueueInv, ReturnInv

LEMMA SupplyPreserved == ASSUME SupplyInv, [ExecNext]_execVars  PROVE SupplyInv'
<1>1. ASSUME NEW e \in Execs, Enter(e) \/ ExecStep(e) \/ CancelExecution(e)
      PROVE  SupplyInv'
  BY <1>1, Apart, Taken, TokenMoves, Made, MarkedSupply, ReturnedSupply DEF ExecStep
<1>2. ASSUME UNCHANGED execVars  PROVE SupplyInv'
  BY <1>2 DEF execVars, SupplyInv, ExecTypeOK, QueueInv, ReturnInv, Creating
<1> QED
  BY <1>1, <1>2, OthersSupply DEF ExecNext

\* Every variable keeps to its type: the channel and the map of containers never
\* hold more than max_containers, and an execution has what its stage says.
THEOREM ExecTypeCorrect == ExecSpec => []ExecTypeOK
<1>1. ExecInit => SupplyInv
  BY SupplyInitially
<1>2. SupplyInv /\ [ExecNext]_execVars => SupplyInv'
  BY SupplyPreserved
<1>3. SupplyInv => ExecTypeOK
  BY DEF SupplyInv
<1> QED
  BY <1>1, <1>2, <1>3, PTL DEF ExecSpec

\* PoolRecovers: when nobody holds a container or waits for one to be made, one is
\* ready in the channel or a token is there to make one, for every size of the pool
\* and whatever failed before, unless Docker refused to remove a container.
THEOREM Recovery == ExecSpec => []PoolRecovers
<1>1. ExecInit => SupplyInv
  BY SupplyInitially
<1>2. SupplyInv /\ [ExecNext]_execVars => SupplyInv'
  BY SupplyPreserved
<1>3. SupplyInv => PoolRecovers
  BY DEF SupplyInv, ReturnInv, ExecTypeOK, Containers, Creating, PoolRecovers
<1> QED
  BY <1>1, <1>2, <1>3, PTL DEF ExecSpec

-----------------------------------------------------------------------------
(***************************************************************************)
(* The run of a script in a container that others have used before.        *)
(***************************************************************************)

ScriptShape ==
  /\ at \in [Runs -> Places]
  /\ script \in [Runs -> {"none", "running", "ended"}]
  /\ DOMAIN ran = Runs /\ DOMAIN output = Runs

(* A container that nobody uses and that is in the pool has no file.       *)
CleanInv == inPool /\ Busy = {} => result = NoRun /\ ~flag

(* What the run that has the container finds there.  The clean-up scripts  *)
(* of earlier runs may have removed any of the files, and made none.       *)
Files(r) ==
  /\ at[r] \in {"waiting", "given", "copied", "prepared"} => script[r] = "none"
  /\ at[r] \in {"given", "copied", "prepared"} => result = NoRun /\ ~flag
  /\ at[r] \in {"copied", "prepared"} => code \in {r, NoRun}
  /\ at[r] \in {"polling", "reading"} =>
       /\ result \in {r, NoRun} /\ ran[r] \in {r, NoRun}
       /\ script[r] = "running" => at[r] = "polling" /\ ~flag
       /\ script[r] # "running" => (result # NoRun => written) /\ (flag => ran[r] = r)
  /\ at[r] = "reading" => ran[r] = r
  /\ at[r] \in {"returning", "done"} /\ inPool => script[r] # "running"

OutputInv ==
  /\ ScriptShape
  /\ ~mixed =>
       /\ \A r, s \in Busy : r = s
       /\ CleanInv
       /\ \A r \in Runs : Files(r)
       /\ \A r \in Runs : output[r] \in {NoRun, Stdout, r}

-----------------------------------------------------------------------------
LEMMA OutputInitially == ASSUME ScriptInit  PROVE OutputInv
<1>1. Busy = {}
  BY DEF ScriptInit, Busy, Inside
<1> QED
  BY <1>1 DEF ScriptInit, OutputInv, ScriptShape, CleanInv, Files, Places

LEMMA ShapeKept ==
  ASSUME OutputInv, [ScriptNext]_scriptVars
  PROVE  ScriptShape' /\ (mixed => mixed')
<1>1. ASSUME NEW r \in Runs,
             \/ GiveContainer(r) \/ CopyCode(r) \/ SetUp(r) \/ SetUpFails(r) \/ StartScript(r)
             \/ ScriptEnds(r)
      PROVE  ScriptShape' /\ (mixed => mixed')
  <2>1. mixed => mixed'
    BY <1>1 DEF GiveContainer, CopyCode, SetUp, SetUpFails, StartScript, ScriptEnds
  <2>2. \/ at' = at
        \/ \E p \in Places : at' = [at EXCEPT ![r] = p]
    BY <1>1 DEF GiveContainer, CopyCode, SetUp, SetUpFails, StartScript, ScriptEnds, Move, Places
  <2>3. \/ script' = script
        \/ \E p \in {"running", "ended"} : script' = [script EXCEPT ![r] = p]
    BY <1>1 DEF GiveContainer, CopyCode, SetUp, SetUpFails, StartScript, ScriptEnds
  <2>4. DOMAIN ran' = DOMAIN ran /\ output' = output
    BY <1>1 DEF GiveContainer, CopyCode, SetUp, SetUpFails, StartScript, ScriptEnds
  <2> QED
    BY <2>1, <2>2, <2>3, <2>4 DEF OutputInv, ScriptShape
<1>2. ASSUME NEW r \in Runs,
             \/ SeeComplete(r) \/ ReadResult(r) \/ GiveUpPolling(r) \/ LeavePool(r)
             \/ WipeFile(r) \/ ResetAndReturn(r)
      PROVE  ScriptShape' /\ (mixed => mixed')
  BY <1>2 DEF SeeComplete, ReadResult, GiveUpPolling, LeavePool, WipeFile, ResetAndReturn, Move,
              files, OutputInv, ScriptShape, Places
<1>3. CASE UNCHANGED scriptVars
  BY <1>3 DEF scriptVars, OutputInv, ScriptShape
<1> QED
  BY <1>1, <1>2, <1>3 DEF ScriptNext

(* The others are not at the container, so that nothing of theirs changes. *)
LEMMA Alone ==
  ASSUME OutputInv, ScriptShape', ~mixed, NEW r \in Runs, at[r] \in Inside \/ script[r] = "running",
         NEW p, NEW q, at' = [at EXCEPT ![r] = p], script' = [script EXCEPT ![r] = q],
         inPool' => inPool,
         \A s \in Runs \ {r} : ran'[s] = ran[s] /\ output'[s] = output[s],
         Files(r)',
         output'[r] \in {NoRun, Stdout, r},
         inPool' /\ p \notin Inside /\ q # "running" => result' = NoRun /\ ~flag'
  PROVE  OutputInv'
<1>1. \A s \in Runs \ {r} : at[s] \notin Inside /\ script[s] # "running"
  BY DEF OutputInv, Busy
<1>2. \A s \in Runs \ {r} : at'[s] = at[s] /\ script'[s] = script[s]
  BY DEF OutputInv, ScriptShape
<1>3. at'[r] = p /\ script'[r] = q
  BY DEF OutputInv, ScriptShape
<1>4. Busy' \subseteq {r}
  BY <1>1, <1>2 DEF Busy
<1>5. CleanInv'
  BY <1>3 DEF CleanInv, Busy
<1>6. \A s \in Runs \ {r} : Files(s)'
  BY <1>1, <1>2 DEF OutputInv, Files, Inside
<1>7. \A s \in Runs : output'[s] \in {NoRun, Stdout, s}
  BY DEF OutputInv
<1> QED
  BY <1>4, <1>5, <1>6, <1>7 DEF OutputInv

LEMMA GivenAlone ==
  ASSUME OutputInv, ScriptShape', ~mixed', NEW r \in Runs, GiveContainer(r)
  PROVE  OutputInv'
<1>1. /\ Busy = {} /\ inPool /\ ~mixed
      /\ at[r] = "waiting" /\ at' = [at EXCEPT ![r] = "given"]
      /\ UNCHANGED <<script, ran, output, code, result, written, flag, inPool>>
  BY DEF GiveContainer, Move, files
<1>2. result = NoRun /\ ~flag /\ script[r] = "none"
  BY <1>1 DEF OutputInv, CleanInv, Files
<1>3. Files(r)'
  BY <1>1, <1>2 DEF OutputInv, ScriptShape, Files
<1>4. \A s \in Runs \ {r} : at[s] \notin Inside /\ script[s] # "running" /\ at'[s] = at[s]
  BY <1>1 DEF Busy, OutputInv, ScriptShape
<1>5. Busy' \subseteq {r} /\ r \in Busy'
  BY <1>1, <1>4 DEF Busy, Inside, OutputInv, ScriptShape
<1>6. \A s \in Runs \ {r} : Files(s)'
  BY <1>1, <1>4 DEF OutputInv, Files, Inside
<1> QED
  BY <1>1, <1>3, <1>5, <1>6 DEF OutputInv, CleanInv

LEMMA Working ==
  ASSUME OutputInv, ScriptShape', ~mixed, NEW r \in Runs,
         \/ CopyCode(r) \/ SetUp(r) \/ SetUpFails(r) \/ StartScript(r) \/ SeeComplete(r)
         \/ ReadResult(r) \/ GiveUpPolling(r) \/ LeavePool(r) \/ ResetAndReturn(r)
  PROVE  OutputInv'
<1> USE DEF Move, files
<1>0. /\ Files(r) /\ output[r] \in {NoRun, Stdout, r}
      /\ DOMAIN at = Runs /\ DOMAIN script = Runs /\ DOMAIN ran = Runs /\ DOMAIN output = Runs
      /\ script = [script EXCEPT ![r] = script[r]]
  BY DEF OutputInv, ScriptShape
<1>1. at[r] \in Inside
  BY DEF CopyCode, SetUp, SetUpFails, StartScript, SeeComplete, ReadResult, GiveUpPolling,
         LeavePool, ResetAndReturn, Inside
<1>2. CASE CopyCode(r) \/ SetUp(r) \/ SetUpFails(r)
  <2>1. /\ UNCHANGED <<script, ran, output, inPool>>
        /\ \E p \in Inside : at' = [at EXCEPT ![r] = p]
        /\ Files(r)'
    BY <1>0, <1>2 DEF CopyCode, SetUp, SetUpFails, Files, Inside
  <2> QED
    BY <1>0, <1>1, <2>1, Alone
<1>3. CASE StartScript(r)
  <2>1. /\ UNCHANGED <<output, inPool>>
        /\ at' = [at EXCEPT ![r] = "polling"] /\ script' = [script EXCEPT ![r] = "running"]
        /\ \A s \in Runs \ {r} : ran'[s] = ran[s]
        /\ Files(r)'
    BY <1>0, <1>3 DEF StartScript, Files
  <2> QED
    BY <1>0, <1>1, <2>1, Alone DEF Inside
<1>4. CASE SeeComplete(r)
  <2>1. /\ UNCHANGED <<script, ran, output, inPool>>
        /\ at' = [at EXCEPT ![r] = "reading"]
        /\ Files(r)'
    BY <1>0, <1>4 DEF SeeComplete, Files
  <2> QED
    BY <1>0, <1>1, <2>1, Alone DEF Inside
<1>5. CASE ReadResult(r)
  <2>1. /\ UNCHANGED <<script, ran, inPool>>
        /\ at' = [at EXCEPT ![r] = "returning"]
        /\ \A s \in Runs \ {r} : output'[s] = output[s]
        /\ Files(r)'
    BY <1>0, <1>5 DEF ReadResult, Files
  <2>2. output'[r] \in {NoRun, Stdout, r}
    BY <1>0, <1>5 DEF ReadResult, Files
  <2> QED
    BY <1>0, <1>1, <2>1, <2>2, Alone DEF Inside
<1>6. CASE GiveUpPolling(r)
  <2>1. /\ UNCHANGED <<script, ran, output, inPool>>
        /\ at' = [at EXCEPT ![r] = "failing"]
        /\ Files(r)'
    BY <1>0, <1>6 DEF GiveUpPolling, Files
  <2> QED
    BY <1>0, <1>1, <2>1, Alone DEF Inside
<1>7. CASE LeavePool(r)
  <2>1. /\ UNCHANGED <<script, ran, output>> /\ ~inPool'
        /\ at' = [at EXCEPT ![r] = "returning"]
        /\ Files(r)'
    BY <1>0, <1>7 DEF LeavePool, Files
  <2> QED
    BY <1>0, <1>1, <2>1, Alone DEF Inside
<1>8. CASE ResetAndReturn(r)
  <2>1. /\ UNCHANGED <<script, ran, output, inPool>>
        /\ at' = [at EXCEPT ![r] = "done"]
        /\ inPool => result' = NoRun /\ ~flag'
        /\ Files(r)'
    BY <1>0, <1>8 DEF ResetAndReturn, Files
  <2> QED
    BY <1>0, <1>1, <2>1, Alone DEF Inside
<1> QED
  BY <1>2, <1>3, <1>4, <1>5, <1>6, <1>7, <1>8

LEMMA Ending ==
  ASSUME OutputInv, ScriptShape', ~mixed, NEW r \in Runs, ScriptEnds(r)
  PROVE  OutputInv'
<1>1. /\ UNCHANGED <<at, ran, output, code, result, inPool>>
      /\ script[r] = "running" /\ script' = [script EXCEPT ![r] = "ended"]
  BY DEF ScriptEnds
<1>6. written \/ result = r => written'
  BY Zenon DEF ScriptEnds
<1>7. ~flag /\ ran[r] = NoRun => ~flag'
  BY Zenon DEF ScriptEnds
<1>2. /\ Files(r) /\ output[r] \in {NoRun, Stdout, r}
      /\ at \in [Runs -> Places] /\ DOMAIN script = Runs
  BY DEF OutputInv, ScriptShape
<1>3. Files(r)'
  <2>1. /\ at'[r] = at[r] /\ script'[r] = "ended" /\ UNCHANGED <<result, ran>>
        /\ at[r] \in {"polling", "failing", "returning", "done"}
    BY <1>1, <1>2 DEF Files, Places
  <2>2. CASE at[r] = "polling"
    BY <1>1, <1>2, <1>6, <1>7, <2>1, <2>2 DEF Files
  <2>3. CASE at[r] # "polling"
    BY <2>1, <2>3 DEF Files
  <2> QED
    BY <2>2, <2>3
<1>4. inPool => at[r] \in Inside
  BY <1>1, <1>2 DEF Files, Places, Inside
<1>5. at' = [at EXCEPT ![r] = at[r]]
  BY <1>1, <1>2
<1> QED
  BY <1>1, <1>2, <1>3, <1>4, <1>5, Alone

(* A clean-up script removes files, whoever has the container.             *)
LEMMA Wiping ==
  ASSUME OutputInv, ScriptShape', ~mixed, NEW w \in Runs, WipeFile(w)
  PROVE  OutputInv'
<1>1. /\ UNCHANGED <<at, script, ran, output, inPool>>
      /\ code' \in {code, NoRun} /\ (flag' => flag)
      /\ result' = NoRun \/ (result' = result /\ (written => written'))
  BY DEF WipeFile
<1>2. \A r \in Runs : Files(r)'
  BY <1>1 DEF OutputInv, Files
<1>3. Busy' = Busy
  BY <1>1 DEF Busy
<1> QED
  BY <1>1, <1>2, <1>3 DEF OutputInv, CleanInv

LEMMA OutputPreserved == ASSUME OutputInv, [ScriptNext]_scriptVars  PROVE OutputInv'
<1>1. ScriptShape'
  BY ShapeKept
<1>2. CASE mixed'
  BY <1>1, <1>2 DEF OutputInv
<1>3. CASE ~mixed'
  <2>1. ~mixed
    BY <1>3, ShapeKept
  <2>2. CASE UNCHANGED scriptVars
    BY <1>1, <2>2 DEF scriptVars, OutputInv, CleanInv, Busy, Files
  <2>3. CASE ScriptNext
    BY <1>1, <1>3, <2>1, <2>3, GivenAlone, Working, Ending, Wiping DEF ScriptNext
  <2> QED
    BY <2>2, <2>3
<1> QED
  BY <1>2, <1>3

\* OutputIsOwn: an execution that succeeds outputs what its own code wrote, or
\* nothing, for every number of executions that use the container one after the
\* other and whatever the clean-up scripts of the earlier ones still remove - until
\* two of them had it at a time.
THEOREM OwnOutput == ScriptSpec => []OutputIsOwn
<1>1. ScriptInit => OutputInv
  BY OutputInitially
<1>2. OutputInv /\ [ScriptNext]_scriptVars => OutputInv'
  BY OutputPreserved
<1>3. OutputInv => OutputIsOwn
  BY DEF OutputInv, OutputIsOwn
<1> QED
  BY <1>1, <1>2, <1>3, PTL DEF ScriptSpec

-----------------------------------------------------------------------------
(***************************************************************************)
(* The cache of downloaded scripts.                                        *)
(***************************************************************************)

CacheShape ==
  /\ phase \in [Fetchers -> Phases]
  /\ wants \in [Fetchers -> Urls \cup {NoUrl}]
  /\ DOMAIN served = Fetchers
  /\ lru \in Seq(Entries) /\ meta \in Seq(Entries)
  /\ copies \in [Fetchers -> SUBSET Seq(Entries)]
  /\ disk \in [Urls -> {"absent", "partial", "whole"}]
  /\ \A f \in Fetchers : /\ phase[f] # "idle" => wants[f] \in Urls
                         /\ phase[f] = "idle" => served[f] = NoUrl

(* Nothing leads to a file that is being written, unless it is in torn:    *)
(* no entry, neither of the map nor of the metadata nor of a copy that is  *)
(* still to be written, and no call that found such an entry or has        *)
(* written the file itself.                                                *)
Reaching == {"hit", "written", "saving", "reading", "checked"}
Unreached(u) ==
  disk[u] = "partial" /\ u \notin torn =>
    /\ Of(u) \notin ToSet(lru) /\ Of(u) \notin ToSet(meta)
    /\ \A g \in Fetchers : \A c \in copies[g] : Of(u) \notin ToSet(c)
    /\ \A g \in Fetchers : wants[g] = u => phase[g] \notin Reaching

CacheInv ==
  /\ CacheShape
  /\ \A u \in Urls : Unreached(u)
  /\ ServedIsWhole
-----------------------------------------------------------------------------
LEMMA DropSubset ==
  ASSUME NEW s \in Seq(Entries), NEW e
  PROVE  Drop(s, e) \in Seq(Entries) /\ ToSet(Drop(s, e)) \subseteq ToSet(s)
<1>1. CASE e \in ToSet(s)
  <2>1. PICK n \in DOMAIN s : s[n] = e
    BY <1>1 DEF ToSet
  <2> DEFINE n0 == CHOOSE k \in DOMAIN s : s[k] = e
  <2>2. n0 \in 1..Len(s)
    BY <2>1
  <2> HIDE DEF n0
  <2> DEFINE a == SubSeq(s, 1, n0 - 1)
             b == SubSeq(s, n0 + 1, Len(s))
  <2>3. /\ a \in Seq(Entries) /\ Len(a) = n0 - 1
        /\ \A i \in 1..(n0 - 1) : a[i] = s[i]
    <3>1. \A i \in 1..(n0 - 1) : s[i] \in Entries
      BY <2>2
    <3> HIDE DEF a
    <3>2. /\ a \in Seq(Entries) /\ Len(a) = IF 1 <= n0 - 1 THEN (n0 - 1) - 1 + 1 ELSE 0
          /\ \A i \in 1..((n0 - 1) - 1 + 1) : a[i] = s[1 + i - 1]
      BY <2>2, <3>1, SubSeqProperties DEF a
    <3> QED
      BY <2>2, <3>2
  <2>4. /\ b \in Seq(Entries) /\ Len(b) = Len(s) - n0
        /\ \A i \in 1..(Len(s) - n0) : b[i] = s[n0 + i]
    <3>1. \A i \in (n0 + 1)..Len(s) : s[i] \in Entries
      BY <2>2
    <3> HIDE DEF b
    <3>2. /\ b \in Seq(Entries)
          /\ Len(b) = IF n0 + 1 <= Len(s) THEN Len(s) - (n0 + 1) + 1 ELSE 0
          /\ \A i \in 1..(Len(s) - (n0 + 1) + 1) : b[i] = s[n0 + 1 + i - 1]
      BY <2>2, <3>1, SubSeqProperties DEF b
    <3> QED
      BY <2>2, <3>2
  <2> HIDE DEF a, b
  <2> DEFINE t == a \o b
  <2>5. /\ t \in Seq(Entries) /\ Len(t) = Len(s) - 1
        /\ \A i \in 1..(Len(s) - 1) : t[i] = IF i <= n0 - 1 THEN a[i] ELSE b[i - (n0 - 1)]
    <3>1. /\ t \in Seq(Entries) /\ Len(t) = Len(a) + Len(b)
          /\ \A i \in 1..(Len(a) + Len(b)) : t[i] = IF i <= Len(a) THEN a[i] ELSE b[i - Len(a)]
      <4> USE <2>3, <2>4
      <4> HIDE DEF t
      <4>1. t = a \o b
        BY DEF t
      <4> QED
        BY <4>1, ConcatProperties
    <3>2. Len(a) + Len(b) = Len(s) - 1
      BY <2>2, <2>3, <2>4
    <3> HIDE DEF t
    <3> QED
      BY <3>1, <3>2, <2>3
  <2> HIDE DEF t
  <2>6. ASSUME NEW i \in 1..(Len(s) - 1)  PROVE \E j \in DOMAIN s : t[i] = s[j]
    <3>1. CASE i <= n0 - 1
      <4>1. i \in 1..(n0 - 1) /\ i \in DOMAIN s
        BY <2>2, <3>1
      <4> QED
        BY <2>3, <2>5, <3>1, <4>1
    <3>2. CASE ~(i <= n0 - 1)
      <4>1. i - (n0 - 1) \in 1..(Len(s) - n0) /\ n0 + (i - (n0 - 1)) = i + 1 /\ i + 1 \in DOMAIN s
        BY <2>2, <3>2
      <4> QED
        BY <2>4, <2>5, <3>2, <4>1
    <3> QED
      BY <3>1, <3>2
  <2>7. Drop(s, e) = t
    BY <1>1 DEF Drop, RemoveAt, t, a, b, n0
  <2>8. ToSet(t) \subseteq ToSet(s)
    <3>1. DOMAIN t = 1..(Len(s) - 1)
      BY <2>5
    <3> QED
      BY <3>1, <2>6 DEF ToSet
  <2> QED
    BY <2>5, <2>7, <2>8
<1>2. CASE e \notin ToSet(s)
  BY <1>2 DEF Drop
<1> QED
  BY <1>1, <1>2

LEMMA AppendedSet ==
  ASSUME NEW s \in Seq(Entries), NEW e \in Entries
  PROVE  Append(s, e) \in Seq(Entries) /\ ToSet(Append(s, e)) \subseteq ToSet(s) \cup {e}
<1>1. Append(s, e) \in Seq(Entries) /\ Len(Append(s, e)) = Len(s) + 1
  OBVIOUS
<1>2. \A i \in 1..Len(s) : Append(s, e)[i] = s[i]
  OBVIOUS
<1>3. Append(s, e)[Len(s) + 1] = e
  OBVIOUS
<1>4. DOMAIN Append(s, e) = 1..(Len(s) + 1)
  BY <1>1
<1>5. ASSUME NEW i \in 1..(Len(s) + 1)  PROVE Append(s, e)[i] \in ToSet(s) \cup {e}
  <2>1. i \in 1..Len(s) \/ i = Len(s) + 1
    OBVIOUS
  <2> QED
    BY <1>2, <1>3, <2>1 DEF ToSet
<1> QED
  BY <1>1, <1>4, <1>5 DEF ToSet

LEMMA OrderedSet ==
  ASSUME NEW S \in SUBSET Entries, IsFiniteSet(S), NEW t, NEW s \in InOrderOf(S, t)
  PROVE  s \in Seq(Entries) /\ ToSet(s) \subseteq S
<1>1. Cardinality(S) \in Nat
  BY FS_CardinalityType
<1>2. s \in [1..Cardinality(S) -> S]
  BY DEF InOrderOf, SetToSeqs
<1> QED
  BY <1>1, <1>2 DEF ToSet

LEMMA EntriesFinite == ASSUME NEW S \in SUBSET Entries  PROVE IsFiniteSet(S)
<1>1. IsFiniteSet(BOOLEAN)
  <2>1. IsFiniteSet({} \cup {TRUE})
    BY FS_EmptySet, FS_AddElement
  <2>2. IsFiniteSet(({} \cup {TRUE}) \cup {FALSE})
    BY <2>1, FS_AddElement
  <2>3. BOOLEAN = ({} \cup {TRUE}) \cup {FALSE}
    OBVIOUS
  <2> QED
    BY <2>2, <2>3
<1>2. IsFiniteSet(Entries)
  BY <1>1, FS_Product, FileCacheAssumption DEF Entries
<1> QED
  BY <1>2, FS_Subset
-----------------------------------------------------------------------------
(* What loadExistingFiles makes of the metadata and the files.             *)
LEMMA EntriesLoaded ==
  ASSUME meta \in Seq(Entries), NEW s \in Loaded
  PROVE  s \in Seq(Entries) /\ \A u : Of(u) \in ToSet(s) => Of(u) \in ToSet(meta)
<1>1. Kept \subseteq ToSet(meta) /\ Kept \cup Named \in SUBSET Entries
  <2>1. ToSet(meta) \subseteq Entries
    BY DEF ToSet
  <2>2. \A u \in Urls : <<u, TRUE>> \in Entries
    BY DEF Entries
  <2> QED
    BY <2>1, <2>2 DEF Kept, Named
<1>2. s \in InOrderOf(Kept \cup Named, meta)
  BY DEF Loaded
<1>3. s \in Seq(Entries) /\ ToSet(s) \subseteq Kept \cup Named
  BY <1>1, <1>2, OrderedSet, EntriesFinite
<1>4. \A u : Of(u) \notin Named
  BY DEF Of, Named
<1> QED
  BY <1>1, <1>3, <1>4

LEMMA CacheInitially == ASSUME CacheInit  PROVE CacheInv
<1> DEFINE there == {Of(u) : u \in {v \in Urls : disk[v] = "whole"}}
<1>1. meta \in SetToSeqs(there) /\ lru \in Loaded
  BY DEF CacheInit
<1>2. there \in SUBSET Entries
  <2>1. \A u \in Urls : Of(u) \in Entries
    BY DEF Of, Entries
  <2> QED
    BY <2>1
<1>3. meta \in Seq(Entries)
  <2> HIDE DEF there
  <2>1. IsFiniteSet(there) /\ Cardinality(there) \in Nat
    BY <1>2, EntriesFinite, FS_CardinalityType
  <2>2. meta \in [1..Cardinality(there) -> there]
    BY <1>1 DEF SetToSeqs
  <2> QED
    BY <1>2, <2>1, <2>2
<1>4. lru \in Seq(Entries)
  BY <1>1, <1>3, EntriesLoaded
<1>5. \A u \in Urls : disk[u] # "partial"
  BY DEF CacheInit
<1>6. CacheShape
  BY <1>3, <1>4 DEF CacheInit, CacheShape, Phases, NoUrl
<1>7. \A u \in Urls : Unreached(u)
  BY <1>5 DEF Unreached
<1>8. ServedIsWhole
  BY DEF CacheInit, ServedIsWhole, NoUrl
<1> QED
  BY <1>6, <1>7, <1>8 DEF CacheInv

(* What a step may do to the entries, the files and a call.                *)
LEMMA CacheShapeKept ==
  ASSUME CacheInv, NEW f \in Fetchers, NEW p \in Phases \ {"idle"},
         phase' = [phase EXCEPT ![f] = p],
         \/ wants' = wants /\ phase[f] # "idle"
         \/ \E u \in Urls : wants' = [wants EXCEPT ![f] = u],
         \/ served' = served
         \/ \E d \in {"partial", "whole"} : served' = [served EXCEPT ![f] = d],
         lru' \in Seq(Entries), meta' \in Seq(Entries),
         copies' \in [Fetchers -> SUBSET Seq(Entries)],
         disk' \in [Urls -> {"absent", "partial", "whole"}]
  PROVE  CacheShape'
<1>1. phase' \in [Fetchers -> Phases] /\ wants' \in [Fetchers -> Urls \cup {NoUrl}]
      /\ DOMAIN served' = Fetchers
  BY DEF CacheInv, CacheShape
<1>2. ASSUME NEW g \in Fetchers
      PROVE  /\ phase'[g] # "idle" => wants'[g] \in Urls
             /\ phase'[g] = "idle" => served'[g] = NoUrl
  BY DEF CacheInv, CacheShape
<1> QED
  BY <1>1, <1>2 DEF CacheShape

(* A step that leads nobody new to a file that is written.                 *)
LEMMA NobodyNew ==
  ASSUME CacheInv, CacheShape', NEW f \in Fetchers, NEW p,
         phase' = [phase EXCEPT ![f] = p], wants' = wants, served' = served, torn' = torn,
         \/ ToSet(lru') \subseteq ToSet(lru)
         \/ phase[f] \in Reaching /\ ToSet(lru') \subseteq ToSet(lru) \cup {Of(wants[f])},
         meta' = meta \/ meta' = << >> \/ \E g \in Fetchers : meta' \in copies[g],
         \A g \in Fetchers : copies'[g] \subseteq copies[g] \cup {lru},
         \A u \in Urls : disk'[u] = "partial" => disk[u] = "partial",
         p \in Reaching => phase[f] \in Reaching
  PROVE  CacheInv'
<1>1. ASSUME NEW u \in Urls  PROVE Unreached(u)'
  <2>1. Unreached(u)
    BY DEF CacheInv
  <2> SUFFICES ASSUME disk'[u] = "partial", u \notin torn
               PROVE  /\ Of(u) \notin ToSet(lru') /\ Of(u) \notin ToSet(meta')
                      /\ \A g \in Fetchers : \A c \in copies'[g] : Of(u) \notin ToSet(c)
                      /\ \A g \in Fetchers : wants[g] = u => phase'[g] \notin Reaching
    BY DEF Unreached, Of
  <2>2. /\ Of(u) \notin ToSet(lru) /\ Of(u) \notin ToSet(meta)
        /\ \A g \in Fetchers : \A c \in copies[g] : Of(u) \notin ToSet(c)
        /\ \A g \in Fetchers : wants[g] = u => phase[g] \notin Reaching
    BY <2>1 DEF Unreached
  <2>3. ASSUME NEW g \in Fetchers, wants[g] = u  PROVE phase'[g] \notin Reaching
    <3>1. phase'[g] = IF g = f THEN p ELSE phase[g]
      BY DEF CacheInv, CacheShape
    <3> QED
      BY <2>2, <2>3, <3>1
  <2>4. Of(u) \notin ToSet(lru')
    <3>1. phase[f] \in Reaching => Of(wants[f]) # Of(u)
      BY <2>2 DEF Of
    <3> QED
      BY <2>2, <3>1
  <2>5. Of(u) \notin ToSet(meta')
    <3>1. ToSet(<< >>) = {}
      BY DEF ToSet
    <3> QED
      BY <2>2, <3>1
  <2>6. \A g \in Fetchers : \A c \in copies'[g] : Of(u) \notin ToSet(c)
    BY <2>2
  <2> QED
    BY <2>3, <2>4, <2>5, <2>6
<1> QED
  BY <1>1 DEF CacheInv, ServedIsWhole

(* The steps of a call that read, and the ones that change the entries.    *)
LEMMA CallSteps ==
  ASSUME CacheInv, NEW f \in Fetchers,
         \/ Touch(f) \/ FindGone(f) \/ DropEntry(f) \/ Download(f) \/ EndWrite(f) \/ Store(f)
         \/ EncodeMetadata(f) \/ WriteMetadata(f) \/ WriteFails(f) \/ ReadAndValidate(f)
  PROVE  CacheInv'
<1> USE DEF Step
<1>1. CASE Touch(f)
  <2>1. /\ phase[f] = "hit" /\ phase' = [phase EXCEPT ![f] = "saving"]
        /\ UNCHANGED <<wants, served, disk, copies, meta, torn>>
    BY <1>1 DEF Touch
  <2>2. lru \in Seq(Entries) /\ Of(wants[f]) \in Entries
    BY <2>1 DEF CacheInv, CacheShape, Entries, Of
  <2>3. lru' \in Seq(Entries) /\ ToSet(lru') \subseteq ToSet(lru)
    <3>1. Drop(lru, Of(wants[f])) \in Seq(Entries)
          /\ ToSet(Drop(lru, Of(wants[f]))) \subseteq ToSet(lru)
      BY <2>2, DropSubset
    <3>2. lru' = lru \/ (Cached(wants[f]) /\ lru' = Append(Drop(lru, Of(wants[f])), Of(wants[f])))
      BY <1>1 DEF Touch
    <3> QED
      <4> DEFINE rest == Drop(lru, Of(wants[f]))
      <4> HIDE DEF rest
      <4>1. rest \in Seq(Entries) /\ ToSet(rest) \subseteq ToSet(lru)
        BY <3>1 DEF rest
      <4>2. Append(rest, Of(wants[f])) \in Seq(Entries)
            /\ ToSet(Append(rest, Of(wants[f]))) \subseteq ToSet(lru) \cup {Of(wants[f])}
        BY <2>2, <4>1, AppendedSet
      <4> QED
        BY <2>2, <3>2, <4>2 DEF rest, Cached
  <2>4. CacheShape'
    BY <2>1, <2>3, CacheShapeKept DEF CacheInv, CacheShape, Phases
  <2> QED
    BY <2>1, <2>3, <2>4, NobodyNew DEF Reaching
<1>2. CASE DropEntry(f)
  <2>1. /\ phase[f] = "dropping" /\ phase' = [phase EXCEPT ![f] = "dropped"]
        /\ UNCHANGED <<wants, served, disk, copies, meta, torn>> /\ lru' = Drop(lru, Of(wants[f]))
    BY <1>2 DEF DropEntry
  <2>2. lru' \in Seq(Entries) /\ ToSet(lru') \subseteq ToSet(lru)
    BY <2>1, DropSubset DEF CacheInv, CacheShape
  <2>3. CacheShape'
    BY <2>1, <2>2, CacheShapeKept DEF CacheInv, CacheShape, Phases
  <2> QED
    BY <2>1, <2>2, <2>3, NobodyNew DEF Reaching
<1>3. CASE FindGone(f) \/ Download(f) \/ ReadAndValidate(f) \/ WriteFails(f)
  <2>1. /\ phase[f] # "idle" /\ UNCHANGED <<wants, served, lru, disk, copies, meta, torn>>
        /\ \E p \in Phases \ {"idle"} : /\ phase' = [phase EXCEPT ![f] = p]
                                        /\ p \in Reaching => phase[f] \in Reaching
    BY <1>3 DEF FindGone, Download, ReadAndValidate, WriteFails, Phases, Reaching
  <2>2. CacheShape'
    BY <2>1, CacheShapeKept DEF CacheInv, CacheShape
  <2> QED
    BY <2>1, <2>2, NobodyNew
<1>4. CASE Store(f)
  <2>1. /\ phase[f] = "written" /\ UNCHANGED <<wants, served, disk, copies, meta, torn>>
        /\ \E p \in {"failed", "saving"} : phase' = [phase EXCEPT ![f] = p]
    BY <1>4 DEF Store
  <2>2. lru \in Seq(Entries) /\ Of(wants[f]) \in Entries
    BY <2>1 DEF CacheInv, CacheShape, Entries, Of
  <2>3. lru' \in Seq(Entries) /\ ToSet(lru') \subseteq ToSet(lru) \cup {Of(wants[f])}
    <3>1. Drop(lru, Of(wants[f])) \in Seq(Entries)
          /\ ToSet(Drop(lru, Of(wants[f]))) \subseteq ToSet(lru)
      BY <2>2, DropSubset
    <3>2. lru' = lru \/ lru' = Append(Drop(lru, Of(wants[f])), Of(wants[f]))
      BY <1>4 DEF Store
    <3> QED
      <4> DEFINE rest == Drop(lru, Of(wants[f]))
      <4> HIDE DEF rest
      <4>1. rest \in Seq(Entries) /\ ToSet(rest) \subseteq ToSet(lru)
        BY <3>1 DEF rest
      <4>2. Append(rest, Of(wants[f])) \in Seq(Entries)
            /\ ToSet(Append(rest, Of(wants[f]))) \subseteq ToSet(lru) \cup {Of(wants[f])}
        BY <2>2, <4>1, AppendedSet
      <4> QED
        BY <2>2, <3>2, <4>2 DEF rest
  <2>4. CacheShape'
    BY <2>1, <2>3, CacheShapeKept DEF CacheInv, CacheShape, Phases
  <2> QED
    BY <2>1, <2>3, <2>4, NobodyNew DEF Reaching
<1>5. CASE EncodeMetadata(f)
  <2>1. /\ phase[f] \in Reaching \cup {"evicting", "dropped"} /\ phase[f] # "idle"
        /\ UNCHANGED <<phase, wants, served, disk, lru, meta, torn>>
        /\ copies' = [copies EXCEPT ![f] = {lru}]
    BY <1>5 DEF EncodeMetadata, AfterSave, Reaching
  <2>2. phase' = [phase EXCEPT ![f] = phase[f]] /\ phase[f] \in Phases
    BY <2>1 DEF CacheInv, CacheShape
  <2>3. copies' \in [Fetchers -> SUBSET Seq(Entries)]
        /\ \A g \in Fetchers : copies'[g] \subseteq copies[g] \cup {lru}
    BY <2>1 DEF CacheInv, CacheShape
  <2>4. CacheShape'
    BY <2>1, <2>2, <2>3, CacheShapeKept DEF CacheInv, CacheShape
  <2> QED
    BY <2>1, <2>2, <2>3, <2>4, NobodyNew
<1>6. CASE WriteMetadata(f)
  <2>1. /\ phase[f] \in {"evicting", "saving", "dropped"}
        /\ UNCHANGED <<wants, served, disk, lru, torn>>
        /\ \E c \in copies[f] : meta' \in {c, << >>}
        /\ copies' = [copies EXCEPT ![f] = {}]
        /\ phase' = [phase EXCEPT ![f] = AfterSave[phase[f]]]
    BY <1>6 DEF WriteMetadata, AfterSave
  <2>2. AfterSave[phase[f]] \in {"spaced", "reading", "failed"}
        /\ (AfterSave[phase[f]] = "reading" => phase[f] = "saving")
    BY <2>1 DEF AfterSave
  <2>3. meta' \in Seq(Entries) /\ (meta' = << >> \/ meta' \in copies[f])
    <3>1. << >> \in Seq(Entries)
      OBVIOUS
    <3> QED
      BY <2>1, <3>1 DEF CacheInv, CacheShape
  <2>4. copies' \in [Fetchers -> SUBSET Seq(Entries)]
        /\ \A g \in Fetchers : copies'[g] \subseteq copies[g] \cup {lru}
    BY <2>1 DEF CacheInv, CacheShape
  <2>5. CacheShape'
    BY <2>1, <2>2, <2>3, <2>4, CacheShapeKept DEF CacheInv, CacheShape, Phases
  <2> QED
    BY <2>1, <2>2, <2>3, <2>4, <2>5, NobodyNew DEF Reaching
<1> QED
  <2>1. CASE EndWrite(f)
    <3>1. /\ phase[f] = "writing" /\ phase' = [phase EXCEPT ![f] = "written"]
          /\ UNCHANGED <<wants, served, lru, copies, meta, torn>>
          /\ disk' = [disk EXCEPT ![wants[f]] = IF @ = "partial" THEN "whole" ELSE @]
      BY <2>1 DEF EndWrite
    <3>2. wants[f] \in Urls /\ disk \in [Urls -> {"absent", "partial", "whole"}]
      BY <3>1 DEF CacheInv, CacheShape
    <3>3. /\ disk' \in [Urls -> {"absent", "partial", "whole"}] /\ disk'[wants[f]] # "partial"
          /\ \A u \in Urls \ {wants[f]} : disk'[u] = disk[u]
      BY <3>1, <3>2
    <3>4. CacheShape'
      BY <3>1, <3>3, CacheShapeKept DEF CacheInv, CacheShape, Phases
    <3>5. ASSUME NEW u \in Urls  PROVE Unreached(u)'
      <4>1. CASE u = wants[f]
        BY <3>3, <4>1 DEF Unreached
      <4>2. CASE u # wants[f]
        <5>1. Unreached(u)
          BY DEF CacheInv
        <5>2. \A g \in Fetchers : g # f => phase'[g] = phase[g]
          BY <3>1 DEF CacheInv, CacheShape
        <5> QED
          BY <3>1, <3>3, <4>2, <5>1, <5>2 DEF Unreached, Of
      <4> QED
        BY <4>1, <4>2
    <3> QED
      BY <3>1, <3>4, <3>5 DEF CacheInv, ServedIsWhole
  <2> QED
    BY <1>1, <1>2, <1>3, <1>4, <1>5, <1>6, <2>1

LEMMA EntryFound ==
  ASSUME CacheInv, NEW f \in Fetchers, NEW u \in Urls, Lookup(f, u)
  PROVE  CacheInv'
<1>1. /\ phase[f] = "idle" /\ wants' = [wants EXCEPT ![f] = u]
      /\ UNCHANGED <<served, lru, disk, copies, meta, torn>>
      /\ \E p \in {"hit", "missed"} : /\ phase' = [phase EXCEPT ![f] = p]
                                      /\ p = "hit" => Of(u) \in ToSet(lru)
  BY DEF Lookup, Step, Cached
<1>2. CacheShape'
  BY <1>1, CacheShapeKept DEF CacheInv, CacheShape, Phases
<1>3. ASSUME NEW v \in Urls  PROVE Unreached(v)'
  <2>1. Unreached(v)
    BY DEF CacheInv
  <2>2. \A g \in Fetchers : g # f => phase'[g] = phase[g] /\ wants'[g] = wants[g]
    BY <1>1 DEF CacheInv, CacheShape
  <2>3. phase'[f] \in Reaching => Of(u) \in ToSet(lru)
    BY <1>1 DEF CacheInv, CacheShape, Reaching
  <2>4. wants'[f] = u
    BY <1>1 DEF CacheInv, CacheShape
  <2> QED
    BY <1>1, <2>1, <2>2, <2>3, <2>4 DEF Unreached, Of
<1>4. ServedIsWhole'
  <2>1. ASSUME NEW g \in Fetchers  PROVE served'[g] # "partial" \/ wants'[g] \in torn'
    <3>1. CASE g = f
      BY <1>1, <3>1 DEF CacheInv, CacheShape, NoUrl
    <3>2. CASE g # f
      BY <1>1, <3>2 DEF CacheInv, CacheShape, ServedIsWhole
    <3> QED
      BY <3>1, <3>2
  <2> QED
    BY <2>1 DEF ServedIsWhole
<1> QED
  BY <1>2, <1>3, <1>4 DEF CacheInv

LEMMA Evicted ==
  ASSUME CacheInv, NEW f \in Fetchers, EnsureSpace(f)
  PROVE  CacheInv'
<1>1. /\ phase[f] = "fetched" /\ UNCHANGED <<wants, served, copies, meta, torn>>
      /\ \E p \in {"spaced", "evicting"} : phase' = [phase EXCEPT ![f] = p]
  BY DEF EnsureSpace, Step
<1>2. \/ lru' = lru
      \/ lru' \in InOrderOf(ToSet(lru) \ Victims, lru)
  BY DEF EnsureSpace
<1>3. \/ disk' = disk
      \/ disk' = [u \in Urls |-> IF \E e \in Victims : e[1] = u THEN "absent" ELSE disk[u]]
  BY DEF EnsureSpace
<1>4. disk' \in [Urls -> {"absent", "partial", "whole"}]
      /\ \A u \in Urls : disk'[u] = "partial" => disk[u] = "partial"
  BY <1>3 DEF CacheInv, CacheShape
<1>5. lru' \in Seq(Entries) /\ ToSet(lru') \subseteq ToSet(lru)
  <2>1. lru \in Seq(Entries)
    BY DEF CacheInv, CacheShape
  <2>2. ToSet(lru) \ Victims \in SUBSET Entries
    BY <2>1 DEF ToSet
  <2> HIDE DEF ToSet
  <2> QED
    BY <1>2, <2>1, <2>2, OrderedSet, EntriesFinite
<1>6. CacheShape'
  BY <1>1, <1>4, <1>5, CacheShapeKept DEF CacheInv, CacheShape, Phases
<1> QED
  BY <1>1, <1>4, <1>5, <1>6, NobodyNew DEF Reaching

LEMMA Written ==
  ASSUME CacheInv, NEW f \in Fetchers, BeginWrite(f)
  PROVE  CacheInv'
<1>1. /\ phase[f] = "spaced" /\ UNCHANGED <<wants, served, lru, copies, meta>>
      /\ phase' = [phase EXCEPT ![f] = "writing"]
      /\ disk' = [disk EXCEPT ![wants[f]] = "partial"]
  BY DEF BeginWrite, Step
<1>2. /\ torn \subseteq torn'
      /\ wants[f] \notin torn' =>
           /\ Of(wants[f]) \notin ToSet(lru) /\ Of(wants[f]) \notin ToSet(meta)
           /\ \A g \in Fetchers : \A c \in copies[g] : Of(wants[f]) \notin ToSet(c)
           /\ \A g \in Fetchers \ {f} : wants[g] = wants[f] => phase[g] \notin Reaching
  BY DEF BeginWrite, Cached, Reaching
<1>3. wants[f] \in Urls /\ disk \in [Urls -> {"absent", "partial", "whole"}]
  BY <1>1 DEF CacheInv, CacheShape
<1>4. CacheShape'
  BY <1>1, <1>3, CacheShapeKept DEF CacheInv, CacheShape, Phases
<1>5. phase'[f] = "writing" /\ \A g \in Fetchers : g # f => phase'[g] = phase[g]
  BY <1>1 DEF CacheInv, CacheShape
<1>6. ASSUME NEW u \in Urls  PROVE Unreached(u)'
  <2>1. CASE u = wants[f]
    BY <1>1, <1>2, <1>5, <2>1 DEF Unreached, Of, Reaching
  <2>2. CASE u # wants[f]
    <3>1. Unreached(u) /\ disk'[u] = disk[u]
      BY <1>1, <1>3, <2>2 DEF CacheInv
    <3> QED
      BY <1>1, <1>2, <1>5, <3>1, <2>2 DEF Unreached, Of
  <2> QED
    BY <2>1, <2>2
<1> QED
  BY <1>1, <1>2, <1>4, <1>6 DEF CacheInv, ServedIsWhole

LEMMA Copied ==
  ASSUME CacheInv, NEW f \in Fetchers, CopyFile(f)
  PROVE  CacheInv'
<1>1. CASE disk[wants[f]] = "absent"
  <2>1. /\ phase[f] = "checked" /\ phase' = [phase EXCEPT ![f] = "failed"]
        /\ UNCHANGED <<wants, served, lru, disk, copies, meta, torn>>
    BY <1>1 DEF CopyFile, Step
  <2>2. CacheShape'
    BY <2>1, CacheShapeKept DEF CacheInv, CacheShape, Phases
  <2> QED
    BY <2>1, <2>2, NobodyNew DEF Reaching
<1>2. CASE disk[wants[f]] # "absent"
  <2>1. /\ phase[f] = "checked" /\ phase' = [phase EXCEPT ![f] = "given"]
        /\ UNCHANGED <<wants, lru, disk, copies, meta, torn>>
        /\ served' = [served EXCEPT ![f] = disk[wants[f]]]
    BY <1>2 DEF CopyFile, Step
  <2>2. wants[f] \in Urls /\ disk[wants[f]] \in {"partial", "whole"}
    BY <1>2, <2>1 DEF CacheInv, CacheShape
  <2>3. CacheShape'
    BY <2>1, <2>2, CacheShapeKept DEF CacheInv, CacheShape, Phases
  <2>4. phase'[f] = "given" /\ \A g \in Fetchers : g # f => phase'[g] = phase[g]
    BY <2>1 DEF CacheInv, CacheShape
  <2>5. ASSUME NEW u \in Urls  PROVE Unreached(u)'
    <3>1. Unreached(u)
      BY DEF CacheInv
    <3> QED
      BY <2>1, <2>4, <3>1 DEF Unreached, Of, Reaching
  <2>6. disk[wants[f]] = "partial" => wants[f] \in torn
    <3>1. Unreached(wants[f])
      BY <2>2 DEF CacheInv
    <3> QED
      BY <2>1, <3>1 DEF Unreached, Reaching
  <2>7. served'[f] = disk[wants[f]] /\ \A g \in Fetchers : g # f => served'[g] = served[g]
    BY <2>1 DEF CacheInv, CacheShape
  <2> QED
    BY <2>1, <2>3, <2>5, <2>6, <2>7 DEF CacheInv, ServedIsWhole
<1> QED
  BY <1>1, <1>2

LEMMA Restarted ==
  ASSUME CacheInv, Restart
  PROVE  CacheInv'
<1>1. /\ phase' = [f \in Fetchers |-> "idle"] /\ wants' = [f \in Fetchers |-> NoUrl]
      /\ served' = [f \in Fetchers |-> NoUrl] /\ copies' = [f \in Fetchers |-> {}]
      /\ UNCHANGED <<disk, meta, torn>> /\ lru' \in Loaded
  BY DEF Restart
<1>2. lru' \in Seq(Entries) /\ \A u : Of(u) \in ToSet(lru') => Of(u) \in ToSet(meta)
  BY <1>1, EntriesLoaded DEF CacheInv, CacheShape
<1>3. CacheShape'
  BY <1>1, <1>2 DEF CacheInv, CacheShape, Phases
<1>4. ASSUME NEW u \in Urls  PROVE Unreached(u)'
  <2>1. Unreached(u)
    BY DEF CacheInv
  <2>2. \A g \in Fetchers : phase'[g] \notin Reaching /\ copies'[g] = {}
    BY <1>1 DEF Reaching
  <2> QED
    BY <1>1, <1>2, <2>1, <2>2 DEF Unreached, Of
<1>5. ServedIsWhole'
  BY <1>1 DEF ServedIsWhole, NoUrl
<1> QED
  BY <1>3, <1>4, <1>5 DEF CacheInv

LEMMA CachePreserved == ASSUME CacheInv, [CacheNext]_cacheVars  PROVE CacheInv'
<1>1. CASE UNCHANGED cacheVars
  BY <1>1 DEF cacheVars, CacheInv, CacheShape, Unreached, ServedIsWhole, Of
<1> QED
  BY <1>1, CallSteps, EntryFound, Evicted, Written, Copied, Restarted DEF CacheNext

\* ServedIsWhole: what GetOrDownload gives to a container is a whole download, for
\* every number of callers, URLs and evictions and across restarts - unless its URL
\* is one of those that StoreFile wrote while another call could reach the file, or
\* while an entry led to it, also one in a copy of the map that saveMetadata had
\* encoded and not yet written.
THEOREM WholeScripts == CacheSpec => []ServedIsWhole
<1>1. CacheInv => ServedIsWhole
  BY DEF CacheInv
<1> QED
  BY <1>1, CacheInitially, CachePreserved, PTL DEF CacheSpec

-----------------------------------------------------------------------------
(***************************************************************************)
(* The quotes of fees.                                                     *)
(***************************************************************************)

(* Induction over numbers, as the existence of a least counterexample: a   *)
(* statement about a set, which the provers can instantiate.               *)
LEMMA Least ==
  ASSUME NEW T \in SUBSET Nat, T # {}
  PROVE  \E m \in T : \A k \in T : m <= k
<1>1. PICK R : R = OpToRel(<, Nat)
  OBVIOUS
<1>2. \A x, y \in Nat : y < x => <<y, x>> \in R
  BY <1>1 DEF OpToRel
<1>3. IsWellFoundedOn(R, Nat)
  BY <1>1, NatLessThanWellFounded
<1>4. PICK m \in T : \A k \in T : ~(<<k, m>> \in R)
  BY <1>3, WFMin
<1>5. ASSUME NEW k \in T  PROVE m <= k
  <2>1. m \in Nat /\ k \in Nat /\ ~(k < m)
    BY <1>2, <1>4, <1>5
  <2> QED
    BY <2>1
<1> QED
  BY <1>4, <1>5

(* What a list of lists is joined to: the recursive function of FlattenSeq *)
(* exists, and adds one list at a time.                                    *)
LEMMA Flattened ==
  ASSUME NEW S, NEW s \in Seq(Seq(S))
  PROVE  FlattenSeq(s) \in Seq(S)
<1> DEFINE Joins(n, f) == f = [i \in 1..n |-> IF i = 1 THEN s[i] ELSE f[i - 1] \o s[i]]
<1>0. Len(s) \in Nat
  OBVIOUS
<1>1. CASE Len(s) = 0
  <2>1. s = << >> /\ << >> \in Seq(S)
    BY <1>1
  <2> QED
   BY <1>1, <2>1 DEF FlattenSeq
<1>2. CASE Len(s) # 0
  <2>1. \A n \in 0..Len(s) : \E f : Joins(n, f)
    <3> DEFINE T == {n \in 0..Len(s) : ~ \E f : Joins(n, f)}
    <3> SUFFICES ASSUME T # {}  PROVE FALSE
      OBVIOUS
    <3>1. T \in SUBSET Nat
      <4> HIDE DEF Joins
      <4> QED
        BY <1>0
    <3> HIDE DEF T
    <3>2. PICK m \in T : \A k \in T : m <= k
      BY <3>1, Least
    <3>3. m \in 0..Len(s) /\ ~ \E f : Joins(m, f)
      BY DEF T
    <3>4. CASE m = 0
      <4>1. PICK f : f = [i \in 1..0 |-> 0]
        OBVIOUS
      <4>2. Joins(0, f)
        BY <4>1
      <4> QED
        BY <3>3, <3>4, <4>2
    <3>5. CASE m # 0
      <4>1. m - 1 \notin T /\ m - 1 \in 0..Len(s) /\ m \in Nat
        BY <1>0, <3>2, <3>3, <3>5
      <4>2. PICK f : Joins(m - 1, f)
        BY <4>1 DEF T
      <4>3. PICK g : g = [i \in 1..m |-> IF i = 1 THEN s[i] ELSE f[i - 1] \o s[i]]
        OBVIOUS
      <4>4. \A i \in 1..(m - 1) : g[i] = f[i]
        <5>1. \A i \in 1..(m - 1) : f[i] = IF i = 1 THEN s[i] ELSE f[i - 1] \o s[i]
          BY <4>2, Zenon
        <5>2. \A i \in 1..m : g[i] = IF i = 1 THEN s[i] ELSE f[i - 1] \o s[i]
          BY <4>3, Zenon
        <5> QED
          BY <4>1, <5>1, <5>2
      <4>5. \A i \in 1..m : g[i] = IF i = 1 THEN s[i] ELSE g[i - 1] \o s[i]
        <5>1. \A i \in 1..m : g[i] = IF i = 1 THEN s[i] ELSE f[i - 1] \o s[i]
          BY <4>3, Zenon
        <5>2. \A i \in 1..m : i # 1 => i - 1 \in 1..(m - 1)
          BY <4>1
        <5> QED
          BY <4>4, <5>1, <5>2
      <4>6. Joins(m, g)
        BY <4>3, <4>5
      <4> QED
        BY <3>3, <4>6
    <3> QED
      BY <3>4, <3>5
  <2>2. \E f : Joins(Len(s), f)
    <3>1. Len(s) \in 0..Len(s)
      BY <1>0
    <3> HIDE DEF Joins
    <3> QED
      BY <2>1, <3>1
  <2>3. PICK f : Joins(Len(s), f) /\ FlattenSeq(s) = f[Len(s)]
    BY <1>2, <2>2 DEF FlattenSeq
  <2>4. \A n \in 1..Len(s) : f[n] \in Seq(S)
    <3> DEFINE T == {n \in 1..Len(s) : f[n] \notin Seq(S)}
    <3> SUFFICES ASSUME T # {}  PROVE FALSE
      OBVIOUS
    <3>1. T \in SUBSET Nat
      OBVIOUS
    <3> HIDE DEF T
    <3>2. PICK m \in T : \A k \in T : m <= k
      BY <3>1, Least
    <3>3. m \in 1..Len(s) /\ f[m] \notin Seq(S)
      BY DEF T
    <3>4. f[m] = IF m = 1 THEN s[m] ELSE f[m - 1] \o s[m]
      BY <2>3, <3>3
    <3>5. s[m] \in Seq(S)
      BY <3>3
    <3>6. CASE m = 1
      BY <3>3, <3>4, <3>5, <3>6
    <3>7. CASE m # 1
      <4>1. m - 1 \notin T /\ m - 1 \in 1..Len(s)
        BY <1>0, <3>2, <3>3, <3>7
      <4>2. f[m - 1] \in Seq(S)
        BY <4>1 DEF T
      <4> QED
        BY <3>3, <3>4, <3>5, <3>7, <4>2
    <3> QED
      BY <3>6, <3>7
  <2>5. Len(s) \in 1..Len(s)
    BY <1>0, <1>2
  <2> QED
    BY <2>3, <2>4, <2>5
<1> QED
  BY <1>1, <1>2

(* Every list of numbers has an upper bound ...                            *)
LEMMA RanksBounded ==
  ASSUME NEW s \in Seq(Nat)
  PROVE  \E b \in Nat : \A i \in 1..Len(s) : s[i] <= b
<1>0. Len(s) \in Nat
  OBVIOUS
<1> DEFINE T == {n \in 0..Len(s) : ~ \E b \in Nat : \A i \in 1..n : s[i] <= b}
<1> SUFFICES ASSUME T # {}  PROVE FALSE
  <2>1. Len(s) \notin T
    BY <1>0
  <2> QED
    BY <1>0, <2>1
<1>1. T \in SUBSET Nat
  OBVIOUS
<1> HIDE DEF T
<1>2. PICK m \in T : \A k \in T : m <= k
  BY <1>1, Least
<1>3. m \in 0..Len(s)
  BY DEF T
<1>4. ~ \E b \in Nat : \A i \in 1..m : s[i] <= b
  BY DEF T
<1>5. CASE m = 0
  BY <1>4, <1>5
<1>6. CASE m # 0
  <2>1. m - 1 \notin T /\ m - 1 \in 0..Len(s) /\ m \in Nat
    BY <1>0, <1>2, <1>3, <1>6
  <2>2. PICK b \in Nat : \A i \in 1..(m - 1) : s[i] <= b
    BY <2>1 DEF T
  <2>3. PICK c \in Nat : c = s[m]
    BY <1>3, <1>6
  <2>4. \A i \in 1..m : s[i] <= b + c
    <3>1. \A i \in 1..m : s[i] \in Nat /\ (i = m \/ i \in 1..(m - 1))
      BY <1>0, <1>3, <2>1
    <3> QED
      BY <2>2, <2>3, <3>1
  <2>5. b + c \in Nat
    OBVIOUS
  <2> QED
    BY <1>4, <2>4, <2>5
<1> QED
  BY <1>5, <1>6

(* ... so each of its ranks has a value.                                   *)
LEMMA RankedIs ==
  ASSUME NEW s \in Seq(Nat), NEW k \in 1..Len(s)
  PROVE  /\ Ranked(s, k) \in Nat
         /\ Cardinality({i \in DOMAIN s : s[i] <= Ranked(s, k)}) >= k
<1> DEFINE Below(b) == {i \in DOMAIN s : s[i] < b}
           UpTo(b) == {i \in DOMAIN s : s[i] <= b}
           T == {b \in Nat : Cardinality(UpTo(b)) >= k}
<1>1. /\ Len(s) \in Nat /\ k \in Nat /\ k > 0 /\ k <= Len(s) /\ DOMAIN s = 1..Len(s) /\ \A i \in DOMAIN s : s[i] \in Nat
  OBVIOUS
<1>2. IsFiniteSet(DOMAIN s) /\ Cardinality(DOMAIN s) = Len(s)
  BY <1>1, FS_Interval
<1>3. \A b \in Nat : IsFiniteSet(UpTo(b)) /\ Cardinality(UpTo(b)) \in Nat
  <2>1. \A b \in Nat : UpTo(b) \in SUBSET (DOMAIN s)
    OBVIOUS
  <2> QED
    BY <1>2, <2>1, FS_Subset, FS_CardinalityType
<1>4. T # {}
  <2>1. PICK b \in Nat : \A i \in 1..Len(s) : s[i] <= b
    BY RanksBounded
  <2>2. UpTo(b) = DOMAIN s
    BY <1>1, <2>1
  <2>3. Cardinality(UpTo(b)) >= k
    <3> HIDE DEF UpTo
    <3> QED
      BY <1>1, <1>2, <2>2
  <2> QED
    BY <2>3
<1>5. T \in SUBSET Nat
  OBVIOUS
<1>6. PICK m \in T : \A b \in T : m <= b
  <2> HIDE DEF T
  <2> QED
    BY <1>4, <1>5, Least
<1>7. m \in Nat /\ Cardinality(UpTo(m)) >= k
  BY <1>6
<1>8. Cardinality(Below(m)) < k
  <2>1. CASE m = 0
    <3>1. Below(m) = {}
      BY <1>1, <2>1
    <3> QED
      BY <1>1, <3>1, FS_EmptySet
  <2>2. CASE m # 0
    <3>1. m - 1 \in Nat /\ m - 1 \notin T
      BY <1>6, <1>7, <2>2
    <3>2. Below(m) = UpTo(m - 1)
      BY <1>1, <1>7, <3>1
    <3>3. ~(Cardinality(UpTo(m - 1)) >= k)
      BY <3>1
    <3>4. Cardinality(UpTo(m - 1)) \in Nat
      BY <1>3, <3>1
    <3> HIDE DEF UpTo, Below
    <3> QED
      BY <1>1, <3>2, <3>3, <3>4
  <2> QED
    BY <2>1, <2>2
<1>9. m \in ToSet(s)
  <2>1. CASE \A i \in DOMAIN s : s[i] # m
    <3>1. Below(m) = UpTo(m)
      BY <1>1, <1>7, <2>1
    <3>2. Cardinality(UpTo(m)) \in Nat
      BY <1>3, <1>7
    <3> HIDE DEF UpTo, Below
    <3> QED
      BY <1>1, <1>7, <1>8, <3>1, <3>2
  <2>2. CASE \E i \in DOMAIN s : s[i] = m
    BY <2>2 DEF ToSet
  <2> QED
    BY <2>1, <2>2
<1> DEFINE Rank(v) == Cardinality(Below(v)) < k /\ Cardinality(UpTo(v)) >= k
<1>10. Ranked(s, k) = CHOOSE v \in ToSet(s) : Rank(v)
  BY DEF Ranked
<1>11. Rank(m)
  BY <1>7, <1>8
<1>12. Ranked(s, k) \in ToSet(s) /\ Rank(Ranked(s, k))
  <2> HIDE DEF Rank
  <2> QED
    BY <1>9, <1>10, <1>11
<1>13. Ranked(s, k) \in Nat
  BY <1>1, <1>12 DEF ToSet
<1> QED
  BY <1>12, <1>13

(* The percentile is a price that was sampled, and more than three         *)
(* quarters of the samples are no dearer.                                  *)
LEMMA PercentileIs ==
  ASSUME NEW s \in Seq(Nat), s # << >>
  PROVE  /\ calculatePercentile(s) \in Nat
         /\ \A p \in Nat : calculatePercentile(s) < p
                           => 4 * Cardinality({i \in DOMAIN s : s[i] < p}) > 3 * Len(s)
<1>1. PICK n, k : n = Len(s) /\ k = (3 * n) \div 4 + 1
  OBVIOUS
<1>2. n \in Nat /\ n > 0 /\ DOMAIN s = 1..n /\ \A i \in DOMAIN s : s[i] \in Nat
  BY <1>1
<1>3. k \in 1..n /\ 4 * k > 3 * n
  BY <1>1, <1>2
<1>4. Min({k, n}) = k
  BY <1>2, <1>3 DEF Min
<1>5. PICK v : v = calculatePercentile(s)
  OBVIOUS
<1>6. v \in Nat /\ Cardinality({i \in DOMAIN s : s[i] <= v}) >= k
  BY <1>1, <1>3, <1>4, <1>5, RankedIs DEF calculatePercentile
<1>7. ASSUME NEW p \in Nat, v < p  PROVE 4 * Cardinality({i \in DOMAIN s : s[i] < p}) > 3 * n
  <2> DEFINE A == {i \in DOMAIN s : s[i] <= v}
             B == {i \in DOMAIN s : s[i] < p}
  <2>1. A \in SUBSET B
    BY <1>2, <1>6, <1>7
  <2>2. IsFiniteSet(B)
    BY <1>2, FS_Interval, FS_Subset
  <2>3. Cardinality(A) <= Cardinality(B) /\ Cardinality(A) \in Nat /\ Cardinality(B) \in Nat
    BY <2>1, <2>2, FS_Subset, FS_CardinalityType
  <2>4. Cardinality(A) >= k
    BY <1>6
  <2> HIDE DEF A, B
  <2>5. 4 * Cardinality(B) > 3 * n
    BY <1>2, <1>3, <2>3, <2>4
  <2> QED
    BY <2>5 DEF B
<1> QED
  BY <1>1, <1>5, <1>6, <1>7

LEMMA MarketIs ==
  ASSUME NEW m \in Markets
  PROVE  /\ PriceOr(m.now) \in Nat /\ PriceOr(m.later) \in Nat /\ PriceOr(m.aggregator) \in Nat
         /\ (IF m.gas = Failed THEN DefaultGas ELSE m.gas) \in Nat
         /\ m.rate # Failed => m.rate \in Nat
         /\ m.history \in Seq({Failed} \cup Seq([base : Int, tip : Int]))
BY TaskFeesAssumption DEF PriceOr, DefaultPrice

LEMMA SampledIs ==
  ASSUME NEW m \in Markets
  PROVE  Sampled(m) \in Seq(Nat) /\ Sampled(m) # << >>
<1> DEFINE Blocks == [base : Int, tip : Int]
           Chunk == {Failed} \cup Seq(Blocks)
<1>1. PICK h, chunks : h = m.history /\ chunks = Fetched(h)
  OBVIOUS
<1>2. h \in Seq(Chunk) /\ Len(h) \in Nat
  BY <1>1, MarketIs
<1>3. chunks \in Seq(Chunk)
  <2> DEFINE M == {Len(h), ChunksOfWeek} \cup
                  {k \in 1..Len(h) : /\ Failed \notin ToSet(SubSeq(h, 1, k))
                                     /\ Len(SamplesOf(SubSeq(h, 1, k))) >= MaxSamples}
  <2>1. M \in SUBSET Nat /\ Len(h) \in M
    BY <1>2, TaskFeesAssumption
  <2>2. chunks = SubSeq(h, 1, Min(M))
    BY <1>1 DEF Fetched
  <2> HIDE DEF M
  <2>3. \E x \in M : \A y \in M : x <= y
    BY <2>1, Least
  <2>4. Min(M) \in M /\ Min(M) <= Len(h)
    BY <2>1, <2>3 DEF Min
  <2>5. Min(M) \in 0..Len(h)
    <3>1. PICK n : n = Min(M)
      OBVIOUS
    <3>2. n \in Nat /\ n <= Len(h)
      BY <2>1, <2>4, <3>1
    <3> QED
      BY <1>2, <3>1, <3>2
  <2> HIDE DEF Chunk
  <2> QED
    BY <1>2, <2>2, <2>5, SubSeqProperties
<1>4. CASE Failed \in ToSet(chunks) \/ SamplesOf(chunks) = << >>
  <2>1. Sampled(m) = << PriceOr(m.now) >> /\ PriceOr(m.now) \in Nat
    BY <1>1, <1>4, MarketIs DEF Sampled
  <2> QED
    BY <2>1
<1>5. CASE ~(Failed \in ToSet(chunks) \/ SamplesOf(chunks) = << >>)
  <2>1. Sampled(m) = SamplesOf(chunks)
    BY <1>1, <1>5 DEF Sampled
  <2>2. ASSUME NEW b \in Blocks  PROVE DearestIn(b) \in Seq(Nat)
    <3>1. b.base \in Int
      BY <2>2
    <3>2. CASE b.base <= 0
      <4>1. DearestIn(b) = << >>
        BY <3>2 DEF DearestIn
      <4> QED
        BY <4>1
    <3>3. CASE ~(b.base <= 0)
      <4>1. PICK p \in Nat : DearestIn(b) = << p >>
        BY <3>1, <3>3 DEF DearestIn
      <4> QED
        BY <4>1
    <3> QED
      BY <3>2, <3>3
  <2>3. Len(chunks) \in Nat /\ \A i \in 1..Len(chunks) : chunks[i] \in Seq(Blocks)
    <3>1. \A i \in 1..Len(chunks) : chunks[i] \in Chunk /\ chunks[i] # Failed
      BY <1>3, <1>5 DEF ToSet
    <3> QED
      BY <1>3, <3>1
  <2>4. ASSUME NEW i \in 1..Len(chunks)
        PROVE  FlattenSeq([j \in 1..Len(chunks[i]) |-> DearestIn(chunks[i][j])]) \in Seq(Nat)
    <3> HIDE DEF Blocks
    <3>1. PICK c \in Seq(Blocks) : c = chunks[i]
      BY <2>3
    <3>2. [j \in 1..Len(c) |-> DearestIn(c[j])] \in Seq(Seq(Nat))
      BY <2>2, <3>1
    <3> QED
      BY <3>1, <3>2, Flattened
  <2>5. [i \in 1..Len(chunks) |-> FlattenSeq([j \in 1..Len(chunks[i]) |-> DearestIn(chunks[i][j])])]
          \in Seq(Seq(Nat))
    <3>1. PICK g : g = [i \in 1..Len(chunks) |->
                          FlattenSeq([j \in 1..Len(chunks[i]) |-> DearestIn(chunks[i][j])])]
      OBVIOUS
    <3>2. g \in [1..Len(chunks) -> Seq(Nat)]
      BY <2>4, <3>1, Zenon
    <3>3. g \in Seq(Seq(Nat))
      BY <2>3, <3>2
    <3> QED
      BY <3>1, <3>3
  <2>6. SamplesOf(chunks) \in Seq(Nat)
    BY <2>5, Flattened DEF SamplesOf
  <2> QED
    BY <1>5, <2>1, <2>6
<1> QED
  BY <1>4, <1>5

(* One execution: its fee is at least the present cost, or gas is dearer   *)
(* now than in most of the samples.                                        *)
LEMMA NotDearer ==
  ASSUME NEW gas \in Nat, NEW a \in Nat, NEW b \in Nat, gas * a < gas * b
  PROVE  a < b
OBVIOUS

LEMMA FeeCovers ==
  ASSUME NEW q \in Quotes, NEW m \in Markets, NEW f \in calculateFees(q, m)
  PROVE  /\ f.fee \in Nat /\ f.now \in Nat
         /\ f.fee < f.now => DearerNow([week |-> Sampled(m), now |-> PriceOr(m.later)])
<1>1. {StaticFee, DynamicFee, CustomFee, LegacyFee, DefaultOnChain, DefaultGas, AggregatorGas} \subseteq Nat
      /\ q.kind \in {"static", "dynamic", "custom", "unknown"}
  BY TaskFeesAssumption
<1>2. CASE q.kind = "unknown"
  <2>1. f = [fee |-> LegacyFee, now |-> 0]
    BY <1>2 DEF calculateFees, Legacy
  <2> QED
    BY <1>1, <2>1
<1>3. CASE q.kind # "unknown" /\ m.rate = Failed
  <2>1. f = [fee |-> 0, now |-> 0]
    BY <1>3 DEF calculateFees
  <2> QED
    BY <2>1
<1>4. CASE q.kind # "unknown" /\ m.rate # Failed
  <2>1. m.rate \in Nat /\ m.rate # 0
    BY <1>4, MarketIs DEF calculateFees
  <2>2. PICK off, agg, on : /\ off = OffChainFee(q.kind) \div m.rate /\ on = OnChain(q, m)
                            /\ agg = AggregatorFee(m)
    OBVIOUS
  <2>3. off \in Nat
    <3>1. OffChainFee(q.kind) \in Nat
      BY <1>1, <1>4 DEF OffChainFee
    <3> QED
      BY <2>1, <2>2, <3>1
  <2>4. agg \in Nat
    BY <1>1, <2>2, MarketIs DEF AggregatorFee
  <2>5. /\ on.fee \in Nat /\ on.now \in Nat
        /\ on.fee < on.now => DearerNow([week |-> Sampled(m), now |-> PriceOr(m.later)])
    <3>1. CASE ~q.contract
      BY <2>2, <3>1 DEF OnChain
    <3>2. CASE q.contract /\ (~m.client \/ ~m.fits)
      BY <1>1, <2>2, <3>2 DEF OnChain
    <3>3. CASE q.contract /\ m.client /\ m.fits
      <4>1. PICK gas, old, price : /\ gas = IF m.gas = Failed THEN DefaultGas ELSE m.gas
                                   /\ old = getOrUpdateCachedGasPrice(m) /\ price = PriceOr(m.later)
        OBVIOUS
      <4>2. on = [fee |-> gas * old, now |-> gas * price]
        BY <2>2, <3>3, <4>1 DEF OnChain
      <4>3. gas \in Nat /\ price \in Nat
        BY <4>1, MarketIs
      <4>4. old \in Nat /\ (old < price => DearerNow([week |-> Sampled(m), now |-> price]))
        BY <4>1, <4>3, SampledIs, PercentileIs DEF getOrUpdateCachedGasPrice, DearerNow
      <4>5. gas * old \in Nat /\ gas * price \in Nat /\ (gas * old < gas * price => old < price)
        BY <4>3, <4>4, NotDearer
      <4> QED
        BY <4>1, <4>2, <4>4, <4>5
    <3> QED
      BY <3>1, <3>2, <3>3
  <2>6. CASE q.kind = "custom"
    <3>1. f = [fee |-> off, now |-> off]
      BY <1>4, <2>1, <2>2, <2>6 DEF calculateFees
    <3> QED
      BY <2>3, <3>1
  <2>7. CASE q.kind # "custom"
    <3>1. f = [fee |-> Buffered(off + on.fee + agg), now |-> off + on.now + agg]
      BY <1>4, <2>1, <2>2, <2>7 DEF calculateFees
    <3>2. PICK x \in Nat : x = off + on.fee + agg
      BY <2>3, <2>4, <2>5
    <3>3. f.fee \in Nat /\ f.fee >= x
      BY <3>1, <3>2 DEF Buffered
    <3> QED
      BY <2>3, <2>4, <2>5, <3>1, <3>2, <3>3
  <2> QED
    BY <2>6, <2>7
<1> QED
  BY <1>2, <1>3, <1>4

FeeInv ==
  /\ quote \in Quotes /\ DOMAIN worked = FeeScripts /\ DOMAIN prices = FeeScripts
  /\ total \in Nat /\ current \in Nat
  /\ QuoteCovers

LEMMA FeeInitially == ASSUME FeeInit  PROVE FeeInv
BY DEF FeeInit, FeeInv, QuoteCovers

LEMMA FeePreserved == ASSUME FeeInv, [FeeNext]_feeVars  PROVE FeeInv'
<1>1. CASE UNCHANGED <<quote, prices, total, current>> /\ UNCHANGED worked
  BY <1>1 DEF FeeInv, QuoteCovers
<1>2. ASSUME NEW s \in FeeScripts, ScriptFails(s)  PROVE FeeInv'
  BY <1>2 DEF ScriptFails, FeeInv, QuoteCovers
<1>3. ASSUME NEW s \in FeeScripts, NEW m \in Markets, ScriptPriced(s, m)  PROVE FeeInv'
  <2>1. PICK f \in calculateFees(quote, m) : total' = total + f.fee /\ current' = current + f.now
    BY <1>3 DEF ScriptPriced
  <2>2. /\ f.fee \in Nat /\ f.now \in Nat
        /\ f.fee < f.now => DearerNow([week |-> Sampled(m), now |-> PriceOr(m.later)])
    BY FeeCovers DEF FeeInv
  <2>3. /\ quote' = quote /\ s \in quote.scripts
        /\ DOMAIN worked' = FeeScripts /\ DOMAIN prices' = FeeScripts
        /\ worked'[s] = "priced" /\ prices'[s] = [week |-> Sampled(m), now |-> PriceOr(m.later)]
        /\ \A t \in FeeScripts \ {s} : worked'[t] = worked[t] /\ prices'[t] = prices[t]
        /\ worked[s] = "no"
    BY <1>3 DEF ScriptPriced, FeeInv
  <2>4. total' \in Nat /\ current' \in Nat
    BY <2>1, <2>2 DEF FeeInv
  <2>5. ASSUME total' < current'
        PROVE  \E t \in quote.scripts : worked'[t] = "priced" /\ DearerNow(prices'[t])
    <3>1. CASE f.fee < f.now
      BY <2>2, <2>3, <3>1
    <3>2. CASE ~(f.fee < f.now)
      <4>1. total < current
        BY <2>1, <2>2, <2>5, <3>2 DEF FeeInv
      <4>2. PICK t \in quote.scripts : worked[t] = "priced" /\ DearerNow(prices[t])
        BY <4>1 DEF FeeInv, QuoteCovers
      <4>3. t \in FeeScripts \ {s}
        BY <2>3, <4>2, TaskFeesAssumption DEF FeeInv
      <4> QED
        BY <2>3, <4>2, <4>3
    <3> QED
      BY <3>1, <3>2
  <2> QED
    BY <2>3, <2>4, <2>5 DEF FeeInv, QuoteCovers
<1> QED
  BY <1>1, <1>2, <1>3 DEF FeeNext, feeVars, AskFees, AnswerFees, ScriptPanics

\* QuoteCovers: a quote falls short of what the execution costs now only when, for
\* some script of it, gas is dearer now than in more than three quarters of the
\* blocks that were sampled: for every set of quotes and markets and all histories
\* of blocks.
THEOREM CoveringQuotes == FeeSpec => []QuoteCovers
<1>1. FeeInv => QuoteCovers
  BY DEF FeeInv
<1> QED
  BY <1>1, FeeInitially, FeePreserved, PTL DEF FeeSpec
-----------------------------------------------------------------------------
(***************************************************************************)
(* The arguments of a call.                                                *)
(***************************************************************************)

(* The powers of two: the recursive function exists, as it does on every   *)
(* range from 0, and grows.                                                *)
LEMMA Powers ==
  /\ Pow2 \in [Nat -> Nat \ {0}]
  /\ Pow2[0] = 1
  /\ \A n \in Nat : Pow2[n + 1] = 2 * Pow2[n]
<1> DEFINE Doubles(n, f) == /\ DOMAIN f = 0..n
                            /\ f[0] = 1
                            /\ \A i \in 1..n : f[i] = 2 * f[i - 1]
<1>1. \A n \in Nat : \E f \in [0..n -> Nat \ {0}] : Doubles(n, f)
  <2> DEFINE T == {n \in Nat : ~ \E f \in [0..n -> Nat \ {0}] : Doubles(n, f)}
  <2> SUFFICES ASSUME T # {}  PROVE FALSE
    OBVIOUS
  <2>1. T \in SUBSET Nat
    <3> HIDE DEF Doubles
    <3> QED
      OBVIOUS
  <2> HIDE DEF T
  <2>2. PICK m \in T : \A k \in T : m <= k
    BY <2>1, Least
  <2>3. m \in Nat /\ ~ \E f \in [0..m -> Nat \ {0}] : Doubles(m, f)
    BY DEF T
  <2>4. CASE m = 0
    <3> DEFINE f == [i \in 0..0 |-> 1]
    <3>1. f \in [0..0 -> Nat \ {0}] /\ Doubles(0, f)
      OBVIOUS
    <3> QED
      BY <2>3, <2>4, <3>1
  <2>5. CASE m # 0
    <3>1. m - 1 \in Nat /\ m - 1 \notin T
      BY <2>2, <2>3, <2>5
    <3>2. PICK f \in [0..(m - 1) -> Nat \ {0}] : Doubles(m - 1, f)
      BY <3>1 DEF T
    <3> DEFINE g == [i \in 0..m |-> IF i = m THEN 2 * f[m - 1] ELSE f[i]]
    <3>3. f[m - 1] \in Nat \ {0}
      BY <3>1, <3>2
    <3>4. \A i \in 0..m : i # m => i \in 0..(m - 1)
      BY <2>3
    <3>5. g \in [0..m -> Nat \ {0}]
      BY <3>2, <3>3, <3>4
    <3>6. Doubles(m, g)
      <4>1. g[0] = 1
        BY <2>3, <2>5, <3>2
      <4>2. ASSUME NEW i \in 1..m  PROVE g[i] = 2 * g[i - 1]
        <5>1. i - 1 \in 0..m /\ i - 1 # m /\ i \in 0..m
          BY <2>3, <4>2
        <5>2. g[i - 1] = f[i - 1]
          BY <5>1
        <5>3. CASE i = m
          BY <5>1, <5>2, <5>3
        <5>4. CASE i # m
          <6>1. i \in 1..(m - 1)
            BY <2>3, <4>2, <5>4
          <6>2. f[i] = 2 * f[i - 1]
            BY <3>2, <6>1
          <6> QED
            BY <5>1, <5>2, <5>4, <6>2
        <5> QED
          BY <5>3, <5>4
      <4> QED
        BY <4>1, <4>2
    <3> QED
      BY <2>3, <3>5, <3>6
  <2> QED
    BY <2>4, <2>5
<1>2. ASSUME NEW n \in Nat, NEW m \in Nat, n <= m, NEW f, NEW g, Doubles(n, f), Doubles(m, g)
      PROVE  f[n] = g[n]
  <2> DEFINE T == {i \in 0..n : f[i] # g[i]}
  <2> SUFFICES ASSUME T # {}  PROVE FALSE
    OBVIOUS
  <2>1. T \in SUBSET Nat
    OBVIOUS
  <2> HIDE DEF T
  <2>2. PICK k \in T : \A i \in T : k <= i
    BY <2>1, Least
  <2>3. k \in 0..n /\ f[k] # g[k]
    BY DEF T
  <2>4. k # 0
    BY <1>2, <2>3
  <2>5. k - 1 \in 0..n /\ k - 1 \notin T /\ k \in 1..n /\ k \in 1..m
    BY <1>2, <2>2, <2>3, <2>4
  <2>6. f[k - 1] = g[k - 1]
    BY <2>5 DEF T
  <2>7. f[k] = 2 * f[k - 1] /\ g[k] = 2 * g[k - 1]
    BY <1>2, <2>5
  <2> QED
    BY <2>3, <2>6, <2>7
<1> DEFINE Piece(n) == CHOOSE f \in [0..n -> Nat \ {0}] : Doubles(n, f)
           P == [n \in Nat |-> Piece(n)[n]]
<1>3. \A n \in Nat : Piece(n) \in [0..n -> Nat \ {0}] /\ Doubles(n, Piece(n))
  <2> HIDE DEF Doubles
  <2> QED
    BY <1>1
<1> HIDE DEF Piece
<1>4. ASSUME NEW n \in Nat  PROVE P[n] = IF n = 0 THEN 1 ELSE 2 * P[n - 1]
  <2>1. CASE n = 0
    BY <1>3, <2>1
  <2>2. CASE n # 0
    <3>1. n - 1 \in Nat /\ n - 1 <= n /\ n \in 1..n
      BY <1>4, <2>2
    <3>2. Doubles(n - 1, Piece(n - 1)) /\ Doubles(n, Piece(n))
      BY <1>3, <3>1
    <3>3. Piece(n - 1)[n - 1] = Piece(n)[n - 1]
      <4> HIDE DEF Doubles
      <4> QED
        BY <1>2, <3>1, <3>2
    <3>4. Piece(n)[n] = 2 * Piece(n)[n - 1]
      BY <3>1, <3>2
    <3> QED
      BY <2>2, <3>1, <3>3, <3>4
  <2> QED
    BY <2>1, <2>2
<1>5. \E f : f = [n \in Nat |-> IF n = 0 THEN 1 ELSE 2 * f[n - 1]]
  <2>1. P = [n \in Nat |-> IF n = 0 THEN 1 ELSE 2 * P[n - 1]]
    <3> DEFINE Q == [n \in Nat |-> IF n = 0 THEN 1 ELSE 2 * P[n - 1]]
    <3>1. \A n \in Nat : P[n] = Q[n]
      <4> HIDE DEF P
      <4> QED
        BY <1>4
    <3> QED
      BY <3>1
  <2> HIDE DEF P
  <2> QED
    BY <2>1
<1>6. Pow2 = [n \in Nat |-> IF n = 0 THEN 1 ELSE 2 * Pow2[n - 1]]
  BY <1>5 DEF Pow2
<1>7. \A n \in Nat : Pow2[n] = IF n = 0 THEN 1 ELSE 2 * Pow2[n - 1]
  BY <1>6, Zenon
<1>8. DOMAIN Pow2 = Nat
  BY <1>6, Zenon
<1>9. \A n \in Nat : Pow2[n] \in Nat \ {0}
  <2> DEFINE T == {n \in Nat : Pow2[n] \notin Nat \ {0}}
  <2> SUFFICES ASSUME T # {}  PROVE FALSE
    OBVIOUS
  <2>1. T \in SUBSET Nat
    OBVIOUS
  <2> HIDE DEF T
  <2>2. PICK m \in T : \A k \in T : m <= k
    BY <2>1, Least
  <2>3. m \in Nat /\ Pow2[m] \notin Nat \ {0}
    BY DEF T
  <2>4. CASE m = 0
    BY <1>7, <2>3, <2>4
  <2>5. CASE m # 0
    <3>1. m - 1 \in Nat /\ m - 1 \notin T
      BY <2>2, <2>3, <2>5
    <3>2. Pow2[m - 1] \in Nat \ {0}
      BY <3>1 DEF T
    <3>3. Pow2[m] = 2 * Pow2[m - 1]
      BY <1>7, <2>3, <2>5
    <3> QED
      BY <2>3, <3>2, <3>3
  <2> QED
    BY <2>4, <2>5
<1>10. ASSUME NEW n \in Nat  PROVE Pow2[n + 1] = 2 * Pow2[n]
  <2>1. n + 1 \in Nat /\ n + 1 # 0 /\ (n + 1) - 1 = n
    OBVIOUS
  <2> QED
    BY <1>7, <2>1
<1>11. Pow2[0] = 1
  BY <1>7
<1>12. Pow2 \in [Nat -> Nat \ {0}]
  <2>1. Pow2 = [n \in Nat |-> Pow2[n]]
    <3>1. \A f : f = [n \in Nat |-> IF n = 0 THEN 1 ELSE 2 * Pow2[n - 1]] => f = [n \in Nat |-> f[n]]
      OBVIOUS
    <3> QED
      BY <1>6, <3>1, Zenon
  <2> QED
    BY <1>9, <2>1
<1> QED
  BY <1>10, <1>11, <1>12

LEMMA PowersGrow ==
  /\ \A n \in Nat : n < Pow2[n]
  /\ \A m, n \in Nat : m <= n => Pow2[m] <= Pow2[n]
<1> USE Powers
<1>0. \A n \in Nat : Pow2[n] \in Nat \ {0}
  OBVIOUS
<1>1. \A n \in Nat : n < Pow2[n]
  <2> DEFINE T == {n \in Nat : ~(n < Pow2[n])}
  <2> SUFFICES ASSUME T # {}  PROVE FALSE
    OBVIOUS
  <2>1. T \in SUBSET Nat
    OBVIOUS
  <2> HIDE DEF T
  <2>2. PICK m \in T : \A k \in T : m <= k
    BY <2>1, Least
  <2>3. m \in Nat /\ ~(m < Pow2[m])
    BY DEF T
  <2>4. m # 0
    BY <2>3
  <2>5. m - 1 \in Nat /\ m - 1 \notin T /\ (m - 1) + 1 = m
    BY <2>2, <2>3, <2>4
  <2>6. m - 1 < Pow2[m - 1]
    BY <2>5 DEF T
  <2>7. Pow2[m] = 2 * Pow2[m - 1] /\ Pow2[m - 1] \in Nat
    BY <2>5
  <2> QED
    BY <2>3, <2>6, <2>7
<1>2. ASSUME NEW m \in Nat, NEW n \in Nat, m <= n  PROVE Pow2[m] <= Pow2[n]
  <2> DEFINE T == {i \in Nat : m <= i /\ ~(Pow2[m] <= Pow2[i])}
  <2> SUFFICES ASSUME T # {}  PROVE FALSE
    BY <1>2
  <2>1. T \in SUBSET Nat
    OBVIOUS
  <2> HIDE DEF T
  <2>2. PICK i \in T : \A k \in T : i <= k
    BY <2>1, Least
  <2>3. i \in Nat /\ m <= i /\ ~(Pow2[m] <= Pow2[i])
    BY DEF T
  <2>4. i # m
    BY <1>0, <2>3
  <2>5. i - 1 \in Nat /\ i - 1 \notin T /\ (i - 1) + 1 = i /\ m <= i - 1
    BY <1>2, <2>2, <2>3, <2>4
  <2>6. Pow2[m] <= Pow2[i - 1]
    BY <2>5 DEF T
  <2>7. Pow2[i] = 2 * Pow2[i - 1] /\ Pow2[i - 1] \in Nat /\ Pow2[m] \in Nat
    BY <2>5
  <2> QED
    BY <2>3, <2>6, <2>7
<1> QED
  BY <1>1, <1>2

(* A number of few bits is a float, and every number is next to one.       *)
LEMMA FloatIs ==
  ASSUME NEW n \in Int
  PROVE  /\ FloatOf(n) \in Int
         /\ AbsHalf(n) <= Pow2[Mantissa + 1] => FloatOf(n) = n
<1> DEFINE a == AbsHalf(n)
           Fits(e) == a < Pow2[Mantissa + 1 + e] /\ (e = 0 \/ a >= Pow2[Mantissa + e])
           k == CHOOSE e \in 0..a : Fits(e)
           q == a \div Pow2[k]
           rest == a % Pow2[k]
           up == 2 * rest > Pow2[k] \/ (2 * rest = Pow2[k] /\ q % 2 = 1)
           f == Pow2[k] * (IF k > 0 /\ up THEN q + 1 ELSE q)
<1>0. Mantissa \in Nat /\ a \in Nat
  BY CallArgumentsAssumption DEF CallArgumentsAssumption, AbsHalf
<1>1. FloatOf(n) = IF n < 0 THEN -f ELSE f
  BY DEF FloatOf
<1>2. n = IF n < 0 THEN -a ELSE a
  BY DEF AbsHalf
<1> HIDE DEF a
<1>3. \E e \in 0..a : Fits(e)
  <2> DEFINE T == {e \in Nat : a < Pow2[Mantissa + 1 + e]}
  <2>1. T \in SUBSET Nat
    OBVIOUS
  <2>2. a \in T
    <3>1. Mantissa + 1 + a \in Nat /\ a <= Mantissa + 1 + a
      BY <1>0
    <3>2. a < Pow2[a] /\ Pow2[a] <= Pow2[Mantissa + 1 + a]
      BY <1>0, <3>1, PowersGrow
    <3>3. Pow2[a] \in Nat /\ Pow2[Mantissa + 1 + a] \in Nat
      BY <1>0, <3>1, Powers
    <3> QED
      BY <1>0, <3>2, <3>3
  <2>3. \A e \in T : e \in Nat /\ a < Pow2[Mantissa + 1 + e]
    OBVIOUS
  <2>4. \A e \in Nat : a < Pow2[Mantissa + 1 + e] => e \in T
    OBVIOUS
  <2> HIDE DEF T
  <2>5. PICK e \in T : \A i \in T : e <= i
    BY <2>1, <2>2, Least
  <2>6. e \in 0..a
    BY <1>0, <2>2, <2>3, <2>5
  <2>7. CASE e = 0
    BY <2>3, <2>6, <2>7
  <2>8. CASE e # 0
    <3>1. e - 1 \in Nat /\ ~(e <= e - 1) /\ Mantissa + 1 + (e - 1) = Mantissa + e /\ Mantissa + e \in Nat
      BY <1>0, <2>6, <2>8
    <3>2. ~(a < Pow2[Mantissa + e])
      BY <2>4, <2>5, <3>1
    <3>3. Pow2[Mantissa + e] \in Nat
      BY <3>1, Powers
    <3> QED
      BY <1>0, <2>3, <2>6, <3>2, <3>3
  <2> QED
    BY <2>7, <2>8
<1>4. k \in 0..a /\ Fits(k)
  <2> HIDE DEF Fits
  <2> QED
    BY <1>3
<1> HIDE DEF k
<1>5. k \in Nat /\ Pow2[k] \in Nat \ {0}
  BY <1>0, <1>4, Powers
<1>6. q \in Nat
  <2>1. \A x \in Nat, y \in Nat \ {0} : x \div y \in Nat
    OBVIOUS
  <2> QED
    BY <1>0, <1>5, <2>1
<1>7. f \in Nat
  <2>1. \A x, y \in Nat : x * y \in Nat /\ x * (y + 1) \in Nat
    OBVIOUS
  <2> HIDE DEF q, up
  <2> QED
    BY <1>5, <1>6, <2>1
<1>8. FloatOf(n) \in Int
  <2> HIDE DEF f
  <2> QED
    BY <1>1, <1>7
<1>9. ASSUME a <= Pow2[Mantissa + 1]  PROVE f = a
  <2>1. CASE k = 0
    <3>1. Pow2[k] = 1
      BY <2>1, Powers
    <3>2. q = a
      BY <1>0, <3>1
    <3>3. f = Pow2[k] * q
      BY <2>1
    <3> HIDE DEF q, f
    <3> QED
      BY <1>0, <3>1, <3>2, <3>3
  <2>2. CASE k # 0
    <3>1. Pow2[Mantissa + 1] <= Pow2[Mantissa + k] /\ Pow2[Mantissa + k] <= a
      <4>1. Mantissa + 1 \in Nat /\ Mantissa + k \in Nat /\ Mantissa + 1 <= Mantissa + k
        BY <1>0, <1>5, <2>2
      <4>2. Pow2[Mantissa + 1] <= Pow2[Mantissa + k]
        BY <4>1, PowersGrow
      <4>3. Pow2[Mantissa + k] \in Nat
        BY <4>1, Powers
      <4> QED
        BY <1>0, <1>4, <2>2, <4>2, <4>3
    <3>2. Pow2[Mantissa + 1] = 2 * Pow2[Mantissa] /\ Pow2[Mantissa] \in Nat \ {0} /\ Pow2[Mantissa + 1] \in Nat
      BY <1>0, Powers
    <3>3. a = Pow2[Mantissa + 1] /\ Pow2[Mantissa + k] = Pow2[Mantissa + 1]
      <4>1. Pow2[Mantissa + k] \in Nat
        BY <1>0, <1>5, Powers
      <4> QED
        BY <1>0, <1>9, <3>1, <3>2, <4>1
    <3>4. k = 1
      <4>1. SUFFICES ASSUME k # 1  PROVE FALSE
        OBVIOUS
      <4>2. Mantissa + 2 \in Nat /\ Mantissa + k \in Nat /\ Mantissa + 2 <= Mantissa + k /\ Mantissa + 2 = (Mantissa + 1) + 1
        BY <1>0, <1>5, <2>2, <4>1
      <4>3. Pow2[Mantissa + 2] <= Pow2[Mantissa + k]
        BY <4>2, PowersGrow
      <4>4. Pow2[Mantissa + 2] = 2 * Pow2[Mantissa + 1]
        BY <1>0, <4>2, Powers
      <4> QED
        BY <3>2, <3>3, <4>3, <4>4
    <3>5. Pow2[k] = 2
      BY <3>4, Powers
    <3>6. a = 2 * Pow2[Mantissa] /\ q = Pow2[Mantissa] /\ rest = 0
      BY <3>2, <3>3, <3>5
    <3>7. ~up
      BY <3>5, <3>6
    <3>8. f = Pow2[k] * q
      BY <3>7
    <3> HIDE DEF f, q
    <3> QED
      BY <3>5, <3>6, <3>8
  <2> QED
    BY <2>1, <2>2
<1>10. AbsHalf(n) <= Pow2[Mantissa + 1] => FloatOf(n) = n
  <2> HIDE DEF f
  <2> QED
    BY <1>1, <1>2, <1>9 DEF a
<1> QED
  BY <1>8, <1>10

(* The bounds of a range, and what is cut off within them.                 *)
LEMMA Extremes ==
  ASSUME NEW lo \in Int, NEW hi \in Int, lo <= hi
  PROVE  Min(lo..hi) = lo /\ Max(lo..hi) = hi
<1>1. \A x \in lo..hi : (\A y \in lo..hi : x <= y) <=> x = lo
  OBVIOUS
<1>2. \A x \in lo..hi : (\A y \in lo..hi : x >= y) <=> x = hi
  OBVIOUS
<1>3. lo \in lo..hi /\ hi \in lo..hi
  OBVIOUS
<1> QED
  BY <1>1, <1>2, <1>3 DEF Min, Max

LEMMA Widths ==
  \A s \in DOMAIN Width : Width[s] \in Nat \ {0}
BY CallArgumentsAssumption DEF CallArgumentsAssumption, Width

LEMMA RangeIs ==
  ASSUME NEW ty \in IntegerTypes
  PROVE  \E lo \in Int, hi \in Nat : /\ lo <= 0 /\ RangeOf(ty) = lo..hi
                                     /\ Min(RangeOf(ty)) = lo /\ Max(RangeOf(ty)) = hi
<1>1. ty.size \in DOMAIN Width
  BY DEF IntegerTypes, Integer
<1> DEFINE w == Width[ty.size]
<1>2. w \in Nat /\ w - 1 \in Nat
  BY <1>1, Widths
<1>3. Pow2[w] \in Nat \ {0} /\ Pow2[w - 1] \in Nat \ {0}
  BY <1>2, Powers
<1>4. CASE ty.t = "uint"
  <2>1. RangeOf(ty) = 0..(Pow2[w] - 1)
    BY <1>4 DEF RangeOf, UintRange
  <2>2. Pow2[w] - 1 \in Nat
    BY <1>3
  <2> HIDE DEF w
  <2> QED
    BY <2>1, <2>2, Extremes
<1>5. CASE ty.t # "uint"
  <2>1. RangeOf(ty) = (-Pow2[w - 1])..(Pow2[w - 1] - 1)
    BY <1>5 DEF RangeOf, IntRange
  <2>2. Pow2[w - 1] - 1 \in Nat /\ -Pow2[w - 1] \in Int /\ -Pow2[w - 1] <= 0
    BY <1>3
  <2> HIDE DEF w
  <2> QED
    BY <2>1, <2>2, Extremes
<1> QED
  BY <1>4, <1>5

LEMMA CutOff ==
  ASSUME NEW f \in Int, NEW lo \in Int, NEW hi \in Nat, lo <= 0
  PROVE  /\ Trunc(f) \in Int
         /\ 2 * lo <= f /\ f <= 2 * hi + 1 => Trunc(f) \in lo..hi
BY DEF Trunc

(* An integer is converted exactly, or where the converter does not look.  *)
LEMMA IntegerConverted ==
  ASSUME NEW v, IsPlain(v), NEW ty \in IntegerTypes, NEW x \in ToInteger(v, ty)
  PROVE  IntegerIsExact(v, ty, x)
<1> DEFINE f == FloatOf(v.n)
<1>0. CASE v.k \notin {"number", "text"}
  <2>1. v.k = "not finite" /\ (v.nan \/ ty.size = "big")
    BY <1>0 DEF ToInteger
  <2> QED
    BY <2>1 DEF IntegerIsExact, Loose
<1>1. SUFFICES ASSUME v.k \in {"number", "text"}  PROVE IntegerIsExact(v, ty, x)
  BY <1>0
<1>2. v.n \in Int
  BY <1>1 DEF IsPlain
<1>3. f \in Int /\ (AbsHalf(v.n) <= Pow2[Mantissa + 1] => f = v.n)
  BY <1>2, FloatIs
<1>4. PICK lo \in Int, hi \in Nat : /\ lo <= 0 /\ RangeOf(ty) = lo..hi
                                    /\ Min(RangeOf(ty)) = lo /\ Max(RangeOf(ty)) = hi
  BY RangeIs
<1> DEFINE r == RangeOf(ty)
<1>5. (x \in r /\ x = Trunc(f)) \/ Loose(v, ty)
  <2>1. CASE ty.size = "big"
    <3>0. ty # Integer("uint", "w32")
      BY <2>1 DEF Integer
    <3>1. x \in Unchecked(f, IntRange(W64))
      BY <1>1, <2>1, <3>0 DEF ToInteger
    <3>2. CASE Trunc(f) \in IntRange(W64) /\ Trunc(f) \in r
      <4>1. x = Trunc(f)
        BY <3>1, <3>2 DEF Unchecked
      <4> QED
        BY <3>2, <4>1
    <3>3. CASE ~(Trunc(f) \in IntRange(W64) /\ Trunc(f) \in r)
      BY <1>1, <2>1, <3>3 DEF Loose
    <3> QED
      BY <3>2, <3>3
  <2>2. CASE ty.size = "w64"
    <3>0. ty # Integer("uint", "w32")
      BY <2>2 DEF Integer
    <3>1. x \in Checked64(f, ty)
      BY <1>1, <2>2, <3>0 DEF ToInteger
    <3>2. CASE f = 2 * (Max(r) + 1)
      BY <1>1, <2>2, <3>2 DEF Loose
    <3>3. CASE f # 2 * (Max(r) + 1)
      <4>1. ~(f < 2 * lo \/ f > 2 * (hi + 1)) /\ x = Trunc(f)
        BY <1>4, <3>1, <3>3 DEF Checked64
      <4>2. f <= 2 * hi + 1 /\ 2 * lo <= f
        BY <1>3, <1>4, <3>3, <4>1
      <4> HIDE DEF f
      <4>3. Trunc(f) \in lo..hi
        BY <1>3, <1>4, <4>2, CutOff
      <4> QED
        BY <1>4, <4>1, <4>3
    <3> QED
      BY <3>2, <3>3
  <2>3. CASE ty = Integer("uint", "w32") /\ v.k = "number"
    <3>1. ty.size = "w32" /\ ty.t = "uint"
      BY <2>3 DEF Integer
    <3>2. x \in Unchecked(f, UintRange(W32))
      BY <1>1, <2>3, <3>1 DEF ToInteger
    <3>3. r = UintRange(W32)
      BY <3>1 DEF RangeOf, Width
    <3>4. CASE Trunc(f) \in r
      BY <3>2, <3>3, <3>4 DEF Unchecked
    <3>5. CASE Trunc(f) \notin r
      BY <1>1, <2>3, <3>5 DEF Loose
    <3> QED
      BY <3>4, <3>5
  <2>4. CASE ty.size # "big" /\ ty.size # "w64" /\ ~(ty = Integer("uint", "w32") /\ v.k = "number")
    <3>1. x \in Checked(f, ty)
      BY <1>1, <2>4 DEF ToInteger
    <3>2. ~(f < 2 * lo \/ f > 2 * hi) /\ x = Trunc(f)
      BY <1>4, <3>1 DEF Checked
    <3>3. 2 * lo <= f /\ f <= 2 * hi + 1
      BY <1>3, <1>4, <3>2
    <3> HIDE DEF f
    <3>4. Trunc(f) \in lo..hi
      BY <1>3, <1>4, <3>3, CutOff
    <3> QED
      BY <1>4, <3>2, <3>4
  <2> QED
    BY <2>1, <2>2, <2>3, <2>4
<1> QED
  BY <1>1, <1>3, <1>5 DEF IntegerIsExact

(* What a value is converted to is what the type wants.                    *)
LEMMA EachIs ==
  ASSUME NEW results, NEW r \in Each(results)
  PROVE  DOMAIN r = DOMAIN results /\ \A n \in DOMAIN results : r[n] \in results[n]
BY DEF Each

LEMMA IntegerScalar ==
  ASSUME NEW v, NEW ty \in IntegerTypes, NEW x \in Scalar(v, ty)
  PROVE  x \in ToInteger(v, ty)
<1>1. ty.t \in {"uint", "int"}
  BY DEF IntegerTypes, Integer
<1>2. Scalar(v, ty) = ToInteger(v, ty)
  BY <1>1 DEF Scalar
<1> QED
  BY <1>2

LEMMA ValueConverted ==
  ASSUME NEW v, IsValue(v), NEW ty, ty.t \in {"uint", "int"} => ty \in IntegerTypes,
         NEW x \in ToType(v, ty)
  PROVE  IsExact(v, ty, x)
<1>1. CASE ty.t \in {"uint", "int"}
  <2>1. ToType(v, ty) = Scalar(v, ty)
    BY <1>1 DEF ToType
  <2>2. x \in ToInteger(v, ty)
    BY <1>1, <2>1, IntegerScalar
  <2>3. IntegerIsExact(v, ty, x)
    BY <1>1, <2>2, IntegerConverted DEF IsValue
  <2> QED
    BY <1>1, <2>3 DEF IsExact
<1>2. CASE ty.t \in {"slice", "array"}
  <2>1. x \in ToArray(v, ty)
    BY <1>2 DEF ToType
  <2>2. v.k \in ListKinds /\ x \in Each([n \in DOMAIN v.items |-> Scalar(v.items[n], ty.of)])
    BY <2>1 DEF ToArray
  <2>3. DOMAIN x = DOMAIN v.items /\ \A n \in DOMAIN v.items : x[n] \in Scalar(v.items[n], ty.of)
    BY <2>2, EachIs
  <2>4. ASSUME ty.of \in IntegerTypes, NEW n \in DOMAIN x  PROVE IntegerIsExact(v.items[n], ty.of, x[n])
    <3>1. x[n] \in ToInteger(v.items[n], ty.of)
      BY <2>3, <2>4, IntegerScalar
    <3>2. IsPlain(v.items[n])
      BY <2>2, <2>3, <2>4 DEF IsValue
    <3> QED
      BY <2>4, <3>1, <3>2, IntegerConverted
  <2> QED
    BY <1>2, <2>3, <2>4 DEF IsExact
<1>3. CASE ty.t = "address"
  <2>1. x \in ToAddress(v)
    BY <1>3 DEF ToType, Scalar
  <2>2. x = <<"bytes", AddressLength>>
    BY <2>1 DEF ToAddress
  <2> QED
    BY <1>3, <2>2 DEF IsExact
<1>4. CASE ty.t = "fixed bytes"
  <2>1. x \in ToFixedBytes(v, ty)
    BY <1>4 DEF ToType, Scalar
  <2>2. x = <<"bytes", ty.len>>
    BY <2>1 DEF ToFixedBytes
  <2> QED
    BY <1>4, <2>2 DEF IsExact
<1>5. CASE ty.t = "bytes"
  <2>1. x \in ToBytes(v)
    BY <1>5 DEF ToType, Scalar
  <2>2. v.k = "hex" => x = <<"bytes", v.bytes>>
    BY <2>1 DEF ToBytes
  <2> QED
    BY <1>5, <2>2 DEF IsExact
<1>6. CASE ty.t = "tuple"
  <2>1. x \in ToStruct(v, ty)
    BY <1>6 DEF ToType
  <2> DEFINE part(a) == IF a \in DOMAIN v.fields THEN Scalar(v.fields[a], ty.of) ELSE {0}
         parts == [a \in Fields |-> part(a)]
  <2>2. v.k \in ObjectKinds /\ x \in Each(parts)
    BY <2>1 DEF ToStruct
  <2>3. \A a \in Fields : x[a] \in part(a)
    <3>1. DOMAIN parts = Fields /\ \A a \in Fields : parts[a] = part(a)
      OBVIOUS
    <3> HIDE DEF part, parts
    <3>2. \A a \in DOMAIN parts : x[a] \in parts[a]
      BY <2>2, EachIs
    <3>3. ASSUME NEW a \in Fields  PROVE x[a] \in part(a)
      BY <3>1, <3>2
    <3> QED
      BY <3>3
  <2>4. ASSUME NEW a \in Fields, a \in DOMAIN v.fields, ty.of \in IntegerTypes
        PROVE  IntegerIsExact(v.fields[a], ty.of, x[a])
    <3>1. x[a] \in ToInteger(v.fields[a], ty.of)
      BY <2>3, <2>4, IntegerScalar
    <3>2. IsPlain(v.fields[a])
      BY <2>2, <2>4 DEF IsValue
    <3> QED
      BY <2>4, <3>1, <3>2, IntegerConverted
  <2>5. \A a \in Fields : a \notin DOMAIN v.fields => x[a] = 0
    BY <2>3
  <2> QED
    BY <1>6, <2>4, <2>5 DEF IsExact
<1>7. CASE ty.t \notin {"uint", "int", "slice", "array", "address", "fixed bytes", "bytes", "tuple"}
  BY <1>7 DEF IsExact
<1> QED
  BY <1>1, <1>2, <1>3, <1>4, <1>5, <1>6, <1>7

(* What is found in an output are values, too.                             *)
IsSource(s) ==
  /\ s.responses \in Seq(Int) /\ s.numbers \in Seq(Int)
  /\ IsList(s.json) /\ \A n \in DOMAIN s.json : IsValue(s.json[n])

LEMMA PickedIs ==
  ASSUME NEW s \in Seq(Int), NEW A \in SUBSET Int
  PROVE  Picked(s, A) \in Seq(Int)
<1> DEFINE F(n) == IF s[n] \in A THEN <<s[n]>> ELSE << >>
<1>1. \A n \in 1..Len(s) : F(n) \in Seq(Int)
  <2>1. \A x \in Int : <<x>> \in Seq(Int)
    OBVIOUS
  <2>2. << >> \in Seq(Int)
    OBVIOUS
  <2>3. \A n \in 1..Len(s) : s[n] \in Int
    OBVIOUS
  <2> QED
    BY <2>1, <2>2, <2>3, Zenon
<1> HIDE DEF F
<1>2. [n \in 1..Len(s) |-> F(n)] \in Seq(Seq(Int))
  <2>1. Len(s) \in Nat
    OBVIOUS
  <2> QED
    BY <1>1, <2>1
<1>3. Picked(s, A) = FlattenSeq([n \in 1..Len(s) |-> F(n)])
  BY DEF Picked, F
<1> QED
  BY <1>2, <1>3, Flattened

LEMMA ValuesFound ==
  ASSUME NEW s, IsSource(s)
  PROVE  IsList(Found(s)) /\ \A n \in DOMAIN Found(s) : IsValue(Found(s)[n])
<1> DEFINE responses == Picked(s.responses, Nat)
           A == {n \in Int : AbsHalf(n) > 2 * Significant}
           printed == Picked(s.responses \o s.numbers, A)
           Values(ns) == [n \in DOMAIN ns |-> Number(FloatOf(AbsHalf(ns[n])))]
           Good(r) == IsList(r) /\ \A n \in DOMAIN r : IsValue(r[n])
<1>1. \A n \in Int : IsValue(Number(n))
  BY DEF IsValue, IsPlain, Number, ListKinds, ObjectKinds
<1>2. ASSUME NEW ns \in Seq(Int)  PROVE Good(Values(ns))
  <2>1. \A n \in DOMAIN ns : FloatOf(AbsHalf(ns[n])) \in Int
    <3>1. ASSUME NEW n \in DOMAIN ns  PROVE AbsHalf(ns[n]) \in Int
      BY DEF AbsHalf
    <3> QED
      BY <3>1, FloatIs
  <2>2. \A n \in DOMAIN ns : IsValue(Values(ns)[n])
    BY <1>1, <2>1
  <2>3. Values(ns) \in Seq({Number(n) : n \in Int})
    <3>1. DOMAIN ns = 1..Len(ns) /\ Len(ns) \in Nat
      OBVIOUS
    <3>2. \A n \in DOMAIN ns : Number(FloatOf(AbsHalf(ns[n]))) \in {Number(i) : i \in Int}
      BY <2>1
    <3> QED
      BY <3>1, <3>2
  <2>4. IsList(Values(ns))
    <3> HIDE DEF Values
    <3> QED
      BY <2>3 DEF IsList
  <2> QED
    BY <2>2, <2>4
<1>3. responses \in Seq(Int)
  BY PickedIs DEF IsSource
<1>4. printed \in Seq(Int)
  <2>1. s.responses \o s.numbers \in Seq(Int) /\ A \in SUBSET Int
    BY DEF IsSource
  <2> HIDE DEF A
  <2> QED
    BY <2>1, PickedIs
<1>5. Good(<< Bool(TRUE) >>)
  <2> DEFINE yes == Bool(TRUE)
  <2>1. IsValue(yes)
    BY DEF IsValue, IsPlain, Bool, ListKinds, ObjectKinds
  <2> HIDE DEF yes
  <2>2. Len(<< yes >>) = 1 /\ DOMAIN << yes >> = 1..1 /\ << yes >>[1] = yes
    OBVIOUS
  <2>3. Good(<< yes >>)
    BY <2>1, <2>2 DEF IsList
  <2> QED
    BY <2>3 DEF yes
<1>6. Good(<< NumberText(0) >>)
  <2>1. IsValue(NumberText(0))
    BY DEF IsValue, IsPlain, NumberText, ListKinds, ObjectKinds
  <2>2. Len(<< NumberText(0) >>) = 1 /\ DOMAIN << NumberText(0) >> = 1..1 /\ << NumberText(0) >>[1] = NumberText(0)
    OBVIOUS
  <2> QED
    BY <2>1, <2>2 DEF IsList
<1>7. Good(s.json)
  BY DEF IsSource
<1>8. \/ Found(s) = s.json \/ Found(s) = Values(responses) \/ Found(s) = Values(printed)
      \/ Found(s) = << Bool(TRUE) >> \/ Found(s) = << NumberText(0) >>
  BY DEF Found
<1>9. Good(Values(responses)) /\ Good(Values(printed))
  <2> HIDE DEF Good, Values, responses, printed
  <2> QED
    BY <1>2, <1>3, <1>4
<1> HIDE DEF Values, responses, printed
<1> QED
  BY <1>5, <1>6, <1>7, <1>8, <1>9

ArgInv ==
  /\ IsSource(source)
  /\ IsList(params) /\ \A n \in DOMAIN params : params[n].t \in {"uint", "int"} => params[n] \in IntegerTypes
  /\ IsList(args) /\ \A n \in DOMAIN args : IsValue(args[n])
  /\ CallIsExact

LEMMA ArgInitially == ASSUME ArgInit  PROVE ArgInv
<1>1. Len(<< >>) = 0 /\ DOMAIN << >> = 1..0
  OBVIOUS
<1>2. << >> \in Seq(Int)
  OBVIOUS
<1>3. IsList(<< >>)
  BY <1>1 DEF IsList
<1>4. IsSource(Static(<< >>))
  BY <1>1, <1>2, <1>3 DEF IsSource, Static
<1> QED
  BY <1>1, <1>3, <1>4 DEF ArgInit, ArgInv, CallIsExact

LEMMA ArgPreserved == ASSUME ArgInv, [ArgNext]_argVars  PROVE ArgInv'
<1>1. CASE UNCHANGED argVars
  BY <1>1 DEF argVars, ArgInv, CallIsExact
<1>2. ASSUME NEW s \in Sources, NEW p \in ParamLists, RunForArguments(s, p)  PROVE ArgInv'
  <2>1. IsSource(s)
    BY CallArgumentsAssumption DEF CallArgumentsAssumption, IsSource
  <2>2. IsList(p) /\ \A n \in DOMAIN p : p[n].t \in {"uint", "int"} => p[n] \in IntegerTypes
    BY CallArgumentsAssumption DEF CallArgumentsAssumption
  <2> QED
    BY <1>2, <2>1, <2>2 DEF RunForArguments, ArgInv, CallIsExact
<1>3. CASE FeeUnknown
  BY <1>3 DEF FeeUnknown, ArgInv, CallIsExact
<1>4. CASE EstimateGas
  BY <1>4 DEF EstimateGas, ArgInv, CallIsExact
<1>5. CASE FindArguments
  <2>1. IsList(args') /\ \A n \in DOMAIN args' : IsValue(args'[n])
    BY <1>5, ValuesFound DEF FindArguments, ArgInv, IsSource
  <2> QED
    BY <1>5, <2>1 DEF FindArguments, ArgInv, CallIsExact
<1>6. CASE BuildCall
  <2>1. call' \in Built(args, params) /\ UNCHANGED <<source, params, args>>
    BY <1>6 DEF BuildCall
  <2> DEFINE results == [n \in DOMAIN params |-> ToType(args[n], params[n])]
  <2>2. ~(Len(args) < Len(params)) /\ call' \in Each(results)
    BY <2>1 DEF Built
  <2>3. DOMAIN call' = DOMAIN params /\ \A n \in DOMAIN params : call'[n] \in ToType(args[n], params[n])
    <3>1. DOMAIN results = DOMAIN params
      OBVIOUS
    <3>2. \A n \in DOMAIN params : results[n] = ToType(args[n], params[n])
      OBVIOUS
    <3> HIDE DEF results
    <3> QED
      BY <2>2, <3>1, <3>2, EachIs
  <2>4. DOMAIN params \subseteq DOMAIN args
    BY <2>2 DEF ArgInv, IsList
  <2>5. \A n \in DOMAIN params : IsExact(args[n], params[n], call'[n])
    BY <2>3, <2>4, ValueConverted DEF ArgInv
  <2> QED
    BY <2>1, <2>3, <2>5 DEF ArgInv, CallIsExact
<1>7. CASE RefuseCall
  BY <1>7 DEF RefuseCall, ArgInv, CallIsExact
<1> QED
  BY <1>1, <1>2, <1>3, <1>4, <1>5, <1>6, <1>7 DEF ArgNext

\* CallIsExact: for every output of a script or list of strings, list of parameters
\* and widths in that order, a call has one argument for each parameter and each is
\* what was given, as far as its type can hold it: exact up to the 53 bits of a float,
\* and another number only where the converter does not look, or for the string NaN.
THEOREM ExactCalls == ArgSpec => []CallIsExact
<1>1. ArgInv => CallIsExact
  BY DEF ArgInv
<1> QED
  BY <1>1, ArgInitially, ArgPreserved, PTL DEF ArgSpec
=============================================================================
