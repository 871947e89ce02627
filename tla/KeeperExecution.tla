--------------------------- MODULE KeeperExecution ---------------------------
(***************************************************************************)
(* A keeper that executes tasks on one chain: the nonce manager that gives *)
(* each task a nonce, the submission of its transaction, the wait for the  *)
(* receipt with replacement by a transaction of the same nonce, and the    *)
(* delivery of the proof to the aggregator.                                *)
(*                                                                         *)
(* The targets of one request are executed by goroutines of their own, so  *)
(* a task here is one target.  The transactions of a task differ in their  *)
(* gas price: the n-th has attempt n.                                      *)
(*                                                                         *)
(* The script of a custom task may say that there is nothing to execute:   *)
(* that is delivered like an executed action, without a transaction.  When *)
(* it says that there is, the cost to pack into the call is a nil pointer, *)
(* and the process ends.                                                   *)
(***************************************************************************)
EXTENDS Naturals, FiniteSets

CONSTANTS
  Targets,      \* task targets sent to this keeper
  MaxAttempt,   \* attempts told apart; later ones look like this one
  MaxForeign,   \* bound on transactions of the same account sent by others
  MaxCrashes,   \* bound on restarts of the keeper
  MaxRunFaults  \* bound on failing calls

ASSUME KeeperExecutionAssumption ==
  /\ IsFiniteSet(Targets)
  /\ MaxAttempt \in Nat \ {0} /\ MaxForeign \in Nat
  /\ MaxCrashes \in Nat /\ MaxRunFaults \in Nat

VARIABLES
  custom,     \* the targets of custom tasks (task definition 7)
  declined,   \* those the script of which said that nothing is to be executed
  step,       \* per target: where its execution is
  nonceOf,    \* per target: its nonce
  attempt,    \* per target: the transaction it submits or waits for
  managed,    \* whether the chain has a nonce manager
  current,    \* currentNonce
  synced,     \* per target: the pending nonce read by a sync outside the mutex
  tracked,    \* nonces with status "pending" in pendingTxs
  mempool,    \* transactions the chain has accepted
  mined,      \* transactions it has executed
  chainNonce, \* the next nonce the chain executes
  foreign, crashes, runFaults

runVars == <<custom, declined, step, nonceOf, attempt, managed, current, synced, tracked, mempool, mined,
             chainNonce, foreign, crashes, runFaults>>

Ended == {"refused", "failed", "sent", "lost"}
Steps == {"idle", "valid", "acting", "sending", "syncing", "confirming", "awaiting", "acted"}
           \cup Ended

MaxNonce == Cardinality(Targets) + MaxForeign
Nonces == 0..MaxNonce
Transactions == [target : Targets, nonce : Nonces, attempt : 1..MaxAttempt]

RunInit ==
  /\ custom \in SUBSET Targets /\ declined = {}
  /\ step = [t \in Targets |-> "idle"]
  /\ nonceOf = [t \in Targets |-> 0]
  /\ attempt = [t \in Targets |-> 1]
  /\ managed = FALSE /\ current = 0
  /\ synced = [t \in Targets |-> 0]
  /\ tracked = {}
  /\ mempool = {} /\ mined = {} /\ chainNonce = 0
  /\ foreign = 0 /\ crashes = 0 /\ runFaults = 0

chainVars == <<mempool, mined, chainNonce, foreign>>
taskVars == <<custom, declined>>
Go(t, s) == step' = [step EXCEPT ![t] = s]
RunFault == runFaults < MaxRunFaults /\ runFaults' = runFaults + 1

Tx(t) == [target |-> t, nonce |-> nonceOf[t], attempt |-> attempt[t]]
\* PendingNonceAt: after the executed transactions and those queued behind them
PendingNonce == LET queued == {x.nonce : x \in mempool}
                IN  CHOOSE n \in chainNonce..(MaxNonce + 1) :
                      n \notin queued /\ chainNonce..(n - 1) \subseteq queued
Larger(a, b) == IF a > b THEN a ELSE b

-----------------------------------------------------------------------------
\* The manager's signature and the trigger are checked before anything else.
Validate(t) ==
  /\ step[t] = "idle"
  /\ \E s \in {"valid", "refused"} : Go(t, s)
  /\ UNCHANGED <<taskVars, nonceOf, attempt, managed, current, synced, tracked, chainVars, crashes, runFaults>>

\* getNonceManager, which syncs a new manager, and GetNextNonce, which syncs one
\* that has not been for a while.
GetNextNonce(t) ==
  /\ step[t] = "valid"
  /\ \E sync \in BOOLEAN :
       LET next == IF sync THEN Larger(current, PendingNonce) ELSE current
       IN  /\ ~managed => sync
           /\ nonceOf' = [nonceOf EXCEPT ![t] = next]
           /\ current' = next + 1
  /\ managed' = TRUE
  /\ Go(t, "acting")
  /\ UNCHANGED <<taskVars, attempt, synced, tracked, chainVars, crashes, runFaults>>

NonceFails(t) ==
  /\ step[t] = "valid" /\ RunFault
  /\ Go(t, "failed")
  /\ UNCHANGED <<taskVars, nonceOf, attempt, managed, current, synced, tracked, chainVars, crashes>>

\* The connection, the script, the arguments, the gas price: what fails between
\* the allocation and the submission leaves the nonce unused for good.
ExecutionFails(t) ==
  /\ step[t] = "acting" /\ RunFault
  /\ Go(t, "failed")
  /\ UNCHANGED <<taskVars, nonceOf, attempt, managed, current, synced, tracked, chainVars, crashes>>

\* executeAction, custom task: the script says that nothing is to be executed.
Decline(t) ==
  /\ step[t] = "acting" /\ t \in custom
  /\ declined' = declined \cup {t}
  /\ Go(t, "acted")
  /\ UNCHANGED <<custom, nonceOf, attempt, managed, current, synced, tracked, chainVars, crashes, runFaults>>

\* SubmitTransaction: a nonce that is tracked as pending was given out twice.  A
\* young transaction of the other target is waited for, an old one replaced.
SubmitTransaction(t) ==
  /\ step[t] = "acting" /\ t \notin custom
  /\ \/ nonceOf[t] \notin tracked /\ Go(t, "sending")
     \/ nonceOf[t] \in tracked /\ \E s \in {"awaiting", "sending"} : Go(t, s)
  /\ tracked' = tracked \cup {nonceOf[t]}
  /\ UNCHANGED <<taskVars, nonceOf, attempt, managed, current, synced, chainVars, crashes, runFaults>>

\* SendTransaction: accepted, in place of one of the same nonce.  An answer that
\* is lost makes the retries fail with "already known".
SendAccepted(t) ==
  /\ step[t] = "sending" /\ nonceOf[t] >= chainNonce
  /\ mempool' = {x \in mempool : x.nonce # nonceOf[t]} \cup {Tx(t)}
  /\ \/ Go(t, "confirming") /\ UNCHANGED runFaults
     \/ Go(t, "failed") /\ RunFault
  /\ UNCHANGED <<taskVars, nonceOf, attempt, managed, current, synced, tracked, mined, chainNonce, foreign, crashes>>

\* The retries end without the node having accepted it.
SendRejected(t) ==
  /\ step[t] = "sending" /\ RunFault
  /\ Go(t, "failed")
  /\ UNCHANGED <<taskVars, nonceOf, attempt, managed, current, synced, tracked, chainVars, crashes>>

\* "nonce too low": the nonce is synced, here without the mutex, and the
\* retries with the same transaction fail.
SendTooLow(t) ==
  /\ step[t] = "sending" /\ nonceOf[t] < chainNonce
  /\ IF PendingNonce > current
       THEN synced' = [synced EXCEPT ![t] = PendingNonce] /\ Go(t, "syncing")
       ELSE UNCHANGED synced /\ Go(t, "failed")
  /\ UNCHANGED <<taskVars, nonceOf, attempt, managed, current, tracked, chainVars, crashes, runFaults>>

\* The second half of that sync: what was read is written.
WriteSync(t) ==
  /\ step[t] = "syncing"
  /\ current' = synced[t]
  /\ Go(t, "failed")
  /\ UNCHANGED <<taskVars, nonceOf, attempt, managed, synced, tracked, chainVars, crashes, runFaults>>

\* WaitMined finds the receipt of the transaction that was sent last.
Confirm(t) ==
  /\ step[t] = "confirming" /\ Tx(t) \in mined
  /\ tracked' = tracked \ {nonceOf[t]}
  /\ Go(t, "acted")
  /\ UNCHANGED <<taskVars, nonceOf, attempt, managed, current, synced, chainVars, crashes, runFaults>>

(* A faulty variant: the replacement takes the next nonce.                 *)
ReplaceWithNewNonce(t) ==
  /\ step[t] = "confirming" /\ current <= MaxNonce
  /\ IF Tx(t) \in mined THEN RunFault ELSE UNCHANGED runFaults
  /\ nonceOf' = [nonceOf EXCEPT ![t] = current]
  /\ current' = current + 1
  /\ Go(t, "sending")
  /\ UNCHANGED <<taskVars, attempt, managed, synced, tracked, chainVars, crashes>>

\* The confirmation retries end: a replacement with the same nonce and a higher
\* price is sent the same way, however often that has been done.
Replace(t) ==
  /\ step[t] = "confirming"
  /\ IF Tx(t) \in mined THEN RunFault ELSE UNCHANGED runFaults
  /\ attempt' = [attempt EXCEPT ![t] = IF @ < MaxAttempt THEN @ + 1 ELSE @]
  /\ Go(t, "sending")
  /\ UNCHANGED <<taskVars, nonceOf, managed, current, synced, tracked, chainVars, crashes>>

ReplaceFails(t) ==
  /\ step[t] = "confirming" /\ RunFault
  /\ Go(t, "failed")
  /\ UNCHANGED <<taskVars, nonceOf, attempt, managed, current, synced, tracked, chainVars, crashes>>

\* Proof, signature, upload, and the aggregator: a failure is reported to the
\* task monitor as an error of the task.
Deliver(t) ==
  /\ step[t] = "acted"
  /\ \/ Go(t, "sent") /\ UNCHANGED runFaults
     \/ Go(t, "failed") /\ RunFault
  /\ UNCHANGED <<taskVars, nonceOf, attempt, managed, current, synced, tracked, chainVars, crashes>>

-----------------------------------------------------------------------------
\* The chain executes the transaction of its next nonce.
Mine ==
  /\ \E x \in mempool :
       /\ x.nonce = chainNonce
       /\ mined' = mined \cup {x}
  /\ chainNonce' = chainNonce + 1
  /\ mempool' = {x \in mempool : x.nonce > chainNonce}
  /\ UNCHANGED <<taskVars, step, nonceOf, attempt, managed, current, synced, tracked, foreign, crashes, runFaults>>

\* Another process executes a transaction of the same account.
ForeignTransaction ==
  /\ foreign < MaxForeign
  /\ foreign' = foreign + 1
  /\ chainNonce' = chainNonce + 1
  /\ mempool' = {x \in mempool : x.nonce > chainNonce}
  /\ UNCHANGED <<taskVars, step, nonceOf, attempt, managed, current, synced, tracked, mined, crashes, runFaults>>

\* The keeper restarts: what it was executing is forgotten.
Restarted ==
  /\ step' = [t \in Targets |-> IF step[t] \in Ended \cup {"idle"} THEN step[t] ELSE "lost"]
  /\ managed' = FALSE /\ current' = 0
  /\ tracked' = {}
  /\ UNCHANGED <<taskVars, nonceOf, attempt, synced, chainVars, runFaults>>

Crash == crashes < MaxCrashes /\ crashes' = crashes + 1 /\ Restarted

\* executeAction, custom task with something to execute: Pack finds a nil cost.
PackPanics(t) ==
  /\ step[t] = "acting" /\ t \in custom
  /\ Restarted /\ UNCHANGED crashes

RunNext ==
  \/ \E t \in Targets :
       \/ Validate(t) \/ GetNextNonce(t) \/ NonceFails(t) \/ ExecutionFails(t) \/ Decline(t)
       \/ PackPanics(t) \/ SubmitTransaction(t) \/ SendAccepted(t) \/ SendRejected(t)
       \/ SendTooLow(t) \/ WriteSync(t) \/ Confirm(t) \/ Replace(t) \/ ReplaceFails(t) \/ Deliver(t)
  \/ Mine \/ ForeignTransaction \/ Crash

RunSpec == RunInit /\ [][RunNext]_runVars

-----------------------------------------------------------------------------
\* The variables have the shapes declared above.
RunTypeOK ==
  /\ custom \subseteq Targets /\ declined \subseteq custom
  /\ step \in [Targets -> Steps]
  /\ nonceOf \in [Targets -> Nonces]
  /\ attempt \in [Targets -> 1..MaxAttempt]
  /\ managed \in BOOLEAN
  /\ current \in 0..(MaxNonce + 1)
  /\ synced \in [Targets -> 0..(MaxNonce + 1)]
  /\ tracked \subseteq Nonces
  /\ mempool \subseteq Transactions /\ mined \subseteq Transactions
  /\ chainNonce \in 0..(MaxNonce + 1)
  /\ foreign \in 0..MaxForeign /\ crashes \in 0..MaxCrashes /\ runFaults \in 0..MaxRunFaults

\* Resending and replacing never run an action twice: whatever is retried after
\* a lost answer, a late receipt, a replacement or a restart, the chain executes
\* at most one transaction of a target.
ExecutedAtMostOnce ==
  \A x, y \in mined : x.target = y.target => x = y

\* The same with the other end of the pipeline: what the keeper delivers to the
\* aggregator as done is what the chain executed, once, or what the script of a
\* custom task declined to execute - and then the chain never executes it.
Once == INSTANCE OneExecution WITH
  executed <- mined, reported <- {t \in Targets : step[t] = "sent"}
ExecutesOnce == Once!OnceSpec

=============================================================================
