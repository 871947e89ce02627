---------------------------- MODULE KeeperProofs ----------------------------
(***************************************************************************)
(* What a keeper does, as performer and as validator, and what it earns.   *)
(*                                                                         *)
(* A keeper executes a target at most once, for every set of targets and   *)
(* every number of attempts, foreign transactions, restarts and failing    *)
(* calls (ExecutionInv). The argument does not rest on the nonce manager,  *)
(* which may give out a nonce twice and leave others unused: a target has  *)
(* one nonce, taken before its first transaction, and the chain executes   *)
(* one transaction of a nonce.                                             *)
(*                                                                         *)
(* What the verdict of a validator is worth, for all requests,             *)
(* validators, tolerances and clocks (PerformanceInv, ReasonInv). A        *)
(* validator checks a document, and of the chain what the document names   *)
(* - not the task it was made for. That this is enough rests on the order  *)
(* of the performer's steps: a document is written when the transaction    *)
(* is known, announced when it is written, and neither changes             *)
(* afterwards.                                                             *)
(*                                                                         *)
(* What the task monitor books for it (EarnInv): rows are read and         *)
(* written whole, so that a share may be lost. That none counts twice      *)
(* rests on a worker going through the shares of a report it alone has,    *)
(* and on writing again what it wrote before when a query is repeated.     *)
(***************************************************************************)
EXTENDS KeeperExecution, Performances, TaskAccounts, FiniteSetTheorems, SequenceTheorems,
        WellFoundedInduction, TLAPS

-----------------------------------------------------------------------------
(***************************************************************************)
(* The execution of a target.                                              *)
(***************************************************************************)

Sent == {t \in Targets : step[t] = "sent"}

(* Targets without a transaction are told apart by their step.             *)
Unsent == {"idle", "valid", "acting"}

(* The execution of a declined target is over; what is left is delivery.   *)
Settled == {"acted"} \cup Ended

ExecutionShape ==
  /\ step \in [Targets -> Steps]
  /\ DOMAIN nonceOf = Targets
  /\ attempt \in [Targets -> 1..MaxAttempt]
  /\ chainNonce \in Nat /\ foreign \in 0..MaxForeign

(* A transaction is of a target that has begun to send, has its nonce, and *)
(* an attempt it made.                                                     *)
Own(x) ==
  /\ x.target \in Targets /\ x.nonce = nonceOf[x.target] /\ x.attempt \in 1..MaxAttempt
  /\ x = [target |-> x.target, nonce |-> x.nonce, attempt |-> x.attempt]
  /\ step[x.target] \notin Unsent /\ x.target \notin declined

OwnInv == \A x \in mempool \cup mined : Own(x)

(* The chain has passed the nonces of what it executed ...                 *)
PassedInv == \A x \in mined : x.nonce \in Nat /\ x.nonce < chainNonce

(* ... and each was that of a target or of somebody else.                  *)
DoneTargets == {x.target : x \in mined}
CountInv == chainNonce = Cardinality(DoneTargets) + foreign

(* A target that was confirmed was executed, if it was not declined.       *)
ConfirmedInv ==
  \A t \in Targets : step[t] \in {"acted", "sent"} => t \in DoneTargets \cup declined
DeclinedInv == \A t \in declined : t \in Targets /\ step[t] \in Settled

ExecutionInv ==
  /\ ExecutionShape /\ OwnInv /\ PassedInv /\ CountInv /\ ConfirmedInv
  /\ DeclinedInv /\ ExecutedAtMostOnce

-----------------------------------------------------------------------------
LEMMA FiniteDone ==
  ASSUME OwnInv
  PROVE  /\ DoneTargets \subseteq Targets
         /\ IsFiniteSet(DoneTargets) /\ Cardinality(DoneTargets) \in Nat
<1>1. DoneTargets \subseteq Targets
  BY DEF OwnInv, Own, DoneTargets
<1> QED
  BY <1>1, KeeperExecutionAssumption, FS_Subset, FS_CardinalityType

LEMMA FiniteTargets == IsFiniteSet(Targets) /\ Cardinality(Targets) \in Nat
BY KeeperExecutionAssumption, FS_CardinalityType

(* Nothing is unsent or undone, no nonce given again, nothing confirmed.   *)
Held ==
  \A u \in Targets :
    /\ step[u] \notin Unsent => step'[u] \notin Unsent /\ nonceOf'[u] = nonceOf[u]
    /\ step[u] \in Settled => step'[u] \in Settled
    /\ step'[u] \in {"acted", "sent"} => step[u] \in {"acted", "sent"}

(* A step that neither executes nor sends anything, keeps the nonces of    *)
(* the targets that have a transaction, and confirms nothing.              *)
LEMMA Quiet ==
  ASSUME ExecutionInv, ExecutionShape', mempool' \subseteq mempool, UNCHANGED mined,
         chainNonce' - foreign' = chainNonce - foreign, chainNonce' >= chainNonce,
         UNCHANGED declined, Held
  PROVE  ExecutionInv'
<1>1. OwnInv'
  <2> SUFFICES ASSUME NEW x \in mempool \cup mined  PROVE Own(x)'
    BY DEF OwnInv
  <2>1. Own(x)
    BY DEF ExecutionInv, OwnInv
  <2> QED
    BY <2>1 DEF Own, Held
<1>2. DoneTargets' = DoneTargets
  BY DEF DoneTargets
<1>3. CountInv'
  <2>1. Cardinality(DoneTargets) \in Nat
    BY FiniteDone DEF ExecutionInv
  <2>2. /\ chainNonce \in Nat /\ chainNonce' \in Nat /\ foreign \in Nat /\ foreign' \in Nat
    BY KeeperExecutionAssumption DEF ExecutionInv, ExecutionShape
  <2> QED
    BY <1>2, <2>1, <2>2 DEF ExecutionInv, CountInv
<1>4. PassedInv'
  BY DEF ExecutionInv, PassedInv, ExecutionShape
<1>5. ConfirmedInv'
  BY <1>2 DEF ExecutionInv, ConfirmedInv, Held
<1>6. ExecutedAtMostOnce'
  BY DEF ExecutionInv, ExecutedAtMostOnce
<1>7. DeclinedInv'
  BY DEF ExecutionInv, DeclinedInv, Held
<1> QED
  BY <1>1, <1>3, <1>4, <1>5, <1>6, <1>7 DEF ExecutionInv

(* Steps of one target that touch nothing of the chain.                    *)
LEMMA Preparation ==
  ASSUME ExecutionInv, NEW t \in Targets,
         \/ Validate(t) \/ GetNextNonce(t) \/ NonceFails(t) \/ ExecutionFails(t)
         \/ SubmitTransaction(t)
  PROVE  ExecutionInv' /\ UNCHANGED <<mined, declined>> /\ Sent' = Sent
<1> USE DEF ExecutionInv, ExecutionShape, Go, chainVars, Steps, Ended, Unsent, Settled, Sent
<1>1. CASE Validate(t) \/ NonceFails(t) \/ ExecutionFails(t)
  <2>1. /\ ExecutionShape' /\ UNCHANGED <<mempool, mined, chainNonce, foreign>> /\ Sent' = Sent
        /\ UNCHANGED declined /\ Held
    BY <1>1 DEF Held, taskVars, Validate, NonceFails, ExecutionFails
  <2> QED
    BY <2>1, Quiet
<1>2. CASE GetNextNonce(t)
  <2>1. /\ step[t] = "valid" /\ step' = [step EXCEPT ![t] = "acting"]
        /\ \E n : nonceOf' = [nonceOf EXCEPT ![t] = n]
        /\ UNCHANGED <<declined, attempt, mempool, mined, chainNonce, foreign>>
    BY <1>2 DEF GetNextNonce, taskVars
  <2>2. /\ ExecutionShape' /\ Sent' = Sent
        /\ UNCHANGED declined /\ Held
    BY <2>1 DEF Held
  <2> QED
    BY <2>1, <2>2, Quiet
<1>3. CASE SubmitTransaction(t)
  <2>1. /\ ExecutionShape' /\ UNCHANGED <<mempool, mined, chainNonce, foreign>> /\ Sent' = Sent
        /\ UNCHANGED declined /\ Held
    BY <1>3 DEF Held, taskVars, SubmitTransaction
  <2> QED
    BY <2>1, Quiet
<1> QED
  BY <1>1, <1>2, <1>3

LEMMA Waiting ==
  ASSUME ExecutionInv, NEW t \in Targets,
         \/ SendRejected(t) \/ SendTooLow(t) \/ WriteSync(t) \/ Replace(t) \/ ReplaceFails(t)
  PROVE  ExecutionInv' /\ UNCHANGED <<mined, declined>> /\ Sent' = Sent
<1> USE DEF ExecutionInv, ExecutionShape, Go, chainVars, Steps, Ended, Unsent, Settled, Sent
<1>1. CASE SendRejected(t) \/ SendTooLow(t) \/ WriteSync(t) \/ ReplaceFails(t)
  <2>1. /\ ExecutionShape' /\ UNCHANGED <<mempool, mined, chainNonce, foreign>> /\ Sent' = Sent
        /\ UNCHANGED declined /\ Held
    BY <1>1 DEF Held, taskVars, SendRejected, SendTooLow, WriteSync, ReplaceFails
  <2> QED
    BY <2>1, Quiet
<1>2. CASE Replace(t)
  <2>1. /\ step[t] = "confirming" /\ step' = [step EXCEPT ![t] = "sending"]
        /\ attempt' = [attempt EXCEPT ![t] = IF @ < MaxAttempt THEN @ + 1 ELSE @]
        /\ UNCHANGED <<declined, nonceOf, mempool, mined, chainNonce, foreign>>
    BY <1>2 DEF Replace, taskVars
  <2>2. attempt' \in [Targets -> 1..MaxAttempt]
    BY <2>1, KeeperExecutionAssumption
  <2>3. /\ ExecutionShape' /\ Sent' = Sent
        /\ UNCHANGED declined /\ Held
    BY <2>1, <2>2 DEF Held
  <2> QED
    BY <2>1, <2>3, Quiet
<1> QED
  BY <1>1, <1>2

(* The node takes a transaction of a target that is sending.               *)
LEMMA Accepted ==
  ASSUME ExecutionInv, NEW t \in Targets, SendAccepted(t)
  PROVE  ExecutionInv' /\ UNCHANGED <<mined, declined>> /\ Sent' = Sent
<1>1. /\ step[t] = "sending"
      /\ \E s \in {"confirming", "failed"} : step' = [step EXCEPT ![t] = s]
      /\ mempool' \subseteq mempool \cup {Tx(t)}
      /\ UNCHANGED <<declined, nonceOf, attempt, mined, chainNonce, foreign>>
  BY DEF SendAccepted, Go, taskVars
<1>2. ExecutionShape' /\ Sent' = Sent
  BY <1>1 DEF ExecutionInv, ExecutionShape, Steps, Ended, Sent
<1>3. \A u \in Targets : step[u] \notin Unsent => step'[u] \notin Unsent
  BY <1>1 DEF ExecutionInv, ExecutionShape, Unsent
<1>4. OwnInv'
  <2> SUFFICES ASSUME NEW x \in mempool' \cup mined'  PROVE Own(x)'
    BY DEF OwnInv
  <2>1. CASE x \in mempool \cup mined
    <3>1. Own(x)
      BY <2>1 DEF ExecutionInv, OwnInv
    <3> QED
      BY <1>1, <1>3, <3>1 DEF Own
  <2>2. CASE x = Tx(t)
    <3>1. /\ x.target = t /\ x.nonce = nonceOf[t] /\ x.attempt = attempt[t]
          /\ x = [target |-> x.target, nonce |-> x.nonce, attempt |-> x.attempt]
      BY <2>2 DEF Tx
    <3>2. attempt[t] \in 1..MaxAttempt /\ step'[t] \notin Unsent /\ t \notin declined
      BY <1>1, <1>3 DEF ExecutionInv, ExecutionShape, DeclinedInv, Unsent, Settled, Ended
    <3> QED
      BY <1>1, <3>1, <3>2 DEF Own
  <2> QED
    BY <1>1, <2>1, <2>2
<1>5. DoneTargets' = DoneTargets
  BY <1>1 DEF DoneTargets
<1>6. CountInv' /\ PassedInv' /\ ExecutedAtMostOnce'
  BY <1>1, <1>5 DEF ExecutionInv, CountInv, PassedInv, ExecutedAtMostOnce
<1>7. ConfirmedInv'
  BY <1>1, <1>5 DEF ExecutionInv, ExecutionShape, ConfirmedInv
<1>8. DeclinedInv'
  BY <1>1 DEF ExecutionInv, ExecutionShape, DeclinedInv, Settled, Ended
<1> QED
  BY <1>1, <1>2, <1>4, <1>6, <1>7, <1>8 DEF ExecutionInv

(* A receipt, and with it the proof: the transaction was executed.         *)
LEMMA Confirmed ==
  ASSUME ExecutionInv, NEW t \in Targets, Confirm(t)
  PROVE  ExecutionInv' /\ UNCHANGED <<mined, declined>> /\ Sent' = Sent
<1>1. /\ step[t] = "confirming" /\ step' = [step EXCEPT ![t] = "acted"]
      /\ Tx(t) \in mined
      /\ UNCHANGED <<declined, nonceOf, attempt, mempool, mined, chainNonce, foreign>>
  BY DEF Confirm, Go, chainVars, taskVars
<1>2. ExecutionShape' /\ Sent' = Sent
  BY <1>1 DEF ExecutionInv, ExecutionShape, Steps, Ended, Sent
<1>3. OwnInv'
  <2> SUFFICES ASSUME NEW x \in mempool \cup mined  PROVE Own(x)'
    BY <1>1 DEF OwnInv
  <2>1. Own(x)
    BY DEF ExecutionInv, OwnInv
  <2> QED
    BY <1>1, <2>1 DEF Own, ExecutionInv, ExecutionShape, Unsent
<1>4. DoneTargets' = DoneTargets /\ t \in DoneTargets
  BY <1>1 DEF DoneTargets, Tx
<1>5. CountInv' /\ PassedInv' /\ ExecutedAtMostOnce'
  BY <1>1, <1>4 DEF ExecutionInv, CountInv, PassedInv, ExecutedAtMostOnce
<1>6. ConfirmedInv'
  BY <1>1, <1>4 DEF ExecutionInv, ExecutionShape, ConfirmedInv
<1>7. DeclinedInv'
  BY <1>1 DEF ExecutionInv, ExecutionShape, DeclinedInv, Settled
<1> QED
  BY <1>1, <1>2, <1>3, <1>5, <1>6, <1>7 DEF ExecutionInv

(* The script of a custom task declines: no transaction of this target is  *)
(* on its way or executed, since it has not begun to send.                 *)
LEMMA Declining ==
  ASSUME ExecutionInv, NEW t \in Targets, Decline(t)
  PROVE  /\ ExecutionInv' /\ mined' = mined /\ Sent' = Sent
         /\ t \notin DoneTargets /\ declined' = declined \cup {t}
<1>1. /\ step[t] = "acting" /\ step' = [step EXCEPT ![t] = "acted"]
      /\ declined' = declined \cup {t}
      /\ UNCHANGED <<nonceOf, attempt, mempool, mined, chainNonce, foreign>>
  BY DEF Decline, Go, chainVars
<1>2. ExecutionShape' /\ Sent' = Sent
  BY <1>1 DEF ExecutionInv, ExecutionShape, Steps, Ended, Sent
<1>3. \A x \in mempool \cup mined : x.target # t
  BY <1>1 DEF ExecutionInv, OwnInv, Own, Unsent
<1>4. OwnInv'
  <2> SUFFICES ASSUME NEW x \in mempool \cup mined  PROVE Own(x)'
    BY <1>1 DEF OwnInv
  <2>1. Own(x) /\ x.target # t
    BY <1>3 DEF ExecutionInv, OwnInv
  <2> QED
    BY <1>1, <2>1 DEF Own, ExecutionInv, ExecutionShape, Unsent
<1>5. DoneTargets' = DoneTargets /\ t \notin DoneTargets
  BY <1>1, <1>3 DEF DoneTargets
<1>6. CountInv' /\ PassedInv' /\ ExecutedAtMostOnce'
  BY <1>1, <1>5 DEF ExecutionInv, CountInv, PassedInv, ExecutedAtMostOnce
<1>7. ConfirmedInv' /\ DeclinedInv'
  BY <1>1, <1>5 DEF ExecutionInv, ExecutionShape, ConfirmedInv, DeclinedInv, Settled
<1> QED
  BY <1>1, <1>2, <1>4, <1>5, <1>6, <1>7 DEF ExecutionInv

(* Delivering changes only the step; what is sent is executed or declined. *)
LEMMA Delivered ==
  ASSUME ExecutionInv, NEW t \in Targets, Deliver(t)
  PROVE  /\ ExecutionInv' /\ UNCHANGED <<mined, declined>>
         /\ Sent' = Sent \/ (t \in DoneTargets \cup declined /\ Sent' = Sent \cup {t})
<1>1. /\ step[t] = "acted"
      /\ \E s \in {"sent", "failed"} : step' = [step EXCEPT ![t] = s]
      /\ UNCHANGED <<declined, nonceOf, attempt, mempool, mined, chainNonce, foreign>>
  BY DEF Deliver, Go, chainVars, taskVars
<1>2. t \in DoneTargets \cup declined
  BY <1>1 DEF ExecutionInv, ConfirmedInv
<1>3. Sent' = Sent \/ Sent' = Sent \cup {t}
  BY <1>1 DEF ExecutionInv, ExecutionShape, Sent
<1>4. /\ ExecutionShape'
      /\ UNCHANGED declined /\ Held
  BY <1>1 DEF ExecutionInv, ExecutionShape, Steps, Ended, Unsent, Settled, Held
<1>5. ExecutionInv'
  BY <1>1, <1>4, Quiet DEF ExecutionInv, ExecutionShape
<1> QED
  BY <1>1, <1>2, <1>3, <1>5

(* The chain executes a transaction of its next nonce: no other of this    *)
(* nonce was, so none of this target.                                      *)
LEMMA Mined ==
  ASSUME ExecutionInv, Mine
  PROVE  /\ ExecutionInv' /\ Sent' = Sent /\ declined' = declined
         /\ \E x \in Transactions : /\ x.target \notin declined
                                    /\ \A y \in mined : y.target # x.target
                                    /\ mined' = mined \cup {x}
<1> PICK x \in mempool : x.nonce = chainNonce /\ mined' = mined \cup {x}
  BY DEF Mine
<1>1. /\ chainNonce' = chainNonce + 1 /\ mempool' \subseteq mempool
      /\ UNCHANGED <<declined, step, nonceOf, attempt, foreign>>
  BY DEF Mine, taskVars
<1>2. ExecutionShape' /\ Sent' = Sent
  BY <1>1 DEF ExecutionInv, ExecutionShape, Sent
<1>3. Own(x)
  BY DEF ExecutionInv, OwnInv
<1>4. \A y \in mined : y.target # x.target
  <2> SUFFICES ASSUME NEW y \in mined, y.target = x.target  PROVE FALSE
    OBVIOUS
  <2>1. Own(y) /\ y.nonce \in Nat /\ y.nonce < chainNonce
    BY DEF ExecutionInv, OwnInv, PassedInv
  <2>2. y.nonce = chainNonce
    BY <1>3, <2>1 DEF Own
  <2> QED
    BY <2>1, <2>2
<1>5. OwnInv'
  <2> SUFFICES ASSUME NEW y \in mempool \cup mined  PROVE Own(y)'
    BY <1>1 DEF OwnInv
  <2>1. Own(y)
    BY DEF ExecutionInv, OwnInv
  <2> QED
    BY <1>1, <2>1 DEF Own
<1>6. PassedInv'
  BY <1>1 DEF ExecutionInv, ExecutionShape, PassedInv
<1>7. ExecutedAtMostOnce'
  BY <1>4 DEF ExecutionInv, ExecutedAtMostOnce
<1>8. DoneTargets' = DoneTargets \cup {x.target} /\ x.target \notin DoneTargets
  BY <1>4 DEF DoneTargets
<1>9. Cardinality(DoneTargets') = Cardinality(DoneTargets) + 1
  BY <1>8, FiniteDone, FS_AddElement DEF ExecutionInv
<1>10. CountInv'
  <2>1. chainNonce \in Nat /\ foreign \in Nat /\ Cardinality(DoneTargets) \in Nat
    BY FiniteDone, KeeperExecutionAssumption DEF ExecutionInv, ExecutionShape
  <2> QED
    BY <1>1, <1>9, <2>1 DEF ExecutionInv, CountInv
<1>11. ConfirmedInv' /\ DeclinedInv'
  BY <1>1, <1>8 DEF ExecutionInv, ConfirmedInv, DeclinedInv
<1>12. ExecutionInv'
  BY <1>2, <1>5, <1>6, <1>7, <1>10, <1>11 DEF ExecutionInv
<1>13. chainNonce \in Nonces
  <2>1. DoneTargets' \subseteq Targets
    BY <1>3, <1>8, FiniteDone DEF ExecutionInv, Own
  <2>2. Cardinality(DoneTargets') <= Cardinality(Targets)
    BY <2>1, FiniteTargets, FS_Subset
  <2>3. /\ Cardinality(DoneTargets) \in Nat /\ Cardinality(Targets) \in Nat
        /\ foreign \in Nat /\ foreign <= MaxForeign /\ MaxForeign \in Nat
        /\ chainNonce \in Nat /\ chainNonce = Cardinality(DoneTargets) + foreign
    BY FiniteDone, FiniteTargets, KeeperExecutionAssumption DEF ExecutionInv, ExecutionShape, CountInv
  <2> QED
    BY <1>9, <2>2, <2>3 DEF Nonces, MaxNonce
<1>14. x \in Transactions
  BY <1>3, <1>13 DEF Own, Transactions
<1> QED
  BY <1>1, <1>2, <1>3, <1>4, <1>12, <1>14 DEF Own

(* Others, and a restart.                                                  *)
LEMMA Elsewhere ==
  ASSUME ExecutionInv, ForeignTransaction \/ Crash \/ (\E t \in Targets : PackPanics(t))
  PROVE  ExecutionInv' /\ UNCHANGED <<mined, declined>> /\ Sent' = Sent
<1>1. CASE ForeignTransaction
  <2>1. /\ foreign < MaxForeign /\ foreign' = foreign + 1 /\ chainNonce' = chainNonce + 1
        /\ mempool' \subseteq mempool /\ UNCHANGED <<declined, step, nonceOf, attempt, mined>>
    BY <1>1 DEF ForeignTransaction, taskVars
  <2>2. /\ ExecutionShape' /\ chainNonce' - foreign' = chainNonce - foreign
        /\ chainNonce' >= chainNonce /\ Sent' = Sent
    BY <2>1, KeeperExecutionAssumption DEF ExecutionInv, ExecutionShape, Sent
  <2>3. Held
    BY <2>1 DEF Held
  <2> QED
    BY <2>1, <2>2, <2>3, Quiet
<1>2. CASE Crash \/ (\E t \in Targets : PackPanics(t))
  <2>1. /\ step' = [t \in Targets |-> IF step[t] \in Ended \cup {"idle"} THEN step[t] ELSE "lost"]
        /\ UNCHANGED <<declined, nonceOf, attempt, mempool, mined, chainNonce, foreign>>
    BY <1>2 DEF Crash, PackPanics, Restarted, chainVars, taskVars
  <2>2. /\ ExecutionShape' /\ Sent' = Sent
        /\ UNCHANGED declined /\ Held
    BY <2>1 DEF ExecutionInv, ExecutionShape, Sent, Steps, Ended, Unsent, Settled, Held
  <2> QED
    BY <2>1, <2>2, Quiet DEF ExecutionInv, ExecutionShape
<1> QED
  BY <1>1, <1>2

-----------------------------------------------------------------------------
LEMMA ExecutionInitially == ASSUME RunInit  PROVE ExecutionInv
<1>1. /\ ExecutionShape /\ mempool = {} /\ mined = {} /\ chainNonce = 0 /\ foreign = 0
      /\ declined = {} /\ \A t \in Targets : step[t] = "idle"
  BY KeeperExecutionAssumption DEF RunInit, ExecutionShape, Steps
<1>2. DoneTargets = {} /\ Cardinality({}) = 0
  BY <1>1, FS_EmptySet DEF DoneTargets
<1> QED
  BY <1>1, <1>2 DEF ExecutionInv, OwnInv, PassedInv, CountInv, ConfirmedInv, DeclinedInv,
                    ExecutedAtMostOnce

LEMMA ExecutionPreserved == ASSUME ExecutionInv, [RunNext]_runVars  PROVE ExecutionInv'
<1>1. CASE RunNext
  BY <1>1, Preparation, Waiting, Accepted, Confirmed, Declining, Delivered, Mined, Elsewhere
     DEF RunNext
<1>2. CASE UNCHANGED runVars
  BY <1>2 DEF runVars, ExecutionInv, ExecutionShape, OwnInv, Own, PassedInv, CountInv, DoneTargets,
              ConfirmedInv, DeclinedInv, ExecutedAtMostOnce
<1> QED
  BY <1>1, <1>2

(* Whatever is retried after a lost answer, a late receipt, a replacement  *)
(* or a restart, the chain executes at most one transaction of a target.   *)
THEOREM AtMostOnce == RunSpec => []ExecutedAtMostOnce
<1>1. RunInit => ExecutionInv
  BY ExecutionInitially
<1>2. ExecutionInv /\ [RunNext]_runVars => ExecutionInv'
  BY ExecutionPreserved
<1>3. ExecutionInv => ExecutedAtMostOnce
  BY DEF ExecutionInv
<1> QED
  BY <1>1, <1>2, <1>3, PTL DEF RunSpec

(* A step of the keeper or of the chain is a step of OneExecution, or      *)
(* changes nothing of it.                                                  *)
LEMMA StepMaps ==
  ASSUME ExecutionInv, [RunNext]_runVars
  PROVE  [Once!OnceNext]_<<mined, declined, Sent>>
<1>1. CASE UNCHANGED runVars
  BY <1>1 DEF runVars, Sent
<1>2. CASE UNCHANGED <<mined, declined, Sent>>
  BY <1>2
<1> USE DEF Once!Executed
<1>3. ASSUME Mine  PROVE Once!OnceNext
  <2>1. /\ Sent' = Sent /\ declined' = declined
        /\ \E x \in Transactions : /\ x.target \notin declined
                                   /\ \A y \in mined : y.target # x.target
                                   /\ mined' = mined \cup {x}
    BY <1>3, Mined
  <2> QED
    BY <2>1 DEF Once!OnceNext, Once!Execute, Sent
<1>4. ASSUME NEW t \in Targets, Deliver(t), Sent' # Sent  PROVE Once!OnceNext
  <2>1. /\ UNCHANGED <<mined, declined>> /\ t \in DoneTargets \cup declined
        /\ Sent' = Sent \cup {t}
    BY <1>4, Delivered
  <2>2. (\E x \in mined : x.target = t) \/ t \in declined
    BY <2>1 DEF DoneTargets
  <2> QED
    BY <2>1, <2>2 DEF Once!OnceNext, Once!Report, Sent
<1>5. ASSUME NEW t \in Targets, Decline(t)  PROVE Once!OnceNext
  <2>1. /\ mined' = mined /\ Sent' = Sent
        /\ t \notin DoneTargets /\ declined' = declined \cup {t}
    BY <1>5, Declining
  <2>2. ~ \E x \in mined : x.target = t
    BY <2>1 DEF DoneTargets
  <2> QED
    BY <2>1, <2>2 DEF Once!OnceNext, Once!Decline, Sent
<1>6. ASSUME NEW t \in Targets, Deliver(t)  PROVE UNCHANGED <<mined, declined>>
  BY <1>6, Delivered
<1> QED
  BY <1>1, <1>2, <1>3, <1>4, <1>5, <1>6, Preparation, Waiting, Accepted, Confirmed, Elsewhere
     DEF RunNext

(* The keeper and the chain together implement OneExecution: what the      *)
(* keeper delivers to the aggregator as done is what the chain executed,   *)
(* once, or what its script declined and the chain never executes.         *)
THEOREM Refinement == RunSpec => ExecutesOnce
<1>1. RunInit => ExecutionInv /\ Once!OnceInit
  <2>1. ASSUME RunInit  PROVE Once!OnceInit
    BY <2>1 DEF RunInit, Once!OnceInit
  <2> QED
    BY <2>1, ExecutionInitially
<1>2. ExecutionInv /\ [RunNext]_runVars => ExecutionInv'
  BY ExecutionPreserved
<1>3. ExecutionInv /\ [RunNext]_runVars
        => [Once!OnceNext]_<<mined, declined, {t \in Targets : step[t] = "sent"}>>
  BY StepMaps DEF Sent
<1> QED
  BY <1>1, <1>2, <1>3, PTL DEF RunSpec, ExecutesOnce, Once!OnceSpec

-----------------------------------------------------------------------------
(***************************************************************************)
(* What an accepted task has behind it.                                    *)
(***************************************************************************)

PerformanceShape ==
  /\ DOMAIN stage = Positions /\ DOMAIN chain = Positions /\ DOMAIN document = Positions
  /\ DOMAIN verdict = Validators
  /\ \A v \in Validators : DOMAIN verdict[v] = Positions
  /\ announced \subseteq Positions

(* The performer has nothing left to do for a task it has announced.       *)
AnnouncedInv == \A i \in announced : stage[i] \in {"announced", "failed"}

(* From the proof on, the document says what was asked for and what the    *)
(* chain did.                                                              *)
DocumentInv ==
  \A i \in Positions :
    stage[i] \in {"proved", "uploaded"} \/ i \in announced =>
      document[i].task = request[i] /\ document[i].tx = chain[i]

(* What a validator has found out when it comes to its next check.         *)
TriggerHolds(i) == request = <<request[i]>> /\ ValidTrigger(request[i])
ActionHolds(i) == chain[i].sent /\ chain[i].ok /\ InTime(request[i], chain[i])

VerdictInv ==
  \A v \in Validators, i \in Positions :
    /\ verdict[v][i] # "none" => i \in announced
    /\ verdict[v][i] \in {"action", "proof", "signature", "accepted"} => TriggerHolds(i)
    /\ verdict[v][i] \in {"proof", "signature", "accepted"} => ActionHolds(i)

PerformanceInv == PerformanceShape /\ AnnouncedInv /\ DocumentInv /\ VerdictInv

-----------------------------------------------------------------------------
LEMMA PerformanceInitially == ASSUME PerfInit  PROVE PerformanceInv
BY DEF PerfInit, PerformanceInv, PerformanceShape, AnnouncedInv, DocumentInv, VerdictInv, Positions

(* The performer's steps for a task.  Each leaves the transactions and the *)
(* documents of announced tasks alone.                                     *)
LEMMA VerdictsKept ==
  ASSUME PerformanceInv, UNCHANGED <<request, verdict>>, announced \subseteq announced',
         \A i \in announced : chain'[i] = chain[i]
  PROVE  VerdictInv'
<1> SUFFICES ASSUME NEW v \in Validators, NEW i \in Positions, verdict[v][i] # "none"
             PROVE  /\ i \in announced'
                    /\ verdict[v][i] \in {"action", "proof", "signature", "accepted"}
                         => TriggerHolds(i)'
                    /\ verdict[v][i] \in {"proof", "signature", "accepted"} => ActionHolds(i)'
  BY DEF VerdictInv, Positions
<1>1. i \in announced
  BY DEF PerformanceInv, VerdictInv
<1>2. chain'[i] = chain[i]
  BY <1>1
<1>3. TriggerHolds(i)' <=> TriggerHolds(i)
  BY DEF TriggerHolds
<1>4. ActionHolds(i)' <=> ActionHolds(i)
  BY <1>2 DEF ActionHolds
<1> QED
  BY <1>1, <1>3, <1>4 DEF PerformanceInv, VerdictInv

LEMMA Performer ==
  ASSUME PerformanceInv, NEW i \in Positions,
         \/ Dispatch(i) \/ Receive(i) \/ Take(i) \/ StartAction(i) \/ ActionMined(i)
         \/ ActionFails(i) \/ Prove(i) \/ Upload(i) \/ Announce(i)
  PROVE  PerformanceInv'
<1> USE DEF Goto, FailTask
<1>a. i \notin announced
  <2> SUFFICES stage[i] \notin {"announced", "failed"}
    BY DEF PerformanceInv, AnnouncedInv
  <2> QED
    BY DEF Dispatch, Receive, Take, Starting, StartAction, ActionMined, ActionFails, Prove, Upload, Announce
<1>b. stage[i] \in {"proved", "uploaded"} => document[i].task = request[i] /\ document[i].tx = chain[i]
  BY DEF PerformanceInv, DocumentInv
<1>1. /\ UNCHANGED <<request, verdict>>
      /\ \E s : stage' = [stage EXCEPT ![i] = s]
      /\ announced' \in {announced, announced \cup {i}}
      /\ chain' = chain \/ (\E x : chain' = [chain EXCEPT ![i] = x])
      /\ document' = document \/ (\E d : document' = [document EXCEPT ![i] = d])
  BY DEF Dispatch, Receive, Take, Starting, StartAction, ActionMined, ActionFails, Prove, Upload, Announce
<1>2. PerformanceShape'
  BY <1>1 DEF PerformanceInv, PerformanceShape, Positions
<1>3. /\ i \in announced' => stage'[i] \in {"announced", "failed"}
      /\ stage'[i] \in {"proved", "uploaded"} \/ i \in announced' =>
           document'[i].task = request[i] /\ document'[i].tx = chain'[i]
  <2>1. CASE Dispatch(i) \/ Receive(i) \/ Take(i) \/ StartAction(i) \/ ActionMined(i)
    BY <2>1, <1>a DEF Dispatch, Receive, Take, Starting, StartAction, ActionMined, PerformanceInv, PerformanceShape
  <2>2. CASE ActionFails(i)
    BY <2>2, <1>a DEF ActionFails, PerformanceInv, PerformanceShape
  <2>3. CASE Prove(i)
    <3>1. \E p : document'[i] = SignedDocument([DocumentOf(i) EXCEPT !.proof = p])
                  \/ document'[i] = SignedDocument(DocumentOf(i))
      BY <2>3 DEF Prove, PerformanceInv, PerformanceShape
    <3>2. \A p : LET d == SignedDocument([DocumentOf(i) EXCEPT !.proof = p])
                IN  d.task = request[i] /\ d.tx = chain[i]
      BY DEF SignedDocument, DocumentOf, NoDocument
    <3>3. LET d == SignedDocument(DocumentOf(i))
          IN  d.task = request[i] /\ d.tx = chain[i]
      BY DEF SignedDocument, DocumentOf, NoDocument
    <3>4. document'[i].task = request[i] /\ document'[i].tx = chain[i]
      BY <3>1, <3>2, <3>3
    <3> QED
      BY <2>3, <3>4, <1>a DEF Prove, PerformanceInv, PerformanceShape
  <2>4. CASE Upload(i)
    BY <2>4, <1>a, <1>b DEF Upload, PerformanceInv, PerformanceShape
  <2>5. CASE Announce(i)
    BY <2>5, <1>a, <1>b DEF Announce, PerformanceInv, PerformanceShape
  <2> QED
    BY <2>1, <2>2, <2>3, <2>4, <2>5
<1>4. \A j \in Positions : j # i => /\ stage'[j] = stage[j] /\ chain'[j] = chain[j]
                                    /\ document'[j] = document[j]
                                    /\ j \in announced' <=> j \in announced
  BY <1>1 DEF PerformanceInv, PerformanceShape
<1>5. AnnouncedInv' /\ DocumentInv'
  BY <1>1, <1>2, <1>3, <1>4 DEF PerformanceInv, PerformanceShape, AnnouncedInv, DocumentInv, Positions
<1>6. VerdictInv'
  <2>1. \A j \in announced : chain'[j] = chain[j]
    BY <1>a, <1>4 DEF PerformanceInv, PerformanceShape
  <2> QED
    BY <1>1, <2>1, VerdictsKept
<1> QED
  BY <1>2, <1>5, <1>6 DEF PerformanceInv

(* The validator's checks, one by one.                                     *)
LEMMA Validator ==
  ASSUME PerformanceInv, NEW v \in Validators, NEW i \in Positions,
         \/ FetchDocument(v, i) \/ CheckTrigger(v, i) \/ CheckAction(v, i)
         \/ CheckProof(v, i) \/ CheckSignature(v, i) \/ ValidationFails(v, i)
  PROVE  PerformanceInv'
<1> USE DEF Check, Conclude
<1>1. /\ UNCHANGED <<request, stage, chain, document, announced>>
      /\ \E n : verdict' = [verdict EXCEPT ![v][i] = n]
  BY DEF FetchDocument, CheckTrigger, CheckAction, CheckProof, CheckSignature, ValidationFails
<1>2. /\ \A w \in Validators, j \in Positions :
             w # v \/ j # i => verdict'[w][j] = verdict[w][j]
      /\ PerformanceShape'
  BY <1>1 DEF PerformanceInv, PerformanceShape, Positions
<1>3. AnnouncedInv' /\ DocumentInv'
  BY <1>1 DEF PerformanceInv, AnnouncedInv, DocumentInv, Positions
<1>4. i \in announced
  BY DEF FetchDocument, CheckTrigger, CheckAction, CheckProof, CheckSignature, ValidationFails,
         PerformanceInv, VerdictInv
<1>5. document[i].task = request[i] /\ document[i].tx = chain[i]
  BY <1>4 DEF PerformanceInv, DocumentInv
<1>6. /\ verdict'[v][i] \in {"action", "proof", "signature", "accepted"} => TriggerHolds(i)
      /\ verdict'[v][i] \in {"proof", "signature", "accepted"} => ActionHolds(i)
  <2>1. CASE FetchDocument(v, i) \/ ValidationFails(v, i)
    BY <2>1 DEF FetchDocument, ValidationFails, PerformanceInv, PerformanceShape
  <2>2. CASE CheckTrigger(v, i)
    BY <2>2, <1>5 DEF CheckTrigger, ValidSignature, TriggerHolds, PerformanceInv, PerformanceShape
  <2>3. CASE CheckAction(v, i)
    <3>1. TriggerHolds(i)
      BY <2>3 DEF CheckAction, PerformanceInv, VerdictInv
    <3>2. verdict'[v][i] \in {"proof", "signature", "accepted"} => ActionHolds(i)
      BY <2>3, <1>5 DEF CheckAction, ActionHolds, PerformanceInv, PerformanceShape
    <3> QED
      BY <3>1, <3>2
  <2>4. CASE CheckProof(v, i) \/ CheckSignature(v, i)
    BY <2>4 DEF CheckProof, CheckSignature, PerformanceInv, VerdictInv
  <2> QED
    BY <2>1, <2>2, <2>3, <2>4
<1>7. VerdictInv'
  <2> SUFFICES ASSUME NEW w \in Validators, NEW j \in Positions
               PROVE  /\ verdict'[w][j] # "none" => j \in announced
                      /\ verdict'[w][j] \in {"action", "proof", "signature", "accepted"}
                           => TriggerHolds(j)
                      /\ verdict'[w][j] \in {"proof", "signature", "accepted"} => ActionHolds(j)
    BY <1>1 DEF VerdictInv, TriggerHolds, ActionHolds, Positions
  <2>1. CASE w = v /\ j = i
    BY <2>1, <1>4, <1>6
  <2>2. CASE w # v \/ j # i
    BY <2>2, <1>2 DEF PerformanceInv, VerdictInv
  <2> QED
    BY <2>1, <2>2
<1> QED
  BY <1>2, <1>3, <1>7 DEF PerformanceInv

(* The process and the clock.  A task under way is lost when it ends; an   *)
(* announced one is not under way.                                         *)
LEMMA Process ==
  ASSUME PerformanceInv,
         \/ FirstCheckIn \/ LaterCheckIn \/ Interrupt \/ CloseClients \/ ExitProcess
         \/ ClockTicks \/ (\E i \in Positions : KeeperPanics(i))
  PROVE  PerformanceInv'
<1>1. UNCHANGED <<request, chain, document, announced, verdict>>
  BY DEF FirstCheckIn, LaterCheckIn, Interrupt, CloseClients, ExitProcess, ClockTicks,
         KeeperPanics, ProcessEnds, CheckedIn, Unmoved
<1>2. \/ stage' = stage
      \/ stage' = [i \in Positions |-> IF stage[i] \in InProgress THEN "lost" ELSE stage[i]]
  BY DEF FirstCheckIn, LaterCheckIn, Interrupt, CloseClients, ExitProcess, ClockTicks,
         KeeperPanics, ProcessEnds, CheckedIn, Unmoved
<1>3. PerformanceShape'
  BY <1>1, <1>2 DEF PerformanceInv, PerformanceShape, Positions
<1>4. AnnouncedInv'
  BY <1>1, <1>2 DEF PerformanceInv, PerformanceShape, AnnouncedInv, InProgress
<1>5. DocumentInv'
  BY <1>1, <1>2 DEF PerformanceInv, PerformanceShape, DocumentInv, Positions
<1>6. VerdictInv'
  BY <1>1, VerdictsKept
<1> QED
  BY <1>3, <1>4, <1>5, <1>6 DEF PerformanceInv

LEMMA PerformancePreserved == ASSUME PerformanceInv, [PerfNext]_perfVars  PROVE PerformanceInv'
<1>1. CASE UNCHANGED perfVars
  <2>1. UNCHANGED <<request, stage, chain, document, announced, verdict>>
    BY <1>1 DEF perfVars
  <2>2. PerformanceShape' /\ AnnouncedInv' /\ DocumentInv'
    BY <2>1 DEF PerformanceInv, PerformanceShape, AnnouncedInv, DocumentInv, Positions
  <2>3. VerdictInv'
    BY <2>1, VerdictsKept
  <2> QED
    BY <2>2, <2>3 DEF PerformanceInv
<1>2. CASE PerfNext
  BY <1>2, Performer, Validator, Process DEF PerfNext
<1> QED
  BY <1>1, <1>2

(* Whatever the interleaving of performer, validators, shutdown, clock and *)
(* failing calls, and whatever the request: a task that some validator     *)
(* accepts was signed alone, its trigger holds, and its transaction is on  *)
(* the chain, went through, and came within the tolerances.                *)
THEOREM Acceptance == PerfSpec => []AcceptedIsDone
<1>1. PerfInit => PerformanceInv
  BY PerformanceInitially
<1>2. PerformanceInv /\ [PerfNext]_perfVars => PerformanceInv'
  BY PerformancePreserved
<1>3. PerformanceInv => AcceptedIsDone
  BY DEF PerformanceInv, VerdictInv, TriggerHolds, ActionHolds, AcceptedIsDone
<1> QED
  BY <1>1, <1>2, <1>3, PTL DEF PerfSpec

-----------------------------------------------------------------------------
(***************************************************************************)
(* What a rejected task has against it.                                    *)
(***************************************************************************)

(* A task that is under way was signed alone and its trigger holds, and    *)
(* one that is performed has its transaction on the chain, unless there    *)
(* was nothing to execute.                                                 *)
UnderWay(i) == stage[i] \in {"taken", "acting", "performed", "proved", "uploaded"} \/ i \in announced
WasPerformed(i) == stage[i] \in {"performed", "proved", "uploaded"} \/ i \in announced

ProgressInv ==
  \A i \in Positions :
    /\ UnderWay(i) => TriggerHolds(i)
    /\ stage[i] = "acting" => request[i].execute
    /\ WasPerformed(i) /\ request[i].execute => chain[i].sent

(* The document, from the proof on, is what Prove made of the task.        *)
Unproven(i) == SignedDocument(DocumentOf(i))
Proven(i) == SignedDocument([DocumentOf(i) EXCEPT !.proof = Hash(DocumentOf(i))])
Written(i) == document[i] \in {Unproven(i), Proven(i)}

WrittenInv == \A i \in Positions : stage[i] \in {"proved", "uploaded"} \/ i \in announced => Written(i)

(* The causes of RejectedForCause.                                         *)
Cause(i) ==
  \/ ~chain[i].ok \/ ~InTime(request[i], chain[i])
  \/ ~request[i].execute
  \/ document[i].proof = << >>
  \/ request[i].args \in {"long", "tuple"}

CauseInv ==
  \A v \in Validators, i \in Positions :
    verdict[v][i] = "rejected" /\ <<v, i>> \notin troubled => Cause(i)

ReasonInv == PerformanceInv /\ ProgressInv /\ WrittenInv /\ CauseInv

-----------------------------------------------------------------------------
(* A document that was written and read back is the one that was signed,   *)
(* unless JSON changed the arguments on the way.                           *)
LEMMA ReadBackWritten ==
  ASSUME NEW i \in Positions, Written(i), request[i].args \notin {"long", "tuple"}
  PROVE  LET d == ReadBack(document[i]) IN
         /\ d.proof = document[i].proof
         /\ d.proof # << >> => d.proof = Hash(d)
         /\ d.signature = Content(d)
<1> DEFINE d == document[i]
           r == ReadBack(d)
           Made(p) ==
             /\ DOMAIN d = {"task", "tx", "args", "proof", "signature"}
             /\ d.task = request[i] /\ d.tx = chain[i] /\ d.args = request[i].args
             /\ d.proof = p
             /\ d.signature = <<request[i], chain[i], Reread(request[i].args), p>>
<1>1. d = Unproven(i) => Made(<< >>)
  BY DEF Unproven, SignedDocument, DocumentOf, NoDocument, Content
<1>a. d = Proven(i) => Made(Hash(DocumentOf(i)))
  BY DEF Proven, SignedDocument, DocumentOf, NoDocument, Content
<1>2. PICK p : p \in {<< >>, Hash(DocumentOf(i))} /\ Made(p)
  BY <1>1, <1>a DEF Written
<1>3. Reread(request[i].args) = request[i].args
  BY DEF Reread
<1>4. /\ r.task = request[i] /\ r.tx = chain[i] /\ r.args = request[i].args /\ r.proof = p
      /\ r.signature = d.signature
  BY <1>2, <1>3 DEF ReadBack
<1>5. Hash(DocumentOf(i)) = <<request[i], chain[i], request[i].args>>
  BY DEF Hash, DocumentOf, NoDocument
<1>6. Hash(r) = <<request[i], chain[i], request[i].args>>
  BY <1>4 DEF Hash
<1>7. Content(r) = <<request[i], chain[i], Reread(request[i].args), p>>
  BY <1>3, <1>4 DEF Content
<1> HIDE DEF d, r
<1> QED
  BY <1>2, <1>4, <1>5, <1>6, <1>7 DEF d, r

LEMMA ReasonInitially == ASSUME PerfInit  PROVE ReasonInv
<1>1. PerformanceInv
  BY PerformanceInitially
<1>2. ProgressInv /\ WrittenInv /\ CauseInv
  BY DEF PerfInit, ProgressInv, WrittenInv, CauseInv, UnderWay, WasPerformed, Positions
<1> QED
  BY <1>1, <1>2 DEF ReasonInv

(* A verdict keeps its cause, as a task that is announced stays as it is.  *)
LEMMA CausesKept ==
  ASSUME ReasonInv, UNCHANGED <<request, verdict, troubled>>,
         \A i \in announced : chain'[i] = chain[i] /\ document'[i] = document[i]
  PROVE  CauseInv'
<1> SUFFICES ASSUME NEW v \in Validators, NEW i \in Positions,
                    verdict[v][i] = "rejected", <<v, i>> \notin troubled
             PROVE  Cause(i)'
  BY DEF CauseInv, Positions
<1>1. i \in announced
  BY DEF ReasonInv, PerformanceInv, VerdictInv
<1>2. chain'[i] = chain[i] /\ document'[i] = document[i]
  BY <1>1
<1>3. Cause(i)
  BY DEF ReasonInv, CauseInv
<1> QED
  BY <1>2, <1>3 DEF Cause

LEMMA PerformerReason ==
  ASSUME ReasonInv, NEW i \in Positions,
         \/ Dispatch(i) \/ Receive(i) \/ Take(i) \/ StartAction(i) \/ ActionMined(i)
         \/ ActionFails(i) \/ Prove(i) \/ Upload(i) \/ Announce(i)
  PROVE  ReasonInv'
<1> USE DEF Goto, FailTask
<1>a. i \notin announced
  <2> SUFFICES stage[i] \notin {"announced", "failed"}
    BY DEF ReasonInv, PerformanceInv, AnnouncedInv
  <2> QED
    BY DEF Dispatch, Receive, Take, Starting, StartAction, ActionMined, ActionFails, Prove, Upload, Announce
<1>1. PerformanceInv'
  BY Performer DEF ReasonInv
<1>2. /\ UNCHANGED <<request, verdict, troubled>>
      /\ \E s : stage' = [stage EXCEPT ![i] = s]
      /\ announced' \in {announced, announced \cup {i}}
      /\ chain' = chain \/ (\E x : chain' = [chain EXCEPT ![i] = x])
      /\ document' = document \/ (\E d : document' = [document EXCEPT ![i] = d])
  BY DEF Dispatch, Receive, Take, Starting, StartAction, ActionMined, ActionFails, Prove, Upload, Announce
<1>3. \A j \in Positions : j # i => /\ stage'[j] = stage[j] /\ chain'[j] = chain[j]
                                    /\ document'[j] = document[j]
                                    /\ j \in announced' <=> j \in announced
  BY <1>2 DEF ReasonInv, PerformanceInv, PerformanceShape
<1>4. Positions' = Positions /\ TriggerHolds(i)' = TriggerHolds(i)
  BY <1>2 DEF Positions, TriggerHolds
<1>5. /\ UnderWay(i)' => TriggerHolds(i)
      /\ stage'[i] = "acting" => request[i].execute
      /\ WasPerformed(i)' /\ request[i].execute => chain'[i].sent
  <2>0. /\ UnderWay(i) => TriggerHolds(i)
        /\ stage[i] = "acting" => request[i].execute
        /\ WasPerformed(i) /\ request[i].execute => chain[i].sent
        /\ DOMAIN stage = Positions /\ DOMAIN chain = Positions
    BY DEF ReasonInv, ProgressInv, PerformanceInv, PerformanceShape
  <2>1. CASE Dispatch(i) \/ Receive(i)
    BY <2>0, <2>1, <1>a DEF Dispatch, Receive, UnderWay, WasPerformed
  <2>2. CASE Take(i)
    BY <2>0, <2>2, <1>a DEF Take, UnderWay, WasPerformed, ValidSignature, TriggerHolds
  <2>3. CASE StartAction(i)
    BY <2>0, <2>3, <1>a DEF Starting, StartAction, UnderWay, WasPerformed
  <2>4. CASE ActionMined(i)
    BY <2>0, <2>4, <1>a DEF ActionMined, UnderWay, WasPerformed
  <2>5. CASE ActionFails(i)
    BY <2>0, <2>5, <1>a DEF ActionFails, UnderWay, WasPerformed
  <2>6. CASE Prove(i) \/ Upload(i)
    BY <2>0, <2>6, <1>a DEF Prove, Upload, UnderWay, WasPerformed
  <2>7. CASE Announce(i)
    BY <2>0, <2>7, <1>a DEF Announce, UnderWay, WasPerformed
  <2> QED
    BY <2>1, <2>2, <2>3, <2>4, <2>5, <2>6, <2>7
<1>6. ProgressInv'
  <2> SUFFICES ASSUME NEW j \in Positions, j # i
               PROVE  /\ UnderWay(j)' => TriggerHolds(j)'
                      /\ stage'[j] = "acting" => request[j].execute
                      /\ WasPerformed(j)' /\ request[j].execute => chain'[j].sent
    BY <1>2, <1>4, <1>5 DEF ProgressInv
  <2>1. TriggerHolds(j)' = TriggerHolds(j)
    BY <1>2 DEF TriggerHolds
  <2>2. UnderWay(j)' = UnderWay(j) /\ WasPerformed(j)' = WasPerformed(j)
    BY <1>3 DEF UnderWay, WasPerformed
  <2> QED
    BY <1>3, <2>1, <2>2 DEF ReasonInv, ProgressInv
<1>7. stage'[i] \in {"proved", "uploaded"} \/ i \in announced' => Written(i)'
  <2>0. /\ DOMAIN stage = Positions /\ DOMAIN document = Positions
        /\ stage[i] \in {"proved", "uploaded"} => Written(i)
    BY DEF ReasonInv, PerformanceInv, PerformanceShape, WrittenInv
  <2>1. CASE \/ Dispatch(i) \/ Receive(i) \/ Take(i) \/ StartAction(i) \/ ActionMined(i)
             \/ ActionFails(i)
    BY <2>0, <2>1, <1>a DEF Dispatch, Receive, Take, Starting, StartAction, ActionMined, ActionFails
  <2>2. CASE Prove(i)
    <3>1. UNCHANGED <<request, chain>>
      BY <2>2 DEF Prove
    <3>2. DocumentOf(i)' = DocumentOf(i)
      BY <3>1 DEF DocumentOf
    <3>3. document'[i] \in {Unproven(i), Proven(i)}
      BY <2>0, <2>2 DEF Prove, Unproven, Proven
    <3> QED
      BY <3>2, <3>3 DEF Written, Unproven, Proven
  <2>3. CASE Upload(i) \/ Announce(i)
    <3>1. /\ UNCHANGED <<request, chain, document>>
          /\ stage[i] \in {"proved", "uploaded"}
      BY <2>3 DEF Upload, Announce
    <3> QED
      BY <2>0, <3>1 DEF Written, Unproven, Proven, DocumentOf
  <2> QED
    BY <2>1, <2>2, <2>3
<1>8. WrittenInv'
  <2> SUFFICES ASSUME NEW j \in Positions, j # i,
                      stage'[j] \in {"proved", "uploaded"} \/ j \in announced'
               PROVE  Written(j)'
    BY <1>4, <1>7 DEF WrittenInv
  <2>1. Written(j)
    BY <1>3 DEF ReasonInv, WrittenInv
  <2>2. DocumentOf(j)' = DocumentOf(j)
    BY <1>2, <1>3 DEF DocumentOf
  <2> QED
    BY <1>3, <2>1, <2>2 DEF Written, Unproven, Proven
<1>9. CauseInv'
  <2>1. \A j \in announced : chain'[j] = chain[j] /\ document'[j] = document[j]
    BY <1>a, <1>3 DEF ReasonInv, PerformanceInv, PerformanceShape
  <2> QED
    BY <1>2, <2>1, CausesKept
<1> QED
  BY <1>1, <1>6, <1>8, <1>9 DEF ReasonInv

(* Steps that leave requests, transactions and documents alone.            *)
LEMMA ProgressKept ==
  ASSUME ReasonInv, UNCHANGED <<request, chain, document, announced>>,
         \A i \in Positions : stage'[i] = stage[i] \/ stage'[i] = "lost"
  PROVE  ProgressInv' /\ WrittenInv'
<1>1. /\ Positions' = Positions
      /\ \A i \in Positions : /\ TriggerHolds(i)' = TriggerHolds(i)
                              /\ UnderWay(i)' => UnderWay(i)
                              /\ WasPerformed(i)' => WasPerformed(i)
                              /\ Written(i)' = Written(i)
  BY DEF Positions, TriggerHolds, UnderWay, WasPerformed, Written, Unproven, Proven, DocumentOf
<1> QED
  BY <1>1 DEF ReasonInv, ProgressInv, WrittenInv

LEMMA ValidatorReason ==
  ASSUME ReasonInv, NEW v \in Validators, NEW i \in Positions,
         \/ FetchDocument(v, i) \/ CheckTrigger(v, i) \/ CheckAction(v, i)
         \/ CheckProof(v, i) \/ CheckSignature(v, i) \/ ValidationFails(v, i)
  PROVE  ReasonInv'
<1> USE DEF Check, Conclude
<1>1. PerformanceInv'
  BY Validator DEF ReasonInv
<1>2. /\ UNCHANGED <<request, stage, chain, document, announced>>
      /\ \E n : verdict' = [verdict EXCEPT ![v][i] = n]
      /\ troubled \subseteq troubled'
  BY DEF FetchDocument, CheckTrigger, CheckAction, CheckProof, CheckSignature, ValidationFails
<1>3. ProgressInv' /\ WrittenInv'
  BY <1>2, ProgressKept
<1>4. i \in announced
  BY DEF FetchDocument, CheckTrigger, CheckAction, CheckProof, CheckSignature, ValidationFails,
         ReasonInv, PerformanceInv, VerdictInv
<1>5. /\ document[i].task = request[i] /\ document[i].tx = chain[i] /\ TriggerHolds(i)
      /\ request[i].execute => chain[i].sent
      /\ Written(i)
  BY <1>4 DEF ReasonInv, PerformanceInv, DocumentInv, ProgressInv, WrittenInv, UnderWay, WasPerformed
<1>6. verdict'[v][i] = "rejected" /\ <<v, i>> \notin troubled' => Cause(i)
  <2>0. DOMAIN verdict = Validators /\ DOMAIN verdict[v] = Positions
    BY DEF ReasonInv, PerformanceInv, PerformanceShape
  <2>1. CASE FetchDocument(v, i)
    BY <2>0, <2>1 DEF FetchDocument
  <2>2. CASE ValidationFails(v, i)
    BY <2>2 DEF ValidationFails
  <2>3. CASE CheckTrigger(v, i)
    BY <2>0, <2>3, <1>5 DEF CheckTrigger, ValidSignature, TriggerHolds
  <2>4. CASE CheckAction(v, i)
    BY <2>0, <2>4, <1>5 DEF CheckAction, Cause
  <2>5. CASE CheckProof(v, i)
    BY <2>0, <2>5, <1>5, ReadBackWritten DEF CheckProof, Cause
  <2>6. CASE CheckSignature(v, i)
    BY <2>0, <2>6, <1>5, ReadBackWritten DEF CheckSignature, Cause
  <2> QED
    BY <2>1, <2>2, <2>3, <2>4, <2>5, <2>6
<1>7. CauseInv'
  <2> SUFFICES ASSUME NEW w \in Validators, NEW j \in Positions,
                      verdict'[w][j] = "rejected", <<w, j>> \notin troubled'
               PROVE  Cause(j)
    BY <1>2 DEF CauseInv, Cause, Positions
  <2>1. CASE w = v /\ j = i
    BY <2>1, <1>6
  <2>2. CASE w # v \/ j # i
    <3>1. verdict'[w][j] = verdict[w][j]
      BY <2>2, <1>2 DEF ReasonInv, PerformanceInv, PerformanceShape
    <3> QED
      BY <3>1, <1>2 DEF ReasonInv, CauseInv
  <2> QED
    BY <2>1, <2>2
<1> QED
  BY <1>1, <1>3, <1>7 DEF ReasonInv

LEMMA ProcessReason ==
  ASSUME ReasonInv,
         \/ FirstCheckIn \/ LaterCheckIn \/ Interrupt \/ CloseClients \/ ExitProcess
         \/ ClockTicks \/ (\E i \in Positions : KeeperPanics(i)) \/ UNCHANGED perfVars
  PROVE  ReasonInv'
<1>1. PerformanceInv'
  BY Process, PerformancePreserved DEF ReasonInv
<1>2. UNCHANGED <<request, chain, document, announced, verdict, troubled>>
  BY DEF FirstCheckIn, LaterCheckIn, Interrupt, CloseClients, ExitProcess, ClockTicks,
         KeeperPanics, ProcessEnds, CheckedIn, Unmoved, perfVars
<1>3. \/ stage' = stage
      \/ stage' = [i \in Positions |-> IF stage[i] \in InProgress THEN "lost" ELSE stage[i]]
  BY DEF FirstCheckIn, LaterCheckIn, Interrupt, CloseClients, ExitProcess, ClockTicks,
         KeeperPanics, ProcessEnds, CheckedIn, Unmoved, perfVars
<1>4. ProgressInv' /\ WrittenInv'
  BY <1>2, <1>3, ProgressKept
<1>5. CauseInv'
  BY <1>2, CausesKept
<1> QED
  BY <1>1, <1>4, <1>5 DEF ReasonInv

LEMMA ReasonPreserved == ASSUME ReasonInv, [PerfNext]_perfVars  PROVE ReasonInv'
BY PerformerReason, ValidatorReason, ProcessReason DEF PerfNext

\* RejectedForCause: a validator whose calls succeed rejects a performance only if
\* the transaction reverted or came late, a custom script found nothing to do, the
\* performer got no proof, or the arguments do not survive JSON; for every request,
\* every set of validators and every clock.
THEOREM Rejection == PerfSpec => []RejectedForCause
<1>1. PerfInit => ReasonInv
  BY ReasonInitially
<1>2. ReasonInv /\ [PerfNext]_perfVars => ReasonInv'
  BY ReasonPreserved
<1>3. ReasonInv => RejectedForCause
  BY DEF ReasonInv, CauseInv, Cause, RejectedForCause
<1> QED
  BY <1>1, <1>2, <1>3, PTL DEF PerfSpec

-----------------------------------------------------------------------------
(***************************************************************************)
(* What is booked for a task.                                              *)
(***************************************************************************)

(* Induction over numbers, as the existence of a least counterexample: a   *)
(* statement about a set, which the provers can instantiate.               *)
LEMMA Least ==
  ASSUME NEW T \in SUBSET Nat, T # {}
  PROVE  \E m \in T : \A k \in T : m <= k
<1>1. PICK R : R = OpToRel(<, Nat)
  OBVIOUS
<1>2. \A x, y \in Nat : y < x => <<y, x>> \in R
  BY <1>1 DEF OpToRel
<1>3. IsWellFoundedOn(R, Nat)
  BY <1>1, NatLessThanWellFounded
<1>4. PICK m \in T : \A k \in T : ~(<<k, m>> \in R)
  BY <1>3, WFMin
<1>5. ASSUME NEW k \in T  PROVE m <= k
  <2>1. m \in Nat /\ k \in Nat /\ ~(k < m)
    BY <1>2, <1>4, <1>5
  <2> QED
    BY <2>1
<1> QED
  BY <1>4, <1>5

First(s) == CHOOSE x \in s : TRUE

\* f is the recursive function that Earned(S) is the last value of.
SumsUp(f, S) ==
  f = [s \in SUBSET S |-> IF s = {} THEN 0 ELSE Booked(First(s)).points + f[s \ {First(s)}]]

LEMMA FirstIs == ASSUME NEW s, s # {}  PROVE First(s) \in s
BY DEF First

LEMMA SmallerSet ==
  ASSUME NEW s, IsFiniteSet(s), NEW x \in s
  PROVE  /\ IsFiniteSet(s \ {x}) /\ Cardinality(s) \in Nat /\ Cardinality(s \ {x}) \in Nat
         /\ Cardinality(s \ {x}) = Cardinality(s) - 1
BY FS_RemoveElement, FS_CardinalityType

(* It exists: one size of subsets after the other.                         *)
LEMMA SumExists ==
  ASSUME NEW S, IsFiniteSet(S), \A b \in S : Booked(b).points \in Int
  PROVE  \E f \in [SUBSET S -> Int] : SumsUp(f, S)
<1> DEFINE Upto(n) == {s \in SUBSET S : Cardinality(s) <= n}
           Works(g, n) == /\ g \in [Upto(n) -> Int]
                          /\ \A s \in Upto(n) :
                               g[s] = IF s = {} THEN 0 ELSE Booked(First(s)).points + g[s \ {First(s)}]
           T == {n \in Nat : ~ \E g : Works(g, n)}
<1>0. \A s \in SUBSET S : IsFiniteSet(s) /\ Cardinality(s) \in Nat
  BY FS_Subset, FS_CardinalityType
<1>1. T = {}
  <2> SUFFICES ASSUME T # {}  PROVE FALSE
    OBVIOUS
  <2>1. T \in SUBSET Nat
    OBVIOUS
  <2> HIDE DEF T
  <2>2. PICK m \in T : \A k \in T : m <= k
    BY <2>1, Least
  <2>3. m \in Nat /\ ~ \E g : Works(g, m)
    BY DEF T
  <2>4. CASE m = 0
    <3>1. Upto(0) = {{}}
      <4>1. \A s \in SUBSET S : Cardinality(s) <= 0 => s = {}
        BY <1>0, FS_EmptySet
      <4>2. Cardinality({}) = 0
        BY FS_EmptySet
      <4> QED
        BY <4>1, <4>2
    <3>2. Works([s \in {{}} |-> 0], 0)
      BY <3>1
    <3> QED
      BY <2>3, <2>4, <3>2
  <2>5. CASE m # 0
    <3>1. m - 1 \in Nat /\ m - 1 \notin T
      BY <2>2, <2>3, <2>5
    <3>2. PICK g : Works(g, m - 1)
      BY <3>1 DEF T
    <3> DEFINE h == [s \in Upto(m) |->
                       IF s = {} THEN 0 ELSE Booked(First(s)).points + g[s \ {First(s)}]]
    <3>3. \A s \in Upto(m) : s # {} =>
            First(s) \in S /\ s \ {First(s)} \in Upto(m - 1)
      <4> SUFFICES ASSUME NEW s \in Upto(m), s # {}
                   PROVE  First(s) \in S /\ s \ {First(s)} \in Upto(m - 1)
        OBVIOUS
      <4>1. First(s) \in s
        BY FirstIs
      <4>2. Cardinality(s \ {First(s)}) = Cardinality(s) - 1 /\ Cardinality(s) \in Nat
        BY <1>0, <4>1, SmallerSet
      <4>3. Cardinality(s) <= m
        OBVIOUS
      <4> QED
        BY <2>3, <4>1, <4>2, <4>3
    <3>4. \A s \in Upto(m - 1) : s \in Upto(m)
      BY <1>0, <2>3
    <3> HIDE DEF Upto
    <3>5. \A s \in Upto(m - 1) : h[s] = g[s]
      BY <3>2, <3>4
    <3>6. h \in [Upto(m) -> Int]
      BY <3>2, <3>3
    <3>7. \A s \in Upto(m) :
            h[s] = IF s = {} THEN 0 ELSE Booked(First(s)).points + h[s \ {First(s)}]
      BY <3>3, <3>5
    <3>8. Works(h, m)
      BY <3>6, <3>7
    <3> QED
      BY <2>3, <3>8
  <2> QED
    BY <2>4, <2>5
<1>2. Cardinality(S) \in Nat
  BY FS_CardinalityType
<1>3. PICK g : Works(g, Cardinality(S))
  BY <1>1, <1>2
<1>4. Upto(Cardinality(S)) = SUBSET S
  BY FS_Subset
<1>5. g \in [SUBSET S -> Int] /\ SumsUp(g, S)
  BY <1>3, <1>4 DEF SumsUp
<1> QED
  BY <1>5

LEMMA SumStep ==
  ASSUME NEW S, NEW f, SumsUp(f, S), NEW s \in SUBSET S
  PROVE  /\ s = {} => f[s] = 0
         /\ s # {} => f[s] = Booked(First(s)).points + f[s \ {First(s)}]
BY DEF SumsUp

LEMMA SumsAgree ==
  ASSUME NEW S, NEW f, SumsUp(f, S), NEW U, NEW g, SumsUp(g, U),
         NEW u \in SUBSET (S \cap U), IsFiniteSet(u)
  PROVE  f[u] = g[u]
<1> DEFINE T == {n \in Nat : \E t \in SUBSET u : Cardinality(t) = n /\ f[t] # g[t]}
<1> SUFFICES ASSUME T # {}  PROVE FALSE
  <2>1. Cardinality(u) \in Nat
    BY FS_CardinalityType
  <2> QED
    BY <2>1
<1>1. T \in SUBSET Nat
  OBVIOUS
<1> HIDE DEF T
<1>2. PICK m \in T : \A k \in T : m <= k
  BY <1>1, Least
<1>3. PICK t \in SUBSET u : m \in Nat /\ Cardinality(t) = m /\ f[t] # g[t]
  BY DEF T
<1>4. t # {} /\ t \in SUBSET S /\ t \in SUBSET U /\ IsFiniteSet(t)
  <2>1. t \in SUBSET S /\ t \in SUBSET U /\ IsFiniteSet(t)
    BY FS_Subset
  <2> QED
    BY <1>3, <2>1, SumStep
<1>5. PICK x : x = First(t) /\ x \in t
  BY <1>4, FirstIs
<1>6. /\ f[t] = Booked(x).points + f[t \ {x}]
      /\ g[t] = Booked(x).points + g[t \ {x}]
  BY <1>4, <1>5, SumStep
<1>7. f[t \ {x}] # g[t \ {x}]
  BY <1>3, <1>6
<1>8. Cardinality(t \ {x}) = m - 1 /\ m - 1 \in Nat
  BY <1>3, <1>4, <1>5, SmallerSet
<1>9. m - 1 \in T
  BY <1>7, <1>8 DEF T
<1> QED
  BY <1>2, <1>3, <1>9

LEMMA SumIs ==
  ASSUME NEW S, IsFiniteSet(S), \A b \in S : Booked(b).points \in Int,
         NEW f, SumsUp(f, S)
  PROVE  f \in [SUBSET S -> Int] /\ Earned(S) = f[S]
<1>1. \E g : SumsUp(g, S)
  BY SumExists
<1>2. PICK g : SumsUp(g, S) /\ Earned(S) = g[S]
  BY <1>1 DEF SumsUp, First, Earned, MapThenSumSet, MapThenFoldSet
<1>3. PICK h \in [SUBSET S -> Int] : SumsUp(h, S)
  BY SumExists
<1>4. \A u \in SUBSET S : f[u] = h[u] /\ g[u] = h[u]
  BY <1>2, <1>3, SumsAgree, FS_Subset
<1>5. DOMAIN f = SUBSET S /\ f = [u \in SUBSET S |-> f[u]]
  BY DEF SumsUp
<1>6. f = h
  BY <1>3, <1>4, <1>5
<1> QED
  BY <1>2, <1>3, <1>4, <1>6

(* In any order.                                                           *)
LEMMA SumAnyOrder ==
  ASSUME NEW S, IsFiniteSet(S), \A b \in S : Booked(b).points \in Int,
         NEW f, SumsUp(f, S), NEW u \in SUBSET S, NEW e \in u
  PROVE  f[u] = Booked(e).points + f[u \ {e}]
<1> DEFINE T == {n \in Nat : \E t \in SUBSET S : \E y \in t :
                   Cardinality(t) = n /\ f[t] # Booked(y).points + f[t \ {y}]}
<1>0. \A s \in SUBSET S : IsFiniteSet(s) /\ Cardinality(s) \in Nat
  BY FS_Subset, FS_CardinalityType
<1> SUFFICES ASSUME T # {}  PROVE FALSE
  BY <1>0
<1>1. T \in SUBSET Nat
  OBVIOUS
<1> HIDE DEF T
<1>2. PICK m \in T : \A k \in T : m <= k
  BY <1>1, Least
<1>20. PICK t \in SUBSET S : \E y \in t :
        m \in Nat /\ Cardinality(t) = m /\ f[t] # Booked(y).points + f[t \ {y}]
  BY DEF T
<1>3. PICK y \in t : m \in Nat /\ Cardinality(t) = m /\ f[t] # Booked(y).points + f[t \ {y}]
  BY <1>20
<1>4. \A v \in SUBSET S : f[v] \in Int
  <2>1. f \in [SUBSET S -> Int]
    BY SumIs
  <2> QED
    BY <2>1
<1>5. PICK x : x = First(t) /\ x \in t
  BY FirstIs
<1>6. f[t] = Booked(x).points + f[t \ {x}]
  BY <1>5, SumStep
<1>7. x # y
  BY <1>3, <1>6
<1>8. /\ Cardinality(t \ {x}) = m - 1 /\ Cardinality(t \ {y}) = m - 1 /\ m - 1 \in Nat
      /\ m - 1 \notin T
  <2>1. Cardinality(t \ {x}) = m - 1 /\ Cardinality(t \ {y}) = m - 1 /\ m - 1 \in Nat
    BY <1>0, <1>3, <1>5, SmallerSet
  <2> QED
    BY <1>2, <1>3, <2>1
<1>9. /\ f[t \ {x}] = Booked(y).points + f[(t \ {x}) \ {y}]
      /\ f[t \ {y}] = Booked(x).points + f[(t \ {y}) \ {x}]
  <2>1. y \in t \ {x} /\ t \ {x} \in SUBSET S /\ x \in t \ {y} /\ t \ {y} \in SUBSET S
    BY <1>3, <1>5, <1>7
  <2> QED
    BY <1>8, <2>1 DEF T
<1>10. PICK p, q, a : /\ p = Booked(x).points /\ q = Booked(y).points /\ a = f[(t \ {x}) \ {y}]
                      /\ p \in Int /\ q \in Int /\ a \in Int
  <2>1. (t \ {x}) \ {y} \in SUBSET S /\ x \in S /\ y \in S
    BY <1>3, <1>5
  <2> QED
    BY <1>4, <2>1
<1>11. (t \ {x}) \ {y} = (t \ {y}) \ {x}
  OBVIOUS
<1>12. f[t] = p + (q + a) /\ f[t \ {y}] = p + a
  BY <1>6, <1>9, <1>10, <1>11
<1>13. f[t] = q + f[t \ {y}]
  BY <1>10, <1>12
<1> QED
  BY <1>3, <1>10, <1>13

\* A share more adds its points.
LEMMA EarnedOne ==
  ASSUME NEW S, IsFiniteSet(S), NEW e, e \notin S,
         \A b \in S \cup {e} : Booked(b).points \in Int
  PROVE  /\ Earned(S \cup {e}) = Earned(S) + Booked(e).points
         /\ Earned(S) \in Int
<1> DEFINE U == S \cup {e}
<1>1. IsFiniteSet(U)
  BY FS_AddElement
<1>2. PICK f : SumsUp(f, S)
  BY SumExists
<1>3. PICK g : SumsUp(g, U)
  BY <1>1, SumExists
<1>4. /\ Earned(S) = f[S] /\ f[S] \in Int
      /\ Earned(U) = g[U]
  <2>1. f \in [SUBSET S -> Int] /\ Earned(S) = f[S]
    BY <1>2, SumIs
  <2>2. Earned(U) = g[U]
    BY <1>1, <1>3, SumIs
  <2> QED
    BY <2>1, <2>2
<1>5. g[U] = Booked(e).points + g[U \ {e}]
  BY <1>1, <1>3, SumAnyOrder
<1>6. U \ {e} = S /\ S \in SUBSET (S \cap U)
  OBVIOUS
<1>7. f[S] = g[S]
  BY <1>2, <1>3, <1>6, SumsAgree
<1>8. Booked(e).points \in Int
  OBVIOUS
<1>9. PICK p \in Int : p = Booked(e).points
  BY <1>8
<1>10. Earned(U) = p + Earned(S) /\ Earned(S) \in Int
  BY <1>4, <1>5, <1>6, <1>7, <1>9
<1> QED
  BY <1>9, <1>10

LEMMA EarnedNone == Earned({}) = 0
<1>1. IsFiniteSet({})
  BY FS_EmptySet
<1>2. PICK f : SumsUp(f, {})
  BY <1>1, SumExists
<1>3. \A b \in {} : Booked(b).points \in Int
  OBVIOUS
<1>4. Earned({}) = f[{}]
  BY <1>1, <1>2, <1>3, SumIs
<1>5. f[{}] = 0
  <2>1. {} \in SUBSET {}
    OBVIOUS
  <2> QED
    BY <1>2, <2>1, SumStep
<1> QED
  BY <1>4, <1>5

Account == [points : Int, counts : [Counters -> Nat]]

\* What a share of the report says, whoever gets it.
ShareOf(r) ==
  {s \in [row : AccountRows, points : Int, counter : {"attested", "executed", "tasks", "none"}] :
     /\ s.counter \in {"attested", "executed"} => s.row \in DOMAIN RewardsBooster
     /\ s.counter = "tasks" => s.row = r.user
     /\ s.counter = "none" => s.row = r.job}

LEMMA SharesAre == ASSUME NEW r \in Reports  PROVE Shares(r) \in Seq(ShareOf(r))
<1>1. /\ r.cost \in Nat /\ r.performer \in DOMAIN RewardsBooster
      /\ r.attesters \in Seq(DOMAIN RewardsBooster)
      /\ r.user \in AccountRows /\ r.job \in AccountRows
      /\ DOMAIN RewardsBooster \subseteq AccountRows
      /\ \A k \in DOMAIN RewardsBooster : RewardsBooster[k] \in Nat
  BY TaskAccountsAssumption
<1>2. ASSUME NEW k \in DOMAIN RewardsBooster  PROVE Attested(r, k) \in ShareOf(r)
  <2>1. PICK x \in Nat, y \in Nat : x = RewardsBooster[k] /\ y = r.cost
    BY <1>1
  <2>2. 10 * x * y \in Int
    OBVIOUS
  <2> QED
    BY <1>1, <2>1, <2>2 DEF Attested, Share, ShareOf
<1>3. Performed(r) \in ShareOf(r)
  <2>1. PICK x \in Nat, y \in Nat : x = RewardsBooster[r.performer] /\ y = r.cost
    BY <1>1
  <2>2. x * y \in Int
    OBVIOUS
  <2>3. PICK z \in Int : z = x * y
    BY <2>2
  <2>4. PICK p \in Int : p = IF r.accepted THEN 10 * z ELSE -z
    BY <2>3
  <2>5. Performed(r) = [row |-> r.performer, points |-> p, counter |-> "executed"]
    BY <2>1, <2>3, <2>4 DEF Performed, Share
  <2> QED
    BY <1>1, <2>5 DEF ShareOf
<1>4. Share(r.user, 10 * r.cost, "tasks") \in ShareOf(r) /\ Share(r.job, 10 * r.cost, "none") \in ShareOf(r)
  <2>1. 10 * r.cost \in Int
    BY <1>1
  <2> QED
    BY <1>1, <2>1 DEF Share, ShareOf
<1>5. PICK a, b : /\ a = [i \in 1..Len(r.attesters) |-> Attested(r, r.attesters[i])]
                  /\ b = <<Performed(r), Share(r.user, 10 * r.cost, "tasks"), Share(r.job, 10 * r.cost, "none")>>
  OBVIOUS
<1>6. a \in Seq(ShareOf(r))
  <2>1. Len(r.attesters) \in Nat /\ \A i \in 1..Len(r.attesters) : r.attesters[i] \in DOMAIN RewardsBooster
    BY <1>1
  <2> QED
    BY <1>2, <1>5, <2>1
<1>7. b \in Seq(ShareOf(r))
  BY <1>3, <1>4, <1>5
<1>8. Shares(r) = a \o b
  BY <1>5 DEF Shares
<1> QED
  BY <1>6, <1>7, <1>8

LEMMA ShareIs ==
  ASSUME NEW r \in Reports, NEW i \in 1..Len(Shares(r))
  PROVE  /\ Len(Shares(r)) \in Nat /\ i \in Nat
         /\ Shares(r)[i].row \in AccountRows /\ Shares(r)[i].points \in Int
         /\ Shares(r)[i] \in ShareOf(r)
<1>1. Shares(r) \in Seq(ShareOf(r))
  BY SharesAre
<1>2. Len(Shares(r)) \in Nat /\ i \in Nat /\ Shares(r)[i] \in ShareOf(r)
  BY <1>1
<1> QED
  BY <1>2 DEF ShareOf

\* A row that counts tasks is that of a user: what else is booked for it counts
\* tasks as well.
LEMMA TasksApart ==
  ASSUME NEW r \in Reports, NEW i \in 1..Len(Shares(r)), Shares(r)[i].counter = "tasks",
         NEW q \in Reports, NEW j \in 1..Len(Shares(q)), Shares(q)[j].row = Shares(r)[i].row
  PROVE  Shares(q)[j].counter = "tasks"
<1>1. Shares(r)[i] \in ShareOf(r) /\ Shares(q)[j] \in ShareOf(q)
  BY ShareIs
<1>2. /\ r.user \notin DOMAIN RewardsBooster
      /\ r.user # q.job
  BY TaskAccountsAssumption
<1> QED
  BY <1>1, <1>2 DEF ShareOf

\* Shares of bk for the row, at most once each and none of them in but, have
\* these points and tasks.
AddsOf(bk, but, row, points, tasks) ==
  \E bs \in SUBSET {b \in bk \ but : Booked(b).row = row} :
    /\ points = Earned(bs)
    /\ tasks = Cardinality({b \in bs : Booked(b).counter = "tasks"})

BooksShape ==
  /\ logs \subseteq Reports /\ eventChan \in Seq(Reports)
  /\ DOMAIN booker = Bookers
  /\ \A w \in Bookers : DOMAIN booker[w] = {"report", "stage", "next", "held", "execs"}
  /\ accounts \in [AccountRows -> Account]
  /\ IsFiniteSet(booked)
  /\ \A b \in booked : \E r \in Reports : \E i \in 1..Len(Shares(r)) : b = <<r, i>>
  /\ \A w \in Bookers : booker[w].stage \in {"read", "write"} =>
                          booker[w].next \in 1..Len(Shares(booker[w].report))

\* A report is at one place.
OnePlace ==
  /\ \A i \in 1..Len(eventChan) : eventChan[i] \notin logs
  /\ \A i, j \in 1..Len(eventChan) : eventChan[i] = eventChan[j] => i = j
  /\ \A w \in Bookers : booker[w].stage # "idle" =>
       /\ booker[w].report \in Reports \ logs
       /\ \A i \in 1..Len(eventChan) : eventChan[i] # booker[w].report
       /\ \A v \in Bookers : (booker[v].stage # "idle" /\ booker[v].report = booker[w].report) => v = w

\* What is booked of a report, its worker has gone past.
BookedBehind ==
  /\ \A b \in booked : b[1] \notin logs /\ \A i \in 1..Len(eventChan) : eventChan[i] # b[1]
  /\ \A w \in Bookers : \A b \in booked : b[1] = booker[w].report =>
       /\ booker[w].stage \notin {"fetch", "submit", "store", "cost"}
       /\ booker[w].stage = "read" => b[2] < booker[w].next
       /\ booker[w].stage = "write" => b[2] <= booker[w].next

\* What a worker is about to write for its share: what the row had before.
WritesOnTop(bk, b) ==
  LET row == Shares(b.report)[b.next].row
  IN  /\ b.held \in Account
      /\ AddsOf(bk, {<<b.report, b.next>>}, row, b.held.points - Balance[row], b.held.counts["tasks"])

HeldAdds == \A w \in Bookers : booker[w].stage = "write" => WritesOnTop(booked, booker[w])

EarnInv == BooksShape /\ OnePlace /\ BookedBehind /\ HeldAdds /\ PointsAreEarned

LEMMA MoreBooked ==
  ASSUME NEW bk, NEW more, bk \subseteq more, NEW but, NEW row, NEW points, NEW tasks,
         AddsOf(bk, but, row, points, tasks)
  PROVE  AddsOf(more, but, row, points, tasks)
BY DEF AddsOf

LEMMA AddsIsAddsOf ==
  ASSUME NEW row, NEW points, NEW tasks
  PROVE  Adds(row, points, tasks) <=> AddsOf(booked, {}, row, points, tasks)
<1>1. booked \ {} = booked
  OBVIOUS
<1> QED
  BY <1>1 DEF Adds, AddsOf

LEMMA BooksInitially == ASSUME AccountsInit  PROVE EarnInv
<1>1. BooksShape
  <2>1. << >> \in Seq(Reports)
    OBVIOUS
  <2>2. accounts \in [AccountRows -> Account]
    <3>1. \A r \in AccountRows : [Unread EXCEPT !.points = Balance[r]] \in Account
      BY TaskAccountsAssumption DEF Unread, Account
    <3> QED
      BY <3>1 DEF AccountsInit
  <2>3. IsFiniteSet(booked)
    BY FS_EmptySet DEF AccountsInit
  <2>4. /\ DOMAIN booker = Bookers
        /\ \A w \in Bookers : /\ booker[w].stage = "idle"
                              /\ DOMAIN booker[w] = {"report", "stage", "next", "held", "execs"}
    BY DEF AccountsInit, Idler
  <2> QED
    BY <2>1, <2>2, <2>3, <2>4 DEF AccountsInit, BooksShape
<1>2. OnePlace /\ BookedBehind /\ HeldAdds
  BY DEF AccountsInit, Idler, OnePlace, BookedBehind, HeldAdds
<1>3. PointsAreEarned
  <2> SUFFICES ASSUME NEW r \in AccountRows
               PROVE  Adds(r, accounts[r].points - Balance[r], accounts[r].counts["tasks"])
    BY DEF PointsAreEarned
  <2>1. accounts[r].points = Balance[r] /\ Balance[r] \in Int /\ accounts[r].counts["tasks"] = 0
    BY TaskAccountsAssumption DEF AccountsInit, Unread, Counters
  <2>2. accounts[r].points - Balance[r] = 0
    BY <2>1
  <2>3. {b \in {} : Booked(b).counter = "tasks"} = {}
    OBVIOUS
  <2> QED
    BY <2>1, <2>2, <2>3, EarnedNone, FS_EmptySet DEF Adds
<1> QED
  BY <1>1, <1>2, <1>3 DEF EarnInv

\* A worker goes on; nothing is booked.
LEMMA WorkerSteps ==
  ASSUME EarnInv, NEW w \in Bookers, NEW nb,
         UNCHANGED <<logs, eventChan, accounts, booked>>,
         booker' = [booker EXCEPT ![w] = nb],
         DOMAIN nb = {"report", "stage", "next", "held", "execs"},
         nb.stage # "idle" => (booker[w].stage # "idle" /\ nb.report = booker[w].report),
         nb.stage \in {"fetch", "submit", "store", "cost"} =>
           booker[w].stage \in {"fetch", "submit", "store", "cost"},
         nb.stage = "read" => (booker[w].stage = "cost" /\ nb.next = 1),
         nb.stage = "write" => (/\ booker[w].stage = "read" /\ nb.next = booker[w].next
                                /\ nb.held = accounts[Booking(w).row])
  PROVE  EarnInv'
<1> USE DEF EarnInv
<1>1. /\ booker'[w] = nb /\ DOMAIN booker' = Bookers
      /\ \A v \in Bookers \ {w} : booker'[v] = booker[v]
  BY DEF BooksShape
<1>2. nb.stage \in {"read", "write"} => nb.next \in 1..Len(Shares(nb.report))
  <2>1. CASE nb.stage = "read"
    <3>1. booker[w].report \in Reports
      BY <2>1 DEF OnePlace
    <3>2. PICK r \in Reports : r = nb.report
      BY <2>1, <3>1
    <3>3. Shares(r) \in Seq(ShareOf(r))
      BY SharesAre
    <3>4. Len(Shares(r)) \in Nat /\ Len(Shares(r)) >= 1
      <4>1. r.attesters \in Seq(DOMAIN RewardsBooster)
        BY TaskAccountsAssumption
      <4>2. PICK n \in Nat : n = Len(r.attesters)
        BY <4>1
      <4>3. PICK a, b : /\ a = [i \in 1..n |-> Attested(r, r.attesters[i])]
                        /\ b = <<Performed(r), Share(r.user, 10 * r.cost, "tasks"), Share(r.job, 10 * r.cost, "none")>>
        OBVIOUS
      <4>4. Shares(r) = a \o b
        BY <4>2, <4>3 DEF Shares
      <4>5. Len(a) = n /\ Len(b) = 3
        BY <4>3
      <4>6. Len(a \o b) = Len(a) + Len(b)
        BY <4>3, <4>5
      <4> QED
        BY <4>2, <4>4, <4>5, <4>6
    <3> QED
      BY <2>1, <3>2, <3>4
  <2>2. CASE nb.stage = "write"
    BY <2>2 DEF BooksShape
  <2> QED
    BY <2>1, <2>2
<1>3. BooksShape'
  <2>1. \A v \in Bookers : DOMAIN booker'[v] = {"report", "stage", "next", "held", "execs"}
    BY <1>1 DEF BooksShape
  <2>2. \A v \in Bookers : booker'[v].stage \in {"read", "write"} =>
                             booker'[v].next \in 1..Len(Shares(booker'[v].report))
    BY <1>1, <1>2 DEF BooksShape
  <2> QED
    BY <1>1, <2>1, <2>2 DEF BooksShape
<1>4. OnePlace'
  BY <1>1 DEF OnePlace
<1>5. BookedBehind'
  <2>1. ASSUME NEW b \in booked, b[1] = nb.report
        PROVE  /\ nb.stage \notin {"fetch", "submit", "store", "cost"}
               /\ nb.stage = "read" => b[2] < nb.next
               /\ nb.stage = "write" => b[2] <= nb.next
    <3>1. PICK r \in Reports : \E i \in 1..Len(Shares(r)) : b = <<r, i>>
      BY DEF BooksShape
    <3>2. b[2] \in Nat
      BY <3>1, ShareIs
    <3>3. nb.stage = "write" => nb.next \in Nat
      <4> SUFFICES ASSUME nb.stage = "write"  PROVE nb.next \in Nat
        OBVIOUS
      <4>1. nb.report \in Reports
        BY DEF OnePlace
      <4> QED
        BY <1>2, <4>1, ShareIs
    <3> QED
      BY <2>1, <3>2, <3>3 DEF BookedBehind
  <2> QED
    BY <1>1, <2>1 DEF BookedBehind
<1>6. HeldAdds'
  <2>1. nb.stage = "write" => WritesOnTop(booked, nb)
    <3> SUFFICES ASSUME nb.stage = "write"  PROVE WritesOnTop(booked, nb)
      OBVIOUS
    <3>1. PICK r, n : /\ r = booker[w].report /\ n = booker[w].next
                      /\ r = nb.report /\ n = nb.next /\ r \in Reports /\ n \in 1..Len(Shares(r))
      BY DEF OnePlace, BooksShape
    <3>2. PICK row \in AccountRows : row = Shares(r)[n].row
      BY <3>1, ShareIs
    <3>3. nb.held = accounts[row]
      BY <3>1, <3>2 DEF Booking
    <3>4. accounts[row] \in Account
      BY DEF BooksShape
    <3>5. PICK bs \in SUBSET {b \in booked : Booked(b).row = row} :
            /\ accounts[row].points - Balance[row] = Earned(bs)
            /\ accounts[row].counts["tasks"] = Cardinality({b \in bs : Booked(b).counter = "tasks"})
      BY DEF PointsAreEarned, Adds
    <3>6. <<r, n>> \notin booked
      <4>1. n \in Nat
        BY <3>1, ShareIs
      <4>2. <<r, n>> \in booked => n < n
        BY <3>1 DEF BookedBehind
      <4> QED
        BY <4>1, <4>2
    <3>7. bs \in SUBSET {b \in booked \ {<<r, n>>} : Booked(b).row = row}
      BY <3>5, <3>6
    <3>8. AddsOf(booked, {<<r, n>>}, row, accounts[row].points - Balance[row], accounts[row].counts["tasks"])
      BY <3>5, <3>7 DEF AddsOf
    <3> QED
      BY <3>1, <3>2, <3>3, <3>4, <3>8 DEF WritesOnTop
  <2> QED
    BY <1>1, <2>1 DEF HeldAdds
<1>7. PointsAreEarned'
  BY DEF PointsAreEarned, Adds
<1> QED
  BY <1>3, <1>4, <1>5, <1>6, <1>7

\* A log reaches the channel, or is skipped.
LEMMA LogEmitted ==
  ASSUME EarnInv, NEW r \in Reports, EmitLog(r)
  PROVE  EarnInv'
<1> USE DEF EarnInv
<1>1. /\ r \in logs /\ logs' = logs \ {r}
      /\ booker' = booker /\ accounts' = accounts /\ booked' = booked
      /\ eventChan' = eventChan \/ eventChan' = Append(eventChan, r)
      /\ eventChan \in Seq(Reports) /\ Len(eventChan) \in Nat
  BY DEF EmitLog, BooksShape
<1>2. /\ eventChan' \in Seq(Reports) /\ Len(eventChan') \in Nat
      /\ \A i \in 1..Len(eventChan') : \/ i \in 1..Len(eventChan) /\ eventChan'[i] = eventChan[i]
                                       \/ i = Len(eventChan) + 1 /\ eventChan'[i] = r
  BY <1>1
<1>3. BooksShape'
  BY <1>1, <1>2 DEF BooksShape
<1>4. OnePlace'
  BY <1>1, <1>2 DEF OnePlace
<1>5. BookedBehind'
  BY <1>1, <1>2 DEF BookedBehind
<1>6. HeldAdds' /\ PointsAreEarned'
  BY <1>1 DEF HeldAdds, PointsAreEarned, Adds
<1> QED
  BY <1>3, <1>4, <1>5, <1>6

LEMMA ReportTaken ==
  ASSUME EarnInv, NEW w \in Bookers, TakeReport(w)
  PROVE  EarnInv'
<1> USE DEF EarnInv
<1>1. /\ logs' = logs /\ accounts' = accounts /\ booked' = booked
      /\ eventChan \in Seq(Reports) /\ eventChan # << >> /\ eventChan' = Tail(eventChan)
      /\ booker[w].stage = "idle"
  BY DEF TakeReport, BooksShape
<1>2. /\ eventChan' \in Seq(Reports) /\ Len(eventChan') \in Nat /\ Len(eventChan) \in Nat
      /\ Len(eventChan) >= 1 /\ Len(eventChan') = Len(eventChan) - 1
      /\ \A i \in 1..Len(eventChan') : i + 1 \in 1..Len(eventChan) /\ eventChan'[i] = eventChan[i + 1]
  BY <1>1
<1>3. PICK h \in Reports : h = eventChan[1] /\ h = Head(eventChan)
  BY <1>1, <1>2
<1>4. h \notin logs /\ \A i \in 1..Len(eventChan') : eventChan'[i] # h
  <2>1. h \notin logs
    BY <1>2, <1>3 DEF OnePlace
  <2>2. ASSUME NEW i \in 1..Len(eventChan')  PROVE eventChan'[i] # h
    <3>1. i + 1 # 1 /\ 1 \in 1..Len(eventChan)
      BY <1>2
    <3> QED
      BY <1>2, <1>3, <3>1 DEF OnePlace
  <2> QED
    BY <2>1, <2>2
<1>5. \A b \in booked : b[1] # h
  BY <1>2, <1>3 DEF BookedBehind
<1>6. /\ DOMAIN booker' = Bookers /\ \A v \in Bookers \ {w} : booker'[v] = booker[v]
      /\ DOMAIN booker'[w] = {"report", "stage", "next", "held", "execs"}
      /\ \/ booker' = booker
         \/ booker'[w].stage = "fetch" /\ booker'[w].report = h
  <2>1. DOMAIN booker = Bookers /\ DOMAIN booker[w] = {"report", "stage", "next", "held", "execs"}
    BY DEF BooksShape
  <2>2. CASE booker' = booker
    BY <2>1, <2>2
  <2>3. CASE booker' = [booker EXCEPT ![w].report = Head(eventChan), ![w].stage = "fetch"]
    BY <1>3, <2>1, <2>3
  <2> QED
    BY <2>2, <2>3 DEF TakeReport
<1>7. BooksShape'
  BY <1>1, <1>2, <1>6 DEF BooksShape
<1>8. OnePlace'
  <2>1. /\ \A i \in 1..Len(eventChan') : eventChan'[i] \notin logs
        /\ \A i, j \in 1..Len(eventChan') : eventChan'[i] = eventChan'[j] => i = j
    <3>1. ASSUME NEW i \in 1..Len(eventChan'), NEW j \in 1..Len(eventChan'), eventChan'[i] = eventChan'[j]
          PROVE  i = j
      <4>1. i + 1 = j + 1
        BY <1>2, <3>1 DEF OnePlace
      <4> QED
        BY <1>2, <4>1
    <3> QED
      BY <1>2, <3>1 DEF OnePlace
  <2>2. ASSUME NEW v \in Bookers, booker'[v].stage # "idle"
        PROVE  /\ booker'[v].report \in Reports \ logs
               /\ \A i \in 1..Len(eventChan') : eventChan'[i] # booker'[v].report
    <3>1. CASE booker'[v] = booker[v]
      BY <1>2, <2>2, <3>1 DEF OnePlace
    <3>2. CASE booker'[v].report = h
      BY <1>3, <1>4, <3>2
    <3> QED
      BY <1>6, <3>1, <3>2
  <2>3. ASSUME NEW u \in Bookers, NEW v \in Bookers, booker'[u].stage # "idle",
               booker'[v].stage # "idle", booker'[v].report = booker'[u].report
        PROVE  v = u
    <3>1. \A x \in Bookers : booker[x].stage # "idle" => booker[x].report # h
      BY <1>2, <1>3 DEF OnePlace
    <3> QED
      BY <1>1, <1>6, <2>3, <3>1 DEF OnePlace
  <2> QED
    BY <1>1, <2>1, <2>2, <2>3 DEF OnePlace
<1>9. BookedBehind'
  BY <1>1, <1>2, <1>5, <1>6 DEF BookedBehind
<1>10. HeldAdds'
  BY <1>1, <1>6 DEF HeldAdds
<1>11. PointsAreEarned'
  BY <1>1 DEF PointsAreEarned, Adds
<1> QED
  BY <1>7, <1>8, <1>9, <1>10, <1>11

\* A share is written on top of what the row had: the shares of the others stay
\* or are lost, none is booked a second time.
LEMMA RowBooked ==
  ASSUME EarnInv, NEW w \in Bookers, WriteRow(w)
  PROVE  EarnInv'
<1> USE DEF EarnInv
<1>1. PICK r, n : /\ r = booker[w].report /\ n = booker[w].next /\ r \in Reports /\ n \in 1..Len(Shares(r))
                  /\ booker[w].stage = "write"
  BY DEF WriteRow, OnePlace, BooksShape
<1>2. PICK s, row, held : /\ s = Shares(r)[n] /\ row = s.row /\ held = booker[w].held
  OBVIOUS
<1>3. /\ row \in AccountRows /\ s.points \in Int /\ n \in Nat /\ Len(Shares(r)) \in Nat
  BY <1>1, <1>2, ShareIs
<1>4. /\ held \in Account /\ Balance[row] \in Int /\ accounts[row] \in Account
      /\ AddsOf(booked, {<<r, n>>}, row, held.points - Balance[row], held.counts["tasks"])
  <2>1. WritesOnTop(booked, booker[w])
    BY <1>1 DEF HeldAdds
  <2> QED
    BY <1>1, <1>2, <1>3, <2>1, TaskAccountsAssumption DEF WritesOnTop, BooksShape
<1>5. /\ logs' = logs /\ eventChan' = eventChan
      /\ booked' = booked \cup {<<r, n>>}
      /\ accounts' = [accounts EXCEPT ![row] = Credited(accounts[row], held, s)]
  BY <1>1, <1>2 DEF WriteRow, Booking
<1>6. /\ DOMAIN booker' = Bookers /\ \A v \in Bookers \ {w} : booker'[v] = booker[v]
      /\ DOMAIN booker'[w] = {"report", "stage", "next", "held", "execs"}
      /\ booker'[w].report = r
      /\ \/ booker'[w].stage = "notify"
         \/ booker'[w].stage = "read" /\ n # Len(Shares(r)) /\ booker'[w].next = n + 1
         \/ booker'[w].stage = "write" /\ booker'[w].next = n /\ booker'[w].held = held
  <2>1. DOMAIN booker = Bookers /\ DOMAIN booker[w] = {"report", "stage", "next", "held", "execs"}
    BY DEF BooksShape
  <2>2. \/ booker' = [booker EXCEPT ![w].stage = IF n = Len(Shares(r)) THEN "notify" ELSE "read",
                                    ![w].next = IF n = Len(Shares(r)) THEN 0 ELSE @ + 1,
                                    ![w].held = Unread, ![w].execs = 0]
        \/ booker' = [booker EXCEPT ![w].execs = @ + 1]
    BY <1>1 DEF WriteRow
  <2>3. CASE booker' = [booker EXCEPT ![w].execs = @ + 1]
    BY <1>1, <1>2, <2>1, <2>3
  <2>4. CASE booker' = [booker EXCEPT ![w].stage = IF n = Len(Shares(r)) THEN "notify" ELSE "read",
                                    ![w].next = IF n = Len(Shares(r)) THEN 0 ELSE @ + 1,
                                    ![w].held = Unread, ![w].execs = 0]
    BY <1>1, <2>1, <2>4
  <2> QED
    BY <2>2, <2>3, <2>4
<1>7. PICK c \in Account : c = Credited(accounts[row], held, s)
  <2>1. held.points + s.points \in Int
    BY <1>3, <1>4 DEF Account
  <2>2. \A x \in Counters : held.counts[x] + 1 \in Nat /\ accounts[row].counts[x] \in Nat
    BY <1>4 DEF Account
  <2> QED
    BY <2>1, <2>2 DEF Credited, Account
<1>8. /\ accounts' \in [AccountRows -> Account] /\ accounts'[row] = c
      /\ \A x \in AccountRows \ {row} : accounts'[x] = accounts[x]
  <2>1. accounts \in [AccountRows -> Account] /\ row \in AccountRows
    BY <1>3 DEF BooksShape
  <2>2. accounts' = [accounts EXCEPT ![row] = c]
    BY <1>5, <1>7
  <2> QED
    BY <2>1, <2>2
<1>9. BooksShape'
  <2>1. IsFiniteSet(booked')
    BY <1>5, FS_AddElement DEF BooksShape
  <2>2. \A b \in booked' : \E q \in Reports : \E i \in 1..Len(Shares(q)) : b = <<q, i>>
    BY <1>1, <1>5 DEF BooksShape
  <2>3. \A v \in Bookers : booker'[v].stage \in {"read", "write"} =>
                             booker'[v].next \in 1..Len(Shares(booker'[v].report))
    BY <1>1, <1>3, <1>6 DEF BooksShape
  <2> QED
    BY <1>5, <1>6, <1>8, <2>1, <2>2, <2>3 DEF BooksShape
<1>10. OnePlace'
  BY <1>1, <1>5, <1>6 DEF OnePlace
<1>11. BookedBehind'
  <2>1. \A b \in booked' : b[1] \notin logs /\ \A i \in 1..Len(eventChan) : eventChan[i] # b[1]
    BY <1>1, <1>5 DEF BookedBehind, OnePlace
  <2>2. ASSUME NEW v \in Bookers, NEW b \in booked', b[1] = booker'[v].report
        PROVE  /\ booker'[v].stage \notin {"fetch", "submit", "store", "cost"}
               /\ booker'[v].stage = "read" => b[2] < booker'[v].next
               /\ booker'[v].stage = "write" => b[2] <= booker'[v].next
    <3>1. CASE v # w /\ b \in booked
      BY <1>6, <2>2, <3>1 DEF BookedBehind
    <3>2. CASE v # w /\ b = <<r, n>>
      <4>1. booker'[v] = booker[v] /\ booker[v].report = r
        BY <1>6, <2>2, <3>2
      <4>2. booker[v].stage = "idle"
        BY <1>1, <3>2, <4>1 DEF OnePlace
      <4> QED
        BY <4>1, <4>2
    <3>3. CASE v = w
      <4>1. b[2] \in Nat /\ b[2] <= n
        <5>1. CASE b = <<r, n>>
          BY <1>3, <5>1
        <5>2. CASE b \in booked
          <6>1. b[1] = r
            BY <1>6, <2>2, <3>3
          <6>2. b[2] <= n
            BY <1>1, <5>2, <6>1 DEF BookedBehind
          <6>3. b[2] \in Nat
            BY <5>2, ShareIs DEF BooksShape
          <6> QED
            BY <6>2, <6>3
        <5> QED
          BY <1>5, <5>1, <5>2
      <4> QED
        BY <1>3, <1>6, <3>3, <4>1
    <3> QED
      BY <1>5, <3>1, <3>2, <3>3
  <2> QED
    BY <1>5, <2>1, <2>2 DEF BookedBehind
<1>12. HeldAdds'
  <2>1. \A b : WritesOnTop(booked, b) => WritesOnTop(booked', b)
    BY <1>5, MoreBooked DEF WritesOnTop
  <2>2. booker'[w].stage = "write" => WritesOnTop(booked, booker'[w])
    <3>1. WritesOnTop(booked, booker[w])
      BY <1>1 DEF HeldAdds
    <3> QED
      BY <1>1, <1>2, <1>6, <3>1 DEF WritesOnTop
  <2>3. \A v \in Bookers : booker'[v].stage = "write" => WritesOnTop(booked, booker'[v])
    BY <1>6, <2>2 DEF HeldAdds
  <2> QED
    BY <2>1, <2>3 DEF HeldAdds
<1>13. AddsOf(booked', {}, row, c.points - Balance[row], c.counts["tasks"])
  <2>1. PICK bs \in SUBSET {b \in booked \ {<<r, n>>} : Booked(b).row = row} :
          /\ held.points - Balance[row] = Earned(bs)
          /\ held.counts["tasks"] = Cardinality({b \in bs : Booked(b).counter = "tasks"})
    BY <1>4 DEF AddsOf
  <2>2. PICK e : e = <<r, n>> /\ Booked(e) = s
    <3>1. Booked(<<r, n>>) = Shares(r)[n]
      BY DEF Booked
    <3> QED
      BY <1>2, <3>1
  <2>3. PICK more : more = bs \cup {e} /\ e \notin bs /\ more \in SUBSET {b \in booked' \ {} : Booked(b).row = row}
    BY <1>2, <1>5, <2>1, <2>2
  <2>4. IsFiniteSet(bs)
    BY <2>1, FS_Subset DEF BooksShape
  <2>5. \A b \in more : Booked(b).points \in Int
    <3>1. \A b \in booked' : Booked(b).points \in Int
      BY <1>9, ShareIs DEF BooksShape, Booked
    <3> QED
      BY <2>3, <3>1
  <2>6. Earned(more) = Earned(bs) + s.points /\ Earned(bs) \in Int
    BY <2>2, <2>3, <2>4, <2>5, EarnedOne
  <2>7. c.points - Balance[row] = Earned(more)
    <3>1. c.points = held.points + s.points /\ held.points \in Int
      BY <1>4, <1>7 DEF Credited, Account
    <3> QED
      BY <1>3, <1>4, <2>1, <2>6, <3>1
  <2>8. c.counts["tasks"] = Cardinality({b \in more : Booked(b).counter = "tasks"})
    <3>1. "tasks" \in Counters
      BY DEF Counters
    <3>2. CASE s.counter = "tasks"
      <4>1. PICK ts : ts = {b \in bs : Booked(b).counter = "tasks"} /\ IsFiniteSet(ts)
        BY <2>4, FS_Subset
      <4>2. {b \in more : Booked(b).counter = "tasks"} = ts \cup {e} /\ e \notin ts
        BY <2>2, <2>3, <3>2, <4>1
      <4>3. c.counts["tasks"] = held.counts["tasks"] + 1
        BY <1>7, <3>1, <3>2 DEF Credited
      <4> QED
        BY <2>1, <4>1, <4>2, <4>3, FS_AddElement
    <3>3. CASE s.counter # "tasks"
      <4>1. ASSUME NEW b \in booked', Booked(b).row = row  PROVE Booked(b).counter # "tasks"
        <5>1. PICK q \in Reports : \E i \in 1..Len(Shares(q)) : b = <<q, i>>
          BY <1>9 DEF BooksShape
        <5>2. PICK i \in 1..Len(Shares(q)) : b = <<q, i>>
          BY <5>1
        <5>3. Shares(q)[i].row = row /\ Booked(b) = Shares(q)[i]
          BY <4>1, <5>2 DEF Booked
        <5> QED
          BY <1>1, <1>2, <3>3, <5>3, TasksApart
      <4>2. {b \in more : Booked(b).counter = "tasks"} = {}
        BY <2>3, <4>1
      <4>3. accounts[row].counts["tasks"] = 0
        <5>1. PICK os \in SUBSET {b \in booked : Booked(b).row = row} :
                accounts[row].counts["tasks"] = Cardinality({b \in os : Booked(b).counter = "tasks"})
          BY <1>3 DEF PointsAreEarned, Adds
        <5>2. {b \in os : Booked(b).counter = "tasks"} = {}
          BY <1>5, <4>1, <5>1
        <5> QED
          BY <5>1, <5>2, FS_EmptySet
      <4>4. c.counts["tasks"] = accounts[row].counts["tasks"]
        BY <1>7, <3>1, <3>3 DEF Credited
      <4> QED
        BY <4>2, <4>3, <4>4, FS_EmptySet
    <3> QED
      BY <3>2, <3>3
  <2> QED
    BY <2>3, <2>7, <2>8 DEF AddsOf
<1>14. PointsAreEarned'
  <2>1. ASSUME NEW x \in AccountRows
        PROVE  AddsOf(booked', {}, x, accounts'[x].points - Balance[x], accounts'[x].counts["tasks"])
    <3>1. CASE x = row
      BY <1>8, <1>13, <3>1
    <3>2. CASE x # row
      <4>1. Adds(x, accounts[x].points - Balance[x], accounts[x].counts["tasks"])
        BY DEF PointsAreEarned
      <4>2. AddsOf(booked, {}, x, accounts[x].points - Balance[x], accounts[x].counts["tasks"])
        BY <4>1, AddsIsAddsOf
      <4> QED
        BY <1>5, <1>8, <3>2, <4>2, MoreBooked
    <3> QED
      BY <3>1, <3>2
  <2>2. booked' \ {} = booked'
    OBVIOUS
  <2> QED
    BY <2>1, <2>2 DEF PointsAreEarned, Adds, AddsOf
<1> QED
  BY <1>9, <1>10, <1>11, <1>12, <1>14

LEMMA EarnPreserved == ASSUME EarnInv, [AccountsNext]_accountVars  PROVE EarnInv'
<1>1. CASE UNCHANGED accountVars
  <2>1. /\ logs' = logs /\ eventChan' = eventChan /\ booker' = booker
        /\ accounts' = accounts /\ booked' = booked
    BY <1>1 DEF accountVars
  <2>2. BooksShape'
    BY <2>1 DEF EarnInv, BooksShape
  <2>3. OnePlace' /\ BookedBehind'
    BY <2>1 DEF EarnInv, OnePlace, BookedBehind
  <2>4. HeldAdds'
    BY <2>1 DEF EarnInv, HeldAdds
  <2>5. PointsAreEarned'
    BY <2>1 DEF EarnInv, PointsAreEarned, Adds
  <2> QED
    BY <2>2, <2>3, <2>4, <2>5 DEF EarnInv
<1>2. ASSUME NEW r \in Reports, EmitLog(r)  PROVE EarnInv'
  BY <1>2, LogEmitted
<1>3. ASSUME NEW w \in Bookers,
             \/ TakeReport(w) \/ FetchReport(w) \/ FetchFails(w) \/ SubmitReport(w)
             \/ StoreUpdates(w) \/ ReadCost(w) \/ ReadRow(w) \/ WriteRow(w)
             \/ BookingFails(w) \/ FindAddress(w) \/ NotifyUser(w)
      PROVE  EarnInv'
  <2> DEFINE Fields == {"report", "stage", "next", "held", "execs"}
             old == booker[w]
  <2>1. DOMAIN old = Fields /\ DOMAIN Idler = Fields /\ Idler.stage = "idle"
    BY DEF EarnInv, BooksShape, Idler
  <2>2. CASE TakeReport(w)
    BY <2>2, ReportTaken
  <2>3. CASE WriteRow(w)
    BY <2>3, RowBooked
  <2>4. CASE FetchReport(w)
    <3>1. PICK nb : nb = [old EXCEPT !.stage = "submit"]
      OBVIOUS
    <3>2. booker' = [booker EXCEPT ![w] = nb] /\ UNCHANGED <<logs, eventChan, accounts, booked>>
      BY <2>4, <3>1 DEF FetchReport
    <3>3. DOMAIN nb = Fields /\ nb.stage = "submit" /\ nb.report = old.report /\ old.stage = "fetch"
      BY <2>1, <2>4, <3>1 DEF FetchReport
    <3> QED
      BY <3>2, <3>3, WorkerSteps
  <2>5. CASE FetchFails(w) \/ BookingFails(w) \/ NotifyUser(w)
    <3>1. booker' = [booker EXCEPT ![w] = Idler] /\ UNCHANGED <<logs, eventChan, accounts, booked>>
      BY <2>5 DEF FetchFails, BookingFails, NotifyUser, DropReport
    <3> QED
      BY <2>1, <3>1, WorkerSteps
  <2>6. CASE SubmitReport(w)
    <3>1. PICK nb : nb = [old EXCEPT !.stage = IF old.report.kind = "script" THEN "store" ELSE "cost"]
      OBVIOUS
    <3>2. booker' = [booker EXCEPT ![w] = nb] /\ UNCHANGED <<logs, eventChan, accounts, booked>>
      BY <2>6, <3>1 DEF SubmitReport
    <3>3. DOMAIN nb = Fields /\ nb.stage \in {"store", "cost"} /\ nb.report = old.report /\ old.stage = "submit"
      BY <2>1, <2>6, <3>1 DEF SubmitReport
    <3> QED
      BY <3>2, <3>3, WorkerSteps
  <2>7. CASE StoreUpdates(w)
    <3>1. PICK nb : nb = [old EXCEPT !.stage = "cost"]
      OBVIOUS
    <3>2. booker' = [booker EXCEPT ![w] = nb] /\ UNCHANGED <<logs, eventChan, accounts, booked>>
      BY <2>7, <3>1 DEF StoreUpdates
    <3>3. DOMAIN nb = Fields /\ nb.stage = "cost" /\ nb.report = old.report /\ old.stage = "store"
      BY <2>1, <2>7, <3>1 DEF StoreUpdates
    <3> QED
      BY <3>2, <3>3, WorkerSteps
  <2>8. CASE ReadCost(w)
    <3>1. PICK nb : nb = [old EXCEPT !.stage = "read", !.next = 1]
      OBVIOUS
    <3>2. booker' = [booker EXCEPT ![w] = nb] /\ UNCHANGED <<logs, eventChan, accounts, booked>>
      BY <2>1, <2>8, <3>1 DEF ReadCost, EarnInv, BooksShape
    <3>3. DOMAIN nb = Fields /\ nb.stage = "read" /\ nb.next = 1 /\ nb.report = old.report /\ old.stage = "cost"
      BY <2>1, <2>8, <3>1 DEF ReadCost
    <3> QED
      BY <3>2, <3>3, WorkerSteps
  <2>9. CASE ReadRow(w)
    <3>1. PICK nb : nb = [old EXCEPT !.stage = "write", !.execs = 1, !.held = accounts[Booking(w).row]]
      OBVIOUS
    <3>2. booker' = [booker EXCEPT ![w] = nb] /\ UNCHANGED <<logs, eventChan, accounts, booked>>
      BY <2>1, <2>9, <3>1 DEF ReadRow, EarnInv, BooksShape
    <3>3. /\ DOMAIN nb = Fields /\ nb.stage = "write" /\ nb.next = old.next /\ nb.report = old.report
          /\ nb.held = accounts[Booking(w).row] /\ old.stage = "read"
      BY <2>1, <2>9, <3>1 DEF ReadRow
    <3> QED
      BY <3>2, <3>3, WorkerSteps
  <2>10. CASE FindAddress(w)
    <3>1. PICK nb \in {[old EXCEPT !.stage = "tell"], Idler} :
            booker' = [booker EXCEPT ![w] = nb] /\ UNCHANGED <<logs, eventChan, accounts, booked>>
      BY <2>10 DEF FindAddress
    <3>2. /\ DOMAIN nb = Fields /\ nb.stage \in {"tell", "idle"} /\ old.stage = "notify"
          /\ nb.stage = "tell" => nb.report = old.report
      BY <2>1, <2>10, <3>1 DEF FindAddress
    <3> QED
      BY <3>1, <3>2, WorkerSteps
  <2> QED
    BY <1>3, <2>2, <2>3, <2>4, <2>5, <2>6, <2>7, <2>8, <2>9, <2>10
<1> QED
  BY <1>1, <1>2, <1>3 DEF AccountsNext

\* PointsAreEarned: what a row of a keeper, user or job has gained is a sum of shares
\* of reports that named it, each at most once, whatever reads and writes overlap or
\* are repeated: for every number of reports, attesters, workers and retries.
THEOREM EarnedPoints == AccountsSpec => []PointsAreEarned
<1>1. EarnInv => PointsAreEarned
  BY DEF EarnInv
<1> QED
  BY <1>1, BooksInitially, EarnPreserved, PTL DEF AccountsSpec
=============================================================================
