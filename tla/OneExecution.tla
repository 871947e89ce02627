---------------------------- MODULE OneExecution ----------------------------
(***************************************************************************)
(* What the execution of tasks promises to the chain and to the            *)
(* aggregator, however it is done: the action of a target is executed at   *)
(* most once, or declined and then never executed, and only a target with  *)
(* one of the two behind it is reported.                                   *)
(***************************************************************************)
CONSTANTS Targets, Transactions   \* a transaction x executes the action of x.target

VARIABLES executed, declined, reported

OnceInit == executed = {} /\ declined = {} /\ reported = {}

Executed(t) == \E x \in executed : x.target = t

Execute(x) ==
  /\ ~Executed(x.target) /\ x.target \notin declined
  /\ executed' = executed \cup {x}
  /\ UNCHANGED <<declined, reported>>

Decline(t) ==
  /\ ~Executed(t)
  /\ declined' = declined \cup {t}
  /\ UNCHANGED <<executed, reported>>

Report(t) ==
  /\ Executed(t) \/ t \in declined
  /\ reported' = reported \cup {t}
  /\ UNCHANGED <<executed, declined>>

OnceNext == \/ \E x \in Transactions : Execute(x)
            \/ \E t \in Targets : Decline(t) \/ Report(t)

OnceSpec == OnceInit /\ [][OnceNext]_<<executed, declined, reported>>
=============================================================================
