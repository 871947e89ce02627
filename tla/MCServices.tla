-------------------------- MODULE MCServices --------------------------------
(***************************************************************************)
(* Instances for TLC of four modules that share no state with each other:  *)
(* `part` is chosen at the start and the variables of the other parts keep *)
(* their initial values, in which none of their fair actions is enabled.   *)
(***************************************************************************)
EXTENDS TaskBroadcast, CodeExecutor, KeeperExecution, ChainListener

VARIABLE part

mcVars == <<part, hubVars, execVars, runVars, listenVars>>

\* One watcher in two of the rooms of an event.
CONSTANTS w1, e1, e2, t1, t2, x1, x2
MCWanted == [w \in {w1} |-> {"job", "user"}]

Init ==
  /\ part \in {"hub", "docker", "chain", "listener"}
  /\ HubInit /\ ExecInit /\ RunInit /\ ListenInit
  /\ part # "chain" => custom = {}

Next ==
  /\ UNCHANGED part
  /\ \/ part = "hub" /\ HubNext /\ UNCHANGED <<execVars, runVars, listenVars>>
     \/ part = "docker" /\ ExecNext /\ UNCHANGED <<hubVars, runVars, listenVars>>
     \/ part = "chain" /\ RunNext /\ UNCHANGED <<hubVars, execVars, listenVars>>
     \/ part = "listener" /\ ListenNext /\ UNCHANGED <<hubVars, execVars, runVars>>

Fairness == HubFairness /\ ExecFairness /\ ListenFairness

Spec == Init /\ [][Next]_mcVars /\ Fairness

\* The variables of each module have the shapes declared there.
TypeOK == HubTypeOK /\ ExecTypeOK /\ RunTypeOK /\ ListenTypeOK
=============================================================================
