---------------------------- MODULE Performances ----------------------------
(***************************************************************************)
(* A request from the dispatcher to the verdicts of the validators: one    *)
(* signature over the request, a message per task, the performer's checks, *)
(* its action, proof and upload, and what another keeper makes of the      *)
(* document; with the performer's start, check-ins and shutdown.  Times    *)
(* are whole units; how a transaction gets mined is in KeeperExecution.    *)
(***************************************************************************)
EXTENDS Integers, Sequences

CONSTANTS
  SubmittedRequests,    \* requests of the schedulers: sequences of tasks
  Validators,
  StaticLead,           \* how long before its time a static task is started,
  DynamicLead,          \* and one with a script
  TimeTolerance, ExpirationTolerance,
  MaxClock, MaxPerfFaults

ASSUME TimesAssumption ==
  {StaticLead, DynamicLead, TimeTolerance, ExpirationTolerance, MaxClock, MaxPerfFaults} \subseteq Nat

VARIABLES
  request,      \* the tasks of the request, which is signed as a whole
  stage,        \* per task: how far the performer is with it
  chain,        \* per task: its transaction on the chain, if there is one
  document,     \* per task: what the performer has written down about it
  announced,    \* the tasks whose document the aggregator knows
  reported,     \* the tasks reported to the task monitor as failed
  verdict,      \* per validator and task: the next check, or its verdict
  troubled,     \* history: the verdicts that a failing call had a part in
  keeper,       \* the performer's process
  clock, perfFaults

perfVars == <<request, stage, chain, document, announced, reported, verdict, troubled, keeper,
              clock, perfFaults>>

Positions == DOMAIN request
None_ == [at |-> 0, ok |-> TRUE, sent |-> FALSE]
Timed_(t) == t.kind \in {"static", "dynamic"}
PerfFault == perfFaults < MaxPerfFaults /\ perfFaults' = perfFaults + 1

-----------------------------------------------------------------------------
(* Conditions: the scheduler's, by which a task comes to be, and the one   *)
(* of every keeper.                                                        *)

Triggers(c) ==
  CASE c.type \in {"greater", "greater_equal"} -> c.value > c.lower \/ (c.type = "greater_equal" /\ c.value = c.lower)
    [] c.type \in {"less", "less_equal"}       -> c.value < c.upper \/ (c.type = "less_equal" /\ c.value = c.upper)
    [] c.type = "equals"                       -> c.value = c.lower
    [] c.type = "not_equals"                   -> c.value # c.lower
    [] c.type = "between"                      -> c.lower <= c.value /\ c.value <= c.upper

\* Every type but `between` is held against the upper limit.
HoldsFor(c) ==
  CASE c.type = "greater"       -> c.value > c.upper
    [] c.type = "greater_equal" -> c.value >= c.upper
    [] c.type = "less"          -> c.value < c.upper
    [] c.type = "less_equal"    -> c.value <= c.upper
    [] c.type = "equals"        -> c.value = c.upper
    [] c.type = "not_equals"    -> c.value # c.upper
    [] c.type = "between"       -> c.lower <= c.value /\ c.value <= c.upper

ValidTrigger(t) ==
  /\ t.exp >= t.next
  /\ t.kind = "event" => t.seen <= t.exp + TimeTolerance
  /\ t.kind = "condition" => HoldsFor(t.condition)

\* The signature is checked against a request of the one task.
ValidSignature(i, signed) == signed = <<request[i]>>

-----------------------------------------------------------------------------
(* The performer.                                                          *)

InProgress == {"received", "taken", "acting", "performed", "proved", "uploaded"}
AtWork == keeper \in {"up", "closing", "closed", "draining"}
Serving == keeper \in {"up", "closing", "closed"}
MayReport == Serving
Goto(i, s) == stage' = [stage EXCEPT ![i] = s]

\* The tasks are forwarded one by one; one that fails is passed over.
Dispatch(i) ==
  /\ stage[i] = "queued" /\ \A j \in Positions : j < i => stage[j] # "queued"
  /\ \/ Goto(i, "sent") /\ UNCHANGED perfFaults
     \/ Goto(i, "undelivered") /\ PerfFault
  /\ UNCHANGED <<request, chain, document, announced, reported, verdict, troubled, keeper, clock>>

\* The message of the aggregator names this keeper as the performer.
Receive(i) ==
  /\ stage[i] = "sent" /\ Serving
  /\ Goto(i, "received")
  /\ UNCHANGED <<request, chain, document, announced, reported, verdict, troubled, keeper, clock,
                 perfFaults>>

\* The manager's signature and the trigger are checked; for an event, and for
\* the nonce and the connection, the chain must answer.
Take(i) ==
  /\ stage[i] = "received" /\ AtWork
  /\ \/ /\ Goto(i, IF ValidSignature(i, request) /\ ValidTrigger(request[i]) THEN "taken" ELSE "refused")
        /\ UNCHANGED perfFaults
     \/ Goto(i, "refused") /\ PerfFault
  /\ UNCHANGED <<request, chain, document, announced, reported, verdict, troubled, keeper, clock>>

Lead(t) == CASE t.kind = "static" -> StaticLead [] t.kind = "dynamic" -> DynamicLead [] OTHER -> 0
Due(t) == Timed_(t) => clock + Lead(t) >= t.next

\* The script runs and the transaction is sent; a custom script may say that
\* there is nothing to execute, which counts as performed.
Starting(i) == stage[i] = "taken" /\ Due(request[i]) /\ keeper \in {"up", "closing"}
Panics(i) == request[i].kind = "custom" /\ request[i].execute
StartAction(i) ==
  /\ Starting(i) /\ ~Panics(i)
  /\ Goto(i, IF request[i].execute THEN "acting" ELSE "performed")
  /\ UNCHANGED <<request, chain, document, announced, reported, verdict, troubled, keeper, clock,
                 perfFaults>>

\* What is under way is lost with the process.
ProcessEnds ==
  /\ keeper' = "exited"
  /\ stage' = [i \in Positions |-> IF stage[i] \in InProgress THEN "lost" ELSE stage[i]]
  /\ UNCHANGED <<request, chain, document, announced, reported, verdict, troubled, clock, perfFaults>>

\* When there is something to execute, a custom task has no cost to pack into
\* the call, and Pack panics on the nil pointer.
KeeperPanics(i) == Starting(i) /\ Panics(i) /\ ProcessEnds

\* It is mined, or reverts, which the performer only notes.
ActionMined(i) ==
  /\ stage[i] = "acting" /\ AtWork
  /\ \E ok \in BOOLEAN : chain' = [chain EXCEPT ![i] = [at |-> clock, ok |-> ok, sent |-> TRUE]]
  /\ Goto(i, "performed")
  /\ UNCHANGED <<request, document, announced, reported, verdict, troubled, keeper, clock, perfFaults>>

\* A failure after the checks is reported by a call of its own, which may be
\* lost and finds the client closed late in a shutdown.
FailTask(i) ==
  /\ Goto(i, "failed")
  /\ \/ MayReport /\ reported' = reported \cup {i}
     \/ UNCHANGED reported

ActionFails(i) ==
  /\ FailTask(i)
  /\ \/ stage[i] \in {"taken", "acting"} /\ AtWork /\ PerfFault
     \/ stage[i] = "taken" /\ keeper \in {"closed", "draining"} /\ UNCHANGED perfFaults
  /\ UNCHANGED <<request, chain, document, announced, verdict, troubled, keeper, clock>>

\* What the hash covers: the arguments as they are held.  Read back from JSON a
\* long number is rounded, and a struct, with its fields in the order of the
\* ABI, is a map, with its keys sorted.  Signatures are made over what was read
\* back.
Reread(a) == CASE a = "long" -> "rounded" [] a = "tuple" -> "sorted" [] OTHER -> a
Hash(d) == <<d.task, d.tx, d.args>>
Content(d) == <<d.task, d.tx, Reread(d.args), d.proof>>
NoDocument == [task |-> 0, tx |-> None_, args |-> "short", proof |-> << >>, signature |-> << >>]

TLSFails == PerfFault

\* The hash is taken next to a TLS connection; without one the proof is empty
\* and the performer goes on.
DocumentOf(i) ==
  [NoDocument EXCEPT !.task = request[i], !.tx = chain[i], !.args = request[i].args]
SignedDocument(d) == [d EXCEPT !.signature = Content(d)]
(* A faulty variant: the hash is taken before the transaction is noted.    *)
ProveEarly(i) ==
  /\ stage[i] = "performed" /\ AtWork
  /\ LET d == DocumentOf(i) IN
     document' = [document EXCEPT ![i] = SignedDocument([d EXCEPT !.proof = Hash([d EXCEPT !.tx = None_])])]
  /\ UNCHANGED perfFaults
  /\ Goto(i, "proved")
  /\ UNCHANGED <<request, chain, announced, reported, verdict, troubled, keeper, clock>>

Prove(i) ==
  /\ stage[i] = "performed" /\ AtWork
  /\ LET d == DocumentOf(i) IN
     \/ /\ document' = [document EXCEPT ![i] = SignedDocument([d EXCEPT !.proof = Hash(d)])]
        /\ UNCHANGED perfFaults
     \/ document' = [document EXCEPT ![i] = SignedDocument(d)] /\ TLSFails
  /\ Goto(i, "proved")
  /\ UNCHANGED <<request, chain, announced, reported, verdict, troubled, keeper, clock>>

Upload(i) ==
  /\ stage[i] = "proved" /\ AtWork
  /\ \/ Goto(i, "uploaded") /\ UNCHANGED <<reported, perfFaults>>
     \/ FailTask(i) /\ PerfFault
  /\ UNCHANGED <<request, chain, document, announced, verdict, troubled, keeper, clock>>

\* The aggregator gets the document; when only its answer is lost, the task
\* is reported as failed although the validators will see it.
Announce(i) ==
  /\ stage[i] = "uploaded" /\ AtWork
  /\ \/ Goto(i, "announced") /\ announced' = announced \cup {i} /\ UNCHANGED <<reported, perfFaults>>
     \/ FailTask(i) /\ PerfFault /\ announced' \in {announced, announced \cup {i}}
  /\ UNCHANGED <<request, chain, document, verdict, troubled, keeper, clock>>

-----------------------------------------------------------------------------
(* A validator.                                                            *)

ReadBack(d) == [d EXCEPT !.args = Reread(@)]

Conclude(v, i, next) == verdict' = [verdict EXCEPT ![v][i] = next]
Check(v, i, step, passes, next) ==
  /\ verdict[v][i] = step
  /\ Conclude(v, i, IF passes THEN next ELSE "rejected")
  /\ UNCHANGED <<request, stage, chain, document, announced, reported, troubled, keeper, clock, perfFaults>>

FetchDocument(v, i) == i \in announced /\ Check(v, i, "none", TRUE, "trigger")
CheckTrigger(v, i) ==
  Check(v, i, "trigger", ValidSignature(i, request) /\ ValidTrigger(document[i].task), "action")

InTime(t, tx) ==
  /\ tx.at <= t.exp + ExpirationTolerance
  /\ Timed_(t) => tx.at <= t.next + TimeTolerance
(* A faulty variant: a reverted transaction is taken for an action.        *)
CheckActionMined(v, i) ==
  LET d == document[i] IN
  Check(v, i, "action", d.tx.sent /\ InTime(d.task, chain[i]), "proof")
CheckAction(v, i) ==
  LET d == document[i] IN
  Check(v, i, "action", d.tx.sent /\ chain[i].ok /\ InTime(d.task, chain[i]), "proof")

CheckProof(v, i) ==
  LET d == ReadBack(document[i]) IN
  Check(v, i, "proof", d.proof # << >> /\ Hash(d) = d.proof, "signature")
CheckSignature(v, i) ==
  LET d == ReadBack(document[i]) IN
  Check(v, i, "signature", d.signature = Content(d), "accepted")

\* A call of the validator fails: the document, the chain or the TLS host
\* cannot be reached, and that is a rejection too.
ValidationFails(v, i) ==
  /\ i \in announced /\ verdict[v][i] \in {"none", "trigger", "action", "proof"}
  /\ PerfFault
  /\ Conclude(v, i, "rejected")
  /\ troubled' = troubled \cup {<<v, i>>}
  /\ UNCHANGED <<request, stage, chain, document, announced, reported, keeper, clock>>

-----------------------------------------------------------------------------
(* The performer's process.                                                *)

Unmoved == UNCHANGED <<request, chain, document, announced, reported, verdict, troubled, clock>>

CheckInAnswers == {"configured", "unverified", "failed"}
CheckedIn(answer) ==
  /\ IF answer = "configured" THEN UNCHANGED perfFaults ELSE PerfFault
  /\ UNCHANGED stage /\ Unmoved

\* The first check-in must succeed; a later one that fails is logged, unless
\* it says that the keeper is not verified.
FirstCheckIn ==
  /\ keeper = "starting"
  /\ \E answer \in CheckInAnswers :
       keeper' = (IF answer = "configured" THEN "up" ELSE "exited") /\ CheckedIn(answer)
LaterCheckIn ==
  /\ keeper = "up"
  /\ \E answer \in CheckInAnswers \ {"configured"} :
       keeper' = (IF answer = "unverified" THEN "closing" ELSE "up") /\ CheckedIn(answer)
Interrupt == keeper = "up" /\ keeper' = "closing" /\ UNCHANGED <<stage, perfFaults>> /\ Unmoved

\* The executor is closed, then the client of the task monitor, then the server
\* waits for its handlers.
CloseClients ==
  /\ \/ keeper = "closing" /\ keeper' = "closed"
     \/ keeper = "closed" /\ keeper' = "draining"
  /\ UNCHANGED <<stage, perfFaults>> /\ Unmoved

\* The process ends when the handlers are done or the timeout is over.
ExitProcess == keeper \in {"closing", "closed", "draining"} /\ ProcessEnds

ClockTicks ==
  /\ clock < MaxClock
  /\ clock' = clock + 1
  /\ UNCHANGED <<request, stage, chain, document, announced, reported, verdict, troubled, keeper, perfFaults>>

PerfInit ==
  /\ request \in {r \in SubmittedRequests :
                    \A i \in DOMAIN r : r[i].kind = "condition" => Triggers(r[i].condition)}
  /\ stage = [i \in Positions |-> "queued"]
  /\ chain = [i \in Positions |-> None_]
  /\ document = [i \in Positions |-> NoDocument]
  /\ announced = {} /\ reported = {} /\ troubled = {}
  /\ verdict = [v \in Validators |-> [i \in Positions |-> "none"]]
  /\ keeper = "starting"
  /\ clock = 0 /\ perfFaults = 0

PerfNext ==
  \/ \E i \in Positions :
       \/ Dispatch(i) \/ Receive(i) \/ Take(i) \/ StartAction(i) \/ KeeperPanics(i)
       \/ ActionMined(i) \/ ActionFails(i) \/ Prove(i) \/ Upload(i) \/ Announce(i)
       \/ \E v \in Validators :
            \/ FetchDocument(v, i) \/ CheckTrigger(v, i) \/ CheckAction(v, i)
            \/ CheckProof(v, i) \/ CheckSignature(v, i) \/ ValidationFails(v, i)
  \/ FirstCheckIn \/ LaterCheckIn \/ Interrupt \/ CloseClients \/ ExitProcess \/ ClockTicks

PerfSpec == PerfInit /\ [][PerfNext]_perfVars

-----------------------------------------------------------------------------
PerfTypeOK ==
  /\ request \in SubmittedRequests
  /\ announced \subseteq Positions /\ reported \subseteq Positions
  /\ troubled \subseteq Validators \X Positions
  /\ keeper \in {"starting", "up", "closing", "closed", "draining", "exited"}
  /\ clock \in 0..MaxClock /\ perfFaults \in 0..MaxPerfFaults

\* A task that a validator accepts was performed: the manager signed it alone,
\* its trigger holds for a keeper, and its transaction is on the chain, went
\* through and came within the tolerances.
AcceptedIsDone ==
  \A v \in Validators, i \in Positions :
    verdict[v][i] = "accepted" =>
      /\ request = <<request[i]>> /\ ValidTrigger(request[i])
      /\ chain[i].sent /\ chain[i].ok /\ InTime(request[i], chain[i])

\* A validator whose calls succeed rejects a performance only because the
\* transaction reverted or came late, because a custom script found nothing to
\* do, because the performer got no proof, or because the arguments do not
\* survive JSON: a long number among them is rounded, and a struct whose fields
\* are not in alphabetical order comes back with its keys sorted.
RejectedForCause ==
  \A v \in Validators, i \in Positions :
    verdict[v][i] = "rejected" /\ <<v, i>> \notin troubled =>
      \/ ~chain[i].ok \/ ~InTime(request[i], chain[i])
      \/ ~request[i].execute
      \/ document[i].proof = << >>
      \/ request[i].args \in {"long", "tuple"}
=============================================================================
