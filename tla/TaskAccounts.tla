---------------------------- MODULE TaskAccounts ----------------------------
(***************************************************************************)
(* What the task monitor books for a task when the attestation center      *)
(* reports it as submitted or rejected: the points of those who attested   *)
(* it, of the keeper that performed it and of the user, and the cost of    *)
(* its job; then the user is informed.  Several workers take events from one   *)
(* channel; a row is read and written by two queries, and a query that     *)
(* gets no answer is run again.                                            *)
(*                                                                         *)
(* Points are counted in tenths.  Every failing lookup and row that does   *)
(* not exist is a failing read.                                            *)
(***************************************************************************)
EXTENDS Integers, Sequences, FiniteSets, FiniteSetsExt, SequencesExt

CONSTANTS
  Reports,         \* the logs of the contract: records [kind, accepted, performer,
                   \* attesters, user, job, cost]
  AccountRows,     \* the rows of keepers, users and jobs
  Balance,         \* per row: its points, or cost, at the start
  RewardsBooster,  \* per row of a keeper
  Bookers,         \* processingWorkers
  ChannelSize,     \* eventBufferSize
  MaxExecs,        \* how often a query is run
  NoReport

Counters == {"attested", "executed", "tasks"}

\* Keepers, users and jobs have their rows in different tables.
ASSUME TaskAccountsAssumption ==
  /\ NoReport \notin Reports
  /\ {ChannelSize, MaxExecs} \subseteq Nat \ {0}
  /\ Balance \in [AccountRows -> Int]
  /\ DOMAIN RewardsBooster \subseteq AccountRows
  /\ \A k \in DOMAIN RewardsBooster : RewardsBooster[k] \in Nat
  /\ \A r \in Reports :
       /\ r.kind \in {"task", "script", "internal", "malformed"}
       /\ r.cost \in Nat
       /\ r.performer \in DOMAIN RewardsBooster
       /\ r.attesters \in Seq(DOMAIN RewardsBooster)
       /\ {r.user, r.job} \subseteq AccountRows \ DOMAIN RewardsBooster
       /\ \A q \in Reports : r.user # q.job

VARIABLES
  logs,       \* not polled yet
  eventChan,
  booker,     \* per worker: [report, stage, next, held, execs]
  accounts,   \* per row: [points, counts]
  submitted,  \* reports written into task_data
  booked,     \* history: the shares <<report, index>> that were written
  informed    \* reports the user was told of

accountVars == <<logs, eventChan, booker, accounts, submitted, booked, informed>>

Unread == [points |-> 0, counts |-> [c \in Counters |-> 0]]
Idler == [report |-> NoReport, stage |-> "idle", next |-> 0, held |-> Unread, execs |-> 0]

AccountsInit ==
  /\ logs = Reports
  /\ eventChan = <<>>
  /\ booker = [w \in Bookers |-> Idler]
  /\ accounts = [r \in AccountRows |-> [Unread EXCEPT !.points = Balance[r]]]
  /\ submitted = {}
  /\ booked = {}
  /\ informed = {}

-----------------------------------------------------------------------------
Share(row, points, counter) == [row |-> row, points |-> points, counter |-> counter]

Attested(r, k) == Share(k, 10 * RewardsBooster[k] * r.cost, "attested")

\* A rejected task costs the performer a tenth of what it would have earned.
Performed(r) ==
  LET reward == RewardsBooster[r.performer] * r.cost
  IN  Share(r.performer, IF r.accepted THEN 10 * reward ELSE -reward, "executed")

\* What UpdateKeeperPointsInDatabase books, in its order.
Shares(r) ==
  [i \in 1..Len(r.attesters) |-> Attested(r, r.attesters[i])]
  \o <<Performed(r), Share(r.user, 10 * r.cost, "tasks"), Share(r.job, 10 * r.cost, "none")>>

\* A row a share was added to: only its points and one counter are written.
Credited(row, held, share) ==
  [points |-> held.points + share.points,
   counts |-> [c \in Counters |-> IF c = share.counter THEN held.counts[c] + 1 ELSE row.counts[c]]]

Booking(w) == Shares(booker[w].report)[booker[w].next]

-----------------------------------------------------------------------------
(* emitChainEventFromLog: a log that cannot be parsed is skipped, and so   *)
(* is one that finds the channel full.                                     *)
EmitLog(r) ==
  /\ r \in logs
  /\ logs' = logs \ {r}
  /\ eventChan' = IF r.kind = "malformed" \/ Len(eventChan) = ChannelSize
                  THEN eventChan ELSE Append(eventChan, r)
  /\ UNCHANGED <<booker, accounts, submitted, booked, informed>>

\* ProcessTaskEvent: the tasks of the network itself are skipped.
TakeReport(w) ==
  /\ booker[w].stage = "idle" /\ eventChan # <<>>
  /\ eventChan' = Tail(eventChan)
  /\ booker' = IF Head(eventChan).kind = "internal" THEN booker
               ELSE [booker EXCEPT ![w].report = Head(eventChan), ![w].stage = "fetch"]
  /\ UNCHANGED <<logs, accounts, submitted, booked, informed>>

DropReport(w) == booker' = [booker EXCEPT ![w] = Idler]

\* The document of the task is fetched from IPFS; its fees are the cost.  That
\* the task moves to the completed stream is in TaskStreams.
FetchReport(w) ==
  /\ booker[w].stage = "fetch"
  /\ booker' = [booker EXCEPT ![w].stage = "submit"]
  /\ UNCHANGED <<logs, eventChan, accounts, submitted, booked, informed>>

FetchFails(w) ==
  /\ booker[w].stage = "fetch"
  /\ DropReport(w)
  /\ UNCHANGED <<logs, eventChan, accounts, submitted, booked, informed>>

\* UpdateTaskSubmissionData; that it fails is only logged.
SubmitReport(w) ==
  /\ booker[w].stage = "submit"
  /\ \E written \in {{}, {booker[w].report}} : submitted' = submitted \cup written
  /\ booker' = [booker EXCEPT ![w].stage = IF booker[w].report.kind = "script" THEN "store" ELSE "cost"]
  /\ UNCHANGED <<logs, eventChan, accounts, booked, informed>>

\* UpdateScriptStorage hands over its values in another order than the query
\* names them, so that the first key fails: nothing is stored.
StoreUpdates(w) ==
  /\ booker[w].stage = "store"
  /\ booker' = [booker EXCEPT ![w].stage = "cost"]
  /\ UNCHANGED <<logs, eventChan, accounts, submitted, booked, informed>>

\* The job of the task, before anything is booked.
ReadCost(w) ==
  /\ booker[w].stage = "cost"
  /\ booker' = [booker EXCEPT ![w].stage = "read", ![w].next = 1]
  /\ UNCHANGED <<logs, eventChan, accounts, submitted, booked, informed>>

(* A faulty variant: the row of the performer is not read again, the       *)
(* variables still hold what was written for the last attester.            *)
ReadUnlessPerformer(w) ==
  /\ booker[w].stage = "read"
  /\ LET s == Booking(w)
         last == Attested(booker[w].report, Last(booker[w].report.attesters))
     IN  booker' = [booker EXCEPT ![w].stage = "write", ![w].execs = 1,
                      ![w].held = IF s.counter = "executed" THEN accounts[last.row] ELSE accounts[s.row]]
  /\ UNCHANGED <<logs, eventChan, accounts, submitted, booked, informed>>

ReadRow(w) ==
  /\ booker[w].stage = "read"
  /\ booker' = [booker EXCEPT ![w].stage = "write", ![w].execs = 1,
                              ![w].held = accounts[Booking(w).row]]
  /\ UNCHANGED <<logs, eventChan, accounts, submitted, booked, informed>>

\* A lookup fails, or a query after its retries: what was booked so far stays,
\* and the user is not informed.
BookingFails(w) ==
  /\ booker[w].stage \in {"cost", "read", "write"}
  /\ DropReport(w)
  /\ UNCHANGED <<logs, eventChan, accounts, submitted, booked, informed>>

\* Either the answer arrives, or the query is run again with the same values.
WriteRow(w) ==
  LET s == Booking(w)
      done == booker[w].next = Len(Shares(booker[w].report))
  IN  /\ booker[w].stage = "write"
      /\ accounts' = [accounts EXCEPT ![s.row] = Credited(@, booker[w].held, s)]
      /\ booked' = booked \cup {<<booker[w].report, booker[w].next>>}
      /\ \/ booker' = [booker EXCEPT ![w].stage = IF done THEN "notify" ELSE "read",
                                     ![w].next = IF done THEN 0 ELSE @ + 1,
                                     ![w].held = Unread, ![w].execs = 0]
         \/ /\ booker[w].execs < MaxExecs
            /\ booker' = [booker EXCEPT ![w].execs = @ + 1]
      /\ UNCHANGED <<logs, eventChan, submitted, informed>>

\* The address is looked up over the task, its job and the user.
FindAddress(w) ==
  /\ booker[w].stage = "notify"
  /\ \E found \in {[booker[w] EXCEPT !.stage = "tell"], Idler} :
       booker' = [booker EXCEPT ![w] = found]
  /\ UNCHANGED <<logs, eventChan, accounts, submitted, booked, informed>>

\* By the webhook and by mail, whichever is configured and succeeds.
NotifyUser(w) ==
  /\ booker[w].stage = "tell"
  /\ \E sent \in {{}, {booker[w].report}} : informed' = informed \cup sent
  /\ DropReport(w)
  /\ UNCHANGED <<logs, eventChan, accounts, submitted, booked>>

AccountsNext ==
  \/ \E r \in Reports : EmitLog(r)
  \/ \E w \in Bookers :
       \/ TakeReport(w) \/ FetchReport(w) \/ FetchFails(w) \/ SubmitReport(w)
       \/ StoreUpdates(w) \/ ReadCost(w) \/ ReadRow(w) \/ WriteRow(w)
       \/ BookingFails(w) \/ FindAddress(w) \/ NotifyUser(w)

AccountsSpec == AccountsInit /\ [][AccountsNext]_accountVars

-----------------------------------------------------------------------------
AccountsTypeOK ==
  /\ logs \subseteq Reports /\ submitted \subseteq Reports
  /\ eventChan \in Seq(Reports) /\ Len(eventChan) <= ChannelSize
  /\ \A w \in Bookers :
       /\ booker[w].report \in Reports \cup {NoReport}
       /\ booker[w].stage \in {"idle", "fetch", "submit", "store", "cost", "read", "write", "notify", "tell"}
       /\ booker[w].execs \in 0..MaxExecs
  /\ \A r \in AccountRows : accounts[r].points \in Int /\ accounts[r].counts \in [Counters -> Nat]
  /\ informed \subseteq Reports

Booked(b) == Shares(b[1])[b[2]]
Earned(bs) == MapThenSumSet(LAMBDA b : Booked(b).points, bs)

(* Some of the shares booked for a row have these points and tasks.        *)
Adds(row, points, tasks) ==
  \E bs \in SUBSET {b \in booked : Booked(b).row = row} :
    /\ points = Earned(bs)
    /\ tasks = Cardinality({b \in bs : Booked(b).counter = "tasks"})

(* UpdateKeeperPointsInDatabase reads rows and writes them whole, beside   *)
(* other workers and with retries: in every interleaving the points of a row *)
(* are what it started with and shares of events that named it, each at    *)
(* most once, and the tasks of a user are as many as its shares.           *)
PointsAreEarned ==
  \A r \in AccountRows : Adds(r, accounts[r].points - Balance[r], accounts[r].counts["tasks"])
=============================================================================
