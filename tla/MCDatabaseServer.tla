-------------------------- MODULE MCDatabaseServer --------------------------
(***************************************************************************)
(* Instances for TLC of what is kept in the database, of the Redis client  *)
(* and of the values that conditions are about.  The parts share no state  *)
(* here, so a behaviour is about one of them: `part` is chosen at the      *)
(* start, the variables of the others keep their initial values, and the   *)
(* state graph is the union of the parts' graphs instead of their product. *)
(***************************************************************************)
EXTENDS JobListings, TimeJobs, AccountStore, TaskFees, TaskAccounts, RedisClient,
        ConditionValues, Requests, LogRotation

VARIABLE part

mcVars == <<part, jobVars, listVars, timeVars, acctVars, feeVars, accountVars, redisVars,
            valueVars, requestVars, logVars>>

(* The job API: a batch of a time job and an event job, a second POST, one *)
(* DELETE and one PUT.                                                     *)
CONSTANTS time, event, batch, single, drop1, edit1
MCKind == [j \in {time, event} |-> IF j = time THEN "time" ELSE "event"]
MCBatch == [p \in {batch, single} |-> IF p = batch THEN <<time, event>> ELSE <<event>>]
MCWorth == [j \in {time, event} |-> IF j = time THEN 1 ELSE 2]
MCDropOf == [d \in {drop1} |-> event]
MCEditOf == [e \in {edit1} |-> time]

(* One listing; the jobs are of two chains.                                *)
CONSTANTS listed, chain1, chain2
MCChainOf == [j \in {time, event} |-> IF j = time THEN chain1 ELSE chain2]

(* The time scheduler: a time job with two executions before it expires,   *)
(* and a custom job that expires early.                                    *)
CONSTANTS timed, custom, foreign
MCFirstRun == [j \in {timed, custom} |-> 2]
MCInterval == [j \in {timed, custom} |-> 2]
MCExpiry == [j \in {timed, custom} |-> IF j = timed THEN 4 ELSE 1]

(* Keepers a and b register, b also by the form, and the chat id of a is   *)
(* the keeper id b may get.  One API key with a limit of one.              *)
CONSTANTS a, b, key
MCSignupOf == << [keeper |-> a, form |-> FALSE], [keeper |-> b, form |-> FALSE],
                 [keeper |-> b, form |-> TRUE] >>
MCRewardOf == << [id |-> 2, column |-> "points", amount |-> 2],
                 [id |-> 2, column |-> "points", amount |-> 1] >>
MCChatOf == << [keeper |-> a, chat |-> 2] >>
MCLimit == [k \in {key} |-> 1]
MCCallOf == <<key, key, key>>

CONSTANTS u1, u2, k1, k2, j1, w1, w2

(* Every request, and markets that differ from a fair one in up to two     *)
(* respects; the weeks end in the block to come, which has no tips.        *)
MCQuotes ==
  {[kind |-> k, scripts |-> s, contract |-> c, sender |-> TRUE] :
     k \in {"static", "custom", "unknown"}, s \in {{u1}}, c \in BOOLEAN}
  \cup {[kind |-> "dynamic", scripts |-> s, contract |-> c, sender |-> s # {u2}] :
          s \in SUBSET {u1, u2}, c \in BOOLEAN}
Block(x, y) == [base |-> x, tip |-> y]
Weeks ==
  LET steady == <<Block(1, 1), Block(1, 0), Block(1, -1)>>
      rising == <<Block(3, 1), Block(2, 2), Block(3, -1)>>
      dead == <<Block(0, 1), Block(0, -1)>>
  IN  {<<>>, <<steady>>, <<rising, steady>>, <<steady, rising, rising>>, <<dead>>, <<dead, rising>>,
       <<steady, Failed>>, <<rising, dead, Failed>>}
Fair == [rate |-> 2, fits |-> TRUE, client |-> TRUE, gas |-> 2, history |-> <<>>,
         now |-> 2, later |-> 2, aggregator |-> 1]
MCMarkets ==
  {[Fair EXCEPT !.rate = r, !.later = l] : r \in {0, 1, 2, Failed}, l \in {2, 9}}
  \cup {[Fair EXCEPT !.history = h, !.later = l] : h \in Weeks, l \in {1, 2, 3, 4, 5, 6, 9, Failed}}
  \cup {[Fair EXCEPT !.history = h, !.now = Failed] : h \in Weeks}
  \cup {[Fair EXCEPT !.fits = f, !.client = c, !.gas = g, !.aggregator = p] :
          f \in BOOLEAN, c \in BOOLEAN, g \in {2, Failed}, p \in {1, Failed}}

(* Two tasks of one user and job that the same keepers attest; the second  *)
(* keeper has points already.                                              *)
Report(sort, good, attesters, cost) ==
  [kind |-> sort, accepted |-> good, performer |-> k1, attesters |-> attesters,
   user |-> u1, job |-> j1, cost |-> cost]
MCReports == {Report("task", TRUE, <<k2>>, 1), Report("script", FALSE, <<k2, k1>>, 2)}
MCBalance == [r \in {k1, k2, u1, j1} |-> IF r = k2 THEN 500 ELSE 0]
MCBooster == [k \in {k1, k2} |-> 1]

(* Two callers of the Redis client, with some pairs of programs.           *)
CONSTANTS c1, c2, g1, g2
S(name) == [name |-> name, arg |-> g1]
Locking == <<S("Acquire"), S("Release")>>
Pair(p, q) == [c \in {c1, c2} |-> IF c = c1 THEN p ELSE q]
MCPrograms ==
  {Pair(Locking, Locking),
   Pair(<<S("CreateStreamIfNotExists"), S("Register"), S("XReadGroup")>>,
        <<S("Register"), S("XReadGroup"), S("XAck")>>),
   Pair(<<S("CreateStreamWithConsumerGroup"), S("XAdd"), S("RefreshStreamTTL")>>,
        <<S("Register"), S("XTrim")>>),
   Pair(<<S("HSet"), S("HGetWithExists"), S("HDelWithCount")>>,
        <<S("ZAddWithExists"), S("ZRem"), S("ScanAll")>>),
   Pair(<<S("Set"), S("Get"), S("DelWithCount")>>, <<S("PerformHealthCheck"), S("HGet")>>)}

(* Documents with a number where one is looked for, elsewhere or nowhere,  *)
(* and every type of condition; the first document is one of two.          *)
Num(n) == [k |-> "number", n |-> n]
Txt(n) == [k |-> "text", n |-> n]
Obj(f) == [k |-> "object", f |-> f]
Arr(items) == [k |-> "array", items |-> items]
MCDocuments ==
  {Num(0), Num(3), Txt(3), Txt(None), Txt(NaN), [k |-> "null"], [k |-> "junk"], Arr(<<Num(3)>>),
   Obj([value |-> Num(0)]), Obj([value |-> Num(0), price |-> Num(3)]),
   Obj([rate |-> Num(2), price |-> Num(3), result |-> [k |-> "null"]]),
   Obj([usd |-> Num(1), data |-> Arr(<<Num(2), Num(3)>>)]),
   Obj([selected_key_route |-> Txt(None), price |-> Num(3)]),
   Obj([eth |-> Obj([usd |-> Num(3)])]), Obj([eth |-> Obj([usd |-> Txt(2)]), usd |-> Num(3)])}
WatchJob(route, type, recurring) ==
  [route |-> route, type |-> type, lower |-> 2, upper |-> 3, recurring |-> recurring]
MCWatchJobs ==
  {WatchJob(<<>>, type, TRUE) : type \in Known \cup {"unknown"}}
  \cup {WatchJob(route, "greater_than", TRUE) : route \in {<<"eth", "usd">>, <<"data", "1">>}}
  \cup {WatchJob(<<>>, "equals", FALSE)}

(* Requests for routes with and without the middlewares, let pass and      *)
(* refused by either, that get one context after the other; contexts share *)
(* nothing.                                                                *)
CONSTANTS q1, q2, q3, x1
MCRoute == [r \in {q1, q2, q3} |-> [key |-> r # q3, body |-> r # q2]]

Init ==
  /\ JobInit /\ ListingsInit /\ TimeInit /\ AcctInit /\ FeeInit /\ AccountsInit /\ RedisInit /\ ValuesInit
  /\ RequestsInit /\ RotationInit
  /\ part \in {"jobs", "listings", "polls", "edits", "tasks", "keepers", "keys", "fees", "accounts", "redis", "values", "requests", "logs"}
  /\ part # "fees" =>
       quote = [kind |-> "static", scripts |-> {u1}, contract |-> TRUE, sender |-> TRUE]
  /\ part # "redis" => program[c2] = Locking
  /\ document \in {Num(0), Num(3)}
  /\ part # "values" => document = Num(0) /\ watchJob = WatchJob(<<>>, "equals", FALSE)

rowVars == <<jobVars, timeVars, acctVars, feeVars, accountVars>>
otherVars == <<listVars, redisVars, valueVars, requestVars, logVars>>

JobsMove == JobNext /\ UNCHANGED <<timeVars, acctVars, feeVars, accountVars, otherVars>>
TimeMoves == TimeNext /\ UNCHANGED <<jobVars, acctVars, feeVars, accountVars, otherVars>>
AcctIdle == UNCHANGED <<jobVars, timeVars, feeVars, accountVars, otherVars>>

\* Polls with failures, polls beside updates and deletions by the user, and polls
\* beside the task rows of the condition scheduler are three parts.  The listings
\* have failures of their own.  q2 comes before q3, which are both refused.
Next ==
  /\ UNCHANGED part
  /\ \/ part = "jobs" /\ JobsMove
     \/ /\ part = "listings"
        /\ \/ JobsMove /\ UNCHANGED <<edit, expired, jobFaults>>
           \/ ListingsNext /\ UNCHANGED <<rowVars, redisVars, valueVars, requestVars, logVars>>
     \/ part = "polls" /\ TimeMoves /\ UNCHANGED <<edits, removed, other>>
     \/ part = "edits" /\ TimeMoves /\ UNCHANGED <<timeFaults, other>>
     \/ part = "tasks" /\ TimeMoves /\ UNCHANGED <<timeFaults, edits, removed>>
     \/ part = "keepers" /\ KeepersNext /\ AcctIdle
     \/ part = "keys" /\ KeysNext /\ AcctIdle
     \/ /\ part = "fees" /\ FeeNext
        /\ UNCHANGED <<jobVars, timeVars, acctVars, accountVars, otherVars>>
     \/ /\ part = "accounts" /\ AccountsNext
        /\ UNCHANGED <<jobVars, timeVars, acctVars, feeVars, otherVars>>
     \/ part = "redis" /\ RedisNext /\ UNCHANGED <<rowVars, listVars, valueVars, requestVars, logVars>>
     \/ part = "values" /\ ValuesNext /\ UNCHANGED <<rowVars, listVars, redisVars, requestVars, logVars>>
     \/ part = "requests" /\ RequestsNext /\ (outer[q2] = "new" => outer'[q3] = "new")
        /\ UNCHANGED <<rowVars, listVars, redisVars, valueVars, logVars>>
     \/ part = "logs" /\ RotationNext /\ UNCHANGED <<rowVars, listVars, redisVars, valueVars, requestVars>>

Spec == Init /\ [][Next]_mcVars

\* The variables of each module have the shapes declared there.
TypeOK ==
  /\ JobTypeOK /\ TimeTypeOK /\ AcctTypeOK /\ FeeTypeOK /\ AccountsTypeOK
  /\ RedisTypeOK /\ ValuesTypeOK /\ ListingTypeOK /\ RequestTypeOK /\ LogTypeOK
=============================================================================
