----------------------------- MODULE RedisClient -----------------------------
(***************************************************************************)
(* The Redis client that the task dispatcher and the task monitor share    *)
(* (pkg/client/redis).  Callers call its methods one after the other; each *)
(* method runs one or two commands on the server, repeats them after some  *)
(* errors, and takes the connection from c.redisClient at every attempt.   *)
(* A routine of the client pings the server and replaces the connection    *)
(* when it gets no answer.  The managers of the task streams register      *)
(* consumer groups through it and remember which ones they registered.     *)
(*                                                                         *)
(* The server keeps the key of a lock, another key, one field of a hash,   *)
(* one member of a sorted set and one stream.  A command whose answer is lost  *)
(* may have been executed, or be executed later.  Monitoring is left out.  *)
(***************************************************************************)
EXTENDS Integers, Sequences, FiniteSets, SequencesExt

CONSTANTS
  RedisCallers,
  Programs,       \* what the callers do: functions to sequences of steps [name, arg],
                  \* a method, "Register", "Acquire" or "Release"
  Groups,         \* consumer groups
  RetryLimit,     \* retryConfig.MaxRetries
  RecoveryLimit,  \* recoveryConfig.MaxRetries
  LockAttempts,   \* how often a lock that another holds is tried
  MaxTicks,       \* bounds the checks of the connection
  MaxLength,      \* bounds the entries of the stream
  MaxRedisFaults, \* bounds outages, lost answers and other errors of connections
  Nobody

ASSUME RedisAssumption ==
  /\ Nobody \notin RedisCallers
  /\ {RetryLimit, RecoveryLimit, LockAttempts} \subseteq Nat \ {0}
  /\ {MaxTicks, MaxLength, MaxRedisFaults} \subseteq Nat

Pingers == {"loop", "healer"}  \* connectionRecoveryLoop and performConnectionRecovery

VARIABLES
  data,          \* what the server keeps
  late,          \* commands <<caller, command, arg>> on their way whose caller gave up the attempt
  reachable,     \* whether the server is
  handle,        \* the connection in c.redisClient, numbered
  closed,        \* connections that were closed
  running,       \* per caller: [at, step, cmd, tries, via, locking, says]
  program,       \* per caller
  regMutex,      \* who is in RegisterConsumerGroup
  cached,        \* consumerGroups
  recovery,      \* [at, tries] of performConnectionRecovery
  ticks,
  expiredGroups, \* history: groups that went with the stream
  troubles       \* the number of faults so far

redisVars == <<data, late, reachable, handle, closed, running, program, regMutex, cached,
               recovery, ticks, expiredGroups, troubles>>

NoCall ==
  [at |-> "idle", step |-> 1, cmd |-> 1, tries |-> 0, via |-> 1, locking |-> 0, says |-> "ok"]
NoStream == [on |-> FALSE, ttl |-> FALSE, groups |-> {}, length |-> 0, fresh |-> 0, pending |-> 0]
Ping == << [name |-> "Ping", arg |-> Nobody] >>

RedisInit ==
  /\ data = [stream |-> NoStream, key |-> Nobody,
             value |-> FALSE, field |-> FALSE, member |-> FALSE]
  /\ late = {}
  /\ reachable = TRUE
  /\ handle = 1
  /\ closed = {}
  /\ running = [p \in RedisCallers \cup Pingers |-> NoCall]
  /\ \E f \in Programs : program = f @@ [p \in Pingers |-> Ping]
  /\ regMutex = Nobody
  /\ cached = {}
  /\ recovery = [at |-> "no", tries |-> 0]
  /\ ticks = 0
  /\ expiredGroups = {}
  /\ troubles = 0

-----------------------------------------------------------------------------
(* The methods: the commands of one attempt, and whether a reply that there *)
(* is nothing makes the method fail.                                       *)

Method(cmds, miss) == [cmds |-> cmds, miss |-> miss]

KeyMethods ==
  [Ping |-> Method(<<"ping">>, "fails"),
   Get |-> Method(<<"get">>, "fails"),
   GetWithExists |-> Method(<<"get">>, "absent"),
   Set |-> Method(<<"set">>, "fails"),
   SetNX |-> Method(<<"setnx">>, "fails"),
   DelWithCount |-> Method(<<"del">>, "absent"),
   TTL |-> Method(<<"exists">>, "absent"),
   PerformHealthCheck |-> Method(<<"ping", "probe">>, "fails")]

HashMethods ==
  [HSet |-> Method(<<"hset">>, "fails"),
   HGet |-> Method(<<"hget">>, "fails"),
   HGetWithExists |-> Method(<<"hget">>, "absent"),
   HDelWithCount |-> Method(<<"hdel">>, "absent")]

\* ZAddWithExists asks first whether the key exists.
SortedSetMethods ==
  [ZAdd |-> Method(<<"zadd">>, "fails"),
   ZAddWithExists |-> Method(<<"exists", "zadd">>, "absent"),
   ZRangeByScore |-> Method(<<"zrange">>, "absent"),
   ZRem |-> Method(<<"zrem">>, "absent")]

\* A group that exists is a success; with a ttl, the stream's is then set again.
GroupMethods ==
  [CreateStreamIfNotExists |-> Method(<<"create">>, "absent"),
   CreateConsumerGroup |-> Method(<<"group">>, "fails"),
   CreateStreamWithConsumerGroup |-> Method(<<"groupttl", "expire">>, "absent")]

StreamMethods ==
  [XAdd |-> Method(<<"xadd">>, "fails"),
   XReadGroup |-> Method(<<"xreadgroup">>, "fails"),
   XAck |-> Method(<<"xack">>, "absent"),
   XTrim |-> Method(<<"xtrim">>, "absent")]

\* EXPIRE XX gives a new ttl to a stream that has one already.
ExpiryMethods ==
  [RefreshStreamTTL |-> Method(<<"expirexx">>, "absent"),
   SetTTL |-> Method(<<"expire">>, "absent")]

\* RegisterConsumerGroup, and a lock's SetNX and script.
Wrappers ==
  [Register |-> GroupMethods.CreateConsumerGroup,
   Acquire |-> KeyMethods.SetNX,
   Release |-> Method(<<"release">>, "fails"),
   ScanAll |-> Method(<<"scan">>, "fails")]

MethodTables == {KeyMethods, HashMethods, SortedSetMethods, GroupMethods, StreamMethods,
                 ExpiryMethods, Wrappers}

Ended(p) == running[p].step > Len(program[p])
Step(p) == program[p][running[p].step]
MethodOf(p) ==
  LET table == CHOOSE t \in MethodTables : Step(p).name \in DOMAIN t
  IN  table[Step(p).name]
Command(p) == MethodOf(p).cmds[running[p].cmd]

-----------------------------------------------------------------------------
(* The server: what it keeps after a command of p, and what it says.       *)

Reply(kept, says) == [kept |-> kept, says |-> says]
Counted(kept, there) == Reply(kept, IF there THEN "ok" ELSE "nothing")

AddGroup(st, g) == [st EXCEPT !.on = TRUE, !.groups = @ \cup {g}, !.fresh = st.length]
AddEntry(st) == [st EXCEPT !.on = TRUE, !.length = @ + 1, !.fresh = @ + 1]

\* The script of CreateStreamIfNotExists.
CreateIfAbsent ==
  IF data.stream.on THEN Reply(data, "nothing")
  ELSE Reply([data EXCEPT !.stream = [AddEntry(@) EXCEPT !.ttl = TRUE]], "ok")

\* The script of a lock's Release.
DeleteOwn(p) ==
  IF data.key = p THEN Reply([data EXCEPT !.key = Nobody], "ok") ELSE Reply(data, "no")

\* "probe" is the script of the health check, which sets, gets and deletes a key;
\* "groupttl" a pipeline of XGROUP CREATE and EXPIRE.
Execute(p, cmd, g) ==
  LET st == data.stream
      Put(s) == [data EXCEPT !.stream = s]
      busy == IF g \in st.groups THEN "busy" ELSE "ok"
      grouped == IF g \in st.groups THEN st ELSE AddGroup(st, g)
  IN  CASE cmd \in {"ping", "probe", "scan"} -> Reply(data, "ok")
        [] cmd = "get" -> Counted(data, data.value)
        [] cmd = "set" -> Reply([data EXCEPT !.value = TRUE], "ok")
        [] cmd = "setnx" -> IF data.key = Nobody THEN Reply([data EXCEPT !.key = p], "ok")
                            ELSE Reply(data, "no")
        [] cmd = "del" -> Counted([data EXCEPT !.value = FALSE], data.value)
        [] cmd = "release" -> DeleteOwn(p)
        [] cmd = "hset" -> Reply([data EXCEPT !.field = TRUE], "ok")
        [] cmd = "hget" -> Counted(data, data.field)
        [] cmd = "hdel" -> Counted([data EXCEPT !.field = FALSE], data.field)
        [] cmd = "zadd" -> Reply([data EXCEPT !.member = TRUE], "ok")
        [] cmd \in {"exists", "zrange"} -> Counted(data, data.member)
        [] cmd = "zrem" -> Counted([data EXCEPT !.member = FALSE], data.member)
        [] cmd = "create" -> CreateIfAbsent
        [] cmd = "group" -> Reply(Put(grouped), busy)
        [] cmd = "groupttl" -> Reply(Put([grouped EXCEPT !.ttl = TRUE]), busy)
        [] cmd = "xadd" -> Reply(Put(AddEntry(st)), "ok")
        [] cmd = "xreadgroup" ->
             IF g \notin st.groups THEN Reply(data, "nogroup")
             ELSE Counted(Put([st EXCEPT !.fresh = 0, !.pending = st.fresh]), st.fresh > 0)
        [] cmd = "xack" -> Counted(Put([st EXCEPT !.pending = 0]), st.pending > 0)
        [] cmd = "xtrim" -> Counted(Put([st EXCEPT !.length = 0, !.fresh = 0]), st.length > 0)
        [] cmd = "expire" -> Counted(Put([st EXCEPT !.ttl = st.on]), st.on)
        [] OTHER -> Counted(data, st.ttl)  \* expirexx

Changes(cmd) == cmd \notin {"ping", "probe", "scan", "get", "hget", "exists", "zrange"}
Room(cmd) == cmd \in {"xadd", "create"} => data.stream.length < MaxLength

-----------------------------------------------------------------------------
(* What becomes of a call.                                                 *)

Ready(c) == [c EXCEPT !.at = "ready", !.cmd = 1, !.tries = 0]
Passed(c) == [NoCall EXCEPT !.step = c.step + 1]
Broken(c, says) == [NoCall EXCEPT !.at = "failed", !.step = c.step, !.says = says]

\* The lock that another holds is tried again, by Acquire's retry.
Contended(c) ==
  IF c.locking + 1 < LockAttempts THEN [Ready(c) EXCEPT !.locking = @ + 1] ELSE Broken(c, "no")

\* executeWithRetryAndKey after an error that isRetryableError admits.
Again(c) ==
  IF c.tries + 1 < RetryLimit THEN [c EXCEPT !.at = "ready", !.cmd = 1, !.tries = @ + 1]
  ELSE Broken(c, "spent")

(* An answer: redis.Nil, NOGROUP and a lock that is not ours end the call, *)
(* BUSYGROUP does not.                                                     *)
Replied(p, says) ==
  LET c == running[p]
      more == c.cmd < Len(MethodOf(p).cmds) /\ (Command(p) = "groupttl" => says = "busy")
  IN  CASE says = "no" -> IF Step(p).name = "Acquire" THEN Contended(c) ELSE Broken(c, "no")
        [] says = "nogroup" -> Broken(c, "nogroup")
        [] says = "nothing" /\ MethodOf(p).miss = "fails" -> Broken(c, "nothing")
        [] OTHER -> IF more THEN [c EXCEPT !.cmd = @ + 1] ELSE Passed(c)

(* executeWithRetry is entered; RegisterConsumerGroup takes the mutex, and *)
(* returns at once when the group is in consumerGroups.                    *)
Call(p) ==
  /\ running[p].at = "idle" /\ ~Ended(p)
  /\ p \in RedisCallers
  /\ IF Step(p).name = "Register"
     THEN /\ regMutex = Nobody
          /\ IF Step(p).arg \in cached
             THEN running' = [running EXCEPT ![p] = Passed(@)] /\ UNCHANGED regMutex
             ELSE running' = [running EXCEPT ![p] = Ready(@)] /\ regMutex' = p
     ELSE running' = [running EXCEPT ![p] = Ready(@)] /\ UNCHANGED regMutex
  /\ UNCHANGED <<data, late, reachable, handle, closed, program, cached, recovery, ticks,
                 expiredGroups, troubles>>

\* An attempt: the closure reads c.redisClient without the mutex.
Attempt(p) ==
  /\ running[p].at = "ready"
  /\ running' = [running EXCEPT ![p] = [@ EXCEPT !.at = "sent", !.via = handle]]
  /\ UNCHANGED <<data, late, reachable, handle, closed, program, regMutex, cached, recovery,
                 ticks, expiredGroups, troubles>>

(* A faulty variant: the group is remembered whether it was created or not. *)
SettleRemembersAll(p, c) ==
  LET over == c.at \in {"idle", "failed"}
  IN  /\ running' = [running EXCEPT ![p] = c]
      /\ regMutex' = IF over /\ regMutex = p THEN Nobody ELSE regMutex
      /\ cached' = IF over /\ Step(p).name = "Register" THEN cached \cup {Step(p).arg} ELSE cached

\* What a call that ends now leaves behind.
Settle(p, c) ==
  LET over == c.at \in {"idle", "failed"}
      done == c.at = "idle"
  IN  /\ running' = [running EXCEPT ![p] = c]
      /\ regMutex' = IF over /\ regMutex = p THEN Nobody ELSE regMutex
      /\ cached' = IF done /\ Step(p).name = "Register" THEN cached \cup {Step(p).arg} ELSE cached

Answer(p) ==
  /\ running[p].at = "sent"
  /\ reachable /\ running[p].via \notin closed
  /\ Room(Command(p))
  /\ LET r == Execute(p, Command(p), Step(p).arg)
     IN  /\ data' = r.kept
         /\ Settle(p, Replied(p, r.says))
  /\ UNCHANGED <<late, reachable, handle, closed, program, recovery, ticks, expiredGroups,
                 troubles>>

(* No answer: a timeout, a refused or reset connection and an end of file  *)
(* are retried, every other error ends the call, and so does a connection  *)
(* that was closed meanwhile.  The command may still be executed.          *)
NoAnswer(p) ==
  /\ running[p].at = "sent"
  /\ IF reachable /\ running[p].via \notin closed
     THEN troubles < MaxRedisFaults /\ troubles' = troubles + 1
     ELSE UNCHANGED troubles
  /\ \/ UNCHANGED late
     \/ reachable /\ Changes(Command(p)) /\ late' = late \cup {<<p, Command(p), Step(p).arg>>}
  /\ \/ running[p].via \notin closed /\ Settle(p, Again(running[p]))
     \/ running[p].via \notin closed /\ reachable /\ Settle(p, Broken(running[p], "error"))
     \/ running[p].via \in closed /\ Settle(p, Broken(running[p], "closed"))
  /\ UNCHANGED <<data, reachable, handle, closed, program, recovery, ticks, expiredGroups>>

\* The context of the caller ends before an attempt or while it sleeps.
ContextEnds(p) ==
  /\ p \in RedisCallers /\ running[p].at = "ready"
  /\ troubles < MaxRedisFaults /\ troubles' = troubles + 1
  /\ Settle(p, Broken(running[p], "context"))
  /\ UNCHANGED <<data, late, reachable, handle, closed, program, recovery, ticks, expiredGroups>>

\* A command arrives after its caller has given up the attempt.
Arrives(c) ==
  /\ late' = late \ {c}
  /\ Room(c[2])
  /\ data' = Execute(c[1], c[2], c[3]).kept
  /\ UNCHANGED <<reachable, handle, closed, running, program, regMutex, cached, recovery, ticks,
                 expiredGroups, troubles>>

-----------------------------------------------------------------------------
(* The routine that checks the connection.                                 *)

\* checkAndRecoverConnection: not while a recovery runs.
TickCheck ==
  /\ ticks < MaxTicks
  /\ running["loop"].at = "idle" /\ running["loop"].step = 1
  /\ recovery.at = "no"
  /\ ticks' = ticks + 1
  /\ running' = [running EXCEPT !["loop"] = Ready(@)]
  /\ UNCHANGED <<data, late, reachable, handle, closed, program, regMutex, cached, recovery,
                 expiredGroups, troubles>>

\* The ping is over: a recovery is started when it failed.
TickEnds ==
  /\ running["loop"].at = "failed" \/ Ended("loop")
  /\ recovery' = IF Ended("loop") THEN recovery ELSE [at |-> "close", tries |-> 0]
  /\ running' = [running EXCEPT !["loop"] = NoCall]
  /\ UNCHANGED <<data, late, reachable, handle, closed, program, regMutex, cached, ticks, expiredGroups, troubles>>

\* recreateConnection, under the mutex: the old one is closed, then replaced.
CloseOld ==
  /\ recovery.at = "close"
  /\ closed' = closed \cup {handle}
  /\ recovery' = [recovery EXCEPT !.at = "open"]
  /\ UNCHANGED <<data, late, reachable, handle, running, program, regMutex, cached, ticks, expiredGroups, troubles>>

OpenNew ==
  /\ recovery.at = "open"
  /\ handle' = handle + 1
  /\ recovery' = [recovery EXCEPT !.at = "test"]
  /\ running' = [running EXCEPT !["healer"] = Ready(@)]
  /\ UNCHANGED <<data, late, reachable, closed, program, regMutex, cached, ticks, expiredGroups, troubles>>

\* CheckConnection is over: another connection is tried when it failed.
TestEnds ==
  /\ recovery.at = "test"
  /\ running["healer"].at = "failed" \/ Ended("healer")
  /\ recovery' = IF Ended("healer") \/ recovery.tries + 1 = RecoveryLimit
                 THEN [at |-> "no", tries |-> 0]
                 ELSE [at |-> "close", tries |-> recovery.tries + 1]
  /\ running' = [running EXCEPT !["healer"] = NoCall]
  /\ UNCHANGED <<data, late, reachable, handle, closed, program, regMutex, cached, ticks, expiredGroups, troubles>>

\* Close, by the service that ends.
CloseClient ==
  /\ troubles < MaxRedisFaults /\ troubles' = troubles + 1
  /\ handle \notin closed
  /\ closed' = closed \cup {handle}
  /\ UNCHANGED <<data, late, reachable, handle, running, program, regMutex, cached, recovery, ticks,
                 expiredGroups>>

-----------------------------------------------------------------------------
(* The server and what expires there.                                      *)

Outage ==
  /\ \/ reachable /\ troubles < MaxRedisFaults /\ troubles' = troubles + 1
     \/ ~reachable /\ UNCHANGED troubles
  /\ reachable' = ~reachable
  /\ UNCHANGED <<data, late, handle, closed, running, program, regMutex, cached, recovery, ticks,
                 expiredGroups>>

LockExpires ==
  /\ data.key # Nobody
  /\ data' = [data EXCEPT !.key = Nobody]
  /\ UNCHANGED <<late, reachable, handle, closed, running, program, regMutex, cached, recovery,
                 ticks, expiredGroups, troubles>>

TaskStreamExpires ==
  /\ data.stream.ttl
  /\ data' = [data EXCEPT !.stream = NoStream]
  /\ expiredGroups' = expiredGroups \cup data.stream.groups
  /\ UNCHANGED <<late, reachable, handle, closed, running, program, regMutex, cached, recovery,
                 ticks, troubles>>

RedisNext ==
  \/ \E p \in RedisCallers \cup Pingers :
       Call(p) \/ Attempt(p) \/ Answer(p) \/ NoAnswer(p) \/ ContextEnds(p)
  \/ \E c \in late : Arrives(c)
  \/ TickCheck \/ TickEnds \/ CloseOld \/ OpenNew \/ TestEnds \/ CloseClient
  \/ Outage \/ LockExpires \/ TaskStreamExpires

-----------------------------------------------------------------------------

RedisTypeOK ==
  /\ data.key \in RedisCallers \cup {Nobody}
  /\ data.stream.groups \cup cached \cup expiredGroups \subseteq Groups
  /\ data.stream.length \in 0..MaxLength
  /\ handle \in 1..(1 + MaxTicks * RecoveryLimit)
  /\ closed \subseteq 1..handle
  /\ regMutex \in RedisCallers \cup {Nobody}
  /\ \A p \in RedisCallers \cup Pingers :
       /\ running[p].at \in {"idle", "ready", "sent", "failed"}
       /\ running[p].tries \in 0..(RetryLimit - 1)

(* A group that RegisterConsumerGroup answers for from consumerGroups is   *)
(* there on the server, unless the stream has expired with its groups      *)
(* (manager.go): failed and repeated calls never leave a group remembered  *)
(* that was not created.                                                   *)
CachedGroupExists == cached \subseteq data.stream.groups \cup expiredGroups
=============================================================================
