------------------------------ MODULE RemoteCalls ------------------------------
(***************************************************************************)
(* How the services call each other: by gRPC through a pool of connections *)
(* to one address, or by HTTP, both within the retry helper; and the gRPC  *)
(* server at the other end, which is stopped while it handles requests.    *)
(*                                                                         *)
(* The pool's mutex is held only inside its methods; the one method that   *)
(* blocks with it is GetConnection, so `waiter` tells who has it.          *)
(***************************************************************************)
EXTENDS Naturals, Sequences, FiniteSets, SequencesExt

CONSTANTS
  Calls,         \* calls, each made once
  NoCall,        \* nobody
  MaxTries,      \* MaxRetries: attempts of a call (3 in the code)
  PoolSize,      \* capacity of the pool (10)
  MaxNetFaults,  \* bound on failures of the network
  MaxStops       \* bound on stops of the server

ASSUME RemoteCallsAssumption ==
  /\ NoCall \notin Calls
  /\ MaxTries \in Nat \ {0} /\ PoolSize \in Nat \ {0}
  /\ MaxNetFaults \in Nat /\ MaxStops \in Nat

\* As many connections as can be open at a time.
Conns == 1..(PoolSize + Cardinality(Calls))

VARIABLES
  kind,       \* per call: by gRPC, "rpc", or HTTP, "web"; "none" before it is made
  callAt,     \* per call: where it is
  outcome,    \* per call: of its attempt, "none", "ok", "refused", "again", "broken"
  tries,      \* per call: attempts begun
  expired,    \* calls the context of which is done
  conn,       \* per call: the connection it holds, 0 for none
  idle,       \* the channel of the pool
  open,       \* connections that were created and not closed
  live,       \* those in state READY
  waiter,     \* the call that waits for a connection with the mutex of the pool
  poolClosed,
  server,     \* "running", "stopping" (GracefulStop, with the server's mutex), "stopped"
  handling,   \* attempts the server has and has not answered
  stops, netFaults

callVars == <<kind, callAt, outcome, tries, expired, conn, idle, open, live, waiter, poolClosed,
              server, handling, stops, netFaults>>
connVars == <<conn, idle, open, live, waiter, poolClosed>>
serverVars == <<server, handling, stops>>

CallPlaces == {"idle", "looping", "getting", "sending", "receiving", "returning", "sleeping",
               "succeeded", "failed"}
Over == {"succeeded", "failed"}

CallsInit ==
  /\ kind = [c \in Calls |-> "none"]
  /\ callAt = [c \in Calls |-> "idle"]
  /\ outcome = [c \in Calls |-> "none"]
  /\ tries = [c \in Calls |-> 0]
  /\ expired = {}
  /\ conn = [c \in Calls |-> 0]
  /\ idle = << >> /\ open = {} /\ live = {}
  /\ waiter = NoCall /\ poolClosed = FALSE
  /\ server = "running" /\ handling = {}
  /\ stops = 0 /\ netFaults = 0

MoveCall(c, p) == callAt' = [callAt EXCEPT ![c] = p]
\* The attempt has an outcome: a connection goes back first.
Settle(c, o) ==
  /\ outcome' = [outcome EXCEPT ![c] = o]
  /\ MoveCall(c, "returning")
NetFault == netFaults < MaxNetFaults /\ netFaults' = netFaults + 1
MutexFree == waiter = NoCall

-----------------------------------------------------------------------------
(* The retry helper.                                                       *)

BeginCall(c) ==
  /\ callAt[c] = "idle"
  /\ \E k \in {"rpc", "web"} : kind' = [kind EXCEPT ![c] = k]
  /\ MoveCall(c, "looping")
  /\ UNCHANGED <<outcome, tries, expired, connVars, serverVars, netFaults>>

\* Retry: the context is looked at before every attempt.
Loop(c) ==
  /\ callAt[c] = "looping"
  /\ IF c \in expired \/ tries[c] = MaxTries
       THEN MoveCall(c, "failed") /\ UNCHANGED tries
       ELSE /\ tries' = [tries EXCEPT ![c] = @ + 1]
            /\ MoveCall(c, IF kind[c] = "rpc" THEN "getting" ELSE "sending")
  /\ UNCHANGED <<kind, outcome, expired, connVars, serverVars, netFaults>>

\* What ShouldRetry decides: for gRPC by the code, with the reply of a handler
\* and errors of the pool not retried; for HTTP 5xx, 429 and all errors are, and
\* any other status is an answer.
Judge(c, o) ==
  CASE o = "ok" \/ (o = "refused" /\ kind[c] = "web") -> "succeeded"
    [] o = "again" -> "sleeping"
    [] OTHER -> "failed"

Finish(c) ==
  /\ MoveCall(c, Judge(c, outcome[c]))
  /\ outcome' = [outcome EXCEPT ![c] = "none"]

\* The delay with jitter, cut short by the context.
Wake(c) ==
  /\ callAt[c] = "sleeping"
  /\ \/ MoveCall(c, "looping")
     \/ c \in expired /\ MoveCall(c, "failed")
  /\ UNCHANGED <<kind, outcome, tries, expired, connVars, serverVars, netFaults>>

\* The deadline of the context: 10 s for an error report, 30 s for a task.
Expire(c) ==
  /\ callAt[c] \notin {"idle"} \cup Over /\ c \notin expired
  /\ expired' = expired \cup {c}
  /\ UNCHANGED <<kind, callAt, outcome, tries, connVars, serverVars, netFaults>>

-----------------------------------------------------------------------------
(* The pool of connections.                                                *)

Give(c, k) == conn' = [conn EXCEPT ![c] = k] /\ MoveCall(c, "sending")

\* GetConnection of a closed pool: an error that is not retried.
GetRefused(c) ==
  /\ callAt[c] = "getting" /\ MutexFree /\ poolClosed
  /\ Settle(c, "broken")
  /\ UNCHANGED <<kind, tries, expired, connVars, serverVars, netFaults>>

\* The first idle connection, if it is READY.
GetIdle(c) ==
  /\ callAt[c] = "getting" /\ MutexFree /\ ~poolClosed
  /\ idle # << >> /\ Head(idle) \in live
  /\ Give(c, Head(idle))
  /\ idle' = Tail(idle)
  /\ UNCHANGED <<kind, outcome, tries, expired, open, live, waiter, poolClosed, serverVars, netFaults>>

\* None is idle: a new one, which connects with its first call.  What is counted
\* against the limit is the idle connections only.
GetNew(c) ==
  /\ callAt[c] = "getting" /\ MutexFree /\ ~poolClosed
  /\ idle = << >>
  /\ \E k \in Conns \ open :
       /\ 1..(k - 1) \subseteq open
       /\ open' = open \cup {k} /\ Give(c, k)
  /\ UNCHANGED <<kind, outcome, tries, expired, idle, live, waiter, poolClosed, serverVars, netFaults>>

\* The first one is not READY: it is closed, and the call waits for another,
\* with the mutex.
GetDead(c) ==
  /\ callAt[c] = "getting" /\ MutexFree /\ ~poolClosed
  /\ idle # << >> /\ Head(idle) \notin live
  /\ open' = open \ {Head(idle)}
  /\ idle' = Tail(idle)
  /\ waiter' = c
  /\ UNCHANGED <<kind, callAt, outcome, tries, expired, conn, live, poolClosed, serverVars, netFaults>>

\* The wait: whatever is idle, READY or not ...
TakeIdle(c) ==
  /\ waiter = c /\ idle # << >>
  /\ Give(c, Head(idle))
  /\ idle' = Tail(idle)
  /\ waiter' = NoCall
  /\ UNCHANGED <<kind, outcome, tries, expired, open, live, poolClosed, serverVars, netFaults>>

\* ... or the end of the context.  Nobody can return a connection meanwhile.
GiveUpWaiting(c) ==
  /\ waiter = c /\ c \in expired
  /\ Settle(c, "broken")
  /\ waiter' = NoCall
  /\ UNCHANGED <<kind, tries, expired, conn, idle, open, live, poolClosed, serverVars, netFaults>>

(* A faulty variant: a connection the pool has no room for stays open.     *)
ReturnLeaks(c) ==
  /\ callAt[c] = "returning" /\ conn[c] # 0 /\ MutexFree
  /\ LET keep == ~poolClosed /\ outcome[c] = "ok"
     IN  /\ idle' = IF keep /\ Len(idle) < PoolSize THEN Append(idle, conn[c]) ELSE idle
         /\ open' = IF keep THEN open ELSE open \ {conn[c]}
         /\ live' = live \cap open'
  /\ conn' = [conn EXCEPT ![c] = 0]
  /\ Finish(c)
  /\ UNCHANGED <<kind, tries, expired, waiter, poolClosed, serverVars, netFaults>>

\* ReturnConnection: closed with the pool, after an error of any kind, a reply
\* of the handler included, and when the pool is full.
ReturnConnection(c) ==
  /\ callAt[c] = "returning" /\ conn[c] # 0 /\ MutexFree
  /\ LET keep == ~poolClosed /\ outcome[c] = "ok" /\ Len(idle) < PoolSize
     IN  /\ idle' = IF keep THEN Append(idle, conn[c]) ELSE idle
         /\ open' = IF keep THEN open ELSE open \ {conn[c]}
         /\ live' = live \cap open'
  /\ conn' = [conn EXCEPT ![c] = 0]
  /\ Finish(c)
  /\ UNCHANGED <<kind, tries, expired, waiter, poolClosed, serverVars, netFaults>>

\* An attempt without a connection of the pool only has its error judged.
EndAttempt(c) ==
  /\ callAt[c] = "returning" /\ conn[c] = 0
  /\ Finish(c)
  /\ UNCHANGED <<kind, tries, expired, connVars, serverVars, netFaults>>

\* ConnectionPool.Close
ClosePool ==
  /\ MutexFree /\ ~poolClosed
  /\ poolClosed' = TRUE
  /\ open' = open \ ToSet(idle) /\ live' = live \ ToSet(idle)
  /\ idle' = << >>
  /\ UNCHANGED <<kind, callAt, outcome, tries, expired, conn, waiter, serverVars, netFaults>>

-----------------------------------------------------------------------------
(* A request, its answer, and the server.                                  *)

\* The connection is made if need be, and the server has the request.
Arrive(c) ==
  /\ callAt[c] = "sending" /\ server = "running"
  /\ live' = IF kind[c] = "rpc" THEN live \cup {conn[c]} ELSE live
  /\ handling' = handling \cup {<<c, tries[c]>>}
  /\ MoveCall(c, "receiving")
  /\ UNCHANGED <<kind, outcome, tries, expired, conn, idle, open, waiter, poolClosed, server, stops, netFaults>>

\* Unavailable, or any network error.
SendFails(c) ==
  /\ callAt[c] = "sending"
  /\ IF server = "running" THEN NetFault ELSE UNCHANGED netFaults
  /\ live' = live \ {conn[c]}
  /\ Settle(c, "again")
  /\ UNCHANGED <<kind, tries, expired, conn, idle, open, waiter, poolClosed, serverVars>>

\* The timeout of the attempt, or the context: the server goes on without it.
TimesOut(c) ==
  /\ callAt[c] \in {"sending", "receiving"}
  /\ Settle(c, "again")
  /\ UNCHANGED <<kind, tries, expired, connVars, serverVars, netFaults>>

\* What a handler replies: a result, or an error, of an unknown method as well.
Replies == {"ok", "refused"}

\* The handler's reply, or a status that is retried; an
\* attempt that was given up is answered to nobody.
Answer(c) ==
  \E n \in 1..MaxTries :
    /\ <<c, n>> \in handling
    /\ handling' = handling \ {<<c, n>>}
    /\ IF callAt[c] = "receiving" /\ tries[c] = n
         THEN \/ \E o \in Replies : Settle(c, o) /\ UNCHANGED netFaults
              \/ Settle(c, "again") /\ NetFault
         ELSE UNCHANGED <<callAt, outcome, netFaults>>
    /\ UNCHANGED <<kind, tries, expired, connVars, server, stops>>

\* A connection that is not in use leaves READY: idle for long, or broken.
ConnectionSleeps(k) ==
  /\ k \in ToSet(idle) \cap live /\ NetFault
  /\ live' = live \ {k}
  /\ UNCHANGED <<kind, callAt, outcome, tries, expired, conn, idle, open, waiter, poolClosed, serverVars>>

\* Server.Stop: no new requests, and all that are handled are waited for.
StopServer ==
  /\ server = "running" /\ stops < MaxStops
  /\ server' = "stopping" /\ stops' = stops + 1
  /\ UNCHANGED <<kind, callAt, outcome, tries, expired, connVars, handling, netFaults>>

ServerStops ==
  /\ server = "stopping" /\ handling = {}
  /\ server' = "stopped"
  /\ live' = {}
  /\ UNCHANGED <<kind, callAt, outcome, tries, expired, conn, idle, open, waiter, poolClosed, handling, stops, netFaults>>

\* Server.Start, of the next process
StartServer ==
  /\ server = "stopped"
  /\ server' = "running"
  /\ UNCHANGED <<kind, callAt, outcome, tries, expired, connVars, handling, stops, netFaults>>

PoolStep(c) ==
  \/ GetRefused(c) \/ GetIdle(c) \/ GetNew(c) \/ GetDead(c)
  \/ TakeIdle(c) \/ GiveUpWaiting(c) \/ ReturnConnection(c)
CallStep(c) ==
  \/ BeginCall(c) \/ Loop(c) \/ Wake(c) \/ Expire(c) \/ EndAttempt(c)
  \/ Arrive(c) \/ SendFails(c) \/ TimesOut(c) \/ Answer(c)

CallsNext ==
  \/ \E c \in Calls : CallStep(c) \/ PoolStep(c)
  \/ \E k \in Conns : ConnectionSleeps(k)
  \/ ClosePool \/ StopServer \/ ServerStops \/ StartServer

CallsSpec == CallsInit /\ [][CallsNext]_callVars

-----------------------------------------------------------------------------
\* The variables have the shapes declared above.
CallsTypeOK ==
  /\ callAt \in [Calls -> CallPlaces]
  /\ kind \in [Calls -> {"none", "rpc", "web"}]
  /\ outcome \in [Calls -> {"none", "ok", "refused", "again", "broken"}]
  /\ tries \in [Calls -> 0..MaxTries]
  /\ expired \subseteq Calls
  /\ conn \in [Calls -> Conns \cup {0}]
  /\ idle \in Seq(Conns) /\ Len(idle) <= PoolSize
  /\ open \subseteq Conns /\ live \subseteq open \cup {0}
  /\ waiter \in Calls \cup {NoCall} /\ poolClosed \in BOOLEAN
  /\ server \in {"running", "stopping", "stopped"} /\ handling \subseteq Calls \X (1..MaxTries)
  /\ stops \in 0..MaxStops /\ netFaults \in 0..MaxNetFaults

\* No connection leaks, and none is used by two: whatever fails, times out or is
\* closed meanwhile, a connection that is open is in the pool or held by one
\* call, and a pool that was closed has none.
OpenIsOwned ==
  /\ open = ToSet(idle) \cup ({conn[c] : c \in Calls} \ {0})
  /\ IsInjective(idle)
  /\ \A c \in Calls : conn[c] # 0 =>
       conn[c] \notin ToSet(idle) /\ \A d \in Calls \ {c} : conn[d] # conn[c]
  /\ poolClosed => idle = << >>
=============================================================================
