-------------------------- MODULE ConnectionsProofs --------------------------
(***************************************************************************)
(* What the services share: the pool of gRPC connections, the websocket    *)
(* clients and the log files; for every set of calls, clients and          *)
(* requests, every capacity and all limits of the files.                   *)
(*                                                                         *)
(* The clean-up of the log files loses no line before an older one         *)
(* because a file of a larger number was written to as late or later       *)
(* (DaysAscend): both its limits, of number and of age, then take a file   *)
(* only with all the older ones.                                           *)
(***************************************************************************)
EXTENDS RemoteCalls, WebSockets, LogRotation, FiniteSetTheorems, SequenceTheorems,
        WellFoundedInduction, TLAPS

-----------------------------------------------------------------------------
(***************************************************************************)
(* The ownership of the connections of a pool.                             *)
(***************************************************************************)

CallShape ==
  /\ callAt \in [Calls -> CallPlaces]
  /\ conn \in [Calls -> Conns \cup {0}]
  /\ idle \in Seq(Conns)
  /\ waiter \in Calls \cup {NoCall}

(* A call has a connection only between GetConnection and the return of    *)
(* it; and who waits has none.                                             *)
HoldingInv ==
  /\ \A c \in Calls : conn[c] # 0 => callAt[c] \in {"sending", "receiving", "returning"}
  /\ waiter \in Calls => callAt[waiter] = "getting"

CallsInv == CallShape /\ HoldingInv /\ OpenIsOwned

-----------------------------------------------------------------------------
(* The pool's channel.                                                     *)

LEMMA Taken ==
  ASSUME NEW s \in Seq(Conns), s # << >>, IsInjective(s)
  PROVE  /\ Head(s) \in ToSet(s) /\ Head(s) \in Conns
         /\ Tail(s) \in Seq(Conns)
         /\ ToSet(Tail(s)) = ToSet(s) \ {Head(s)}
         /\ IsInjective(Tail(s))
<1>1. /\ Len(s) \in Nat \ {0} /\ DOMAIN s = 1..Len(s) /\ Head(s) = s[1]
      /\ Tail(s) \in Seq(Conns) /\ Len(Tail(s)) = Len(s) - 1
      /\ DOMAIN Tail(s) = 1..(Len(s) - 1)
      /\ \A i \in 1..(Len(s) - 1) : Tail(s)[i] = s[i + 1]
  OBVIOUS
<1>2. Head(s) \in ToSet(s) /\ Head(s) \in Conns
  BY <1>1 DEF ToSet
<1>3. \A i, j \in 1..Len(s) : s[i] = s[j] => i = j
  BY <1>1 DEF IsInjective
<1>4. ToSet(Tail(s)) \subseteq ToSet(s) \ {Head(s)}
  BY <1>1, <1>3 DEF ToSet
<1>5. ASSUME NEW k \in ToSet(s), k # Head(s)  PROVE k \in ToSet(Tail(s))
  <2>1. PICK i \in 1..Len(s) : s[i] = k
    BY <1>1, <1>5 DEF ToSet
  <2>2. i - 1 \in 1..(Len(s) - 1) /\ Tail(s)[i - 1] = k
    BY <1>1, <1>5, <2>1
  <2> QED
    BY <1>1, <2>2 DEF ToSet
<1>6. IsInjective(Tail(s))
  <2> SUFFICES ASSUME NEW i \in 1..(Len(s) - 1), NEW j \in 1..(Len(s) - 1),
                      Tail(s)[i] = Tail(s)[j]
               PROVE  i = j
    BY <1>1 DEF IsInjective
  <2>1. s[i + 1] = s[j + 1] /\ i + 1 \in 1..Len(s) /\ j + 1 \in 1..Len(s)
    BY <1>1
  <2> QED
    BY <1>3, <2>1
<1> QED
  BY <1>1, <1>2, <1>4, <1>5, <1>6

LEMMA PutBack ==
  ASSUME NEW s \in Seq(Conns), IsInjective(s), NEW k \in Conns, k \notin ToSet(s)
  PROVE  /\ Append(s, k) \in Seq(Conns)
         /\ ToSet(Append(s, k)) = ToSet(s) \cup {k}
         /\ IsInjective(Append(s, k))
<1>1. /\ Len(s) \in Nat /\ DOMAIN s = 1..Len(s)
      /\ Append(s, k) \in Seq(Conns) /\ DOMAIN Append(s, k) = 1..(Len(s) + 1)
      /\ \A i \in 1..Len(s) : Append(s, k)[i] = s[i]
      /\ Append(s, k)[Len(s) + 1] = k
  OBVIOUS
<1>2. \A i \in 1..(Len(s) + 1) : i \in 1..Len(s) \/ i = Len(s) + 1
  BY <1>1
<1>3. ToSet(Append(s, k)) = ToSet(s) \cup {k}
  BY <1>1, <1>2 DEF ToSet
<1>4. IsInjective(Append(s, k))
  BY <1>1, <1>2 DEF IsInjective, ToSet
<1> QED
  BY <1>1, <1>3, <1>4

LEMMA Empty == << >> \in Seq(Conns) /\ ToSet(<< >>) = {} /\ IsInjective(<< >>)
BY DEF ToSet, IsInjective

LEMMA NoZero == 0 \notin Conns
BY DEF Conns

-----------------------------------------------------------------------------
(* Steps that leave the pool and the connections alone.                    *)
LEMMA PoolUntouched ==
  ASSUME CallsInv, CallShape', HoldingInv', UNCHANGED <<conn, idle, open, poolClosed>>
  PROVE  CallsInv'
BY DEF CallsInv, OpenIsOwned

LEMMA Calling ==
  ASSUME CallsInv, NEW c \in Calls,
         \/ BeginCall(c) \/ Loop(c) \/ Wake(c) \/ Expire(c) \/ EndAttempt(c)
         \/ Arrive(c) \/ SendFails(c) \/ TimesOut(c) \/ Answer(c)
  PROVE  CallsInv'
<1>1. UNCHANGED <<conn, idle, open, poolClosed, waiter>>
  BY DEF BeginCall, Loop, Wake, Expire, EndAttempt, Arrive, SendFails, TimesOut, Answer, connVars
<1>2. \/ callAt' = callAt
      \/ \E p \in CallPlaces :
           /\ callAt' = [callAt EXCEPT ![c] = p]
           /\ callAt[c] # "getting"
           /\ conn[c] # 0 => p \in {"sending", "receiving", "returning"}
  <2>0. conn[c] # 0 => callAt[c] \in {"sending", "receiving", "returning"}
    BY DEF CallsInv, HoldingInv
  <2>1. CASE BeginCall(c) \/ Loop(c) \/ Wake(c) \/ Expire(c)
    BY <2>0, <2>1 DEF BeginCall, Loop, Wake, Expire, MoveCall, CallPlaces
  <2>2. CASE EndAttempt(c)
    BY <2>2 DEF EndAttempt, Finish, Judge, MoveCall, CallPlaces
  <2>3. CASE Arrive(c) \/ SendFails(c) \/ TimesOut(c)
    BY <2>3 DEF Arrive, SendFails, TimesOut, Settle, MoveCall, CallPlaces
  <2>4. CASE Answer(c)
    BY <2>4 DEF Answer, Settle, MoveCall, CallPlaces
  <2> QED
    BY <2>1, <2>2, <2>3, <2>4
<1>3. CallShape'
  BY <1>1, <1>2 DEF CallsInv, CallShape
<1>4. HoldingInv'
  BY <1>1, <1>2 DEF CallsInv, CallShape, HoldingInv
<1> QED
  BY <1>1, <1>3, <1>4, PoolUntouched

(* The server, the network, and calls that get no connection.              *)
LEMMA Refusing ==
  ASSUME CallsInv,
         \/ \E c \in Calls : GetRefused(c) \/ GiveUpWaiting(c)
         \/ \E k \in Conns : ConnectionSleeps(k)
         \/ StopServer \/ ServerStops \/ StartServer
  PROVE  CallsInv'
<1>1. ASSUME \/ \E k \in Conns : ConnectionSleeps(k)
             \/ StopServer \/ ServerStops \/ StartServer
      PROVE  CallsInv'
  <2>1. UNCHANGED <<callAt, conn, idle, open, poolClosed, waiter>>
    BY <1>1 DEF ConnectionSleeps, StopServer, ServerStops, StartServer, connVars
  <2>2. CallShape' /\ HoldingInv'
    BY <2>1 DEF CallsInv, CallShape, HoldingInv
  <2> QED
    BY <2>1, <2>2, PoolUntouched
<1>2. ASSUME NEW c \in Calls, GetRefused(c) \/ GiveUpWaiting(c)  PROVE CallsInv'
  <2>1. /\ UNCHANGED <<conn, idle, open, poolClosed>>
        /\ callAt' = [callAt EXCEPT ![c] = "returning"]
        /\ waiter' = NoCall
    BY <1>2 DEF GetRefused, GiveUpWaiting, Settle, MoveCall, MutexFree, connVars
  <2>2. CallShape' /\ HoldingInv'
    BY <2>1, RemoteCallsAssumption DEF CallsInv, CallShape, HoldingInv, CallPlaces
  <2> QED
    BY <2>1, <2>2, PoolUntouched
<1> QED
  BY <1>1, <1>2

-----------------------------------------------------------------------------
(* Connections come and go.                                                *)

(* A call that asks for a connection has none.                             *)
LEMMA Asks ==
  ASSUME CallsInv, NEW c \in Calls, callAt[c] = "getting" \/ waiter = c
  PROVE  callAt[c] = "getting" /\ conn[c] = 0
BY DEF CallsInv, HoldingInv

(* It gets the first idle one.                                             *)
LEMMA GivenIdle ==
  ASSUME CallsInv, NEW c \in Calls, GetIdle(c) \/ TakeIdle(c)
  PROVE  CallsInv'
<1>1. /\ conn' = [conn EXCEPT ![c] = Head(idle)]
      /\ callAt' = [callAt EXCEPT ![c] = "sending"]
      /\ idle # << >> /\ idle' = Tail(idle)
      /\ UNCHANGED <<open, poolClosed>>
      /\ waiter' = NoCall
  BY DEF GetIdle, TakeIdle, Give, MoveCall, MutexFree
<1>2. conn[c] = 0
  BY Asks DEF GetIdle, TakeIdle
<1>3. /\ Head(idle) \in ToSet(idle) /\ Head(idle) \in Conns
      /\ idle' \in Seq(Conns)
      /\ ToSet(idle') = ToSet(idle) \ {Head(idle)}
      /\ IsInjective(idle')
  BY <1>1, Taken DEF CallsInv, CallShape, OpenIsOwned
<1>4. CallShape'
  BY <1>1, <1>3 DEF CallsInv, CallShape, CallPlaces
<1>5. HoldingInv'
  BY <1>1, RemoteCallsAssumption DEF CallsInv, CallShape, HoldingInv
<1>6. \A d \in Calls : d # c => conn'[d] = conn[d]
  BY <1>1 DEF CallsInv, CallShape
<1>7. conn'[c] = Head(idle) /\ Head(idle) # 0
  BY <1>1, <1>3, NoZero DEF CallsInv, CallShape
<1>8. \A d \in Calls : conn[d] # 0 => conn[d] \notin ToSet(idle)
  BY DEF CallsInv, OpenIsOwned
<1>9. open' = ToSet(idle') \cup ({conn'[d] : d \in Calls} \ {0})
  BY <1>1, <1>2, <1>3, <1>6, <1>7 DEF CallsInv, OpenIsOwned
<1>10. \A d \in Calls : conn'[d] # 0 =>
         conn'[d] \notin ToSet(idle') /\ \A b \in Calls \ {d} : conn'[b] # conn'[d]
  BY <1>3, <1>6, <1>7, <1>8 DEF CallsInv, OpenIsOwned
<1>11. poolClosed' => idle' = << >>
  BY <1>1 DEF CallsInv, OpenIsOwned
<1> QED
  BY <1>3, <1>4, <1>5, <1>9, <1>10, <1>11 DEF CallsInv, OpenIsOwned

(* It gets a new one.                                                      *)
LEMMA GivenNew == ASSUME CallsInv, NEW c \in Calls, GetNew(c)  PROVE CallsInv'
<1> PICK k \in Conns \ open : /\ open' = open \cup {k}
                              /\ conn' = [conn EXCEPT ![c] = k]
                              /\ callAt' = [callAt EXCEPT ![c] = "sending"]
  BY DEF GetNew, Give, MoveCall
<1>1. UNCHANGED <<idle, poolClosed, waiter>> /\ waiter = NoCall
  BY DEF GetNew, MutexFree
<1>2. conn[c] = 0
  BY Asks DEF GetNew
<1>3. CallShape' /\ HoldingInv'
  BY <1>1, RemoteCallsAssumption DEF CallsInv, CallShape, HoldingInv, CallPlaces
<1>4. /\ \A d \in Calls : d # c => conn'[d] = conn[d]
      /\ conn'[c] = k /\ k # 0
  BY NoZero DEF CallsInv, CallShape
<1>5. open' = ToSet(idle') \cup ({conn'[d] : d \in Calls} \ {0})
  BY <1>1, <1>2, <1>4 DEF CallsInv, OpenIsOwned
<1>6. \A d \in Calls : conn[d] # 0 => conn[d] \in open /\ conn[d] # k
  BY DEF CallsInv, OpenIsOwned
<1>7. k \notin ToSet(idle)
  BY DEF CallsInv, OpenIsOwned
<1>8. \A d \in Calls : conn'[d] # 0 =>
        conn'[d] \notin ToSet(idle') /\ \A b \in Calls \ {d} : conn'[b] # conn'[d]
  BY <1>1, <1>4, <1>6, <1>7 DEF CallsInv, OpenIsOwned
<1> QED
  BY <1>1, <1>3, <1>5, <1>8 DEF CallsInv, OpenIsOwned

(* The first idle one is closed, and the call waits.                       *)
LEMMA FoundDead == ASSUME CallsInv, NEW c \in Calls, GetDead(c)  PROVE CallsInv'
<1>1. /\ callAt[c] = "getting" /\ waiter' = c
      /\ idle # << >> /\ idle' = Tail(idle)
      /\ open' = open \ {Head(idle)}
      /\ UNCHANGED <<callAt, conn, poolClosed>>
  BY DEF GetDead
<1>2. /\ Head(idle) \in ToSet(idle)
      /\ idle' \in Seq(Conns)
      /\ ToSet(idle') = ToSet(idle) \ {Head(idle)}
      /\ IsInjective(idle')
  BY <1>1, Taken DEF CallsInv, CallShape, OpenIsOwned
<1>3. CallShape' /\ HoldingInv'
  BY <1>1, <1>2 DEF CallsInv, CallShape, HoldingInv
<1>4. \A d \in Calls : conn[d] # 0 => conn[d] # Head(idle)
  BY <1>2 DEF CallsInv, OpenIsOwned
<1>5. open' = ToSet(idle') \cup ({conn'[d] : d \in Calls} \ {0})
  BY <1>1, <1>2, <1>4 DEF CallsInv, OpenIsOwned
<1>6. /\ \A d \in Calls : conn'[d] # 0 =>
           conn'[d] \notin ToSet(idle') /\ \A b \in Calls \ {d} : conn'[b] # conn'[d]
      /\ poolClosed' => idle' = << >>
  BY <1>1, <1>2 DEF CallsInv, OpenIsOwned
<1> QED
  BY <1>2, <1>3, <1>5, <1>6 DEF CallsInv, OpenIsOwned

(* A connection is returned to the pool or closed.                         *)
LEMMA GivenBack == ASSUME CallsInv, NEW c \in Calls, ReturnConnection(c)  PROVE CallsInv'
<1> DEFINE k == conn[c]
<1>1. /\ k # 0 /\ waiter = NoCall /\ UNCHANGED <<poolClosed, waiter>>
      /\ conn' = [conn EXCEPT ![c] = 0]
      /\ \/ ~poolClosed /\ idle' = Append(idle, k) /\ open' = open
         \/ idle' = idle /\ open' = open \ {k}
  BY DEF ReturnConnection, MutexFree
<1>2. \E p \in CallPlaces : callAt' = [callAt EXCEPT ![c] = p]
  BY DEF ReturnConnection, Finish, Judge, MoveCall, CallPlaces
<1>3. /\ k \in Conns /\ k \notin ToSet(idle)
      /\ \A d \in Calls : d # c => conn'[d] = conn[d] /\ conn[d] # k
      /\ conn'[c] = 0
  BY <1>1 DEF CallsInv, CallShape, OpenIsOwned
<1>4. /\ idle' \in Seq(Conns) /\ IsInjective(idle')
      /\ \/ ~poolClosed /\ ToSet(idle') = ToSet(idle) \cup {k} /\ open' = open
         \/ idle' = idle /\ ToSet(idle') = ToSet(idle) /\ open' = open \ {k}
  <2>1. idle \in Seq(Conns) /\ IsInjective(idle)
    BY DEF CallsInv, CallShape, OpenIsOwned
  <2>2. /\ Append(idle, k) \in Seq(Conns)
        /\ ToSet(Append(idle, k)) = ToSet(idle) \cup {k}
        /\ IsInjective(Append(idle, k))
    BY <1>3, <2>1, PutBack
  <2> QED
    BY <1>1, <2>1, <2>2
<1>5. CallShape'
  BY <1>1, <1>2, <1>4 DEF CallsInv, CallShape
<1>6. HoldingInv'
  BY <1>1, <1>2, <1>3, RemoteCallsAssumption DEF CallsInv, CallShape, HoldingInv
<1>7. open' = ToSet(idle') \cup ({conn'[d] : d \in Calls} \ {0})
  BY <1>1, <1>3, <1>4 DEF CallsInv, OpenIsOwned
<1>8. \A d \in Calls : conn'[d] # 0 =>
        conn'[d] \notin ToSet(idle') /\ \A b \in Calls \ {d} : conn'[b] # conn'[d]
  BY <1>3, <1>4 DEF CallsInv, OpenIsOwned
<1>9. poolClosed' => idle' = << >>
  BY <1>1, <1>4 DEF CallsInv, OpenIsOwned
<1> QED
  BY <1>4, <1>5, <1>6, <1>7, <1>8, <1>9 DEF CallsInv, OpenIsOwned

(* The pool is closed: every idle connection with it.                      *)
LEMMA PoolClosed == ASSUME CallsInv, ClosePool  PROVE CallsInv'
<1>1. /\ idle' = << >> /\ open' = open \ ToSet(idle)
      /\ UNCHANGED <<callAt, conn, waiter>>
  BY DEF ClosePool
<1>2. CallShape' /\ HoldingInv' /\ ToSet(idle') = {} /\ IsInjective(idle')
  BY <1>1, Empty DEF CallsInv, CallShape, HoldingInv
<1>3. open' = ToSet(idle') \cup ({conn'[d] : d \in Calls} \ {0})
  BY <1>1, <1>2 DEF CallsInv, OpenIsOwned
<1>4. \A d \in Calls : conn'[d] # 0 =>
        conn'[d] \notin ToSet(idle') /\ \A b \in Calls \ {d} : conn'[b] # conn'[d]
  BY <1>1, <1>2 DEF CallsInv, OpenIsOwned
<1> QED
  BY <1>1, <1>2, <1>3, <1>4 DEF CallsInv, OpenIsOwned

-----------------------------------------------------------------------------
LEMMA CallsInitially == ASSUME CallsInit  PROVE CallsInv
<1>1. /\ conn = [c \in Calls |-> 0] /\ callAt = [c \in Calls |-> "idle"]
      /\ idle = << >> /\ open = {} /\ waiter = NoCall /\ poolClosed = FALSE
  BY DEF CallsInit
<1> QED
  BY <1>1, Empty, RemoteCallsAssumption
     DEF CallsInv, CallShape, HoldingInv, OpenIsOwned, CallPlaces

LEMMA CallsPreserved == ASSUME CallsInv, [CallsNext]_callVars  PROVE CallsInv'
<1>1. CASE UNCHANGED callVars
  <2>1. UNCHANGED <<callAt, conn, idle, open, waiter, poolClosed>>
    BY <1>1 DEF callVars
  <2>2. CallShape' /\ HoldingInv'
    BY <2>1 DEF CallsInv, CallShape, HoldingInv
  <2> QED
    BY <2>1, <2>2, PoolUntouched
<1>2. ASSUME NEW c \in Calls, CallStep(c) \/ PoolStep(c)  PROVE CallsInv'
  BY <1>2, Calling, Refusing, GivenIdle, GivenNew, FoundDead, GivenBack DEF CallStep, PoolStep
<1> QED
  BY <1>1, <1>2, Refusing, PoolClosed DEF CallsNext

(* For every set of calls and every capacity, and whatever fails, times    *)
(* out or is closed meanwhile: an open connection is in the pool or held   *)
(* by one call, so none leaks and none is used by two.                     *)
THEOREM Ownership == CallsSpec => []OpenIsOwned
<1>1. CallsInit => CallsInv
  BY CallsInitially
<1>2. CallsInv /\ [CallsNext]_callVars => CallsInv'
  BY CallsPreserved
<1>3. CallsInv => OpenIsOwned
  BY DEF CallsInv
<1> QED
  BY <1>1, <1>2, <1>3, PTL DEF CallsSpec

-----------------------------------------------------------------------------
(***************************************************************************)
(* The sockets of the websocket clients, and the requests on them.         *)
(***************************************************************************)

(* A client is connected exactly when it has a socket.                     *)
SocketShape ==
  /\ sock \in [Clients -> 0..MaxDials] /\ dialled \in [Clients -> 0..MaxDials]
  /\ up \in [Clients -> BOOLEAN]
  /\ sockets \subseteq Clients \X Dials
  /\ reader \in [Clients -> [Dials -> 0..Gone]]
  /\ made \in 0..MaxClients /\ client \in 0..MaxClients
  /\ DOMAIN ending = Clients /\ DOMAIN opened = Clients

\* A read loop is at the socket of the client, on its way to it or about to start.
Read(i) == sock[i] \in opened[i] \/ \E n \in Dials : reader[i][n] \in {Top, sock[i]}

SocketInv ==
  /\ SocketShape
  /\ \A i \in Clients : up[i] <=> sock[i] # 0
  /\ SocketIsServed

(* The step leaves a client as it is, or what it does leaves it served.    *)
LEMMA OneClient ==
  ASSUME SocketInv, SocketShape', NEW i \in Clients,
         \A j \in Clients \ {i} :
           /\ sock'[j] = sock[j] /\ up'[j] = up[j]
           /\ reader'[j] = reader[j] /\ opened'[j] = opened[j]
           /\ ending'[j] = "no" => ending[j] = "no"
           /\ \A n \in Dials : <<j, n>> \in sockets' <=> <<j, n>> \in sockets,
         {n \in Dials : <<i, n>> \in sockets'} = {sock'[i]} \ {0},
         up'[i] <=> sock'[i] # 0,
         up'[i] /\ ending'[i] = "no" => Read(i)'
  PROVE  SocketInv'
<1>1. ASSUME NEW j \in Clients \ {i}
      PROVE  /\ {n \in Dials : <<j, n>> \in sockets'} = {sock'[j]} \ {0}
             /\ up'[j] <=> sock'[j] # 0
             /\ up'[j] /\ ending'[j] = "no" => Read(j)'
  <2>1. {n \in Dials : <<j, n>> \in sockets'} = {n \in Dials : <<j, n>> \in sockets}
    OBVIOUS
  <2>2. {n \in Dials : <<j, n>> \in sockets} = {sock[j]} \ {0}
    BY DEF SocketInv, SocketIsServed
  <2>3. up[j] /\ ending[j] = "no" => Read(j)
    BY DEF SocketInv, SocketIsServed, Read
  <2>4. up[j] <=> sock[j] # 0
    BY DEF SocketInv
  <2>5. Read(j) => Read(j)'
    BY DEF Read, Top, Dials
  <2> QED
    BY <2>1, <2>2, <2>3, <2>4, <2>5
<1>2. \A j \in Clients : up'[j] <=> sock'[j] # 0
  BY <1>1
<1>3. SocketIsServed'
  BY <1>1, <1>2 DEF SocketIsServed, Read, Top, Dials, Clients
<1> QED
  BY <1>2, <1>3 DEF SocketInv

(* A connection that was made replaces the one there was; its loops start  *)
(* at once or are about to.                                                *)
LEMMA Installed ==
  ASSUME SocketInv, NEW i \in Clients, Install(i), ending' = ending,
         made' \in 0..MaxClients, client' \in 0..MaxClients,
         \/ BeginLoops(i, 1) /\ opened' = opened
         \/ opened' = [opened EXCEPT ![i] = @ \cup {dialled'[i]}] /\ reader' = reader
  PROVE  SocketInv'
<1> USE WebSocketsAssumption
<1> DEFINE n == dialled[i] + 1
<1>1. /\ dialled[i] < MaxDials /\ dialled' = [dialled EXCEPT ![i] = n]
      /\ sockets' = (sockets \ {<<i, sock[i]>>}) \cup {<<i, n>>}
      /\ sock' = [sock EXCEPT ![i] = n]
      /\ up' = [up EXCEPT ![i] = TRUE]
  BY DEF Install
<1>2. n \in Dials /\ n # 0 /\ 1 \in Dials
  BY <1>1 DEF SocketInv, SocketShape, Dials
<1> HIDE DEF n
<1>3. Dials \subseteq 0..MaxDials /\ Top \in 0..Gone
  BY DEF Dials, Top, Gone
<1>4. /\ dialled' \in [Clients -> 0..MaxDials] /\ sock' \in [Clients -> 0..MaxDials]
      /\ dialled'[i] = n /\ sock'[i] = n /\ up'[i]
  BY <1>1, <1>2, <1>3 DEF SocketInv, SocketShape
<1>5. /\ reader' \in [Clients -> [Dials -> 0..Gone]] /\ DOMAIN opened' = Clients
      /\ \A j \in Clients \ {i} : reader'[j] = reader[j] /\ opened'[j] = opened[j]
      /\ n \in opened'[i] \/ reader'[i][1] = Top
  <2>1. CASE BeginLoops(i, 1) /\ opened' = opened
    BY <1>2, <1>3, <2>1 DEF SocketInv, SocketShape, BeginLoops
  <2>2. CASE opened' = [opened EXCEPT ![i] = @ \cup {dialled'[i]}] /\ reader' = reader
    BY <1>4, <2>2 DEF SocketInv, SocketShape
  <2> QED
    BY <2>1, <2>2
<1>6. SocketShape'
  <2>1. sockets' \subseteq Clients \X Dials
    BY <1>1, <1>2 DEF SocketInv, SocketShape
  <2>2. up' \in [Clients -> BOOLEAN]
    BY <1>1 DEF SocketInv, SocketShape
  <2> QED
    BY <1>4, <1>5, <2>1, <2>2 DEF SocketInv, SocketShape
<1>7. {k \in Dials : <<i, k>> \in sockets'} = {sock'[i]} \ {0}
  <2>1. {k \in Dials : <<i, k>> \in sockets} = {sock[i]} \ {0}
    BY DEF SocketInv, SocketIsServed
  <2>2. \A k \in Dials : <<i, k>> \in sockets' <=> k = n
    <3>1. \A k \in Dials : <<i, k>> \in sockets => k = sock[i]
      BY <2>1
    <3> QED
      BY <1>1, <1>2, <3>1
  <2> QED
    BY <1>2, <1>4, <2>2
<1>8. \A j \in Clients \ {i} :
        /\ sock'[j] = sock[j] /\ up'[j] = up[j]
        /\ \A k \in Dials : <<j, k>> \in sockets' <=> <<j, k>> \in sockets
  BY <1>1 DEF SocketInv, SocketShape
<1>9. Read(i)'
  BY <1>2, <1>4, <1>5 DEF Read
<1> QED
  BY <1>2, <1>4, <1>5, <1>6, <1>7, <1>8, <1>9, OneClient

(* However the client was disconnected, it has neither flag nor socket.    *)
LEMMA Disconnected ==
  ASSUME SocketInv, NEW i \in Clients, HandleDisconnection(i)
  PROVE  /\ sock' \in [Clients -> 0..MaxDials] /\ up' \in [Clients -> BOOLEAN]
         /\ sockets' \subseteq Clients \X Dials
         /\ ~up'[i] /\ sock'[i] = 0 /\ {n \in Dials : <<i, n>> \in sockets'} = {sock'[i]} \ {0}
         /\ \A j \in Clients \ {i} :
              /\ sock'[j] = sock[j] /\ up'[j] = up[j]
              /\ \A n \in Dials : <<j, n>> \in sockets' <=> <<j, n>> \in sockets
<1> USE WebSocketsAssumption
<1>1. {n \in Dials : <<i, n>> \in sockets} = {sock[i]} \ {0}
  BY DEF SocketInv, SocketIsServed
<1>2. CASE up[i]
  <2>1. /\ up' = [up EXCEPT ![i] = FALSE] /\ sockets' = sockets \ {<<i, sock[i]>>}
        /\ sock' = [sock EXCEPT ![i] = 0]
    BY <1>2 DEF HandleDisconnection
  <2>2. ~up'[i] /\ sock'[i] = 0
    BY <2>1 DEF SocketInv, SocketShape
  <2>3. {n \in Dials : <<i, n>> \in sockets'} = {}
    BY <1>1, <2>1
  <2>4. 0 \in 0..MaxDials
    OBVIOUS
  <2>5. sock' \in [Clients -> 0..MaxDials] /\ up' \in [Clients -> BOOLEAN]
    BY <2>1, <2>4 DEF SocketInv, SocketShape
  <2> QED
    BY <2>1, <2>2, <2>3, <2>5 DEF SocketInv, SocketShape
<1>3. CASE ~up[i]
  <2>1. UNCHANGED <<up, sockets, sock>>
    BY <1>3 DEF HandleDisconnection
  <2> QED
    BY <1>1, <1>3, <2>1 DEF SocketInv, SocketShape
<1> QED
  BY <1>2, <1>3

LEMMA LoopServed ==
  ASSUME SocketInv, NEW i \in Clients, NEW n \in Dials, LoopStep(i, n)
  PROVE  SocketInv'
<1> USE WebSocketsAssumption
<1>1. UNCHANGED <<dialled, ending, made, client>>
  BY DEF LoopStep, ReadNext, ReadMessage, ReadFails, PingNext, Ping, StartLoops, nodeVars
<1>2. Gone \in 0..Gone /\ 0..MaxDials \subseteq 0..Gone /\ Top \in 0..Gone
  BY DEF Gone, Top
<1>3. CASE /\ HandleDisconnection(i) /\ opened' = opened
           /\ reader' = reader \/ reader' = [reader EXCEPT ![i][n] = Gone]
  <2>1. reader' \in [Clients -> [Dials -> 0..Gone]] /\ \A j \in Clients \ {i} : reader'[j] = reader[j]
    <3>1. reader \in [Clients -> [Dials -> 0..Gone]]
      BY DEF SocketInv, SocketShape
    <3> QED
      BY <1>2, <1>3, <3>1
  <2>2. SocketShape'
    BY <1>1, <1>3, <2>1, Disconnected DEF SocketInv, SocketShape
  <2> QED
    BY <1>1, <1>3, <2>1, <2>2, Disconnected, OneClient
<1>4. CASE UNCHANGED <<up, sockets, sock, reader, opened>>
  BY <1>1, <1>4 DEF SocketInv, SocketShape, SocketIsServed
<1>5. CASE /\ UNCHANGED <<up, sockets, sock, opened>>
           /\ \/ ending[i] # "no" /\ reader' = [reader EXCEPT ![i][n] = Gone]
              \/ reader' = [reader EXCEPT ![i][n] = sock[i]]
              \/ reader' = [reader EXCEPT ![i][n] = Top]
  <2>1. sock[i] \in 0..Gone
    BY <1>2 DEF SocketInv, SocketShape
  <2>2. reader' \in [Clients -> [Dials -> 0..Gone]] /\ \A j \in Clients \ {i} : reader'[j] = reader[j]
    <3>1. PICK v \in 0..Gone : reader' = [reader EXCEPT ![i][n] = v]
      BY <1>2, <1>5, <2>1
    <3> QED
      BY <3>1 DEF SocketInv, SocketShape
  <2>3. SocketShape'
    BY <1>1, <1>5, <2>2 DEF SocketInv, SocketShape
  <2>4. ending'[i] = "no" => reader'[i][n] \in {Top, sock'[i]}
    BY <1>1, <1>5 DEF SocketInv, SocketShape
  <2>5. /\ {k \in Dials : <<i, k>> \in sockets'} = {sock'[i]} \ {0}
        /\ up'[i] <=> sock'[i] # 0
    BY <1>5 DEF SocketInv, SocketIsServed
  <2>6. ending'[i] = "no" => Read(i)'
    BY <2>4 DEF Read
  <2> QED
    BY <1>1, <1>5, <2>2, <2>3, <2>5, <2>6, OneClient
<1>6. CASE ReadNext(i, n)
  BY <1>3, <1>5, <1>6 DEF ReadNext
<1>7. CASE ReadFails(i, n)
  BY <1>3, <1>7 DEF ReadFails
<1>8. CASE PingNext(i, n) \/ ReadMessage(i, n)
  BY <1>4, <1>5, <1>8 DEF PingNext, ReadMessage
<1>9. CASE Ping(i, n)
  BY <1>3, <1>4, <1>9 DEF Ping
<1>10. CASE StartLoops(i, n)
  <2>1. /\ UNCHANGED <<sock, up, sockets>> /\ opened' = [opened EXCEPT ![i] = @ \ {n}]
        /\ \/ <<i, n>> \in sockets /\ reader' = [reader EXCEPT ![i][n] = Top]
           \/ <<i, n>> \notin sockets /\ reader' = reader
    BY <1>10 DEF StartLoops, BeginLoops
  <2>2. /\ reader' \in [Clients -> [Dials -> 0..Gone]] /\ DOMAIN opened' = Clients
        /\ \A j \in Clients \ {i} : reader'[j] = reader[j] /\ opened'[j] = opened[j]
    <3>1. reader \in [Clients -> [Dials -> 0..Gone]] /\ DOMAIN opened = Clients
      BY DEF SocketInv, SocketShape
    <3>2. reader' = reader \/ reader' = [reader EXCEPT ![i][n] = Top]
      BY <2>1
    <3>3. reader' \in [Clients -> [Dials -> 0..Gone]] /\ \A j \in Clients \ {i} : reader'[j] = reader[j]
      BY <1>2, <3>1, <3>2
    <3> QED
      BY <2>1, <3>1, <3>3
  <2>3. SocketShape'
    BY <1>1, <2>1, <2>2 DEF SocketInv, SocketShape
  <2>4. /\ {k \in Dials : <<i, k>> \in sockets} = {sock[i]} \ {0}
        /\ up[i] <=> sock[i] # 0
        /\ up[i] /\ ending[i] = "no" => Read(i)
    BY DEF SocketInv, SocketIsServed, Read
  <2>5. up'[i] /\ ending'[i] = "no" => Read(i)'
    <3>1. CASE <<i, n>> \in sockets
      BY <2>1, <3>1 DEF Read, SocketInv, SocketShape
    <3>2. CASE <<i, n>> \notin sockets
      <4>1. up[i] => sock[i] # n
        BY <2>4, <3>2
      <4>2. \A k : k \in opened[i] /\ k # n => k \in opened'[i]
        BY <2>1 DEF SocketInv, SocketShape
      <4> QED
        BY <1>1, <2>1, <2>4, <3>2, <4>1, <4>2 DEF Read
    <3> QED
      BY <3>1, <3>2
  <2> QED
    BY <1>1, <2>1, <2>2, <2>3, <2>4, <2>5, OneClient
<1> QED
  BY <1>6, <1>7, <1>8, <1>9, <1>10 DEF LoopStep

LEMMA SocketsKept ==
  ASSUME SocketInv, [WsNext]_wsVars
  PROVE  SocketInv'
<1> USE WebSocketsAssumption
<1>1. CASE \E i \in Clients : \E n \in Dials : LoopStep(i, n)
  BY <1>1, LoopServed
<1>2. ASSUME NEW i \in Clients, DialSucceeds(i)  PROVE SocketInv'
  <2>1. /\ ending' = ending /\ made' = made /\ client' = client /\ reader' = reader /\ Install(i)
        /\ opened' = [opened EXCEPT ![i] = @ \cup {dialled'[i]}]
    BY <1>2 DEF DialSucceeds, nodeVars
  <2> QED
    BY <2>1, Installed DEF SocketInv, SocketShape
<1>3. ASSUME NEW i \in Clients, FinishClose(i)  PROVE SocketInv'
  <2>1. /\ UNCHANGED <<dialled, reader, opened, made, client>>
        /\ \A j \in Clients : ending'[j] = "no" => ending[j] = "no"
        /\ ending'[i] # "no" /\ DOMAIN ending' = Clients
    <3>1. ending[i] = "waiting"
      BY <1>3 DEF FinishClose
    <3>2. /\ UNCHANGED <<dialled, reader, opened, made, client>>
          /\ \E v \in {"failed", "closed"} : ending' = [ending EXCEPT ![i] = v]
      BY <1>3 DEF FinishClose, nodeVars
    <3>3. DOMAIN ending = Clients
      BY DEF SocketInv, SocketShape
    <3> QED
      BY <3>1, <3>2, <3>3
  <2>2. CASE UNCHANGED <<sock, up, sockets>>
    BY <2>1, <2>2 DEF SocketInv, SocketShape, SocketIsServed
  <2>3. CASE /\ sockets' = sockets \ {<<i, sock[i]>>}
             /\ sock' = [sock EXCEPT ![i] = 0] /\ up' = [up EXCEPT ![i] = FALSE]
    <3>1. {n \in Dials : <<i, n>> \in sockets} = {sock[i]} \ {0}
      BY DEF SocketInv, SocketIsServed
    <3>2. sock'[i] = 0 /\ ~up'[i] /\ {n \in Dials : <<i, n>> \in sockets'} = {sock'[i]} \ {0}
      BY <2>3, <3>1 DEF SocketInv, SocketShape
    <3>3. sock' \in [Clients -> 0..MaxDials] /\ up' \in [Clients -> BOOLEAN]
      <4>1. 0 \in 0..MaxDials
        OBVIOUS
      <4> QED
        BY <2>3, <4>1 DEF SocketInv, SocketShape
    <3>4. SocketShape'
      BY <2>1, <2>3, <3>3 DEF SocketInv, SocketShape
    <3>5. \A j \in Clients \ {i} :
            /\ sock'[j] = sock[j] /\ up'[j] = up[j]
            /\ \A n \in Dials : <<j, n>> \in sockets' <=> <<j, n>> \in sockets
      BY <2>3 DEF SocketInv, SocketShape
    <3> QED
      BY <2>1, <3>2, <3>4, <3>5, OneClient
  <2> QED
    BY <1>3, <2>2, <2>3 DEF FinishClose
<1>4. ASSUME NEW p \in Procs, ConnectWebSocket(p)  PROVE SocketInv'
  <2>1. ending' = ending /\ opened' = opened
    BY <1>4 DEF ConnectWebSocket
  <2>2. CASE /\ made < MaxClients /\ made' = made + 1 /\ client' = made + 1
             /\ Install(made + 1) /\ BeginLoops(made + 1, 1)
    <3>1. made + 1 \in Clients /\ made' \in 0..MaxClients /\ client' \in 0..MaxClients
      BY <2>2 DEF SocketInv, SocketShape, Clients
    <3> QED
      BY <2>1, <2>2, <3>1, Installed
  <2>3. CASE UNCHANGED <<sock, up, dialled, sockets, reader, pinger, client, made, starting>>
    BY <2>1, <2>3 DEF SocketInv, SocketShape, SocketIsServed
  <2> QED
    BY <1>4, <2>2, <2>3 DEF ConnectWebSocket
<1>5. ASSUME NEW p \in Procs, DisconnectWebSocket(p)  PROVE SocketInv'
  <2>1. /\ client' = 0 /\ UNCHANGED <<sock, up, dialled, sockets, reader, opened, made>>
        /\ ending' = ending \/ ending' = [ending EXCEPT ![client] = "waiting"]
    BY <1>5 DEF DisconnectWebSocket
  <2>2. DOMAIN ending' = Clients /\ \A j \in Clients : ending'[j] = "no" => ending[j] = "no"
    BY <2>1 DEF SocketInv, SocketShape
  <2> QED
    BY <2>1, <2>2 DEF SocketInv, SocketShape, SocketIsServed
<1>6. CASE UNCHANGED <<sock, up, dialled, sockets, reader, opened, made, client, ending>>
  BY <1>6 DEF SocketInv, SocketShape, SocketIsServed
<1>7. ASSUME NEW p \in Procs,
             \/ Begin(p) \/ NextTopic(p) \/ UseClient(p) \/ TakeClient(p) \/ RegisterRequest(p)
             \/ WriteRequest(p) \/ GiveUpRequest(p) \/ TakeAnswer(p) \/ AddSubscription(p)
             \/ AwaitClose(p)
      PROVE  UNCHANGED <<sock, up, dialled, sockets, reader, opened, made, client, ending>>
  BY <1>7 DEF Begin, NextTopic, UseClient, TakeClient, RegisterRequest, WriteRequest,
              GiveUpRequest, TakeAnswer, AddSubscription, AwaitClose, socketVars, nodeVars
<1>8. ASSUME NEW r \in replies, ReplyStep(r)
      PROVE  UNCHANGED <<sock, up, dialled, sockets, reader, opened, made, client, ending>>
  BY <1>8 DEF ReplyStep, LookUp, SendResponse, CleanUpResponse, socketVars, nodeVars
<1>9. ASSUME NEW i \in Clients, Redial(i) \/ DialFails(i) \/ HandlerEnds(i)
      PROVE  UNCHANGED <<sock, up, dialled, sockets, reader, opened, made, client, ending>>
  BY <1>9 DEF Redial, DialFails, HandlerEnds, socketVars, nodeVars
<1>10. CASE (\E s \in Clients \X Dials : Lose(s)) \/ StartHandler \/ Stop \/ CloseChain \/ UNCHANGED wsVars
  <2>1. UNCHANGED <<sock, up, dialled, sockets, reader, opened, made, client, ending>>
    BY <1>10 DEF Lose, StartHandler, Stop, CloseChain, wsVars, socketVars, nodeVars
  <2> QED
    BY <1>6, <2>1
<1> QED
  BY <1>1, <1>2, <1>3, <1>4, <1>5, <1>6, <1>7, <1>8, <1>9, <1>10
     DEF WsNext, ClientStep, RequestStep

\* SocketIsServed: a client has one socket open at most, the one it uses, and while
\* it says it is connected a read loop is at that socket, on its way to it or about to
\* start: for every number of clients and dials, whatever loops of earlier sockets
\* still run and however many reconnect loops dial.
THEOREM ServedSockets == WsSpec => []SocketIsServed
<1>1. WsInit => SocketInv
  <2> SUFFICES ASSUME WsInit  PROVE SocketInv
    OBVIOUS
  <2>1. 0 \in 0..MaxDials /\ 0 \in 0..MaxClients /\ Gone \in 0..Gone
    BY WebSocketsAssumption DEF Gone
  <2>2. SocketShape
    BY <2>1 DEF WsInit, SocketShape
  <2> QED
    BY <2>2 DEF WsInit, SocketInv, SocketIsServed
<1>2. SocketInv => SocketIsServed
  BY DEF SocketInv
<1> QED
  BY <1>1, <1>2, SocketsKept, PTL DEF WsSpec

-----------------------------------------------------------------------------
(* A channel in the map is open, and who waits at it asked under the id    *)
(* the map has it under: he is not answered before the handler that sends  *)
(* to him is about to delete the entry.                                    *)
RequestShape ==
  /\ serial \in [Procs -> Nat]
  /\ DOMAIN doing = Procs /\ DOMAIN id = Procs /\ DOMAIN answer = Procs
  /\ \A r \in replies : DOMAIN r = {"of", "on", "id", "to", "stage"}

Known(c) == c \in Channels /\ c[2] <= serial[c[1]]
Sent(k) == \E r \in replies : r.stage = "sent" /\ r.id = k

EntryIs(k) ==
  /\ Known(pending[k]) /\ pending[k] \notin shut
  /\ \A p \in Procs : Awaits(p, pending[k]) => id[p] = k /\ (answer[p] = "none" \/ Sent(k))
ReplyIs(r) == \A c \in r.to : Known(c) /\ \A p \in Procs : Awaits(p, c) => id[p] = r.id

RequestInv ==
  /\ RequestShape
  /\ PendingIsAwaited
  /\ \A k \in DOMAIN pending : EntryIs(k)
  /\ \A r \in replies : ReplyIs(r)
  /\ \A c \in shut : Known(c)

(* A step of a process that does not wait after it, and that leaves no     *)
(* entry of its own unless the handler is about to delete it.              *)
LEMMA Leaves ==
  ASSUME RequestInv, NEW p \in Procs, UNCHANGED <<replies, serial, shut>>,
         DOMAIN doing' = Procs, DOMAIN id' = Procs, DOMAIN answer' = Procs,
         \A q \in Procs \ {p} : doing'[q] = doing[q] /\ id'[q] = id[q] /\ answer'[q] = answer[q],
         doing'[p] \notin {"writing", "waiting"},
         DOMAIN pending' \subseteq DOMAIN pending,
         \A k \in DOMAIN pending' : /\ pending'[k] = pending[k]
                                    /\ Awaits(p, pending[k]) => Sent(k)
  PROVE  RequestInv'
<1>1. RequestShape' /\ (\A c \in shut' : Known(c)')
  BY DEF RequestInv, RequestShape, Known
<1>2. \A c : ~Awaits(p, c)'
  BY DEF Awaits
<1>3. \A q \in Procs \ {p} : \A c : Awaits(q, c)' <=> Awaits(q, c)
  BY DEF Awaits, Channel
<1>4. \A k : Sent(k)' <=> Sent(k)
  BY DEF Sent
<1>5. ASSUME NEW r \in replies'  PROVE ReplyIs(r)'
  <2>1. r \in replies /\ ReplyIs(r)
    BY DEF RequestInv
  <2> QED
    BY <1>2, <1>3, <2>1 DEF ReplyIs, Known
<1>6. ASSUME NEW k \in DOMAIN pending'
      PROVE  /\ EntryIs(k)'
             /\ (\E q \in Procs : Awaits(q, pending[k])' /\ id'[q] = k) \/ Sent(k)'
  <2>1. k \in DOMAIN pending /\ pending'[k] = pending[k] /\ EntryIs(k)
        /\ (Awaits(p, pending[k]) => Sent(k))
    BY DEF RequestInv
  <2>2. EntryIs(k)'
    BY <1>2, <1>3, <1>4, <2>1 DEF EntryIs, Known
  <2>3. (\E q \in Procs : Awaits(q, pending[k]) /\ id[q] = k) \/ Sent(k)
    BY <2>1 DEF RequestInv, PendingIsAwaited, Sent
  <2> QED
    BY <1>3, <1>4, <2>1, <2>2, <2>3
<1>7. PendingIsAwaited'
  BY <1>6 DEF PendingIsAwaited, Sent, Awaits, Channel
<1> QED
  BY <1>1, <1>5, <1>6, <1>7 DEF RequestInv

(* A step of the node or of a handler: it moves a reply, or drops it.      *)
LEMMA Replied ==
  ASSUME RequestInv, UNCHANGED <<doing, id, serial, shut>>, DOMAIN answer' = Procs,
         \A r \in replies' : DOMAIN r = {"of", "on", "id", "to", "stage"} /\ ReplyIs(r),
         DOMAIN pending' \subseteq DOMAIN pending,
         \A k \in DOMAIN pending' : pending'[k] = pending[k] /\ (Sent(k) => Sent(k)'),
         \A k \in DOMAIN pending' : \A p \in Procs :
           Awaits(p, pending[k]) => answer'[p] = answer[p] \/ Sent(k)'
  PROVE  RequestInv'
<1>1. RequestShape' /\ (\A c \in shut' : Known(c)')
  BY DEF RequestInv, RequestShape, Known
<1>2. \A q \in Procs : \A c : Awaits(q, c)' <=> Awaits(q, c)
  BY DEF Awaits, Channel
<1>3. \A r \in replies' : ReplyIs(r)'
  BY <1>2 DEF ReplyIs, Known
<1>4. ASSUME NEW k \in DOMAIN pending'
      PROVE  /\ EntryIs(k)'
             /\ (\E q \in Procs : Awaits(q, pending[k])' /\ id'[q] = k) \/ Sent(k)'
  <2>1. k \in DOMAIN pending /\ pending'[k] = pending[k] /\ EntryIs(k) /\ (Sent(k) => Sent(k)')
    BY DEF RequestInv
  <2>2. EntryIs(k)'
    BY <1>2, <2>1 DEF EntryIs, Known
  <2>3. (\E q \in Procs : Awaits(q, pending[k]) /\ id[q] = k) \/ Sent(k)
    BY <2>1 DEF RequestInv, PendingIsAwaited, Sent
  <2> QED
    BY <1>2, <2>1, <2>2, <2>3
<1>5. PendingIsAwaited'
  BY <1>4 DEF PendingIsAwaited, Sent, Awaits, Channel
<1> QED
  BY <1>1, <1>3, <1>4, <1>5 DEF RequestInv

(* The stages of a reply.                                                  *)
LEMMA ReplyKept ==
  ASSUME RequestInv, NEW r \in replies,
         \/ ReplyStep(r)
         \/ \E i \in Clients, n \in Dials : ReadMessage(i, n)
  PROVE  RequestInv'
<1>1. /\ DOMAIN answer = Procs
      /\ \A a \in replies : DOMAIN a = {"of", "on", "id", "to", "stage"} /\ ReplyIs(a)
      /\ \A k \in DOMAIN pending : EntryIs(k)
  BY DEF RequestInv, RequestShape
<1>2. ASSUME NEW a \in replies, a.stage = "asked",
             replies' = (replies \ {a}) \cup {[a EXCEPT !.stage = "arrived"]},
             UNCHANGED <<doing, id, serial, shut, answer, pending>>
      PROVE  RequestInv'
  <2> DEFINE b == [a EXCEPT !.stage = "arrived"]
  <2>1. DOMAIN b = DOMAIN a /\ b.to = a.to /\ b.id = a.id
    BY <1>1
  <2>2. DOMAIN b = {"of", "on", "id", "to", "stage"} /\ ReplyIs(b)
    BY <1>1, <2>1 DEF ReplyIs
  <2>3. replies' = (replies \ {a}) \cup {b}
    BY <1>2
  <2> HIDE DEF b
  <2>4. \A k : Sent(k) => Sent(k)'
    BY <1>2, <2>3 DEF Sent
  <2> QED
    BY <1>1, <1>2, <2>2, <2>3, <2>4, Replied
<1>3. CASE \E i \in Clients, n \in Dials : ReadMessage(i, n)
  <2>1. PICK i \in Clients, n \in Dials : ReadMessage(i, n)
    BY <1>3
  <2>2. UNCHANGED <<doing, id, serial, shut, answer, pending>>
    BY <2>1 DEF ReadMessage, procVars
  <2>3. CASE replies' = replies
    BY <1>1, <2>2, <2>3, Replied DEF Sent
  <2> QED
    BY <1>2, <2>1, <2>2, <2>3 DEF ReadMessage
<1>4. CASE LookUp(r)
  <2>1. r.stage = "arrived" /\ UNCHANGED <<doing, id, serial, shut, answer, pending>>
    BY <1>4 DEF LookUp, procVars
  <2>2. CASE replies' = replies \ {r}
    <3>1. \A k : Sent(k) => Sent(k)'
      BY <2>1, <2>2 DEF Sent
    <3> QED
      BY <1>1, <2>1, <2>2, <3>1, Replied
  <2>3. CASE /\ r.id \in DOMAIN pending
             /\ replies' = (replies \ {r}) \cup {[r EXCEPT !.stage = "found", !.to = {pending[r.id]}]}
    <3> DEFINE b == [r EXCEPT !.stage = "found", !.to = {pending[r.id]}]
    <3>1. DOMAIN b = DOMAIN r /\ b.to = {pending[r.id]} /\ b.id = r.id
      BY <1>1
    <3>2. DOMAIN b = {"of", "on", "id", "to", "stage"} /\ ReplyIs(b)
      BY <1>1, <2>3, <3>1 DEF ReplyIs, EntryIs
    <3> HIDE DEF b
    <3>3. \A k : Sent(k) => Sent(k)'
      BY <2>1, <2>3 DEF Sent
    <3>4. replies' = (replies \ {r}) \cup {b}
      BY <2>3 DEF b
    <3> QED
      BY <1>1, <2>1, <3>2, <3>3, <3>4, Replied
  <2> QED
    BY <1>4, <2>2, <2>3 DEF LookUp
<1>5. CASE SendResponse(r)
  <2> DEFINE b == [r EXCEPT !.stage = "sent"]
  <2>1. PICK v \in {"ok", "error"} :
          answer' = [p \in Procs |-> IF answer[p] = "none" /\ \E c \in r.to \ shut : Awaits(p, c)
                                     THEN v ELSE answer[p]]
    BY <1>5 DEF SendResponse
  <2>2. r.stage = "found" /\ UNCHANGED <<doing, id, serial, shut, pending>>
        /\ replies' = (replies \ {r}) \cup {b}
    BY <1>5 DEF SendResponse
  <2>3. DOMAIN b = DOMAIN r /\ b.to = r.to /\ b.id = r.id /\ b.stage = "sent"
    BY <1>1
  <2>4. DOMAIN b = {"of", "on", "id", "to", "stage"} /\ ReplyIs(b)
    BY <1>1, <2>3 DEF ReplyIs
  <2> HIDE DEF b
  <2>5. (\A k : Sent(k) => Sent(k)') /\ Sent(r.id)'
    BY <2>2, <2>3 DEF Sent
  <2>6. ASSUME NEW k \in DOMAIN pending, NEW p \in Procs, Awaits(p, pending[k])
        PROVE  answer'[p] = answer[p] \/ Sent(k)'
    <3>1. id[p] = k
      BY <1>1, <2>6 DEF EntryIs
    <3>2. CASE \E c \in r.to : Awaits(p, c)
      <4>1. id[p] = r.id
        BY <1>1, <3>2 DEF ReplyIs
      <4> QED
        BY <2>5, <3>1, <4>1
    <3>3. CASE ~\E c \in r.to : Awaits(p, c)
      BY <2>1, <3>3
    <3> QED
      BY <3>2, <3>3
  <2>7. DOMAIN answer' = Procs
    BY <2>1
  <2> QED
    BY <1>1, <2>2, <2>4, <2>5, <2>6, <2>7, Replied
<1>6. CASE CleanUpResponse(r)
  <2>1. /\ UNCHANGED <<doing, id, serial, shut, answer>>
        /\ replies' = replies \ {r} /\ pending' = Without(r.id)
    BY <1>6 DEF CleanUpResponse, procVars
  <2>2. /\ DOMAIN pending' \subseteq DOMAIN pending
        /\ \A k \in DOMAIN pending' : pending'[k] = pending[k] /\ k # r.id
    BY <2>1 DEF Without
  <2>3. \A k \in DOMAIN pending' : Sent(k) => Sent(k)'
    BY <2>1, <2>2 DEF Sent
  <2> QED
    BY <1>1, <2>1, <2>2, <2>3, Replied
<1> QED
  BY <1>3, <1>4, <1>5, <1>6 DEF ReplyStep

(* A new request has a channel of its own, nobody else's.                  *)
LEMMA Registered ==
  ASSUME RequestInv, NEW p \in Procs, RegisterRequest(p)
  PROVE  RequestInv'
<1>0. PICK new : new = <<p, serial[p] + 1>>
  OBVIOUS
<1>1. /\ doing[p] = "numbered" /\ serial' = [serial EXCEPT ![p] = @ + 1]
      /\ pending' = [k \in DOMAIN pending \cup {id[p]} |-> IF k = id[p] THEN new ELSE pending[k]]
      /\ answer' = [answer EXCEPT ![p] = "none"] /\ doing' = [doing EXCEPT ![p] = "writing"]
      /\ UNCHANGED <<id, replies, shut>>
  BY <1>0 DEF RegisterRequest, Go
<1>2. /\ serial \in [Procs -> Nat] /\ DOMAIN doing = Procs /\ DOMAIN answer = Procs
      /\ \A r \in replies : ReplyIs(r)
      /\ \A k \in DOMAIN pending : EntryIs(k)
      /\ \A c \in shut : Known(c)
  BY DEF RequestInv, RequestShape
<1>3. /\ serial' \in [Procs -> Nat] /\ serial'[p] = serial[p] + 1
      /\ doing'[p] = "writing" /\ answer'[p] = "none"
      /\ \A q \in Procs \ {p} : doing'[q] = doing[q] /\ answer'[q] = answer[q] /\ serial'[q] = serial[q]
  BY <1>1, <1>2
<1>4. RequestShape'
  BY <1>1, <1>3 DEF RequestInv, RequestShape
<1>5. ASSUME NEW c, Known(c)
      PROVE  /\ Known(c)' /\ c # new
             /\ ~Awaits(p, c)' /\ \A q \in Procs \ {p} : Awaits(q, c)' <=> Awaits(q, c)
  <2>1. PICK q \in Procs, n \in Nat : c = <<q, n>>
    BY <1>5 DEF Known, Channels
  <2>2. n <= serial[q]
    BY <1>5, <2>1 DEF Known
  <2>3. serial[q] \in Nat /\ serial'[q] \in Nat /\ serial[q] <= serial'[q]
    BY <1>2, <1>3
  <2>4. Known(c)'
    BY <2>1, <2>2, <2>3 DEF Known, Channels
  <2>5. c # new
    BY <1>0, <1>2, <2>1, <2>2
  <2> QED
    BY <1>0, <1>3, <2>4, <2>5 DEF Awaits, Channel
<1>6. Known(new)' /\ new \notin shut /\ Awaits(p, new)'
      /\ \A q \in Procs \ {p} : ~Awaits(q, new)'
  <2>1. Known(new)'
    BY <1>0, <1>2, <1>3 DEF Known, Channels
  <2>2. new \notin shut
    BY <1>2, <1>5
  <2>3. Awaits(p, new)'
    BY <1>0, <1>3 DEF Awaits, Channel
  <2>4. \A q \in Procs \ {p} : ~Awaits(q, new)'
    BY <1>0 DEF Awaits, Channel
  <2> QED
    BY <2>1, <2>2, <2>3, <2>4
<1>7. \A k : Sent(k)' <=> Sent(k)
  BY <1>1 DEF Sent
<1>8. ASSUME NEW k \in DOMAIN pending'
      PROVE  /\ EntryIs(k)'
             /\ (\E q \in Procs : Awaits(q, pending[k])' /\ id'[q] = k) \/ Sent(k)'
  <2>1. CASE k = id[p]
    <3>1. pending'[k] = new
      BY <1>1, <2>1
    <3>2. EntryIs(k)'
      BY <1>1, <1>3, <1>6, <2>1, <3>1 DEF EntryIs
    <3> QED
      BY <1>1, <1>6, <2>1, <3>1, <3>2
  <2>2. CASE k # id[p]
    <3>1. k \in DOMAIN pending /\ pending'[k] = pending[k] /\ EntryIs(k) /\ Known(pending[k])
      BY <1>1, <1>2, <2>2 DEF EntryIs
    <3>2. EntryIs(k)'
      BY <1>1, <1>3, <1>5, <1>7, <3>1 DEF EntryIs
    <3>3. (\E q \in Procs : Awaits(q, pending[k]) /\ id[q] = k) \/ Sent(k)
      BY <3>1 DEF RequestInv, PendingIsAwaited, Sent
    <3>4. ~Awaits(p, pending[k])
      BY <1>1 DEF Awaits
    <3> QED
      BY <1>1, <1>5, <1>7, <3>1, <3>2, <3>3, <3>4
  <2> QED
    BY <2>1, <2>2
<1>9. PendingIsAwaited'
  BY <1>8 DEF PendingIsAwaited, Sent, Awaits, Channel
<1>10. \A r \in replies' : ReplyIs(r)'
  <2> SUFFICES ASSUME NEW r \in replies, NEW c \in r.to
               PROVE  Known(c)' /\ \A q \in Procs : Awaits(q, c)' => id'[q] = r.id
    BY <1>1 DEF ReplyIs
  <2>1. Known(c) /\ \A q \in Procs : Awaits(q, c) => id[q] = r.id
    BY <1>2 DEF ReplyIs
  <2> QED
    BY <1>1, <1>5, <2>1
<1> QED
  BY <1>1, <1>2, <1>4, <1>5, <1>8, <1>9, <1>10 DEF RequestInv

(* The request is on its way: nobody else is concerned.                    *)
LEMMA Written ==
  ASSUME RequestInv, NEW p \in Procs, doing[p] = "writing", NEW r,
         DOMAIN r = {"of", "on", "id", "to", "stage"}, r.to = {}, r.stage = "asked",
         replies' = replies \cup {r}, doing' = [doing EXCEPT ![p] = "waiting"],
         UNCHANGED <<pending, id, serial, shut, answer>>
  PROVE  RequestInv'
<1>1. RequestShape' /\ (\A c \in shut' : Known(c)')
  BY DEF RequestInv, RequestShape, Known
<1>2. \A q \in Procs : \A c : Awaits(q, c)' <=> Awaits(q, c)
  BY DEF RequestInv, RequestShape, Awaits, Channel
<1>3. \A k : Sent(k)' <=> Sent(k)
  BY DEF Sent
<1>4. \A a \in replies' : ReplyIs(a)'
  BY <1>2 DEF RequestInv, ReplyIs, Known
<1>5. \A k \in DOMAIN pending' : EntryIs(k)'
  BY <1>2, <1>3 DEF RequestInv, EntryIs, Known
<1>6. PendingIsAwaited'
  <2> SUFFICES ASSUME NEW k \in DOMAIN pending
               PROVE  (\E q \in Procs : Awaits(q, pending[k])' /\ id[q] = k) \/ Sent(k)'
    BY DEF PendingIsAwaited, Sent, Awaits, Channel
  <2>1. (\E q \in Procs : Awaits(q, pending[k]) /\ id[q] = k) \/ Sent(k)
    BY DEF RequestInv, PendingIsAwaited, Sent
  <2> QED
    BY <1>2, <1>3, <2>1
<1> QED
  BY <1>1, <1>4, <1>5, <1>6 DEF RequestInv

LEMMA RequestKept ==
  ASSUME RequestInv, NEW p \in Procs, RequestStep(p)
  PROVE  RequestInv'
<1> USE DEF Go
<1>1. /\ DOMAIN doing = Procs /\ DOMAIN id = Procs /\ DOMAIN answer = Procs
      /\ \A k \in DOMAIN pending : EntryIs(k)
  BY DEF RequestInv, RequestShape
<1>2. CASE \/ Begin(p) \/ ConnectWebSocket(p) \/ NextTopic(p) \/ UseClient(p) \/ TakeClient(p)
           \/ AddSubscription(p) \/ AwaitClose(p)
  <2>1. /\ doing[p] \in {"idle", "connecting", "next", "using", "taking", "adding", "closing"}
        /\ UNCHANGED <<pending, replies, serial, shut>>
        /\ \E d : d \notin {"writing", "waiting"} /\ doing' = [doing EXCEPT ![p] = d]
        /\ id' = id \/ \E k : id' = [id EXCEPT ![p] = k]
        /\ answer' = answer \/ answer' = [answer EXCEPT ![p] = "none"]
    BY <1>2 DEF Begin, ConnectWebSocket, NextTopic, UseClient, TakeClient, AddSubscription,
                AwaitClose, nodeVars
  <2>2. /\ DOMAIN doing' = Procs /\ DOMAIN id' = Procs /\ DOMAIN answer' = Procs
        /\ doing'[p] \notin {"writing", "waiting"}
        /\ \A q \in Procs \ {p} : doing'[q] = doing[q] /\ id'[q] = id[q] /\ answer'[q] = answer[q]
    BY <1>1, <2>1
  <2>3. \A c : ~Awaits(p, c)
    BY <2>1 DEF Awaits
  <2> QED
    BY <2>1, <2>2, <2>3, Leaves
<1>3. CASE RegisterRequest(p)
  BY <1>3, Registered
(* Who gives up takes his entry along. *)
<1>4. ASSUME doing' = [doing EXCEPT ![p] = "next"], pending' = Without(id[p]),
             UNCHANGED <<id, answer, replies, serial, shut>>
      PROVE  RequestInv'
  <2>1. /\ DOMAIN pending' \subseteq DOMAIN pending
        /\ \A k \in DOMAIN pending' : pending'[k] = pending[k] /\ k # id[p]
    BY <1>4 DEF Without
  <2>2. \A k \in DOMAIN pending' : ~Awaits(p, pending[k])
    BY <1>1, <2>1 DEF EntryIs
  <2>3. /\ DOMAIN doing' = Procs /\ doing'[p] = "next"
        /\ \A q \in Procs \ {p} : doing'[q] = doing[q]
    BY <1>1, <1>4
  <2> QED
    BY <1>1, <1>4, <2>1, <2>2, <2>3, Leaves
<1>5. CASE WriteRequest(p)
  <2>1. UNCHANGED <<id, answer, serial, shut>> /\ doing[p] = "writing"
    BY <1>5 DEF WriteRequest
  <2>2. CASE /\ replies' = replies \cup {[of |-> Channel(p), on |-> <<via[p], sock[via[p]]>>,
                                          id |-> id[p], to |-> {}, stage |-> "asked"]}
             /\ doing' = [doing EXCEPT ![p] = "waiting"] /\ pending' = pending
    <3>1. PICK r : r = [of |-> Channel(p), on |-> <<via[p], sock[via[p]]>>,
                        id |-> id[p], to |-> {}, stage |-> "asked"]
      OBVIOUS
    <3>2. DOMAIN r = {"of", "on", "id", "to", "stage"} /\ r.to = {} /\ r.stage = "asked"
      BY <3>1
    <3> QED
      BY <2>1, <2>2, <3>1, <3>2, Written
  <2> QED
    BY <1>4, <1>5, <2>1, <2>2 DEF WriteRequest
<1>6. CASE GiveUpRequest(p)
  BY <1>4, <1>6 DEF GiveUpRequest
<1>7. CASE TakeAnswer(p)
  <2>1. /\ answer[p] # "none" \/ Channel(p) \in shut
        /\ UNCHANGED <<id, pending, replies, serial, shut>>
        /\ answer' = [answer EXCEPT ![p] = "none"]
        /\ \E d \in {"adding", "next"} : doing' = [doing EXCEPT ![p] = d]
    BY <1>7 DEF TakeAnswer, nodeVars
  <2>2. ASSUME NEW k \in DOMAIN pending, Awaits(p, pending[k])  PROVE Sent(k)
    <3>1. pending[k] \notin shut /\ pending[k] = Channel(p) /\ (answer[p] = "none" \/ Sent(k))
      BY <1>1, <2>2 DEF EntryIs, Awaits
    <3> QED
      BY <2>1, <3>1
  <2>3. /\ DOMAIN doing' = Procs /\ DOMAIN answer' = Procs
        /\ doing'[p] \notin {"writing", "waiting"}
        /\ \A q \in Procs \ {p} : doing'[q] = doing[q] /\ answer'[q] = answer[q]
    BY <1>1, <2>1
  <2> QED
    BY <1>1, <2>1, <2>2, <2>3, Leaves
<1>8. CASE DisconnectWebSocket(p)
  <2>1. /\ UNCHANGED <<id, serial, answer, replies>> /\ pending' = << >>
        /\ doing[p] = "disconnecting" /\ doing' = [doing EXCEPT ![p] = "closing"]
        /\ shut' = shut \cup {pending[k] : k \in DOMAIN pending}
    BY <1>8 DEF DisconnectWebSocket
  <2>2. DOMAIN pending' = {}
    BY <2>1
  <2>3. \A q \in Procs : \A c : Awaits(q, c)' <=> Awaits(q, c)
    BY <1>1, <2>1 DEF Awaits, Channel
  <2>4. \A r \in replies' : ReplyIs(r)'
    BY <2>1, <2>3 DEF RequestInv, ReplyIs, Known
  <2>5. \A c \in shut' : Known(c)'
    BY <1>1, <2>1 DEF RequestInv, EntryIs, Known
  <2>6. RequestShape'
    BY <2>1 DEF RequestInv, RequestShape
  <2> QED
    BY <2>2, <2>4, <2>5, <2>6 DEF RequestInv, PendingIsAwaited
<1> QED
  BY <1>2, <1>3, <1>5, <1>6, <1>7, <1>8 DEF RequestStep

LEMMA PendingKept ==
  ASSUME RequestInv, [WsNext]_wsVars
  PROVE  RequestInv'
<1>1. CASE UNCHANGED <<pending, replies, serial, shut, doing, id, answer>>
  BY <1>1 DEF RequestInv, RequestShape, PendingIsAwaited, EntryIs, ReplyIs, Known, Sent, Awaits, Channel
<1>2. ASSUME NEW i \in Clients, NEW n \in Dials, LoopStep(i, n)  PROVE RequestInv'
  <2>1. CASE ReadMessage(i, n)
    <3>1. CASE replies # {}
      BY <2>1, <3>1, ReplyKept
    <3>2. CASE replies = {}
      BY <1>1, <2>1, <3>2 DEF ReadMessage, procVars
    <3> QED
      BY <3>1, <3>2
  <2>2. CASE ReadNext(i, n) \/ ReadFails(i, n) \/ PingNext(i, n) \/ Ping(i, n) \/ StartLoops(i, n)
    BY <1>1, <2>2 DEF ReadNext, ReadFails, PingNext, Ping, StartLoops, nodeVars, procVars
  <2> QED
    BY <1>2, <2>1, <2>2 DEF LoopStep
<1>3. ASSUME NEW i \in Clients,
             Redial(i) \/ DialFails(i) \/ DialSucceeds(i) \/ FinishClose(i) \/ HandlerEnds(i)
      PROVE  RequestInv'
  BY <1>1, <1>3 DEF Redial, DialFails, DialSucceeds, FinishClose, HandlerEnds, nodeVars, procVars
<1>4. CASE (\E s \in Clients \X Dials : Lose(s)) \/ StartHandler \/ Stop \/ UNCHANGED wsVars
  BY <1>1, <1>4 DEF Lose, StartHandler, Stop, wsVars, nodeVars, procVars
<1>5. CASE CloseChain
  <2>1. /\ UNCHANGED <<pending, id, answer, replies, serial, shut>>
        /\ doing[Starter] \in {"done", "failed"}
        /\ doing' = [doing EXCEPT ![Starter] = "disconnecting"]
    BY <1>5 DEF CloseChain, Go, nodeVars
  <2>2. /\ DOMAIN doing' = Procs /\ DOMAIN id = Procs /\ DOMAIN answer = Procs
        /\ doing'[Starter] = "disconnecting"
        /\ \A q \in Procs \ {Starter} : doing'[q] = doing[q]
    BY <2>1, WebSocketsAssumption DEF RequestInv, RequestShape
  <2>3. \A c : ~Awaits(Starter, c)
    BY <2>1 DEF Awaits
  <2> QED
    BY <2>1, <2>2, <2>3, Leaves, WebSocketsAssumption
<1> QED
  BY <1>2, <1>3, <1>4, <1>5, ReplyKept, RequestKept DEF WsNext, ClientStep

\* PendingIsAwaited: a channel in the map of pending requests is that of somebody who
\* waits for, or is about to send, the request with that id, or the answer was sent
\* to it and the handler is about to delete the entry, for every number of callers -
\* though no lock protects the counter, and two calls may be given the same id.
THEOREM AwaitedRequests == WsSpec => []PendingIsAwaited
<1>1. WsInit => RequestInv
  <2> SUFFICES ASSUME WsInit  PROVE RequestInv
    OBVIOUS
  <2>1. DOMAIN pending = {} /\ replies = {} /\ shut = {}
    BY DEF WsInit
  <2>2. RequestShape
    BY <2>1 DEF WsInit, RequestShape
  <2> QED
    BY <2>1, <2>2 DEF RequestInv, PendingIsAwaited
<1>2. RequestInv => PendingIsAwaited
  BY DEF RequestInv
<1> QED
  BY <1>1, <1>2, PendingKept, PTL DEF WsSpec

-----------------------------------------------------------------------------
(***************************************************************************)
(* The rotation of the log files.                                          *)
(***************************************************************************)

(* Induction over numbers, as the existence of a least counterexample: a   *)
(* statement about a set, which the provers can instantiate.               *)
LEMMA Least ==
  ASSUME NEW T \in SUBSET Nat, T # {}
  PROVE  \E m \in T : \A k \in T : m <= k
<1>1. PICK R : R = OpToRel(<, Nat)
  OBVIOUS
<1>2. \A x, y \in Nat : y < x => <<y, x>> \in R
  BY <1>1 DEF OpToRel
<1>3. IsWellFoundedOn(R, Nat)
  BY <1>1, NatLessThanWellFounded
<1>4. PICK m \in T : \A k \in T : ~(<<k, m>> \in R)
  BY <1>3, WFMin
<1>5. ASSUME NEW k \in T  PROVE m <= k
  <2>1. m \in Nat /\ k \in Nat /\ ~(k < m)
    BY <1>2, <1>4, <1>5
  <2> QED
    BY <2>1
<1> QED
  BY <1>4, <1>5

\* What Max chooses from a bounded set of numbers.
LEMMA MaxIs ==
  ASSUME NEW S \in SUBSET Nat, S # {}, NEW b \in Nat, \A n \in S : n <= b
  PROVE  Max(S) \in S /\ \A n \in S : n <= Max(S)
<1>1. PICK T : T = {b - n : n \in S}
  OBVIOUS
<1>2. T \in SUBSET Nat /\ T # {}
  <2>1. \A n \in S : n \in Nat /\ b - n \in Nat
    OBVIOUS
  <2>2. PICK x \in S : TRUE
    OBVIOUS
  <2>3. b - x \in T
    BY <1>1
  <2>4. \A y \in T : y \in Nat
    BY <1>1, <2>1
  <2> QED
    BY <2>3, <2>4
<1>3. PICK least \in T : \A k \in T : least <= k
  BY <1>2, Least
<1>4. PICK m \in S : least = b - m
  BY <1>1, <1>3
<1>5. ASSUME NEW n \in S  PROVE n <= m
  <2>1. least <= b - n
    BY <1>1, <1>3
  <2> QED
    BY <1>4, <2>1
<1>6. \E x \in S : \A y \in S : x >= y
  BY <1>5
<1>7. Max(S) \in S /\ \A y \in S : Max(S) >= y
  BY <1>6 DEF Max
<1> QED
  BY <1>7

\* A file that the current day or an earlier one wrote, of offered lines.
FileIs(f, today, last) ==
  /\ DOMAIN f = {"there", "lines", "day"}
  /\ f.lines \in Seq(Nat) /\ f.day \in Nat
  /\ f.day <= today
  /\ ~f.there => f.lines = << >>
  /\ \A k \in Lines(f) : k <= last

DiskShape ==
  /\ offered \in Nat /\ day \in Nat
  /\ Numbers \in SUBSET (Nat \ {0}) /\ numbered = [n \in Numbers |-> numbered[n]]
  /\ \E b \in Nat : \A n \in Numbers : n <= b
  /\ stuck \in SUBSET Numbers
  /\ FileIs(currentFile, day, offered)
  /\ \A n \in Numbers : FileIs(numbered[n], day, offered)
  /\ written \in SUBSET (1..offered)

\* A file of a larger number was written to as late or later.
DaysAscend ==
  \A n \in Numbers :
    /\ currentFile.there => numbered[n].day <= currentFile.day
    /\ \A m \in Numbers : n < m => numbered[n].day <= numbered[m].day

LogInv == DiskShape /\ DaysAscend /\ KeptIsNewest

LEMMA NoLines == ASSUME NEW f, f.lines = << >>  PROVE Lines(f) = {} /\ InOrder(f)
BY DEF Lines, InOrder, ToSet

LEMMA OpenedIs ==
  ASSUME NEW f, FileIs(f, day, offered), day \in Nat, offered \in Nat
  PROVE  /\ FileIs(Opened(f), day, offered) /\ Opened(f).there
         /\ Opened(f).lines = f.lines /\ Opened(f).day \in Nat
         /\ f.there => Opened(f) = f
         /\ ~f.there => Opened(f).day = day
<1>1. CASE f.there
  BY <1>1 DEF Opened, FileIs
<1>2. CASE ~f.there
  <2>1. Opened(f) = [[there |-> FALSE, lines |-> << >>, day |-> 0] EXCEPT !.there = TRUE, !.day = day]
    BY <1>2 DEF Opened, NoFile
  <2>2. /\ DOMAIN Opened(f) = {"there", "lines", "day"} /\ Opened(f).there
        /\ Opened(f).lines = << >> /\ Opened(f).day = day
    BY <2>1
  <2>3. << >> \in Seq(Nat)
    OBVIOUS
  <2>4. Lines(Opened(f)) = {}
    BY <2>2, NoLines
  <2>5. FileIs(Opened(f), day, offered)
    BY <2>2, <2>3, <2>4 DEF FileIs
  <2> QED
    BY <1>2, <2>2, <2>5 DEF FileIs
<1> QED
  BY <1>1, <1>2

LEMMA AddIs ==
  ASSUME NEW f, f.lines \in Seq(Nat), DOMAIN f = {"there", "lines", "day"}, NEW n \in Nat
  PROVE  /\ Add(f, n).lines \in Seq(Nat) /\ Add(f, n).day = day /\ Add(f, n).there = f.there
         /\ DOMAIN Add(f, n) = {"there", "lines", "day"}
         /\ Lines(Add(f, n)) = Lines(f) \cup ({n} \ {Torn})
         /\ (InOrder(f) /\ (n = Torn \/ \A k \in Lines(f) : k < n)) => InOrder(Add(f, n))
<1> DEFINE s == f.lines
           t == Append(s, n)
<1>1. s \in Seq(Nat) /\ Len(s) \in Nat
  OBVIOUS
<1>2. /\ Add(f, n).lines = t /\ Add(f, n).day = day /\ Add(f, n).there = f.there
      /\ DOMAIN Add(f, n) = {"there", "lines", "day"}
  BY <1>1 DEF Add
<1>3. /\ t \in Seq(Nat) /\ DOMAIN t = 1..(Len(s) + 1) /\ DOMAIN s = 1..Len(s)
      /\ t[Len(s) + 1] = n /\ \A i \in 1..Len(s) : t[i] = s[i]
  BY <1>1
<1>4. ToSet(t) = ToSet(s) \cup {n}
  <2>1. ToSet(t) \subseteq ToSet(s) \cup {n}
    BY <1>1, <1>3 DEF ToSet
  <2>2. ToSet(s) \cup {n} \subseteq ToSet(t)
    BY <1>1, <1>3 DEF ToSet
  <2> QED
    BY <2>1, <2>2
<1>5. Lines(Add(f, n)) = Lines(f) \cup ({n} \ {Torn})
  BY <1>1, <1>2, <1>4 DEF Lines
<1>6. ASSUME InOrder(f), n = Torn \/ \A k \in Lines(f) : k < n
      PROVE  InOrder(Add(f, n))
  <2> SUFFICES ASSUME NEW i \in DOMAIN t, NEW j \in DOMAIN t, i < j, t[i] # Torn, t[j] # Torn
               PROVE  t[i] < t[j]
    BY <1>2 DEF InOrder
  <2>1. CASE j \in DOMAIN s
    BY <1>1, <1>3, <1>6, <2>1 DEF InOrder
  <2>2. CASE j = Len(s) + 1
    <3>1. i \in 1..Len(s) /\ t[j] = n /\ t[i] = s[i]
      BY <1>1, <1>3, <2>2
    <3>2. t[i] \in Lines(f)
      BY <1>1, <1>3, <3>1 DEF Lines, ToSet
    <3> QED
      BY <1>6, <3>1, <3>2
  <2> QED
    BY <1>1, <1>3, <2>1, <2>2
<1> QED
  BY <1>2, <1>3, <1>5, <1>6

\* Max finds the largest number of a file.
LEMMA NextIs ==
  ASSUME LogInv
  PROVE  /\ getNextSequenceNumber(numbered) \in Nat \ {0}
         /\ \A n \in Numbers : n < getNextSequenceNumber(numbered)
<1>1. PICK b \in Nat : \A n \in Numbers : n <= b
  BY DEF LogInv, DiskShape
<1>2. Numbers \cup {0} \in SUBSET Nat
  BY DEF LogInv, DiskShape
<1>3. PICK m \in Nat : m = Max(Numbers \cup {0}) /\ \A n \in Numbers \cup {0} : n <= m
  <2>1. \A n \in Numbers \cup {0} : n <= b
    BY <1>1
  <2> QED
    BY <1>2, <2>1, MaxIs
<1>4. getNextSequenceNumber(numbered) = m + 1
  BY <1>3 DEF getNextSequenceNumber, Numbers
<1> QED
  BY <1>2, <1>3, <1>4

\* Only the file that is written to changes.
LEMMA CurrentSteps ==
  ASSUME LogInv, offered' = offered + 1, UNCHANGED <<day, numbered, stuck>>,
         NEW f, currentFile' = f, FileIs(f, day, offered + 1), InOrder(f),
         (f.there /\ f.day # day) => (currentFile.there /\ f.day = currentFile.day),
         NEW K \in SUBSET {offered + 1},
         Lines(f) = Lines(currentFile) \cup K, written' = written \cup K
  PROVE  LogInv'
<1> USE DEF LogInv
<1>1. offered \in Nat /\ day \in Nat /\ offered' \in Nat /\ Numbers' = Numbers
  BY DEF DiskShape, Numbers
<1>2. DiskShape'
  <2>1. ASSUME NEW n \in Numbers  PROVE FileIs(numbered[n], day, offered + 1)
    <3>1. FileIs(numbered[n], day, offered)
      BY DEF DiskShape
    <3>2. \A k \in Lines(numbered[n]) : k \in Nat
      BY <3>1 DEF FileIs, Lines, ToSet
    <3> QED
      BY <1>1, <3>1, <3>2 DEF FileIs
  <2>2. written' \in SUBSET (1..offered')
    BY <1>1 DEF DiskShape
  <2>3. numbered' = [n \in Numbers |-> numbered[n]]
    BY DEF DiskShape
  <2> QED
    BY <1>1, <2>1, <2>2, <2>3 DEF DiskShape
<1>3. DaysAscend'
  <2>1. \A n \in Numbers : numbered[n].day <= day
    BY DEF DiskShape, FileIs
  <2> QED
    BY <1>1, <2>1 DEF DaysAscend
<1>4. KeptIsNewest'
  <2>1. /\ Kept' = Kept /\ KeptLines' = KeptLines \cup K /\ Kept \subseteq Numbers
    <3>1. Kept' = Kept /\ Kept \subseteq Numbers
      BY <1>1 DEF Kept
    <3>2. PICK U : U = UNION {Lines(numbered[n]) : n \in Kept}
      OBVIOUS
    <3>3. KeptLines = U \cup Lines(currentFile)
      BY <3>2 DEF KeptLines
    <3>4. numbered' = numbered /\ currentFile' = f
      OBVIOUS
    <3>5. UNION {Lines(numbered'[n]) : n \in Kept'} = U
      BY <3>1, <3>2, <3>4
    <3>6. KeptLines' = U \cup Lines(f)
      BY <3>4, <3>5 DEF KeptLines
    <3> QED
      BY <3>1, <3>3, <3>6
  <2>2. written \subseteq 1..offered /\ KeptLines \subseteq written
    BY DEF DiskShape, KeptIsNewest
  <2>3. \A k \in KeptLines : k \in Nat /\ k < offered + 1
    BY <1>1, <2>2
  <2>4. \A n \in Kept : Precedes(numbered[n], f)
    BY <2>3 DEF Precedes, KeptLines, KeptIsNewest
  <2>5. \A lost \in written' \ KeptLines' : \A line \in KeptLines' : lost < line
    <3> SUFFICES ASSUME NEW lost \in written' \ KeptLines', NEW line \in KeptLines'
                 PROVE  lost < line
      OBVIOUS
    <3>1. lost \in written \ KeptLines /\ lost \in Nat /\ lost <= offered
      BY <1>1, <2>1, <2>2
    <3>2. CASE line \in KeptLines
      BY <3>1, <3>2 DEF KeptIsNewest
    <3>3. CASE line = offered + 1
      BY <1>1, <3>1, <3>3
    <3> QED
      BY <2>1, <3>2, <3>3
  <2>6. KeptLines' \subseteq written'
    BY <2>1, <2>2
  <2> QED
    BY <2>1, <2>4, <2>5, <2>6 DEF KeptIsNewest
<1> QED
  BY <1>2, <1>3, <1>4

LEMMA LogInitially == ASSUME RotationInit  PROVE LogInv
<1>1. << >> \in Seq(Nat) /\ DOMAIN << >> = {}
  OBVIOUS
<1>2. Numbers = {} /\ Kept = {}
  BY <1>1 DEF RotationInit, Numbers, Kept
<1>3. Lines(NoFile) = {} /\ InOrder(NoFile)
  BY NoLines DEF NoFile
<1>4. FileIs(NoFile, 1, 0)
  BY <1>1, <1>3 DEF FileIs, NoFile
<1>5. DiskShape
  <2>1. numbered = [n \in Numbers |-> numbered[n]]
    BY <1>2 DEF RotationInit
  <2> QED
    BY <1>2, <1>4, <2>1 DEF RotationInit, DiskShape
<1>6. DaysAscend
  BY <1>2 DEF DaysAscend
<1>7. KeptIsNewest
  <2>1. KeptLines = {}
    BY <1>2, <1>3 DEF KeptLines, RotationInit
  <2> QED
    BY <1>2, <1>3, <2>1 DEF KeptIsNewest, RotationInit
<1> QED
  BY <1>5, <1>6, <1>7 DEF LogInv

LEMMA CurrentActions ==
  ASSUME LogInv, WriteLine \/ OpenFails \/ RenameFails \/ CloseFails
  PROVE  LogInv'
<1>1. /\ offered \in Nat /\ day \in Nat /\ FileIs(currentFile, day, offered) /\ InOrder(currentFile)
      /\ offered' = offered + 1 /\ UNCHANGED <<day, numbered, stuck>>
  BY DEF LogInv, DiskShape, KeptIsNewest, WriteLine, OpenFails, RenameFails, CloseFails, Offer
<1>2. PICK c : c = Opened(currentFile)
  OBVIOUS
<1>3. /\ FileIs(c, day, offered) /\ c.there /\ c.lines = currentFile.lines /\ c.day \in Nat
      /\ c.day # day => (currentFile.there /\ c.day = currentFile.day)
  BY <1>1, <1>2, OpenedIs
<1>4. Lines(c) = Lines(currentFile) /\ InOrder(c)
  BY <1>1, <1>3 DEF Lines, InOrder
<1>5. ASSUME NEW f, FileIs(f, day, offered)  PROVE FileIs(f, day, offered + 1)
  <2>1. \A k \in Lines(f) : k \in Nat
    BY <1>5 DEF FileIs, Lines, ToSet
  <2> QED
    BY <1>1, <1>5, <2>1 DEF FileIs
<1>6. ASSUME NEW k \in {Torn, offered + 1}
      PROVE  /\ FileIs(Add(c, k), day, offered + 1) /\ InOrder(Add(c, k))
             /\ Lines(Add(c, k)) = Lines(currentFile) \cup ({k} \ {Torn}) /\ Add(c, k).day = day
  <2>1. k \in Nat
    BY <1>1 DEF Torn
  <2>2. c.lines \in Seq(Nat) /\ DOMAIN c = {"there", "lines", "day"}
    BY <1>3 DEF FileIs
  <2>3. \A l \in Lines(c) : l \in Nat /\ l <= offered
    BY <1>3 DEF FileIs, Lines, ToSet
  <2>4. k = Torn \/ \A l \in Lines(c) : l < k
    BY <1>1, <2>3
  <2>5. /\ Add(c, k).lines \in Seq(Nat) /\ Add(c, k).day = day /\ Add(c, k).there
        /\ DOMAIN Add(c, k) = {"there", "lines", "day"}
        /\ Lines(Add(c, k)) = Lines(c) \cup ({k} \ {Torn})
        /\ InOrder(Add(c, k))
    BY <1>3, <1>4, <2>1, <2>2, <2>4, AddIs
  <2>6. \A l \in Lines(Add(c, k)) : l <= offered + 1
    BY <1>1, <2>3, <2>5
  <2> QED
    BY <1>1, <1>4, <2>5, <2>6 DEF FileIs
<1>7. CASE currentFile' = currentFile /\ written' = written
  <2>1. /\ {} \in SUBSET {offered + 1} /\ written' = written \cup {}
        /\ Lines(currentFile) = Lines(currentFile) \cup {}
    BY <1>7
  <2>2. FileIs(currentFile, day, offered + 1)
    BY <1>1, <1>5
  <2> QED
    BY <1>1, <1>7, <2>1, <2>2, CurrentSteps
<1>8. CASE currentFile' = c /\ written' = written
  <2>1. /\ {} \in SUBSET {offered + 1} /\ written' = written \cup {}
        /\ Lines(c) = Lines(currentFile) \cup {}
    BY <1>4, <1>8
  <2>2. FileIs(c, day, offered + 1)
    BY <1>3, <1>5
  <2> QED
    BY <1>1, <1>3, <1>4, <1>8, <2>1, <2>2, CurrentSteps
<1>9. CASE currentFile' = Add(c, Torn) /\ written' = written
  <2>1. Lines(Add(c, Torn)) = Lines(currentFile)
    BY <1>6
  <2> QED
    BY <1>1, <1>6, <1>9, <2>1, CurrentSteps
<1>10. CASE currentFile' = Add(c, offered + 1) /\ written' = written \cup {offered + 1}
  <2>1. {offered + 1} \ {Torn} = {offered + 1}
    BY <1>1 DEF Torn
  <2>2. Lines(Add(c, offered + 1)) = Lines(currentFile) \cup {offered + 1}
    BY <1>6, <2>1
  <2> QED
    BY <1>1, <1>6, <1>10, <2>2, CurrentSteps
<1> QED
  BY <1>1, <1>2, <1>7, <1>8, <1>9, <1>10 DEF WriteLine, OpenFails, RenameFails, CloseFails

\* The numbered files after a rotation, before any is removed.
Renamed(n) == [m \in Numbers \cup {n} |-> IF m = n THEN Opened(currentFile) ELSE numbered[m]]

LEMMA RenamedIs ==
  ASSUME LogInv, NEW n \in Nat \ {0}, \A m \in Numbers : m < n
  PROVE  /\ n \notin Numbers /\ DOMAIN Renamed(n) = Numbers \cup {n}
         /\ \A m \in Numbers : Renamed(n)[m] = numbered[m]
         /\ \A m \in Numbers \cup {n} : FileIs(Renamed(n)[m], day, offered) /\ Renamed(n)[m].day \in Nat
         /\ Lines(Renamed(n)[n]) = Lines(currentFile)
         /\ \A m \in Kept \cup {n} : InOrder(Renamed(n)[m])
         /\ \A m, k \in Kept \cup {n} : m < k => Precedes(Renamed(n)[m], Renamed(n)[k])
         /\ \A m, k \in Numbers \cup {n} : m < k => Renamed(n)[m].day <= Renamed(n)[k].day
<1> USE DEF LogInv
<1>1. /\ offered \in Nat /\ day \in Nat /\ FileIs(currentFile, day, offered)
      /\ Numbers \in SUBSET (Nat \ {0}) /\ Kept \subseteq Numbers
      /\ \A m \in Numbers : FileIs(numbered[m], day, offered) /\ numbered[m].day \in Nat /\ numbered[m].day <= day
  BY DEF DiskShape, Kept, FileIs
<1>2. PICK c : c = Opened(currentFile)
  OBVIOUS
<1>3. /\ FileIs(c, day, offered) /\ c.lines = currentFile.lines /\ c.day \in Nat
      /\ currentFile.there => c.day = currentFile.day
      /\ ~currentFile.there => c.day = day
  BY <1>1, <1>2, OpenedIs
<1>4. Lines(c) = Lines(currentFile) /\ InOrder(c)
  BY <1>3 DEF Lines, InOrder, KeptIsNewest
<1>5. n \notin Numbers
  BY <1>1
<1>6. PICK r : r = Renamed(n)
  OBVIOUS
<1>7. /\ DOMAIN r = Numbers \cup {n} /\ r[n] = c
      /\ \A m \in Numbers : r[m] = numbered[m]
  BY <1>2, <1>5, <1>6 DEF Renamed
<1>8. \A m \in Numbers \cup {n} : FileIs(r[m], day, offered) /\ r[m].day \in Nat
  BY <1>1, <1>3, <1>7
<1>9. \A m \in Kept \cup {n} : InOrder(r[m])
  BY <1>1, <1>4, <1>7 DEF KeptIsNewest
<1>10. \A m, k \in Kept \cup {n} : m < k => Precedes(r[m], r[k])
  <2> SUFFICES ASSUME NEW m \in Kept \cup {n}, NEW k \in Kept \cup {n}, m < k
               PROVE  Precedes(r[m], r[k])
    OBVIOUS
  <2>1. CASE k \in Kept
    BY <1>1, <1>7, <2>1 DEF KeptIsNewest
  <2>2. CASE k = n
    BY <1>1, <1>4, <1>7, <2>2 DEF KeptIsNewest, Precedes
  <2> QED
    BY <2>1, <2>2
<1>11. \A m, k \in Numbers \cup {n} : m < k => r[m].day <= r[k].day
  <2> SUFFICES ASSUME NEW m \in Numbers \cup {n}, NEW k \in Numbers \cup {n}, m < k
               PROVE  r[m].day <= r[k].day
    OBVIOUS
  <2>1. CASE k \in Numbers
    BY <1>1, <1>7, <2>1 DEF DaysAscend
  <2>2. CASE k = n
    BY <1>1, <1>3, <1>7, <2>2 DEF DaysAscend
  <2> QED
    BY <2>1, <2>2
<1> QED
  BY <1>4, <1>5, <1>6, <1>7, <1>8, <1>9, <1>10, <1>11

\* What cleanupOldFiles means to remove.
Doomed(files) ==
  {n \in DOMAIN files : MaxBackups > 0 /\ Cardinality({m \in DOMAIN files : m > n}) >= MaxBackups}
  \cup {n \in DOMAIN files : MaxAge > 0 /\ files[n].day < day - MaxAge}

\* With a file it removes the older ones.
LEMMA OlderDoomed ==
  ASSUME NEW files, DOMAIN files \in SUBSET Nat, NEW b \in Nat, \A n \in DOMAIN files : n <= b,
         \A n \in DOMAIN files : files[n].day \in Nat,
         \A m, k \in DOMAIN files : m < k => files[m].day <= files[k].day,
         day \in Nat,
         NEW n \in Doomed(files), NEW o \in DOMAIN files, o < n
  PROVE  o \in Doomed(files)
<1>1. MaxBackups \in Nat /\ MaxAge \in Nat /\ n \in DOMAIN files
  BY RotationAssumption DEF Doomed
<1>2. CASE MaxBackups > 0 /\ Cardinality({m \in DOMAIN files : m > n}) >= MaxBackups
  <2>1. PICK A, B : A = {m \in DOMAIN files : m > n} /\ B = {m \in DOMAIN files : m > o}
    OBVIOUS
  <2>2. A \in SUBSET B
    BY <1>1, <2>1
  <2>3. IsFiniteSet(B)
    <3>1. B \in SUBSET Nat /\ \A m \in B : m <= b
      BY <2>1
    <3> QED
      BY <3>1, FS_BoundedSetOfNaturals
  <2>4. IsFiniteSet(A) /\ Cardinality(A) <= Cardinality(B) /\ Cardinality(A) \in Nat /\ Cardinality(B) \in Nat
    BY <2>2, <2>3, FS_Subset, FS_CardinalityType
  <2>5. Cardinality(B) >= MaxBackups
    BY <1>1, <1>2, <2>1, <2>4
  <2> QED
    BY <1>2, <2>1, <2>5 DEF Doomed
<1>3. CASE MaxAge > 0 /\ files[n].day < day - MaxAge
  <2>1. files[o].day <= files[n].day
    BY <1>1
  <2>2. files[o].day < day - MaxAge
    BY <1>1, <1>3, <2>1
  <2> QED
    BY <1>3, <2>2 DEF Doomed
<1> QED
  BY <1>2, <1>3 DEF Doomed

LEMMA CleanupIs ==
  ASSUME NEW files, NEW failing
  PROVE  cleanupOldFiles(files, failing) = [n \in DOMAIN files \ (Doomed(files) \ failing) |-> files[n]]
BY DEF cleanupOldFiles, Doomed

\* A rotation: the file that was written to gets the next number, and what goes
\* is older than what stays.
LEMMA Rotated == ASSUME LogInv, RotateAndWrite  PROVE LogInv'
<1> USE DEF LogInv
<1>1. /\ offered \in Nat /\ day \in Nat /\ offered' = offered + 1 /\ day' = day
      /\ Numbers \in SUBSET (Nat \ {0}) /\ Kept \subseteq Numbers /\ stuck \in SUBSET Numbers
      /\ written \subseteq 1..offered /\ KeptLines \subseteq written
  BY DEF DiskShape, Kept, KeptIsNewest, RotateAndWrite, Offer
<1>2. PICK n : n = getNextSequenceNumber(numbered) /\ n \in Nat \ {0} /\ \A m \in Numbers : m < n
  BY NextIs
<1>3. PICK r : r = Renamed(n)
  OBVIOUS
<1>4. /\ n \notin Numbers /\ DOMAIN r = Numbers \cup {n}
      /\ \A m \in Numbers : r[m] = numbered[m]
      /\ \A m \in Numbers \cup {n} : FileIs(r[m], day, offered) /\ r[m].day \in Nat
      /\ Lines(r[n]) = Lines(currentFile)
      /\ \A m \in Kept \cup {n} : InOrder(r[m])
      /\ \A m, k \in Kept \cup {n} : m < k => Precedes(r[m], r[k])
      /\ \A m, k \in Numbers \cup {n} : m < k => r[m].day <= r[k].day
  BY <1>2, <1>3, RenamedIs
<1>14. PICK failing \in SUBSET (Numbers \cup {n}), opens \in BOOLEAN :
         /\ numbered' = cleanupOldFiles(r, failing)
         /\ stuck' = (stuck \cap DOMAIN numbered') \cup (DOMAIN numbered' \ DOMAIN cleanupOldFiles(r, {}))
         /\ IF opens
            THEN /\ currentFile' = Add(Opened(NoFile), offered')
                 /\ written' = written \cup {offered'}
                 /\ rotator' = [file |-> "open", size |-> 1]
            ELSE /\ currentFile' = NoFile
                 /\ rotator' = [file |-> "none", size |-> 0]
                 /\ UNCHANGED written
  BY <1>2, <1>3, Zenon DEF RotateAndWrite, Renamed
<1>5. /\ numbered' = cleanupOldFiles(r, failing)
      /\ stuck' = (stuck \cap DOMAIN numbered') \cup (DOMAIN numbered' \ DOMAIN cleanupOldFiles(r, {}))
      /\ \/ /\ currentFile' = Add(Opened(NoFile), offered')
            /\ written' = written \cup {offered'}
         \/ currentFile' = NoFile /\ written' = written
  BY <1>14
<1>6. PICK gone : gone = Doomed(r) /\ gone \subseteq Numbers \cup {n}
  <2>1. Doomed(r) \subseteq Numbers \cup {n}
    BY <1>4 DEF Doomed
  <2> QED
    BY <2>1
<1>7. PICK stay : stay = (Numbers \cup {n}) \ (gone \ failing)
  OBVIOUS
<1>8. /\ Numbers' = stay /\ numbered' = [m \in stay |-> r[m]]
      /\ stay \subseteq Numbers \cup {n}
      /\ stuck' \subseteq stay /\ Kept' = ((Kept \cup {n}) \ gone)
  <2>1. numbered' = [m \in stay |-> r[m]]
    BY <1>4, <1>5, <1>6, <1>7, CleanupIs
  <2>2. DOMAIN numbered' = stay
    BY <2>1
  <2>3. DOMAIN cleanupOldFiles(r, {}) = (Numbers \cup {n}) \ gone
    <3>1. gone \ {} = gone
      OBVIOUS
    <3>2. cleanupOldFiles(r, {}) = [m \in (Numbers \cup {n}) \ gone |-> r[m]]
      BY <1>4, <1>6, <3>1, CleanupIs
    <3> QED
      BY <3>2
  <2>4. stuck' = (stuck \cap stay) \cup (stay \ ((Numbers \cup {n}) \ gone))
    BY <1>5, <2>2, <2>3
  <2>5. stay \ stuck' = (Kept \cup {n}) \ gone
    <3>1. Kept = Numbers \ stuck
      BY DEF Kept
    <3> QED
      BY <1>1, <1>4, <1>6, <1>7, <2>4, <3>1
  <2> QED
    BY <1>7, <2>1, <2>2, <2>4, <2>5 DEF Kept, Numbers
<1>9. PICK f, K : /\ f = currentFile' /\ K \in SUBSET {offered + 1} /\ written' = written \cup K
                  /\ FileIs(f, day, offered + 1) /\ Lines(f) = K /\ InOrder(f)
                  /\ f.there => f.day = day
  <2>1. Lines(NoFile) = {} /\ InOrder(NoFile) /\ ~NoFile.there /\ NoFile.lines = << >>
    BY NoLines DEF NoFile
  <2>2. << >> \in Seq(Nat)
    OBVIOUS
  <2>3. FileIs(NoFile, day, offered) /\ FileIs(NoFile, day, offered + 1)
    BY <1>1, <2>1, <2>2 DEF FileIs, NoFile
  <2>4. CASE currentFile' = NoFile /\ written' = written
    <3>1. {} \in SUBSET {offered + 1} /\ written' = written \cup {}
      BY <2>4
    <3> QED
      BY <2>1, <2>3, <2>4, <3>1
  <2>5. CASE currentFile' = Add(Opened(NoFile), offered + 1) /\ written' = written \cup {offered + 1}
    <3>1. PICK c : c = Opened(NoFile)
      OBVIOUS
    <3>2. FileIs(c, day, offered) /\ c.there /\ c.lines = << >>
      BY <1>1, <2>1, <2>3, <3>1, OpenedIs
    <3>3. Lines(c) = {} /\ InOrder(c)
      BY <3>2, NoLines
    <3>4. PICK a : a = Add(c, offered + 1)
      OBVIOUS
    <3>5. /\ a.lines \in Seq(Nat) /\ a.day = day /\ a.there /\ DOMAIN a = {"there", "lines", "day"}
          /\ Lines(a) = Lines(c) \cup ({offered + 1} \ {Torn}) /\ InOrder(a)
      <4>1. c.lines \in Seq(Nat) /\ DOMAIN c = {"there", "lines", "day"} /\ offered + 1 \in Nat
        BY <1>1, <3>2 DEF FileIs
      <4> QED
        BY <3>2, <3>3, <3>4, <4>1, AddIs
    <3>6. Lines(a) = {offered + 1}
      BY <1>1, <3>3, <3>5 DEF Torn
    <3>7. FileIs(a, day, offered + 1)
      BY <1>1, <3>5, <3>6 DEF FileIs
    <3>8. currentFile' = a /\ {offered + 1} \in SUBSET {offered + 1}
      BY <2>5, <3>1, <3>4
    <3> QED
      BY <2>5, <3>5, <3>6, <3>7, <3>8
  <2> QED
    BY <1>1, <1>5, <2>4, <2>5
<1>10. \A m \in stay : numbered'[m] = r[m]
  BY <1>8
<1>11. DiskShape'
  <2>1. ASSUME NEW m \in stay  PROVE FileIs(r[m], day, offered + 1)
    <3>1. FileIs(r[m], day, offered)
      BY <1>4, <1>8
    <3>2. \A k \in Lines(r[m]) : k \in Nat
      BY <3>1 DEF FileIs, Lines, ToSet
    <3> QED
      BY <1>1, <3>1, <3>2 DEF FileIs
  <2>2. \A m \in stay : m <= n
    BY <1>1, <1>2, <1>8
  <2>3. written' \in SUBSET (1..offered')
    BY <1>1, <1>9
  <2>4. stay \in SUBSET (Nat \ {0})
    BY <1>1, <1>2, <1>8
  <2>5. numbered' = [m \in stay |-> numbered'[m]]
    BY <1>8
  <2>6. offered' \in Nat
    BY <1>1
  <2> QED
    BY <1>1, <1>2, <1>8, <1>9, <1>10, <2>1, <2>2, <2>3, <2>4, <2>5, <2>6 DEF DiskShape
<1>12. DaysAscend'
  <2>1. \A m \in stay : r[m].day <= day
    BY <1>4, <1>8 DEF FileIs
  <2>2. \A m \in stay : currentFile'.there => numbered'[m].day <= currentFile'.day
    BY <1>9, <1>10, <2>1
  <2>3. \A m, k \in stay : m < k => numbered'[m].day <= numbered'[k].day
    BY <1>4, <1>8, <1>10
  <2> QED
    BY <1>8, <2>2, <2>3 DEF DaysAscend
<1>13. KeptIsNewest'
  <2>1. ASSUME NEW m \in Kept'
        PROVE  m \in Kept \cup {n} /\ m \notin gone /\ m \in stay /\ numbered'[m] = r[m]
    BY <1>1, <1>7, <1>8, <1>10
  <2>2. /\ \A m \in Kept \cup {n} : Lines(r[m]) \subseteq KeptLines
        /\ \A x \in KeptLines : \E m \in Kept \cup {n} : x \in Lines(r[m])
    BY <1>1, <1>4 DEF KeptLines
  <2>3. KeptLines' = (UNION {Lines(numbered'[m]) : m \in Kept'}) \cup K
    BY <1>9 DEF KeptLines
  <2>4. \A x \in KeptLines' : x \in K \/ \E m \in Kept' : x \in Lines(r[m]) /\ x \in KeptLines
    BY <2>1, <2>2, <2>3
  <2>5. \A m \in Kept' : Lines(r[m]) \subseteq KeptLines'
    BY <2>1, <2>3
  <2>6. \A x \in KeptLines : x \in Nat /\ x <= offered
    BY <1>1
  <2>7. ASSUME NEW m \in Kept'
        PROVE  /\ InOrder(numbered'[m]) /\ Precedes(numbered'[m], currentFile')
               /\ \A k \in Kept' : m < k => Precedes(numbered'[m], numbered'[k])
    <3>1. InOrder(numbered'[m]) /\ \A k \in Kept' : m < k => Precedes(numbered'[m], numbered'[k])
      BY <1>4, <2>1
    <3>2. Precedes(numbered'[m], currentFile')
      <4>1. \A x \in Lines(r[m]) : x \in Nat /\ x <= offered
        BY <2>1, <2>2, <2>6
      <4>2. \A x \in Lines(r[m]) : x < offered + 1
        BY <1>1, <4>1
      <4>3. numbered'[m] = r[m] /\ Lines(currentFile') \subseteq {offered + 1}
        BY <1>9, <2>1
      <4> QED
        BY <4>2, <4>3 DEF Precedes
    <3> QED
      BY <3>1, <3>2
  <2>8. KeptLines' \subseteq written'
    BY <1>1, <1>9, <2>4
  <2>9. ASSUME NEW lost \in written' \ KeptLines', NEW line \in KeptLines'
        PROVE  lost < line
    <3>1. lost \in written /\ lost \in Nat /\ lost <= offered
      <4>1. lost \in written
        BY <1>9, <2>3, <2>9
      <4> QED
        BY <1>1, <4>1
    <3>2. CASE line \in K
      BY <1>1, <1>9, <3>1, <3>2
    <3>3. ASSUME NEW m \in Kept', line \in Lines(r[m]), line \in KeptLines
          PROVE  lost < line
      <4>1. CASE lost \notin KeptLines
        BY <3>1, <3>3, <4>1 DEF KeptIsNewest
      <4>2. CASE lost \in KeptLines
        <5>1. PICK o \in Kept \cup {n} : lost \in Lines(r[o])
          BY <2>2, <4>2
        <5>2. o \in gone
          BY <1>8, <2>5, <2>9, <5>1
        <5>3. o < m
          <6>1. o \in Nat /\ m \in Nat /\ o # m /\ o \in DOMAIN r /\ m \in DOMAIN r
            BY <1>1, <1>2, <1>4, <2>1, <5>1, <5>2
          <6>2. m < o => m \in gone
            <7>1. DOMAIN r \in SUBSET Nat /\ n \in Nat /\ \A x \in DOMAIN r : x <= n
              <8>1. \A x \in Numbers \cup {n} : x \in Nat /\ x <= n
                BY <1>1, <1>2
              <8> QED
                BY <1>2, <1>4, <8>1
            <7>2. /\ \A x \in DOMAIN r : r[x].day \in Nat
                  /\ \A x, y \in DOMAIN r : x < y => r[x].day <= r[y].day
              BY <1>4
            <7> QED
              BY <1>1, <1>2, <1>6, <5>2, <6>1, <7>1, <7>2, OlderDoomed
          <6> QED
            BY <2>1, <6>1, <6>2
        <5> QED
          BY <1>4, <2>1, <3>3, <5>1, <5>3 DEF Precedes
      <4> QED
        BY <4>1, <4>2
    <3> QED
      BY <2>4, <3>2, <3>3
  <2> QED
    BY <1>9, <2>7, <2>8, <2>9 DEF KeptIsNewest
<1> QED
  BY <1>11, <1>12, <1>13

LEMMA LogPreserved == ASSUME LogInv, [RotationNext]_logVars  PROVE LogInv'
<1>1. CASE WriteLine \/ OpenFails \/ RenameFails \/ CloseFails
  BY <1>1, CurrentActions
<1>2. CASE RotateAndWrite
  BY <1>2, Rotated
<1>3. CASE StartAgain \/ DayPasses \/ UNCHANGED logVars
  <2>1. /\ UNCHANGED <<numbered, currentFile, written, stuck, offered>>
        /\ day' = day \/ day' = day + 1
    BY <1>3 DEF StartAgain, DayPasses, logVars
  <2>2. day \in Nat /\ day' \in Nat /\ day <= day' /\ Numbers' = Numbers
    BY <2>1 DEF LogInv, DiskShape, Numbers
  <2>3. ASSUME NEW f, FileIs(f, day, offered)  PROVE FileIs(f, day', offered)
    BY <2>2, <2>3 DEF FileIs
  <2>4. DiskShape'
    BY <2>1, <2>2, <2>3 DEF LogInv, DiskShape
  <2>5. DaysAscend'
    BY <2>1, <2>2 DEF LogInv, DaysAscend
  <2>6. KeptIsNewest'
    BY <2>1, <2>2 DEF LogInv, KeptIsNewest, Kept, KeptLines
  <2> QED
    BY <2>4, <2>5, <2>6 DEF LogInv
<1> QED
  BY <1>1, <1>2, <1>3 DEF RotationNext

\* KeptIsNewest: the log files of a service hold the last of the lines that were
\* written, each once and in order, except in files that could not be removed: for
\* all sizes, numbers and ages of files, across failed rotations and restarts.
THEOREM NewestKept == RotationSpec => []KeptIsNewest
<1>1. LogInv => KeptIsNewest
  BY DEF LogInv
<1> QED
  BY <1>1, LogInitially, LogPreserved, PTL DEF RotationSpec
=============================================================================
