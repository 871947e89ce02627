------------------------------- MODULE WebSockets -------------------------------
(***************************************************************************)
(* The websocket to a node: pkg/websocket, a client that reconnects by     *)
(* itself; nodeclient, which sends requests through it and hands out the   *)
(* notifications of its subscriptions; and the chain connection of the     *)
(* task monitor, which subscribes to events and reconnects on demand.      *)
(*                                                                         *)
(* A client is made by every ConnectWebSocket; the n-th connection it      *)
(* dials is socket n, which starts read loop n and ping loop n.  A loop    *)
(* that works with a socket holds the one it saw, not the current one.     *)
(* The channel <<p, n>> is that of the n-th request of process p.          *)
(* Of the notifications only the reading is modelled.                      *)
(***************************************************************************)
EXTENDS Naturals, FiniteSets

CONSTANTS
  Procs,       \* goroutines that connect and subscribe
  Starter,     \* that of startChainConnection, and then of Stop; TriggerReconnect the others
  Topics,      \* event subscriptions
  NoTopic,     \* none of them
  MaxClients,  \* bound on clients made
  MaxDials,    \* bound on the connections of a client
  MaxLosses    \* bound on connections that break

ASSUME WebSocketsAssumption ==
  /\ NoTopic \notin Topics /\ Starter \in Procs
  /\ MaxClients \in Nat \ {0} /\ MaxDials \in Nat \ {0} /\ MaxLosses \in Nat

Clients == 1..MaxClients
Dials == 1..MaxDials

\* A loop: between two rounds, or over (or not begun); otherwise it is at a socket.
Top == 0
Gone == MaxDials + 1

VARIABLES
  \* pkg/websocket, per client
  sock,       \* conn, 0 for nil
  up,         \* isConnected
  dialled,    \* connections made so far
  sockets,    \* sockets not closed on this side
  broken,     \* sockets the other side or the network closed
  reader,     \* per read loop: the socket it reads, Top or Gone
  pinger,     \* per ping loop: likewise
  redialling, \* reconnect loops between two attempts
  dialling,   \* reconnect loops that dial
  opened,     \* connections of those that dialled, without their loops yet
  ending,     \* Close: "no", "waiting" for the loops, "closed", "failed"
  \* nodeclient
  client,     \* wsClient, 0 for nil
  made,       \* clients made so far
  starting,   \* handleWebSocketMessages that did not look at wsClient yet
  handlers,   \* per client: those that handle its messages
  requestID,
  pending,    \* pendingRequests: id -> the channel of who waits
  replies,    \* what the node answers, from the request to the end of handleResponse
  shut,       \* channels that were closed
  channels,   \* wsSubManager: topics with an open channel
  \* the chain connection
  doing,      \* per process: where it is
  todo,       \* per process: topics to subscribe to
  topic,      \* per process: the one it subscribes to
  via,        \* per process: the client it uses
  id,         \* per process: the id of its request
  serial,     \* per process: requests registered so far
  answer,     \* per process: what the channel of its request has
  stopping,   \* Stop was called
  panicked,   \* a goroutine did: the process is gone
  losses

socketVars == <<sock, up, dialled, sockets, broken, reader, pinger, redialling, dialling, opened, ending>>
nodeVars == <<client, made, starting, handlers, requestID, pending, replies, shut, channels>>
procVars == <<doing, todo, topic, via, id, serial, answer, stopping>>
wsVars == <<socketVars, nodeVars, procVars, panicked, losses>>

WsInit ==
  /\ sock = [i \in Clients |-> 0] /\ up = [i \in Clients |-> FALSE]
  /\ dialled = sock
  /\ sockets = {} /\ broken = {}
  /\ reader = [i \in Clients |-> [n \in Dials |-> Gone]]
  /\ pinger = reader
  /\ redialling = sock /\ dialling = sock
  /\ opened = [i \in Clients |-> {}]
  /\ ending = [i \in Clients |-> "no"]
  /\ client = 0 /\ made = 0 /\ starting = 0 /\ handlers = sock
  /\ requestID = 0 /\ pending = << >> /\ replies = {} /\ shut = {} /\ channels = {}
  /\ doing = [p \in Procs |-> "idle"]
  /\ todo = [p \in Procs |-> {}]
  /\ topic = [p \in Procs |-> NoTopic]
  /\ via = [p \in Procs |-> 0] /\ id = via /\ serial = via
  /\ answer = [p \in Procs |-> "none"]
  /\ stopping = FALSE
  /\ panicked = FALSE /\ losses = 0

-----------------------------------------------------------------------------
(* pkg/websocket                                                           *)

\* Connect has dialled: the socket replaces the old one, which is closed.
Install(i) ==
  /\ dialled[i] < MaxDials
  /\ LET n == dialled[i] + 1
     IN  /\ dialled' = [dialled EXCEPT ![i] = n]
         /\ sockets' = (sockets \ {<<i, sock[i]>>}) \cup {<<i, n>>}
         /\ sock' = [sock EXCEPT ![i] = n]
         /\ up' = [up EXCEPT ![i] = TRUE]

\* ... and starts the two loops of socket n.
BeginLoops(i, n) ==
  /\ reader' = [reader EXCEPT ![i][n] = Top]
  /\ pinger' = [pinger EXCEPT ![i][n] = Top]

More(count, i) == [count EXCEPT ![i] = @ + 1]
Less(count, i) == [count EXCEPT ![i] = @ - 1]

(* A faulty variant: the flag is cleared and the socket forgotten unclosed. *)
DisconnectionUnclosed(i) ==
  IF up[i]
  THEN /\ up' = [up EXCEPT ![i] = FALSE]
       /\ sock' = [sock EXCEPT ![i] = 0]
       /\ redialling' = More(redialling, i)
       /\ UNCHANGED sockets
  ELSE UNCHANGED <<up, sockets, sock, redialling>>

\* handleDisconnection: whoever comes first closes the current socket, which
\* need not be the one that failed, and starts the reconnect loop.
HandleDisconnection(i) ==
  IF up[i]
  THEN /\ up' = [up EXCEPT ![i] = FALSE]
       /\ sockets' = sockets \ {<<i, sock[i]>>}
       /\ sock' = [sock EXCEPT ![i] = 0]
       /\ redialling' = More(redialling, i)
  ELSE UNCHANGED <<up, sockets, sock, redialling>>

\* readLoop, between two messages: the context first, then the current socket.
ReadNext(i, n) ==
  /\ reader[i][n] = Top
  /\ IF ending[i] # "no"
     THEN reader' = [reader EXCEPT ![i][n] = Gone] /\ UNCHANGED <<up, sockets, sock, redialling>>
     ELSE IF sock[i] = 0
     THEN reader' = [reader EXCEPT ![i][n] = Gone] /\ HandleDisconnection(i)
     ELSE reader' = [reader EXCEPT ![i][n] = sock[i]] /\ UNCHANGED <<up, sockets, sock, redialling>>
  /\ UNCHANGED <<dialled, broken, pinger, dialling, opened, ending, nodeVars, procVars, panicked, losses>>

\* ReadMessage gives a message that goes into the channel: a notification, or the
\* answer to a request that was sent over the socket.
ReadMessage(i, n) ==
  /\ reader[i][n] \in Dials /\ <<i, reader[i][n]>> \in sockets \ broken
  /\ reader' = [reader EXCEPT ![i][n] = Top]
  /\ \/ UNCHANGED replies
     \/ \E r \in replies :
          /\ r.stage = "asked" /\ r.on = <<i, reader[i][n]>>
          /\ replies' = (replies \ {r}) \cup {[r EXCEPT !.stage = "arrived"]}
  /\ UNCHANGED <<sock, up, dialled, sockets, broken, pinger, redialling, dialling, opened, ending,
                 client, made, starting, handlers, requestID, pending, shut, channels,
                 procVars, panicked, losses>>

\* It fails: closed by either side, or past the deadline, which only pongs extend,
\* or because two loops read the socket, which gorilla/websocket does not allow.
ReadFails(i, n) ==
  /\ reader[i][n] \in Dials
  /\ \/ <<i, reader[i][n]>> \in broken \/ <<i, reader[i][n]>> \notin sockets
     \/ ending[i] # "no" /\ \A k \in Dials : pinger[i][k] = Gone
     \/ \E m \in Dials \ {n} : reader[i][m] = reader[i][n]
  /\ reader' = [reader EXCEPT ![i][n] = Gone]
  /\ HandleDisconnection(i)
  /\ UNCHANGED <<dialled, broken, pinger, dialling, opened, ending, nodeVars, procVars, panicked, losses>>

\* pingLoop at a tick: it skips a client that is not connected.  Only a ping
\* that fails ends it: a disconnection the read loop saw leaves it for the next
\* socket, which gets a ping loop of its own as well.
PingNext(i, n) ==
  /\ pinger[i][n] = Top
  /\ \/ ending[i] # "no" /\ pinger' = [pinger EXCEPT ![i][n] = Gone]
     \/ up[i] /\ sock[i] # 0 /\ pinger' = [pinger EXCEPT ![i][n] = sock[i]]
  /\ UNCHANGED <<sock, up, dialled, sockets, broken, reader, redialling, dialling,
                 opened, ending, nodeVars, procVars, panicked, losses>>

\* WriteControl to the socket it saw.
Ping(i, n) ==
  /\ pinger[i][n] \in Dials
  /\ LET s == <<i, pinger[i][n]>>
     IN  \/ /\ s \in sockets
            /\ pinger' = [pinger EXCEPT ![i][n] = Top]
            /\ UNCHANGED <<up, sockets, sock, redialling>>
         \/ /\ s \notin sockets \/ s \in broken
            /\ pinger' = [pinger EXCEPT ![i][n] = Gone]
            /\ HandleDisconnection(i)
  /\ UNCHANGED <<dialled, broken, reader, dialling, opened, ending, nodeVars, procVars, panicked, losses>>

\* reconnectLoop: it ends when the client is closed, at MaxRetries, or when Connect
\* finds that another loop has connected; else Connect dials.
Redial(i) ==
  /\ redialling[i] > 0
  /\ redialling' = Less(redialling, i)
  /\ \/ UNCHANGED dialling
     \/ ending[i] = "no" /\ ~(up[i] /\ sock[i] # 0) /\ dialling' = More(dialling, i)
  /\ UNCHANGED <<sock, up, dialled, sockets, broken, reader, pinger, opened, ending,
                 nodeVars, procVars, panicked, losses>>

DialFails(i) ==
  /\ dialling[i] > 0
  /\ dialling' = Less(dialling, i) /\ redialling' = More(redialling, i)
  /\ UNCHANGED <<sock, up, dialled, sockets, broken, reader, pinger, opened, ending,
                 nodeVars, procVars, panicked, losses>>

DialSucceeds(i) ==
  /\ dialling[i] > 0
  /\ dialling' = Less(dialling, i)
  /\ Install(i)
  /\ opened' = [opened EXCEPT ![i] = @ \cup {dialled'[i]}]
  /\ UNCHANGED <<broken, reader, pinger, redialling, ending, nodeVars, procVars, panicked, losses>>

\* Connect, after it has unlocked: SetReadDeadline fails on a socket that was closed
\* meanwhile, and the reconnect loop goes on, beside any that closing it started.
StartLoops(i, n) ==
  /\ n \in opened[i]
  /\ opened' = [opened EXCEPT ![i] = @ \ {n}]
  /\ IF <<i, n>> \in sockets
       THEN BeginLoops(i, n) /\ UNCHANGED redialling
       ELSE redialling' = More(redialling, i) /\ UNCHANGED <<reader, pinger>>
  /\ UNCHANGED <<sock, up, dialled, sockets, broken, dialling, ending,
                 nodeVars, procVars, panicked, losses>>

\* Close, when every goroutine of the client has returned.  It gives up when
\* the close message cannot be sent.
FinishClose(i) ==
  /\ ending[i] = "waiting" /\ redialling[i] = 0 /\ dialling[i] = 0 /\ opened[i] = {}
  /\ \A n \in Dials : reader[i][n] = Gone /\ pinger[i][n] = Gone
  /\ \/ /\ sock[i] # 0 /\ <<i, sock[i]>> \in broken
        /\ ending' = [ending EXCEPT ![i] = "failed"] /\ UNCHANGED <<sock, up, sockets>>
     \/ /\ ending' = [ending EXCEPT ![i] = "closed"]
        /\ sockets' = sockets \ {<<i, sock[i]>>}
        /\ sock' = [sock EXCEPT ![i] = 0] /\ up' = [up EXCEPT ![i] = FALSE]
  /\ UNCHANGED <<dialled, broken, reader, pinger, redialling, dialling, opened, nodeVars, procVars,
                 panicked, losses>>

Lose(s) ==
  /\ s \in sockets \ broken /\ losses < MaxLosses
  /\ broken' = broken \cup {s} /\ losses' = losses + 1
  /\ UNCHANGED <<sock, up, dialled, sockets, reader, pinger, redialling, dialling, opened, ending,
                 nodeVars, procVars, panicked>>

-----------------------------------------------------------------------------
(* nodeclient                                                              *)

Go(p, place) == doing' = [doing EXCEPT ![p] = place]
IsWebSocketConnected == client # 0 /\ up[client]

\* ConnectWebSocket: a new client replaces whatever there is, which goes on
\* reconnecting; its handler has the caller's context.  Nobody else has the client
\* while it connects.  Without it the process ends; inside EthSubscribe only the
\* subscription fails.
ConnectWebSocket(p) ==
  /\ doing[p] = "connecting"
  /\ \/ /\ made < MaxClients /\ ~stopping
        /\ made' = made + 1 /\ client' = made + 1 /\ starting' = starting + 1
        /\ Install(made + 1) /\ BeginLoops(made + 1, 1)
        /\ Go(p, IF topic[p] = NoTopic THEN "next" ELSE "taking")
     \/ /\ Go(p, IF topic[p] = NoTopic THEN "failed" ELSE "next")
        /\ UNCHANGED <<sock, up, dialled, sockets, reader, pinger, client, made, starting>>
  /\ UNCHANGED <<broken, redialling, dialling, opened, ending, handlers, requestID, pending,
                 replies, shut, channels, todo, topic, via, id, serial, answer, stopping,
                 panicked, losses>>

\* handleWebSocketMessages reads wsClient when it gets to run; it ends with the
\* context or with the channel of the messages.
StartHandler ==
  /\ starting > 0
  /\ starting' = starting - 1
  /\ handlers' = IF client = 0 THEN handlers ELSE More(handlers, client)
  /\ UNCHANGED <<socketVars, client, made, requestID, pending, replies, shut, channels,
                 procVars, panicked, losses>>

Handling(i) == Cardinality({r \in replies : r.on[1] = i /\ r.stage \in {"found", "sent"}})
HandlerEnds(i) ==
  /\ handlers[i] > Handling(i)
  /\ stopping \/ ending[i] = "closed"
  /\ handlers' = Less(handlers, i)
  /\ UNCHANGED <<socketVars, client, made, starting, requestID, pending, replies, shut, channels,
                 procVars, panicked, losses>>

\* EthSubscribe: connected?  If not, ConnectWebSocket.  Then the client, whatever
\* it is by now, and the id of the request, which no lock protects.
UseClient(p) ==
  /\ doing[p] = "using"
  /\ Go(p, IF IsWebSocketConnected THEN "taking" ELSE "connecting")
  /\ UNCHANGED <<socketVars, nodeVars, todo, topic, via, id, serial, answer, stopping, panicked, losses>>

TakeClient(p) ==
  /\ doing[p] = "taking"
  /\ IF client = 0
     THEN Go(p, "next") /\ UNCHANGED <<via, id>>
     ELSE /\ via' = [via EXCEPT ![p] = client]
          /\ id' = [id EXCEPT ![p] = requestID]
          /\ Go(p, "numbered")
  /\ UNCHANGED <<socketVars, nodeVars, todo, topic, serial, answer, stopping, panicked, losses>>

Channel(p) == <<p, serial[p]>>
RegisterRequest(p) ==
  /\ doing[p] = "numbered"
  /\ requestID' = id[p] + 1
  /\ serial' = [serial EXCEPT ![p] = @ + 1]
  /\ pending' = [k \in DOMAIN pending \cup {id[p]} |->
                   IF k = id[p] THEN <<p, serial[p] + 1>> ELSE pending[k]]
  /\ answer' = [answer EXCEPT ![p] = "none"]
  /\ Go(p, "writing")
  /\ UNCHANGED <<socketVars, client, made, starting, handlers, replies, shut, channels, todo, topic,
                 via, id, stopping, panicked, losses>>

\* An entry is deleted.
Without(k) == [j \in DOMAIN pending \ {k} |-> pending[j]]

\* WriteMessage, after which the node may answer.
WriteRequest(p) ==
  /\ doing[p] = "writing"
  /\ \/ /\ up[via[p]] /\ sock[via[p]] # 0
        /\ replies' = replies \cup {[of |-> Channel(p), on |-> <<via[p], sock[via[p]]>>,
                                     id |-> id[p], to |-> {}, stage |-> "asked"]}
        /\ Go(p, "waiting") /\ UNCHANGED pending
     \/ /\ pending' = Without(id[p])
        /\ Go(p, "next") /\ UNCHANGED replies
  /\ UNCHANGED <<socketVars, client, made, starting, handlers, requestID, shut, channels, todo, topic,
                 via, id, serial, answer, stopping, panicked, losses>>

\* handleResponse looks up the channel by the id.  An id that two requests share
\* belongs to the later one; the answer to the other, and one that cannot be
\* parsed, goes nowhere.
LookUp(r) ==
  /\ r.stage = "arrived" /\ handlers[r.on[1]] > Handling(r.on[1])
  /\ \/ replies' = replies \ {r}
     \/ /\ r.id \in DOMAIN pending
        /\ replies' = (replies \ {r}) \cup {[r EXCEPT !.stage = "found", !.to = {pending[r.id]}]}
  /\ UNCHANGED <<socketVars, client, made, starting, handlers, requestID, pending, shut, channels,
                 procVars, panicked, losses>>

\* Unlocked, it sends: into a channel that has room and that somebody may still
\* wait at.  One that was closed since makes it panic.
Awaits(p, c) == c = Channel(p) /\ doing[p] \in {"writing", "waiting"}
SendResponse(r) ==
  /\ r.stage = "found"
  /\ replies' = (replies \ {r}) \cup {[r EXCEPT !.stage = "sent"]}
  /\ panicked' = (r.to \cap shut # {})
  /\ \E a \in {"ok", "error"} :
       answer' = [p \in Procs |-> IF answer[p] = "none" /\ \E c \in r.to \ shut : Awaits(p, c)
                                  THEN a ELSE answer[p]]
  /\ UNCHANGED <<socketVars, client, made, starting, handlers, requestID, pending, shut, channels,
                 doing, todo, topic, via, id, serial, stopping, losses>>

\* Locked again, it deletes the entry that has the id now.
CleanUpResponse(r) ==
  /\ r.stage = "sent"
  /\ replies' = replies \ {r}
  /\ pending' = Without(r.id)
  /\ UNCHANGED <<socketVars, client, made, starting, handlers, requestID, shut, channels,
                 procVars, panicked, losses>>

(* A faulty variant: the entry stays when nobody waits any more.           *)
GiveUpKeepsEntry(p) ==
  /\ doing[p] = "waiting"
  /\ Go(p, "next")
  /\ UNCHANGED <<socketVars, nodeVars, todo, topic, via, id, serial, answer, stopping, panicked, losses>>

\* After 30 s, or with the context, the entry of the id is deleted.
GiveUpRequest(p) ==
  /\ doing[p] = "waiting"
  /\ pending' = Without(id[p])
  /\ Go(p, "next")
  /\ UNCHANGED <<socketVars, client, made, starting, handlers, requestID, replies, shut, channels,
                 todo, topic, via, id, serial, answer, stopping, panicked, losses>>

\* The answer is taken.  A channel that was closed without one yields nil, which is
\* used.
TakeAnswer(p) ==
  /\ doing[p] = "waiting" /\ (answer[p] # "none" \/ Channel(p) \in shut)
  /\ panicked' = (answer[p] = "none")
  /\ answer' = [answer EXCEPT ![p] = "none"]
  /\ Go(p, IF answer[p] = "ok" THEN "adding" ELSE "next")
  /\ UNCHANGED <<socketVars, nodeVars, todo, topic, via, id, serial, stopping, losses>>

\* AddSubscription; the processor of its notifications lasts as long as the
\* channel and the context.
AddSubscription(p) ==
  /\ doing[p] = "adding"
  /\ channels' = channels \cup {topic[p]}
  /\ Go(p, "next")
  /\ UNCHANGED <<socketVars, client, made, starting, handlers, requestID, pending, replies, shut,
                 todo, topic, via, id, serial, answer, stopping, panicked, losses>>

\* DisconnectWebSocket: requests and subscriptions have their channels closed,
\* then the client is closed.
DisconnectWebSocket(p) ==
  /\ doing[p] = "disconnecting"
  /\ client' = 0 /\ via' = [via EXCEPT ![p] = client]
  /\ shut' = shut \cup {pending[k] : k \in DOMAIN pending}
  /\ pending' = << >>
  /\ channels' = {}
  /\ ending' = IF client = 0 THEN ending ELSE [ending EXCEPT ![client] = "waiting"]
  /\ Go(p, "closing")
  /\ UNCHANGED <<sock, up, dialled, sockets, broken, reader, pinger, redialling, dialling, opened,
                 made, starting, handlers, requestID, replies, todo, topic, id, serial, answer,
                 stopping, panicked, losses>>

AwaitClose(p) ==
  /\ doing[p] = "closing"
  /\ via[p] # 0 => ending[via[p]] \in {"closed", "failed"}
  /\ Go(p, IF stopping /\ p = Starter THEN "stopped" ELSE "connecting")
  /\ via' = [via EXCEPT ![p] = 0]
  /\ UNCHANGED <<socketVars, nodeVars, todo, topic, id, serial, answer, stopping, panicked, losses>>

-----------------------------------------------------------------------------
(* The chain connection.                                                   *)

\* startChainConnection, and TriggerReconnect, which disconnects first.
Begin(p) ==
  /\ doing[p] = "idle" /\ ~stopping
  /\ Go(p, IF p = Starter THEN "connecting" ELSE "disconnecting")
  /\ todo' = [todo EXCEPT ![p] = Topics]
  /\ UNCHANGED <<socketVars, nodeVars, topic, via, id, serial, answer, stopping, panicked, losses>>

\* subscribeAll: one topic after the other, whatever becomes of each; the locals
\* of the last one are gone.
NextTopic(p) ==
  /\ doing[p] = "next"
  /\ IF todo[p] = {}
     THEN Go(p, "done") /\ topic' = [topic EXCEPT ![p] = NoTopic] /\ UNCHANGED todo
     ELSE \E e \in todo[p] :
            /\ topic' = [topic EXCEPT ![p] = e]
            /\ todo' = [todo EXCEPT ![p] = @ \ {e}]
            /\ Go(p, "using")
  /\ via' = [via EXCEPT ![p] = 0] /\ id' = [id EXCEPT ![p] = 0]
  /\ answer' = [answer EXCEPT ![p] = "none"]
  /\ UNCHANGED <<socketVars, nodeVars, serial, stopping, panicked, losses>>

\* Stop: the context of handlers and processors is cancelled ...
Stop ==
  /\ doing[Starter] # "idle" /\ ~stopping
  /\ stopping' = TRUE
  /\ UNCHANGED <<socketVars, nodeVars, doing, todo, topic, via, id, serial, answer, panicked, losses>>

\* ... and when the starter has returned the connection is closed.  Unsubscribing
\* first only takes its time: nobody handles the answers any more.
CloseChain ==
  /\ stopping /\ doing[Starter] \in {"done", "failed"}
  /\ Go(Starter, "disconnecting")
  /\ UNCHANGED <<socketVars, nodeVars, todo, topic, via, id, serial, answer, stopping, panicked, losses>>

LoopStep(i, n) ==
  \/ ReadNext(i, n) \/ ReadMessage(i, n) \/ ReadFails(i, n) \/ PingNext(i, n) \/ Ping(i, n)
  \/ StartLoops(i, n)
ClientStep(i) ==
  \/ Redial(i) \/ DialFails(i) \/ DialSucceeds(i) \/ FinishClose(i) \/ HandlerEnds(i)
  \/ \E n \in Dials : LoopStep(i, n)
RequestStep(p) ==
  \/ Begin(p) \/ ConnectWebSocket(p) \/ NextTopic(p) \/ UseClient(p) \/ TakeClient(p)
  \/ RegisterRequest(p) \/ WriteRequest(p) \/ GiveUpRequest(p) \/ TakeAnswer(p)
  \/ AddSubscription(p) \/ DisconnectWebSocket(p) \/ AwaitClose(p)
ReplyStep(r) == LookUp(r) \/ SendResponse(r) \/ CleanUpResponse(r)

WsNext ==
  /\ ~panicked
  /\ \/ \E i \in Clients : ClientStep(i)
     \/ \E s \in Clients \X Dials : Lose(s)
     \/ \E p \in Procs : RequestStep(p)
     \/ \E r \in replies : ReplyStep(r)
     \/ StartHandler \/ Stop \/ CloseChain

WsSpec == WsInit /\ [][WsNext]_wsVars

-----------------------------------------------------------------------------
Doings == {"idle", "connecting", "next", "using", "taking", "numbered", "writing", "waiting",
           "adding", "done", "failed", "disconnecting", "closing", "stopped"}
Channels == Procs \X Nat
Responses == [of : Channels, on : Clients \X Dials, id : Nat, to : SUBSET Channels,
              stage : {"asked", "arrived", "found", "sent"}]

\* The variables have the shapes declared above.
WsTypeOK ==
  /\ sock \in [Clients -> 0..MaxDials] /\ dialled \in [Clients -> 0..MaxDials]
  /\ up \in [Clients -> BOOLEAN]
  /\ redialling \in [Clients -> Nat] /\ dialling \in [Clients -> Nat]
  /\ opened \in [Clients -> SUBSET Dials]
  /\ sockets \subseteq Clients \X Dials /\ broken \subseteq Clients \X Dials
  /\ reader \in [Clients -> [Dials -> 0..Gone]] /\ pinger \in [Clients -> [Dials -> 0..Gone]]
  /\ ending \in [Clients -> {"no", "waiting", "closed", "failed"}]
  /\ client \in 0..MaxClients /\ made \in 0..MaxClients /\ starting \in 0..MaxClients
  /\ handlers \in [Clients -> Nat]
  /\ requestID \in Nat
  /\ DOMAIN pending \subseteq Nat /\ pending \in [DOMAIN pending -> Channels]
  /\ replies \subseteq Responses /\ shut \subseteq Channels
  /\ channels \subseteq Topics
  /\ doing \in [Procs -> Doings]
  /\ todo \in [Procs -> SUBSET Topics] /\ topic \in [Procs -> Topics \cup {NoTopic}]
  /\ via \in [Procs -> 0..MaxClients] /\ id \in [Procs -> Nat] /\ serial \in [Procs -> Nat]
  /\ answer \in [Procs -> {"none", "ok", "error"}]
  /\ stopping \in BOOLEAN /\ panicked \in BOOLEAN /\ losses \in 0..MaxLosses

\* A client has one socket open at most, the one it uses, and while it says it is
\* connected a read loop is at that socket, on its way to it or about to start:
\* whatever loops of earlier sockets still run and close the one they find, however
\* many reconnect loops dial, nothing leaks and no connection is left that nobody
\* reads.
SocketIsServed == \A i \in Clients :
  /\ {n \in Dials : <<i, n>> \in sockets} = {sock[i]} \ {0}
  /\ up[i] => sock[i] # 0
  /\ up[i] /\ ending[i] = "no" =>
       sock[i] \in opened[i] \/ \E n \in Dials : reader[i][n] \in {Top, sock[i]}

\* No request is left behind: the channel in the map of pending requests is that of
\* somebody who waits for, or is about to send, the request with that id - or the
\* answer was sent to it and the handler is about to delete the entry.
PendingIsAwaited == \A k \in DOMAIN pending :
  \/ \E p \in Procs : Awaits(p, pending[k]) /\ id[p] = k
  \/ \E r \in replies : r.stage = "sent" /\ r.id = k
=============================================================================
