---------------------------- MODULE TaskBroadcast ----------------------------
(***************************************************************************)
(* The websocket hub of the database server.  The task repository          *)
(* publishes an event per change of a task into a channel that drops what  *)
(* does not fit; a goroutine forwards events to the channel of the hub;    *)
(* the hub, one goroutine, sends each to the clients in the event's rooms. *)
(* Each client has a bounded Send channel, a ReadPump that handles its     *)
(* messages and a WritePump that drains Send into the connection.          *)
(*                                                                         *)
(* Closing a Send channel a second time, and sending on a closed one,      *)
(* panics, and a panic ends the process.                                   *)
(***************************************************************************)
EXTENDS Naturals, Sequences, FiniteSets

CONSTANTS
  Watchers,      \* websocket clients
  TaskEvents,    \* events, all of one task, its job and its user
  Wanted,        \* Wanted[w]: the rooms a client may subscribe to
  SendCap,       \* capacity of a Send channel (256 in the code)
  EventCap,      \* capacity of taskEvents (256)
  BroadcastCap,  \* capacity of broadcast (256)
  MaxPings,      \* bound on the pings of a client
  MaxHangups     \* bound on broken connections

\* broadcastTaskEvent names the task's room "task:" + string(rune(id)), a
\* one-character string, while a client subscribes to "task:<decimal id>":
\* of an event's rooms only these two have the names clients use.
Rooms == {"job", "user", "task"}
EventRooms == {"job", "user"}

ASSUME BroadcastAssumption ==
  /\ Wanted \in [Watchers -> SUBSET Rooms]
  /\ SendCap \in Nat \ {0} /\ EventCap \in Nat \ {0} /\ BroadcastCap \in Nat \ {0}
  /\ MaxPings \in Nat /\ MaxHangups \in Nat

VARIABLES
  events,     \* the taskEvents channel
  carried,    \* what processTaskEvents holds: << >> or one event
  broadcast,  \* the broadcast channel
  hub,        \* "running", "stopped" or "panicked" (the whole process)
  clients,    \* hub.clients
  rooms,      \* hub.rooms
  send,       \* per client: its Send channel
  closed,     \* clients the Send channel of which is closed
  reader,     \* per client: its ReadPump
  writer,     \* per client: its WritePump
  got,        \* history: the messages each client received
  published,  \* events published so far
  owed,       \* history: <<client, event>> accepted by the channel after the client
              \* had been told it is in one of the event's rooms
  pings, hangups

hubVars == <<events, carried, broadcast, hub, clients, rooms, send, closed, reader, writer,
             got, published, owed, pings, hangups>>

Ok == "ok"        \* the reply to a message of the client
Told(w) == \E n \in DOMAIN got[w] : got[w][n] = Ok

HubInit ==
  /\ events = << >> /\ carried = << >> /\ broadcast = << >>
  /\ hub = "running"
  /\ clients = {}
  /\ rooms = [r \in Rooms |-> {}]
  /\ send = [w \in Watchers |-> << >>]
  /\ closed = {}
  /\ reader = [w \in Watchers |-> "none"]
  /\ writer = [w \in Watchers |-> "none"]
  /\ got = [w \in Watchers |-> << >>]
  /\ published = {} /\ owed = {}
  /\ pings = [w \in Watchers |-> 0]
  /\ hangups = 0

Alive == hub # "panicked"

-----------------------------------------------------------------------------
\* Hub.BroadcastTaskCreated and its siblings: a full channel drops the event.
Publish(e) ==
  /\ Alive /\ e \notin published
  /\ published' = published \cup {e}
  /\ IF Len(events) < EventCap
       THEN /\ events' = Append(events, e)
            /\ owed' = owed \cup {<<w, e>> : w \in
                         {v \in Watchers : Told(v) /\ \E r \in EventRooms : v \in rooms[r]}}
       ELSE UNCHANGED <<events, owed>>
  /\ UNCHANGED <<carried, broadcast, hub, clients, rooms, send, closed, reader, writer, got,
                 pings, hangups>>

\* processTaskEvents takes an event ...
TakeEvent ==
  /\ hub = "running" /\ carried = << >> /\ events # << >>
  /\ carried' = <<Head(events)>>
  /\ events' = Tail(events)
  /\ UNCHANGED <<broadcast, hub, clients, rooms, send, closed, reader, writer, got, published,
                 owed, pings, hangups>>

(* A faulty variant: what does not fit is dropped.                         *)
ForwardOrDrop ==
  /\ Alive /\ carried # << >>
  /\ broadcast' = IF Len(broadcast) < BroadcastCap THEN broadcast \o carried ELSE broadcast
  /\ carried' = << >>
  /\ UNCHANGED <<events, hub, clients, rooms, send, closed, reader, writer, got, published,
                 owed, pings, hangups>>

\* ... and waits for room in the channel of the hub.
ForwardEvent ==
  /\ Alive /\ carried # << >> /\ Len(broadcast) < BroadcastCap
  /\ broadcast' = broadcast \o carried
  /\ carried' = << >>
  /\ UNCHANGED <<events, hub, clients, rooms, send, closed, reader, writer, got, published,
                 owed, pings, hangups>>

\* broadcastToRooms sends the event once per room the client is in.  When Send
\* is full it is closed and the client leaves hub.clients and this room, but
\* not its other rooms: the next send to it panics, in this loop or later.
RoomsOf(w) == {r \in EventRooms : w \in rooms[r]}
Free(w) == SendCap - Len(send[w])
Overflows(w) == w \notin closed /\ Cardinality(RoomsOf(w)) > Free(w)
SendsOnClosed(w) == \/ w \in closed /\ RoomsOf(w) # {}
                    \/ Overflows(w) /\ Cardinality(RoomsOf(w)) > Free(w) + 1
Copies(w) == IF w \in closed THEN 0
             ELSE IF Overflows(w) THEN Free(w) ELSE Cardinality(RoomsOf(w))

BroadcastEvent ==
  /\ hub = "running" /\ broadcast # << >>
  /\ broadcast' = Tail(broadcast)
  /\ IF \E w \in Watchers : SendsOnClosed(w)
       THEN hub' = "panicked" /\ UNCHANGED <<clients, rooms, send, closed>>
       ELSE /\ send' = [w \in Watchers |->
                          send[w] \o [n \in 1..Copies(w) |-> Head(broadcast)]]
            /\ closed' = closed \cup {w \in Watchers : Overflows(w)}
            /\ clients' = {w \in clients : ~Overflows(w)}
            /\ \E last \in [Watchers -> EventRooms] :
                 /\ \A w \in Watchers : Overflows(w) => last[w] \in RoomsOf(w)
                 /\ rooms' = [r \in Rooms |->
                                {w \in rooms[r] : ~(Overflows(w) /\ r = last[w])}]
            /\ UNCHANGED hub
  /\ UNCHANGED <<events, carried, reader, writer, got, published, owed, pings, hangups>>

-----------------------------------------------------------------------------
(* A client.                                                               *)

\* HandleWebSocketConnection: the hub takes the client from register, then the
\* two pumps start.
Connect(w) ==
  /\ hub = "running" /\ reader[w] = "none"
  /\ clients' = clients \cup {w}
  /\ reader' = [reader EXCEPT ![w] = "reading"]
  /\ writer' = [writer EXCEPT ![w] = "writing"]
  /\ UNCHANGED <<events, carried, broadcast, hub, rooms, send, closed, got, published, owed,
                 pings, hangups>>

\* handleSubscribe: ReadPump hands the room to the hub (an unbuffered channel),
\* and answers afterwards.
Subscribe(w, r) ==
  /\ hub = "running" /\ reader[w] = "reading" /\ writer[w] = "writing"
  /\ r \in Wanted[w] /\ w \notin rooms[r]
  /\ rooms' = [rooms EXCEPT ![r] = @ \cup {w}]
  /\ reader' = [reader EXCEPT ![w] = "replying"]
  /\ UNCHANGED <<events, carried, broadcast, hub, clients, send, closed, writer, got,
                 published, owed, pings, hangups>>

\* handlePing, or a message of an unknown type: only the answer.
Ping(w) ==
  /\ Alive /\ reader[w] = "reading" /\ writer[w] = "writing" /\ pings[w] < MaxPings
  /\ pings' = [pings EXCEPT ![w] = @ + 1]
  /\ reader' = [reader EXCEPT ![w] = "replying"]
  /\ UNCHANGED <<events, carried, broadcast, hub, clients, rooms, send, closed, writer, got,
                 published, owed, hangups>>

\* sendMessage: a full Send makes the client close itself.
Reply(w) ==
  /\ Alive /\ reader[w] = "replying"
  /\ IF w \in closed
       THEN hub' = "panicked" /\ UNCHANGED <<send, closed>>
       ELSE IF Len(send[w]) < SendCap
              THEN send' = [send EXCEPT ![w] = Append(@, Ok)] /\ UNCHANGED <<hub, closed>>
              ELSE closed' = closed \cup {w} /\ UNCHANGED <<hub, send>>
  /\ reader' = [reader EXCEPT ![w] = "reading"]
  /\ UNCHANGED <<events, carried, broadcast, clients, rooms, writer, got, published, owed,
                 pings, hangups>>

\* handleUnsubscribe, from the reader through the hub.
Unsubscribe(w, r) ==
  /\ hub = "running" /\ reader[w] = "reading" /\ writer[w] = "writing" /\ w \in rooms[r]
  /\ pings[w] < MaxPings
  /\ pings' = [pings EXCEPT ![w] = @ + 1]
  /\ rooms' = [rooms EXCEPT ![r] = @ \ {w}]
  /\ reader' = [reader EXCEPT ![w] = "replying"]
  /\ owed' = {o \in owed : o[1] # w}
  /\ UNCHANGED <<events, carried, broadcast, hub, clients, send, closed, writer, got,
                 published, hangups>>

\* The snapshot handleJobRoomSubscription sends from a goroutine of its own
\* recovers from a closed Send and is dropped by a full one: it is left out.

\* WritePump: a message goes out; a closed and drained Send ends the pump and
\* closes the connection.
WriteMessage(w) ==
  /\ Alive /\ writer[w] = "writing" /\ send[w] # << >>
  /\ got' = [got EXCEPT ![w] = Append(@, Head(send[w]))]
  /\ send' = [send EXCEPT ![w] = Tail(@)]
  /\ UNCHANGED <<events, carried, broadcast, hub, clients, rooms, closed, reader, writer,
                 published, owed, pings, hangups>>

EndWriter(w) ==
  /\ Alive /\ writer[w] = "writing" /\ w \in closed /\ send[w] = << >>
  /\ writer' = [writer EXCEPT ![w] = "done"]
  /\ UNCHANGED <<events, carried, broadcast, hub, clients, rooms, send, closed, reader, got,
                 published, owed, pings, hangups>>

\* The peer goes away or a write fails: the connection is closed.
HangUp(w) ==
  /\ Alive /\ writer[w] = "writing" /\ hangups < MaxHangups
  /\ hangups' = hangups + 1
  /\ writer' = [writer EXCEPT ![w] = "done"]
  /\ UNCHANGED <<events, carried, broadcast, hub, clients, rooms, send, closed, reader, got,
                 published, owed, pings>>

\* ReadPump ends with the connection (or with the client's context) and hands
\* the client to the hub: unregisterClient.  A Send that is already closed is
\* closed again.  Once the hub has stopped nobody takes the client.
Unregister(w) ==
  /\ hub = "running" /\ reader[w] = "reading" /\ (writer[w] = "done" \/ w \in closed)
  /\ reader' = [reader EXCEPT ![w] = "done"]
  /\ writer' = [writer EXCEPT ![w] = "done"]
  /\ IF w \notin clients
       THEN UNCHANGED <<hub, clients, rooms, closed>>
       ELSE IF w \in closed
              THEN hub' = "panicked" /\ UNCHANGED <<clients, rooms, closed>>
              ELSE /\ clients' = clients \ {w}
                   /\ closed' = closed \cup {w}
                   /\ rooms' = [r \in Rooms |-> rooms[r] \ {w}]
                   /\ UNCHANGED hub
  /\ UNCHANGED <<events, carried, broadcast, send, got, published, owed, pings, hangups>>

\* Shutdown cancels the hub and closes every client it still has.
Shutdown ==
  /\ hub = "running"
  /\ hub' = IF clients \cap closed # {} THEN "panicked" ELSE "stopped"
  /\ closed' = closed \cup clients
  /\ UNCHANGED <<events, carried, broadcast, clients, rooms, send, reader, writer, got,
                 published, owed, pings, hangups>>

HubNext ==
  \/ \E e \in TaskEvents : Publish(e)
  \/ TakeEvent \/ ForwardEvent \/ BroadcastEvent \/ Shutdown
  \/ \E w \in Watchers : \/ Connect(w) \/ Ping(w) \/ Reply(w) \/ WriteMessage(w)
                         \/ EndWriter(w) \/ HangUp(w) \/ Unregister(w)
                         \/ \E r \in Rooms : Subscribe(w, r) \/ Unsubscribe(w, r)

\* The goroutines of the hub and the writers of the clients take what is there.
HubFairness ==
  /\ WF_hubVars(TakeEvent) /\ WF_hubVars(ForwardEvent) /\ WF_hubVars(BroadcastEvent)
  /\ \A w \in Watchers : WF_hubVars(WriteMessage(w))

HubSpec == HubInit /\ [][HubNext]_hubVars /\ HubFairness

-----------------------------------------------------------------------------
\* The variables have the shapes declared above.
HubTypeOK ==
  /\ events \in Seq(TaskEvents) /\ Len(events) <= EventCap
  /\ carried \in Seq(TaskEvents) /\ Len(carried) <= 1
  /\ broadcast \in Seq(TaskEvents) /\ Len(broadcast) <= BroadcastCap
  /\ hub \in {"running", "stopped", "panicked"}
  /\ clients \subseteq Watchers
  /\ rooms \in [Rooms -> SUBSET Watchers]
  /\ send \in [Watchers -> Seq(TaskEvents \cup {Ok})]
  /\ \A w \in Watchers : Len(send[w]) <= SendCap
  /\ closed \subseteq Watchers
  /\ reader \in [Watchers -> {"none", "reading", "replying", "done"}]
  /\ writer \in [Watchers -> {"none", "writing", "done"}]
  /\ got \in [Watchers -> Seq(TaskEvents \cup {Ok})]
  /\ published \subseteq TaskEvents /\ owed \subseteq Watchers \X TaskEvents
  /\ pings \in [Watchers -> 0..MaxPings] /\ hangups \in 0..MaxHangups

Received(w, e) == \E n \in DOMAIN got[w] : got[w][n] = e

\* An event the channel accepted reaches every client that had been told it is
\* in one of the event's rooms, unless the client's connection ends, its Send
\* is closed or the hub stops or dies.
PublishedIsDelivered ==
  \A w \in Watchers : \A e \in TaskEvents :
    <<w, e>> \in owed ~>
      \/ Received(w, e) \/ writer[w] = "done" \/ w \in closed \/ hub # "running"
      \/ <<w, e>> \notin owed

=============================================================================
