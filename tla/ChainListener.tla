----------------------------- MODULE ChainListener -----------------------------
(***************************************************************************)
(* The listener of the task monitor for the events TaskSubmitted and       *)
(* TaskRejected of one chain: a poller asks for the logs of the blocks     *)
(* since its last poll, one subscription after the other and in chunks of  *)
(* blocks, and puts them into a bounded channel that several workers read. *)
(*                                                                         *)
(* Every block up to MaxHead has one event of each subscription.           *)
(***************************************************************************)
EXTENDS Integers, Sequences, FiniteSets, SequencesExt

CONSTANTS
  EventWorkers,   \* eventProcessorWorker goroutines
  MaxHead,        \* bound on the blocks of the chain
  MaxRange,       \* maxRange: blocks of one eth_getLogs
  BufferSize,     \* EventBufferSize
  MaxPollFaults   \* bound on failed or incomplete answers and undecodable logs

ASSUME ChainListenerAssumption ==
  /\ MaxHead \in Nat /\ MaxRange \in Nat \ {0}
  /\ BufferSize \in Nat \ {0} /\ MaxPollFaults \in Nat

VARIABLES
  head,       \* the block number the node answers
  pollAt,     \* where the poller is
  first,      \* the block it started at
  lastBlock,  \* its local variable
  target,     \* currentBlock of this poll
  sub,        \* the subscription it polls
  cur,        \* the next block of it to ask for
  batch,      \* the logs of the answer that it has not emitted yet
  eventChan,  \* the channel
  hands,      \* per worker: the event it processes, NoEvent, or WorkerGone
  handled,    \* per event: how often ProcessTaskEvent was run for it
  lost,       \* history: events of a failed or incomplete answer, that could not
              \* be decoded or found the channel full
  listener,   \* "created", "running", "stopping" (Stop has cancelled), "stopped"
  pollFaults

listenVars == <<head, pollAt, first, lastBlock, target, sub, cur, batch, eventChan, hands, handled,
                lost, listener, pollFaults>>
queueVars == <<eventChan, hands, handled>>

Subs == 1..2                       \* TaskSubmitted, TaskRejected
Events == (1..MaxHead) \X Subs
NoEvent == <<0, 0>>
WorkerGone == <<0, 1>>

Smaller(a, b) == IF a < b THEN a ELSE b
ToPoll == IF lastBlock < target THEN {e \in Events : e[1] \in (lastBlock + 1)..target} ELSE {}
Running == listener = "running"
PollFault == pollFaults < MaxPollFaults /\ pollFaults' = pollFaults + 1

ListenInit ==
  /\ head = 0
  /\ pollAt = "none"
  /\ first = 0 /\ lastBlock = 0 /\ target = 0 /\ sub = 1 /\ cur = 1
  /\ batch = << >> /\ eventChan = << >>
  /\ hands = [w \in EventWorkers |-> NoEvent]
  /\ handled = [e \in Events |-> 0]
  /\ lost = {}
  /\ listener = "created"
  /\ pollFaults = 0

\* Start: the poller and the workers are goroutines.
StartListener ==
  /\ listener = "created"
  /\ listener' = "running"
  /\ pollAt' = "starting"
  /\ UNCHANGED <<head, first, lastBlock, target, sub, cur, batch, queueVars, lost, pollFaults>>

\* The chain grows; a node that lags behind the one asked before answers less.
HeadMoves ==
  /\ \/ head < MaxHead /\ head' = head + 1 /\ UNCHANGED pollFaults
     \/ head > 0 /\ PollFault /\ head' = head - 1
  /\ UNCHANGED <<pollAt, first, lastBlock, target, sub, cur, batch, queueVars, lost, listener>>

\* startChainPoller starts at the head of the chain; when it cannot ask for it,
\* the goroutine ends, and nobody starts it again.
StartPoller ==
  /\ pollAt = "starting"
  /\ \/ /\ first' = head /\ lastBlock' = head /\ target' = head
        /\ pollAt' = "waiting" /\ UNCHANGED pollFaults
     \/ /\ PollFault \/ (~Running /\ UNCHANGED pollFaults)
        /\ pollAt' = "ended" /\ UNCHANGED <<first, lastBlock, target>>
  /\ UNCHANGED <<head, sub, cur, batch, queueVars, lost, listener>>

(* A faulty variant: the range begins with the last block of the one before. *)
TickFromLast ==
  /\ pollAt = "waiting" /\ head > lastBlock
  /\ target' = head /\ sub' = 1 /\ cur' = lastBlock
  /\ pollAt' = "polling"
  /\ UNCHANGED <<head, first, lastBlock, batch, queueVars, lost, listener, pollFaults>>

(* A faulty variant: the last block is left for the next poll.             *)
TickLeavesHead ==
  /\ pollAt = "waiting" /\ head - 1 > lastBlock
  /\ target' = head - 1 /\ sub' = 1 /\ cur' = lastBlock + 1
  /\ pollAt' = "polling"
  /\ UNCHANGED <<head, first, lastBlock, batch, queueVars, lost, listener, pollFaults>>

\* A tick that finds new blocks.
Tick ==
  /\ pollAt = "waiting" /\ head > lastBlock
  /\ target' = head /\ sub' = 1 /\ cur' = lastBlock + 1
  /\ pollAt' = "polling"
  /\ UNCHANGED <<head, first, lastBlock, batch, queueVars, lost, listener, pollFaults>>

\* eth_getLogs of the next chunk: all logs, those up to the block the node has
\* reached, or none; the loop goes on with the next chunk in each case.
ChunkEnd == Smaller(cur + MaxRange - 1, target)
LogsIn(a, b) == [n \in 1..(b - a + 1) |-> <<a + n - 1, sub>>]
FetchChunk ==
  /\ pollAt = "polling" /\ batch = << >> /\ cur <= target
  /\ \/ batch' = LogsIn(cur, ChunkEnd) /\ UNCHANGED <<lost, pollFaults>>
     \/ \E b \in (cur - 1)..(ChunkEnd - 1) :
          /\ PollFault
          /\ batch' = LogsIn(cur, b)
          /\ lost' = lost \cup ToSet(LogsIn(b + 1, ChunkEnd))
  /\ cur' = ChunkEnd + 1
  /\ UNCHANGED <<head, pollAt, first, lastBlock, target, sub, queueVars, listener>>

\* convertNodeLogToTypesLog and emitChainEventFromLog: the event is sent, or
\* dropped when the channel is full or the log cannot be decoded.
EmitLog ==
  /\ pollAt = "polling" /\ batch # << >>
  /\ \/ /\ Len(eventChan) < BufferSize
        /\ eventChan' = Append(eventChan, Head(batch))
        /\ UNCHANGED <<lost, pollFaults>>
     \/ /\ IF Len(eventChan) < BufferSize THEN PollFault ELSE UNCHANGED pollFaults
        /\ lost' = lost \cup {Head(batch)}
        /\ UNCHANGED eventChan
  /\ batch' = Tail(batch)
  /\ UNCHANGED <<head, pollAt, first, lastBlock, target, sub, cur, hands, handled, listener>>

\* The next subscription of the same range; after the last one the range is done.
NextSubscription ==
  /\ pollAt = "polling" /\ batch = << >> /\ cur > target
  /\ IF sub = 1
       THEN sub' = 2 /\ cur' = lastBlock + 1 /\ UNCHANGED <<lastBlock, pollAt>>
       ELSE lastBlock' = target /\ pollAt' = "waiting" /\ UNCHANGED <<sub, cur>>
  /\ UNCHANGED <<head, first, target, batch, queueVars, lost, listener, pollFaults>>

\* The poller looks for the cancellation in every loop and before every log.
EndPoller ==
  /\ ~Running /\ pollAt \in {"waiting", "polling"}
  /\ pollAt' = "ended"
  /\ UNCHANGED <<head, first, lastBlock, target, sub, cur, batch, queueVars, lost, listener, pollFaults>>

\* eventProcessorWorker: also after the cancellation, as long as there are
\* events: select takes either.
TakeChainEvent(w) ==
  /\ hands[w] = NoEvent /\ eventChan # << >>
  /\ hands' = [hands EXCEPT ![w] = Head(eventChan)]
  /\ eventChan' = Tail(eventChan)
  /\ UNCHANGED <<head, pollAt, first, lastBlock, target, sub, cur, batch, handled, lost, listener, pollFaults>>

\* processEvent
ProcessEvent(w) ==
  /\ hands[w] \in Events
  /\ handled' = [handled EXCEPT ![hands[w]] = @ + 1]
  /\ hands' = [hands EXCEPT ![w] = NoEvent]
  /\ UNCHANGED <<head, pollAt, first, lastBlock, target, sub, cur, batch, eventChan, lost, listener, pollFaults>>

EndWorker(w) ==
  /\ listener = "stopping" /\ hands[w] = NoEvent
  /\ hands' = [hands EXCEPT ![w] = WorkerGone]
  /\ UNCHANGED <<head, pollAt, first, lastBlock, target, sub, cur, batch, eventChan, handled, lost,
                 listener, pollFaults>>

\* Stop: cancel, then wait for the poller and for the workers.
BeginStop ==
  /\ Running
  /\ listener' = "stopping"
  /\ UNCHANGED <<head, pollAt, first, lastBlock, target, sub, cur, batch, queueVars, lost, pollFaults>>

StopReturns ==
  /\ listener = "stopping"
  /\ pollAt = "ended" /\ \A w \in EventWorkers : hands[w] = WorkerGone
  /\ listener' = "stopped"
  /\ UNCHANGED <<head, pollAt, first, lastBlock, target, sub, cur, batch, queueVars, lost, pollFaults>>

PollerStep == StartPoller \/ Tick \/ FetchChunk \/ EmitLog \/ NextSubscription \/ EndPoller
WorkerStep(w) == TakeChainEvent(w) \/ ProcessEvent(w) \/ EndWorker(w)

ListenNext ==
  \/ HeadMoves \/ StartListener \/ BeginStop \/ StopReturns
  \/ StartPoller \/ Tick \/ FetchChunk \/ EmitLog \/ NextSubscription \/ EndPoller
  \/ \E w \in EventWorkers : TakeChainEvent(w) \/ ProcessEvent(w) \/ EndWorker(w)

\* The goroutines run; the ticker fires.
ListenFairness ==
  /\ WF_listenVars(PollerStep) /\ WF_listenVars(StopReturns)
  /\ \A w \in EventWorkers : WF_listenVars(WorkerStep(w))

ListenSpec == ListenInit /\ [][ListenNext]_listenVars /\ ListenFairness

-----------------------------------------------------------------------------
\* The variables have the shapes declared above.
ListenTypeOK ==
  /\ head \in 0..MaxHead /\ first \in 0..MaxHead /\ lastBlock \in 0..MaxHead /\ target \in 0..MaxHead
  /\ pollAt \in {"none", "starting", "waiting", "polling", "ended"}
  /\ sub \in Subs /\ cur \in 1..(MaxHead + 1)
  /\ batch \in Seq(Events) /\ eventChan \in Seq(Events) /\ Len(eventChan) <= BufferSize
  /\ hands \in [EventWorkers -> Events \cup {NoEvent, WorkerGone}]
  /\ handled \in [Events -> 0..2] /\ lost \subseteq Events
  /\ listener \in {"created", "running", "stopping", "stopped"}
  /\ pollFaults \in 0..MaxPollFaults

\* How often an event is in the channel, with a worker or done.
CopiesOf(e) ==
  Cardinality({n \in DOMAIN eventChan : eventChan[n] = e})
  + Cardinality({w \in EventWorkers : hands[w] = e}) + handled[e]

\* The events the poller still has to go through in this poll.
StillToPoll(e) ==
  \/ e[2] > sub
  \/ e[2] = sub /\ (e[1] >= cur \/ e \in ToSet(batch))

\* Over polls, chunks, the two subscriptions, heads that go back and several
\* workers: no event is processed twice, and every event of a range the poller
\* has gone through is in the channel, with a worker or processed, unless its
\* answer failed, it could not be decoded or the channel was full.
CoveredOnce ==
  /\ \A e \in Events : CopiesOf(e) + (IF e \in lost THEN 1 ELSE 0) <= 1
  /\ \A e \in Events :
       (e[1] \in (first + 1)..lastBlock \/ (pollAt = "polling" /\ e \in ToPoll /\ ~StillToPoll(e)))
         => CopiesOf(e) = 1 \/ e \in lost

\* While the listener runs and its poller has started, every event of a block
\* that the node shows is processed in the end, or lost in one of these ways.
CaughtUp ==
  \A e \in Events :
    (pollAt = "waiting" /\ e[1] \in (lastBlock + 1)..head)
      ~> (handled[e] = 1 \/ e \in lost \/ ~Running \/ head < e[1])
=============================================================================
