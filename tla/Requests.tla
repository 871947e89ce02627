------------------------------ MODULE Requests ------------------------------
(***************************************************************************)
(* The requests that the database server serves at the same time.  The     *)
(* framework takes a context from a pool for each request, keeps in it the *)
(* request, its chain of handlers and the index of the handler that runs,  *)
(* and puts it back when the first handler of the chain has returned.      *)
(* TimeoutMiddleware runs the rest of the chain in a goroutine of its own  *)
(* and returns after 100 s even if that goroutine has not come to its end: *)
(* from then on it works on a context that may serve another request.      *)
(*                                                                         *)
(* A handler that calls Next runs the rest of the chain inside; `depth`    *)
(* counts the calls that have not returned.  A handler works on the request *)
(* that was in the context when it began and answers the one that is there *)
(* when it ends.  RetryMiddleware is given to a group that has no routes;  *)
(* OPTIONS requests, which CORS answers, are left out.                     *)
(***************************************************************************)
EXTENDS Integers, Sequences, FiniteSets, SequencesExt

CONSTANTS
  WebRequests,
  Contexts,     \* what the pool may hold
  Route,        \* Route[r]: [key, body], the middlewares of its route
  GoodKeys,     \* requests with an active key that is under its limit
  GoodBodies,   \* requests whose body is valid
  MaxTimeouts,  \* bounds the requests that take longer than 100 s
  MaxPanics,    \* bounds the panics of handlers
  NoRequest

ASSUME RequestAssumption ==
  /\ Route \in [WebRequests -> [key : BOOLEAN, body : BOOLEAN]]
  /\ GoodKeys \cup GoodBodies \subseteq WebRequests
  /\ NoRequest \notin WebRequests /\ Contexts # {}
  /\ MaxTimeouts \in Nat /\ MaxPanics \in Nat

\* The handlers that run before the goroutine, the last of which starts it.
Outer == <<"gin.Recovery", "Trace", "Recovery", "Timeout">>

\* The handlers of a route; the validator passes the bodies of other paths.
Chain(r) ==
  IF r = NoRequest THEN << >>
  ELSE Outer \o <<"Metrics", "CORS">>
             \o (IF Route[r].key THEN <<"GinMiddleware">> ELSE << >>)
             \o (IF Route[r].body THEN <<"Validator">> ELSE << >>)
             \o <<"handler">>

AbortIndex == 63
Handlers == {"GinMiddleware", "Validator", "handler"}

VARIABLES
  context,   \* per context: [req, index, open]; open until it is put back
  outer,     \* per request: where the goroutine of its connection is
  inner,     \* per request: [at, ctx, depth, runs, of] of the goroutine of TimeoutMiddleware
  answers,   \* per request: who answered, and how
  passed,    \* per request: the middlewares that let it pass
  effects,   \* per request: how often its handler ran
  lateOnes,  \* requests that timed out
  up,        \* whether the process runs
  clean      \* history: requests that got a context nobody worked on any more

requestVars == <<context, outer, inner, answers, passed, effects, lateOnes, up, clean>>

NoRoutine(c) == [at |-> "none", ctx |-> c, depth |-> 0, runs |-> "none", of |-> NoRequest]

RequestsInit ==
  /\ context = [c \in Contexts |-> [req |-> NoRequest, index |-> 0, open |-> FALSE]]
  /\ outer = [r \in WebRequests |-> "new"]
  /\ inner = [r \in WebRequests |-> NoRoutine(CHOOSE c \in Contexts : TRUE)]
  /\ answers = [r \in WebRequests |-> << >>]
  /\ passed = [r \in WebRequests |-> {}]
  /\ effects = [r \in WebRequests |-> 0]
  /\ lateOnes = {}
  /\ up = TRUE
  /\ clean = {}

-----------------------------------------------------------------------------
(* The goroutine of the connection.                                        *)

WorksOn(g, c) == inner[g].ctx = c /\ inner[g].at \notin {"none", "done"}

\* A context is taken from the pool, and the goroutine started.
Receive(r, c) ==
  /\ up
  /\ outer[r] = "new" /\ ~context[c].open
  /\ context' = [context EXCEPT ![c] = [req |-> r, index |-> Len(Outer), open |-> TRUE]]
  /\ outer' = [outer EXCEPT ![r] = "waits"]
  /\ inner' = [inner EXCEPT ![r] = [NoRoutine(c) EXCEPT !.at = "next"]]
  /\ clean' = IF \E g \in WebRequests : WorksOn(g, c) THEN clean ELSE clean \cup {r}
  /\ UNCHANGED <<answers, passed, effects, lateOnes, up>>

\* The goroutine has closed done.
Complete(r) ==
  /\ up
  /\ outer[r] = "waits" /\ inner[r].at = "done"
  /\ outer' = [outer EXCEPT ![r] = "ends"]
  /\ UNCHANGED <<context, inner, answers, passed, effects, lateOnes, up, clean>>

\* The time of the request is over; the goroutine does not hear of it.
TimesOut(r) ==
  LET c == inner[r].ctx
  IN  /\ up
      /\ outer[r] = "waits" /\ Cardinality(lateOnes) < MaxTimeouts
      /\ outer' = [outer EXCEPT ![r] = "ends"]
      /\ lateOnes' = lateOnes \cup {r}
      /\ context' = [context EXCEPT ![c].index = AbortIndex]
      /\ answers' = [answers EXCEPT ![r] = Append(@, [by |-> r, says |-> "timeout"])]
      /\ UNCHANGED <<inner, passed, effects, up, clean>>

\* The outer handlers return, and the context goes back to the pool.
PutBack(r) ==
  /\ up
  /\ outer[r] = "ends"
  /\ outer' = [outer EXCEPT ![r] = "gone"]
  /\ context' = [context EXCEPT ![inner[r].ctx].open = FALSE]
  /\ UNCHANGED <<inner, answers, passed, effects, lateOnes, up, clean>>

-----------------------------------------------------------------------------
(* The goroutine of TimeoutMiddleware.                                     *)

\* MetricsMiddleware and CORS only call Next.
PassThrough == {"Metrics", "CORS"}

\* Next: the index is advanced, and the handler it is at called; behind the last
\* one, Next returns to the handler that called it, or the goroutine ends.
Advance(g) ==
  LET me == inner[g]
      c == me.ctx
      i == context[c].index + 1
      chain == Chain(context[c].req)
  IN  /\ up
      /\ me.at = "next"
      /\ context' = [context EXCEPT ![c].index = i]
      /\ inner' = [inner EXCEPT ![g] =
           IF i <= Len(chain) /\ chain[i] \in PassThrough
           THEN [me EXCEPT !.depth = @ + 1]
           ELSE IF i <= Len(chain)
           THEN [me EXCEPT !.at = "runs", !.runs = chain[i], !.of = context[c].req]
           ELSE IF me.depth > 0 THEN [me EXCEPT !.depth = @ - 1]
           ELSE [me EXCEPT !.at = "done"]]
      /\ UNCHANGED <<outer, answers, passed, effects, lateOnes, up, clean>>

Runs(g, handler) == up /\ inner[g].at = "runs" /\ inner[g].runs = handler

CallNext(g) == inner' = [inner EXCEPT ![g] = [@ EXCEPT !.at = "next", !.depth = @ + 1]]
Return(g) == inner' = [inner EXCEPT ![g] = [@ EXCEPT !.at = "next"]]

\* An answer goes to the request that the context serves, if it serves one.
Respond(g, says) ==
  LET served == context[inner[g].ctx]
  IN  answers' = IF served.open
                 THEN [answers EXCEPT ![served.req] =
                         Append(@, [by |-> inner[g].of, says |-> says])]
                 ELSE answers

Abort(g) == context' = [context EXCEPT ![inner[g].ctx].index = AbortIndex]

Refuse(g, says) ==
  /\ Respond(g, says) /\ Abort(g) /\ Return(g)
  /\ UNCHANGED passed

LetPass(g, name) ==
  /\ passed' = [passed EXCEPT ![inner[g].of] = @ \cup {name}]
  /\ CallNext(g)
  /\ UNCHANGED <<answers, context>>

(* A faulty variant: a request with a bad key is answered, not aborted.    *)
AuthenticateOnly(g) ==
  /\ Runs(g, "GinMiddleware")
  /\ IF inner[g].of \in GoodKeys THEN LetPass(g, "GinMiddleware")
     ELSE Respond(g, "no key") /\ Return(g) /\ UNCHANGED <<context, passed>>
  /\ UNCHANGED <<outer, effects, lateOnes, up, clean>>

Authenticate(g) ==
  /\ Runs(g, "GinMiddleware")
  /\ IF inner[g].of \in GoodKeys THEN LetPass(g, "GinMiddleware") ELSE Refuse(g, "no key")
  /\ UNCHANGED <<outer, effects, lateOnes, up, clean>>

Validate(g) ==
  /\ Runs(g, "Validator")
  /\ IF inner[g].of \in GoodBodies THEN LetPass(g, "Validator") ELSE Refuse(g, "bad body")
  /\ UNCHANGED <<outer, effects, lateOnes, up, clean>>

\* The handler of the route: what it does is done for the request it began with.
Serve(g) ==
  /\ Runs(g, "handler")
  /\ effects' = [effects EXCEPT ![inner[g].of] = @ + 1]
  /\ Respond(g, "done")
  /\ Return(g)
  /\ UNCHANGED <<context, outer, passed, lateOnes, up, clean>>

\* A handler panics.  Both middlewares that recover are in the other goroutine:
\* the process ends, and with it every request.
Panic(g) ==
  /\ Runs(g, "handler") /\ MaxPanics > 0
  /\ up' = FALSE
  /\ UNCHANGED <<context, outer, inner, answers, passed, effects, lateOnes, clean>>

RequestsNext ==
  \/ \E r \in WebRequests : \/ \E c \in Contexts : Receive(r, c)
                            \/ Complete(r) \/ TimesOut(r) \/ PutBack(r)
  \/ \E g \in WebRequests : \/ Advance(g) \/ Authenticate(g)
                            \/ Validate(g) \/ Serve(g) \/ Panic(g)

-----------------------------------------------------------------------------

Needs(r) ==
  (IF Route[r].key THEN {"GinMiddleware"} ELSE {}) \cup (IF Route[r].body THEN {"Validator"} ELSE {})

RequestTypeOK ==
  /\ \A c \in Contexts : context[c].req \in WebRequests \cup {NoRequest}
  /\ \A r \in WebRequests :
       /\ outer[r] \in {"new", "waits", "ends", "gone"}
       /\ inner[r].at \in {"none", "next", "runs", "done"}
       /\ inner[r].runs \in Handlers \cup {"none"}
  /\ lateOnes \cup clean \subseteq WebRequests

(* A request that gets a context on which no late goroutine works any more *)
(* is served as if it were alone: its handler runs at most once and only   *)
(* when the middlewares of its route have let it pass, every answer is its *)
(* own, and it gets exactly one, besides the 504 of a request that times   *)
(* out.  Requests that get the context of one that timed out meanwhile are *)
(* not: a handler may be skipped, and an answer may be another's.          *)
AnswerIsOwn ==
  \A r \in clean :
    /\ effects[r] <= 1
    /\ effects[r] = 1 => Needs(r) \subseteq passed[r]
    /\ \A i \in DOMAIN answers[r] : answers[r][i].by = r
    /\ Len(answers[r]) <= IF r \in lateOnes THEN 2 ELSE 1
    /\ outer[r] = "gone" => answers[r] # << >>
=============================================================================
