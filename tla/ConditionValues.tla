--------------------------- MODULE ConditionValues ---------------------------
(***************************************************************************)
(* How the workers of the condition scheduler get from a document to a     *)
(* trigger: one asks an HTTP source at every tick, the other reads         *)
(* messages from a websocket, each with its own copy of the code that      *)
(* takes a number out of a document and compares it.  Here both watch the  *)
(* same documents for the same job.  What happens to a notification is     *)
(* ConditionScheduler's.                                                   *)
(*                                                                         *)
(* A document is a number, a text that is or is not a number, null, an     *)
(* array, an object, or no JSON.                                           *)
(***************************************************************************)
EXTENDS Integers, Sequences, SequencesExt

CONSTANTS
  Documents,
  WatchJobs,   \* [route, type, lower, upper, recurring]
  MaxPublished,
  NaN,         \* what the text "NaN" is parsed to
  None

ASSUME ConditionValuesAssumption ==
  /\ NaN # None
  /\ \A j \in WatchJobs : {j.lower, j.upper} \subseteq Int /\ j.recurring \in BOOLEAN

VARIABLES
  watchJob,   \* ConditionWorkerData
  document,   \* what the source answers, and its last message
  published,  \* how many documents there have been
  watcher,    \* per worker: [at, active, cancelled, stops, met]
  verdicts    \* history, per worker: pairs of a document and what was made of it

valueVars == <<watchJob, document, published, watcher, verdicts>>

Watchers == {"http", "websocket"}

ValuesInit ==
  /\ watchJob \in WatchJobs
  /\ document \in Documents
  /\ published = 1
  /\ watcher = [w \in Watchers |-> [at |-> "start", active |-> FALSE, cancelled |-> FALSE,
                                    stops |-> 0, met |-> 0]]
  /\ verdicts = [w \in Watchers |-> {}]

-----------------------------------------------------------------------------
(* The number in a document.                                               *)

\* convertToFloat64; strconv.ParseFloat of a text.
convertToFloat64(d) == IF d.k \in {"number", "text"} THEN d.n ELSE None

\* One key of the route: a field of an object or an index of an array.
Follow(d, key) ==
  CASE d.k = "object" -> IF key \in DOMAIN d.f THEN d.f[key] ELSE [k |-> "none"]
    [] d.k = "array" -> IF key \in {"0", "1"} /\ Len(d.items) > (IF key = "0" THEN 0 ELSE 1)
                        THEN d.items[IF key = "0" THEN 1 ELSE 2] ELSE [k |-> "none"]
    [] OTHER -> [k |-> "none"]

extractValueByKeyPath(d, route) ==
  IF d.k = "junk" THEN None ELSE convertToFloat64(FoldLeft(Follow, d, route))

(* ValueResponse: an object whose known fields have the right types, or    *)
(* null; of the numbers the first that is not 0 is taken.                  *)
Fields == <<"value", "price", "usd", "rate", "result", "data">>

IsValueResponse(d) ==
  \/ d.k = "null"
  \/ /\ d.k = "object"
     /\ \A x \in DOMAIN d.f : x \in ToSet(Fields) => d.f[x].k \in {"number", "null"}
     /\ "selected_key_route" \in DOMAIN d.f => d.f["selected_key_route"].k \in {"text", "null"}

SelectsRoute(d) ==
  d.k = "object" /\ "selected_key_route" \in DOMAIN d.f /\ d.f["selected_key_route"].k = "text"

NonZero(d) ==
  IF d.k # "object" THEN <<>>
  ELSE SelectSeq(Fields, LAMBDA x : /\ x \in DOMAIN d.f
                                    /\ d.f[x].k = "number" /\ d.f[x].n # 0)

(* A faulty variant: the fields are searched in another order.             *)
FieldValueFromLast(d) == d.f[Last(NonZero(d))].n

FieldValue(d) == d.f[Head(NonZero(d))].n

\* A null is decoded into 0.
parseDirectValue(d) ==
  CASE d.k \in {"number", "text"} -> d.n
    [] d.k = "null" -> 0
    [] OTHER -> None

(* A document that names a route itself is searched for the route of the   *)
(* job again, which failed before or is empty.                             *)
extractValueFromResponse(d) ==
  LET routed == extractValueByKeyPath(d, watchJob.route)
  IN  CASE watchJob.route # <<>> /\ routed # None -> routed
        [] IsValueResponse(d) /\ SelectsRoute(d) -> None
        [] IsValueResponse(d) /\ ~SelectsRoute(d) /\ NonZero(d) # <<>> -> FieldValue(d)
        [] OTHER -> parseDirectValue(d)

\* The copy of the websocket worker goes on where the other gives up, and has
\* its own search of the fields.
extractNumericValueFromMessage(d) ==
  LET routed == extractValueByKeyPath(d, watchJob.route)
  IN  CASE watchJob.route # <<>> /\ routed # None -> routed
        [] IsValueResponse(d) /\ NonZero(d) # <<>> -> d.f[Head(NonZero(d))].n
        [] OTHER -> parseDirectValue(d)

-----------------------------------------------------------------------------
(* Whether a number satisfies the condition.  No comparison but != holds   *)
(* of NaN; a type that is not known is an error.                           *)

Satisfies(v) ==
  LET lower == watchJob.lower
      upper == watchJob.upper
  IN  IF v = NaN THEN watchJob.type = "not_equals"
      ELSE CASE watchJob.type = "greater_than" -> v > lower
             [] watchJob.type = "less_than" -> v < upper
             [] watchJob.type = "between" -> lower <= v /\ v <= upper
             [] watchJob.type = "equals" -> v = lower
             [] watchJob.type = "not_equals" -> v # lower
             [] watchJob.type = "greater_equal" -> v >= lower
             [] watchJob.type = "less_equal" -> v <= upper
             [] OTHER -> FALSE

Known == {"greater_than", "less_than", "between", "equals", "not_equals", "greater_equal",
          "less_equal"}

evaluateCondition(v) ==
  IF watchJob.type \notin Known THEN "error" ELSE IF Satisfies(v) THEN "met" ELSE "not met"

\* What a worker makes of a document: an error, or a number and the condition.
Verdict(v) == IF v = None THEN [value |-> None, says |-> "error"]
              ELSE [value |-> v, says |-> evaluateCondition(v)]

-----------------------------------------------------------------------------

\* The source has another value, and sends it to the websocket.
Publish ==
  /\ published < MaxPublished
  /\ published' = published + 1
  /\ document' \in Documents
  /\ UNCHANGED <<watchJob, watcher, verdicts>>

Starts(at) == [at |-> at, active |-> TRUE, cancelled |-> FALSE, stops |-> 0, met |-> 0]

\* A websocket that cannot be dialled ends the worker, which counts as running.
StartWatcher(w) ==
  /\ watcher[w].at = "start"
  /\ \E at \in {"loop"} \cup (IF w = "websocket" THEN {"ended"} ELSE {}) :
       watcher' = [watcher EXCEPT ![w] = Starts(at)]
  /\ UNCHANGED <<watchJob, document, published, verdicts>>

(* The top of the loop.  The websocket worker then waits for a message and *)
(* does not see that it is stopped before it has got one.                  *)
NextRound(w) ==
  /\ watcher[w].at = "loop"
  /\ watcher' = [watcher EXCEPT ![w].at = IF watcher[w].cancelled THEN "ended" ELSE "fetch"]
  /\ UNCHANGED <<watchJob, document, published, verdicts>>

\* The job has expired at a tick; the websocket worker does not look.
Expires ==
  /\ watcher["http"].at = "fetch"
  /\ watcher' = [watcher EXCEPT !["http"].at = "ended", !["http"].stops = @ + 1]
  /\ UNCHANGED <<watchJob, document, published, verdicts>>

(* No answer, another status than 200 or a body that cannot be read is     *)
(* logged; a message that cannot be read ends the websocket worker.        *)
FetchError(w) ==
  /\ watcher[w].at = "fetch"
  /\ watcher' = [watcher EXCEPT ![w].at = IF w = "http" THEN "loop" ELSE "ended"]
  /\ UNCHANGED <<watchJob, document, published, verdicts>>

\* checkCondition and handleWebSocketMessage: the scheduler is notified when the
\* condition is met, and "go w.Stop()" is called for a job that does not recur.
After(w, v) ==
  LET fires == v.says = "met"
  IN  [watcher[w] EXCEPT
         !.at = "loop",
         !.met = CASE w = "websocket" -> 0
                   [] fires -> 1
                   [] v.says = "not met" -> 0
                   [] OTHER -> @,
         !.stops = IF fires /\ ~watchJob.recurring THEN @ + 1 ELSE @]

CheckDocument(w) ==
  /\ watcher[w].at = "fetch"
  /\ watcher[w].stops < 2
  /\ LET v == Verdict(IF w = "http" THEN extractValueFromResponse(document)
                      ELSE extractNumericValueFromMessage(document))
     IN  /\ verdicts' = [verdicts EXCEPT ![w] = @ \cup {[seen |-> document, made |-> v]}]
         /\ watcher' = [watcher EXCEPT ![w] = After(w, v)]
  /\ UNCHANGED <<watchJob, document, published>>

StopWatcher(w) ==
  /\ watcher[w].stops > 0
  /\ watcher' = [watcher EXCEPT ![w].stops = @ - 1, ![w].active = FALSE,
                                ![w].cancelled = @ \/ watcher[w].active]
  /\ UNCHANGED <<watchJob, document, published, verdicts>>

ValuesNext ==
  \/ Publish \/ Expires
  \/ \E w \in Watchers :
       StartWatcher(w) \/ NextRound(w) \/ FetchError(w) \/ CheckDocument(w) \/ StopWatcher(w)

ValuesSpec == ValuesInit /\ [][ValuesNext]_valueVars

-----------------------------------------------------------------------------

ValuesTypeOK ==
  /\ watchJob \in WatchJobs /\ document \in Documents
  /\ published \in 1..MaxPublished
  /\ \A w \in Watchers :
       /\ watcher[w].at \in {"start", "loop", "fetch", "ended"}
       /\ watcher[w].stops \in 0..2 /\ watcher[w].met \in 0..1
       /\ watcher[w].cancelled => ~watcher[w].active

(* A job is triggered by the same documents whether its source is asked or *)
(* sends messages: the two copies of the code find the same number and say *)
(* the same of it, unless the document names a route of its own, which only *)
(* the websocket worker passes over ("mirrors monitor_condition's          *)
(* extraction logic", monitor_websocket.go:130).                           *)
CopiesAgree ==
  \A x \in verdicts["http"], y \in verdicts["websocket"] :
    x.seen = y.seen /\ ~SelectsRoute(x.seen) => x.made = y.made
=============================================================================
