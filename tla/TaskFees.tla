------------------------------ MODULE TaskFees ------------------------------
(***************************************************************************)
(* What a task will cost, as the database server quotes it (GetTaskFees)   *)
(* and a keeper works it out: a fee in dollars at the present rate of      *)
(* ether, the gas of the call at the price of the past week, and the gas   *)
(* of the aggregator, with a fifth on top; and beside it the same at the   *)
(* present price.  The scripts of a quote are run side by side.            *)
(*                                                                         *)
(* Amounts are scaled down, and keep their order.  What the world answers  *)
(* during one execution is a market; Failed stands for an error.           *)
(***************************************************************************)
EXTENDS Integers, Sequences, FiniteSets, FiniteSetsExt, SequencesExt

CONSTANTS
  FeeScripts,       \* the scripts, by their URLs
  Quotes,           \* the requests: records [kind, scripts, contract, sender]
  Markets,          \* [rate, fits, client, gas, history, now, later, aggregator]
  StaticFee, DynamicFee, CustomFee,  \* config: off-chain, in cents
  LegacyFee,        \* what calculateLegacyFees comes to
  DefaultOnChain,   \* 0.001 ether
  DefaultGas,       \* 1000000 units of gas
  AggregatorGas,    \* 720000 units of gas
  MaxSamples,       \* 20 chunks of 1024
  ChunksOfWeek,     \* chunks of 1024 blocks in seven days
  Failed            \* no answer

DefaultPrice == 1   \* 1 gwei

ASSUME TaskFeesAssumption ==
  /\ {StaticFee, DynamicFee, CustomFee, LegacyFee, DefaultOnChain, DefaultGas,
      AggregatorGas, MaxSamples, ChunksOfWeek} \subseteq Nat
  /\ ChunksOfWeek > 0
  /\ \A q \in Quotes : /\ q.kind \in {"static", "dynamic", "custom", "unknown"}
                         /\ q.scripts \subseteq FeeScripts
  /\ \A m \in Markets :
       /\ {m.rate, m.gas, m.now, m.later, m.aggregator} \subseteq Nat \cup {Failed}
       /\ m.history \in Seq({Failed} \cup Seq([base : Int, tip : Int]))

VARIABLES
  quote,    \* the request
  worked,      \* what became of each script: "no", "failed", "priced"
  prices,   \* the gas prices an execution was priced with: what it sampled,
            \* and the present one
  total,    \* the sums of the answer
  current,
  quoted    \* "asked", "running", "answered", "refused", "crashed"

feeVars == <<quote, worked, prices, total, current, quoted>>

NoPrices == [week |-> <<>>, now |-> 0]

FeeInit ==
  /\ quote \in Quotes
  /\ worked = [s \in FeeScripts |-> "no"]
  /\ prices = [s \in FeeScripts |-> NoPrices]
  /\ total = 0
  /\ current = 0
  /\ quoted = "asked"

-----------------------------------------------------------------------------
(* The price of gas                                                        *)

\* SuggestGasPrice, with its default.
PriceOr(p) == IF p = Failed THEN DefaultPrice ELSE p

\* The dearest transaction of a block: the tip is absent on a legacy chain
\* and in the entry for the block to come, and may be invalid.
DearestIn(block) ==
  IF block.base <= 0 THEN <<>>
  ELSE <<IF block.tip \in Nat THEN block.base + block.tip ELSE 2 * block.base>>

SamplesOf(chunks) == FlattenSeq([i \in 1..Len(chunks) |->
                       FlattenSeq([j \in 1..Len(chunks[i]) |-> DearestIn(chunks[i][j])])])

\* The chunks fetched, the newest first: until the week is covered, there are
\* samples enough or the chain has no older block.
Fetched(history) ==
  SubSeq(history, 1,
    Min({Len(history), ChunksOfWeek} \cup
        {k \in 1..Len(history) : /\ Failed \notin ToSet(SubSeq(history, 1, k))
                                 /\ Len(SamplesOf(SubSeq(history, 1, k))) >= MaxSamples}))

\* The k-th of the values in ascending order.
Ranked(values, k) ==
  CHOOSE v \in ToSet(values) :
    /\ Cardinality({i \in DOMAIN values : values[i] < v}) < k
    /\ Cardinality({i \in DOMAIN values : values[i] <= v}) >= k

(* A faulty variant: one entry too low.                                    *)
LowPercentile(values) == Ranked(values, Max({(3 * Len(values)) \div 4, 1}))

calculatePercentile(values) ==
  Ranked(values, Min({(3 * Len(values)) \div 4 + 1, Len(values)}))

\* fetchHistoricalGasPrices: a chunk that fails and an empty week fall back to
\* the present price.
Sampled(m) ==
  LET chunks == Fetched(m.history)
  IN  IF Failed \in ToSet(chunks) \/ SamplesOf(chunks) = <<>>
      THEN <<PriceOr(m.now)>>
      ELSE SamplesOf(chunks)

\* A new GasEstimator for every execution: its cache of prices is empty.
getOrUpdateCachedGasPrice(m) == calculatePercentile(Sampled(m))

-----------------------------------------------------------------------------
(* The fee of one execution                                                *)

OffChainFee(kind) ==
  CASE kind = "static" -> StaticFee [] kind = "dynamic" -> DynamicFee [] kind = "custom" -> CustomFee

\* calculateLegacyFees, of the complexity of the script.
Legacy == [fee |-> LegacyFee, now |-> 0]

\* Always at the present price, of a chain of its own.
AggregatorFee(m) == AggregatorGas * PriceOr(m.aggregator)

\* The cost of the call: nothing without the details of the contract; the
\* default if there is no client for the chain or the arguments do not fit.
OnChain(q, m) ==
  IF ~ q.contract THEN [fee |-> 0, now |-> 0]
  ELSE IF ~ m.client \/ ~ m.fits THEN [fee |-> DefaultOnChain, now |-> 0]
  ELSE LET gas == IF m.gas = Failed THEN DefaultGas ELSE m.gas
       IN  [fee |-> gas * getOrUpdateCachedGasPrice(m), now |-> gas * PriceOr(m.later)]

Buffered(fee) == (fee * 120) \div 100

\* calculateFees; the rate 0 of an answer without one makes an infinite fee,
\* which has no integer (the caller's sum panics on it).
calculateFees(q, m) ==
  IF q.kind = "unknown" THEN {Legacy}
  ELSE IF m.rate = Failed THEN {[fee |-> 0, now |-> 0]}
  ELSE IF m.rate = 0 THEN {}
  ELSE LET off == OffChainFee(q.kind) \div m.rate
           on == OnChain(q, m)
           agg == AggregatorFee(m)
       IN  IF q.kind = "custom" THEN {[fee |-> off, now |-> off]}
           ELSE {[fee |-> Buffered(off + on.fee + agg), now |-> off + on.now + agg]}

-----------------------------------------------------------------------------
(* GetTaskFees                                                             *)

\* Refused without the address the call is sent from (of the environment), and
\* a dynamic task without scripts; other tasks run without code.
AskFees ==
  /\ quoted = "asked"
  /\ quoted' = IF ~ quote.sender \/ (quote.kind = "dynamic" /\ quote.scripts = {})
               THEN "refused" ELSE "running"
  /\ UNCHANGED <<quote, worked, prices, total, current>>

\* One script of several may fail, and the others go on; the only execution
\* of another kind of task fails the request.
ScriptFails(s) ==
  /\ quoted = "running" /\ s \in quote.scripts /\ worked[s] = "no"
  /\ worked' = [worked EXCEPT ![s] = "failed"]
  /\ quoted' = IF quote.kind = "dynamic" THEN quoted ELSE "refused"
  /\ UNCHANGED <<quote, prices, total, current>>

\* Under mu.
ScriptPriced(s, m) ==
  /\ quoted = "running" /\ s \in quote.scripts /\ worked[s] = "no"
  /\ \E f \in calculateFees(quote, m) : total' = total + f.fee /\ current' = current + f.now
  /\ worked' = [worked EXCEPT ![s] = "priced"]
  /\ prices' = [prices EXCEPT ![s] = [week |-> Sampled(m), now |-> PriceOr(m.later)]]
  /\ UNCHANGED <<quote, quoted>>

\* In the goroutine of a script nobody recovers from the panic; in the
\* handler the middleware does.
ScriptPanics(s, m) ==
  /\ quoted = "running" /\ s \in quote.scripts /\ worked[s] = "no"
  /\ calculateFees(quote, m) = {}
  /\ quoted' = IF quote.kind = "dynamic" THEN "crashed" ELSE "refused"
  /\ UNCHANGED <<quote, worked, prices, total, current>>

AnswerFees ==
  /\ quoted = "running"
  /\ \A s \in quote.scripts : worked[s] # "no"
  /\ quoted' = "answered"
  /\ UNCHANGED <<quote, worked, prices, total, current>>

FeeNext ==
  \/ AskFees \/ AnswerFees
  \/ \E s \in FeeScripts :
       \/ ScriptFails(s)
       \/ \E m \in Markets : ScriptPriced(s, m) \/ ScriptPanics(s, m)

FeeSpec == FeeInit /\ [][FeeNext]_feeVars

-----------------------------------------------------------------------------
FeeTypeOK ==
  /\ quote \in Quotes
  /\ worked \in [FeeScripts -> {"no", "failed", "priced"}]
  /\ total \in Nat /\ current \in Nat
  /\ quoted \in {"asked", "running", "answered", "refused", "crashed"}

\* More than three quarters of the sampled prices are below the present one.
DearerNow(p) ==
  4 * Cardinality({i \in DOMAIN p.week : p.week[i] < p.now}) > 3 * Len(p.week)

(* gas_estimator.go:246, "gas prices for the last 7 days and calculates    *)
(* 75th percentile", and the buffer of calculateFees: a quote falls short  *)
(* of the present cost only when, for some script of it, gas is dearer now *)
(* than in more than three quarters of the blocks that were sampled.       *)
QuoteCovers ==
  total < current => \E s \in quote.scripts : worked[s] = "priced" /\ DearerNow(prices[s])
=============================================================================
