# Formal model of Q-KUKEB

Q-KUKEB is a Rust execution engine (`src/execution-engine`) that accepts trade
commands over gRPC, and a Python swarm of language-model agents
(`src/intelligence-swarm`) that produces them.  This directory holds TLA+ models
of the system, TLC configurations that check them on small instances, and
proofs, checked by TLAPS, of the properties that hold for every instance.

`PROJECT.json` is the index: which component is modelled where, which
definition stands for which lines, what each run checks, which mutated
definition each property catches, the hazards of the code and the theorems.

## 1. Inventory

### Execution engine

| Component | State it keeps | Operations | Interacts with |
|---|---|---|---|
| **SubmitTradeCommand** (`gateway/src/service.rs`) | per call: request, clock reading, variance, snapshots | `submit_trade_command`, `build_rejection`, `build_fill_response`, `publish_risk_frame`, `build_risk_state` | engine state, gates, fill model, publisher, broadcast channel |
| **StreamRiskState** (same file) | a broadcast channel of capacity 64; a periodic task and a receiver per subscriber | `stream_risk_state` | `SubmitTradeCommand` broadcasts on the same channel |
| **Portfolio** (`gateway/src/portfolio.rs`) | instrument to position, initial AUM, high water mark | `open_position`, `close_position` (tests only), `snapshot` | behind one `RwLock` in the engine state |
| **Risk gates** (`risk/src/interceptor.rs`) | the configuration | `evaluate`: signal age, drawdown, VaR, GARCH variance, in this order | called with a snapshot |
| **Fill simulator** (`gateway/src/fill.rs`) | none | `simulate_fill` | called after the gates accept |
| **GARCH estimator** (`risk/src/garch.rs`) | ring buffer of N prices, position, count, variance | `update`, `reset`, accessors | one per instrument in a `DashMap` |
| **Engine state** (`gateway/src/state.rs`) | trackers, portfolio, configuration, publisher | `feed_price`, `get_sigma_sq` | shared by every handler |
| **ZeroMQ publisher** (`transport/src`) | a PUB socket behind a mutex | `publish_risk`, `publish_book` (no caller) | called by `publish_risk_frame` |
| **Fixed-point decimals** (`risk/src/decimal.rs`) | none | rescale, add, subtract, compare | every amount |

### Intelligence swarm

| Component | State it keeps | Operations | Interacts with |
|---|---|---|---|
| **Graph** (`graph/setup.py`, `conditional_logic.py`, `propagation.py`) | the agent state: messages, reports, two debates with counters, plan, proposal, decision; the nodes run so far | one node per agent, an edge after every node, a limit on the nodes of an invocation | agents write the state, the edges read it; `propagate` invokes it |
| **Agents** (`agents/analysts`, `researchers`, `risk_mgmt`, `trader`, `research_manager`) | none of their own | a node each: read the state, ask a language model, return the keys that change | the graph; the analysts' tools |
| **Run** (`graph/trading_graph.py`, `checkpointer.py`) | the checkpoint of a run, the log of states | `propagate`, `_resolve_pending_entries`, `_run_graph` | memory log before and after the graph |
| **Memory log** (`agents/utils/memory.py`) | one Markdown file of decisions, pending or resolved | `store_decision`, `update_with_outcome`, `batch_update_with_outcomes`, rotation | shared by every run on the machine |
| **Executor** (`agents/managers/qkukeb_executor.py`, `structured.py`) | none of its own; writes the verdict into the debate on the risk | the last node: structured call, holds, submission | `grpc_bridge.py`, then the engine |
| **gRPC client** (`transport/grpc_bridge.py`) | a lazily opened channel | `submit_trade_sync`, stream of risk states | the engine |
| **Vendors** (`dataflows/`) | the configuration of the process; a price file per ticker and day | `route_to_vendor`, `load_ohlcv`, `yf_retry`, an implementation of each method by Yahoo and by Alpha Vantage | the tools of the analysts, in threads |
| **Outcome of a run** (`signal_processing.py`, `reflection.py`), **LLM clients** | none | text from text | a language model |

What makes the swarm correct: a debate gives every side its turns and is judged
once; no agent loses or mixes up what another has said; a decision rests on
what this run found out, not on the remains of a failed one; every run ends; a
sure decision reaches the engine; a call for data is answered or fails loudly,
whichever vendor is down; what is told to a model about prices is true.

### What is hard here

* **Interleaving.** A handler is cut at up to seven awaits.  It reads the
  variance before it waits for the portfolio lock, takes up to four snapshots
  of the portfolio under four separate acquisitions of that lock, and books the
  order under a fifth.
* **Partial failure.** The frame may be refused by the socket after the order
  is booked; the fill model may refuse what the gates accepted; the client may
  go away at every await, and what has been done stays done.
* **Boundaries.** Gates 1 and 2 reject at their limit, gate 3 above it; the age
  of a signal saturates at zero; the ring buffer wraps and resets.
* **Long sequences.** The variance feeds back into itself; orders of both sides
  accumulate in one position.
* **A channel that forgets.**  A slow stream loses messages, the periodic task
  of a client that has left goes on sending to the others, and a message may
  be sent after a newer one.
* **Files shared between runs** (memory log, its temporary file, price cache),
  written through descriptors that outlive a truncation or a move by someone
  else, and **crashes** between any two file operations, above all between
  storing a decision and removing its checkpoint.
* **A graph that is started again** over the checkpoint of an attempt that
  failed anywhere, with messages, plans and debates left in it, and one budget
  of nodes for analysts, tools and debates.
* **Threads of tools** that test, read and write one price file without a lock,
  while requests are limited, retried and passed on to another vendor.

What makes each modelled component correct is stated by the properties of
section 3; the hazards, with the line where each bites, are in `PROJECT.json`.

## 2. Modules

```
 Portfolio   RiskGates            GarchRule                     DecisionLog
      \        /                  /       \                          |
     TradeGateway           GarchRing    PriceWindow   RiskStream  SwarmRun
      |        |             |      |  \____INSTANCE____/    |   |       |
 MCTradeGateway |       MCGarchRing |                       |  MCRiskStream |
  TradeGateway_proofs      GarchRing_proofs     RiskStream_proofs   MCSwarmRun
      |              |                                        SwarmRun_proofs
      |  TradeGatewayFrames_proofs
  TradeGatewayBooks_proofs

     Panel  (INSTANCEd twice)
       |
   SwarmGraph                VendorRouting
   |        |                 |         |
MCSwarmGraph  SwarmGraph_proofs   MCVendorRouting  VendorRouting_proofs
```

| Module | Models |
|---|---|
| `Portfolio` | the map of positions and what `snapshot` computes from it, as operators |
| `RiskGates` | the four gates, `evaluate`, and the slippage test of `simulate_fill`, as operators |
| `TradeGateway` | any number of `SubmitTradeCommand` handlers over the shared engine state |
| `GarchRule` | the GARCH(1,1) step with the parameters `get_or_create_garch` passes |
| `GarchRing` | `GarchState<N>`: `update` and `reset` over the ring buffer |
| `PriceWindow` | what the estimator promises: the last N prices, and a variance computed from consecutive ones |
| `RiskStream` | `StreamRiskState`: receivers and periodic tasks on the broadcast channel, and the handlers that broadcast on it |
| `DecisionLog` | the log of decisions as a sequence of entries and torn blocks, what `TradingMemoryLog` makes of a text it has read, and what a text leaves of a longer one it is written over, as operators |
| `SwarmRun` | `propagate`: processes that resolve, run, store and clear, one file operation at a time, with crashes |
| `SwarmGraph` | the graph of one run, node by node, with failures and repeated attempts, up to the decision of the executor |
| `Panel` | what a debate promises: turns in a fixed order, one verdict after the last turn |
| `VendorRouting` | the tools' calls for data, each in its thread: the chain of vendors, the outcomes of every implementation, retries, the shared price file |
| `TradeGateway_proofs`, `TradeGatewayFrames_proofs`, `TradeGatewayBooks_proofs`, `GarchRing_proofs`, `RiskStream_proofs`, `SwarmRun_proofs`, `SwarmGraph_proofs`, `VendorRouting_proofs` | the theorems |
| `MCTradeGateway`, `MCGarchRing`, `MCRiskStream`, `MCSwarmRun`, `MCSwarmGraph`, `MCVendorRouting` | constants for TLC |

`SwarmRun` and `SwarmGraph` are two views of `propagate`: the first takes the
graph for one step and follows the files around it, the second takes the files
for given and follows the graph.  `VendorRouting` is what a node of tools does
inside.

### From the code to `TradeGateway`

| State | In the code |
|---|---|
| `config`, `publisher` | `EngineState.gate_config`, `EngineState.publisher` (both fixed at start) |
| `trackers` | `EngineState.garch_trackers`, an instrument's variance or nothing |
| `positions` | `PortfolioStateManager.positions` behind the lock |
| `pc`, `req`, `now`, `sigma`, `code` | the control point and the locals of a call |
| `shot` | the snapshot each call took, by purpose |
| `wire`, `lost` | what the PUB socket sent and refused |
| `feed` | what `risk_tx` was given |
| `ledger` | auxiliary: whose orders were booked |

| Action | In the code |
|---|---|
| `Receive` | a call begins: clock, request fields, `get_sigma_sq` |
| `EvaluateGates` | snapshot under the read lock; gates; fill simulation |
| `BuildResponse` | the `TradeResponse` with its own risk snapshot |
| `RecordPosition` | `open_position` under the write lock |
| `BuildFrame`, `SendFrame`, `FailFrame` | `publish_risk_frame`: snapshot, then the send and its two results |
| `BuildRiskState`, `Broadcast` | `risk_tx.send(self.build_risk_state().await)` |
| `FeedPrice` | `feed_price`, by whatever feeds prices (the shipped binary has no caller yet; the function is public API) |
| `Cancel` | the call's future is dropped at an await |

The steps are cut at the awaits, and between a released lock and the use of
what was read under it.  No guard of the lock is held across an await, so a
guarded section is one step.  `Decide` is in the same step as the snapshot
because there is no await between them and nothing it reads can have moved: the
snapshot and the variance are locals.

Abstractions: amounts are integers of one unit (the fixed-point representation
is left to a module of its own); a position is its side and its notional
(`unrealized_pnl` is always zero, so the drawdown of the snapshot is zero); the
variance of a tracker moves freely within `Sigmas` here, while its rule is the
subject of `GarchRing`; a snapshot is the map it was computed from together
with the set of orders in it; wording, logging and serialisation are left out.

### From the code to `GarchRing`

`returns`, `pos`, `count`, `sigma_sq`, `prev_sigma_sq` and `last_ts_ns` are the
fields of the same names.  `First` and `Later` are the two paths of `update`,
`Reset` is `reset`.  A write outside of the buffer would panic and has no step.
Variances are rounded down to units of 1e-5, the value of omega; squared
logarithmic returns are a table, a constant of the module.  The bound and the
refinement hold for the rule with this rounding.

### From the code to `RiskStream`

| State or action | In the code |
|---|---|
| `receivers`, `queue`, `lagged` | the broadcast channel, seen from each `rx`: what it has yet to read, and whether its next `recv` returns `Lagged` |
| `task`, `held` | the task spawned by `stream_risk_state`, and the message it has built |
| `handler`, `orders` | `SubmitTradeCommand` from the booking to the broadcast; the number of orders in the books stands for the portfolio |
| `last` | the last message a client was sent |
| `Subscribe`, `Leave` | the call; the drop of the stream, and of `rx`, when the client has gone |
| `Tick`, `Publish`, `Stop` | the loop of the task: snapshot, send, and the `break` when the send finds no receiver |
| `Deliver`, `Skip` | `recv` with a message; `recv` with `Lagged` |
| `Accept`, `BuildRiskState`, `Broadcast`, `Cancel` | the handler of an accepted trade, as in `TradeGateway` |

The `Closed` branch of the stream is never taken: the service keeps a sender
for as long as it serves.  A call's identifier is used again once its task has ended, so
the set `Calls` bounds the calls and orphaned tasks at a time, not their number.

### From the code to `SwarmRun`

| State or action | In the code |
|---|---|
| `log`, `tmp` | the Markdown log and its `.tmp` neighbour |
| `checkpoints` | the ticker and date of each run that left rows in the checkpoint database |
| `key`, `updates`, `text` | the locals of a run |
| `file` | the file it has open for writing, by the name the file has now; none, if that file has lost its name |
| `stores` | auxiliary: numbers the entries |
| `ReadPending` | `_resolve_pending_entries`: the pending entries of the ticker, any subset of which has prices |
| `ReadLog`, `OpenTmp`, `WriteTmp`, `Replace`, `ReplaceFails` | `batch_update_with_outcomes`: read, open and truncate the temporary file, write to what was opened, `os.replace` by name and its failure when another process has moved the file |
| `RunGraph` | the graph, which leaves checkpoints |
| `CheckPending`, `OpenLog`, `AppendEntry` | `store_decision`: the guard, the opening of the log and the append to what was opened |
| `ClearCheckpoint` | `clear_checkpoint`, which ignores a locked database |
| `Crash` | the death of the process, or an exception that ends the run |

All processes use one temporary file.  `Overlaid` is what `write_text` makes of a
file that has been written since it was truncated: the new text, and the end of
the old one as far as that was longer, its first block torn, its other blocks
repeated.  `Moved` says what `os.replace` does to those who have a file open: who
had the temporary file now writes to the log, who had the log writes to a file
without a name.  A torn block has lost its tag, so the code passes it on as it is.

Lengths are kept as far as they decide what an overlay leaves: `Sizes` are those of
a stored entry, `ReflectionSize` is what an outcome adds to one, the same for all.  A
unit is so coarse that no separator is torn (two halves of neighbouring blocks are
not read as one).  A text, long or short, is written by one write, and so is an
entry appended: true as long as it fits the buffer of the file.  A longer
entry could be torn by a crash, which the hazards record.

### From the code to `SwarmGraph`

| State | In the code |
|---|---|
| `node`, `turn`, `steps` | the node that runs next, whose analyst's it is, and the count that `recursion_limit` bounds |
| `messages`, `report`, `debate`, `plan`, `proposal`, `risk`, `decision` | the keys of `AgentState`; `Absent` for a key that a dictionary lacks |
| `attempt`, `checkpointed` | the calls of `propagate`; `checkpoint_enabled` |
| `toolRounds` | auxiliary: the runs of tool nodes |

| Action | In the code |
|---|---|
| `Invoke` | `create_initial_state` and the invocation, with a checkpoint or none: `CheckpointLeft` says that a failed attempt leaves one, and that one that has ended may, if it crashed before `clear_checkpoint` or the database was locked |
| `MarketAnalyst` and the other three, `ToolsNode`, `MsgClear` | the nodes of an analyst, its tools and `create_msg_delete`, with `should_continue_*` |
| `BullResearcher`, `BearResearcher`, `ResearchManager`, `Trader` | the nodes of the same names, with `should_continue_debate` |
| `AggressiveAnalyst`, `ConservativeAnalyst`, `NeutralAnalyst` | the debators, with `should_continue_risk_analysis` |
| `Executor` | `qkukeb_executor_node` with `invoke_structured_or_freetext`, both holds, `submit_trade_sync` and its exception, the dry run |
| `OutOfSteps`, `Fail` | `GraphRecursionError`; a model, a tool or the process fails |

A text is the number of the attempt that wrote it, an argument also its
speaker and its turn: enough to tell what is stale, lost or attributed to the
wrong side.  A node runs in one step, which the graph library makes it: it
commits what a node returns at once.  That an invocation with an initial state
starts at the first node, merging that state into the checkpoint's, is what
this library does; it is marked external.  What a model says is chosen freely.

### From the code to `VendorRouting`

| State | In the code |
|---|---|
| `config` | `_config` of `dataflows/config.py`, which every graph of the process sets |
| `file` | the price file of the day, as the parts of it that have been written |
| `call[c].chain`, `.at` | the local chain of `route_to_vendor` and the place in it |
| `call[c].tries`, `.queries` | the attempts of `yf_retry`; the searches of `get_global_news` |
| `call[c].bulk`, `.day`, `.download`, `.values` | the locals of the indicators of Yahoo and of `load_ohlcv` |
| `mishaps`, `.disturbed` | auxiliary: an empty download, a write that was cut off; a read beside a writer |

| Action | In the code |
|---|---|
| `RouteToVendor`, `SkipUnknownVendor` | `route_to_vendor`: the chain, and its `continue` at a name without an implementation |
| `AskAlphaVantage` | every implementation of Alpha Vantage over `_make_api_request`: a missing key, an HTTP error, a rate limit, and what each makes of them |
| `AskYahoo`, `YahooRequest` | every implementation of Yahoo, with `yf_retry` where the code has it |
| `LookForFile`, `ReadFile`, `Download` | `load_ohlcv`: the test, the read, the download with its retries |
| `OpenFile`, `WriteFirstPart`, `WriteRest`, `WriteFails` | `to_csv`: the file is emptied, filled from a buffer, closed, or left |
| `SetConfig`, `Kill` | another graph of the process; the end of the process |

The operators `AVStock`, `GetFundamentals` and so on say of each implementation
which errors it lets pass, which it turns into text and when it has nothing to
say; the wording and formatting are left out.  The value of an indicator is
represented by whether it is right, that is, was computed from every trading
day up to its own.

## 3. What the runs check

**`gateway`** (`MCTradeGateway.cfg`, 221,122 distinct states): two concurrent
handlers over two instruments and a `None`, five requests, three gate
configurations, with and without a publisher.

* `BooksBalance`: the live positions, and those of every frame and broadcast,
  hold exactly the orders they are said to hold.
* `AnswersMatchBooks`: a completed call booked its order exactly if it answered
  ACCEPTED and the order names an asset and a notional.
* `StrictGateOrder`: a decision names the first gate that fails on what the
  handler read.
* `SnapshotsInOrder`: one call's reports never lose an order.
* `OwnOrderVisibility`: a call's order is never in its own response, always in
  the frame and the broadcast that follow.
* `OneFramePerAnswer`: with a publisher exactly one publication is tried per
  answer, before the answer, with the flag of the answer; without one, none.
* `SidesAreFixed`: no order turns or removes a position.
* `EveryRequestEnds`: every received request is answered or its client leaves.

**`garch`** (`MCGarchRing.cfg`, 122,971 distinct states): N = 3, prices 0
(invalid), 100 and 120, all sequences of updates and resets.

* `IndexInBounds`, `VarianceBounded` (between omega and the fixed point of the
  largest jump), `ImplementsPriceWindow` (refinement of `PriceWindow`).

**`risk_stream`** (`MCRiskStream.cfg`, 16,935 distinct states): two calls that
subscribe, lag, leave and subscribe again, one trade, a capacity of two.

* `TaskOutlivesStream`: an open stream never loses its periodic task.
* `KeepsReporting`: a client that stays is sent messages for ever.
* `StreamSettles`: it ends up with the current state, although older messages
  may follow newer ones on the way.
* `TasksEnd`: when all clients have left for good every task ends, orphans
  included.  While one client stays they do not: each call adds a sender.

**`swarm_run`** (`MCSwarmRun.cfg`, 474,032 distinct states): one process that
crashes anywhere and starts again, two tickers, two dates, at most one resolved
entry, four stores.

* `PendingKept`: a pending decision leaves the log only as its outcome is
  written.
* `OnePendingPerKey`: repeated and resumed runs never double a pending decision.
* `StoreOrder`, `ResolvedWithinLimit`: the log stays in the order of the stores, each
  once, and within its limit, whatever a dead run has left in the temporary file.
* `OldestDroppedFirst`: what leaves the log is older than what is kept, and
  leaves only when the limit is reached.
* `CheckpointClearedLast`: a checkpoint is removed only when the decision of its
  run is in the log.

**`swarm_run_shared`** (`MCSwarmRunShared.cfg`, 494,342 distinct states): two
processes on one log and one temporary file, three stores, entries of two lengths.
Nothing keeps the order, the uniqueness or the limit here: the run reaches logs with
torn blocks, with an entry twice and with more resolved entries than the limit.

* `LossNeedsOverlap`: even so no process loses a pending decision by itself.  One is
  lost only by a text that is not the log any more when it is put over it, or by a
  temporary file that holds something else than was written to it.  A rewrite
  through a moved file, straight into the log, loses nothing that it had read.

**`swarm_graph`** (`MCSwarmGraph.cfg`, 26,880 distinct states): all four
analysts, two rounds of each debate, a limit of 26 nodes, two attempts, with and
without checkpoints; every node may fail.

* `ImplementsResearchDebate`, `ImplementsRiskDebate`: each debate implements a
  `Panel`, of two speakers and of three: turns in order, one verdict, after the
  last turn.  An attempt that starts again starts the panel over.
* `TranscriptsKept`: although every speaker rebuilds the whole dictionary, each
  history is that speaker's part of the transcript, the counter its length, and
  the response the others answer to the latest.
* `ConversationIsOwn`: no analyst reads another's messages, nor a call for tools
  without its answer, unless it starts over the checkpoint of an earlier attempt.
* `DecisionFromOneRun`: the decision rests on reports, debates, a plan and a
  proposal of its own attempt, even over such a checkpoint.
* `CutOffOnlyByTools`: a run is cut off only when its tools do not fit beside the
  nodes every run needs.
* `RunEnds`: it ends, even if an analyst asks for tools for ever.

**`vendors`** (`MCVendorRouting.cfg`, 173,922 distinct states): two calls, one for an
indicator, the other for any method with good and bad input, two
configurations that change, one retry, one kill, two trading days.

* `SomeVendorAnswers`: no call runs out of vendors, whatever a configuration names.
* `ToolsAnswer`: the tool of the indicators never fails a run; of the others only
  that for prices does in the hands of Yahoo, the rest tell the model of their error.
* `CacheSettles`: threads that write the file at once leave it complete, unless a
  download was empty or a write cut off.
* `GapsExplained`: then, and unless the file was read while it was being written, no
  trading day is reported as one without trading and no value is wrong.
* `CallEnds`: every call ends, its retries and its days included.

Five runs show where the code departs from what a comment, a doc or the proto
says of it; the findings in `PROJECT.json` quote the lines.

* `gateway_caps`: the caps on leverage and single-order notional are configured
  and reserved in the proto, and no gate reads them.
* `gateway_net`: an order of the other side adds to the position, so the net
  exposure is not directional.
* `garch_invalid`: an invalid price is not skipped but stored.
* `swarm_run_lost`: with two processes `PendingKept` fails: a decision
  appended between the read and the replacement of the log is lost.
* `executor_hold`: no payload is ever submitted (`SureSignalSubmitted`): the
  executor asks whether a text is a payload.

The other findings are disagreements met on the way that no property is needed
to see: two rewrites of the log at once may tear it, although each is said to be
atomic; `GarchState<1>`, which the type admits, indexes out of bounds on its
second update; a run with a checkpoint starts from its first node again; only
Alpha Vantage's rate limit leads to another vendor; a price file that is being
written makes trading days look like holidays; and others.

### Bounds

* Two handlers: every property is about one handler, or a handler and the
  others through the shared lock; a second handler can act between any two of
  its steps.  Each handler carries one request, so the sequences `wire` and
  `feed` have at most two entries and no extra bound is needed.  The proofs do
  not depend on the number.
* The requests reach each gate and the fill refusal, at the boundaries: a
  signal exactly as old as its TTL and one older, one from a clock ahead of the
  engine's (its age saturates at zero), a VaR limit equal to the placeholder, a drawdown limit of zero, variances below and above the GARCH
  limit, a slippage exactly above 1 bp, orders of both sides on one instrument,
  a request without an asset.
* One instrument has a price feed, the other stays at the default variance.
* N = 3 is the least at which the oldest, the previous and the next slot are
  different.  Variances need no bound: by `VarianceBounded` they are finitely many.

* Two calls, one of which can be an orphaned task, and a channel of two, so that
  one task alone makes a stream lag; one trade moves the state.
* In `SwarmRun` the number of stores is bounded by `MaxStores`, a guard of
  `Start`; four stores under a limit of one entry rotate the log twice or more.  Two
  processes are enough for every pair of file operations to interleave, and entries
  of one and of two units, with a reflection of one, for a text to end at the end of a
  block of another and in the middle of one.  One process needs no lengths: its
  temporary file is empty when it writes.
* In `SwarmGraph` two rounds are the least at which a speaker speaks again and
  answers; 21 nodes are needed without tools, so a limit of 26 is passed with the
  third round of tools, at any analyst.  Two attempts (`MaxAttempts`) leave the
  remains of every failure to a second one.  The proofs bound neither.
* In `VendorRouting` two calls meet in every pair of file steps; a date before the
  last day tells the rows up to it from the rest; two days and a look-back of one
  are the least at which a value depends on an earlier day; `MaxKills` is one, which
  may fall between any two writes.  Retries are at most one (three in the code).

Deadlock is checked everywhere but in the configurations of `SwarmRun`, where
everything stops once `MaxStores` is reached, and of `SwarmGraph`, where a run
that has ended need not be repeated.

### Fairness

`EveryRequestEnds` assumes weak fairness of each handler's own steps.  The
runtime polls every task that was woken; tokio's `RwLock` queues waiters first
come first served, and all guarded sections are short and without an await, so a
waiter's turn comes; the send on the socket returns with a result.  Nothing is
assumed of the environment: requests, prices and cancellations need not come.
`RiskStream` assumes weak fairness of the periodic tasks and the handlers, for
the same reasons, and of `Skip`; and strong fairness of `Deliver`: a
stream that has lagged tries again at once, while the senders' intervals are
a millisecond at least, so it is not made to lag for ever.  This includes that
a client that stays reads its stream.  Clients need not come, leave or trade.

`SwarmGraph` assumes weak fairness of its nodes: the library runs the next node
at once, and a call of a model has a time limit.  `VendorRouting` assumes it
of each call, that is, of each thread: requests are answered or fail.  Neither
assumes anything of failures, kills, or that someone calls again.

The other properties need no fairness.  `SwarmRun` has none: a process may stop
anywhere.

## 4. What is proved

`TradeGateway_proofs` (for all sets of handlers, instruments, messages and
configurations satisfying `PortfolioAssumption`, `NoneAssumption` and
`GatewayAssumption`):

* `TypeCorrect`, `AnswersCorrect`, `GateOrderStrict` from the invariant `IInv`:
  typing, and for each handler `Control` (which locals are set and what they may
  be at each control point), `Recorded` (an order is in the ledger exactly
  between booking and the end of the call) and `Taken` (which snapshots exist at
  each point).  `AnswersMatchBooks` alone is not inductive: the last step of
  a call must know what the earlier ones booked.
* `SidesNeverChange`, an action property: only `RecordPosition` touches the map.
* `SnapshotsNeverGoBack` and `OwnOrderSeen` from a second invariant, `Ordered`:
  `InOrder` (inclusions between the snapshots taken so far and the ledger),
  `OwnOrder` (which of them contain the call's own order) and `Visible` (what
  is on the wire and in the feed comes from those snapshots).

`TradeGatewayFrames_proofs`, from the same assumptions:

* `OneFrameEach`: `OneFramePerAnswer`, from the typing above and the invariant
  `Framed`: a handler is on the wire at most once, or refused, and neither
  before it has tried; a set with at most one element has the cardinality 0 or 1.

`TradeGatewayBooks_proofs`, from the same assumptions:

* `BooksAlwaysBalance`: `BooksBalance`, from the typing above and the invariant `Balanced`:
  the live map is a tally of the ledger, and every snapshot that a handler keeps or
  has sent is a tally of a part of it.  The snapshots must be in the invariant because
  they are sent later than they are taken; the ledger is shown to be finite on the
  way, so nothing is assumed of the number of handlers.  `TallyOfMore` is the step that
  matters: what `OpenPosition` does to one entry is what one more order does to the
  sums.  The sums are folds of the community modules, of which nothing is assumed:
  the first part of the module shows that the fold is well defined (`PartialSums`), that its value
  does not depend on the order (`SumOfWithout`) and only on the amounts
  (`SumOfSame`).  These are inductions over the size of a set, stated as the absence of a smallest set
  of which the claim is false (`SmallestSet`), a form that needs no induction rule
  over predicates.

`RiskStream_proofs` (for any calls and handlers and every capacity of one or
more, under `StreamAssumption`):

* `TypeCorrect`, which contains that no receiver holds more than the capacity.
* `OpenStreamsAreFed`: `TaskOutlivesStream` is inductive with the types: the send of
  a task fails only if there is no receiver at all.

`GarchRing_proofs` (for all price sets, return tables and N of two or more;
with one slot the second update is out of bounds):

* `TypeCorrect` and `NeverOutOfBounds`: the invariant keeps `pos` within the slots and
  ties `pos` and `count` as long as the buffer has not filled.
* `VarianceStaysBounded`: the band is inductive for the rule, by arithmetic on
  the rounding.
* `RingRefinesWindow`: `Init` maps to `Init`, `First`, `Later` (growing or
  sliding) and `Reset` to steps of the window, from lemmas on the modular
  index behind `pos`.

`SwarmRun_proofs` (for any tickers, dates, lengths, limit and number of stores, under
`RunAssumption` and `LogAssumption`):

* For any number of processes: `TypeCorrect`, whose work is in `OverlaidFacts`: whatever is
  written over whatever, the result is blocks again, and the new text is all there.  And
  `LossExplained`: `LossNeedsOverlap`, since only a text put over the log takes anything
  away (`OnlyTextsDrop`), and a rewrite keeps what was pending in what it was made of
  (`PendingRewritten`).
* For every set of processes with one member (the code has no lock, and for two
  `swarm_run_lost` refutes the second of them): `OnePendingKept`, `PendingNeverLost`,
  `StoreOrderKept`, `LimitKept`, `OldestFirst` and `ClearedLast`, from the invariant `Lone`: the
  log is in order, bounded and within its limit, the text of the process is the log
  until it is put in its place, the temporary file is empty when it writes and what
  it wrote when it moves it, whatever crashes have left there before.
* `DecisionLog` defines an update and a rotation in closed form: an entry is kept if it
  is pending or has few enough resolved ones after it, and the new log lists the kept
  ones by rank.  The lemmas on ranks (`RankRange`, `RankReaches`, `PositionFacts`) follow
  from the cardinality of injections, without induction over the log.

`SwarmGraph_proofs` (for every sequence of analysts, any rounds, limit and number
of attempts, under `GraphAssumption`):

* `TypeCorrect`, `CutOffBound` and `OneRun` from one invariant, `IInv`: the types,
  `StepCount` (how many nodes have run, from the node, the analyst, the turns and
  the tools: the counting argument of the bound), `Written` (which keys are of
  this attempt at each node), `ResearchSoFar` and `RiskSoFar` (who has spoken, and
  who is next).  None of the three is inductive alone: what the executor reads is
  fresh because every node before it has run, in this attempt.
* `ResearchRefinesPanel`, `RiskRefinesPanel`: the speaker the counter and the latest
  speaker select is the one whose turn it is by division, so each node is a step of the
  panel, or a stutter.
* `OwnConversation`: `ConversationIsOwn`, from the invariant `Conversation`: which messages may be
  in the state at each node, whose they are, and that tools are asked for by the last of them at most.
* `Transcripts`: `TranscriptsKept` is inductive with the types.  A speaker's part of a history is stated
  in closed form (`IsPart`: the turns of the speaker, ascending, and all of them), so that no
  recursion over the history is needed.
* `NeverSubmits`: `submitted` is always false, for any client, model and
  answer: the refutation of `executor_hold` is no accident of its constants.

`VendorRouting_proofs` (for any set of calls, requests, names, configurations and days,
under `RoutingAssumption`):

* `TypeCorrect`, `AlwaysSomeVendor` and `ToolsNeverSilent`: the invariant `Good` of each
  call says that Yahoo, which never raises the one error that is caught, is
  still in the rest of its chain, however the configuration changes.
* `FileSettles`: `FileSound` follows the file through any number of writers: a header
  and old days are there unless someone is yet to write them; the rest is, unless
  someone is about to.  A reader never waits, so no more can be said of the file
  while it is written.
* `GapsAreExplained`: `GapsExplained`, from the invariant `Explained`: a value is missing or true
  as long as nothing happened to the file, a call reads only when there is one, and its
  day is the last one as long as it computes all at once.  With `FileSound` an undisturbed reader
  finds the complete file, and of a whole table every value is true (`ValueOfWhole`).

## 5. What is only model-checked

* `EveryRequestEnds`, `KeepsReporting`, `StreamSettles`, `TasksEnd`, `RunEnds` and
  `CallEnds`: liveness under fairness is out of the prover's reach.  Every other
  property of a passing run is a theorem.
* The six properties of `swarm_run` are proved for one process, as they are
  checked; `swarm_run_lost` shows that `PendingKept` is false for two, and the overlay
  of the temporary file is why order, uniqueness and limit are not stated for two.
* The refutations, save that of `SureSignalSubmitted`, which `NeverSubmits` proves.

## 6. Plan

Done: the engine's handlers, streams and estimator (`TradeGateway`, `GarchRing`,
`RiskStream`), the run of the swarm with its log (`SwarmRun`), its graph with the
executor and its data (`SwarmGraph`, `VendorRouting`): checked, and every safety
property proved.  Next, in this order:

1. Theorems on progress: that a call of `VendorRouting` and a handler of
   `TradeGateway` come nearer to their end with every step, the part of the liveness
   properties that is not about fairness; that a stream never holds a message
   nobody sent.
2. The conversion of a payload into a `TradeRequest` and the executor's call through the
   client to the gateway, lost answers included, once the executor reaches it.
3. `FixedDecimal` with `close_position`: rescale, add, subtract and the two
   comparisons, against rational arithmetic.

## 7. Not modelled

* **Fixed-point decimals.**  The amounts of the models are exact integers.  Where the
  64-bit integers of `decimal.rs` wrap is a matter of constants that a small instance
  does not reach; the hazards name the lines.
* **`publish_book`, `close_position`, `update_with_outcome`, the asynchronous client and
  `portfolio_manager.py`** have no caller outside of the tests.
* **The conversion of payloads** (`agents/schemas`) has no state, and no run of the code as
  it is gets there.
* **`signal_processing.py`, `reflection.py`, the LLM clients and the prompts**: text from text
  by a language model, without a state.
* **Formatting of articles, tables and reports**: no property is about the wording.
* **Generated protobuf code and the binary's wiring**: generated, or configuration.
