---------------------------- MODULE TradeGateway ----------------------------
(***************************************************************************)
(* The gRPC service of the execution engine: any number of                 *)
(* SubmitTradeCommand handlers running concurrently over one shared        *)
(* EngineState (portfolio, GARCH trackers, gate configuration, ZeroMQ      *)
(* publisher) and one broadcast channel.                                   *)
(*                                                                         *)
(* A handler is cut where the code awaits, and where two threads of the    *)
(* runtime can interleave between a released lock and the use of what was  *)
(* read under it.  No guard of the portfolio lock is ever held across an   *)
(* await, so each guarded section is one step: readers and the writer      *)
(* exclude each other and nobody can observe the middle of a section.      *)
(*                                                                         *)
(* A snapshot is the map of positions it was computed from (the exposures  *)
(* it reports are operators on the map), together with the set of requests *)
(* whose orders the map holds, an auxiliary value the properties use.      *)
(***************************************************************************)
EXTENDS Portfolio, RiskGates, Sequences

CONSTANTS
  Handlers,        \* the SubmitTradeCommand calls that may be in flight
  Messages,        \* the TradeRequests that may arrive
  GateConfigs,     \* the gate configurations the engine may be started with
  Priced,          \* the instruments some price source reports on
  Sigmas,          \* the values a price observation may leave in a tracker
  DefaultSigma,    \* the variance of an instrument without a tracker
  Clock,           \* the readings of the system clock, in milliseconds
  InitialAum       \* the assets under management at start

Requests ==
  [instrument : Instruments \cup {None},   \* None: no AssetIdentifier
   side : Sides,
   notional : Int \cup {None},
   leverage : Int \cup {None},
   slippage_bps_limit : Nat,
   signal_ttl_ms : Nat,
   signal_detected_at : Int \cup {None}]

Configs ==
  [max_drawdown_pct : Int, max_var_1d_99_pct : Int, max_garch_sigma_sq : Int,
   max_single_order_notional : Int, max_leverage_ratio : Int]

Snapshots == [book : Books, seen : SUBSET Handlers]

(* None is told apart from every value it stands beside. *)
ASSUME NoneAssumption ==
  /\ None \notin Instruments \cup Int \cup GateCodes
  /\ None \notin Requests
  /\ None \notin Snapshots

ASSUME GatewayAssumption ==
  /\ Priced \subseteq Instruments
  /\ Messages \subseteq Requests
  /\ GateConfigs \subseteq Configs
  /\ Sigmas \subseteq Nat /\ DefaultSigma \in Nat
  /\ Clock \subseteq Nat
  /\ InitialAum \in Int
  /\ BaseSlippage \in Nat /\ VolMultiplier \in Nat

VARIABLES
  config,       \* gate_config, fixed when the engine starts
  publisher,    \* is a ZeroMQ publisher configured?
  trackers,     \* garch_trackers: instrument -> its sigma, or None
  positions,    \* the map behind the portfolio lock
  pc,           \* where each handler is
  req,          \* the request of each handler
  now,          \* the clock each handler read on arrival
  sigma,        \* the variance each handler read on arrival
  code,         \* the gate code each handler decided, or None
  shot,         \* the snapshots each handler took, by purpose
  wire,         \* the RISK frames sent on the PUB socket, in order
  lost,         \* the handlers whose frame the socket refused
  feed,         \* the RiskStates sent on the broadcast channel, in order
  ledger        \* auxiliary: the handlers whose order was recorded

local == <<req, now, sigma, code>>
engine == <<config, publisher>>
vars == <<engine, trackers, positions, pc, local, shot, wire, lost, feed, ledger>>

Purposes == {"gates", "response", "frame", "stream"}

(* Where a handler can be.  The names are what it waits to do next. *)
Running == {"evaluate", "respond", "open", "frame", "send", "riskstate",
            "broadcast"}
Ended == {"done", "cancelled"}

(* Only these are awaits: a handler whose client has gone is dropped there. *)
Awaits == Running \ {"broadcast"}

Frames == [by : Handlers, all_gates_open : BOOLEAN, shot : Snapshots]
Updates == [by : Handlers, shot : Snapshots]

TypeOK ==
  /\ config \in GateConfigs
  /\ publisher \in BOOLEAN
  /\ trackers \in [Instruments -> Sigmas \cup {None}]
  /\ positions \in Books
  /\ pc \in [Handlers -> {"idle"} \cup Running \cup Ended]
  /\ req \in [Handlers -> Messages \cup {None}]
  /\ now \in [Handlers -> Clock \cup {None}]
  /\ sigma \in [Handlers -> Sigmas \cup {DefaultSigma, None}]
  /\ code \in [Handlers -> GateCodes \cup {None}]
  /\ shot \in [Handlers -> [Purposes -> Snapshots \cup {None}]]
  /\ wire \in Seq(Frames)
  /\ lost \in SUBSET Handlers
  /\ feed \in Seq(Updates)
  /\ ledger \in SUBSET Handlers

Init ==
  /\ config \in GateConfigs
  /\ publisher \in BOOLEAN
  /\ trackers = [i \in Instruments |-> None]
  /\ positions = NewBook
  /\ pc = [h \in Handlers |-> "idle"]
  /\ req = [h \in Handlers |-> None]
  /\ now = [h \in Handlers |-> None]
  /\ sigma = [h \in Handlers |-> None]
  /\ code = [h \in Handlers |-> None]
  /\ shot = [h \in Handlers |-> [p \in Purposes |-> None]]
  /\ wire = <<>>
  /\ lost = {}
  /\ feed = <<>>
  /\ ledger = {}

-----------------------------------------------------------------------------
(* A bug: without a tracker the variance is zero. *)
SigmaSqOrZero(i) ==
  IF i \in Instruments /\ trackers[i] # None THEN trackers[i] ELSE 0

(* The variance of an instrument; that of no instrument is the default. *)
SigmaSq(i) ==
  IF i \in Instruments /\ trackers[i] # None THEN trackers[i] ELSE DefaultSigma

(* An order is recorded only if it names an asset and a notional. *)
Bookable(r) == r.instrument # None /\ r.notional # None

(* What snapshot() hands to gates 1 and 2.  No position ever carries an    *)
(* unrealized P&L, so the equity is the initial AUM, which is also the     *)
(* high water mark.                                                        *)
RiskContext(h) ==
  [drawdown |-> DrawdownPct(InitialAum, InitialAum),
   var |-> Var1d99Pct,
   sigma |-> sigma[h]]

(* A snapshot of the portfolio, taken under the read lock. *)
TakeSnapshot(h, purpose) ==
  shot' = [shot EXCEPT ![h][purpose] = [book |-> positions, seen |-> ledger]]

Goto(h, to) == pc' = [pc EXCEPT ![h] = to]

(* What follows the response, and what follows the RISK frame. *)
AfterFrame(h) == IF code[h] = Accepted THEN "riskstate" ELSE "done"

(* A bug: the path of a refused fill returns without publishing. *)
ToFrameUnlessUnfilled(h) ==
  IF publisher /\ code[h] # ExecutionError THEN "frame" ELSE AfterFrame(h)

ToFrame(h) == IF publisher THEN "frame" ELSE AfterFrame(h)

-----------------------------------------------------------------------------
(* feed_price: the environment reports a price, which creates the tracker  *)
(* of its instrument if there is none and moves its variance.  How far is  *)
(* the business of the GARCH module; here any variance may result.         *)
FeedPrice(i) ==
  /\ \E s \in Sigmas : trackers' = [trackers EXCEPT ![i] = s]
  /\ UNCHANGED <<engine, positions, pc, local, shot, wire, lost, feed, ledger>>

(* A request arrives.  The clock and the variance are read here, before    *)
(* the handler waits for the portfolio lock.                               *)
Receive(h) ==
  /\ pc[h] = "idle"
  /\ \E m \in Messages, t \in Clock :
       /\ req' = [req EXCEPT ![h] = m]
       /\ now' = [now EXCEPT ![h] = t]
       /\ sigma' = [sigma EXCEPT ![h] = SigmaSq(m.instrument)]
  /\ Goto(h, "evaluate")
  /\ UNCHANGED <<engine, trackers, positions, code, shot, wire, lost, feed, ledger>>

(* The gate chain and, if it accepts, the fill simulation. *)
Decide(h) ==
  LET gate == Evaluate(req[h], RiskContext(h), config, now[h])
  IN  IF gate = Accepted /\ SlippageExceeded(req[h], sigma[h])
      THEN ExecutionError ELSE gate

(* Snapshot under the read lock, then everything up to the next await: the *)
(* decision is made from the values read, not from the live state.         *)
EvaluateGates(h) ==
  /\ pc[h] = "evaluate"
  /\ TakeSnapshot(h, "gates")
  /\ code' = [code EXCEPT ![h] = Decide(h)]
  /\ Goto(h, "respond")
  /\ UNCHANGED <<engine, trackers, positions, req, now, sigma, wire, lost, feed, ledger>>

(* A bug: the order is recorded once the gates accept it, before the fill  *)
(* model's verdict is looked at.                                           *)
BuildResponseRecordsUnfilled(h) ==
  /\ pc[h] = "respond"
  /\ TakeSnapshot(h, "response")
  /\ Goto(h, IF code[h] \in {Accepted, ExecutionError} /\ Bookable(req[h])
             THEN "open" ELSE ToFrame(h))
  /\ UNCHANGED <<engine, trackers, positions, local, wire, lost, feed, ledger>>

(* The TradeResponse is complete, its risk_snapshot included, BEFORE an    *)
(* accepted order is recorded.                                             *)
BuildResponse(h) ==
  /\ pc[h] = "respond"
  /\ TakeSnapshot(h, "response")
  /\ Goto(h, IF code[h] = Accepted /\ Bookable(req[h]) THEN "open" ELSE ToFrame(h))
  /\ UNCHANGED <<engine, trackers, positions, local, wire, lost, feed, ledger>>

(* The write lock: the order is recorded. *)
RecordPosition(h) ==
  /\ pc[h] = "open"
  /\ positions' = OpenPosition(positions, req[h].instrument, req[h].side, req[h].notional)
  /\ ledger' = ledger \cup {h}
  /\ Goto(h, ToFrame(h))
  /\ UNCHANGED <<engine, trackers, local, shot, wire, lost, feed>>

(* Bugs: the frame is filled from an earlier snapshot of the same handler, *)
(* which saves waiting for the lock once more.                             *)
ReuseSnapshot(h, purpose) ==
  /\ pc[h] = "frame"
  /\ shot' = [shot EXCEPT ![h]["frame"] = shot[h][purpose]]
  /\ Goto(h, "send")
  /\ UNCHANGED <<engine, trackers, positions, local, wire, lost, feed, ledger>>

FrameFromGates(h)    == ReuseSnapshot(h, "gates")
FrameFromResponse(h) == ReuseSnapshot(h, "response")

(* publish_risk_frame: a snapshot of its own, then the send, which may     *)
(* fail; a failure is logged and the handler goes on.                      *)
BuildFrame(h) ==
  /\ pc[h] = "frame"
  /\ TakeSnapshot(h, "frame")
  /\ Goto(h, "send")
  /\ UNCHANGED <<engine, trackers, positions, local, wire, lost, feed, ledger>>

SendFrame(h) ==
  /\ pc[h] = "send"
  /\ wire' = Append(wire, [by |-> h, all_gates_open |-> code[h] = Accepted,
                           shot |-> shot[h]["frame"]])
  /\ Goto(h, AfterFrame(h))
  /\ UNCHANGED <<engine, trackers, positions, local, shot, lost, feed, ledger>>

(* A bug: the error of the socket ends the handler with no response. *)
FailFrameAborts(h) ==
  /\ pc[h] = "send"
  /\ lost' = lost \cup {h}
  /\ Goto(h, "idle")
  /\ UNCHANGED <<engine, trackers, positions, local, shot, wire, feed, ledger>>

FailFrame(h) ==
  /\ pc[h] = "send"
  /\ lost' = lost \cup {h}
  /\ Goto(h, AfterFrame(h))
  /\ UNCHANGED <<engine, trackers, positions, local, shot, wire, feed, ledger>>

(* build_risk_state takes the snapshot and releases the lock ... *)
BuildRiskState(h) ==
  /\ pc[h] = "riskstate"
  /\ TakeSnapshot(h, "stream")
  /\ Goto(h, "broadcast")
  /\ UNCHANGED <<engine, trackers, positions, local, wire, lost, feed, ledger>>

(* ... and the channel takes it, whether or not anyone listens; then the   *)
(* handler answers.                                                        *)
Broadcast(h) ==
  /\ pc[h] = "broadcast"
  /\ feed' = Append(feed, [by |-> h, shot |-> shot[h]["stream"]])
  /\ Goto(h, "done")
  /\ UNCHANGED <<engine, trackers, positions, local, shot, wire, lost, ledger>>

(* The client is gone: the server drops the handler at the await where it  *)
(* is, and nothing that the handler has done is undone.                    *)
Cancel(h) ==
  /\ pc[h] \in Awaits
  /\ Goto(h, "cancelled")
  /\ UNCHANGED <<engine, trackers, positions, local, shot, wire, lost, feed, ledger>>

Step(h) ==
  \/ EvaluateGates(h)
  \/ BuildResponse(h)
  \/ RecordPosition(h)
  \/ BuildFrame(h)
  \/ SendFrame(h)
  \/ FailFrame(h)
  \/ BuildRiskState(h)
  \/ Broadcast(h)

Next ==
  \/ \E i \in Priced : FeedPrice(i)
  \/ \E h \in Handlers : Receive(h)
  \/ \E h \in Handlers : Step(h)
  \/ \E h \in Handlers : Cancel(h)

(* The runtime polls every task that can run, the portfolio lock queues    *)
(* its waiters first come first served, and a send on the PUB socket comes *)
(* back with a result.  Requests, prices and cancellations need not come.  *)
Fairness == \A h \in Handlers : WF_vars(Step(h))

Spec == Init /\ [][Next]_vars /\ Fairness

-----------------------------------------------------------------------------
Answered(h) == pc[h] = "done"

(* The sum of the notionals of a set of requests. *)
Booked(S) == SumOf([h \in S |-> req[h].notional], S)

(* Every map of positions that anyone reports, and the live one, holds     *)
(* exactly the orders it is said to hold: per instrument, the recorded     *)
(* notional is the sum of the orders accepted on it, none twice and none   *)
(* missing, however the handlers interleave and wherever they were         *)
(* dropped; the gross exposure is then the sum over all of them.           *)
BookHolds(book, seen) ==
  /\ \A i \in Instruments :
       LET on == {h \in seen : req[h].instrument = i}
       IN  IF on = {} THEN book[i] = NoPosition
           ELSE book[i] # NoPosition /\ book[i].notional = Booked(on)
  /\ GrossExposure(book) = Booked(seen)
  /\ OpenPositionCount(book) = Cardinality({req[h].instrument : h \in seen})

BooksBalance ==
  /\ BookHolds(positions, ledger)
  /\ \A n \in DOMAIN wire : BookHolds(wire[n].shot.book, wire[n].shot.seen)
  /\ \A n \in DOMAIN feed : BookHolds(feed[n].shot.book, feed[n].shot.seen)

(* What a client is told is what was recorded: when a handler has          *)
(* answered, its order is in the portfolio exactly if the answer is        *)
(* ACCEPTED and the request named an asset and a notional.  In particular  *)
(* an order the fill model refused after the gates accepted it is not in.  *)
AnswersMatchBooks ==
  \A h \in Handlers :
    Answered(h) =>
      (h \in ledger <=> code[h] = Accepted /\ Bookable(req[h]))

(* The gate order is strict: a rejection names a gate that failed and      *)
(* every earlier gate passed; an order is accepted, or refused by the fill *)
(* model, only if all four gates passed on the values the handler read.    *)
GateFails(h) ==
  <<SignalExpired(req[h], now[h]),
    DrawdownBreached(RiskContext(h).drawdown, config),
    VarBreached(RiskContext(h).var, config),
    GarchBreached(sigma[h], config)>>

GateCode == <<SignalStale, MaxDrawdown, VarBreach, GarchTooHigh>>

StrictGateOrder ==
  \A h \in Handlers : code[h] # None =>
    /\ \A g \in 1 .. 4 :
         code[h] = GateCode[g] =>
           GateFails(h)[g] /\ \A e \in 1 .. g - 1 : ~GateFails(h)[e]
    /\ code[h] \in {Accepted, ExecutionError} =>
         \A g \in 1 .. 4 : ~GateFails(h)[g]

(* No request travels back in time: what its response, then its RISK       *)
(* frame, then its broadcast report contains at least the orders that the  *)
(* snapshot before contained, although each is read under a lock of its    *)
(* own with other handlers in between; nothing reported is not recorded.   *)
SeenBy(h, purpose) ==
  IF shot[h][purpose] = None THEN {} ELSE shot[h][purpose].seen

SnapshotsInOrder ==
  \A h \in Handlers :
    /\ \A p \in Purposes : SeenBy(h, p) \subseteq ledger
    /\ shot[h]["response"] # None => SeenBy(h, "gates") \subseteq SeenBy(h, "response")
    /\ shot[h]["frame"] # None => SeenBy(h, "response") \subseteq SeenBy(h, "frame")
    /\ shot[h]["stream"] # None =>
         SeenBy(h, "response") \cup SeenBy(h, "frame") \subseteq SeenBy(h, "stream")

(* An order is never in the risk_snapshot of its own response, and always  *)
(* in the RISK frame and in the broadcast that follow it: a subscriber     *)
(* that sees the announcement of an accepted order sees its exposure too.  *)
OwnOrderVisibility ==
  \A h \in Handlers :
    /\ h \notin SeenBy(h, "gates") /\ h \notin SeenBy(h, "response")
    /\ \A n \in DOMAIN wire :
         wire[n].by = h /\ wire[n].all_gates_open /\ Bookable(req[h])
           => h \in wire[n].shot.seen
    /\ \A n \in DOMAIN feed :
         feed[n].by = h /\ Bookable(req[h]) => h \in feed[n].shot.seen

(* With a publisher, exactly one attempt to publish a RISK frame is made   *)
(* for every answer, on every path (accepted, rejected by a gate, refused  *)
(* by the fill model), and before the answer; its flag is that of the      *)
(* answer.  Without a publisher nothing is ever sent.                      *)
Attempts(h) ==
  Cardinality({n \in DOMAIN wire : wire[n].by = h}) + (IF h \in lost THEN 1 ELSE 0)

OneFramePerAnswer ==
  /\ \A h \in Handlers : Attempts(h) <= IF publisher THEN 1 ELSE 0
  /\ publisher => \A h \in Handlers : Answered(h) => Attempts(h) = 1
  /\ \A n \in DOMAIN wire :
       wire[n].all_gates_open <=> code[wire[n].by] = Accepted

(* A request that was received is answered, unless its client goes away,   *)
(* whatever the other handlers do and whether or not frames are lost.      *)
EveryRequestEnds ==
  \A h \in Handlers : pc[h] = "evaluate" ~> pc[h] \in Ended

(* While the engine serves orders, a position never changes sides: no      *)
(* order, whatever its side, turns a long position into a short one, or    *)
(* removes it.                                                             *)
SidesAreFixed ==
  [][\A i \in Instruments : positions[i] # NoPosition =>
       positions'[i] # NoPosition /\ positions'[i].side = positions[i].side]_vars

-----------------------------------------------------------------------------
(* The proto reserves a code for an order above the leverage cap and one   *)
(* for an order above the notional cap, and the schema of the trade says   *)
(* that the engine enforces the cap of its configuration: an order that is *)
(* recorded is within both.                                                *)
RecordedWithinCaps ==
  \A h \in ledger :
    /\ req[h].leverage # None => req[h].leverage <= config.max_leverage_ratio
    /\ req[h].notional <= config.max_single_order_notional

(* The net exposure is directional: orders to buy count for, orders to     *)
(* sell against.                                                           *)
NetIsDirectional ==
  NetExposure(positions) =
    Booked({h \in ledger : req[h].side = Buy})
      - Booked({h \in ledger : req[h].side = Sell})

=============================================================================
