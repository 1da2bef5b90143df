----------------------------- MODULE RiskStream -----------------------------
(***************************************************************************)
(* StreamRiskState: every call has a receiver of the service's broadcast   *)
(* channel, which feeds the client, and a periodic task that sends the     *)
(* state of the engine to ALL the receivers.  The handlers of accepted     *)
(* trades send on the same channel.                                        *)
(*                                                                         *)
(* The state of the engine that a message carries is the number of orders  *)
(* in the books.  A message is built before it is sent, so what a sender   *)
(* read may be old when it is sent.  The channel is seen from its          *)
(* receivers: the messages each has yet to read, at most Capacity of them, *)
(* and whether older ones were overwritten before it read them.            *)
(***************************************************************************)
EXTENDS Integers, Sequences, FiniteSets

CONSTANTS
  Calls,       \* the StreamRiskState calls that may exist at a time
  Handlers,    \* the accepted trades
  Capacity,    \* the capacity of the channel, 64 in the code
  None         \* nothing read yet

ASSUME StreamAssumption ==
  /\ Capacity \in Nat \ {0}
  /\ None \notin Nat
  /\ Calls \cap Handlers = {}

VARIABLES
  orders,      \* the orders in the books
  handler,     \* where each handler is
  task,        \* where the periodic task of each call is; "none": not running
  held,        \* what a sender read and has not sent yet
  receivers,   \* the calls whose stream is open
  queue,       \* the messages a receiver has yet to read
  lagged,      \* the receivers that missed messages and do not know it yet
  last         \* the message a client got last

handlerVars == <<orders, handler>>
channel == <<queue, lagged>>
vars == <<handlerVars, task, held, receivers, channel, last>>

TypeOK ==
  /\ orders \in Nat
  /\ handler \in [Handlers -> {"idle", "riskstate", "broadcast", "done"}]
  /\ task \in [Calls -> {"none", "ticking", "sending"}]
  /\ held \in [Calls \cup Handlers -> Nat \cup {None}]
  /\ receivers \in SUBSET Calls
  /\ queue \in [Calls -> Seq(Nat)]
  /\ \A c \in Calls : Len(queue[c]) <= Capacity
  /\ lagged \in SUBSET receivers
  /\ last \in [Calls -> Nat \cup {None}]
  /\ \A c \in Calls : task[c] = "sending" => held[c] \in Nat
  /\ \A h \in Handlers : handler[h] = "broadcast" => held[h] \in Nat

Init ==
  /\ orders = 0
  /\ handler = [h \in Handlers |-> "idle"]
  /\ task = [c \in Calls |-> "none"]
  /\ held = [s \in Calls \cup Handlers |-> None]
  /\ receivers = {}
  /\ queue = [c \in Calls |-> <<>>]
  /\ lagged = {}
  /\ last = [c \in Calls |-> None]

-----------------------------------------------------------------------------
(* The channel. *)
Full(c) == Len(queue[c]) = Capacity

(* A bug: a channel without a capacity. *)
OfferUnbounded(c, message) == Append(queue[c], message)

(* A full queue loses its oldest message to the new one. *)
Offer(c, message) ==
  Append(IF Full(c) THEN Tail(queue[c]) ELSE queue[c], message)

(* Without a receiver the send fails and the message is gone. *)
Send(message) ==
  /\ queue' = [c \in Calls |->
                 IF c \in receivers THEN Offer(c, message) ELSE queue[c]]
  /\ lagged' = lagged \cup {c \in receivers : Full(c)}

-----------------------------------------------------------------------------
(* StreamRiskState: a receiver first, then its task. *)
Subscribe(c) ==
  /\ c \notin receivers
  /\ task[c] = "none"
  /\ receivers' = receivers \cup {c}
  /\ task' = [task EXCEPT ![c] = "ticking"]
  /\ UNCHANGED <<handlerVars, held, channel, last>>

(* The client is gone and its receiver is dropped; its task goes on. *)
Leave(c) ==
  /\ c \in receivers
  /\ receivers' = receivers \ {c}
  /\ queue' = [queue EXCEPT ![c] = <<>>]
  /\ lagged' = lagged \ {c}
  /\ last' = [last EXCEPT ![c] = None]
  /\ UNCHANGED <<handlerVars, task, held>>

(* A bug: the snapshot is taken once, before the loop. *)
SnapshotOnce(c) == IF held[c] = None THEN orders ELSE held[c]

Snapshot(c) == orders

(* A tick of the interval: the task takes a snapshot under the read lock. *)
Tick(c) ==
  /\ task[c] = "ticking"
  /\ held' = [held EXCEPT ![c] = Snapshot(c)]
  /\ task' = [task EXCEPT ![c] = "sending"]
  /\ UNCHANGED <<handlerVars, receivers, channel, last>>

(* Bugs: a task stops when one receiver is left; a task never stops. *)
StopsAtOne  == Cardinality(receivers) <= 1
StopsNever  == FALSE

(* The send fails: nobody listens. *)
Stops == receivers = {}

Publish(c) ==
  /\ task[c] = "sending"
  /\ ~Stops
  /\ Send(held[c])
  /\ task' = [task EXCEPT ![c] = "ticking"]
  /\ UNCHANGED <<handlerVars, held, receivers, last>>

Stop(c) ==
  /\ task[c] = "sending"
  /\ Stops
  /\ task' = [task EXCEPT ![c] = "none"]
  /\ held' = [held EXCEPT ![c] = None]
  /\ UNCHANGED <<handlerVars, receivers, channel, last>>

(* The stream of a call: it goes on after a lag with the oldest message    *)
(* that is left.                                                           *)
Skip(c) ==
  /\ c \in lagged
  /\ lagged' = lagged \ {c}
  /\ UNCHANGED <<handlerVars, task, held, receivers, queue, last>>

Deliver(c) ==
  /\ c \in receivers \ lagged
  /\ queue[c] # <<>>
  /\ last' = [last EXCEPT ![c] = Head(queue[c])]
  /\ queue' = [queue EXCEPT ![c] = Tail(@)]
  /\ UNCHANGED <<handlerVars, task, held, receivers, lagged>>

-----------------------------------------------------------------------------
(* The handler of an accepted trade: an order that names an asset and a    *)
(* notional is booked, any is broadcast.                                   *)
Accept(h, booked) ==
  /\ handler[h] = "idle"
  /\ orders' = orders + booked
  /\ handler' = [handler EXCEPT ![h] = "riskstate"]
  /\ UNCHANGED <<task, held, receivers, channel, last>>

BuildRiskState(h) ==
  /\ handler[h] = "riskstate"
  /\ held' = [held EXCEPT ![h] = orders]
  /\ handler' = [handler EXCEPT ![h] = "broadcast"]
  /\ UNCHANGED <<orders, task, receivers, channel, last>>

Broadcast(h) ==
  /\ handler[h] = "broadcast"
  /\ Send(held[h])
  /\ held' = [held EXCEPT ![h] = None]
  /\ handler' = [handler EXCEPT ![h] = "done"]
  /\ UNCHANGED <<orders, task, receivers, last>>

(* The client of the trade is gone before its handler has the lock. *)
Cancel(h) ==
  /\ handler[h] = "riskstate"
  /\ handler' = [handler EXCEPT ![h] = "done"]
  /\ UNCHANGED <<orders, task, held, receivers, channel, last>>

Next ==
  \/ \E c \in Calls :
       \/ Subscribe(c) \/ Leave(c)
       \/ Tick(c) \/ Publish(c) \/ Stop(c)
       \/ Skip(c) \/ Deliver(c)
  \/ \E h \in Handlers :
       \/ \E booked \in {0, 1} : Accept(h, booked)
       \/ BuildRiskState(h) \/ Broadcast(h) \/ Cancel(h)

(* The interval of a task goes on ticking, and the lock is fair to it.  A  *)
(* client that stays reads; a stream that has lagged tries again at once,  *)
(* while the intervals are a millisecond at least, so it is not overtaken  *)
(* by the senders for ever.                                                *)
Fairness ==
  /\ \A c \in Calls :
       /\ WF_vars(Tick(c)) /\ WF_vars(Publish(c)) /\ WF_vars(Stop(c))
       /\ WF_vars(Skip(c)) /\ SF_vars(Deliver(c))
  /\ \A h \in Handlers : WF_vars(BuildRiskState(h)) /\ WF_vars(Broadcast(h))

Spec == Init /\ [][Next]_vars /\ Fairness

-----------------------------------------------------------------------------
(* A stream that is open has its periodic task, whoever else subscribes,   *)
(* leaves or subscribes again: a task never finds the channel without a    *)
(* receiver while its own client is there.                                 *)
TaskOutlivesStream == \A c \in receivers : task[c] # "none"

(* A client that stays is sent data for ever, trades or no trades, however *)
(* often it lags behind the others' tasks.                                 *)
KeepsReporting ==
  \A c \in Calls : <>[](c \in receivers) => []<><<Deliver(c)>>_vars

(* Handlers and tasks may send an older state after a newer one, so a      *)
(* stream can go back; but when no more orders come, a client that stays   *)
(* ends up with the current state and is never sent an old one again.      *)
StreamSettles ==
  \A c \in Calls : <>[](c \in receivers) => <>[](last[c] = orders)

(* When all the clients are gone for good, every periodic task ends, those *)
(* included that outlived their own clients.                               *)
TasksEnd == <>[](receivers = {}) => <>[](\A c \in Calls : task[c] = "none")
=============================================================================
