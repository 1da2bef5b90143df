------------------------------ MODULE SwarmRun ------------------------------
(***************************************************************************)
(* propagate: a run of the swarm for a ticker and a date.  It resolves the *)
(* pending decisions of its ticker, runs the graph of agents, stores its   *)
(* own decision as pending and removes its checkpoint.  Any number of      *)
(* processes may be running on one machine; a process may crash between    *)
(* any two of its steps, and what it has written stays.                    *)
(*                                                                         *)
(* A step is one operation on a file.  To write a file is to open it, by   *)
(* its name, and to write what was opened: an entry is appended by one     *)
(* write (it fits the buffer of the file), and so is the temporary file    *)
(* filled that the opening has truncated.  All processes use the same      *)
(* temporary file, and a file that is moved takes those with it that have  *)
(* it open: they write to the log what they meant for the temporary file,  *)
(* or to a log that has no name any more.                                  *)
(***************************************************************************)
EXTENDS DecisionLog

CONSTANTS
  Processes,
  MaxStores,           \* bound: no run is started after so many stores
  CheckpointEnabled,   \* is checkpoint_enabled set?
  None                 \* no temporary file; no run

ASSUME RunAssumption ==
  /\ MaxStores \in Nat
  /\ CheckpointEnabled \in BOOLEAN
  /\ None \notin Seq(Blocks) /\ None \notin Keys /\ None \notin {"log", "tmp"}

VARIABLES
  log,           \* the log; <<>> also when the file does not exist
  tmp,           \* the temporary file beside it
  checkpoints,   \* the keys of runs that can be resumed
  pc,            \* where each process is
  key,           \* the ticker and date of its run
  updates,       \* the keys it has outcomes for
  text,          \* what it has read of the log
  file,          \* the name of the file it has open for writing, if any
  stores         \* the number of entries ever appended

files == <<log, tmp, checkpoints>>
vars == <<files, pc, key, updates, text, file, stores>>

TypeOK ==
  /\ log \in Seq(Blocks)
  /\ tmp \in Seq(Blocks) \cup {None}
  /\ checkpoints \in SUBSET Keys
  /\ pc \in [Processes -> {"idle", "pending", "read", "open", "write", "replace",
                           "graph", "check", "open log", "append", "clear"}]
  /\ key \in [Processes -> Keys \cup {None}]
  /\ updates \in [Processes -> SUBSET Keys]
  /\ text \in [Processes -> Seq(Blocks)]
  /\ file \in [Processes -> {"log", "tmp", None}]
  /\ \A p \in Processes : file[p] = "tmp" => tmp # None
  /\ stores \in Nat

Init ==
  /\ log = <<>>
  /\ tmp = None
  /\ checkpoints = {}
  /\ pc = [p \in Processes |-> "idle"]
  /\ key = [p \in Processes |-> None]
  /\ updates = [p \in Processes |-> {}]
  /\ text = [p \in Processes |-> <<>>]
  /\ file = [p \in Processes |-> None]
  /\ stores = 0

Goto(p, to) == pc' = [pc EXCEPT ![p] = to]

(* The process is done with its run, or dead: its locals are gone. *)
End(p) ==
  /\ Goto(p, "idle")
  /\ key' = [key EXCEPT ![p] = None]
  /\ updates' = [updates EXCEPT ![p] = {}]
  /\ text' = [text EXCEPT ![p] = <<>>]
  /\ file' = [file EXCEPT ![p] = None]

-----------------------------------------------------------------------------
Start(p) ==
  /\ pc[p] = "idle"
  /\ stores < MaxStores
  /\ \E k \in Keys : key' = [key EXCEPT ![p] = k]
  /\ Goto(p, "pending")
  /\ UNCHANGED <<files, updates, text, file, stores>>

(* _resolve_pending_entries: prices may or may not be available for each   *)
(* pending decision of the ticker.  The reflections take long.             *)
ReadPending(p) ==
  /\ pc[p] = "pending"
  /\ \E U \in SUBSET {k \in PendingKeys(log) : k.ticker = key[p].ticker} :
       /\ updates' = [updates EXCEPT ![p] = U]
       /\ Goto(p, IF U = {} THEN "graph" ELSE "read")
  /\ UNCHANGED <<files, key, text, file, stores>>

(* batch_update_with_outcomes: the log is read once more, *)
ReadLog(p) ==
  /\ pc[p] = "read"
  /\ text' = [text EXCEPT ![p] = log]
  /\ Goto(p, "open")
  /\ UNCHANGED <<files, key, updates, file, stores>>

(* A bug: the log is rewritten in place. *)
RewriteInPlace(p) ==
  /\ pc[p] = "open"
  /\ log' = <<>>
  /\ file' = [file EXCEPT ![p] = "log"]
  /\ Goto(p, "write")
  /\ UNCHANGED <<tmp, checkpoints, key, updates, text, stores>>

(* the temporary file opened and truncated, *)
OpenTmp(p) ==
  /\ pc[p] = "open"
  /\ tmp' = <<>>
  /\ file' = [file EXCEPT ![p] = "tmp"]
  /\ Goto(p, "write")
  /\ UNCHANGED <<log, checkpoints, key, updates, text, stores>>

(* written from its beginning, whatever has been written to it or become   *)
(* of its name since, and closed,                                          *)
WriteTmp(p) ==
  LET new == Rewritten(text[p], updates[p])
  IN  /\ pc[p] = "write"
      /\ tmp' = IF file[p] = "tmp" THEN Overlaid(new, tmp) ELSE tmp
      /\ log' = IF file[p] = "log" THEN Overlaid(new, log) ELSE log
      /\ file' = [file EXCEPT ![p] = None]
      /\ Goto(p, "replace")
      /\ UNCHANGED <<checkpoints, key, updates, text, stores>>

(* and moved over the log, by its name; if another process has moved it    *)
(* away, the run ends with an exception.                                   *)
Moved == [q \in Processes |-> IF file[q] = "tmp" THEN "log" ELSE None]

Replace(p) ==
  /\ pc[p] = "replace"
  /\ tmp # None
  /\ log' = tmp
  /\ tmp' = None
  /\ file' = Moved
  /\ updates' = [updates EXCEPT ![p] = {}]
  /\ text' = [text EXCEPT ![p] = <<>>]
  /\ Goto(p, "graph")
  /\ UNCHANGED <<checkpoints, key, stores>>

ReplaceFails(p) ==
  /\ pc[p] = "replace"
  /\ tmp = None
  /\ End(p)
  /\ UNCHANGED <<files, stores>>

(* _run_graph: the agents run and leave checkpoints as they go. *)
RunGraph(p) ==
  /\ pc[p] = "graph"
  /\ checkpoints' = IF CheckpointEnabled THEN checkpoints \cup {key[p]} ELSE checkpoints
  /\ Goto(p, "check")
  /\ UNCHANGED <<log, tmp, key, updates, text, file, stores>>

(* A bug: the guard of store_decision compares nothing. *)
CheckNothing(p) ==
  /\ pc[p] = "check"
  /\ Goto(p, "open log")
  /\ UNCHANGED <<files, key, updates, text, file, stores>>

(* A bug: the checkpoint is removed before the decision is stored. *)
ClearThenCheck(p) ==
  /\ pc[p] = "check"
  /\ checkpoints' = checkpoints \ {key[p]}
  /\ Goto(p, IF IsPending(log, key[p]) THEN "clear" ELSE "open log")
  /\ UNCHANGED <<log, tmp, key, updates, text, file, stores>>

(* store_decision: the guard, *)
CheckPending(p) ==
  /\ pc[p] = "check"
  /\ Goto(p, IF IsPending(log, key[p]) THEN "clear" ELSE "open log")
  /\ UNCHANGED <<files, key, updates, text, file, stores>>

(* then the append, to the end of what was opened. *)
OpenLog(p) ==
  /\ pc[p] = "open log"
  /\ file' = [file EXCEPT ![p] = "log"]
  /\ Goto(p, "append")
  /\ UNCHANGED <<files, key, updates, text, stores>>

AppendEntry(p) ==
  /\ pc[p] = "append"
  /\ \E size \in Sizes :
       log' = IF file[p] = "log" THEN Stored(log, key[p], stores + 1, size) ELSE log
  /\ file' = [file EXCEPT ![p] = None]
  /\ stores' = stores + 1
  /\ Goto(p, "clear")
  /\ UNCHANGED <<tmp, checkpoints, key, updates, text>>

(* clear_checkpoint: one transaction; a database that is locked is left    *)
(* as it is, silently.                                                     *)
ClearCheckpoint(p) ==
  /\ pc[p] = "clear"
  /\ checkpoints' \in
       IF CheckpointEnabled THEN {checkpoints \ {key[p]}, checkpoints} ELSE {checkpoints}
  /\ End(p)
  /\ UNCHANGED <<log, tmp, stores>>

Crash(p) ==
  /\ pc[p] # "idle"
  /\ End(p)
  /\ UNCHANGED <<files, stores>>

Step(p) ==
  \/ Start(p) \/ ReadPending(p)
  \/ ReadLog(p) \/ OpenTmp(p) \/ WriteTmp(p) \/ Replace(p) \/ ReplaceFails(p)
  \/ RunGraph(p) \/ CheckPending(p) \/ OpenLog(p) \/ AppendEntry(p)
  \/ ClearCheckpoint(p)

Next == \E p \in Processes : Step(p) \/ Crash(p)

Spec == Init /\ [][Next]_vars

-----------------------------------------------------------------------------
(* A decision that has no outcome yet leaves the log only when an outcome  *)
(* for it is being written, whatever crashes in between: pending blocks    *)
(* are always kept.  It holds for one process at a time, and fails as soon *)
(* as a second one appends between the read and the replacement.           *)
PendingKept ==
  [][\A e \in ToSet(log) :
       ~e.resolved /\ e.number \notin Numbers(log') =>
         \E p \in Processes : pc[p] = "replace" /\ e.key \in updates[p]]_vars

(* However many processes there are, none loses a pending decision by what *)
(* it does itself: one is lost only by a rewrite of a text that is no      *)
(* longer the log, or of a temporary file that is no longer what was       *)
(* written to it, each of which another process must have changed.         *)
LossNeedsOverlap ==
  [][\A e \in ToSet(log) :
       e.key \in Keys /\ ~e.resolved /\ e.number \notin Numbers(log') =>
         \E p \in Processes :
           /\ pc[p] \in {"write", "replace"} /\ pc'[p] # pc[p]
           /\ \/ e.key \in updates[p]
              \/ text[p] # log
              \/ pc[p] = "replace" /\ tmp # Rewritten(text[p], updates[p])]_vars

(* An entry leaves the log only by rotation, from the front: the log is    *)
(* then full of resolved entries, and all of them are newer.               *)
OldestDroppedFirst ==
  [][\A e \in ToSet(log) :
       e.number \notin Numbers(log') =>
         /\ ResolvedCount(log') = MaxEntries
         /\ \A f \in ToSet(log') : f.resolved => f.number > e.number]_vars

(* A run that is repeated, after a crash anywhere or after a checkpoint    *)
(* was left behind, never leaves two pending decisions for one ticker and  *)
(* date.                                                                   *)
OnePendingPerKey ==
  \A i, j \in DOMAIN log :
    ~log[i].resolved /\ ~log[j].resolved /\ log[i].key = log[j].key => i = j

(* The work of a run is never lost to a crash: its checkpoint is removed   *)
(* only when its decision is in the log.                                   *)
CheckpointClearedLast ==
  [][checkpoints \ checkpoints' \subseteq PendingKeys(log)]_vars

(* The log stays in the order in which decisions were stored, each once:   *)
(* the context of the agents is its newest part.  For one process at a     *)
(* time: two may tear the file or repeat its end.                          *)
StoreOrder ==
  \A i, j \in DOMAIN log : i < j => log[i].number < log[j].number

(* After every write of one process at a time there are at most as many    *)
(* resolved entries as configured.                                         *)
ResolvedWithinLimit == MaxEntries > 0 => ResolvedCount(log) <= MaxEntries
=============================================================================
