----------------------------- MODULE DecisionLog ----------------------------
(***************************************************************************)
(* The Markdown log of trading decisions as a sequence of entries, and     *)
(* what TradingMemoryLog makes of a text it has read.                      *)
(*                                                                         *)
(* An entry has the key of its tag (the ticker and the date), is pending   *)
(* or resolved, and carries the number of the store that appended it,      *)
(* which the text does not hold and the properties use.  The rating, the   *)
(* returns, the decision and the reflection are left out, but the entry    *)
(* has the length that they give it, its separator included.               *)
(*                                                                         *)
(* A text may also have torn blocks: what another text that was written    *)
(* over an entry has left of it.  The tag comes first and is gone, so      *)
(* nothing recognises such a block, and it is passed on as it is.  Units   *)
(* of length are taken so coarse that no separator is torn.                *)
(***************************************************************************)
EXTENDS Integers, FiniteSets, Sequences, SequencesExt

CONSTANTS
  Tickers,
  Dates,
  MaxEntries,     \* memory_log_max_entries; 0 stands for None
  Sizes,          \* the lengths that an entry may have when it is stored
  ReflectionSize, \* what an outcome and its reflection add to it
  Torn            \* the key of a torn block

Keys == [ticker : Tickers, date : Dates]

ASSUME LogAssumption ==
  /\ MaxEntries \in Nat /\ ReflectionSize \in Nat
  /\ Sizes \subseteq Nat \ {0}
  /\ Torn \notin Keys

(* An entry, or a torn block, which is neither pending nor resolved. *)
Blocks == [key : Keys \cup {Torn}, resolved : BOOLEAN, number : Nat, size : Nat \ {0}]

TornBlock(size) == [key |-> Torn, resolved |-> FALSE, number |-> 0, size |-> size]

PendingKeys(log) == {e.key : e \in {x \in ToSet(log) : x.key \in Keys /\ ~x.resolved}}

Resolved(log) == {i \in DOMAIN log : log[i].resolved}

ResolvedCount(log) == Cardinality(Resolved(log))

Numbers(log) == {e.number : e \in ToSet(log)}

(* The idempotency guard of store_decision looks at pending entries only. *)
IsPending(log, key) == key \in PendingKeys(log)

(* A bug that swaps the ticker and the date, both strings. *)
StoredSwapped(log, key, number, size) ==
  Append(log, [key |-> [ticker |-> key.date, date |-> key.ticker],
               resolved |-> FALSE, number |-> number, size |-> size])

Stored(log, key, number, size) ==
  Append(log, [key |-> key, resolved |-> FALSE, number |-> number, size |-> size])

-----------------------------------------------------------------------------
(* batch_update_with_outcomes: the blocks are visited in turn, and an      *)
(* outcome is used up by the first pending block with its key.             *)
FirstPending(log, i) ==
  /\ ~log[i].resolved
  /\ \A j \in 1..(i - 1) : log[j].resolved \/ log[j].key # log[i].key

Resolve(e) == [e EXCEPT !.resolved = TRUE, !.size = @ + ReflectionSize]

Updated(log, keys) ==
  [i \in DOMAIN log |->
     IF FirstPending(log, i) /\ log[i].key \in keys THEN Resolve(log[i]) ELSE log[i]]

(* How many of the positions S are not after i, and the entries at S. *)
Rank(S, i) == Cardinality({j \in S : j <= i})

Kept(log, S) ==
  [n \in 1..Cardinality(S) |-> log[CHOOSE i \in S : Rank(S, i) = n]]

(* Bugs: the newest blocks are kept, pending or not; the blocks that are   *)
(* kept are put together by kind.                                          *)
RotatedByAge(log) ==
  IF MaxEntries > 0 /\ ResolvedCount(log) > MaxEntries
  THEN SubSeq(log, Len(log) - MaxEntries + 1, Len(log)) ELSE log

RotatedByKind(log) ==
  LET old == Kept(log, Resolved(log))
      excess == ResolvedCount(log) - MaxEntries
  IN  IF MaxEntries > 0 /\ excess > 0
      THEN Kept(log, DOMAIN log \ Resolved(log)) \o SubSeq(old, excess + 1, Len(old))
      ELSE log

(* _apply_rotation: the resolved entries in excess are dropped, the first  *)
(* in the text first.                                                      *)
Dropped(log) ==
  {i \in Resolved(log) : Rank(Resolved(log), i) <= ResolvedCount(log) - MaxEntries}

Rotated(log) ==
  IF MaxEntries > 0 /\ ResolvedCount(log) > MaxEntries
  THEN Kept(log, DOMAIN log \ Dropped(log)) ELSE log

(* A bug: the rotation before the update. *)
RewrittenEarly(log, keys) == Updated(Rotated(log), keys)

Rewritten(log, keys) == Rotated(Updated(log, keys))

-----------------------------------------------------------------------------
(* The units of which a text consists, and how many they are. *)
Units(text) == UNION {{i} \X (1..text[i].size) : i \in DOMAIN text}

Length(text) == Cardinality(Units(text))

(* A text written from the beginning of a file that holds another one: of  *)
(* a longer text the end stays, and the block that the new text ends in is *)
(* torn.  How far the old text reaches beyond the new one, block by block: *)
Beyond(new, old, i) == Length(SubSeq(old, 1, i)) - Length(new)

Overlaid(new, old) ==
  new \o Kept([i \in DOMAIN old |->
                 IF Beyond(new, old, i) < old[i].size
                 THEN TornBlock(Beyond(new, old, i)) ELSE old[i]],
              {i \in DOMAIN old : Beyond(new, old, i) > 0})

=============================================================================
