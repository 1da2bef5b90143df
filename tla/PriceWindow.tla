---------------------------- MODULE PriceWindow ----------------------------
(***************************************************************************)
(* What a GARCH tracker promises, without its ring buffer: it remembers    *)
(* the last N prices it was fed, oldest first, and its variance moves by   *)
(* the GARCH(1,1) rule on the return from the price before to the new one. *)
(* The very first price yields no return.                                  *)
(***************************************************************************)
EXTENDS GarchRule

VARIABLES
  window,      \* the last prices, oldest first
  variance     \* the conditional variance

Init ==
  /\ window = <<>>
  /\ variance = LongRun

Newest(w) == w[Len(w)]

(* The window with one more price: the oldest falls out of a full one. *)
Slide(w, price) == Append(IF Len(w) < N THEN w ELSE Tail(w), price)

Observe(price) ==
  /\ window' = Slide(window, price)
  /\ variance' = IF window = <<>> THEN variance
                 ELSE Garch(variance, SqReturn(Newest(window), price))

Reset ==
  /\ window' = <<>>
  /\ variance' = LongRun

Next == Reset \/ \E price \in Prices : Observe(price)

Spec == Init /\ [][Next]_<<window, variance>>
=============================================================================
