--------------------------- MODULE MCTradeGateway ---------------------------
(***************************************************************************)
(* Small instances of TradeGateway.                                        *)
(***************************************************************************)
EXTENDS TradeGateway

CONSTANTS btc, eth

Request(i, side, notional, leverage, limit, ttl, detected) ==
  [instrument |-> i, side |-> side, notional |-> notional,
   leverage |-> leverage, slippage_bps_limit |-> limit,
   signal_ttl_ms |-> ttl, signal_detected_at |-> detected]

(* The clock reads 4.  With a limit of 1 bp the fill is refused as soon as *)
(* sigma leaves its default; the age of the second signal is exactly its   *)
(* TTL, that of the fourth is above it.  The last request names no asset,  *)
(* and its signal comes from a clock that is ahead of the engine's.        *)
MCMessages ==
  {Request(btc, Buy,  2, 1,    1,  0, None),
   Request(btc, Sell, 3, None, 50, 2, 2),
   Request(eth, Sell, 5, 1,    50, 2, None),
   Request(eth, Buy,  1, 1,    50, 2, 1),
   Request(None, Buy, None, 1, 50, 2, 5)}

Config(drawdown, var) ==
  [max_drawdown_pct |-> drawdown, max_var_1d_99_pct |-> var,
   max_garch_sigma_sq |-> 400,
   max_single_order_notional |-> 1000000, max_leverage_ratio |-> 20]

(* The default configuration, one whose VaR limit is exactly the           *)
(* placeholder, and one that allows no drawdown at all.                    *)
MCConfigs == {Config(50000, 20000), Config(50000, 5000), Config(0, 5000)}

(* Orders at the leverage cap and above it, and above the notional cap.    *)
MCCapMessages ==
  {Request(btc, Buy, 5,       20, 50, 0, None),
   Request(btc, Buy, 5,       21, 50, 0, None),
   Request(btc, Buy, 1000001, 1,  50, 0, None)}

(* An order to buy and one to sell, of different sizes. *)
MCNetMessages ==
  {Request(btc, Buy,  5, 1, 50, 0, None),
   Request(btc, Sell, 3, 1, 50, 0, None)}

MCDefaultConfig == {Config(50000, 20000)}

=============================================================================
