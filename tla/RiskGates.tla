----------------------------- MODULE RiskGates -----------------------------
(***************************************************************************)
(* The risk interceptor's gate chain and the fill simulator, as operators. *)
(*                                                                         *)
(* sigma (the conditional variance) is counted in units of 1e-4, slippage  *)
(* in tenths of a basis point: 0.5 bp + sigma_sq * 1000 is then exactly    *)
(* BaseSlippage + VolMultiplier * sigma with BaseSlippage = 5 and          *)
(* VolMultiplier = 1 (the default FILL_VOL_MULTIPLIER).  Times are in      *)
(* milliseconds.  A request without invalidation thresholds has            *)
(* signal_ttl_ms = 0; the gate skips both alike.                           *)
(***************************************************************************)
EXTENDS Integers

CONSTANTS
  None,            \* an optional field that is not set
  BaseSlippage,    \* tenths of a basis point
  VolMultiplier    \* tenths of a basis point per unit of sigma

TenthsPerBp == 10

(* The RiskGateCode values the engine answers with. *)
Accepted       == "ACCEPTED"
SignalStale    == "REJECTED_SIGNAL_STALE"
MaxDrawdown    == "REJECTED_MAX_DRAWDOWN"
VarBreach      == "REJECTED_VAR_BREACH"
GarchTooHigh   == "REJECTED_GARCH_VOLATILITY"
ExecutionError == "EXECUTION_ERROR"

GateCodes == {Accepted, SignalStale, MaxDrawdown, VarBreach, GarchTooHigh,
              ExecutionError}

-----------------------------------------------------------------------------
(* saturating_sub on the unsigned clock reading *)
Age(now, detected_at) ==
  IF now > detected_at THEN now - detected_at ELSE 0

(* Gate 0.  A timestamp that is missing, or before the epoch, is not       *)
(* checked: the conversion to nanoseconds yields nothing.                  *)
SignalExpired(r, now) ==
  /\ r.signal_ttl_ms > 0
  /\ r.signal_detected_at # None
  /\ r.signal_detected_at >= 0
  /\ Age(now, r.signal_detected_at) > r.signal_ttl_ms

(* Gates 1 and 2 reject AT the limit, gate 3 only above it. *)
DrawdownBreached(drawdown, config) == drawdown >= config.max_drawdown_pct
VarBreached(var, config)           == var >= config.max_var_1d_99_pct
GarchBreached(sigma, config)       == sigma > config.max_garch_sigma_sq

(* A bug: the portfolio gates before the freshness of the signal. *)
EvaluatePortfolioFirst(r, ctx, config, now) ==
  IF DrawdownBreached(ctx.drawdown, config) THEN MaxDrawdown
  ELSE IF VarBreached(ctx.var, config) THEN VarBreach
  ELSE IF GarchBreached(ctx.sigma, config) THEN GarchTooHigh
  ELSE IF SignalExpired(r, now) THEN SignalStale
  ELSE Accepted

(* The composed chain: the code of the first gate that fails. *)
Evaluate(r, ctx, config, now) ==
  IF SignalExpired(r, now) THEN SignalStale
  ELSE IF DrawdownBreached(ctx.drawdown, config) THEN MaxDrawdown
  ELSE IF VarBreached(ctx.var, config) THEN VarBreach
  ELSE IF GarchBreached(ctx.sigma, config) THEN GarchTooHigh
  ELSE Accepted

-----------------------------------------------------------------------------
ComputedSlippage(sigma) == BaseSlippage + VolMultiplier * sigma

(* The fill model is a function of the request and of sigma alone. *)
SlippageExceeded(r, sigma) ==
  ComputedSlippage(sigma) > TenthsPerBp * r.slippage_bps_limit
=============================================================================
