---- MODULE MCTradingNode ----
(* Instances of TradingNode for TLC. *)
EXTENDS TradingNode

Limits(loss, notional, open, rate) ==
  [max_daily_loss_abs |-> loss, max_total_notional |-> notional,
   max_open_positions |-> open, max_error_rate |-> rate]

\* The second buy of 2 reaches the loss limit.
Normal == Limits(4, 10, 2, {1})
\* Breached by the empty book: -0 <= -0.
ZeroLoss == Limits(0, 10, 2, {1})

MCRiskConfigs == {Normal, ZeroLoss}

Simulated == [mode |-> "Simulated", live_trading_enabled |-> FALSE, okx |-> FALSE]
Live == [mode |-> "LiveOkx", live_trading_enabled |-> TRUE, okx |-> TRUE]
MCExecConfigs == {Simulated, Live}
MCStarts == {Simulated, Live}
OnlySimulated == {Simulated}

Buy == [side |-> "Buy", size_quote |-> 2, limit_price |-> {}]
Sell == [side |-> "Sell", size_quote |-> 2, limit_price |-> {}]
MCOrders == {Buy, Sell}
BuyOrSell == {<<Buy>>, <<Sell>>}
BuyOnly == {<<Buy>>}

Test == [symbol |-> "btc", side |-> "Buy", size_quote |-> 2, limit_price |-> {}]
MCTest == {Test}
====
