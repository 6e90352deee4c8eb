---- MODULE MCStrategyHost ----
(* Instances of StrategyHost for TLC. *)
EXTENDS StrategyHost

Buy == [side |-> "Buy", size_quote |-> 2, limit_price |-> {}]
Sell == [side |-> "Sell", size_quote |-> 2, limit_price |-> {}]
MCOrders == {Buy, Sell}
MCPlans == {<<>>, <<Buy>>, <<Buy, Sell>>}
====
