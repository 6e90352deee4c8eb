---- MODULE MCRiskSupervisor ----
(* Instances of RiskSupervisor for TLC. *)
EXTENDS RiskSupervisor

\* One buy of 2 breaches no limit of Normal, two do; two errors breach its rate.
MCSymbols == {"btc", "eth"}
MCSizes == {2}

Limits(loss, notional, positions, rate) ==
  [max_daily_loss_abs |-> loss, max_total_notional |-> notional,
   max_open_positions |-> positions, max_error_rate |-> rate]

Normal == Limits(3, 5, 1, {1})
NoRateLimit == Limits(3, 5, 2, {})
ZeroLoss == Limits(0, 5, 2, {1})
MCConfigs == {Normal, NoRateLimit, ZeroLoss}
====
