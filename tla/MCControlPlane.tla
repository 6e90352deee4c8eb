---- MODULE MCControlPlane ----
(* An instance of ControlPlane: a file that asks for live trading, one that   *)
(* changes every section and of which no execution client can be built, one   *)
(* of a replaying node with a level the filter refuses and a profile no       *)
(* client of a market data service could be built of, and a half-written one. *)
EXTENDS ControlPlane

Base ==
  [level |-> "info", risk |-> "r1", pairs |-> "btc", bots |-> "btc", live |-> TRUE, creds |-> "ref",
   node_profile |-> "tor", market_profile |-> "direct", exec_profile |-> "direct",
   kernel_mode |-> "Live"]
Changed ==
  [Base EXCEPT !.risk = "r2", !.bots = "eth", !.live = FALSE, !.market_profile = "tor",
               !.exec_profile = "proxy_without_url"]
Replaying == [Base EXCEPT !.kernel_mode = "Backtest", !.level = "bogus",
                          !.node_profile = "proxy_without_url"]
             @@ [okx |-> TRUE]
HalfWritten == [level |-> "info", risk |-> "r2"]

MCDocs == {Base, Changed, Replaying, HalfWritten}
MCLiveDocs == {Base}
MCOverlay == [risk |-> "r3"]
MCEnvVars == [history |-> TRUE]
MCNoKeys == [k \in {} |-> ""]
MCUsers == << [key |-> "k1", role |-> "ReadOnly"], [key |-> "k2", role |-> "Trader"],
              [key |-> "k1", role |-> "Admin"] >>
MCKeys == {"none", "k1", "k2"}
====
