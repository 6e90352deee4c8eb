---- MODULE NodeConfig ----
(***************************************************************************)
(* How a node gets its configuration (w2uos-config/src/lib.rs) and what     *)
(* main makes of it (w2uos-node/src/main.rs).                               *)
(*                                                                          *)
(* A TOML document is a partial function from keys to values, one key for   *)
(* each entry the control flow tells apart:                                 *)
(*   level           logging.level            risk     global_risk          *)
(*   pairs           market_data.subscriptions                              *)
(*   bots            strategy.bot_config      live, mode, okx   execution.* *)
(*   node_profile, market_profile, exec_profile   the three net profiles    *)
(*   creds           the OKX entry of exchanges: absent, or its credentials *)
(*   kernel_mode, history                                                   *)
(* A half-written file is a document that lacks keys.                       *)
(***************************************************************************)
EXTENDS Naturals, Sequences, TLC

CONSTANTS
  Overlay,     \* config.<NODE_ENV>.toml; it has no key when there is no such file
  EnvVars,     \* the W2UOS_* variables that are set, under the key they override
  SecretSet    \* TRUE: the variable a ${...} credential refers to is set

Required == {"level", "risk", "pairs", "bots", "node_profile", "market_profile",
             "exec_profile", "kernel_mode"}

\* The #[serde(default)] and Option fields.
Optional == [live |-> FALSE, mode |-> "Simulated", okx |-> FALSE,
             creds |-> "none", history |-> FALSE]

\* NodeConfig::default(), what main falls back to.
DefaultConfig ==
  Optional @@ [level |-> "info", risk |-> "r0", pairs |-> "btc", bots |-> "none",
               node_profile |-> "direct", market_profile |-> "direct",
               exec_profile |-> "direct", kernel_mode |-> "Live"]

\* merge_toml: tables are merged key by key, and below them, arrays included,
\* the overlay's value replaces the base's.
MergeToml(base, overlay) == overlay @@ base

\* resolve_secret: a reference to a variable that is not set stays as it is,
\* and is still a credential.
ResolveSecret(creds) == IF creds = "ref" /\ SecretSet THEN "key" ELSE creds

\* apply_env_overrides. W2UOS_NET_MODE and W2UOS_PROXY_URL reach the node's and
\* the market data's profile, never execution's.
ApplyEnvOverrides(cfg) ==
  [(EnvVars @@ cfg) EXCEPT !.creds = ResolveSecret(@)]

\* load_with_env fails on a document that lacks a required key.
Loadable(doc) == Required \subseteq DOMAIN MergeToml(doc, Overlay)
Load(doc) == ApplyEnvOverrides(MergeToml(doc, Overlay) @@ Optional)

\* What main starts with.
Seed(doc) == IF Loadable(doc) THEN Load(doc) ELSE DefaultConfig

\* reload_tracing_filter accepts the level.
LevelValid(cfg) == cfg.level # "bogus"

\* build_http_client: every mode but Direct needs a proxy_url.
Buildable(profile) == profile # "proxy_without_url"

----
\* The section of a configuration that publish_updates sends to a consumer.
Section(c, cfg) ==
  CASE c = "risk"      -> cfg.risk
    [] c = "execution" -> [mode |-> cfg.mode, live_trading_enabled |-> cfg.live,
                           okx |-> cfg.okx, profile |-> cfg.exec_profile]
    [] c = "strategy"  -> cfg.bots
    [] c = "market"    -> [pairs |-> cfg.pairs, profile |-> cfg.market_profile]
    [] c = "logging"   -> cfg.level

\* main goes live when it is asked to and the OKX entry has credentials (and
\* the private URL that comes with an OKX entry).
WiredLive(cfg) == cfg.live /\ cfg.creds \in {"key", "ref"}

\* The configuration main hands to each service. It fills in execution's mode
\* and okx, gives market data the node's profile, and makes the bot of the
\* market data subscriptions.
Wired(c, cfg) ==
  CASE c = "risk"      -> cfg.risk
    [] c = "execution" -> [mode |-> IF WiredLive(cfg) THEN "LiveOkx" ELSE "Simulated",
                           live_trading_enabled |-> cfg.live /\ cfg.creds # "none",
                           okx |-> WiredLive(cfg) \/ cfg.okx,
                           profile |-> cfg.exec_profile]
    [] c = "strategy"  -> cfg.pairs
    [] c = "market"    -> [pairs |-> cfg.pairs, profile |-> cfg.node_profile]

\* The services main registers, in the order in which start_all starts them.
Registered(cfg) ==
  <<"config", "cluster", "log">>
  \o (CASE cfg.kernel_mode = "Live" -> <<"market">>
        [] cfg.kernel_mode # "Live" /\ cfg.history -> <<"backtest">>
        [] OTHER -> <<>>)
  \o <<"execution", "risk", "strategy">>
====
