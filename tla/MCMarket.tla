------------------------------ MODULE MCMarket ------------------------------
(***************************************************************************)
(* The market and what learns and acts on it, on small instances.  The     *)
(* parts that a behaviour does not pick rest in one of their initial       *)
(* states.                                                                 *)
(***************************************************************************)
EXTENDS Market, TLC

(***************************************************************************)
(* A mainland and a US asset, one of them traded in lots of two under T+1; *)
(* a plain, a slow and a short-selling configuration of the environment.   *)
(***************************************************************************)
MCAssets == {"cn", "us"}
MCMarketOf == [a \in MCAssets |-> IF a = "cn" THEN "CN" ELSE "US"]
MCLotSize == [a \in MCAssets |-> IF a = "cn" THEN 2 ELSE 1]
MCCostRate == <<5, 5>>
Both(cn, us) == [a \in MCAssets |-> IF a = "cn" THEN cn ELSE us]
MCActions ==
  [cash : {0}, assets : [MCAssets -> {0, 1}]]
  \cup {[cash |-> 1, assets |-> Both(1, 1)], [cash |-> 0, assets |-> Both(-2, 1)]}

\* quiet sessions at each pair of prices, a session in which the US asset soars
\* after the open, and one of each kind of closed or limited session
Row(open, close, status) == [open |-> open, close |-> close, status |-> status]
MCRows ==
  {Row(Both(x, y), Both(x, y), Both("open", "open")) : x, y \in {20, 60}}
  \cup {Row(Both(60, 20), Both(60, 100), Both("open", "open"))}
  \cup {Row(Both(60, 60), Both(60, 60), s) :
           s \in {Both("closed", "suspended"), Both("limit_up", "open"), Both("limit_down", "open")}}

Base == [allowShort |-> FALSE, maxLeverage |-> 100, maxAssetWeight |-> 60,
         maxMarketWeight |-> [m \in Markets |-> IF m = "CN" THEN 50 ELSE 100],
         cashFloor |-> 10, maxTurnover |-> 100, maxSteps |-> 2]
Slow == [Base EXCEPT !.maxAssetWeight = 30, !.maxTurnover = 20, !.maxSteps = Sessions]
Short == [Base EXCEPT !.allowShort = TRUE, !.maxLeverage = 200, !.maxAssetWeight = 100,
                      !.maxMarketWeight = [m \in Markets |-> 100], !.cashFloor = 0,
                      !.maxTurnover = 200]
MCConfigs == {Base, Slow, Short}
MCSlowConfigs == {Slow}

(***************************************************************************)
(* One domestic and one foreign asset over three days, on their own.       *)
(***************************************************************************)
MCDataAssets == {"us", "jp"}
DataDays == 1..3
Bar(open, close, flag) == [open |-> open, close |-> close, flag |-> flag, enveloped |-> TRUE]
DataBars == {NoBar, Bar(2, 3, "open"), Bar(3, 2, "suspended"), Bar(0, 2, "open")}
DataFiles == [a \in MCDataAssets |->
  IF a = "us" THEN [bars : {f \in [DataDays -> {NoBar, Bar(2, 3, "open")}] : f[1] # NoBar},
                    defects : {{}}]
  ELSE [bars : [DataDays -> DataBars], defects : {{}}]
       \cup [bars : [DataDays -> {Bar(2, 3, "open")}], defects : {{"duplicate_primary_key"}}]]
DataTables == {t \in [DataDays -> {NoRate, 2, 3}] : t[1] # 3 /\ t[2] # 2 /\ t[3] # 3}

(***************************************************************************)
(* Callbacks with every validation frequency and patience up to two.       *)
(***************************************************************************)
MCCallbackConfigs ==
  [checkpointFreq : {2}, validationFreq : {0, 1, 2}, patience : {0, 1, 2},
   finiteGuard : BOOLEAN, drawdownGuard : BOOLEAN, auditFreq : {1}]

(***************************************************************************)
(* Studies: four trials that report at two levels, populations of two, and *)
(* spaces with and without a condition, a constraint, a logarithmic scale, *)
(* a choice listed twice, a step that divides or is not whole.             *)
(***************************************************************************)
WorstUtility == -100
StudySchedulers == {<<"median", "minimize">>, <<"asha", "maximize">>,
                    <<"hyperband", "minimize">>, <<"pbt", "maximize">>}
StudyTrials == 0..3
ReportLimits == [median |-> 3, asha |-> 3, hyperband |-> 3, pbt |-> 4]

Parameter(kind, low, high, step, choices, curve) ==
  [kind |-> kind, low |-> low, high |-> high, step |-> step, choices |-> choices, on |-> {}, curve |-> curve]
Switch == Parameter("bool", 0, 0, 0, <<>>, <<>>)
Log == <<0, 1, 2, 4, 8>>
Numbers ==
  {Parameter("int", low, high, step, <<>>, <<>>) : low \in {0, 2}, high \in {8, 22}, step \in {0, 1, 2, 3, 4, 6, 8}}
  \cup {Parameter("int", 0, 2, 0, <<>>, <<>>), Parameter("float", 1, 10, 3, <<>>, <<>>)}
  \cup {Parameter("int", 2, high, step, <<>>, Log) : high \in {8, 22}, step \in {0, 2, 3}}
  \cup {Parameter("float", 1, 10, step, <<>>, Log) : step \in {1, 3}}
Categories ==
  {Parameter("categorical", 0, 0, 0, [i \in 1..n |-> 10 + i], <<>>) : n \in {1, 3}}
  \cup {Parameter("categorical", 0, 0, 0, <<11, 12, 11>>, <<>>)}
SmallSpaces ==
  {[parameters |-> <<p, q>>, constraints |-> {}] : p \in Numbers, q \in Categories \cup {Switch}}
  \cup {[parameters |-> <<Switch, [p EXCEPT !.on = {<<1, 1>>}], Parameter("int", 4, 16, 6, <<>>, <<>>)>>,
         constraints |-> c] : p \in Numbers, c \in {{}, {<<2, 3>>}}}

(***************************************************************************)
(* Layers under two policies: risk managers of every kind of decision, one *)
(* of them and one strategy for a market that does not exist, a review     *)
(* that forbids a market, and indices at which no, one or both layers are  *)
(* due.                                                                    *)
(***************************************************************************)
Policy(asset, cn, cash, turnover) ==
  [allowShort |-> FALSE, maxLeverage |-> 100, maxAssetWeight |-> asset,
   maxMarketWeight |-> [m \in Markets |-> IF m = "CN" THEN cn ELSE 100],
   cashFloor |-> cash, maxTurnover |-> turnover]
Risk(budget, asset, markets, cash, turnover, open) ==
  [budget |-> budget, asset |-> asset, markets |-> markets, cash |-> cash,
   turnover |-> turnover, open |-> open, cadence |-> 5]
Only(m, cap) == [n \in {m} |-> cap]
LayerRisks ==
  {Risk(100, 100, <<>>, 0, 200, TRUE), Risk(60, 40, Only("CN", 30), 10, 50, TRUE),
   Risk(80, 100, Only("US", 20), 30, 200, FALSE), Risk(0, 100, <<>>, 0, 100, FALSE),
   Risk(100, 60, Only("JP", 10), 0, 200, TRUE)}
LayerReviews ==
  {[kind |-> 2, score |-> 50, directive |-> {}, cash |-> 20, asset |-> 50, turnover |-> 200,
    open |-> TRUE, markets |-> m] : m \in {<<>>, Only("CN", 0)}}
LayerStrategies ==
  {[budget |-> 100, markets |-> <<>>], [budget |-> 70, markets |-> Only("CN", 20)],
   [budget |-> 100, markets |-> Only("JP", 10)]}
LayerTeams ==
  [mode : {"plan_only", "dry_run", "execute"}, budget : {0, 1},
   tools : {{}, {"inspect", "evaluate"}, {"estimate", "train", "report"}},
   permissions : {{"read", "compute"}, {"read", "compute", "write", "expensive"}}]

LayerEnvironments == {Policy(60, 50, 10, 100), Policy(100, 100, 0, 50)}
LayerPortfolios == {Both(0, 0), Both(10, 4), Both(0, 18)}
MCLayerActions ==
  {[cash |-> 0, assets |-> Both(2, 0)], [cash |-> 0, assets |-> Both(1, 1)],
   [cash |-> 1, assets |-> Both(0, 1)]}

\* the instances satisfy what the theorems about the parts assume
ASSUME PartInstances == MarketAssumption

(***************************************************************************)
(* One part at a time; the others rest in one of their initial states, the *)
(* environment at the end of an episode that kept its cash.                *)
(***************************************************************************)
AtRest ==
  /\ config = CHOOSE c \in Configs : TRUE
  /\ account = InitialAccount
  /\ episode = [index |-> config.maxSteps, done |-> TRUE, raised |-> FALSE]
  /\ report = NoReport

Rested ==
  /\ part = "data" \/ /\ files = CHOOSE S \in {[a \in DataAssets |-> f] : f \in DataFiles["us"]} : TRUE
                      /\ rates = CHOOSE t \in DataTables : TRUE
  /\ part = "training" \/ callbacks = CHOOSE c \in CallbackConfigs : TRUE
  /\ part = "schedulers" \/ scheduler = <<"asha", "maximize">>
  /\ part = "layers" \/ environment = Policy(60, 50, 10, 100)
  /\ part = "searchers" \/ /\ algorithm = "tpe"
                           /\ directions = <<"maximize", "minimize">>
  /\ part = "spaces" \/ space = CHOOSE s \in SmallSpaces : TRUE
  /\ part = "trials" \/ (stride = 0 /\ length = 7)

MCMarketInit ==
  /\ part \in Parts
  /\ IF part = "env" THEN Init ELSE AtRest
  /\ Rested
  /\ MarketInit

MCMarketSpec == MCMarketInit /\ [][MarketNext]_marketVars
=============================================================================
