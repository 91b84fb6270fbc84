----------------------------- MODULE AgentLayers -----------------------------
(***************************************************************************)
(* Runs of the three agent layers (agents/layer_stack.py): research calls  *)
(* tools, risk managers and strategists answer directives, and the         *)
(* directives are merged with the administrator's policy, fused into an    *)
(* environment configuration (agents/directives.py) and projected.         *)
(*                                                                         *)
(* A layer that is not due takes the directive that its configuration      *)
(* carries over from an earlier run, which may have been answered under    *)
(* other limits.  Limits are percentages; 1e-12 is the percentage Tiny,    *)
(* no whole unit of money.  An optional directive is a set of at most one. *)
(***************************************************************************)
EXTENDS ConstraintProjection, Sequences, SequencesExt

CONSTANTS Environments,    \* long-only configurations an administrator may set
          RiskDirectives,  \* answers of risk managers
          Reviews,         \* decisions of other roles in the risk team
          Strategies,      \* answers of the strategy layer
          Teams,           \* research teams that a configuration may name
          Indices,         \* as_of_index of a run
          Portfolios, LayerActions, Value,
          Ids              \* run identifiers

Tiny == 1
Modes == {"plan_only", "dry_run", "execute"}
Tools == {"inspect", "estimate", "evaluate", "train", "report"}

Weekly == 5
Monthly == 21

\* the class of each tool, and the files its handler writes
Permission ==
  [t \in Tools |-> CASE t = "inspect" -> "read" [] t \in {"estimate", "evaluate"} -> "compute"
                     [] t = "train" -> "expensive" [] t = "report" -> "write"]
Effect ==
  [t \in Tools |-> CASE t = "evaluate" -> {"validation"} [] t = "train" -> {"runs"}
                     [] t = "report" -> {"reports"} [] OTHER -> {}]

(***************************************************************************)
(* What the schemas of the code accept for a long-only account             *)
(* (environments/config.py, agents/directives.py, agents/models.py); only  *)
(* a review may ask for a market cap of zero.                              *)
(***************************************************************************)
Share == 0..100
Positive == 1..100

IsEnvironment(e) ==
  e \in [allowShort : {FALSE}, maxLeverage : {100}, maxAssetWeight : Positive,
         maxMarketWeight : [Markets -> Positive], cashFloor : Share, maxTurnover : 0..200]

IsRisk(d) ==
  /\ d \in [budget : Share, asset : Positive, markets : {d.markets}, cash : Share,
            turnover : 0..200, open : BOOLEAN, cadence : Nat]
  /\ d.markets \in [DOMAIN d.markets -> Share]

IsDecision(x) ==
  /\ x \in [kind : Int, score : Int, directive : {x.directive}, cash : Share, asset : Share,
            turnover : 0..200, open : BOOLEAN, markets : {x.markets}]
  /\ x.markets \in [DOMAIN x.markets -> Share]

IsStrategy(s) ==
  s \in [budget : Share, markets : {s.markets}] /\ s.markets \in [DOMAIN s.markets -> Share]

IsTeam(t) == t \in [mode : Modes, tools : SUBSET Tools, permissions : {t.permissions}, budget : Nat]

IsMarket(x) ==
  /\ x.current \in [Assets -> Nat] /\ x.tradable \in SUBSET Assets
  /\ x.action \in [cash : Int, assets : [Assets -> Int]]

LayersAssumption ==
  /\ \A e \in Environments : IsEnvironment(e)
  /\ \A d \in RiskDirectives : IsRisk(d) /\ \A m \in DOMAIN d.markets : d.markets[m] > 0
  /\ \A x \in Reviews : IsDecision(x) /\ x.directive = {}
  /\ \A s \in Strategies : IsStrategy(s)
  /\ \A t \in Teams : IsTeam(t)
  /\ Portfolios \subseteq [Assets -> Nat] /\ Value \in Nat \ {0}
  /\ LayerActions \subseteq [cash : Int, assets : [Assets -> Int]]

VARIABLES environment,  \* administrator_environment of the next run
          carried,      \* the directives a next configuration can carry over
          layerRun,     \* the run at work
          directories   \* the run directories that exist

layerVars == <<environment, carried, layerRun, directories>>

NoTeam == [mode |-> "plan_only", tools |-> {}, permissions |-> {}, budget |-> 0]
NoRisk == [on |-> FALSE, mode |-> "enforced", source |-> "disabled", members |-> {},
           directive |-> {}, merge |-> {}]
NoStrategy == [source |-> "disabled", directive |-> {}]
Idle == [stage |-> "idle", index |-> 0, team |-> NoTeam, estimated |-> FALSE, touched |-> {},
         risk |-> NoRisk, strategy |-> NoStrategy, outcome |-> {}, replayed |-> FALSE]
Nothing == [risk |-> {}, strategy |-> {}]

LayersInit ==
  /\ environment \in Environments
  /\ carried = Nothing /\ layerRun = Idle /\ directories = {}

(***************************************************************************)
(* Directives.                                                             *)
(***************************************************************************)
StaticRisk ==
  [budget |-> 0, asset |-> Tiny, markets |-> [m \in Markets |-> Tiny], cash |-> 100,
   turnover |-> 0, open |-> FALSE, cadence |-> Monthly]
StaticStrategy == [budget |-> 0, markets |-> <<>>]

\* a market limit, where the directive names the market
LimitOf(d, m, otherwise) == IF m \in DOMAIN d.markets THEN d.markets[m] ELSE otherwise

Due(cadence, index) == index % cadence = 0

\* the decision a risk manager makes of its directive
DecisionOf(d) ==
  [kind |-> IF ~d.open /\ d.budget = 0 THEN 3
            ELSE IF d.budget < 100 \/ d.cash > 0 \/ ~d.open THEN 2 ELSE 1,
   score |-> 100 - d.budget, directive |-> {d},
   cash |-> d.cash, asset |-> d.asset, turnover |-> d.turnover, open |-> d.open,
   markets |-> d.markets]

\* Mutant: the first decision stands for the team.
FirstSelected(team) == team[1]

\* the most conservative decision; ties go to the later instance
Selected(team) ==
  LET worse(i, j) == \/ team[i].kind > team[j].kind
                     \/ team[i].kind = team[j].kind /\ team[i].score > team[j].score
                     \/ team[i].kind = team[j].kind /\ team[i].score = team[j].score /\ i >= j
  IN  team[CHOOSE i \in DOMAIN team : \A j \in DOMAIN team : worse(i, j)]

\* the limits of all decisions, intersected
CombinedLimits(team) ==
  LET all == ToSet(team)
      named == UNION {DOMAIN x.markets : x \in all}
  IN  [cash |-> Max({x.cash : x \in all}), asset |-> Min({x.asset : x \in all}),
       turnover |-> Min({x.turnover : x \in all}), open |-> \A x \in all : x.open,
       markets |-> [m \in named |-> Min({x.markets[m] : x \in {y \in all : m \in DOMAIN y.markets}})]]

RiskFromAggregate(team) ==
  LET limits == CombinedLimits(team)
  IN  IF Selected(team).directive = {} THEN StaticRisk
      ELSE LET d == CHOOSE x \in Selected(team).directive : TRUE
           IN  [d EXCEPT !.cash = limits.cash, !.asset = Most(Tiny, limits.asset),
                         !.turnover = limits.turnover, !.open = limits.open,
                         !.markets = IF limits.markets = <<>> THEN d.markets ELSE limits.markets]

\* a market cap of zero, which a review may ask for, is refused by the model
Valid(d) == \A m \in DOMAIN d.markets : d.markets[m] > 0

(***************************************************************************)
(* Merge with the administrator's policy, and fusion.                      *)
(***************************************************************************)
Baseline(e) ==
  [budget |-> Least(100, e.maxLeverage), asset |-> e.maxAssetWeight,
   markets |-> [m \in Markets |-> Least(100, e.maxMarketWeight[m])],
   cash |-> e.cashFloor, turnover |-> e.maxTurnover, open |-> TRUE, cadence |-> 1]

Merge(proposed, e, mode) ==
  LET base == Baseline(e)
      meet(d) ==
        [budget |-> Least(d.budget, base.budget), asset |-> Least(d.asset, base.asset),
         markets |-> [m \in Markets \cup DOMAIN d.markets |->
                        LET cap == LimitOf(base, m, 100) IN Least(LimitOf(d, m, cap), cap)],
         cash |-> Most(d.cash, base.cash), turnover |-> Least(d.turnover, base.turnover),
         open |-> d.open, cadence |-> Most(d.cadence, base.cadence)]
  IN  [mode |-> mode, effective |-> IF proposed = {} \/ mode = "advisory" THEN base
                                    ELSE meet(CHOOSE d \in proposed : TRUE)]

Fuse(e, merge, strategy) ==
  LET effective == merge.effective
      asked == {s.budget : s \in strategy}
      budget == Min({effective.budget, 100} \cup asked)
      cap(m) == Most(Tiny, Min({e.maxMarketWeight[m], LimitOf(effective, m, e.maxMarketWeight[m])}
                                \cup {LimitOf(s, m, 100) : s \in strategy}))
  IN  [config |-> [e EXCEPT !.maxAssetWeight = Most(Tiny, Least(@, effective.asset)),
                            !.maxMarketWeight = [m \in Markets |-> cap(m)],
                            !.cashFloor = Max({@, effective.cash, 100 - budget}),
                            !.maxTurnover = Least(@, effective.turnover)],
       open |-> effective.open, merge |-> merge]

\* a fusion is refused when it names a market that does not exist
Fusable(merge, strategy) ==
  /\ DOMAIN merge.effective.markets \subseteq Markets
  /\ \A s \in strategy : DOMAIN s.markets \subseteq Markets

Mutable(fusion, current, tradable) ==
  IF fusion.open THEN tradable ELSE {a \in tradable : current[a] > 0}

Context(fusion, current, tradable) ==
  [config |-> fusion.config, value |-> Value, current |-> current,
   mutable |-> Mutable(fusion, current, tradable)]

Outcome(e, merge, strategy, market) ==
  LET fusion == Fuse(e, merge, strategy)
  IN  [fusion |-> fusion, market |-> market,
       projected |-> Project(market.action, Context(fusion, market.current, market.tradable))]

(***************************************************************************)
(* A run.  Its configuration names layers, modes, and whether directives   *)
(* are carried over; each choice is drawn where the run first uses it.     *)
(***************************************************************************)
TeamAccepted(t) ==
  /\ t.mode = "plan_only" => t.tools = {}
  /\ t.mode = "dry_run" => t.permissions \cap {"write", "expensive"} = {}
  /\ t.mode = "execute" /\ "train" \in t.tools =>
       "estimate" \in t.tools /\ "expensive" \in t.permissions /\ t.budget > 0

Administrate ==
  /\ layerRun.stage = "idle"
  /\ environment' \in Environments
  /\ UNCHANGED <<carried, layerRun, directories>>

Configure ==
  /\ layerRun.stage = "idle"
  /\ \E id \in Ids \ directories : directories' = directories \cup {id}
  /\ \E index \in Indices, team \in {t \in Teams : TeamAccepted(t)} \cup {NoTeam} :
       layerRun' = [Idle EXCEPT !.stage = "research", !.index = index, !.team = team]
  /\ UNCHANGED <<environment, carried>>

\* a tool call of the research team that the executor does not deny
CallTool ==
  /\ layerRun.stage = "research"
  /\ \E t \in layerRun.team.tools :
       /\ Permission[t] \in layerRun.team.permissions
       /\ Permission[t] = "expensive" => layerRun.estimated /\ layerRun.team.budget > 0
       /\ layerRun' = [layerRun EXCEPT !.estimated = @ \/ t = "estimate",
                                       !.touched = @ \cup Effect[t]]
  /\ UNCHANGED <<environment, carried, directories>>

EndResearch ==
  /\ layerRun.stage = "research"
  /\ layerRun' = [layerRun EXCEPT !.stage = "risk", !.team = NoTeam, !.estimated = FALSE,
                                  !.touched = {}]
  /\ UNCHANGED <<environment, carried, directories>>

RiskTeams ==
  LET answers == {DecisionOf(d) : d \in RiskDirectives \cup {StaticRisk}}
  IN  {<<a>> : a \in answers} \cup (answers \X answers) \cup (answers \X Reviews)

\* the result of the risk layer; a disabled one merges nothing, in enforced mode
RiskLayer(on, mode, source, members, directive) ==
  [on |-> on, mode |-> mode, source |-> source, members |-> members, directive |-> directive,
   merge |-> {Merge(directive, environment, IF on THEN mode ELSE "enforced")}]

\* Without a merge that validates, the run raises.
Asked(risk) ==
  /\ \A d \in risk.directive : risk.mode = "enforced" => Valid(d)
  /\ layerRun' = [layerRun EXCEPT !.stage = "strategy", !.risk = risk]
  /\ carried' = [carried EXCEPT !.risk = {}]
  /\ UNCHANGED <<environment, directories>>

AskRisk ==
  /\ layerRun.stage = "risk"
  /\ \E mode \in {"advisory", "enforced"} :
       \/ Asked(RiskLayer(FALSE, mode, "disabled", {}, {}))
       \/ /\ Due(Weekly, layerRun.index)
          /\ \E team \in RiskTeams :
               LET d == RiskFromAggregate(team)
               IN  Asked(RiskLayer(TRUE, mode, IF d = StaticRisk THEN "fallback" ELSE "agent",
                                   UNION {x.directive : x \in ToSet(team)}, {d}))
       \/ /\ ~Due(Weekly, layerRun.index)
          /\ \/ carried.risk # {} /\ Asked(RiskLayer(TRUE, mode, "previous", {}, carried.risk))
             \/ Asked(RiskLayer(TRUE, mode, "fallback", {}, {StaticRisk}))

Answered(source, directive) ==
  /\ layerRun' = [layerRun EXCEPT !.stage = "fusion",
                                  !.strategy = [source |-> source, directive |-> directive]]
  /\ carried' = Nothing
  /\ UNCHANGED <<environment, directories>>

AskStrategy ==
  /\ layerRun.stage = "strategy"
  /\ \/ Answered("disabled", {})
     \/ Due(Monthly, layerRun.index) /\ \E d \in Strategies : Answered("agent", {d})
     \/ ~Due(Monthly, layerRun.index) /\ carried.strategy # {}
          /\ Answered("previous", carried.strategy)
     \/ Answered("fallback", {StaticStrategy})

Merged == CHOOSE x \in layerRun.risk.merge : TRUE

FuseAndProject ==
  /\ layerRun.stage = "fusion"
  /\ Fusable(Merged, layerRun.strategy.directive)
  /\ \E current \in Portfolios, action \in LayerActions, tradable \in {Assets, {CHOOSE a \in Assets : TRUE}} :
       layerRun' = [layerRun EXCEPT !.stage = "journal", !.outcome =
         {Outcome(environment, Merged, layerRun.strategy.directive,
                  [current |-> current, action |-> action, tradable |-> tradable])}]
  /\ UNCHANGED <<environment, carried, directories>>

\* journal, replay bundle, its replay, summary and manifest
Record ==
  /\ layerRun.stage = "journal"
  /\ \A d \in layerRun.risk.directive : Valid(d)   \* the replay reads it back
  /\ LET merge == Merge(layerRun.risk.directive, environment, layerRun.risk.mode)
         recorded == CHOOSE x \in layerRun.outcome : TRUE
     IN  layerRun' = [layerRun EXCEPT !.stage = "complete", !.replayed =
           (Outcome(environment, merge, layerRun.strategy.directive, recorded.market) = recorded)]
  /\ UNCHANGED <<environment, carried, directories>>

\* the operator may carry the directives of a complete run over
Close ==
  /\ layerRun.stage = "complete"
  /\ carried' = [risk |-> layerRun.risk.directive, strategy |-> layerRun.strategy.directive]
  /\ layerRun' = Idle
  /\ UNCHANGED <<environment, directories>>

\* a run that raises or is killed leaves its directory, which no run may use again
Abandon ==
  /\ layerRun.stage \notin {"idle", "complete"}
  /\ layerRun' = Idle /\ carried' = Nothing
  /\ UNCHANGED <<environment, directories>>

LayersNext ==
  \/ Administrate \/ Configure \/ CallTool \/ EndResearch \/ AskRisk \/ AskStrategy
  \/ FuseAndProject \/ Record \/ Close \/ Abandon

LayersSpec == LayersInit /\ [][LayersNext]_layerVars

-----------------------------------------------------------------------------
LayersTypeOK ==
  /\ environment \in Environments
  /\ layerRun.stage \in {"idle", "research", "risk", "strategy", "fusion", "journal", "complete"}
  /\ layerRun.risk.source \in {"agent", "fallback", "previous", "disabled"}
  /\ layerRun.strategy.source \in {"agent", "fallback", "previous", "disabled"}
  /\ \A x \in {carried.risk, carried.strategy, layerRun.outcome} : Cardinality(x) <= 1
  /\ directories \subseteq Ids

\* A directive, of whatever run and under whatever limits it was answered, only
\* narrows the configuration of the administrator.
OnlyTightened ==
  \A x \in layerRun.outcome :
    LET c == x.fusion.config
    IN  /\ c.maxAssetWeight <= environment.maxAssetWeight
        /\ c.maxTurnover <= environment.maxTurnover
        /\ c.cashFloor >= environment.cashFloor
        /\ \A m \in Markets : c.maxMarketWeight[m] <= environment.maxMarketWeight[m]

\* An enforced committee is heard in full: what its risk managers answered, each
\* of them, bounds the limits of the projection.
CommitteeHeard ==
  \A x \in layerRun.outcome : layerRun.risk.mode = "enforced" =>
    \A d \in layerRun.risk.members :
      LET c == x.fusion.config
      IN  /\ c.cashFloor >= Most(d.cash, 100 - d.budget)
          /\ c.maxAssetWeight <= d.asset /\ c.maxTurnover <= d.turnover
          /\ \A m \in Markets \cap DOMAIN d.markets : c.maxMarketWeight[m] <= d.markets[m]
          /\ x.fusion.open => d.open

\* Whoever fails, a fallback adds no exposure, and where no new position is
\* allowed none is opened.
NothingAdded ==
  \A x \in layerRun.outcome :
    /\ \/ layerRun.risk.source = "fallback" /\ layerRun.risk.mode = "enforced"
       \/ layerRun.strategy.source = "fallback"
       => \A a \in Assets : x.projected.w[a] <= x.market.current[a]
    /\ ~x.fusion.open =>
         \A a \in Assets : x.market.current[a] = 0 => x.projected.w[a] = 0

\* A portfolio within the limits of the administrator stays there, although the
\* rules projected it into narrower ones and turnover may stop it half-way.
HardLimitsKept ==
  \A x \in layerRun.outcome :
    LET hard == [Context(x.fusion, x.market.current, x.market.tradable)
                   EXCEPT !.config = environment]
        now == Start(x.market.current)
    IN  AssetsWithin(now, hard) /\ MarketsWithin(now, hard, 0) /\ CashWithin(now, hard, 0)
          => LimitsMet(Start(x.projected.w), hard)

\* A complete run replays to what it recorded.  The one exception: the bundle
\* keeps the mode of the configuration, a disabled layer merges in "enforced".
ReplayAgrees ==
  layerRun.stage = "complete" =>
    layerRun.replayed \/ (~layerRun.risk.on /\ layerRun.risk.mode = "advisory")

\* Plans call no tool; dry runs train nothing and report nothing, but they may
\* evaluate, which writes the validation files of the run they look at.
ResearchBounded ==
  layerRun.touched \subseteq CASE layerRun.team.mode = "plan_only" -> {}
                               [] layerRun.team.mode = "dry_run" -> {"validation"}
                               [] OTHER -> {"validation", "runs", "reports"}

LayersSound ==
  /\ OnlyTightened /\ CommitteeHeard /\ NothingAdded /\ HardLimitsKept
  /\ ReplayAgrees /\ ResearchBounded
=============================================================================
