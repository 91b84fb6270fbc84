-------------------------- MODULE AgentLayersProofs --------------------------
(***************************************************************************)
(* Theorems about AgentLayers, for any markets, administrators' policies,  *)
(* directives, reviews, research teams and portfolios, and any sequence of *)
(* runs.                                                                   *)
(*                                                                         *)
(* The argument: the directive of a committee is at least as narrow as the *)
(* one of every risk manager in it, a merge as the directive and as the    *)
(* policy, and a fusion as the merge; a projection into the narrower       *)
(* limits meets the wider ones, but for what the turnover limit leaves of  *)
(* the current portfolio, and that met them before.                        *)
(***************************************************************************)
EXTENDS AgentLayers, ProjectionProofs

-----------------------------------------------------------------------------
(***************************************************************************)
(* The largest and the smallest of a bounded set of numbers.               *)
(***************************************************************************)

\* The largest number of a set is one of it.
LEMMA MaxIs ==
  ASSUME NEW n \in Nat, NEW S \in SUBSET (0..n), S # {}
  PROVE  Max(S) \in S /\ Max(S) \in 0..n /\ \A u \in S : u <= Max(S)
<1>1. PICK t \in S : \A u \in S : u <= t
  BY LargestUpTo
<1>2. \E x \in S : \A y \in S : x >= y
  BY <1>1
<1>3. Max(S) \in S /\ \A y \in S : Max(S) >= y
  BY <1>2 DEF Max
<1> QED BY <1>3

\* So is the smallest.
LEMMA MinIs ==
  ASSUME NEW n \in Nat, NEW S \in SUBSET (0..n), S # {}
  PROVE  Min(S) \in S /\ Min(S) \in 0..n /\ \A u \in S : Min(S) <= u
<1>1. PICK T \in SUBSET (0..n) : T = {n - u : u \in S}
  <2>1. \A u \in S : n - u \in 0..n
    OBVIOUS
  <2> QED BY <2>1
<1>2. T # {}
  BY <1>1
<1>3. PICK t \in T : \A u \in T : u <= t
  BY <1>2, LargestUpTo
<1>4. PICK x \in S : t = n - x
  BY <1>1, <1>3
<1>5. ASSUME NEW y \in S PROVE x <= y
  <2>1. n - y \in T
    BY <1>1
  <2>2. n - y <= n - x
    BY <1>3, <1>4, <2>1
  <2> QED BY <2>2
<1>6. Min(S) \in S /\ \A y \in S : Min(S) <= y
  BY <1>5 DEF Min
<1> QED BY <1>6

\* The smaller and the larger of two numbers.
LEMMA LeastIs ==
  ASSUME NEW x \in Int, NEW y \in Int
  PROVE  /\ Least(x, y) <= x /\ Least(x, y) <= y /\ Least(x, y) \in {x, y}
         /\ Most(x, y) >= x /\ Most(x, y) >= y /\ Most(x, y) \in {x, y}
BY DEF Least, Most

-----------------------------------------------------------------------------
(***************************************************************************)
(* Directives and their merge with the policy of the administrator.        *)
(***************************************************************************)

\* A risk manager answers no cap of zero.
Manager(d) == IsRisk(d) /\ \A m \in DOMAIN d.markets : d.markets[m] > 0

\* f is at least as narrow as d.
Heard(f, d) ==
  /\ f.budget <= d.budget /\ f.asset <= d.asset /\ f.turnover <= d.turnover
  /\ f.cash >= d.cash /\ (f.open => d.open)
  /\ \A m \in Markets \cap DOMAIN d.markets :
       m \in DOMAIN f.markets /\ f.markets[m] <= d.markets[m]

OptionalRisk(p) == p = {} \/ \E d \in p : p = {d} /\ IsRisk(d)
OptionalStrategy(p) == p = {} \/ \E s \in p : p = {s} /\ IsStrategy(s)

\* The parts of a directive.
LEMMA RiskIs ==
  ASSUME NEW d, IsRisk(d)
  PROVE  /\ d.budget \in 0..100 /\ d.asset \in 1..100 /\ d.cash \in 0..100
         /\ d.turnover \in 0..200 /\ d.open \in BOOLEAN /\ d.cadence \in Nat
<1>1. d \in [budget : Share, asset : Positive, markets : {d.markets}, cash : Share,
             turnover : 0..200, open : BOOLEAN, cadence : Nat]
  BY DEF IsRisk
<1> QED BY <1>1 DEF Share, Positive

\* A cap it names.
LEMMA CapIs ==
  ASSUME NEW d, IsRisk(d), NEW m \in DOMAIN d.markets
  PROVE  d.markets[m] \in 0..100
<1>1. d.markets \in [DOMAIN d.markets -> Share]
  BY DEF IsRisk
<1> QED BY <1>1 DEF Share

\* Being narrower is transitive.
LEMMA HeardOn ==
  ASSUME NEW f, IsRisk(f), NEW g, IsRisk(g), NEW d, IsRisk(d), Heard(g, f), Heard(f, d)
  PROVE  Heard(g, d)
<1>1. /\ g.budget <= d.budget /\ g.asset <= d.asset /\ g.turnover <= d.turnover
      /\ g.cash >= d.cash /\ (g.open => d.open)
  <2>1. f.budget \in Int /\ f.asset \in Int /\ f.turnover \in Int /\ f.cash \in Int
    BY RiskIs
  <2>2. g.budget \in Int /\ g.asset \in Int /\ g.turnover \in Int /\ g.cash \in Int
    BY RiskIs
  <2>3. d.budget \in Int /\ d.asset \in Int /\ d.turnover \in Int /\ d.cash \in Int
    BY RiskIs
  <2> QED BY <2>1, <2>2, <2>3 DEF Heard
<1>2. ASSUME NEW m \in Markets \cap DOMAIN d.markets
      PROVE  m \in DOMAIN g.markets /\ g.markets[m] <= d.markets[m]
  <2>1. m \in DOMAIN f.markets /\ f.markets[m] <= d.markets[m]
    BY DEF Heard
  <2>2. m \in DOMAIN g.markets /\ g.markets[m] <= f.markets[m]
    BY <2>1 DEF Heard
  <2>3. g.markets[m] \in Int /\ f.markets[m] \in Int /\ d.markets[m] \in Int
    <3>1. g.markets[m] \in 0..100
      BY <2>2, CapIs
    <3>2. f.markets[m] \in 0..100
      BY <2>1, CapIs
    <3>3. d.markets[m] \in 0..100
      BY CapIs
    <3> QED BY <3>1, <3>2, <3>3
  <2> QED BY <2>1, <2>2, <2>3
<1> QED BY <1>1, <1>2 DEF Heard

\* The directive of last resort is one.
LEMMA StaticIs == Manager(StaticRisk) /\ IsStrategy(StaticStrategy)
<1>1. /\ StaticRisk.markets = [m \in Markets |-> 1] /\ StaticRisk.budget = 0
      /\ StaticRisk.asset = 1 /\ StaticRisk.cash = 100 /\ StaticRisk.turnover = 0
      /\ StaticRisk.open = FALSE /\ StaticRisk.cadence = 21
  BY DEF StaticRisk, Tiny, Monthly
<1>2. StaticRisk \in [budget : Share, asset : Positive, markets : {StaticRisk.markets},
                      cash : Share, turnover : 0..200, open : BOOLEAN, cadence : Nat]
  BY DEF StaticRisk, Tiny, Monthly, Share, Positive
<1>3. StaticRisk.markets \in [DOMAIN StaticRisk.markets -> Share]
      /\ \A m \in DOMAIN StaticRisk.markets : StaticRisk.markets[m] > 0
  BY <1>1 DEF Share
<1>4. IsStrategy(StaticStrategy)
  BY DEF IsStrategy, StaticStrategy, Share
<1> QED BY <1>2, <1>3, <1>4 DEF Manager, IsRisk

\* The parts of a policy.
LEMMA EnvironmentIs ==
  ASSUME NEW e, IsEnvironment(e)
  PROVE  /\ ~e.allowShort /\ e.maxLeverage = 100 /\ e.maxAssetWeight \in 1..100
         /\ e.maxMarketWeight \in [Markets -> 1..100] /\ e.cashFloor \in 0..100
         /\ e.maxTurnover \in 0..200
BY DEF IsEnvironment, Share, Positive

\* The caps of a policy.
LEMMA EnvironmentCap ==
  ASSUME NEW e, IsEnvironment(e), NEW m \in Markets
  PROVE  e.maxMarketWeight[m] \in 1..100
BY EnvironmentIs

\* The policy as a directive.
LEMMA BaselineIs ==
  ASSUME NEW e, IsEnvironment(e)
  PROVE  /\ IsRisk(Baseline(e)) /\ DOMAIN Baseline(e).markets = Markets
<1>1. /\ Least(100, e.maxLeverage) = 100
      /\ \A m \in Markets : Least(100, e.maxMarketWeight[m]) \in 1..100
  <2>1. e.maxLeverage = 100 /\ \A m \in Markets : e.maxMarketWeight[m] \in 1..100
    BY EnvironmentIs, EnvironmentCap
  <2> QED BY <2>1 DEF Least
<1>2. Baseline(e) \in [budget : Share, asset : Positive, markets : {Baseline(e).markets},
                       cash : Share, turnover : 0..200, open : BOOLEAN, cadence : Nat]
  <2>1. /\ e.maxAssetWeight \in 1..100 /\ e.cashFloor \in 0..100 /\ e.maxTurnover \in 0..200
    BY EnvironmentIs
  <2> QED BY <1>1, <2>1 DEF Baseline, Share, Positive
<1>3. Baseline(e).markets = [m \in Markets |-> Least(100, e.maxMarketWeight[m])]
  BY DEF Baseline
<1>4. Baseline(e).markets \in [DOMAIN Baseline(e).markets -> Share]
  BY <1>1, <1>3 DEF Share
<1> QED BY <1>2, <1>3, <1>4 DEF IsRisk

\* A merge is a directive for every market, as narrow as the policy; where it is
\* enforced, it is as narrow as the directive too.
LEMMA MergeIs ==
  ASSUME NEW e, IsEnvironment(e), NEW p, OptionalRisk(p), NEW mode
  PROVE  /\ IsRisk(Merge(p, e, mode).effective)
         /\ mode # "advisory" => \A d \in p : Heard(Merge(p, e, mode).effective, d)
<1> DEFINE base == Baseline(e)
           f == Merge(p, e, mode).effective
<1>1. IsRisk(base) /\ DOMAIN base.markets = Markets
  BY BaselineIs
<1>2. base.asset \in 1..100 /\ base.budget \in 0..100 /\ base.cash \in 0..100
      /\ base.turnover \in 0..200 /\ base.cadence \in Nat
  BY <1>1, RiskIs
<1>3. ASSUME NEW m \in Markets PROVE base.markets[m] \in 0..100
  BY <1>1, CapIs
<1>4. CASE p = {} \/ mode = "advisory"
  <2>1. f = base
    BY <1>4 DEF Merge
  <2> QED BY <1>1, <1>4, <2>1
<1>5. CASE ~(p = {} \/ mode = "advisory")
  <2>1. PICK d : p = {d} /\ IsRisk(d)
    BY <1>5 DEF OptionalRisk
  <2>2. (CHOOSE x \in p : TRUE) = d
    BY <2>1
  <2> DEFINE cap(m) == LimitOf(base, m, 100)
             met(m) == Least(LimitOf(d, m, cap(m)), cap(m))
             caps == [m \in Markets \cup DOMAIN d.markets |-> met(m)]
  <2>3. f = [budget |-> Least(d.budget, base.budget), asset |-> Least(d.asset, base.asset),
             markets |-> caps,
             cash |-> Most(d.cash, base.cash), turnover |-> Least(d.turnover, base.turnover),
             open |-> d.open, cadence |-> Most(d.cadence, base.cadence)]
    BY <1>5, <2>2 DEF Merge
  <2>4. d.asset \in 1..100 /\ d.budget \in 0..100 /\ d.cash \in 0..100
        /\ d.turnover \in 0..200 /\ d.cadence \in Nat /\ d.open \in BOOLEAN
    BY <2>1, RiskIs
  <2>5. ASSUME NEW m \in Markets \cup DOMAIN d.markets
        PROVE  met(m) \in 0..100 /\ (m \in DOMAIN d.markets => met(m) <= d.markets[m])
    <3>1. cap(m) \in 0..100
      BY <1>1, <1>3 DEF LimitOf
    <3>2. CASE m \in DOMAIN d.markets
      <4>1. d.markets[m] \in 0..100 /\ LimitOf(d, m, cap(m)) = d.markets[m]
        BY <2>1, <3>2, CapIs DEF LimitOf
      <4> HIDE DEF cap
      <4> QED BY <3>1, <4>1 DEF Least
    <3>3. CASE m \notin DOMAIN d.markets
      <4>1. LimitOf(d, m, cap(m)) = cap(m)
        BY <3>3 DEF LimitOf
      <4> HIDE DEF cap
      <4> QED BY <3>1, <3>3, <4>1 DEF Least
    <3> QED BY <3>2, <3>3
  <2> HIDE DEF met, f, base
  <2>6. DOMAIN f.markets = Markets \cup DOMAIN d.markets
        /\ \A m \in DOMAIN f.markets : f.markets[m] = met(m)
    BY <2>3
  <2>7. IsRisk(f)
    <3>1. f.markets \in [DOMAIN f.markets -> Share]
      BY <2>3, <2>5 DEF Share
    <3>2. Least(d.budget, base.budget) \in 0..100 /\ Least(d.asset, base.asset) \in 1..100
          /\ Most(d.cash, base.cash) \in 0..100 /\ Least(d.turnover, base.turnover) \in 0..200
          /\ Most(d.cadence, base.cadence) \in Nat
      BY <1>2, <2>4 DEF Least, Most
    <3>3. f \in [budget : Share, asset : Positive, markets : {f.markets}, cash : Share,
                 turnover : 0..200, open : BOOLEAN, cadence : Nat]
      <4> HIDE DEF caps
      <4> QED BY <2>3, <2>4, <3>2 DEF Share, Positive
    <3> QED BY <3>1, <3>3 DEF IsRisk
  <2>8. Heard(f, d)
    <3>1. /\ f.budget <= d.budget /\ f.asset <= d.asset /\ f.turnover <= d.turnover
          /\ f.cash >= d.cash /\ (f.open => d.open)
      <4> HIDE DEF caps
      <4>1. f.budget = Least(d.budget, base.budget) /\ f.asset = Least(d.asset, base.asset)
        BY <2>3
      <4>2. f.turnover = Least(d.turnover, base.turnover) /\ f.cash = Most(d.cash, base.cash)
        BY <2>3
      <4>3. f.open = d.open
        BY <2>3
      <4>4. f.budget <= d.budget /\ f.asset <= d.asset
        <5>1. /\ d.budget \in Int /\ base.budget \in Int /\ d.asset \in Int /\ base.asset \in Int
          BY <1>2, <2>4
        <5> QED BY <4>1, <5>1, LeastIs
      <4>5. f.turnover <= d.turnover /\ f.cash >= d.cash
        <5>1. /\ d.turnover \in Int /\ base.turnover \in Int /\ d.cash \in Int /\ base.cash \in Int
          BY <1>2, <2>4
        <5> QED BY <4>2, <5>1, LeastIs
      <4> QED BY <4>3, <4>4, <4>5
    <3>2. \A m \in Markets \cap DOMAIN d.markets :
            m \in DOMAIN f.markets /\ f.markets[m] <= d.markets[m]
      BY <2>5, <2>6
    <3> QED BY <3>1, <3>2 DEF Heard
  <2> QED BY <2>1, <2>7, <2>8 DEF f
<1> QED BY <1>4, <1>5

-----------------------------------------------------------------------------
(***************************************************************************)
(* The answer of a committee.                                              *)
(***************************************************************************)

\* A decision is of a risk manager or a review.
DecisionIs(x) ==
  \/ \E d : Manager(d) /\ x = DecisionOf(d)
  \/ IsDecision(x) /\ x.directive = {}

\* Its parts.
LEMMA DecisionParts ==
  ASSUME NEW x, DecisionIs(x)
  PROVE  /\ x.kind \in Int /\ x.score \in Int /\ x.cash \in 0..100 /\ x.asset \in 0..100
         /\ x.turnover \in 0..200 /\ x.open \in BOOLEAN
         /\ x.directive = {} \/ \E d : Manager(d) /\ x = DecisionOf(d) /\ x.directive = {d}
<1>1. ASSUME NEW d, Manager(d), x = DecisionOf(d)
      PROVE  /\ x.kind \in Int /\ x.score \in Int /\ x.cash \in 0..100 /\ x.asset \in 0..100
             /\ x.turnover \in 0..200 /\ x.open \in BOOLEAN /\ x.directive = {d}
  <2>1. d.asset \in 1..100 /\ d.budget \in 0..100 /\ d.cash \in 0..100
        /\ d.turnover \in 0..200 /\ d.open \in BOOLEAN
    BY <1>1, RiskIs DEF Manager
  <2> QED BY <1>1, <2>1 DEF DecisionOf
<1>2. ASSUME IsDecision(x), x.directive = {}
      PROVE  /\ x.kind \in Int /\ x.score \in Int /\ x.cash \in 0..100 /\ x.asset \in 0..100
             /\ x.turnover \in 0..200 /\ x.open \in BOOLEAN
  BY <1>2 DEF IsDecision, Share
<1> QED BY <1>1, <1>2 DEF DecisionIs

\* The caps it asks for.
LEMMA DecisionCap ==
  ASSUME NEW x, DecisionIs(x), NEW m \in DOMAIN x.markets
  PROVE  x.markets[m] \in 0..100
<1>1. ASSUME NEW d, Manager(d), x = DecisionOf(d)
      PROVE  x.markets[m] \in 0..100
  <2>1. x.markets = d.markets
    BY <1>1 DEF DecisionOf
  <2> QED BY <1>1, <2>1, CapIs DEF Manager
<1>2. ASSUME IsDecision(x)
      PROVE  x.markets[m] \in 0..100
  <2>1. x.markets \in [DOMAIN x.markets -> Share]
    BY <1>2 DEF IsDecision
  <2> QED BY <2>1 DEF Share
<1> QED BY <1>1, <1>2 DEF DecisionIs

\* A committee has one member or two.
Committee(team) ==
  \/ \E x : DecisionIs(x) /\ team = <<x>>
  \/ \E x, y : DecisionIs(x) /\ DecisionIs(y) /\ team = <<x, y>>

\* Its members are those of the sequence.
LEMMA CommitteeIs ==
  ASSUME NEW team, Committee(team)
  PROVE  /\ 1 \in DOMAIN team /\ DOMAIN team \subseteq {1, 2}
         /\ ToSet(team) = {team[i] : i \in DOMAIN team}
         /\ \A i \in DOMAIN team : DecisionIs(team[i])
<1>1. ASSUME NEW x, DecisionIs(x), team = <<x>>
      PROVE  DOMAIN team = {1} /\ \A i \in DOMAIN team : DecisionIs(team[i])
  BY <1>1
<1>2. ASSUME NEW x, NEW y, DecisionIs(x), DecisionIs(y), team = <<x, y>>
      PROVE  DOMAIN team = {1, 2} /\ \A i \in DOMAIN team : DecisionIs(team[i])
  BY <1>2
<1> QED BY <1>1, <1>2 DEF Committee, ToSet

\* A decision as conservative as another.
NotMilder(x, y) ==
  \/ x.kind > y.kind
  \/ x.kind = y.kind /\ x.score >= y.score

\* The selected decision is one of the committee, and none is more conservative.
LEMMA SelectedIs ==
  ASSUME NEW team, Committee(team)
  PROVE  /\ Selected(team) \in ToSet(team)
         /\ \A y \in ToSet(team) : NotMilder(Selected(team), y)
<1> DEFINE worse(i, j) ==
             \/ team[i].kind > team[j].kind
             \/ team[i].kind = team[j].kind /\ team[i].score > team[j].score
             \/ team[i].kind = team[j].kind /\ team[i].score = team[j].score /\ i >= j
           chosen == CHOOSE i \in DOMAIN team : \A j \in DOMAIN team : worse(i, j)
<1>1. \A i \in DOMAIN team : team[i].kind \in Int /\ team[i].score \in Int
  BY CommitteeIs, DecisionParts
<1>2. \E i \in DOMAIN team : \A j \in DOMAIN team : worse(i, j)
  <2>1. CASE DOMAIN team = {1}
    BY <1>1, <2>1
  <2>2. CASE DOMAIN team = {1, 2}
    <3>1. worse(1, 1) /\ worse(2, 2) /\ (worse(1, 2) \/ worse(2, 1))
      BY <1>1, <2>2
    <3> HIDE DEF worse
    <3> QED BY <2>2, <3>1
  <2>3. DOMAIN team = {1} \/ DOMAIN team = {1, 2}
    BY CommitteeIs
  <2> QED BY <2>1, <2>2, <2>3
<1>3. chosen \in DOMAIN team /\ \A j \in DOMAIN team : worse(chosen, j)
  <2> HIDE DEF worse
  <2> QED BY <1>2
<1>4. Selected(team) = team[chosen]
  BY DEF Selected
<1> HIDE DEF chosen
<1>5. ASSUME NEW j \in DOMAIN team PROVE NotMilder(team[chosen], team[j])
  BY <1>1, <1>3 DEF NotMilder
<1>6. ToSet(team) = {team[i] : i \in DOMAIN team}
  BY DEF ToSet
<1> QED BY <1>3, <1>4, <1>5, <1>6

\* Whoever is at least as conservative as a risk manager, allows no larger budget.
LEMMA NotMilderBudget ==
  ASSUME NEW f, IsRisk(f), NEW d, IsRisk(d), NotMilder(DecisionOf(f), DecisionOf(d))
  PROVE  f.budget <= d.budget
<1>1. f.budget \in 0..100 /\ f.cash \in 0..100 /\ d.budget \in 0..100 /\ d.cash \in 0..100
  BY RiskIs
<1>2. /\ DecisionOf(f).score = 100 - f.budget /\ DecisionOf(d).score = 100 - d.budget
      /\ DecisionOf(f).kind = IF ~f.open /\ f.budget = 0 THEN 3
                              ELSE IF f.budget < 100 \/ f.cash > 0 \/ ~f.open THEN 2 ELSE 1
      /\ DecisionOf(d).kind = IF ~d.open /\ d.budget = 0 THEN 3
                              ELSE IF d.budget < 100 \/ d.cash > 0 \/ ~d.open THEN 2 ELSE 1
  BY DEF DecisionOf
<1>3. /\ DecisionOf(f).kind = 3 => f.budget = 0
      /\ DecisionOf(d).kind = 1 => d.budget = 100
      /\ DecisionOf(f).kind \in {1, 2, 3} /\ DecisionOf(d).kind \in {1, 2, 3}
  <2>1. ~(d.budget < 100) => d.budget = 100
    BY <1>1
  <2> QED BY <1>2, <2>1
<1>4. \/ DecisionOf(f).kind > DecisionOf(d).kind
      \/ DecisionOf(f).kind = DecisionOf(d).kind /\ DecisionOf(f).score >= DecisionOf(d).score
  BY DEF NotMilder
<1>5. PICK k \in {1, 2, 3} : k = DecisionOf(f).kind
  BY <1>3
<1>6. PICK l \in {1, 2, 3} : l = DecisionOf(d).kind
  BY <1>3
<1>7. PICK u \in 0..100, v \in 0..100 : u = f.budget /\ v = d.budget
  BY <1>1
<1>8. k > l \/ (k = l /\ 100 - u >= 100 - v)
  BY <1>2, <1>4, <1>5, <1>6, <1>7
<1>9. (k = 3 => u = 0) /\ (l = 1 => v = 100)
  BY <1>3, <1>5, <1>6, <1>7
<1>10. u <= v
  BY <1>8, <1>9
<1> QED BY <1>7, <1>10

\* The combined limits bound those of every member.
LEMMA CombinedIs ==
  ASSUME NEW team, Committee(team)
  PROVE  LET limits == CombinedLimits(team)
         IN  /\ limits.cash \in 0..100 /\ limits.asset \in 0..100 /\ limits.turnover \in 0..200
             /\ limits.open \in BOOLEAN
             /\ \A x \in ToSet(team) :
                  /\ limits.cash >= x.cash /\ limits.asset <= x.asset
                  /\ limits.turnover <= x.turnover /\ (limits.open => x.open)
<1> DEFINE all == ToSet(team)
           C == {x.cash : x \in all}
           A == {x.asset : x \in all}
           T == {x.turnover : x \in all}
           limits == CombinedLimits(team)
<1>1. all # {} /\ \A x \in all : DecisionIs(x)
  BY CommitteeIs
<1> HIDE DEF all
<1>2. \A x \in all : x.cash \in 0..100 /\ x.asset \in 0..100 /\ x.turnover \in 0..200
  BY <1>1, DecisionParts
<1>3. C \in SUBSET (0..100) /\ A \in SUBSET (0..100) /\ T \in SUBSET (0..200)
      /\ C # {} /\ A # {} /\ T # {}
  BY <1>1, <1>2
<1>4. limits.cash = Max(C) /\ limits.asset = Min(A) /\ limits.turnover = Min(T)
      /\ limits.open = \A x \in all : x.open
  <2>1. limits.cash = Max(C) /\ limits.asset = Min(A) /\ limits.turnover = Min(T)
    BY Zenon DEF CombinedLimits, all
  <2>2. limits.open = \A x \in all : x.open
    BY Zenon DEF CombinedLimits, all
  <2> HIDE DEF limits, C, A, T
  <2> QED BY <2>1, <2>2, Zenon
<1>5. \A x \in all : x.cash \in C /\ x.asset \in A /\ x.turnover \in T
  OBVIOUS
<1> HIDE DEF C, A, T, limits
<1>6. Max(C) \in 0..100 /\ \A u \in C : u <= Max(C)
  <2>1. 100 \in Nat
    OBVIOUS
  <2> QED BY <1>3, <2>1, MaxIs, ZenonT(60)
<1>7. Min(A) \in 0..100 /\ \A u \in A : Min(A) <= u
  <2>1. 100 \in Nat
    OBVIOUS
  <2> QED BY <1>3, <2>1, MinIs, ZenonT(60)
<1>8. Min(T) \in 0..200 /\ \A u \in T : Min(T) <= u
  <2>1. T \in SUBSET (0..200) /\ T # {} /\ 200 \in Nat
    BY <1>3
  <2> QED BY <2>1, MinIs
<1>9. limits.open \in BOOLEAN /\ \A x \in all : limits.open => x.open
  BY <1>4
<1>10. ASSUME NEW x \in all
       PROVE  /\ limits.cash >= x.cash /\ limits.asset <= x.asset
              /\ limits.turnover <= x.turnover
  BY <1>2, <1>4, <1>5, <1>6, <1>7, <1>8
<1> QED BY <1>4, <1>6, <1>7, <1>8, <1>9, <1>10 DEF limits, all


\* The combined caps bound those of every member.
LEMMA CombinedCap ==
  ASSUME NEW team, Committee(team), NEW caps, caps = CombinedLimits(team).markets
  PROVE  /\ caps \in [DOMAIN caps -> Share]
         /\ \A x \in ToSet(team) : \A m \in DOMAIN x.markets :
              m \in DOMAIN caps /\ caps[m] <= x.markets[m]
<1>1. PICK all : all = ToSet(team)
  OBVIOUS
<1>2. \A x \in all : DecisionIs(x)
  BY <1>1, CommitteeIs
<1> DEFINE named == UNION {DOMAIN x.markets : x \in all}
           Wanted(m) == {x.markets[m] : x \in {y \in all : m \in DOMAIN y.markets}}
<1>3. caps = [m \in named |-> Min(Wanted(m))]
  BY <1>1 DEF CombinedLimits
<1>4. ASSUME NEW m \in named
      PROVE  Min(Wanted(m)) \in 0..100 /\ \A u \in Wanted(m) : Min(Wanted(m)) <= u
  <2>1. Wanted(m) \in SUBSET (0..100)
    <3>1. ASSUME NEW x \in all, m \in DOMAIN x.markets PROVE x.markets[m] \in 0..100
      BY <1>2, <3>1, DecisionCap
    <3> QED BY <3>1
  <2>2. Wanted(m) # {}
    <3>1. PICK x \in all : m \in DOMAIN x.markets
      OBVIOUS
    <3>2. x.markets[m] \in Wanted(m)
      BY <3>1
    <3> HIDE DEF Asked
    <3> QED BY <3>2
  <2> HIDE DEF Asked
  <2>3. 100 \in Nat
    OBVIOUS
  <2> QED BY <2>1, <2>2, <2>3, MinIs
<1>5. caps \in [DOMAIN caps -> Share]
  <2> HIDE DEF named, Asked
  <2> QED BY <1>3, <1>4 DEF Share
<1>6. ASSUME NEW x \in all, NEW m \in DOMAIN x.markets
      PROVE  m \in DOMAIN caps /\ caps[m] <= x.markets[m]
  <2>1. m \in named /\ x.markets[m] \in Wanted(m)
    OBVIOUS
  <2> HIDE DEF named, Asked
  <2> QED BY <1>3, <1>4, <2>1
<1> QED BY <1>1, <1>5, <1>6

\* The answer of a committee is a directive at least as narrow as the one of
\* each risk manager in it.
LEMMA AnswerIs ==
  ASSUME NEW team, Committee(team), NEW f, f = RiskFromAggregate(team)
  PROVE  /\ IsRisk(f)
         /\ \A d \in UNION {x.directive : x \in ToSet(team)} : Manager(d) /\ Heard(f, d)
<1>1. PICK all : all = ToSet(team)
  OBVIOUS
<1>2. PICK chosen \in all : chosen = Selected(team)
  BY <1>1, SelectedIs
<1>3. \A x \in all : DecisionIs(x)
  BY <1>1, CommitteeIs
<1>4. ASSUME NEW d \in UNION {x.directive : x \in all}
      PROVE  Manager(d) /\ \E x \in all : x = DecisionOf(d)
  <2>1. PICK x \in all : d \in x.directive
    OBVIOUS
  <2>2. PICK g : Manager(g) /\ x = DecisionOf(g) /\ x.directive = {g}
    BY <1>3, <2>1, DecisionParts
  <2> QED BY <2>1, <2>2
<1>5. CASE chosen.directive = {}
  <2>1. f = StaticRisk
    BY <1>2, <1>5 DEF RiskFromAggregate
  <2>2. ASSUME NEW d, Manager(d) PROVE Heard(StaticRisk, d)
    <3>1. d.asset \in 1..100 /\ d.budget \in 0..100 /\ d.cash \in 0..100 /\ d.turnover \in 0..200
      BY <2>2, RiskIs DEF Manager
    <3>2. \A m \in DOMAIN d.markets : d.markets[m] \in 0..100 /\ d.markets[m] > 0
      BY <2>2, CapIs DEF Manager
    <3> QED BY <3>1, <3>2 DEF Heard, StaticRisk, Tiny
  <2>3. IsRisk(f)
    BY <2>1, StaticIs DEF Manager
  <2> QED BY <1>1, <1>4, <2>1, <2>2, <2>3
<1>6. CASE chosen.directive # {}
  <2>1. PICK g : Manager(g) /\ chosen = DecisionOf(g) /\ chosen.directive = {g}
    BY <1>3, <1>6, DecisionParts
  <2>2. PICK limits : limits = CombinedLimits(team)
    OBVIOUS
  <2>3. PICK caps : caps = IF limits.markets = <<>> THEN g.markets ELSE limits.markets
    OBVIOUS
  <2>4. f = [g EXCEPT !.cash = limits.cash, !.asset = Most(Tiny, limits.asset),
                      !.turnover = limits.turnover, !.open = limits.open, !.markets = caps]
    <3>1. (CHOOSE x \in chosen.directive : TRUE) = g
      BY <2>1
    <3> QED BY <1>2, <1>6, <2>2, <2>3, <3>1 DEF RiskFromAggregate
  <2>5. f = [budget |-> g.budget, asset |-> Most(1, limits.asset), markets |-> caps,
             cash |-> limits.cash, turnover |-> limits.turnover, open |-> limits.open,
             cadence |-> g.cadence]
    <3>1. g \in [budget : Share, asset : Positive, markets : {g.markets}, cash : Share,
                 turnover : 0..200, open : BOOLEAN, cadence : Nat]
      BY <2>1 DEF Manager, IsRisk
    <3> QED BY <2>4, <3>1 DEF Tiny
  <2>6. /\ limits.cash \in 0..100 /\ limits.asset \in 0..100 /\ limits.turnover \in 0..200
        /\ limits.open \in BOOLEAN
        /\ \A x \in all : /\ limits.cash >= x.cash /\ limits.asset <= x.asset
                          /\ limits.turnover <= x.turnover /\ (limits.open => x.open)
    BY <1>1, <2>2, CombinedIs
  <2>7. /\ limits.markets \in [DOMAIN limits.markets -> Share]
        /\ \A x \in all : \A m \in DOMAIN x.markets :
             m \in DOMAIN limits.markets /\ limits.markets[m] <= x.markets[m]
    BY <1>1, <2>2, CombinedCap
  <2>8. g.budget \in 0..100 /\ g.cadence \in Nat
    BY <2>1, RiskIs DEF Manager
  <2>9. IsRisk(f)
    <3>1. caps \in [DOMAIN caps -> Share]
      BY <2>1, <2>3, <2>7 DEF Manager, IsRisk
    <3>2. Most(1, limits.asset) \in 1..100
      BY <2>6 DEF Most
    <3>3. f.markets = caps
      BY <2>5
    <3> QED BY <2>5, <2>6, <2>8, <3>1, <3>2, <3>3 DEF IsRisk, Share, Positive
  <2>10. ASSUME NEW d, Manager(d), NEW x \in all, x = DecisionOf(d)
         PROVE  Heard(f, d)
    <3>1. d.asset \in 1..100 /\ d.budget \in 0..100 /\ d.cash \in 0..100 /\ d.turnover \in 0..200
      BY <2>10, RiskIs DEF Manager
    <3>2. x.cash = d.cash /\ x.asset = d.asset /\ x.turnover = d.turnover /\ x.open = d.open
          /\ x.markets = d.markets
      BY <2>10 DEF DecisionOf
    <3>3. f.budget <= d.budget
      <4>1. NotMilder(DecisionOf(g), DecisionOf(d))
        BY <1>1, <1>2, <2>1, <2>10, SelectedIs
      <4>2. g.budget <= d.budget
        BY <2>1, <2>10, <4>1, NotMilderBudget DEF Manager
      <4> QED BY <2>5, <4>2
    <3>4. f.asset <= d.asset
      <4>1. limits.asset <= d.asset
        BY <2>6, <3>2
      <4>2. Most(1, limits.asset) \in {1, limits.asset}
        BY <2>6, LeastIs
      <4> QED BY <2>5, <2>6, <3>1, <4>1, <4>2
    <3>5. f.turnover <= d.turnover /\ f.cash >= d.cash /\ (f.open => d.open)
      BY <2>5, <2>6, <3>2
    <3>6. \A m \in DOMAIN d.markets : m \in DOMAIN f.markets /\ f.markets[m] <= d.markets[m]
      <4> SUFFICES ASSUME NEW m \in DOMAIN d.markets
                   PROVE  m \in DOMAIN f.markets /\ f.markets[m] <= d.markets[m]
        OBVIOUS
      <4>1. m \in DOMAIN limits.markets /\ limits.markets[m] <= d.markets[m]
        BY <2>7, <3>2
      <4>2. limits.markets # <<>>
        BY <4>1
      <4> QED BY <2>3, <2>5, <4>1, <4>2
    <3> QED BY <3>3, <3>4, <3>5, <3>6 DEF Heard
  <2> QED BY <1>1, <1>4, <2>9, <2>10
<1> QED BY <1>5, <1>6


-----------------------------------------------------------------------------
(***************************************************************************)
(* Fusion.                                                                 *)
(***************************************************************************)

\* A policy at least as narrow as another.
Tightened(d, e) ==
  /\ d.maxAssetWeight <= e.maxAssetWeight /\ d.maxTurnover <= e.maxTurnover
  /\ d.cashFloor >= e.cashFloor
  /\ \A m \in Markets : d.maxMarketWeight[m] <= e.maxMarketWeight[m]

\* The parts of a strategy.
LEMMA StrategyIs ==
  ASSUME NEW p, OptionalStrategy(p), NEW s \in p
  PROVE  s.budget \in 0..100 /\ \A m \in DOMAIN s.markets : s.markets[m] \in 0..100
<1>1. IsStrategy(s)
  BY DEF OptionalStrategy
<1>2. s \in [budget : Share, markets : {s.markets}] /\ s.markets \in [DOMAIN s.markets -> Share]
  BY <1>1 DEF IsStrategy
<1>3. s.budget \in Share
  BY <1>2
<1> QED BY <1>2, <1>3 DEF Share

\* The reserve of a fusion covers the policy's, the directive's, and what the
\* budgets leave.
LEMMA FuseCash ==
  ASSUME NEW e, IsEnvironment(e), NEW merge, IsRisk(merge.effective),
         NEW p, OptionalStrategy(p), NEW floor, floor = Fuse(e, merge, p).config.cashFloor
  PROVE  /\ floor \in 0..100 /\ floor >= e.cashFloor
         /\ floor >= merge.effective.cash /\ floor >= 100 - merge.effective.budget
         /\ \A s \in p : floor >= 100 - s.budget
<1>1. PICK f : f = merge.effective
  OBVIOUS
<1>2. f.budget \in 0..100 /\ f.cash \in 0..100
  BY <1>1, RiskIs
<1> DEFINE B == {f.budget, 100} \cup {s.budget : s \in p}
           budget == Min(B)
           F == {e.cashFloor, f.cash, 100 - budget}
<1>3. floor = Max(F)
  <2>1. floor = [e EXCEPT !.maxAssetWeight = Most(Tiny, Least(@, f.asset)),
                          !.maxMarketWeight = Fuse(e, merge, p).config.maxMarketWeight,
                          !.cashFloor = Max({@, f.cash, 100 - budget}),
                          !.maxTurnover = Least(@, f.turnover)].cashFloor
    BY <1>1 DEF Fuse
  <2>2. e \in [allowShort : {FALSE}, maxLeverage : {100}, maxAssetWeight : Positive,
               maxMarketWeight : [Markets -> Positive], cashFloor : Share, maxTurnover : 0..200]
    BY DEF IsEnvironment
  <2> HIDE DEF budget
  <2> QED BY <2>1, <2>2
<1>4. /\ budget \in 0..100 /\ budget <= f.budget /\ \A s \in p : budget <= s.budget
  <2>1. B \in SUBSET (0..100) /\ B # {} /\ f.budget \in B /\ \A s \in p : s.budget \in B
    BY <1>2, StrategyIs
  <2> HIDE DEF B
  <2>2. 100 \in Nat
    OBVIOUS
  <2> QED BY <2>1, <2>2, MinIs
<1> HIDE DEF budget
<1>5. e.cashFloor \in 0..100
  BY EnvironmentIs
<1>6. Max(F) \in 0..100 /\ \A u \in F : u <= Max(F)
  <2>1. F \in SUBSET (0..100) /\ F # {} /\ 100 \in Nat
    BY <1>2, <1>4, <1>5
  <2> HIDE DEF F
  <2> QED BY <2>1, MaxIs
<1>7. e.cashFloor <= floor /\ f.cash <= floor /\ 100 - budget <= floor /\ floor \in 0..100
  <2>1. e.cashFloor \in F /\ f.cash \in F /\ 100 - budget \in F
    OBVIOUS
  <2> HIDE DEF F
  <2> QED BY <1>3, <1>6, <2>1
<1>8. \A s \in p : s.budget \in 0..100
  BY StrategyIs
<1> QED BY <1>1, <1>2, <1>4, <1>5, <1>7, <1>8

\* The cap of a market in a fusion is a share, within the policy's, and within
\* the directive's but for the tiny one that replaces zero.
LEMMA FuseCap ==
  ASSUME NEW e, IsEnvironment(e), NEW merge, IsRisk(merge.effective),
         NEW p, OptionalStrategy(p), NEW m \in Markets,
         NEW cap, cap = Fuse(e, merge, p).config.maxMarketWeight[m]
  PROVE  /\ cap \in 1..100 /\ cap <= e.maxMarketWeight[m]
         /\ m \in DOMAIN merge.effective.markets => cap <= Most(1, merge.effective.markets[m])
<1>1. PICK f : f = merge.effective
  OBVIOUS
<1> DEFINE own == e.maxMarketWeight[m]
           limit == LimitOf(f, m, own)
           A == {LimitOf(s, m, 100) : s \in p}
           S == {own, limit} \cup A
<1>2. own \in 1..100
  BY EnvironmentCap
<1>3. limit \in 0..100 /\ (m \in DOMAIN f.markets => limit = f.markets[m])
  BY <1>1, <1>2, CapIs DEF LimitOf
<1>4. \A s \in p : LimitOf(s, m, 100) \in 0..100
  BY StrategyIs DEF LimitOf
<1>5. cap = Most(1, Min(S))
  <2> DEFINE C == [k \in Markets |->
                     Most(Tiny, Min({e.maxMarketWeight[k], LimitOf(f, k, e.maxMarketWeight[k])}
                                      \cup {LimitOf(s, k, 100) : s \in p}))]
  <2>1. Fuse(e, merge, p).config
          = [e EXCEPT !.maxAssetWeight = Most(Tiny, Least(@, f.asset)),
                      !.maxMarketWeight = C,
                      !.cashFloor = Fuse(e, merge, p).config.cashFloor,
                      !.maxTurnover = Least(@, f.turnover)]
    <3>1. e \in [allowShort : {FALSE}, maxLeverage : {100}, maxAssetWeight : Positive,
                 maxMarketWeight : [Markets -> Positive], cashFloor : Share, maxTurnover : 0..200]
      BY DEF IsEnvironment
    <3> QED BY <1>1, <3>1, ZenonT(60) DEF Fuse
  <2>2. e \in [allowShort : {FALSE}, maxLeverage : {100}, maxAssetWeight : Positive,
               maxMarketWeight : [Markets -> Positive], cashFloor : Share, maxTurnover : 0..200]
    BY DEF IsEnvironment
  <2>3. C[m] = Most(1, Min(S))
    BY DEF Tiny
  <2> HIDE DEF C
  <2> QED BY <2>1, <2>2, <2>3
<1>6. /\ Min(S) \in 0..100 /\ Min(S) <= own /\ Min(S) <= limit
  <2>1. S \in SUBSET (0..100) /\ S # {} /\ own \in S /\ limit \in S /\ 100 \in Nat
    BY <1>2, <1>3, <1>4
  <2> HIDE DEF S, own, limit
  <2> QED BY <2>1, MinIs
<1> HIDE DEF S, own, limit
<1>7. cap \in 1..100 /\ cap <= own /\ cap <= Most(1, limit)
  BY <1>2, <1>3, <1>5, <1>6 DEF Most
<1> QED BY <1>1, <1>3, <1>7 DEF own


\* A fusion is a policy at least as narrow as the administrator's, and opens
\* what the directive opens.
LEMMA FuseIs ==
  ASSUME NEW e, IsEnvironment(e), NEW merge, IsRisk(merge.effective),
         NEW p, OptionalStrategy(p), NEW d, d = Fuse(e, merge, p).config
  PROVE  /\ IsPolicy(d) /\ ~d.allowShort /\ Tightened(d, e)
         /\ d.maxAssetWeight <= merge.effective.asset /\ d.maxTurnover <= merge.effective.turnover
         /\ Fuse(e, merge, p).open = merge.effective.open
<1>1. PICK f : f = merge.effective
  OBVIOUS
<1>2. f.asset \in 1..100 /\ f.turnover \in 0..200
  BY <1>1, RiskIs
<1>3. /\ ~e.allowShort /\ e.maxLeverage = 100 /\ e.maxAssetWeight \in 1..100
      /\ e.cashFloor \in 0..100 /\ e.maxTurnover \in 0..200
  BY EnvironmentIs
<1>4. PICK caps : caps = d.maxMarketWeight
  OBVIOUS
<1>5. PICK floor : floor = d.cashFloor
  OBVIOUS
<1>6. /\ d = [allowShort |-> e.allowShort, maxLeverage |-> e.maxLeverage,
              maxAssetWeight |-> Most(1, Least(e.maxAssetWeight, f.asset)),
              maxMarketWeight |-> caps, cashFloor |-> floor,
              maxTurnover |-> Least(e.maxTurnover, f.turnover)]
      /\ Fuse(e, merge, p).open = f.open /\ caps = [m \in Markets |-> caps[m]]
  <2>1. e \in [allowShort : {FALSE}, maxLeverage : {100}, maxAssetWeight : Positive,
               maxMarketWeight : [Markets -> Positive], cashFloor : Share, maxTurnover : 0..200]
    BY DEF IsEnvironment
  <2>2. \E C, b : /\ C = [m \in Markets |-> C[m]]
                  /\ d = [e EXCEPT !.maxAssetWeight = Most(1, Least(@, f.asset)),
                                   !.maxMarketWeight = C, !.cashFloor = b,
                                   !.maxTurnover = Least(@, f.turnover)]
                  /\ Fuse(e, merge, p).open = f.open
    <3> DEFINE C == [k \in Markets |->
                       Most(Tiny, Min({e.maxMarketWeight[k], LimitOf(f, k, e.maxMarketWeight[k])}
                                        \cup {LimitOf(s, k, 100) : s \in p}))]
               b == Max({e.cashFloor, f.cash, 100 - Min({f.budget, 100} \cup {s.budget : s \in p})})
    <3>1. /\ d = [e EXCEPT !.maxAssetWeight = Most(1, Least(@, f.asset)), !.maxMarketWeight = C,
                           !.cashFloor = b, !.maxTurnover = Least(@, f.turnover)]
          /\ Fuse(e, merge, p).open = f.open
      BY <1>1, <2>1 DEF Fuse, Tiny
    <3>2. C = [m \in Markets |-> C[m]]
      OBVIOUS
    <3> HIDE DEF C, b
    <3> QED BY <3>1, <3>2
  <2> QED BY <1>4, <1>5, <2>1, <2>2, ZenonT(60)
<1>7. Least(e.maxAssetWeight, f.asset) \in 1..100
      /\ Least(e.maxAssetWeight, f.asset) <= e.maxAssetWeight
      /\ Least(e.maxAssetWeight, f.asset) <= f.asset
      /\ Least(e.maxTurnover, f.turnover) \in 0..200
      /\ Least(e.maxTurnover, f.turnover) <= e.maxTurnover
      /\ Least(e.maxTurnover, f.turnover) <= f.turnover
  <2>1. \A x, y \in 1..100 : /\ Least(x, y) \in 1..100 /\ Least(x, y) <= x
                               /\ Least(x, y) <= y
    BY DEF Least
  <2>2. \A x, y \in 0..200 : /\ Least(x, y) \in 0..200 /\ Least(x, y) <= x
                               /\ Least(x, y) <= y
    BY DEF Least
  <2>3. e.maxAssetWeight \in 1..100 /\ e.maxTurnover \in 0..200
    BY <1>3
  <2>4. /\ Least(e.maxAssetWeight, f.asset) \in 1..100
        /\ Least(e.maxAssetWeight, f.asset) <= e.maxAssetWeight
        /\ Least(e.maxAssetWeight, f.asset) <= f.asset
    BY <1>2, <2>1, <2>3, ZenonT(60)
  <2>5. /\ Least(e.maxTurnover, f.turnover) \in 0..200
        /\ Least(e.maxTurnover, f.turnover) <= e.maxTurnover
        /\ Least(e.maxTurnover, f.turnover) <= f.turnover
    BY <1>2, <2>2, <2>3
  <2> QED BY <2>4, <2>5
<1>8. Most(1, Least(e.maxAssetWeight, f.asset)) = Least(e.maxAssetWeight, f.asset)
  BY <1>7 DEF Most
<1>9. d.maxAssetWeight \in Nat /\ d.maxTurnover \in Nat
      /\ d.maxAssetWeight <= e.maxAssetWeight /\ d.maxAssetWeight <= f.asset
      /\ d.maxTurnover <= e.maxTurnover /\ d.maxTurnover <= f.turnover
  BY <1>6, <1>7, <1>8
<1>10. floor \in 0..100 /\ floor >= e.cashFloor
  BY <1>5, FuseCash
<1>11. ASSUME NEW m \in Markets
       PROVE  d.maxMarketWeight[m] \in 1..100 /\ d.maxMarketWeight[m] <= e.maxMarketWeight[m]
  BY FuseCap
<1>12. IsPolicy(d) /\ ~d.allowShort
  <2>1. caps \in [Markets -> Nat]
    <3>1. caps = [m \in Markets |-> caps[m]]
      BY <1>6
    <3> QED BY <1>4, <1>11, <3>1
  <2>2. d.allowShort = e.allowShort /\ d.maxLeverage = 100 /\ d.maxMarketWeight = caps
        /\ d.cashFloor = floor
    BY <1>3, <1>6
  <2>3. e.allowShort \in BOOLEAN
    BY DEF IsEnvironment
  <2> QED BY <1>3, <1>9, <1>10, <2>1, <2>2, <2>3 DEF IsPolicy
<1>13. Tightened(d, e)
  BY <1>5, <1>9, <1>10, <1>11 DEF Tightened
<1> QED BY <1>1, <1>6, <1>9, <1>12, <1>13


-----------------------------------------------------------------------------
(***************************************************************************)
(* Projection into the limits of a fusion.                                 *)
(***************************************************************************)

\* A narrower policy has narrower limits.
LEMMA LimitsOrdered ==
  ASSUME NEW c, IsContext(c), NEW hard, IsContext(hard), hard.value = c.value,
         Tightened(c.config, hard.config)
  PROVE  /\ Limit(c.config.maxAssetWeight, c) <= Limit(hard.config.maxAssetWeight, hard)
         /\ Limit(c.config.cashFloor, c) >= Limit(hard.config.cashFloor, hard)
         /\ \A m \in Markets : MarketLimit(m, c) <= MarketLimit(m, hard)
<1>1. PICK v \in Nat \ {0} : v = c.value /\ v = hard.value
  BY DEF IsContext
<1>2. ASSUME NEW x \in Nat, NEW y \in Nat, x <= y
      PROVE  (x * v) \div 100 <= (y * v) \div 100
  <2>1. x * v <= y * v /\ x * v \in Nat /\ y * v \in Nat
    BY <1>2, TimesAtMost
  <2> HIDE DEF Limit
  <2>2. PICK p \in Nat, q \in Nat : p = x * v /\ q = y * v
    BY <2>1
  <2>3. p \div 100 <= q \div 100
    BY <2>1, <2>2
  <2> QED BY <2>2, <2>3
<1>3. /\ c.config.maxAssetWeight \in Nat /\ hard.config.maxAssetWeight \in Nat
      /\ c.config.cashFloor \in Nat /\ hard.config.cashFloor \in Nat
      /\ \A m \in Markets : /\ c.config.maxMarketWeight[m] \in Nat
                            /\ hard.config.maxMarketWeight[m] \in Nat
  BY DEF IsContext, IsPolicy
<1> QED BY <1>1, <1>2, <1>3, ZenonT(60) DEF Tightened, Limit, MarketLimit

\* What the rules before the turnover limit leave of a long portfolio meets
\* every wider policy that the portfolio met.
LEMMA BoundedMeets ==
  ASSUME NEW c, IsContext(c), NEW hard, IsContext(hard),
         hard.value = c.value, hard.current = c.current, hard.mutable = c.mutable,
         Tightened(c.config, hard.config), \A a \in Assets : c.current[a] >= 0,
         NEW now, now = Start(c.current),
         AssetsWithin(now, hard), MarketsWithin(now, hard, 0), CashWithin(now, hard, 0),
         NEW r, Bounded(r, c), NEW s, s = Start(r.w)
  PROVE  AssetsWithin(s, hard) /\ MarketsWithin(s, hard, 0) /\ CashWithin(s, hard, 0)
<1>1. /\ r.w \in Portfolio /\ c.current \in Portfolio
      /\ \A a \in Assets : r.w[a] \in Int /\ c.current[a] \in Int
  BY PartialIs DEF Bounded, IsContext, Portfolio
<1>2. s.w = r.w /\ s.unresolved = {} /\ now.w = c.current /\ now.unresolved = {}
  BY DEF Start
<1>3. \A a \in Assets : a \notin c.mutable => r.w[a] = c.current[a]
  BY DEF Bounded, FrozenHeld, Frozen
<1>4. \A a \in Assets : Size(r.w[a]) \in Nat /\ Size(c.current[a]) \in Nat
  BY <1>1 DEF Size
<1>5. AssetsWithin(s, hard)
  <2>1. PICK low \in Nat : low = Limit(c.config.maxAssetWeight, c)
    BY ConfigIs
  <2>2. PICK high \in Nat : high = Limit(hard.config.maxAssetWeight, hard)
    BY ConfigIs
  <2>3. low <= high
    BY <2>1, <2>2, LimitsOrdered
  <2>4. \A a \in c.mutable : Size(r.w[a]) <= low
    BY <2>1 DEF Bounded, TradesWithin
  <2>5. \A a \in Assets : Size(c.current[a]) <= high
    BY <1>2, <2>2 DEF AssetsWithin
  <2>6. \A a \in Assets : Size(r.w[a]) <= high
    BY <1>3, <1>4, <2>3, <2>4, <2>5
  <2> QED BY <1>2, <2>2, <2>6 DEF AssetsWithin
<1>6. MarketsWithin(s, hard, 0)
  <2> SUFFICES ASSUME NEW m \in Markets
               PROVE  Gross(s.w, Listed(m)) <= MarketLimit(m, hard) + 0
    BY DEF MarketsWithin
  <2>1. PICK S \in SUBSET Assets : S = Listed(m)
    BY DEF Listed
  <2>2. PICK low \in Nat : low = MarketLimit(m, c)
    BY ConfigIs
  <2>3. PICK high \in Nat : high = MarketLimit(m, hard)
    BY ConfigIs
  <2>4. low <= high
    BY <2>2, <2>3, LimitsOrdered
  <2>5. Gross(r.w, S) \in Nat /\ Gross(c.current, S) \in Nat
    BY <1>1, GrossIs
  <2>6. Gross(c.current, S) <= high + 0
    BY <1>2, <2>1, <2>3 DEF MarketsWithin
  <2>7. CASE Gross(r.w, S) <= low
    BY <1>2, <2>1, <2>3, <2>4, <2>5, <2>7
  <2>8. CASE \A a \in S \cap c.mutable : r.w[a] = 0
    <3>1. ASSUME NEW a \in S PROVE Size(r.w[a]) <= Size(c.current[a])
      <4>1. r.w[a] = 0 \/ r.w[a] = c.current[a]
        BY <1>3, <2>8
      <4>2. Size(0) = 0
        BY DEF Size
      <4> QED BY <1>4, <4>1, <4>2
    <3>2. Gross(r.w, S) <= Gross(c.current, S)
      BY <1>1, <3>1, GrossAtMost
    <3> QED BY <1>2, <2>1, <2>3, <2>5, <2>6, <3>2
  <2> QED BY <2>1, <2>2, <2>7, <2>8 DEF Bounded, MarketsEmptied
<1>7. CashWithin(s, hard, 0)
  <2>1. PICK low \in Nat : low = Limit(hard.config.cashFloor, hard)
    BY ConfigIs
  <2>2. PICK high \in Nat : high = Limit(c.config.cashFloor, c)
    BY ConfigIs
  <2>3. low <= high
    BY <2>1, <2>2, LimitsOrdered
  <2>4. PICK v \in Nat : v = c.value /\ v = hard.value
    BY DEF IsContext
  <2>5. IntsOn(r.w, Assets) /\ IntsOn(c.current, Assets)
    BY <1>1 DEF IntsOn
  <2>6. PICK x \in Int, y \in Int : x = Total(r.w, Assets) /\ y = Total(c.current, Assets)
    BY <2>5, TotalType
  <2>7. v - y >= low - 0
    BY <1>2, <2>1, <2>4, <2>6 DEF CashWithin
  <2>8. v - x >= low - 0
    <3>1. CASE v - x >= high
      BY <2>3, <3>1
    <3>2. CASE \A a \in c.mutable : r.w[a] <= 0
      <4>1. \A a \in Assets : r.w[a] <= c.current[a]
        BY <1>1, <1>3, <3>2
      <4>2. x <= y
        BY <1>1, <2>6, <4>1, FiniteAssets, AddedAtMost, TotalIs
      <4> QED BY <2>7, <4>2
    <3> QED BY <2>2, <2>4, <2>6, <3>1, <3>2 DEF Bounded, CashRaised
  <2> QED BY <1>2, <2>1, <2>4, <2>6, <2>8 DEF CashWithin
<1> QED BY <1>5, <1>6, <1>7


\* A portfolio within the limits of a policy stays there, although it is
\* projected into those of a narrower one.
LEMMA ProjectMeets ==
  ASSUME NEW c, IsContext(c), NEW hard, IsContext(hard),
         hard.value = c.value, hard.current = c.current, hard.mutable = c.mutable,
         Tightened(c.config, hard.config), \A a \in Assets : c.current[a] >= 0,
         NEW now, now = Start(c.current),
         AssetsWithin(now, hard), MarketsWithin(now, hard, 0), CashWithin(now, hard, 0),
         NEW action \in [cash : Int, assets : [Assets -> Int]],
         NEW w, w = Project(action, c).w
  PROVE  LimitsMet(Start(w), hard)
<1>1. PICK q : q = Project(action, c)
  OBVIOUS
<1>2. PICK r : Bounded(r, c) /\ \E lim \in Nat, T \in Nat \ {0} : Follows(q, r, c, lim, T)
  BY <1>1, ProjectGoes
<1>3. PICK lim \in Nat, T \in Nat \ {0} : Follows(q, r, c, lim, T)
  BY <1>2
<1>4. PICK s : s = Start(r.w)
  OBVIOUS
<1>5. PICK p : p = Start(q.w)
  OBVIOUS
<1>6. r.w \in Portfolio /\ q.w \in Portfolio
  BY <1>2, <1>3, PartialIs DEF Bounded, Follows
<1>7. IsPartial(s) /\ IsPartial(p) /\ s.w = r.w /\ p.w = q.w
      /\ s.unresolved = {} /\ p.unresolved = {} /\ now.w = hard.current /\ now.unresolved = {}
  BY <1>4, <1>5, <1>6 DEF IsPartial, Start
<1>8. Follows(p, s, hard, lim, T)
  BY <1>3, <1>7 DEF Follows
<1>9. AssetsWithin(s, hard) /\ MarketsWithin(s, hard, 0) /\ CashWithin(s, hard, 0)
  BY <1>2, <1>4, BoundedMeets
<1>10. AssetsWithin(p, hard) /\ MarketsWithin(p, hard, Rounding) /\ CashWithin(p, hard, Rounding)
  BY <1>7, <1>8, <1>9, FollowsKeeps
<1> QED BY <1>1, <1>5, <1>10 DEF LimitsMet

\* With all the value in reserve, a long portfolio only shrinks.
LEMMA ProjectShrinks ==
  ASSUME NEW c, IsContext(c), ~c.config.allowShort, c.config.cashFloor = 100,
         \A a \in Assets : c.current[a] >= 0,
         NEW action \in [cash : Int, assets : [Assets -> Int]],
         NEW w, w = Project(action, c).w, NEW a \in Assets
  PROVE  w[a] <= c.current[a]
<1>1. PICK q : q = Project(action, c)
  OBVIOUS
<1>2. PICK r : Bounded(r, c) /\ \E lim \in Nat, T \in Nat \ {0} : Follows(q, r, c, lim, T)
  BY <1>1, ProjectGoes
<1>3. PICK lim \in Nat, T \in Nat \ {0} : Follows(q, r, c, lim, T)
  BY <1>2
<1>4. \A b \in Assets : r.w[b] \in Int /\ c.current[b] \in Int
  BY <1>2, PartialIs DEF Bounded, IsContext, Portfolio
<1>5. \A b \in Assets : b \notin c.mutable => r.w[b] = c.current[b]
  BY <1>2 DEF Bounded, FrozenHeld, Frozen
<1>6. \A b \in c.mutable : r.w[b] >= 0
  BY <1>2 DEF Bounded, TradesWithin
<1>7. \A b \in Assets : r.w[b] >= 0
  BY <1>5, <1>6
<1>8. c.value \in Nat /\ Limit(c.config.cashFloor, c) = c.value
  <2>1. PICK v \in Nat : v = c.value
    BY DEF IsContext
  <2>2. (100 * v) \div 100 = v
    OBVIOUS
  <2> QED BY <2>1, <2>2 DEF Limit
<1>9. IntsOn(r.w, Assets)
  BY <1>4 DEF IntsOn
<1>10. Total(r.w, Assets) \in Nat /\ \A b \in Assets : r.w[b] <= Total(r.w, Assets)
  BY <1>7, <1>9, TotalType
<1>11. \A b \in c.mutable : r.w[b] <= 0
  <2>1. CASE c.value - Total(r.w, Assets) >= c.value
    <3>1. Total(r.w, Assets) = 0
      BY <1>8, <1>10, <2>1
    <3> QED BY <1>10, <3>1 DEF IsContext
  <2> QED BY <1>2, <1>8, <2>1 DEF Bounded, CashRaised
<1>12. r.w[a] <= c.current[a]
  BY <1>4, <1>5, <1>11
<1>13. q.w[a] = c.current[a] + Scaled(r.w[a] - c.current[a], lim, T) /\ lim <= T
  BY <1>3 DEF Follows
<1>14. PICK x \in Int : x = c.current[a] + Scaled(r.w[a] - c.current[a], lim, T)
  BY <1>4, <1>13, BlendIs
<1>15. (c.current[a] <= x /\ x <= r.w[a]) \/ (r.w[a] <= x /\ x <= c.current[a])
  BY <1>4, <1>13, <1>14, BlendIs, ZenonT(60)
<1>16. x <= c.current[a]
  BY <1>4, <1>12, <1>15
<1> QED BY <1>1, <1>13, <1>14, <1>16

\* What cannot be traded is held.
LEMMA ProjectHolds ==
  ASSUME NEW c, IsContext(c), NEW action \in [cash : Int, assets : [Assets -> Int]],
         NEW w, w = Project(action, c).w, NEW a \in Assets, a \notin c.mutable
  PROVE  w[a] = c.current[a]
<1>1. Projected(Project(action, c), c)
  BY ProjectKeeps
<1> QED BY <1>1 DEF Projected, FrozenHeld, Frozen


-----------------------------------------------------------------------------
(***************************************************************************)
(* What a run makes of its directives.                                     *)
(***************************************************************************)
IsOutcome(x, e, merge, p, market) ==
  /\ IsEnvironment(e) /\ IsRisk(merge.effective) /\ OptionalStrategy(p) /\ IsMarket(market)
  /\ x = Outcome(e, merge, p, market)

\* Its parts.
LEMMA OutcomeIs ==
  ASSUME LayersAssumption, NEW e, NEW merge, NEW p, NEW market, NEW x,
         IsOutcome(x, e, merge, p, market),
         NEW c, c = Context(x.fusion, market.current, market.tradable)
  PROVE  /\ x.market = market /\ x.fusion = Fuse(e, merge, p)
         /\ x.projected = Project(market.action, c)
         /\ market.action \in [cash : Int, assets : [Assets -> Int]]
         /\ IsContext(c) /\ ~c.config.allowShort
         /\ c.config = x.fusion.config /\ c.current = market.current
         /\ \A a \in Assets : c.current[a] >= 0
         /\ c.mutable = Mutable(x.fusion, market.current, market.tradable)
<1>1. x.market = market /\ x.fusion = Fuse(e, merge, p) /\ x.projected = Project(market.action, c)
  <2>1. x = [fusion |-> Fuse(e, merge, p), market |-> market,
             projected |-> Project(market.action,
                                   Context(Fuse(e, merge, p), market.current, market.tradable))]
    BY DEF IsOutcome, Outcome
  <2>2. x.fusion = Fuse(e, merge, p)
    BY <2>1
  <2> QED BY <2>1, <2>2
<1>2. /\ market.current \in [Assets -> Nat] /\ market.tradable \in SUBSET Assets
      /\ market.action \in [cash : Int, assets : [Assets -> Int]]
  BY DEF IsOutcome, IsMarket
<1>3. PICK d : d = x.fusion.config
  OBVIOUS
<1>4. IsPolicy(d) /\ ~d.allowShort
  BY <1>1, <1>3, FuseIs DEF IsOutcome
<1>5. c = [config |-> d, value |-> Value, current |-> market.current,
           mutable |-> Mutable(x.fusion, market.current, market.tradable)]
  BY <1>3 DEF Context
<1>6. Mutable(x.fusion, market.current, market.tradable) \in SUBSET Assets
  BY <1>2 DEF Mutable
<1>7. market.current \in Portfolio /\ \A a \in Assets : market.current[a] >= 0
  BY <1>2 DEF Portfolio
<1>8. IsContext(c)
  BY <1>4, <1>5, <1>6, <1>7 DEF IsContext, LayersAssumption
<1> QED BY <1>1, <1>2, <1>3, <1>4, <1>5, <1>7, <1>8

\* It is no wider than the policy.
LEMMA OutcomeTightened ==
  ASSUME NEW e, NEW merge, NEW p, NEW market, NEW x, IsOutcome(x, e, merge, p, market)
  PROVE  Tightened(x.fusion.config, e)
<1>1. x.fusion = Fuse(e, merge, p)
  BY DEF IsOutcome, Outcome
<1> QED BY <1>1, FuseIs DEF IsOutcome

\* Nor than a risk manager whom its directive hears.
LEMMA OutcomeHears ==
  ASSUME NEW e, NEW merge, NEW p, NEW market, NEW x, IsOutcome(x, e, merge, p, market),
         NEW d, Manager(d), Heard(merge.effective, d)
  PROVE  LET c == x.fusion.config
         IN  /\ c.cashFloor >= Most(d.cash, 100 - d.budget)
             /\ c.maxAssetWeight <= d.asset /\ c.maxTurnover <= d.turnover
             /\ \A m \in Markets \cap DOMAIN d.markets : c.maxMarketWeight[m] <= d.markets[m]
             /\ x.fusion.open => d.open
<1>1. x.fusion = Fuse(e, merge, p)
  BY DEF IsOutcome, Outcome
<1>2. PICK c : c = x.fusion.config
  OBVIOUS
<1>3. PICK f : f = merge.effective /\ IsRisk(f) /\ Heard(f, d)
  BY DEF IsOutcome
<1>4. /\ f.budget \in 0..100 /\ f.asset \in 1..100 /\ f.cash \in 0..100 /\ f.turnover \in 0..200
      /\ d.budget \in 0..100 /\ d.asset \in 1..100 /\ d.cash \in 0..100 /\ d.turnover \in 0..200
  BY <1>3, RiskIs DEF Manager
<1>5. c.cashFloor >= Most(d.cash, 100 - d.budget)
  <2>1. PICK floor \in 0..100 : floor = c.cashFloor /\ floor >= f.cash /\ floor >= 100 - f.budget
    BY <1>1, <1>2, <1>3, FuseCash DEF IsOutcome
  <2>2. d.cash <= f.cash /\ f.budget <= d.budget
    BY <1>3, <1>4 DEF Heard
  <2>3. floor >= d.cash /\ floor >= 100 - d.budget
    <3>1. PICK fb \in 0..100, fc \in 0..100 : fb = f.budget /\ fc = f.cash
      BY <1>4, ZenonT(60)
    <3>2. PICK db \in 0..100, dc \in 0..100 : db = d.budget /\ dc = d.cash
      BY <1>4
    <3>3. floor >= fc /\ floor >= 100 - fb /\ dc <= fc /\ fb <= db
      BY <2>1, <2>2, <3>1, <3>2
    <3>4. floor >= dc /\ floor >= 100 - db
      BY <3>3
    <3> QED BY <3>2, <3>4
  <2>4. Most(d.cash, 100 - d.budget) \in {d.cash, 100 - d.budget}
    BY DEF Most
  <2> QED BY <2>1, <2>3, <2>4
<1>6. c.maxAssetWeight <= d.asset /\ c.maxTurnover <= d.turnover
  <2>1. IsPolicy(c) /\ c.maxAssetWeight <= f.asset /\ c.maxTurnover <= f.turnover
    BY <1>1, <1>2, <1>3, FuseIs DEF IsOutcome
  <2>2. c.maxAssetWeight \in Int /\ c.maxTurnover \in Int
    BY <2>1 DEF IsPolicy
  <2>3. f.asset <= d.asset /\ f.turnover <= d.turnover
    BY <1>3 DEF Heard
  <2>4. \A u, v, w \in Int : u <= v /\ v <= w => u <= w
    OBVIOUS
  <2>5. f.asset \in Int /\ d.asset \in Int /\ f.turnover \in Int /\ d.turnover \in Int
    BY <1>4
  <2> QED BY <2>1, <2>2, <2>3, <2>4, <2>5
<1>7. ASSUME NEW m \in Markets \cap DOMAIN d.markets
      PROVE  c.maxMarketWeight[m] <= d.markets[m]
  <2>1. m \in DOMAIN f.markets /\ f.markets[m] <= d.markets[m]
    BY <1>3 DEF Heard
  <2>2. PICK u \in 0..100 : u = f.markets[m]
    BY <1>3, <2>1, CapIs
  <2>3. PICK v \in 0..100 : v = d.markets[m] /\ v > 0
    BY CapIs DEF Manager
  <2>4. PICK cap \in 1..100 : cap = c.maxMarketWeight[m] /\ cap <= Most(1, u)
    <3>1. c.maxMarketWeight[m] \in 1..100 /\ c.maxMarketWeight[m] <= Most(1, f.markets[m])
      BY <1>1, <1>2, <1>3, <2>1, FuseCap DEF IsOutcome
    <3> QED BY <2>2, <3>1
  <2>5. cap <= v
    BY <2>1, <2>2, <2>3, <2>4 DEF Most
  <2> QED BY <2>3, <2>4, <2>5
<1>8. x.fusion.open => d.open
  <2>1. x.fusion.open = f.open
    BY <1>1, <1>3, FuseIs DEF IsOutcome
  <2> QED BY <1>3, <2>1 DEF Heard
<1> QED BY <1>2, <1>5, <1>6, <1>7, <1>8


\* With all the value in reserve it adds nothing, and without leave to open
\* positions it opens none.
LEMMA OutcomeAddsNothing ==
  ASSUME LayersAssumption, NEW e, NEW merge, NEW p, NEW market, NEW x,
         IsOutcome(x, e, merge, p, market), NEW a \in Assets
  PROVE  /\ merge.effective.cash >= 100 \/ (\E s \in p : s.budget = 0)
              => x.projected.w[a] <= x.market.current[a]
         /\ ~x.fusion.open /\ x.market.current[a] = 0 => x.projected.w[a] = 0
<1>1. PICK c : c = Context(x.fusion, market.current, market.tradable)
  OBVIOUS
<1>2. /\ x.market = market /\ x.fusion = Fuse(e, merge, p)
      /\ x.projected = Project(market.action, c)
      /\ market.action \in [cash : Int, assets : [Assets -> Int]]
      /\ IsContext(c) /\ ~c.config.allowShort
      /\ c.config = x.fusion.config /\ c.current = market.current
      /\ \A b \in Assets : c.current[b] >= 0
      /\ c.mutable = Mutable(x.fusion, market.current, market.tradable)
  BY <1>1, OutcomeIs
<1>3. ASSUME merge.effective.cash >= 100 \/ \E s \in p : s.budget = 0
      PROVE  x.projected.w[a] <= x.market.current[a]
  <2>1. PICK floor : floor = Fuse(e, merge, p).config.cashFloor
    OBVIOUS
  <2>2. /\ floor \in 0..100 /\ floor >= merge.effective.cash
        /\ \A s \in p : floor >= 100 - s.budget
    BY <2>1, FuseCash DEF IsOutcome
  <2>3. merge.effective.cash \in 0..100
    BY RiskIs DEF IsOutcome
  <2>4. floor >= 100
    <3>1. CASE merge.effective.cash >= 100
      BY <2>2, <2>3, <3>1
    <3>2. CASE \E s \in p : s.budget = 0
      <4>1. PICK s \in p : s.budget = 0
        BY <3>2
      <4>2. floor >= 100 - 0
        BY <2>2, <4>1
      <4> QED BY <2>2, <4>2
    <3> QED BY <1>3, <3>1, <3>2
  <2>5. c.config.cashFloor = 100
    BY <1>2, <2>1, <2>2, <2>4
  <2> QED BY <1>2, <2>5, ProjectShrinks
<1>4. ASSUME ~x.fusion.open, x.market.current[a] = 0
      PROVE  x.projected.w[a] = 0
  <2>1. a \notin c.mutable
    BY <1>2, <1>4 DEF Mutable
  <2> QED BY <1>2, <1>4, <2>1, ProjectHolds
<1> QED BY <1>3, <1>4

\* A portfolio within the policy stays within it.
LEMMA OutcomeMeets ==
  ASSUME LayersAssumption, NEW e, NEW merge, NEW p, NEW market, NEW x,
         IsOutcome(x, e, merge, p, market),
         NEW hard, hard = [Context(x.fusion, x.market.current, x.market.tradable)
                             EXCEPT !.config = e],
         NEW now, now = Start(x.market.current),
         AssetsWithin(now, hard), MarketsWithin(now, hard, 0), CashWithin(now, hard, 0)
  PROVE  LimitsMet(Start(x.projected.w), hard)
<1>1. PICK c : c = Context(x.fusion, market.current, market.tradable)
  OBVIOUS
<1>2. /\ x.market = market /\ x.projected = Project(market.action, c)
      /\ market.action \in [cash : Int, assets : [Assets -> Int]]
      /\ IsContext(c) /\ c.config = x.fusion.config /\ c.current = market.current
      /\ \A b \in Assets : c.current[b] >= 0
  BY <1>1, OutcomeIs
<1>3. /\ hard.config = e /\ hard.value = c.value /\ hard.current = c.current
      /\ hard.mutable = c.mutable
  <2>1. c = [config |-> x.fusion.config, value |-> Value, current |-> market.current,
             mutable |-> Mutable(x.fusion, market.current, market.tradable)]
    BY <1>1 DEF Context
  <2>2. hard = [c EXCEPT !.config = e]
    BY <1>1, <1>2
  <2> QED BY <2>1, <2>2
<1>4. IsPolicy(e)
  <2>1. /\ e.maxLeverage = 100 /\ e.maxAssetWeight \in 1..100 /\ e.cashFloor \in 0..100
        /\ e.maxMarketWeight \in [Markets -> 1..100] /\ e.maxTurnover \in 0..200
    BY EnvironmentIs DEF IsOutcome
  <2>2. e.allowShort \in BOOLEAN
    BY DEF IsOutcome, IsEnvironment
  <2>3. e.maxMarketWeight \in [Markets -> Nat]
    BY <2>1
  <2>4. e.maxLeverage \in Nat /\ e.maxAssetWeight \in Nat /\ e.cashFloor \in Nat
        /\ e.maxTurnover \in Nat
    BY <2>1
  <2> QED BY <2>2, <2>3, <2>4 DEF IsPolicy
<1>5. IsContext(hard)
  BY <1>2, <1>3, <1>4 DEF IsContext
<1>6. Tightened(c.config, hard.config)
  BY <1>2, <1>3, OutcomeTightened
<1>7. now = Start(c.current)
  BY <1>2
<1> QED BY <1>2, <1>3, <1>5, <1>6, <1>7, ProjectMeets


-----------------------------------------------------------------------------
(***************************************************************************)
(* The inductive invariant: what a run knows at each of its stages.        *)
(***************************************************************************)
Early == {"idle", "research", "risk"}
Late == {"journal", "complete"}
Stages == Early \cup {"strategy", "fusion"} \cup Late
Sources == {"agent", "fallback", "previous", "disabled"}

MergeOf(risk, e) == Merge(risk.directive, e, IF risk.on THEN risk.mode ELSE "enforced")

\* The risk layer merged its directive with the policy e, heard its members, and
\* fell back on the directive of last resort.
RiskKept(risk, e) ==
  /\ risk.on \in BOOLEAN /\ risk.mode \in {"advisory", "enforced"} /\ risk.source \in Sources
  /\ OptionalRisk(risk.directive) /\ risk.merge = {MergeOf(risk, e)}
  /\ \A d \in risk.members : risk.on /\ Manager(d) /\ \E f \in risk.directive : Heard(f, d)
  /\ risk.source = "fallback" => risk.on /\ risk.directive = {StaticRisk}

StrategyKept(strategy) ==
  /\ strategy.source \in Sources /\ OptionalStrategy(strategy.directive)
  /\ strategy.source = "fallback" => strategy.directive = {StaticStrategy}

TeamKept(team) == team.tools \subseteq Tools /\ TeamAccepted(team)

\* What the research team may have touched.
Touchable(team) ==
  CASE team.mode = "plan_only" -> {} [] team.mode = "dry_run" -> {"validation"}
    [] OTHER -> {"validation", "runs", "reports"}

\* The one outcome of a run under the policy e.
OutcomeKept(run, e) ==
  \E x \in run.outcome :
    run.outcome = {x} /\ IsOutcome(x, e, MergeOf(run.risk, e), run.strategy.directive, x.market)

IsRun(run) ==
  run \in [stage : Stages, index : {run.index}, team : {run.team}, estimated : {run.estimated},
           touched : {run.touched}, risk : {run.risk}, strategy : {run.strategy},
           outcome : {run.outcome}, replayed : {run.replayed}]

RunKept(run, e) ==
  /\ IsRun(run) /\ TeamKept(run.team) /\ run.touched \subseteq Touchable(run.team)
  /\ run.stage \in Early => run.risk = NoRisk
  /\ run.stage \notin Early => RiskKept(run.risk, e)
  /\ StrategyKept(run.strategy)
  /\ run.stage \notin Late => run.outcome = {}
  /\ run.stage \in Late => OutcomeKept(run, e)
  /\ run.stage = "complete" => run.replayed \/ (~run.risk.on /\ run.risk.mode = "advisory")

CarriedKept(c) ==
  /\ c \in [risk : {c.risk}, strategy : {c.strategy}]
  /\ OptionalRisk(c.risk) /\ OptionalStrategy(c.strategy)

LayersInv ==
  /\ environment \in Environments /\ directories \subseteq Ids
  /\ CarriedKept(carried) /\ RunKept(layerRun, environment)


\* A run that has not begun keeps it under every policy.
LEMMA IdleKept ==
  ASSUME NEW e
  PROVE  RunKept(Idle, e)
<1>1. /\ Idle.stage = "idle" /\ Idle.team = NoTeam /\ Idle.touched = {} /\ Idle.risk = NoRisk
      /\ Idle.strategy = NoStrategy /\ Idle.outcome = {}
  BY DEF Idle
<1>2. IsRun(Idle)
  BY DEF IsRun, Idle, Stages, Early
<1>3. TeamKept(NoTeam)
  BY DEF TeamKept, TeamAccepted, NoTeam
<1>4. StrategyKept(NoStrategy)
  BY DEF StrategyKept, NoStrategy, Sources, OptionalStrategy
<1> QED BY <1>1, <1>2, <1>3, <1>4 DEF RunKept, Early, Late

\* Without runs there is nothing to keep.
LEMMA LayersStart ==
  ASSUME LayersInit
  PROVE  LayersInv
<1>1. CarriedKept(Nothing)
  BY DEF CarriedKept, Nothing, OptionalRisk, OptionalStrategy
<1> QED BY <1>1, IdleKept DEF LayersInit, LayersInv

\* Administrators set policies between runs.
LEMMA AdministrateKeeps ==
  ASSUME LayersInv, Administrate
  PROVE  LayersInv'
<1>1. layerRun.stage = "idle" /\ IsRun(layerRun) /\ RunKept(layerRun, environment)
  BY DEF Administrate, LayersInv, RunKept
<1>2. ASSUME NEW e PROVE RunKept(layerRun, e)
  BY <1>1 DEF RunKept, Early, Late
<1>3. PICK e : e = environment'
  OBVIOUS
<1> QED BY <1>2, <1>3 DEF LayersInv, Administrate

\* A run starts with a team its configuration accepts, or none.
LEMMA ConfigureKeeps ==
  ASSUME LayersAssumption, LayersInv, Configure
  PROVE  LayersInv'
<1>1. PICK index \in Indices, team \in {t \in Teams : TeamAccepted(t)} \cup {NoTeam} :
        layerRun' = [Idle EXCEPT !.stage = "research", !.index = index, !.team = team]
  BY DEF Configure
<1>2. PICK run : run = layerRun'
  OBVIOUS
<1>3. run = [stage |-> "research", index |-> index, team |-> team, estimated |-> FALSE,
             touched |-> {}, risk |-> NoRisk, strategy |-> NoStrategy, outcome |-> {},
             replayed |-> FALSE]
  BY <1>1, <1>2 DEF Idle
<1>4. TeamKept(team)
  <2>1. TeamKept(NoTeam)
    BY DEF TeamKept, TeamAccepted, NoTeam
  <2>2. ASSUME team \in Teams, TeamAccepted(team) PROVE TeamKept(team)
    <3>1. IsTeam(team)
      BY <2>2 DEF LayersAssumption
    <3> QED BY <2>2, <3>1 DEF TeamKept, IsTeam
  <2> QED BY <2>1, <2>2
<1>5. IsRun(run)
  BY <1>3 DEF IsRun, Stages, Early
<1>6. StrategyKept(NoStrategy)
  BY DEF StrategyKept, NoStrategy, Sources, OptionalStrategy
<1>7. RunKept(run, environment)
  BY <1>3, <1>4, <1>5, <1>6 DEF RunKept, Early, Late
<1> QED BY <1>2, <1>7 DEF LayersInv, Configure

\* A tool the executor does not deny touches what its mode may touch.
LEMMA CallToolKeeps ==
  ASSUME LayersInv, CallTool
  PROVE  LayersInv'
<1>1. PICK t \in layerRun.team.tools :
        /\ Permission[t] \in layerRun.team.permissions
        /\ layerRun' = [layerRun EXCEPT !.estimated = @ \/ t = "estimate",
                                        !.touched = @ \cup Effect[t]]
  BY DEF CallTool
<1>2. /\ layerRun.stage = "research" /\ IsRun(layerRun) /\ TeamKept(layerRun.team)
      /\ layerRun.touched \subseteq Touchable(layerRun.team)
      /\ layerRun.risk = NoRisk /\ layerRun.outcome = {} /\ StrategyKept(layerRun.strategy)
  BY DEF CallTool, LayersInv, RunKept, Early, Late
<1>3. PICK run : run = layerRun'
  OBVIOUS
<1>4. /\ run.stage = "research" /\ run.team = layerRun.team /\ run.risk = NoRisk
      /\ run.outcome = {} /\ run.strategy = layerRun.strategy
      /\ run.touched = layerRun.touched \cup Effect[t] /\ IsRun(run)
  BY <1>1, <1>2, <1>3 DEF IsRun
<1>5. Effect[t] \subseteq Touchable(layerRun.team)
  <2>1. t \in Tools
    BY <1>2 DEF TeamKept
  <2>2. /\ Effect[t] = CASE t = "evaluate" -> {"validation"} [] t = "train" -> {"runs"}
                          [] t = "report" -> {"reports"} [] OTHER -> {}
        /\ t = "train" => Permission[t] = "expensive"
        /\ t = "report" => Permission[t] = "write"
    BY <2>1 DEF Effect, Permission
  <2>3. /\ layerRun.team.mode # "plan_only"
        /\ layerRun.team.mode = "dry_run" => t # "train" /\ t # "report"
    BY <1>1, <1>2, <2>2 DEF TeamKept, TeamAccepted
  <2>4. Effect[t] \subseteq {"validation", "runs", "reports"}
        /\ (t # "train" /\ t # "report" => Effect[t] \subseteq {"validation"})
    BY <2>2
  <2> QED BY <2>3, <2>4 DEF Touchable
<1>6. RunKept(run, environment)
  BY <1>2, <1>4, <1>5 DEF RunKept, Early, Late
<1> QED BY <1>3, <1>6 DEF LayersInv, CallTool

\* The research team is done with.
LEMMA EndResearchKeeps ==
  ASSUME LayersInv, EndResearch
  PROVE  LayersInv'
<1>1. /\ layerRun.stage = "research" /\ IsRun(layerRun) /\ layerRun.risk = NoRisk
      /\ layerRun.outcome = {} /\ StrategyKept(layerRun.strategy)
  BY DEF EndResearch, LayersInv, RunKept, Early, Late
<1>2. PICK run : run = layerRun'
  OBVIOUS
<1>3. /\ run.stage = "risk" /\ run.team = NoTeam /\ run.risk = NoRisk /\ run.outcome = {}
      /\ run.strategy = layerRun.strategy /\ run.touched = {} /\ IsRun(run)
  BY <1>1, <1>2 DEF EndResearch, IsRun, Stages, Early
<1>4. TeamKept(NoTeam)
  BY DEF TeamKept, TeamAccepted, NoTeam
<1>5. RunKept(run, environment)
  BY <1>1, <1>3, <1>4 DEF RunKept, Early, Late
<1> QED BY <1>2, <1>5 DEF LayersInv, EndResearch

\* A run that ends in an error leaves nothing.
LEMMA AbandonKeeps ==
  ASSUME LayersInv, Abandon
  PROVE  LayersInv'
<1>1. CarriedKept(Nothing)
  BY DEF CarriedKept, Nothing, OptionalRisk, OptionalStrategy
<1> QED BY <1>1, IdleKept DEF LayersInv, Abandon


\* Committees of the risk layer.
LEMMA RiskTeamsAre ==
  ASSUME LayersAssumption, NEW team \in RiskTeams
  PROVE  Committee(team)
<1> DEFINE answers == {DecisionOf(d) : d \in RiskDirectives \cup {StaticRisk}}
<1>1. \A x \in answers : DecisionIs(x)
  <2>1. \A d \in RiskDirectives \cup {StaticRisk} : Manager(d)
    BY StaticIs DEF LayersAssumption, Manager
  <2> QED BY <2>1 DEF DecisionIs
<1>2. \A x \in Reviews : DecisionIs(x)
  BY DEF LayersAssumption, DecisionIs
<1> HIDE DEF answers
<1>3. CASE team \in {<<a>> : a \in answers}
  BY <1>1, <1>3 DEF Committee
<1>4. CASE team \in answers \X answers
  <2>1. PICK x \in answers, y \in answers : team = <<x, y>>
    BY <1>4
  <2> QED BY <1>1, <2>1 DEF Committee
<1>5. CASE team \in answers \X Reviews
  <2>1. PICK x \in answers, y \in Reviews : team = <<x, y>>
    BY <1>5
  <2> QED BY <1>1, <1>2, <2>1 DEF Committee
<1> QED BY <1>3, <1>4, <1>5 DEF RiskTeams, answers

\* A risk layer that merges an optional directive, of which each member is heard.
LEMMA AskedKeeps ==
  ASSUME LayersInv, layerRun.stage = "risk",
         NEW on \in BOOLEAN, NEW mode \in {"advisory", "enforced"}, NEW source \in Sources,
         NEW members, NEW directive, OptionalRisk(directive),
         \A d \in members : on /\ Manager(d) /\ \E f \in directive : Heard(f, d),
         source = "fallback" => on /\ directive = {StaticRisk},
         Asked(RiskLayer(on, mode, source, members, directive))
  PROVE  LayersInv'
<1>1. PICK risk : risk = RiskLayer(on, mode, source, members, directive)
  OBVIOUS
<1>2. RiskKept(risk, environment)
  BY <1>1 DEF RiskKept, RiskLayer, MergeOf
<1>3. /\ layerRun' = [layerRun EXCEPT !.stage = "strategy", !.risk = risk]
      /\ carried' = [carried EXCEPT !.risk = {}]
      /\ environment' = environment /\ directories' = directories
  BY <1>1 DEF Asked
<1>4. /\ IsRun(layerRun) /\ TeamKept(layerRun.team) /\ layerRun.outcome = {}
      /\ layerRun.touched \subseteq Touchable(layerRun.team) /\ StrategyKept(layerRun.strategy)
  BY DEF LayersInv, RunKept, Late
<1>5. PICK run : run = layerRun'
  OBVIOUS
<1>6. /\ run.stage = "strategy" /\ run.team = layerRun.team /\ run.risk = risk
      /\ run.outcome = {} /\ run.strategy = layerRun.strategy
      /\ run.touched = layerRun.touched /\ IsRun(run)
  BY <1>3, <1>4, <1>5 DEF IsRun, Stages, Early
<1>7. RunKept(run, environment)
  BY <1>2, <1>4, <1>6 DEF RunKept, Early, Late
<1>8. CarriedKept(carried')
  <2>1. PICK c : c = carried'
    OBVIOUS
  <2>2. CarriedKept(carried)
    BY DEF LayersInv
  <2>3. /\ c \in [risk : {c.risk}, strategy : {c.strategy}]
        /\ c.risk = {} /\ c.strategy = carried.strategy
    BY <1>3, <2>1, <2>2 DEF CarriedKept
  <2> QED BY <2>1, <2>2, <2>3 DEF CarriedKept, OptionalRisk
<1> QED BY <1>3, <1>5, <1>7, <1>8 DEF LayersInv

\* The risk layer is disabled, due, or takes a directive that was carried over.
LEMMA AskRiskKeeps ==
  ASSUME LayersAssumption, LayersInv, AskRisk
  PROVE  LayersInv'
<1>1. layerRun.stage = "risk"
  BY DEF AskRisk
<1>2. PICK mode \in {"advisory", "enforced"} :
       \/ Asked(RiskLayer(FALSE, mode, "disabled", {}, {}))
       \/ /\ Due(Weekly, layerRun.index)
          /\ \E team \in RiskTeams :
               LET d == RiskFromAggregate(team)
               IN  Asked(RiskLayer(TRUE, mode, IF d = StaticRisk THEN "fallback" ELSE "agent",
                                   UNION {x.directive : x \in ToSet(team)}, {d}))
       \/ /\ ~Due(Weekly, layerRun.index)
          /\ \/ carried.risk # {} /\ Asked(RiskLayer(TRUE, mode, "previous", {}, carried.risk))
             \/ Asked(RiskLayer(TRUE, mode, "fallback", {}, {StaticRisk}))
  BY DEF AskRisk
<1>3. CASE Asked(RiskLayer(FALSE, mode, "disabled", {}, {}))
  <2>1. OptionalRisk({}) /\ "disabled" \in Sources
    BY DEF OptionalRisk, Sources
  <2>2. PICK none : none = {}
    OBVIOUS
  <2>3. PICK source : source = "disabled" /\ source # "fallback"
    OBVIOUS
  <2>4. \A d \in none : FALSE /\ Manager(d) /\ \E f \in none : Heard(f, d)
    BY <2>2
  <2>5. Asked(RiskLayer(FALSE, mode, source, none, none))
    BY <1>3, <2>2, <2>3
  <2> QED BY <1>1, <2>1, <2>2, <2>3, <2>4, <2>5, AskedKeeps
<1>4. ASSUME NEW team \in RiskTeams, NEW d, d = RiskFromAggregate(team), NEW source,
             source = IF d = StaticRisk THEN "fallback" ELSE "agent",
             Asked(RiskLayer(TRUE, mode, source, UNION {x.directive : x \in ToSet(team)}, {d}))
      PROVE  LayersInv'
  <2>1. PICK members : members = UNION {x.directive : x \in ToSet(team)}
    OBVIOUS
  <2>2. Committee(team)
    BY RiskTeamsAre
  <2>3. IsRisk(d) /\ \A x \in members : Manager(x) /\ Heard(d, x)
    BY <1>4, <2>1, <2>2, AnswerIs
  <2>4. OptionalRisk({d}) /\ source \in Sources
    BY <1>4, <2>3 DEF OptionalRisk, Sources
  <2>5. source = "fallback" => {d} = {StaticRisk}
    BY <1>4
  <2>6. Asked(RiskLayer(TRUE, mode, source, members, {d}))
    BY <1>4, <2>1
  <2>7. \A x \in members : Manager(x) /\ \E f \in {d} : Heard(f, x)
    BY <2>3
  <2> QED BY <1>1, <2>4, <2>5, <2>6, <2>7, AskedKeeps
<1>5. CASE Asked(RiskLayer(TRUE, mode, "previous", {}, carried.risk))
  <2>1. OptionalRisk(carried.risk) /\ "previous" \in Sources
    BY DEF LayersInv, CarriedKept, Sources
  <2>2. PICK none : none = {}
    OBVIOUS
  <2>3. PICK source : source = "previous"
    OBVIOUS
  <2>4. PICK given : given = carried.risk
    OBVIOUS
  <2>5. \A d \in none : Manager(d) /\ \E f \in given : Heard(f, d)
    BY <2>2
  <2>6. Asked(RiskLayer(TRUE, mode, source, none, given))
    BY <1>5, <2>2, <2>3, <2>4
  <2>7. source = "fallback" => given = {StaticRisk}
    BY <2>3, <2>4
  <2> QED BY <1>1, <2>1, <2>3, <2>4, <2>5, <2>6, <2>7, AskedKeeps
<1>6. CASE Asked(RiskLayer(TRUE, mode, "fallback", {}, {StaticRisk}))
  <2>1. OptionalRisk({StaticRisk}) /\ "fallback" \in Sources
    BY StaticIs DEF OptionalRisk, Sources, Manager
  <2>2. PICK none : none = {}
    OBVIOUS
  <2>3. PICK source : source = "fallback"
    OBVIOUS
  <2>4. PICK given : given = {StaticRisk}
    OBVIOUS
  <2>5. \A d \in none : Manager(d) /\ \E f \in given : Heard(f, d)
    BY <2>2
  <2>6. Asked(RiskLayer(TRUE, mode, source, none, given))
    BY <1>6, <2>2, <2>3, <2>4
  <2>7. source = "fallback" => given = {StaticRisk}
    BY <2>3, <2>4
  <2> QED BY <1>1, <2>1, <2>3, <2>4, <2>5, <2>6, <2>7, AskedKeeps, ZenonT(60)
<1> QED BY <1>2, <1>3, <1>4, <1>5, <1>6

\* So does the strategy layer.
LEMMA AskStrategyKeeps ==
  ASSUME LayersAssumption, LayersInv, AskStrategy
  PROVE  LayersInv'
<1>1. PICK source, directive : /\ Answered(source, directive)
                               /\ StrategyKept([source |-> source, directive |-> directive])
  <2>1. StrategyKept([source |-> "disabled", directive |-> {}])
    BY DEF StrategyKept, Sources, OptionalStrategy
  <2>2. \A d \in Strategies : StrategyKept([source |-> "agent", directive |-> {d}])
    BY DEF StrategyKept, Sources, OptionalStrategy, LayersAssumption
  <2>3. StrategyKept([source |-> "previous", directive |-> carried.strategy])
    BY DEF StrategyKept, Sources, LayersInv, CarriedKept
  <2>4. StrategyKept([source |-> "fallback", directive |-> {StaticStrategy}])
    BY StaticIs DEF StrategyKept, Sources, OptionalStrategy
  <2>5. \/ Answered("disabled", {})
        \/ \E d \in Strategies : Answered("agent", {d})
        \/ Answered("previous", carried.strategy)
        \/ Answered("fallback", {StaticStrategy})
    BY DEF AskStrategy
  <2> QED BY <2>1, <2>2, <2>3, <2>4, <2>5
<1>2. PICK strategy : strategy = [source |-> source, directive |-> directive]
  OBVIOUS
<1>3. /\ layerRun' = [layerRun EXCEPT !.stage = "fusion", !.strategy = strategy]
      /\ carried' = Nothing /\ environment' = environment /\ directories' = directories
  BY <1>1, <1>2 DEF Answered
<1>4. /\ layerRun.stage = "strategy" /\ IsRun(layerRun) /\ TeamKept(layerRun.team)
      /\ layerRun.outcome = {} /\ RiskKept(layerRun.risk, environment)
      /\ layerRun.touched \subseteq Touchable(layerRun.team)
  BY DEF AskStrategy, LayersInv, RunKept, Early, Late
<1>5. PICK run : run = layerRun'
  OBVIOUS
<1>6. /\ run.stage = "fusion" /\ run.team = layerRun.team /\ run.risk = layerRun.risk
      /\ run.outcome = {} /\ run.strategy = strategy
      /\ run.touched = layerRun.touched /\ IsRun(run)
  BY <1>3, <1>4, <1>5 DEF IsRun, Stages
<1>7. RunKept(run, environment)
  BY <1>1, <1>2, <1>4, <1>6 DEF RunKept, Early, Late
<1>8. CarriedKept(Nothing)
  BY DEF CarriedKept, Nothing, OptionalRisk, OptionalStrategy
<1> QED BY <1>3, <1>5, <1>7, <1>8 DEF LayersInv


\* The merge of a risk layer is a directive, as narrow as the one it merged where
\* the layer is on and enforces it.
LEMMA MergedIs ==
  ASSUME NEW e, IsEnvironment(e), NEW risk, RiskKept(risk, e)
  PROVE  /\ IsRisk(MergeOf(risk, e).effective)
         /\ risk.on /\ risk.mode = "enforced"
              => \A f \in risk.directive : IsRisk(f) /\ Heard(MergeOf(risk, e).effective, f)
<1>1. OptionalRisk(risk.directive) /\ risk.on \in BOOLEAN
  BY DEF RiskKept
<1>2. PICK mode : mode = IF risk.on THEN risk.mode ELSE "enforced"
  OBVIOUS
<1>3. MergeOf(risk, e) = Merge(risk.directive, e, mode)
  BY <1>2 DEF MergeOf
<1>4. /\ IsRisk(MergeOf(risk, e).effective)
      /\ mode # "advisory" => \A f \in risk.directive : Heard(MergeOf(risk, e).effective, f)
  BY <1>1, <1>3, MergeIs
<1>5. \A f \in risk.directive : IsRisk(f)
  BY <1>1 DEF OptionalRisk
<1> QED BY <1>2, <1>4, <1>5

\* The outcome of a run is made of its merge, its strategy and its market.
LEMMA FuseKeeps ==
  ASSUME LayersAssumption, LayersInv, FuseAndProject
  PROVE  LayersInv'
<1>1. /\ layerRun.stage = "fusion" /\ IsRun(layerRun) /\ TeamKept(layerRun.team)
      /\ RiskKept(layerRun.risk, environment) /\ StrategyKept(layerRun.strategy)
      /\ layerRun.touched \subseteq Touchable(layerRun.team)
  BY DEF FuseAndProject, LayersInv, RunKept, Early, Late
<1>2. PICK current \in Portfolios, action \in LayerActions, tradable \in {Assets, {CHOOSE a \in Assets : TRUE}} :
       layerRun' = [layerRun EXCEPT !.stage = "journal", !.outcome =
         {Outcome(environment, Merged, layerRun.strategy.directive,
                  [current |-> current, action |-> action, tradable |-> tradable])}]
  BY DEF FuseAndProject
<1>3. PICK market : market = [current |-> current, action |-> action, tradable |-> tradable]
  OBVIOUS
<1>4. PICK x : x = Outcome(environment, Merged, layerRun.strategy.directive, market)
  OBVIOUS
<1>5. PICK run : run = layerRun'
  OBVIOUS
<1>6. /\ run.stage = "journal" /\ run.team = layerRun.team /\ run.risk = layerRun.risk
      /\ run.outcome = {x} /\ run.strategy = layerRun.strategy
      /\ run.touched = layerRun.touched /\ IsRun(run)
  BY <1>1, <1>2, <1>3, <1>4, <1>5 DEF IsRun, Stages, Late
<1>7. IsEnvironment(environment)
  BY DEF LayersInv, LayersAssumption
<1>8. Merged = MergeOf(layerRun.risk, environment)
  BY <1>1 DEF Merged, RiskKept
<1>9. IsMarket(market)
  <2>1. (CHOOSE a \in Assets : TRUE) \in Assets
    BY ProjectionAssumption
  <2>2. /\ market.current \in [Assets -> Nat] /\ market.tradable \in SUBSET Assets
        /\ market.action \in [cash : Int, assets : [Assets -> Int]]
    BY <1>3, <2>1 DEF LayersAssumption
  <2> QED BY <2>2 DEF IsMarket
<1>10. x.market = market
  BY <1>4 DEF Outcome
<1>11. IsOutcome(x, environment, MergeOf(run.risk, environment), run.strategy.directive, x.market)
  <2>1. IsRisk(MergeOf(layerRun.risk, environment).effective)
    BY <1>1, <1>7, MergedIs
  <2>2. OptionalStrategy(layerRun.strategy.directive)
    BY <1>1 DEF StrategyKept
  <2> QED BY <1>4, <1>6, <1>7, <1>8, <1>9, <1>10, <2>1, <2>2 DEF IsOutcome
<1>12. RunKept(run, environment)
  <2>1. OutcomeKept(run, environment)
    BY <1>6, <1>11 DEF OutcomeKept
  <2> QED BY <1>1, <1>6, <2>1 DEF RunKept, Early, Late
<1> QED BY <1>5, <1>12 DEF LayersInv, FuseAndProject

\* What is replayed is what was recorded, unless a disabled layer merged in
\* another mode than the one its configuration names.
LEMMA RecordKeeps ==
  ASSUME LayersAssumption, LayersInv, Record
  PROVE  LayersInv'
<1>1. /\ layerRun.stage = "journal" /\ IsRun(layerRun) /\ TeamKept(layerRun.team)
      /\ RiskKept(layerRun.risk, environment) /\ StrategyKept(layerRun.strategy)
      /\ layerRun.touched \subseteq Touchable(layerRun.team) /\ OutcomeKept(layerRun, environment)
  BY DEF Record, LayersInv, RunKept, Early, Late
<1>2. PICK merge : merge = Merge(layerRun.risk.directive, environment, layerRun.risk.mode)
  OBVIOUS
<1>3. PICK x \in layerRun.outcome :
        /\ layerRun.outcome = {x}
        /\ IsOutcome(x, environment, MergeOf(layerRun.risk, environment),
                     layerRun.strategy.directive, x.market)
  BY <1>1 DEF OutcomeKept
<1>4. PICK same : same = (Outcome(environment, merge, layerRun.strategy.directive, x.market) = x)
  OBVIOUS
<1>5. layerRun' = [layerRun EXCEPT !.stage = "complete", !.replayed = same]
  <2>1. (CHOOSE y \in layerRun.outcome : TRUE) = x
    BY <1>3
  <2> QED BY <1>2, <1>4, <2>1 DEF Record
<1>6. same \/ (~layerRun.risk.on /\ layerRun.risk.mode = "advisory")
  <2>1. CASE layerRun.risk.on \/ layerRun.risk.mode = "enforced"
    <3>1. merge = MergeOf(layerRun.risk, environment)
      BY <1>2, <2>1 DEF MergeOf
    <3> QED BY <1>3, <1>4, <3>1 DEF IsOutcome
  <2>2. layerRun.risk.mode \in {"advisory", "enforced"}
    BY <1>1 DEF RiskKept
  <2> QED BY <2>1, <2>2
<1>7. PICK run : run = layerRun'
  OBVIOUS
<1>8. /\ run.stage = "complete" /\ run.team = layerRun.team /\ run.risk = layerRun.risk
      /\ run.outcome = layerRun.outcome /\ run.strategy = layerRun.strategy
      /\ run.touched = layerRun.touched /\ run.replayed = same /\ IsRun(run)
  BY <1>1, <1>5, <1>7 DEF IsRun, Stages, Late
<1>9. OutcomeKept(run, environment)
  BY <1>1, <1>8 DEF OutcomeKept
<1>10. RunKept(run, environment)
  BY <1>1, <1>6, <1>8, <1>9 DEF RunKept, Early, Late
<1> QED BY <1>7, <1>10 DEF LayersInv, Record

\* Directives are carried over whole.
LEMMA CloseKeeps ==
  ASSUME LayersInv, Close
  PROVE  LayersInv'
<1>1. RiskKept(layerRun.risk, environment) /\ StrategyKept(layerRun.strategy)
  BY DEF Close, LayersInv, RunKept, Early
<1>2. PICK c : c = [risk |-> layerRun.risk.directive, strategy |-> layerRun.strategy.directive]
  OBVIOUS
<1>3. CarriedKept(c)
  BY <1>1, <1>2 DEF CarriedKept, RiskKept, StrategyKept
<1> QED BY <1>2, <1>3, IdleKept DEF LayersInv, Close


-----------------------------------------------------------------------------
(***************************************************************************)
(* What the invariant gives.                                               *)
(***************************************************************************)

\* The outcome of a run, and the layers it is made of.
LEMMA OutcomeOf ==
  ASSUME LayersInv, NEW x \in layerRun.outcome
  PROVE  /\ RiskKept(layerRun.risk, environment) /\ StrategyKept(layerRun.strategy)
         /\ IsOutcome(x, environment, MergeOf(layerRun.risk, environment),
                      layerRun.strategy.directive, x.market)
<1>1. layerRun.stage \in Late
  BY DEF LayersInv, RunKept
<1>2. OutcomeKept(layerRun, environment)
  BY <1>1 DEF LayersInv, RunKept
<1>3. layerRun.stage \notin Early
  BY <1>1 DEF Early, Late
<1> QED BY <1>2, <1>3 DEF LayersInv, RunKept, OutcomeKept

\* Directives only narrow the policy.
LEMMA TightenedHolds ==
  ASSUME LayersInv
  PROVE  OnlyTightened
<1>1. ASSUME NEW x \in layerRun.outcome PROVE Tightened(x.fusion.config, environment)
  BY OutcomeOf, OutcomeTightened
<1> QED BY <1>1 DEF OnlyTightened, Tightened

\* An enforced committee is heard.
LEMMA CommitteeHolds ==
  ASSUME LayersInv
  PROVE  CommitteeHeard
<1> SUFFICES ASSUME NEW x \in layerRun.outcome, layerRun.risk.mode = "enforced",
                    NEW d \in layerRun.risk.members
             PROVE  LET c == x.fusion.config
                    IN  /\ c.cashFloor >= Most(d.cash, 100 - d.budget)
                        /\ c.maxAssetWeight <= d.asset /\ c.maxTurnover <= d.turnover
                        /\ \A m \in Markets \cap DOMAIN d.markets :
                             c.maxMarketWeight[m] <= d.markets[m]
                        /\ x.fusion.open => d.open
  BY DEF CommitteeHeard
<1>1. PICK merge : merge = MergeOf(layerRun.risk, environment)
  OBVIOUS
<1>2. /\ RiskKept(layerRun.risk, environment)
      /\ IsOutcome(x, environment, merge, layerRun.strategy.directive, x.market)
  BY <1>1, OutcomeOf
<1>3. layerRun.risk.on /\ Manager(d)
  BY <1>2 DEF RiskKept
<1>4. PICK f \in layerRun.risk.directive : Heard(f, d)
  BY <1>2 DEF RiskKept
<1>5. IsRisk(f) /\ IsRisk(merge.effective) /\ Heard(merge.effective, f)
  BY <1>1, <1>2, <1>3, <1>4, MergedIs DEF IsOutcome
<1>6. Heard(merge.effective, d)
  BY <1>3, <1>4, <1>5, HeardOn DEF Manager
<1> QED BY <1>2, <1>3, <1>6, OutcomeHears

\* Fallbacks add nothing, and what is closed is not opened.
LEMMA NothingAddedHolds ==
  ASSUME LayersAssumption, LayersInv
  PROVE  NothingAdded
<1> SUFFICES ASSUME NEW x \in layerRun.outcome
             PROVE  /\ \/ layerRun.risk.source = "fallback" /\ layerRun.risk.mode = "enforced"
                       \/ layerRun.strategy.source = "fallback"
                       => \A a \in Assets : x.projected.w[a] <= x.market.current[a]
                    /\ ~x.fusion.open =>
                         \A a \in Assets : x.market.current[a] = 0 => x.projected.w[a] = 0
  BY DEF NothingAdded
<1>1. PICK merge : merge = MergeOf(layerRun.risk, environment)
  OBVIOUS
<1>2. PICK p : p = layerRun.strategy.directive
  OBVIOUS
<1>3. /\ RiskKept(layerRun.risk, environment) /\ StrategyKept(layerRun.strategy)
      /\ IsOutcome(x, environment, merge, p, x.market)
  BY <1>1, <1>2, OutcomeOf
<1>4. ASSUME layerRun.risk.source = "fallback", layerRun.risk.mode = "enforced"
      PROVE  merge.effective.cash >= 100
  <2>1. layerRun.risk.on /\ StaticRisk \in layerRun.risk.directive
    BY <1>3, <1>4 DEF RiskKept
  <2>2. Heard(merge.effective, StaticRisk)
    BY <1>1, <1>3, <1>4, <2>1, MergedIs DEF IsOutcome
  <2>3. StaticRisk.cash = 100
    BY DEF StaticRisk
  <2> QED BY <2>2, <2>3 DEF Heard
<1>5. ASSUME layerRun.strategy.source = "fallback"
      PROVE  \E s \in p : s.budget = 0
  <2>1. StaticStrategy \in p /\ StaticStrategy.budget = 0
    BY <1>2, <1>3, <1>5 DEF StrategyKept, StaticStrategy
  <2> QED BY <2>1
<1>6. ASSUME NEW a \in Assets
      PROVE  /\ merge.effective.cash >= 100 \/ (\E s \in p : s.budget = 0)
                  => x.projected.w[a] <= x.market.current[a]
             /\ ~x.fusion.open /\ x.market.current[a] = 0 => x.projected.w[a] = 0
  BY <1>3, OutcomeAddsNothing
<1> QED BY <1>4, <1>5, <1>6

\* The hard limits of the administrator survive the projection.
LEMMA HardLimitsHold ==
  ASSUME LayersAssumption, LayersInv
  PROVE  HardLimitsKept
<1> SUFFICES ASSUME NEW x \in layerRun.outcome, NEW hard, NEW now,
                    hard = [Context(x.fusion, x.market.current, x.market.tradable)
                              EXCEPT !.config = environment],
                    now = Start(x.market.current),
                    AssetsWithin(now, hard), MarketsWithin(now, hard, 0),
                    CashWithin(now, hard, 0)
             PROVE  LimitsMet(Start(x.projected.w), hard)
  BY DEF HardLimitsKept
<1>1. IsOutcome(x, environment, MergeOf(layerRun.risk, environment),
                layerRun.strategy.directive, x.market)
  BY OutcomeOf
<1> QED BY <1>1, OutcomeMeets

\* The types of the state.
LEMMA LayersTyped ==
  ASSUME LayersInv
  PROVE  LayersTypeOK
<1>1. environment \in Environments /\ directories \subseteq Ids
  BY DEF LayersInv
<1>2. layerRun.stage \in {"idle", "research", "risk", "strategy", "fusion", "journal", "complete"}
  <2>1. IsRun(layerRun)
    BY DEF LayersInv, RunKept
  <2> QED BY <2>1 DEF IsRun, Stages, Early, Late
<1>3. layerRun.risk.source \in Sources
  <2>1. NoRisk.source \in Sources
    BY DEF NoRisk, Sources
  <2> QED BY <2>1 DEF LayersInv, RunKept, RiskKept
<1>4. layerRun.strategy.source \in Sources
  BY DEF LayersInv, RunKept, StrategyKept
<1>5. ASSUME NEW x \in {carried.risk, carried.strategy, layerRun.outcome}
      PROVE  Cardinality(x) <= 1
  <2>1. x = {} \/ \E y : x = {y}
    <3>1. CarriedKept(carried)
      BY DEF LayersInv
    <3>2. layerRun.outcome = {} \/ OutcomeKept(layerRun, environment)
      BY DEF LayersInv, RunKept
    <3> QED BY <3>1, <3>2 DEF CarriedKept, OptionalRisk, OptionalStrategy, OutcomeKept
  <2>2. Cardinality(x) = 0 \/ Cardinality(x) = 1
    BY <2>1, FS_EmptySet, FS_Singleton
  <2> QED BY <2>2
<1> QED BY <1>1, <1>2, <1>3, <1>4, <1>5 DEF LayersTypeOK, Sources

\* Everything at once.
LEMMA LayersHold ==
  ASSUME LayersAssumption, LayersInv
  PROVE  LayersTypeOK /\ LayersSound
<1>1. ReplayAgrees
  BY DEF LayersInv, RunKept, ReplayAgrees
<1>2. ResearchBounded
  BY DEF LayersInv, RunKept, Touchable, ResearchBounded
<1> QED BY <1>1, <1>2, LayersTyped, TightenedHolds, CommitteeHolds, NothingAddedHolds,
           HardLimitsHold DEF LayersSound

\* Every step of the layers keeps the invariant.
LEMMA LayersStep ==
  ASSUME LayersAssumption, LayersInv, [LayersNext]_layerVars
  PROVE  LayersInv'
<1>1. CASE LayersNext
  BY <1>1, AdministrateKeeps, ConfigureKeeps, CallToolKeeps, EndResearchKeeps, AskRiskKeeps,
     AskStrategyKeeps, FuseKeeps, RecordKeeps, CloseKeeps, AbandonKeeps DEF LayersNext
<1>2. CASE UNCHANGED layerVars
  BY <1>2 DEF layerVars, LayersInv
<1> QED BY <1>1, <1>2

\* Whatever the layers are asked and answer, in whatever order policies change,
\* runs end in errors and directives are carried over, the state is well typed.
THEOREM LayersTypeCorrect ==
  ASSUME LayersAssumption
  PROVE  LayersSpec => []LayersTypeOK
<1>1. LayersInit => LayersInv
  BY LayersStart
<1>2. LayersInv /\ [LayersNext]_layerVars => LayersInv'
  BY LayersStep
<1>3. LayersInv => LayersTypeOK
  BY LayersTyped
<1> QED BY <1>1, <1>2, <1>3, PTL DEF LayersSpec

\* So are the layers sound: a directive only narrows the policy of the
\* administrator, whenever it was answered; an enforced committee is heard in
\* full; a fallback adds no exposure; a portfolio within the policy stays within
\* it; a complete run replays to what it recorded, but for a disabled layer under
\* another mode; and research touches what its mode may touch (agents/directives.py,
\* agents/layer_stack.py, agents/layer_workflow.py).
THEOREM LayersStaySound ==
  ASSUME LayersAssumption
  PROVE  LayersSpec => []LayersSound
<1>1. LayersInit => LayersInv
  BY LayersStart
<1>2. LayersInv /\ [LayersNext]_layerVars => LayersInv'
  BY LayersStep
<1>3. LayersInv => LayersSound
  BY LayersHold
<1> QED BY <1>1, <1>2, <1>3, PTL DEF LayersSpec
=============================================================================
