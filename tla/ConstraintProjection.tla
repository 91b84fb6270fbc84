------------------------ MODULE ConstraintProjection ------------------------
(***************************************************************************)
(* Raw action cleaning and the fixed sequence of portfolio rules           *)
(* (environments/projection.py, environments/rules.py).                    *)
(*                                                                         *)
(* A weight is kept multiplied by the pretrade value of the account, so a  *)
(* portfolio is a function from assets to whole units of money; the cash   *)
(* weight is what remains.  Limits of the configuration are percentages.   *)
(* A division rounds toward zero where the code rounds to 53 bits.         *)
(***************************************************************************)
EXTENDS Integers, FiniteSets, FiniteSetsExt

CONSTANTS Assets,      \* the assets of the panel
          Markets,     \* the markets they are listed on
          MarketOf,    \* MarketOf[a], the market of asset a
          ActionUnit   \* an action component of 1.0; actions are whole fractions of it

ASSUME ProjectionAssumption ==
  /\ IsFiniteSet(Assets) /\ Assets # {}
  /\ MarketOf \in [Assets -> Markets]
  /\ ActionUnit \in Nat \ {0}

Size(x) == IF x < 0 THEN -x ELSE x
Least(x, y) == IF x < y THEN x ELSE y
Most(x, y) == IF x < y THEN y ELSE x

\* x * num / den, rounded toward zero; den > 0, num >= 0
Scaled(x, num, den) == IF x < 0 THEN -((-x * num) \div den) ELSE (x * num) \div den

Total(w, S) == MapThenSumSet(LAMBDA a : w[a], S)
Gross(w, S) == Total([a \in S |-> Size(w[a])], S)

(***************************************************************************)
(* The context c of a projection: the configuration, the pretrade value,   *)
(* the current portfolio and the assets that execution may change.  A      *)
(* partial result r: the portfolio, the rules that clipped it and the      *)
(* limits that only frozen positions violate.                              *)
(***************************************************************************)
Limit(percent, c) == (percent * c.value) \div 100
Frozen(c) == Assets \ c.mutable
Listed(m) == {a \in Assets : MarketOf[a] = m}
MarketLimit(m, c) == Limit(c.config.maxMarketWeight[m], c)

Clip(r, w, rule) ==
  [w |-> w, reasons |-> r.reasons \cup {rule}, unresolved |-> r.unresolved]
Report(r, violations) == [r EXCEPT !.unresolved = @ \cup violations]

\* an action after NaN and infinities were replaced and values clipped
Normalize(action, c) ==
  IF c.config.allowShort
  THEN [a \in Assets |-> Scaled(action.assets[a], c.value, ActionUnit)]
  ELSE LET positive == [a \in Assets |-> Most(action.assets[a], 0)]
           total == Most(action.cash, 0) + Total(positive, Assets)
       IN  [a \in Assets |-> IF total = 0 THEN 0 ELSE Scaled(positive[a], c.value, total)]

TradableMask(r, c) ==
  IF \E a \in Frozen(c) : r.w[a] # c.current[a]
  THEN Clip(r, [a \in Assets |-> IF a \in c.mutable THEN r.w[a] ELSE c.current[a]],
            "tradable_mask")
  ELSE r

LongOnly(r, c) ==
  IF ~c.config.allowShort /\ \E a \in c.mutable : r.w[a] < 0
  THEN Clip(r, [a \in Assets |-> IF a \in c.mutable THEN Most(r.w[a], 0) ELSE r.w[a]],
            "long_only")
  ELSE r

MaxAssetWeight(r, c) ==
  LET cap == Limit(c.config.maxAssetWeight, c)
      clipped == [a \in Assets |-> IF a \in c.mutable
                                   THEN Most(-cap, Least(cap, r.w[a])) ELSE r.w[a]]
      checked == IF clipped = r.w THEN r ELSE Clip(r, clipped, "max_asset_weight")
  IN  Report(checked, {<<"max_asset_weight", a>> :
                         a \in {b \in Frozen(c) : Size(r.w[b]) > cap}})

\* the assets S share an exposure of at most cap; the frozen ones use theirs first
ScaleInto(r, S, cap, rule, c) ==
  LET frozen  == Gross(r.w, S \ c.mutable)
      mutable == Gross(r.w, S \cap c.mutable)
      available == Most(cap - frozen, 0)
      scaled == [a \in Assets |-> IF a \in S \cap c.mutable
                                  THEN Scaled(r.w[a], available, mutable) ELSE r.w[a]]
      checked == IF mutable > available THEN Clip(r, scaled, rule[1]) ELSE r
  IN  Report(checked, IF frozen > cap THEN {rule} ELSE {})

\* the loop over the markets: each turn changes the assets of its market only
MaxMarketWeight(r, c) ==
  LET turn == [m \in Markets |->
                 ScaleInto(r, Listed(m), MarketLimit(m, c), <<"max_market_weight", m>>, c)]
  IN  [w          |-> [a \in Assets |-> turn[MarketOf[a]].w[a]],
       reasons    |-> UNION {turn[m].reasons : m \in Markets},
       unresolved |-> UNION {turn[m].unresolved : m \in Markets}]

Leverage(r, c) ==
  ScaleInto(r, Assets, Limit(c.config.maxLeverage, c), <<"leverage", "all">>, c)

\* Mutant: the reserve is taken out of the mutable assets only once cash is negative
CashAboveZero(r, c) ==
  IF Total(r.w, Assets) <= c.value THEN r
  ELSE Clip(r, [a \in Assets |-> IF a \in c.mutable THEN 0 ELSE r.w[a]], "cash_floor")
CashFloor(r, c) ==
  LET excess == Limit(c.config.cashFloor, c) - (c.value - Total(r.w, Assets))
      long == {a \in c.mutable : r.w[a] > 0}
      available == Total(r.w, long)
      kept == Most(available - excess, 0)
      reduced == [a \in Assets |-> IF a \in long THEN Scaled(r.w[a], kept, available) ELSE r.w[a]]
  IN  CASE excess <= 0 -> r
        [] excess > 0 /\ available <= excess ->
             Report(Clip(r, [a \in Assets |-> IF a \in long THEN 0 ELSE r.w[a]], "cash_floor"),
                    {<<"cash_floor", "all">>})
        [] OTHER -> Clip(r, reduced, "cash_floor")

Change(w, c) == [a \in Assets |-> w[a] - c.current[a]]
HalfTurnover(w, c) == Gross(Change(w, c), c.mutable) \div 2
Turnover(w, c) == Gross(Change(w, c), c.mutable)

TurnoverLimit(r, c) ==
  LET turnover == Turnover(r.w, c)
      limit == Limit(c.config.maxTurnover, c)
      nearer == [a \in Assets |->
                   IF a \in c.mutable
                   THEN c.current[a] + Scaled(r.w[a] - c.current[a], limit, turnover)
                   ELSE r.w[a]]
  IN  IF turnover > limit THEN Clip(r, nearer, "turnover_limit") ELSE r

Start(w) == [w |-> w, reasons |-> {}, unresolved |-> {}]

Project(action, c) ==
  LET frozen  == TradableMask(Start(Normalize(action, c)), c)
      bounded == MaxMarketWeight(MaxAssetWeight(LongOnly(frozen, c), c), c)
  IN  TurnoverLimit(CashFloor(Leverage(bounded, c), c), c)

(***************************************************************************)
(* What a projection promises.                                             *)
(***************************************************************************)
\* sums of rounded amounts may be off by one unit per asset
Rounding == Cardinality(Assets)

AssetsWithin(r, c) ==
  \A a \in Assets : \/ Size(r.w[a]) <= Limit(c.config.maxAssetWeight, c)
                    \/ <<"max_asset_weight", a>> \in r.unresolved

MarketsWithin(r, c, slack) ==
  \A m \in Markets :
    \/ Gross(r.w, Listed(m)) <= MarketLimit(m, c) + slack
    \/ <<"max_market_weight", m>> \in r.unresolved

CashWithin(r, c, slack) ==
  \/ c.value - Total(r.w, Assets) >= Limit(c.config.cashFloor, c) - slack
  \/ <<"cash_floor", "all">> \in r.unresolved

LimitsMet(r, c) ==
  AssetsWithin(r, c) /\ MarketsWithin(r, c, Rounding) /\ CashWithin(r, c, Rounding)

=============================================================================
