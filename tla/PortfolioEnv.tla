---------------------------- MODULE PortfolioEnv ----------------------------
(***************************************************************************)
(* One episode of the portfolio environment: a signal after one close is   *)
(* projected, executed at the next open and marked at the next close       *)
(* (environments/portfolio.py, execution.py, accounting.py).               *)
(*                                                                         *)
(* Money is counted in whole units; the unit is so small that a fee and a  *)
(* slippage are whole units too.  What the panel holds for a session is    *)
(* drawn when the session is reached: no code path reads it earlier.       *)
(***************************************************************************)
EXTENDS ConstraintProjection

CONSTANTS Configs,       \* the environment configurations
          Rows,          \* rows of the panel: open and close prices, tradability
          Actions,       \* actions of a policy, in fractions of ActionUnit
          TPlusOneMarkets,
          LotSize,       \* LotSize[a]
          CostRate,      \* <<fee, slippage>>, in percent of the notional
          InitialCash,
          Sessions       \* sessions of the partition after its first signal

Statuses == {"open", "closed", "suspended", "limit_up", "limit_down"}

\* an EnvironmentConfig; limits are percentages
Config == [allowShort : BOOLEAN, maxLeverage : Nat, maxAssetWeight : Nat,
           maxMarketWeight : [Markets -> Nat], cashFloor : Nat, maxTurnover : Nat,
           maxSteps : Nat \ {0}]

ASSUME EnvAssumption ==
  /\ Configs \subseteq Config
  /\ Rows \subseteq [open : [Assets -> Nat \ {0}], close : [Assets -> Nat \ {0}],
                     status : [Assets -> Statuses]]
  /\ Actions \subseteq [cash : Int, assets : [Assets -> Int]]
  /\ TPlusOneMarkets \subseteq Markets
  /\ LotSize \in [Assets -> Nat \ {0}]
  /\ CostRate \in (0..10) \X (0..10)
  /\ \A row \in Rows, a \in Assets, i \in 1..2 : (row.open[a] * CostRate[i]) % 100 = 0
  /\ InitialCash \in Nat \ {0} /\ Sessions \in Nat \ {0}

VARIABLES config,   \* EnvironmentConfig of the episode
          account,  \* AccountState
          episode,  \* [index, done, raised]
          report    \* the info dictionary of the last step

vars == <<config, account, episode, report>>

(***************************************************************************)
(* Rows of the panel and the account marked at their prices.               *)
(***************************************************************************)
Tradable(status) == {a \in Assets : status[a] \notin {"closed", "suspended"}}

Marked(acc, price) ==
  acc.cash + Total([a \in Assets |-> acc.shares[a] * price[a]], Assets)

\* Mutant: a reset forgets the peak.
PeaklessAccount == [cash |-> InitialCash, shares |-> [a \in Assets |-> 0],
                    last |-> InitialCash, peak |-> 0]
InitialAccount == [cash |-> InitialCash, shares |-> [a \in Assets |-> 0],
                   last |-> InitialCash, peak |-> InitialCash]

NoReport == [value |-> InitialCash, target |-> InitialCash, bought |-> FALSE,
             turnover |-> 0, costs |-> 0, mid |-> InitialCash]

Init ==
  /\ config \in Configs
  /\ account = InitialAccount
  /\ episode = [index |-> 0, done |-> FALSE, raised |-> FALSE]
  /\ report = NoReport

Reset ==
  /\ episode.index > 0
  /\ account' = InitialAccount
  /\ episode' = [index |-> 0, done |-> FALSE, raised |-> FALSE]
  /\ report' = NoReport
  /\ UNCHANGED config

(***************************************************************************)
(* Execution.  A quantity is signed; sells come before buys, and all buys  *)
(* are scaled to the cash above the target reserve.                        *)
(***************************************************************************)
FractionalLots(quantity, a) == quantity
WholeLots(quantity, a) ==
  Scaled(quantity, 1, LotSize[a]) * LotSize[a]

\* desired minus current money over the price, rounded to lots
Wanted(a, target, open) ==
  LET gap == target[a] - account.shares[a] * open[a]
  IN  Scaled(gap, 1, open[a] * LotSize[a]) * LotSize[a]

Rejected(a, target, open, status) ==
  LET gap == target[a] - account.shares[a] * open[a]
  IN  \/ status[a] \in {"closed", "suspended"}
      \/ status[a] = "limit_up" /\ gap > 0
      \/ status[a] = "limit_down" /\ gap < 0

\* shares held when the session begins are the sellable long shares
Sellable(a) == Most(account.shares[a], 0)

ShortCapped(a, quantity) ==
  IF ~config.allowShort /\ quantity < 0
  THEN -Least(-quantity, Most(account.shares[a], 0)) ELSE quantity

TPlusOneCapped(a, quantity) ==
  IF MarketOf[a] \in TPlusOneMarkets /\ account.shares[a] > 0 /\ quantity < 0
  THEN -Least(-quantity, Sellable(a)) ELSE quantity

Requested(target, open, status) ==
  [a \in Assets |-> IF Rejected(a, target, open, status) THEN 0
                    ELSE TPlusOneCapped(a, ShortCapped(a, Wanted(a, target, open)))]

Fee(notional) == (notional * CostRate[1]) \div 100
Slip(notional) == (notional * CostRate[2]) \div 100
Cost(notional) == Fee(notional) + Slip(notional)

Sells(request) == {a \in Assets : request[a] < 0}
Buys(request) == {a \in Assets : request[a] > 0}
Notional(request, open, a) == Size(request[a]) * open[a]

CashAfterSells(request, open) ==
  account.cash + Total([a \in Assets |-> Notional(request, open, a) - Cost(Notional(request, open, a))],
                       Sells(request))

\* what all requested buys take
Required(request, open) ==
  Total([a \in Assets |-> Notional(request, open, a) + Cost(Notional(request, open, a))],
        Buys(request))

\* Mutant: buys take the reserve too.
BoughtIntoReserve(request, open, targetCash) ==
  LET required == Required(request, open)
      available == Most(CashAfterSells(request, open), 0)
  IN  [a \in Buys(request) |->
         WholeLots(IF available >= required THEN request[a]
                   ELSE Scaled(request[a], available, required), a)]
\* the buys after scaling; none costs more than the scaled total
Bought(request, open, targetCash) ==
  LET required == Required(request, open)
      available == Most(CashAfterSells(request, open) - Most(targetCash, 0), 0)
  IN  [a \in Buys(request) |->
         WholeLots(IF available >= required THEN request[a]
                   ELSE Scaled(request[a], available, required), a)]

SpentWithoutCosts(bought, open) ==
  Total([a \in DOMAIN bought |-> bought[a] * open[a]], DOMAIN bought)
Spent(bought, open) ==
  Total([a \in DOMAIN bought |-> bought[a] * open[a] + Cost(bought[a] * open[a])], DOMAIN bought)

Executed(request, bought) ==
  [a \in Assets |-> IF a \in DOMAIN bought THEN bought[a] ELSE request[a]]

(***************************************************************************)
(* One step: projection at the open, execution, marking at the close.  A   *)
(* non-positive value raises: at the open before anything changed, at the  *)
(* close after the account was replaced.                                   *)
(***************************************************************************)
Opening(open, status) ==
  [config |-> config, value |-> Marked(account, open), mutable |-> Tradable(status),
   current |-> [a \in Assets |-> account.shares[a] * open[a]]]

StepRaises(open) ==
  /\ Marked(account, open) <= 0
  /\ episode' = [episode EXCEPT !.raised = TRUE]
  /\ UNCHANGED <<config, account, report>>

Traded(projected, open, close, status, value) ==
  LET target     == projected.w
      targetCash == value - Total(target, Assets)
      request    == Requested(target, open, status)
      bought     == Bought(request, open, targetCash)
      executed   == Executed(request, bought)
      after      == [cash   |-> CashAfterSells(request, open) - Spent(bought, open),
                     shares |-> [a \in Assets |-> account.shares[a] + executed[a]]]
      end        == Marked(after, close)
  IN  /\ account' = [cash |-> after.cash, shares |-> after.shares, last |-> end,
                     peak |-> Most(account.peak, end)]
      /\ episode' = [index |-> episode.index + 1,
                     done |-> end <= 0 \/ episode.index + 1 >= Sessions
                              \/ episode.index + 1 >= config.maxSteps,
                     raised |-> end <= 0]
      /\ report' = [value |-> value, target |-> targetCash,
                    bought |-> \E a \in DOMAIN bought : bought[a] > 0,
                    turnover |-> Total([a \in Assets |-> Notional(executed, open, a)], Assets),
                    costs |-> Total([a \in Assets |-> Cost(Notional(executed, open, a))], Assets),
                    mid |-> Marked(after, open)]
      /\ UNCHANGED config

Step(action, row) ==
  /\ ~episode.done /\ ~episode.raised
  /\ \/ StepRaises(row.open)
     \/ /\ Marked(account, row.open) > 0
        /\ Traded(Project(action, Opening(row.open, row.status)), row.open, row.close, row.status,
                  Marked(account, row.open))

Next == Reset \/ \E action \in Actions, row \in Rows : Step(action, row)

Spec == Init /\ [][Next]_vars

(***************************************************************************)
(* Type invariant.                                                         *)
(***************************************************************************)
TypeOK ==
  /\ config \in Configs
  /\ account.cash \in Int /\ account.shares \in [Assets -> Int]
  /\ account.last \in Int /\ account.peak \in Nat /\ account.peak >= account.last
  /\ episode \in [index : 0..Sessions, done : BOOLEAN, raised : BOOLEAN]
  /\ report.turnover \in Nat /\ report.costs \in Nat

\* A session that buys leaves at least the projected cash reserve, whatever
\* sells were refused: buys are scaled to the cash above it (execution.py:193).
\* The per-order check of execution.py:217 can therefore never refuse a buy.
ReserveKept == report.bought => account.cash >= Most(report.target, 0)

\* A long-only account never owes cash or shares and never loses its whole
\* value, so that no step of a long-only episode raises (accounting.py:79).
LongOnlySolvent ==
  ~config.allowShort =>
    /\ ~episode.raised /\ account.cash >= 0 /\ account.last > 0
    /\ \A a \in Assets : account.shares[a] >= 0

\* After any number of partial sales, T+1 caps and scaled buys every position
\* is still a whole number of lots.
WholeLotsHeld == \A a \in Assets : account.shares[a] % LotSize[a] = 0

\* What a session really trades stays inside the turnover limit of the
\* projection: rounding and rejection never enlarge an order.
TurnoverHeld == 100 * report.turnover <= config.maxTurnover * report.value

\* Value at the open is lost to fees and slippage only (execution.py:233).
Reconciled == report.mid = report.value - report.costs

\* The account after any sequence of sessions.
AccountSound == ReserveKept /\ LongOnlySolvent /\ WholeLotsHeld /\ TurnoverHeld /\ Reconciled

\* In every reachable account, whatever the action and the session: where the
\* current portfolio meets a limit so does the projected one, or the limit is
\* reported as violated by frozen positions.  The turnover limit, applied
\* last, may only leave a violation that price moves had already made.
LimitsKept ==
  ~episode.done => \A action \in Actions, row \in Rows :
    Marked(account, row.open) > 0 =>
      LET c == Opening(row.open, row.status)
          r == Project(action, c)
          now == [r EXCEPT !.w = c.current]
      IN  /\ AssetsWithin(now, c) => AssetsWithin(r, c)
          /\ MarketsWithin(now, c, 0) => MarketsWithin(r, c, Rounding)
          /\ CashWithin(now, c, 0) => CashWithin(r, c, Rounding)

\* The docstring of ConstraintProjector.project: the result obeys every
\* resolvable hard limit, so a limit that is not obeyed is reported.
LimitsReported ==
  \A action \in Actions, row \in Rows :
    ~episode.done /\ Marked(account, row.open) > 0 =>
      LET c == Opening(row.open, row.status)
      IN  LimitsMet(Project(action, c), c)

=============================================================================
