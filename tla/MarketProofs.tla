---------------------------- MODULE MarketProofs ----------------------------
(***************************************************************************)
(* Theorems about Market and its parts: the environment, for any assets,   *)
(* markets, lots, prices and limits, any sequence of sessions and any      *)
(* actions of a policy; the panel of prices that an episode is given; what *)
(* ends a trial early, what searchers keep, what a trial scores; and all   *)
(* of them and the layers beside each other.                               *)
(*                                                                         *)
(* The argument: every rounding goes toward zero, so that an order is never *)
(* larger than the change of weight it stands for, and buys never cost     *)
(* more than the cash they were scaled to; costs are a part of what is     *)
(* traded, so that a sale never takes cash away.  What the projection of   *)
(* an action keeps is in ProjectionProofs, and the layers of agents are in *)
(* AgentLayersProofs.  The other sections give their arguments themselves. *)
(***************************************************************************)
EXTENDS Market, AgentLayersProofs, SequenceTheorems, FunctionTheorems, WellFoundedInduction

-----------------------------------------------------------------------------
(***************************************************************************)
(* Orders, lots and costs.                                                 *)
(***************************************************************************)

\* Prices of a session, at which costs are whole units.
Priced(open) ==
  /\ open \in [Assets -> Nat \ {0}]
  /\ \A a \in Assets, i \in 1..2 : (open[a] * CostRate[i]) % 100 = 0

\* A whole number of lots.
Lots(x, a) == \E k \in Int : x = k * LotSize[a]

\* That is what the remainder says.
LEMMA LotsAre ==
  ASSUME NEW a \in Assets, NEW x \in Int
  PROVE  Lots(x, a) <=> x % LotSize[a] = 0
<1> DEFINE L == LotSize[a]
           e == x \div L
           m == x % L
<1>1. L \in Nat \ {0}
  BY EnvAssumption
<1> HIDE DEF L
<1>2. e \in Int /\ m \in Int /\ x = L * e + m /\ 0 <= m /\ m < L
  BY <1>1
<1> HIDE DEF e, m
<1>3. ASSUME NEW k \in Int, x = k * L PROVE m = 0
  <2> DEFINE d == k - e
  <2>1. d \in Int /\ L * d = k * L - L * e
    BY <1>1, <1>2
  <2>2. L * d = m
    <3> HIDE DEF d
    <3>1. k * L \in Int /\ L * e \in Int
      BY <1>1, <1>2
    <3> QED BY <1>2, <1>3, <2>1, <3>1
  <2> HIDE DEF d
  <2>3. d <= 0 \/ L * d >= L
    BY <1>1, <2>1
  <2>4. d < 0 => L * d < 0
    BY <1>1, <2>1
  <2>5. d = 0 => L * d = 0
    BY <1>1
  <2> QED BY <1>1, <1>2, <2>1, <2>2, <2>3, <2>4, <2>5
<1>4. m = 0 => x = e * L
  BY <1>1, <1>2
<1> QED BY <1>2, <1>3, <1>4 DEF Lots, L, m

\* Sums and negatives of whole lots are whole lots.
LEMMA LotsAdd ==
  ASSUME NEW a \in Assets, NEW x \in Int, NEW y \in Int, Lots(x, a), Lots(y, a)
  PROVE  Lots(x + y, a) /\ Lots(-x, a) /\ Lots(0, a)
<1>1. LotSize[a] \in Nat \ {0}
  BY EnvAssumption
<1>2. PICK j \in Int : x = j * LotSize[a]
  BY DEF Lots
<1>3. PICK k \in Int : y = k * LotSize[a]
  BY DEF Lots
<1>4. x + y = (j + k) * LotSize[a] /\ -x = (-j) * LotSize[a] /\ 0 = 0 * LotSize[a]
  BY <1>1, <1>2, <1>3
<1>5. j + k \in Int /\ -j \in Int /\ 0 \in Int
  OBVIOUS
<1> QED BY <1>4, <1>5 DEF Lots

\* Rounding to whole lots never enlarges a quantity.
LEMMA WholeLotsIs ==
  ASSUME NEW a \in Assets, NEW x \in Int
  PROVE  /\ WholeLots(x, a) \in Int /\ Lots(WholeLots(x, a), a)
         /\ Size(WholeLots(x, a)) <= Size(x)
         /\ x >= 0 => WholeLots(x, a) >= 0
<1> DEFINE L == LotSize[a]
           z == Scaled(x, 1, L)
<1>1. L \in Nat \ {0}
  BY EnvAssumption
<1>2. WholeLots(x, a) = z * L
  BY DEF WholeLots
<1> HIDE DEF L
<1>3. z \in Int /\ (x >= 0 => z >= 0) /\ L * Size(z) <= Size(x) * 1
  BY <1>1, ScaledIs
<1> HIDE DEF z
<1>4. z * L \in Int /\ Size(z * L) = L * Size(z) /\ (z >= 0 => z * L >= 0)
  <2>1. CASE z >= 0
    <3>1. z * L \in Nat /\ L * z = z * L
      BY <1>1, <1>3, <2>1
    <3> QED BY <1>3, <2>1, <3>1 DEF Size
  <2>2. CASE z < 0
    <3>1. (-z) * L \in Nat \ {0} /\ z * L = -((-z) * L) /\ L * (-z) = (-z) * L
      BY <1>1, <1>3, <2>2
    <3> QED BY <1>3, <2>2, <3>1 DEF Size
  <2> QED BY <1>3, <2>1, <2>2
<1>5. Size(x) * 1 = Size(x)
  BY DEF Size
<1> QED BY <1>2, <1>3, <1>4, <1>5 DEF Lots, L

\* The costs of a quantity are the costs of one times the quantity, and far less
\* than its price.
LEMMA CostIs ==
  ASSUME NEW open, Priced(open), NEW a \in Assets, NEW n \in Nat
  PROVE  /\ Cost(open[a]) \in Nat /\ Cost(open[a]) < open[a] /\ open[a] \in Nat \ {0}
         /\ Cost(n * open[a]) = n * Cost(open[a])
<1> DEFINE o == open[a]
<1>1. o \in Nat \ {0}
  BY DEF Priced
<1>2. ASSUME NEW rate \in 0..10, (o * rate) % 100 = 0
      PROVE  /\ (o * rate) \div 100 \in Nat
             /\ 10 * ((o * rate) \div 100) <= o
             /\ ((n * o) * rate) \div 100 = n * ((o * rate) \div 100)
  <2> HIDE DEF o
  <2> DEFINE k == (o * rate) \div 100
  <2>1. o * rate \in Nat /\ o * rate <= 10 * o
    <3>1. rate \in Nat /\ rate <= 10 /\ o \in Nat
      BY <1>1
    <3>2. o * rate <= o * 10
      BY <3>1, TimesAtMost
    <3> QED BY <3>1, <3>2
  <2>2. k \in Nat /\ o * rate = 100 * k
    BY <1>2, <2>1
  <2> HIDE DEF k
  <2>3. (n * o) * rate = 100 * (n * k)
    <3>1. rate \in Nat
      OBVIOUS
    <3>2. (n * o) * rate = n * (o * rate)
      BY <1>1, <3>1
    <3>3. n * (100 * k) = 100 * (n * k)
      BY <2>2
    <3> QED BY <2>2, <3>2, <3>3
  <2>4. (100 * (n * k)) \div 100 = n * k
    <3>1. n * k \in Nat
      BY <2>2
    <3> QED BY <3>1
  <2>5. 10 * k <= o
    BY <1>1, <2>1, <2>2
  <2> QED BY <2>2, <2>3, <2>4, <2>5 DEF k
<1>3. CostRate[1] \in 0..10 /\ CostRate[2] \in 0..10
  BY EnvAssumption
<1>4. (o * CostRate[1]) % 100 = 0 /\ (o * CostRate[2]) % 100 = 0
  BY DEF Priced
<1> DEFINE f == Fee(o)
           s == Slip(o)
<1>5. /\ f \in Nat /\ s \in Nat /\ 10 * f <= o /\ 10 * s <= o
      /\ Fee(n * o) = n * f /\ Slip(n * o) = n * s
  BY <1>2, <1>3, <1>4 DEF Fee, Slip
<1>6. Cost(o) = f + s /\ Cost(n * o) = Fee(n * o) + Slip(n * o)
  BY DEF Cost
<1> HIDE DEF o, f, s
<1>7. n * (f + s) = n * f + n * s
  BY <1>5
<1>8. Cost(o) \in Nat /\ Cost(o) < o /\ Cost(n * o) = n * Cost(o)
  BY <1>1, <1>5, <1>6, <1>7
<1> QED BY <1>1, <1>8 DEF o

\* What an order x for asset a may be: no larger than the money that the asset
\* lacks or has too much.
Ordered(x, a, gap, open) ==
  /\ x \in Int /\ Lots(x, a)
  /\ Size(x) * open[a] <= Size(gap)

\* The order before it is capped.
LEMMA WantedIs ==
  ASSUME NEW open, Priced(open), NEW a \in Assets, NEW target \in Portfolio,
         account.shares[a] \in Int
  PROVE  Ordered(Wanted(a, target, open), a, target[a] - account.shares[a] * open[a], open)
<1> DEFINE L == LotSize[a]
           o == open[a]
           gap == target[a] - account.shares[a] * open[a]
           z == Scaled(gap, 1, o * L)
<1>1. L \in Nat \ {0} /\ o \in Nat \ {0} /\ gap \in Int
  BY EnvAssumption DEF Priced, Portfolio
<1>2. Wanted(a, target, open) = z * L
  BY DEF Wanted
<1> HIDE DEF L, o, gap
<1>3. o * L \in Nat \ {0}
  BY <1>1
<1>4. z \in Int /\ (o * L) * Size(z) <= Size(gap) * 1 /\ Size(gap) \in Nat
  <2>1. Size(gap) \in Nat
    BY <1>1 DEF Size
  <2>2. z \in Int /\ (o * L) * Size(z) <= Size(gap) * 1
    <3> DEFINE d == o * L
    <3> HIDE DEF d
    <3>1. d \in Nat \ {0}
      BY <1>3 DEF d
    <3>2. Scaled(gap, 1, d) \in Int /\ d * Size(Scaled(gap, 1, d)) <= Size(gap) * 1
      BY <1>1, <3>1, ScaledIs
    <3> QED BY <3>2 DEF d
  <2> QED BY <2>1, <2>2
<1> HIDE DEF z
<1>5. z * L \in Int /\ Size(z * L) * o = (o * L) * Size(z)
  <2> DEFINE p == Size(z)
  <2>1. p \in Nat /\ (z = p \/ z = -p)
    BY <1>4 DEF Size
  <2>2. (p * L) * o = (o * L) * p /\ p * L \in Nat /\ (-p) * L = -(p * L)
    BY <1>1, <2>1
  <2>3. Size(z * L) = p * L /\ z * L \in Int
    <3> HIDE DEF p
    <3> QED BY <2>1, <2>2 DEF Size
  <2> QED BY <2>2, <2>3
<1>6. Lots(z * L, a)
  BY <1>4 DEF Lots, L
<1> QED BY <1>2, <1>4, <1>5, <1>6 DEF Ordered, o, gap

\* An order after caps, as long as it was not turned round: it is as sound as
\* before.
LEMMA CappedIs ==
  ASSUME NEW open, Priced(open), NEW a \in Assets, NEW gap \in Int, NEW x, Ordered(x, a, gap, open),
         NEW y \in Int, Lots(y, a), Size(y) <= Size(x)
  PROVE  Ordered(y, a, gap, open)
<1>1. open[a] \in Nat /\ x \in Int /\ Size(x) * open[a] <= Size(gap)
  BY DEF Ordered, Priced
<1>2. Size(y) \in Nat /\ Size(x) \in Nat /\ Size(gap) \in Nat
  BY <1>1 DEF Size
<1>3. Size(y) * open[a] <= Size(x) * open[a]
  BY <1>1, <1>2, TimesAtMost
<1>4. Size(y) * open[a] \in Nat /\ Size(x) * open[a] \in Nat
  BY <1>1, <1>2
<1> QED BY <1>1, <1>2, <1>3, <1>4 DEF Ordered

\* A sale capped by a holding.
Capped(y, v, holding) ==
  /\ y \in Int /\ Size(y) <= Size(v) /\ (y = v \/ y = -holding \/ y = 0)
  /\ holding >= 0 => holding + y >= 0

\* Capping a sale by what is held, as the ban on short positions and T+1 do.
LEMMA SaleCapped ==
  ASSUME NEW v \in Int, v < 0, NEW holding \in Int
  PROVE  Capped(-Least(-v, Most(holding, 0)), v, holding)
<1> DEFINE y == -Least(-v, Most(holding, 0))
           top == Most(holding, 0)
<1>1. top \in Nat /\ ((top = holding /\ holding >= 0) \/ (top = 0 /\ holding < 0))
  BY DEF Most
<1>2. y = IF -v < top THEN v ELSE -top
  BY DEF Least
<1> HIDE DEF y, top
<1>3. /\ y \in Int /\ Size(y) <= Size(v) /\ (y = v \/ y = -holding \/ y = 0)
      /\ holding >= 0 => holding + y >= 0
  BY <1>1, <1>2 DEF Size
<1> QED BY <1>3 DEF Capped, y

\* The requested order: it is refused as a whole for an asset that cannot be
\* traded, and without short selling never sells more than is held.
Requests(x, a, gap, open, status) ==
  /\ Ordered(x, a, gap, open)
  /\ status[a] \in {"closed", "suspended"} => x = 0
  /\ ~config.allowShort /\ account.shares[a] >= 0 => account.shares[a] + x >= 0

\* What the execution requests of an asset is such an order.
LEMMA RequestedIs ==
  ASSUME NEW open, Priced(open), NEW status, NEW target \in Portfolio, NEW a \in Assets,
         account.shares[a] \in Int, Lots(account.shares[a], a)
  PROVE  Requests(Requested(target, open, status)[a], a,
                  target[a] - account.shares[a] * open[a], open, status)
<1> DEFINE s == account.shares[a]
           gap == target[a] - account.shares[a] * open[a]
           x == Wanted(a, target, open)
           y == ShortCapped(a, x)
           z == TPlusOneCapped(a, y)
           request == Requested(target, open, status)[a]
<1>1. request = IF Rejected(a, target, open, status) THEN 0 ELSE z
  BY DEF Requested
<1>2. Ordered(x, a, gap, open) /\ s \in Int /\ Lots(s, a) /\ gap \in Int
  BY WantedIs DEF Portfolio, Priced
<1>3. status[a] \in {"closed", "suspended"} => Rejected(a, target, open, status)
  BY DEF Rejected
<1> HIDE DEF gap, x, request
<1>4. x \in Int /\ Lots(x, a)
  BY <1>2 DEF Ordered
<1>5. y = IF ~config.allowShort /\ x < 0 THEN -Least(-x, Most(s, 0)) ELSE x
  BY DEF ShortCapped
<1>6. z = IF MarketOf[a] \in TPlusOneMarkets /\ s > 0 /\ y < 0
          THEN -Least(-y, Most(s, 0)) ELSE y
  BY DEF TPlusOneCapped, Sellable
<1> HIDE DEF s, y, z
<1>7. Lots(0, a) /\ Lots(-s, a)
  BY <1>2, LotsAdd
<1>8. ASSUME NEW v \in Int, Lots(v, a), NEW u, Capped(u, v, s)
      PROVE  u \in Int /\ Lots(u, a) /\ Size(u) <= Size(v) /\ (s >= 0 => s + u >= 0)
  BY <1>7, <1>8 DEF Capped
<1>9. /\ y \in Int /\ Lots(y, a) /\ Size(y) <= Size(x)
      /\ ~config.allowShort /\ s >= 0 => s + y >= 0
  <2>1. CASE ~config.allowShort /\ x < 0
    <3>1. Capped(y, x, s)
      BY <1>2, <1>4, <1>5, <2>1, SaleCapped
    <3> QED BY <1>4, <1>8, <3>1
  <2>2. CASE config.allowShort
    <3>1. y = x
      BY <1>5, <2>2
    <3> QED BY <1>4, <2>2, <3>1 DEF Size
  <2>3. CASE x >= 0
    <3>1. y = x
      BY <1>4, <1>5, <2>3
    <3> QED BY <1>2, <1>4, <2>3, <3>1 DEF Size
  <2> QED BY <1>4, <2>1, <2>2, <2>3
<1>10. /\ z \in Int /\ Lots(z, a) /\ Size(z) <= Size(y)
       /\ ~config.allowShort /\ s >= 0 => s + z >= 0
  <2>1. CASE MarketOf[a] \in TPlusOneMarkets /\ s > 0 /\ y < 0
    <3>1. Capped(z, y, s)
      BY <1>2, <1>6, <1>9, <2>1, SaleCapped
    <3> QED BY <1>8, <1>9, <3>1
  <2>2. CASE ~(MarketOf[a] \in TPlusOneMarkets /\ s > 0 /\ y < 0)
    <3>1. z = y
      BY <1>6, <2>2, Zenon
    <3>2. Size(y) <= Size(y)
      BY <1>9 DEF Size
    <3> QED BY <1>9, <3>1, <3>2
  <2> QED BY <2>1, <2>2
<1>11. Ordered(z, a, gap, open)
  <2>1. Size(z) <= Size(x)
    BY <1>4, <1>9, <1>10 DEF Size
  <2> QED BY <1>2, <1>10, <2>1, CappedIs
<1>12. Ordered(0, a, gap, open)
  <2>1. Size(0) <= Size(x)
    BY <1>4 DEF Size
  <2> QED BY <1>2, <1>7, <2>1, CappedIs
<1>13. Requests(request, a, gap, open, status)
  <2>1. CASE Rejected(a, target, open, status)
    BY <1>1, <1>2, <1>12, <2>1 DEF Requests, s
  <2>2. CASE ~Rejected(a, target, open, status)
    BY <1>1, <1>3, <1>10, <1>11, <2>2 DEF Requests, s
  <2> QED BY <2>1, <2>2
<1> QED BY <1>13 DEF request, gap

-----------------------------------------------------------------------------
(***************************************************************************)
(* Buying: the orders are scaled to what may be spent.                     *)
(***************************************************************************)

\* What a share costs when it is bought.
Unit(open, a) == open[a] + Cost(open[a])

\* A quantity costs that many units.
LEMMA UnitIs ==
  ASSUME NEW open, Priced(open), NEW a \in Assets, NEW n \in Nat
  PROVE  /\ Unit(open, a) \in Nat \ {0}
         /\ n * open[a] + Cost(n * open[a]) = n * Unit(open, a)
<1>1. Cost(open[a]) \in Nat /\ open[a] \in Nat \ {0} /\ Cost(n * open[a]) = n * Cost(open[a])
  BY CostIs
<1> DEFINE o == open[a]
           k == Cost(open[a])
<1>2. n * (o + k) = n * o + n * k
  BY <1>1
<1> QED BY <1>1, <1>2 DEF Unit

\* The quantities b that are bought of a request, for no more than the budget.
Buying(b, request, open, budget) ==
  /\ DOMAIN b = Buys(request)
  /\ \A a \in Buys(request) : b[a] \in Nat /\ b[a] <= request[a] /\ Lots(b[a], a)
  /\ Spent(b, open) \in Nat /\ Spent(b, open) <= budget

\* Whatever is requested, what is bought fits the cash above the reserve.
LEMMA BoughtIs ==
  ASSUME NEW open, Priced(open), NEW request \in Portfolio, NEW targetCash \in Int,
         CashAfterSells(request, open) \in Int
  PROVE  Buying(Bought(request, open, targetCash), request, open,
                Most(CashAfterSells(request, open) - Most(targetCash, 0), 0))
<1> DEFINE B == Buys(request)
           required == Required(request, open)
           available == Most(CashAfterSells(request, open) - Most(targetCash, 0), 0)
           b == Bought(request, open, targetCash)
           asked == [a \in Assets |-> Notional(request, open, a) + Cost(Notional(request, open, a))]
           paid == [a \in B |-> b[a] * open[a] + Cost(b[a] * open[a])]
<1>1. B \in SUBSET Assets /\ IsFiniteSet(B) /\ \A a \in B : a \in Assets /\ request[a] \in Nat \ {0}
  BY FiniteAssets DEF Buys, Portfolio
<1>2. available \in Nat
  BY DEF Most
<1>3. b = [a \in B |-> WholeLots(IF available >= required THEN request[a]
                                 ELSE Scaled(request[a], available, required), a)]
  BY DEF Bought
<1>4. required = Added(asked, B)
  BY TotalIs DEF Required
<1>5. DOMAIN b = B
  BY <1>3
<1>6. Spent(b, open) = Added(paid, B)
  BY <1>5, TotalIs DEF Spent
<1>7. \A a \in B : /\ asked[a] = Notional(request, open, a) + Cost(Notional(request, open, a))
                   /\ paid[a] = b[a] * open[a] + Cost(b[a] * open[a])
  BY <1>1
<1> HIDE DEF B, required, available, b, asked, paid
<1>8. ASSUME NEW a \in B
      PROVE  asked[a] = request[a] * Unit(open, a) /\ Unit(open, a) \in Nat \ {0}
             /\ asked[a] \in Nat \ {0}
  <2>1. request[a] \in Nat \ {0} /\ a \in Assets
    BY <1>1
  <2>2. Notional(request, open, a) = request[a] * open[a]
    BY <2>1 DEF Notional, Size
  <2>3. asked[a] = request[a] * Unit(open, a) /\ Unit(open, a) \in Nat \ {0}
    BY <1>7, <2>1, <2>2, UnitIs
  <2>4. request[a] * Unit(open, a) \in Nat \ {0}
    BY <2>1, <2>3
  <2> QED BY <2>3, <2>4
<1>9. required \in Nat /\ \A a \in B : asked[a] <= required
  <2>1. \A a \in B : asked[a] \in Nat
    BY <1>8
  <2> QED BY <1>1, <1>4, <2>1, AddedNat
<1>10. ASSUME NEW a \in B
       PROVE  /\ b[a] \in Nat /\ b[a] <= request[a] /\ Lots(b[a], a)
              /\ available < required => required * b[a] <= available * request[a]
  <2>1. request[a] \in Nat \ {0} /\ a \in Assets /\ required \in Nat \ {0}
    BY <1>1, <1>8, <1>9
  <2>2. CASE available >= required
    <3>1. b[a] = WholeLots(request[a], a)
      BY <1>3, <2>2
    <3>2. /\ WholeLots(request[a], a) \in Int /\ Lots(WholeLots(request[a], a), a)
          /\ Size(WholeLots(request[a], a)) <= Size(request[a])
          /\ WholeLots(request[a], a) >= 0
      BY <2>1, WholeLotsIs
    <3> QED BY <1>2, <2>1, <2>2, <3>1, <3>2 DEF Size
  <2>3. CASE available < required
    <3> DEFINE y == Scaled(request[a], available, required)
    <3>1. b[a] = WholeLots(y, a)
      BY <1>2, <1>3, <1>9, <2>3
    <3>2. /\ y \in Int /\ y >= 0 /\ required * Size(y) <= Size(request[a]) * available
          /\ Size(y) <= Size(request[a])
      BY <1>2, <2>1, <2>3, ScaledIs
    <3> HIDE DEF y
    <3>3. /\ WholeLots(y, a) \in Int /\ Lots(WholeLots(y, a), a)
          /\ Size(WholeLots(y, a)) <= Size(y) /\ WholeLots(y, a) >= 0
      BY <2>1, <3>2, WholeLotsIs
    <3>4. b[a] \in Nat /\ b[a] <= y /\ y \in Nat /\ y <= request[a] /\ Lots(b[a], a)
          /\ required * y <= request[a] * available
      BY <2>1, <3>1, <3>2, <3>3 DEF Size
    <3>5. required * b[a] <= required * y /\ request[a] * available = available * request[a]
          /\ required * b[a] \in Nat /\ required * y \in Nat /\ available * request[a] \in Nat
      BY <1>2, <2>1, <3>4, TimesAtMost
    <3>6. required * b[a] <= available * request[a]
      BY <3>4, <3>5
    <3> QED BY <2>1, <3>4, <3>6
  <2> QED BY <1>2, <1>9, <2>2, <2>3
<1>11. ASSUME NEW a \in B
       PROVE  paid[a] = b[a] * Unit(open, a) /\ paid[a] \in Nat /\ paid[a] <= asked[a]
  <2>1. paid[a] = b[a] * Unit(open, a)
    BY <1>1, <1>7, <1>10, UnitIs
  <2>2. b[a] * Unit(open, a) <= request[a] * Unit(open, a) /\ b[a] * Unit(open, a) \in Nat
    BY <1>1, <1>8, <1>10, TimesAtMost
  <2> QED BY <1>8, <2>1, <2>2
<1>12. Added(paid, B) \in Nat
  BY <1>1, <1>11, AddedNat
<1>13. Added(paid, B) <= required
  <2>1. \A a \in B : paid[a] \in Int /\ asked[a] \in Int /\ paid[a] <= asked[a]
    BY <1>8, <1>11
  <2> QED BY <1>1, <1>4, <2>1, AddedAtMost
<1>14. Added(paid, B) <= available
  <2>1. CASE available >= required
    BY <1>2, <1>9, <1>12, <1>13, <2>1
  <2>2. CASE available < required
    <3> DEFINE lo == [a \in B |-> required * paid[a]]
               hi == [a \in B |-> available * asked[a]]
    <3>1. \A a \in B : lo[a] = required * paid[a] /\ hi[a] = available * asked[a]
      OBVIOUS
    <3> HIDE DEF lo, hi
    <3>2. ASSUME NEW a \in B
          PROVE  lo[a] \in Int /\ hi[a] \in Int /\ lo[a] <= hi[a]
      <4> DEFINE u == Unit(open, a)
                 p == required * b[a]
                 r == available * request[a]
      <4>1. u \in Nat /\ p \in Nat /\ r \in Nat /\ p <= r
        BY <1>1, <1>2, <1>8, <1>9, <1>10, <2>2
      <4>2. lo[a] = p * u /\ hi[a] = r * u
        <5>1. required \in Int /\ b[a] \in Int /\ u \in Int /\ available \in Int /\ request[a] \in Int
          BY <1>1, <1>2, <1>9, <1>10, <4>1
        <5>2. lo[a] = required * (b[a] * u) /\ hi[a] = available * (request[a] * u)
          BY <1>8, <1>11, <3>1
        <5> HIDE DEF u
        <5> QED BY <5>1, <5>2
      <4> HIDE DEF p, r, u
      <4>3. p * u <= r * u /\ p * u \in Int /\ r * u \in Int
        BY <4>1, TimesAtMost
      <4> QED BY <4>2, <4>3
    <3>3. Added(lo, B) <= Added(hi, B)
      BY <1>1, <3>2, AddedAtMost
    <3>4. Added(lo, B) = required * Added(paid, B)
      <4>1. \A a \in B : paid[a] \in Int /\ lo[a] = required * paid[a]
        BY <1>11, <3>1
      <4> QED BY <1>1, <1>9, <4>1, AddedTimes
    <3>5. Added(hi, B) = available * required
      <4>1. \A a \in B : asked[a] \in Int /\ hi[a] = available * asked[a]
        BY <1>8, <3>1
      <4> QED BY <1>1, <1>2, <1>4, <4>1, AddedTimes
    <3>6. required \in Nat \ {0} /\ available * required = required * available
      BY <1>2, <1>9, <2>2
    <3> QED BY <1>2, <1>12, <3>3, <3>4, <3>5, <3>6, Cancel
  <2> QED BY <1>2, <1>9, <2>1, <2>2
<1>15. Buying(b, request, open, available)
  BY <1>5, <1>6, <1>10, <1>12, <1>14 DEF Buying, B
<1> QED BY <1>15 DEF b, available

-----------------------------------------------------------------------------
(***************************************************************************)
(* What is executed, and what it does to cash and value.                   *)
(***************************************************************************)

\* The quantities e are the sells of the request, and no more than its buys.
Executes(e, b, request) ==
  /\ e \in Portfolio
  /\ \A a \in Assets : /\ request[a] > 0 => a \in Buys(request) /\ e[a] = b[a] /\ e[a] >= 0
                       /\ request[a] <= 0 => a \notin Buys(request) /\ e[a] = request[a]
                       /\ Size(e[a]) <= Size(request[a])

\* What is executed is the sells of the request and the scaled buys.
LEMMA ExecutedIs ==
  ASSUME NEW open, NEW request \in Portfolio, NEW b, NEW budget, Buying(b, request, open, budget)
  PROVE  Executes(Executed(request, b), b, request)
<1> DEFINE e == Executed(request, b)
<1>1. e = [a \in Assets |-> IF a \in Buys(request) THEN b[a] ELSE request[a]]
  BY DEF Executed, Buying
<1> HIDE DEF e
<1>2. ASSUME NEW a \in Assets
      PROVE  /\ e[a] \in Int
             /\ request[a] > 0 => a \in Buys(request) /\ e[a] = b[a] /\ e[a] >= 0
             /\ request[a] <= 0 => a \notin Buys(request) /\ e[a] = request[a]
             /\ Size(e[a]) <= Size(request[a])
  <2>1. request[a] \in Int
    BY DEF Portfolio
  <2>2. CASE request[a] > 0
    <3>1. a \in Buys(request)
      BY <2>2 DEF Buys
    <3>2. b[a] \in Nat /\ b[a] <= request[a] /\ e[a] = b[a]
      BY <1>1, <3>1 DEF Buying
    <3> QED BY <2>1, <2>2, <3>1, <3>2 DEF Size
  <2>3. CASE request[a] <= 0
    <3>1. a \notin Buys(request)
      BY <2>1, <2>3 DEF Buys
    <3>2. e[a] = request[a]
      BY <1>1, <3>1
    <3> QED BY <2>1, <2>3, <3>1, <3>2 DEF Size
  <2> QED BY <2>1, <2>2, <2>3
<1>3. e \in Portfolio
  BY <1>1, <1>2 DEF Portfolio
<1> QED BY <1>2, <1>3 DEF Executes, e

\* What a sale brings in, and what a purchase takes.
Proceeds(request, open) ==
  [a \in Assets |-> IF a \in Sells(request)
                    THEN Notional(request, open, a) - Cost(Notional(request, open, a)) ELSE 0]
Payments(b, request, open) ==
  [a \in Assets |-> IF a \in Buys(request)
                    THEN b[a] * open[a] + Cost(b[a] * open[a]) ELSE 0]

\* A sale never takes cash away: its costs are a part of its proceeds.
LEMMA CashIs ==
  ASSUME NEW open, Priced(open), NEW request \in Portfolio, account.cash \in Int
  PROVE  LET p == Proceeds(request, open)
         IN  /\ \A a \in Assets : p[a] \in Nat
             /\ CashAfterSells(request, open) = account.cash + Added(p, Assets)
             /\ Added(p, Assets) \in Nat
             /\ \A a \in Sells(request) : Added(p, Assets) > 0
<1> DEFINE p == Proceeds(request, open)
           w == [a \in Assets |-> Notional(request, open, a) - Cost(Notional(request, open, a))]
           S == Sells(request)
<1>1. S \in SUBSET Assets /\ IsFiniteSet(Assets) /\ \A a \in S : request[a] \in Int /\ request[a] < 0
  BY FiniteAssets DEF Sells, Portfolio
<1>2. CashAfterSells(request, open) = account.cash + Added(w, S)
  BY TotalIs DEF CashAfterSells
<1>3. \A a \in Assets : p[a] = IF a \in S THEN w[a] ELSE 0
  BY DEF Proceeds
<1>4. ASSUME NEW a \in S
      PROVE  w[a] \in Nat \ {0}
  <2> DEFINE n == Size(request[a])
  <2>1. n \in Nat \ {0} /\ a \in Assets
    BY <1>1 DEF Size
  <2>2. w[a] = n * open[a] - Cost(n * open[a])
    BY <2>1 DEF Notional
  <2> HIDE DEF n, w
  <2>3. /\ Cost(open[a]) \in Nat /\ Cost(open[a]) < open[a] /\ open[a] \in Nat \ {0}
        /\ Cost(n * open[a]) = n * Cost(open[a])
    BY <2>1, CostIs
  <2>4. n * open[a] - n * Cost(open[a]) = n * (open[a] - Cost(open[a]))
    BY <2>1, <2>3
  <2>5. open[a] - Cost(open[a]) \in Nat \ {0}
    BY <2>3
  <2>6. n * (open[a] - Cost(open[a])) \in Nat \ {0}
    BY <2>1, <2>5
  <2> QED BY <2>2, <2>3, <2>4, <2>6
<1> HIDE DEF p, w
<1>5. Added(w, S) = Added(p, Assets)
  <2>1. \A a \in S : w[a] \in Int
    BY <1>4
  <2> HIDE DEF S
  <2> QED BY <1>1, <1>3, <2>1, AddedPart
<1>6. \A a \in Assets : p[a] \in Nat
  BY <1>3, <1>4
<1>7. Added(p, Assets) \in Nat /\ \A a \in Assets : p[a] <= Added(p, Assets)
  BY <1>1, <1>6, AddedNat
<1>8. \A a \in S : Added(p, Assets) > 0
  BY <1>1, <1>3, <1>4, <1>7
<1> QED BY <1>2, <1>5, <1>6, <1>7, <1>8 DEF p

\* The sum of the payments is what is spent.
LEMMA SpentIs ==
  ASSUME NEW open, Priced(open), NEW request \in Portfolio, NEW b, NEW budget,
         Buying(b, request, open, budget)
  PROVE  LET p == Payments(b, request, open)
         IN  /\ \A a \in Assets : p[a] \in Nat
             /\ Spent(b, open) = Added(p, Assets)
<1> DEFINE p == Payments(b, request, open)
           B == Buys(request)
           paid == [a \in B |-> b[a] * open[a] + Cost(b[a] * open[a])]
<1>1. B \in SUBSET Assets /\ IsFiniteSet(Assets)
  BY FiniteAssets DEF Buys
<1>2. Spent(b, open) = Added(paid, B)
  BY TotalIs DEF Spent, Buying
<1>3. \A a \in Assets : p[a] = IF a \in B THEN paid[a] ELSE 0
  BY DEF Payments
<1>4. ASSUME NEW a \in B
      PROVE  paid[a] \in Nat
  <2>1. b[a] \in Nat /\ a \in Assets
    BY <1>1 DEF Buying
  <2>2. paid[a] = b[a] * Unit(open, a) /\ Unit(open, a) \in Nat
    BY <2>1, UnitIs
  <2> HIDE DEF paid
  <2> QED BY <2>1, <2>2
<1> HIDE DEF p, paid
<1>5. Added(paid, B) = Added(p, Assets)
  <2>1. \A a \in B : paid[a] \in Int
    BY <1>4
  <2> HIDE DEF B
  <2> QED BY <1>1, <1>3, <2>1, AddedPart
<1>6. \A a \in Assets : p[a] \in Nat
  BY <1>3, <1>4
<1> QED BY <1>2, <1>5, <1>6 DEF p

\* An account between two sessions.
AccountIs ==
  /\ config \in Config /\ account.cash \in Int /\ account.shares \in Portfolio
  /\ \A a \in Assets : Lots(account.shares[a], a)

\* Marking an account at prices.
LEMMA MarkedIs ==
  ASSUME NEW acc, acc.cash \in Int, acc.shares \in Portfolio, NEW price \in [Assets -> Nat \ {0}]
  PROVE  LET w == [a \in Assets |-> acc.shares[a] * price[a]]
         IN  w \in Portfolio /\ Marked(acc, price) = acc.cash + Added(w, Assets)
             /\ Marked(acc, price) \in Int
<1> DEFINE w == [a \in Assets |-> acc.shares[a] * price[a]]
<1>1. \A a \in Assets : acc.shares[a] * price[a] \in Int
  <2> SUFFICES ASSUME NEW a \in Assets PROVE acc.shares[a] * price[a] \in Int
    OBVIOUS
  <2>1. acc.shares[a] \in Int /\ price[a] \in Int
    BY DEF Portfolio
  <2> QED BY <2>1
<1>2. w \in Portfolio
  BY <1>1 DEF Portfolio
<1>3. Marked(acc, price) = acc.cash + Added(w, Assets)
  BY TotalIs DEF Marked
<1> HIDE DEF w
<1>4. IntsOn(w, Assets)
  BY <1>2 DEF IntsOn, Portfolio
<1>5. Added(w, Assets) \in Int
  BY <1>4, FiniteAssets, AddedElement
<1> QED BY <1>2, <1>3, <1>5 DEF w

\* What the projection of a step works on.
LEMMA OpeningIs ==
  ASSUME AccountIs, NEW open, Priced(open), NEW status, Marked(account, open) > 0
  PROVE  LET c == Opening(open, status)
         IN  /\ IsContext(c) /\ c.config = config /\ c.value = Marked(account, open)
             /\ c.mutable = Tradable(status)
             /\ \A a \in Assets : c.current[a] = account.shares[a] * open[a]
<1> DEFINE w == [a \in Assets |-> account.shares[a] * open[a]]
<1>1. w \in Portfolio /\ Marked(account, open) \in Int
  BY MarkedIs DEF AccountIs, Priced
<1>2. Opening(open, status)
        = [config |-> config, value |-> Marked(account, open), mutable |-> Tradable(status),
           current |-> w]
  BY DEF Opening
<1>3. Tradable(status) \in SUBSET Assets
  BY DEF Tradable
<1>4. \A a \in Assets : w[a] = account.shares[a] * open[a]
  OBVIOUS
<1>5. IsPolicy(config)
  BY DEF AccountIs, Config, IsPolicy
<1> HIDE DEF w
<1> QED BY <1>1, <1>2, <1>3, <1>4, <1>5 DEF IsContext

\* The value of what is executed, asset by asset.
Traded1(e, open) == [a \in Assets |-> Notional(e, open, a)]

\* No more is traded than the change of weights the projection allowed: an
\* order is never larger than the gap it closes, and nothing is traded in an
\* asset that cannot be.
LEMMA TurnoverIs ==
  ASSUME AccountIs, NEW open, Priced(open), NEW status, Marked(account, open) > 0,
         NEW target \in Portfolio, NEW request, request = Requested(target, open, status),
         NEW b, NEW e, Executes(e, b, request)
  PROVE  /\ Total(Traded1(e, open), Assets) \in Nat
         /\ Total(Traded1(e, open), Assets) <= Turnover(target, Opening(open, status))
<1> DEFINE c == Opening(open, status)
           M == c.mutable
           t == Traded1(e, open)
           g == [a \in M |-> Size(Change(target, c)[a])]
           u == [a \in Assets |-> IF a \in M THEN g[a] ELSE 0]
<1>1. /\ M = Tradable(status) /\ M \in SUBSET Assets
      /\ \A a \in Assets : c.current[a] = account.shares[a] * open[a]
  BY OpeningIs DEF IsContext
<1>2. Turnover(target, c) = Added(g, M)
  BY TotalIs DEF Turnover, Gross
<1>3. \A a \in Assets : t[a] = Size(e[a]) * open[a]
  BY DEF Traded1, Notional
<1>4. \A a \in M : g[a] = Size(target[a] - c.current[a])
  BY <1>1 DEF Change
<1>5. \A a \in Assets : u[a] = IF a \in M THEN g[a] ELSE 0
  OBVIOUS
<1> HIDE DEF c, M, t, g, u
<1>6. ASSUME NEW a \in Assets
      PROVE  t[a] \in Nat /\ u[a] \in Int /\ t[a] <= u[a] /\ (a \in M => g[a] \in Int)
  <2> DEFINE gap == target[a] - account.shares[a] * open[a]
             x == request[a]
  <2>1. account.shares[a] \in Int /\ Lots(account.shares[a], a) /\ open[a] \in Nat \ {0}
        /\ target[a] \in Int
    BY DEF AccountIs, Portfolio, Priced
  <2>2. Requests(x, a, gap, open, status)
    BY <2>1, RequestedIs
  <2>3. gap \in Int /\ (a \in M => g[a] = Size(gap))
    BY <1>1, <1>4, <2>1
  <2>4. x \in Int /\ Size(x) * open[a] <= Size(gap) /\ (a \notin M => x = 0)
    BY <1>1, <2>2 DEF Requests, Ordered, Tradable
  <2>5. e[a] \in Int /\ Size(e[a]) <= Size(x)
    BY DEF Executes, Portfolio
  <2>6. t[a] = Size(e[a]) * open[a]
    BY <1>3
  <2> HIDE DEF gap, x
  <2>7. Size(gap) \in Nat /\ Size(x) \in Nat /\ Size(e[a]) \in Nat
    BY <2>3, <2>4, <2>5 DEF Size
  <2>8. /\ Size(e[a]) * open[a] <= Size(x) * open[a]
        /\ Size(e[a]) * open[a] \in Nat /\ Size(x) * open[a] \in Nat
    BY <2>1, <2>5, <2>7, TimesAtMost
  <2>9. t[a] \in Nat /\ t[a] <= Size(gap)
    BY <2>4, <2>6, <2>7, <2>8
  <2>10. CASE a \in M
    BY <1>5, <2>3, <2>7, <2>9, <2>10
  <2>11. CASE a \notin M
    <3>1. Size(x) = 0
      BY <2>4, <2>11 DEF Size
    <3>2. Size(e[a]) = 0
      BY <2>5, <2>7, <3>1
    <3>3. t[a] = 0
      BY <2>1, <2>6, <3>2
    <3> QED BY <1>5, <2>11, <3>3
  <2> QED BY <2>10, <2>11
<1>7. Added(g, M) = Added(u, Assets)
  BY <1>1, <1>5, <1>6, FiniteAssets, AddedPart
<1>8. Added(t, Assets) <= Added(u, Assets)
  BY <1>6, FiniteAssets, AddedAtMost
<1>9. Added(t, Assets) \in Nat
  BY <1>6, FiniteAssets, AddedNat
<1> QED BY <1>2, <1>7, <1>8, <1>9, TotalIs DEF c, t

\* The costs of what is executed, asset by asset.
Costs1(e, open) == [a \in Assets |-> Cost(Notional(e, open, a))]

\* The account after the trades.
After(request, b, e, open) ==
  [cash   |-> CashAfterSells(request, open) - Spent(b, open),
   shares |-> [a \in Assets |-> account.shares[a] + e[a]]]

\* What an asset is worth, paid for and costs cancel out.
LEMMA AssetBalance ==
  ASSUME NEW open, Priced(open), NEW request \in Portfolio, NEW b, NEW budget,
         Buying(b, request, open, budget), NEW e, Executes(e, b, request), NEW a \in Assets
  PROVE  /\ e[a] * open[a] \in Int /\ Costs1(e, open)[a] \in Nat
         /\ Payments(b, request, open)[a] = e[a] * open[a] + (Proceeds(request, open)[a]
                                                             + Costs1(e, open)[a])
<1> DEFINE pay == Payments(b, request, open)[a]
           get == Proceeds(request, open)[a]
           cost == Costs1(e, open)[a]
<1>1. /\ request[a] \in Int /\ e[a] \in Int /\ open[a] \in Nat \ {0}
  BY DEF Portfolio, Executes, Priced
<1>2. cost = Cost(Size(e[a]) * open[a])
  BY DEF Costs1, Notional
<1>3. \A n \in Nat : Cost(n * open[a]) = n * Cost(open[a]) /\ Cost(open[a]) \in Nat
  BY CostIs
<1>4. pay = IF a \in Buys(request) THEN b[a] * open[a] + Cost(b[a] * open[a]) ELSE 0
  BY DEF Payments
<1>5. get = IF a \in Sells(request)
            THEN Size(request[a]) * open[a] - Cost(Size(request[a]) * open[a]) ELSE 0
  BY DEF Proceeds, Notional
<1>6. Size(e[a]) \in Nat /\ e[a] * open[a] \in Int
  BY <1>1 DEF Size
<1>7. cost \in Nat
  <2>1. Cost(Size(e[a]) * open[a]) = Size(e[a]) * Cost(open[a]) /\ Cost(open[a]) \in Nat
    BY <1>3, <1>6
  <2>2. Size(e[a]) * Cost(open[a]) \in Nat
    BY <1>6, <2>1
  <2> QED BY <1>2, <2>1, <2>2
<1> HIDE DEF pay, get, cost
<1>8. CASE request[a] > 0
  <2>1. a \in Buys(request) /\ a \notin Sells(request) /\ e[a] = b[a] /\ e[a] >= 0
    BY <1>1, <1>8 DEF Buys, Sells, Executes
  <2>2. Size(e[a]) = e[a]
    BY <1>1, <2>1 DEF Size
  <2>3. pay = e[a] * open[a] + cost /\ get = 0
    BY <1>2, <1>4, <1>5, <2>1, <2>2
  <2> QED BY <1>6, <1>7, <2>3 DEF pay, get, cost
<1>9. CASE request[a] < 0
  <2>1. a \notin Buys(request) /\ a \in Sells(request) /\ e[a] = request[a]
    BY <1>1, <1>9 DEF Buys, Sells, Executes
  <2>2. pay = 0 /\ get = Size(e[a]) * open[a] - cost
    BY <1>2, <1>4, <1>5, <2>1
  <2>3. e[a] * open[a] = -(Size(e[a]) * open[a])
    <3>1. Size(e[a]) = -e[a]
      BY <1>1, <1>9, <2>1 DEF Size
    <3>2. (-e[a]) * open[a] = -(e[a] * open[a])
      BY <1>1
    <3> QED BY <1>6, <3>1, <3>2
  <2>4. Size(e[a]) * open[a] \in Int
    BY <1>1, <1>6
  <2>5. pay = e[a] * open[a] + (get + cost)
    BY <1>6, <1>7, <2>2, <2>3, <2>4
  <2> QED BY <1>6, <1>7, <2>5 DEF pay, get, cost
<1>10. CASE request[a] = 0
  <2>1. a \notin Buys(request) /\ a \notin Sells(request) /\ e[a] = 0
    BY <1>1, <1>10 DEF Buys, Sells, Executes
  <2>2. Size(e[a]) = 0
    BY <2>1 DEF Size
  <2>3. Cost(0 * open[a]) = 0 * Cost(open[a])
    BY <1>3
  <2>4. cost = 0
    BY <1>2, <1>3, <2>2, <2>3
  <2>5. e[a] * open[a] = 0
    BY <1>1, <2>1
  <2> QED BY <1>4, <1>5, <2>1, <2>4, <2>5 DEF pay, get, cost
<1> QED BY <1>1, <1>8, <1>9, <1>10

\* At the open, the value is lost to costs only.
LEMMA ReconciledIs ==
  ASSUME AccountIs, NEW open, Priced(open), NEW request \in Portfolio, NEW b, NEW budget,
         Buying(b, request, open, budget), NEW e, Executes(e, b, request)
  PROVE  /\ After(request, b, e, open).cash \in Int
         /\ After(request, b, e, open).shares \in Portfolio
         /\ Total(Costs1(e, open), Assets) \in Nat
         /\ Marked(After(request, b, e, open), open)
              = Marked(account, open) - Total(Costs1(e, open), Assets)
<1> DEFINE after == After(request, b, e, open)
           held == [a \in Assets |-> account.shares[a] * open[a]]
           moved == [a \in Assets |-> e[a] * open[a]]
           now == [a \in Assets |-> after.shares[a] * open[a]]
           pay == Payments(b, request, open)
           get == Proceeds(request, open)
           cost == Costs1(e, open)
           back == [a \in Assets |-> get[a] + cost[a]]
<1>1. /\ after.cash = CashAfterSells(request, open) - Spent(b, open)
      /\ after.shares = [a \in Assets |-> account.shares[a] + e[a]]
  BY DEF After
<1>2. \A a \in Assets : account.shares[a] \in Int /\ e[a] \in Int /\ open[a] \in Nat
  BY DEF AccountIs, Executes, Portfolio, Priced
<1>3. account.cash \in Int /\ account.shares \in Portfolio /\ open \in [Assets -> Nat \ {0}]
  BY DEF AccountIs, Priced
<1>4. /\ \A a \in Assets : get[a] \in Nat
      /\ CashAfterSells(request, open) = account.cash + Added(get, Assets)
      /\ Added(get, Assets) \in Nat
  BY <1>3, CashIs
<1>5. (\A a \in Assets : pay[a] \in Nat) /\ Spent(b, open) = Added(pay, Assets)
      /\ Spent(b, open) \in Nat
  BY SpentIs DEF Buying
<1>6. \A a \in Assets : moved[a] \in Int /\ cost[a] \in Nat /\ pay[a] = moved[a] + back[a]
  BY AssetBalance
<1>7. /\ \A a \in Assets : held[a] = account.shares[a] * open[a] /\ moved[a] = e[a] * open[a]
      /\ \A a \in Assets : back[a] = get[a] + cost[a]
      /\ \A a \in Assets : now[a] = after.shares[a] * open[a]
  OBVIOUS
<1>8. Marked(account, open) = account.cash + Added(held, Assets)
  BY <1>3, MarkedIs
<1>9. Total(cost, Assets) = Added(cost, Assets)
  BY TotalIs
<1>10. after.cash \in Int /\ after.shares \in Portfolio
  <2>1. CashAfterSells(request, open) \in Int
    BY <1>3, <1>4
  <2>2. \A a \in Assets : account.shares[a] + e[a] \in Int
    BY <1>2
  <2> HIDE DEF after
  <2> QED BY <1>1, <1>5, <2>1, <2>2 DEF Portfolio
<1>11. Marked(after, open) = after.cash + Added(now, Assets)
  <2>1. Marked(after, open) = after.cash + Added([a \in Assets |-> after.shares[a] * open[a]], Assets)
    <3> HIDE DEF after
    <3> QED BY <1>3, <1>10, MarkedIs
  <2> QED BY <2>1
<1>12. \A a \in Assets : after.shares[a] = account.shares[a] + e[a]
  BY <1>1
<1> HIDE DEF after, held, moved, now, pay, get, cost, back
<1>13. IsFiniteSet(Assets)
  BY FiniteAssets
<1>14. Added(now, Assets) = Added(held, Assets) + Added(moved, Assets)
  <2>1. ASSUME NEW a \in Assets
        PROVE  held[a] \in Int /\ moved[a] \in Int /\ now[a] = held[a] + moved[a]
    <3>1. \A s, x, o \in Int : (s + x) * o = s * o + x * o /\ s * o \in Int
      OBVIOUS
    <3> QED BY <1>2, <1>6, <1>7, <1>12, <3>1
  <2>2. Joins(now, held, moved, Assets)
    BY <2>1 DEF Joins
  <2> QED BY <1>13, <2>2, AddedPlus
<1>15. Added(pay, Assets) = Added(moved, Assets) + Added(back, Assets)
  <2>1. Joins(pay, moved, back, Assets)
    BY <1>4, <1>6, <1>7 DEF Joins
  <2> QED BY <1>13, <2>1, AddedPlus
<1>16. Added(back, Assets) = Added(get, Assets) + Added(cost, Assets)
  <2>1. Joins(back, get, cost, Assets)
    BY <1>4, <1>6, <1>7 DEF Joins
  <2> QED BY <1>13, <2>1, AddedPlus
<1>17. Added(cost, Assets) \in Nat
  BY <1>6, <1>13, AddedNat
<1>18. Added(held, Assets) \in Int /\ Added(moved, Assets) \in Int
  <2>1. \A a \in Assets : held[a] \in Int /\ moved[a] \in Int
    BY <1>2, <1>6, <1>7
  <2>2. IntsOn(held, Assets) /\ IntsOn(moved, Assets)
    BY <2>1 DEF IntsOn
  <2> QED BY <1>13, <2>2, AddedElement
<1>19. Marked(after, open) = Marked(account, open) - Added(cost, Assets)
  BY <1>1, <1>3, <1>4, <1>5, <1>8, <1>11, <1>14, <1>15, <1>16, <1>17, <1>18
<1> QED BY <1>9, <1>10, <1>17, <1>19 DEF after, cost

-----------------------------------------------------------------------------
(***************************************************************************)
(* A session.                                                              *)
(***************************************************************************)

\* An account that owes nothing and still has something.
Owns(acc) ==
  /\ acc.cash >= 0 /\ \A a \in Assets : acc.shares[a] >= 0
  /\ acc.cash > 0 \/ \E a \in Assets : acc.shares[a] > 0

\* What is bought leaves the reserve, and a long-only account keeps owning.
LEMMA BalanceIs ==
  ASSUME AccountIs, NEW open, Priced(open), NEW status, NEW target \in Portfolio,
         NEW request \in Portfolio, request = Requested(target, open, status),
         NEW targetCash \in Int, NEW b,
         Buying(b, request, open, Most(CashAfterSells(request, open) - Most(targetCash, 0), 0)),
         NEW e, Executes(e, b, request),
         NEW after, after = After(request, b, e, open), after.cash \in Int
  PROVE  /\ (\E a \in DOMAIN b : b[a] > 0) => after.cash >= Most(targetCash, 0)
         /\ ~config.allowShort /\ Owns(account) => Owns(after)
<1> DEFINE C == CashAfterSells(request, open)
           pay == Payments(b, request, open)
           get == Proceeds(request, open)
           reserve == Most(targetCash, 0)
<1>1. after.cash = C - Spent(b, open) /\ \A a \in Assets : after.shares[a] = account.shares[a] + e[a]
  BY DEF After
<1>2. /\ C = account.cash + Added(get, Assets) /\ Added(get, Assets) \in Nat
      /\ \A a \in Sells(request) : Added(get, Assets) > 0
      /\ account.cash \in Int /\ C \in Int
  <2>1. account.cash \in Int
    BY DEF AccountIs
  <2>2. /\ C = account.cash + Added(get, Assets) /\ Added(get, Assets) \in Nat
        /\ \A a \in Sells(request) : Added(get, Assets) > 0
    BY <2>1, CashIs
  <2> HIDE DEF C
  <2> QED BY <2>1, <2>2
<1>3. /\ \A a \in Assets : pay[a] \in Nat
      /\ Spent(b, open) = Added(pay, Assets)
  BY SpentIs
<1>4. /\ Spent(b, open) \in Nat /\ Spent(b, open) <= Most(C - reserve, 0)
      /\ DOMAIN b = Buys(request) /\ Buys(request) \in SUBSET Assets
  BY DEF Buying, Buys
<1>5. ASSUME NEW a \in Buys(request)
      PROVE  b[a] \in Nat /\ pay[a] = b[a] * Unit(open, a) /\ Unit(open, a) \in Nat \ {0}
  <2>1. a \in Assets /\ b[a] \in Nat
    BY <1>4 DEF Buying
  <2>2. pay[a] = b[a] * open[a] + Cost(b[a] * open[a])
    BY <2>1, <1>5 DEF Payments
  <2> HIDE DEF pay
  <2> QED BY <2>1, <2>2, UnitIs
<1>6. \A a \in Assets : request[a] <= 0 => pay[a] = 0
  BY DEF Payments, Buys, Portfolio
<1>7. reserve \in Nat
  BY DEF Most
<1>8. IsFiniteSet(Assets)
  BY FiniteAssets
<1>9. ASSUME NEW a \in Assets
      PROVE  /\ account.shares[a] \in Int /\ e[a] \in Int /\ request[a] \in Int
             /\ ~config.allowShort /\ account.shares[a] >= 0 => account.shares[a] + e[a] >= 0
  <2>1. /\ account.shares[a] \in Int /\ Lots(account.shares[a], a) /\ request[a] \in Int
        /\ e[a] \in Int
    BY DEF AccountIs, Portfolio, Executes
  <2>2. ~config.allowShort /\ account.shares[a] >= 0 => account.shares[a] + request[a] >= 0
    BY <2>1, RequestedIs DEF Requests
  <2>3. /\ request[a] > 0 => e[a] >= 0
        /\ request[a] <= 0 => e[a] = request[a]
    BY DEF Executes
  <2> QED BY <2>1, <2>2, <2>3
<1>10. reserve = Most(targetCash, 0)
  OBVIOUS
<1> HIDE DEF C, pay, get, reserve
<1>11. CASE \E a \in DOMAIN b : b[a] > 0
  <2>1. PICK a \in Buys(request) : b[a] > 0
    BY <1>4, <1>11
  <2>2. a \in Assets /\ pay[a] > 0
    <3>1. b[a] \in Nat \ {0} /\ Unit(open, a) \in Nat \ {0}
      BY <1>5, <2>1
    <3>2. b[a] * Unit(open, a) > 0
      BY <3>1
    <3> QED BY <1>4, <1>5, <3>2
  <2>3. Spent(b, open) > 0
    <3>1. \A x \in Assets : pay[x] <= Added(pay, Assets)
      BY <1>3, <1>8, AddedNat
    <3> QED BY <1>3, <1>4, <2>2, <3>1
  <2>4. after.cash >= reserve
    BY <1>1, <1>2, <1>4, <1>7, <2>3 DEF Most
  <2>5. ASSUME ~config.allowShort, Owns(account)
        PROVE  Owns(after)
    <3>1. \A x \in Assets : after.shares[x] >= 0
      BY <1>1, <1>9, <2>5 DEF Owns
    <3>2. after.shares[a] > 0
      <4>1. e[a] = b[a]
        <5>1. request[a] > 0
          BY <2>1 DEF Buys
        <5> QED BY <2>2, <5>1 DEF Executes
      <4>2. account.shares[a] >= 0
        BY <2>2, <2>5 DEF Owns
      <4> QED BY <1>1, <1>9, <2>1, <2>2, <4>1, <4>2
    <3>3. after.cash >= 0
      BY <1>7, <2>4
    <3> QED BY <2>2, <3>1, <3>2, <3>3 DEF Owns
  <2> QED BY <1>10, <2>4, <2>5
<1>12. CASE ~\E a \in DOMAIN b : b[a] > 0
  <2>1. \A a \in Buys(request) : b[a] = 0
    BY <1>4, <1>5, <1>12
  <2>2. \A a \in Assets : pay[a] = 0
    <3> SUFFICES ASSUME NEW a \in Assets PROVE pay[a] = 0
      OBVIOUS
    <3>1. CASE a \in Buys(request)
      <4>1. Unit(open, a) \in Nat /\ pay[a] = 0 * Unit(open, a)
        BY <1>5, <2>1, <3>1
      <4> QED BY <4>1
    <3>2. CASE a \notin Buys(request)
      <4>1. request[a] <= 0
        BY <1>9, <3>2 DEF Buys
      <4> QED BY <1>6, <4>1
    <3> QED BY <3>1, <3>2
  <2>3. Spent(b, open) = 0
    BY <1>3, <1>8, <2>2, AddedZeros
  <2>4. after.cash = account.cash + Added(get, Assets)
    BY <1>1, <1>2, <2>3
  <2>5. ASSUME ~config.allowShort, Owns(account)
        PROVE  Owns(after)
    <3>1. \A x \in Assets : after.shares[x] >= 0
      BY <1>1, <1>9, <2>5 DEF Owns
    <3>2. after.cash >= 0 /\ after.cash >= account.cash
      BY <1>2, <2>4, <2>5 DEF Owns
    <3>3. CASE \E a \in Assets : a \in Sells(request)
      <4>1. after.cash > 0
        BY <1>2, <2>4, <2>5, <3>3 DEF Owns
      <4> QED BY <3>1, <3>2, <4>1 DEF Owns
    <3>4. CASE ~\E a \in Assets : a \in Sells(request)
      <4>1. ASSUME NEW a \in Assets PROVE after.shares[a] = account.shares[a]
        <5>1. request[a] >= 0
          BY <1>9, <3>4 DEF Sells
        <5>2. request[a] > 0 => a \in Buys(request) /\ e[a] = b[a]
          BY DEF Executes
        <5>3. request[a] <= 0 => e[a] = request[a]
          BY DEF Executes
        <5>4. e[a] = 0
          BY <1>9, <2>1, <5>1, <5>2, <5>3
        <5> QED BY <1>1, <1>9, <5>4
      <4>2. account.cash > 0 \/ \E a \in Assets : account.shares[a] > 0
        BY <2>5 DEF Owns
      <4>3. after.cash > 0 \/ \E a \in Assets : after.shares[a] > 0
        BY <1>2, <3>2, <4>1, <4>2
      <4> QED BY <3>1, <3>2, <4>3 DEF Owns
    <3> QED BY <3>3, <3>4
  <2> QED BY <1>12, <2>5
<1> QED BY <1>11, <1>12

\* Whoever owns something has a value, at any prices.
LEMMA OwnsValue ==
  ASSUME NEW acc, acc.cash \in Int, acc.shares \in Portfolio, Owns(acc),
         NEW price \in [Assets -> Nat \ {0}]
  PROVE  Marked(acc, price) > 0
<1> DEFINE w == [a \in Assets |-> acc.shares[a] * price[a]]
<1>1. Marked(acc, price) = acc.cash + Added(w, Assets)
  BY MarkedIs
<1>2. \A a \in Assets : w[a] = acc.shares[a] * price[a]
  OBVIOUS
<1> HIDE DEF w
<1>3. ASSUME NEW a \in Assets
      PROVE  w[a] \in Nat /\ (acc.shares[a] > 0 => w[a] > 0)
  <2>1. acc.shares[a] \in Nat /\ price[a] \in Nat \ {0}
    BY DEF Owns, Portfolio
  <2>2. acc.shares[a] * price[a] \in Nat /\ (acc.shares[a] > 0 => acc.shares[a] * price[a] > 0)
    BY <2>1
  <2> QED BY <1>2, <2>2
<1>4. Added(w, Assets) \in Nat /\ \A a \in Assets : w[a] <= Added(w, Assets)
  BY <1>3, FiniteAssets, AddedNat
<1>5. CASE acc.cash > 0
  BY <1>1, <1>4, <1>5
<1>6. CASE \E a \in Assets : acc.shares[a] > 0
  <2>1. PICK a \in Assets : acc.shares[a] > 0
    BY <1>6
  <2>2. w[a] > 0 /\ w[a] \in Nat /\ w[a] <= Added(w, Assets)
    BY <1>3, <1>4, <2>1
  <2> QED BY <1>1, <1>4, <2>2 DEF Owns
<1> QED BY <1>5, <1>6 DEF Owns

-----------------------------------------------------------------------------
(***************************************************************************)
(* The invariant and the theorems.                                         *)
(***************************************************************************)

\* An episode that goes on has a session left; a long-only one owns something,
\* so that it is worth something at the prices of any session.
EnvInv ==
  /\ TypeOK
  /\ \A a \in Assets : Lots(account.shares[a], a)
  /\ ~episode.done => episode.index < Sessions
  /\ ~config.allowShort => ~episode.raised /\ Owns(account) /\ account.last > 0
  /\ ReserveKept /\ TurnoverHeld /\ Reconciled

\* The invariant holds an account between two sessions.
LEMMA AccountFacts ==
  ASSUME EnvInv
  PROVE  AccountIs
<1>1. config \in Config
  BY EnvAssumption DEF EnvInv, TypeOK
<1> QED BY <1>1 DEF EnvInv, TypeOK, AccountIs, Portfolio

\* A row of the panel has prices.
LEMMA RowFacts ==
  ASSUME NEW row \in Rows
  PROVE  Priced(row.open) /\ row.close \in [Assets -> Nat \ {0}]
<1>1. row \in [open : [Assets -> Nat \ {0}], close : [Assets -> Nat \ {0}],
               status : [Assets -> Statuses]]
  BY EnvAssumption
<1>2. \A a \in Assets, i \in 1..2 : (row.open[a] * CostRate[i]) % 100 = 0
  BY EnvAssumption
<1> QED BY <1>1, <1>2 DEF Priced

\* A fresh account satisfies the invariant.
LEMMA FreshIs ==
  ASSUME config \in Configs, account = InitialAccount,
         episode = [index |-> 0, done |-> FALSE, raised |-> FALSE], report = NoReport
  PROVE  EnvInv
<1>1. /\ account.cash = InitialCash /\ account.last = InitialCash /\ account.peak = InitialCash
      /\ account.shares = [a \in Assets |-> 0]
  BY DEF InitialAccount
<1>2. /\ report.turnover = 0 /\ report.costs = 0 /\ report.bought = FALSE
      /\ report.value = InitialCash /\ report.mid = InitialCash
  BY DEF NoReport
<1>3. InitialCash \in Nat \ {0} /\ Sessions \in Nat \ {0}
  BY EnvAssumption
<1>4. config.maxTurnover \in Nat
  BY EnvAssumption DEF Config
<1>5. TypeOK
  BY <1>1, <1>2, <1>3 DEF TypeOK
<1>6. \A a \in Assets : Lots(account.shares[a], a)
  <2> SUFFICES ASSUME NEW a \in Assets PROVE Lots(0, a)
    BY <1>1
  <2>1. LotSize[a] \in Nat
    BY EnvAssumption
  <2>2. 0 = 0 * LotSize[a] /\ 0 \in Int
    BY <2>1
  <2> QED BY <2>2 DEF Lots
<1>7. Owns(account) /\ account.last > 0
  BY <1>1, <1>3 DEF Owns
<1>8. ReserveKept /\ Reconciled
  BY <1>2, <1>3 DEF ReserveKept, Reconciled
<1>9. TurnoverHeld
  <2>1. config.maxTurnover * InitialCash \in Nat
    BY <1>3, <1>4
  <2> QED BY <1>2, <2>1 DEF TurnoverHeld
<1> QED BY <1>3, <1>5, <1>6, <1>7, <1>8, <1>9 DEF EnvInv

\* A session keeps it.
LEMMA SessionKeeps ==
  ASSUME EnvInv, ~episode.done, NEW row \in Rows, NEW action \in Actions,
         Marked(account, row.open) > 0,
         Traded(Project(action, Opening(row.open, row.status)), row.open, row.close, row.status,
                Marked(account, row.open))
  PROVE  EnvInv'
<1> DEFINE open == row.open
           close == row.close
           status == row.status
           value == Marked(account, open)
           c == Opening(open, status)
           q == Project(action, c)
           target == q.w
           targetCash == value - Total(target, Assets)
           request == Requested(target, open, status)
           b == Bought(request, open, targetCash)
           e == Executed(request, b)
           after == After(request, b, e, open)
           end == Marked(after, close)
           turn == Total(Traded1(e, open), Assets)
           cost == Total(Costs1(e, open), Assets)
           budget == Most(CashAfterSells(request, open) - Most(targetCash, 0), 0)
<1>1. AccountIs /\ Priced(open) /\ close \in [Assets -> Nat \ {0}]
  BY AccountFacts, RowFacts
<1>2. /\ account' = [cash |-> after.cash, shares |-> after.shares, last |-> end,
                     peak |-> Most(account.peak, end)]
      /\ episode' = [index |-> episode.index + 1,
                     done |-> end <= 0 \/ episode.index + 1 >= Sessions
                              \/ episode.index + 1 >= config.maxSteps,
                     raised |-> end <= 0]
      /\ report' = [value |-> value, target |-> targetCash,
                    bought |-> \E a \in DOMAIN b : b[a] > 0,
                    turnover |-> turn, costs |-> cost, mid |-> Marked(after, open)]
      /\ config' = config
  BY DEF Traded, After, Traded1, Costs1
<1>3. /\ IsContext(c) /\ c.config = config /\ c.value = value
      /\ action \in [cash : Int, assets : [Assets -> Int]]
  BY <1>1, OpeningIs, EnvAssumption
<1>4. Projected(q, c)
  <2> HIDE DEF c
  <2> QED BY <1>3, ProjectKeeps
<1>5. target \in Portfolio /\ Turnover(target, c) <= Limit(config.maxTurnover, c)
  <2> HIDE DEF q, c
  <2> QED BY <1>3, <1>4, PartialIs DEF Projected
<1>6. value \in Nat /\ targetCash \in Int
  <2>1. value \in Nat
    BY <1>3 DEF IsContext
  <2> HIDE DEF value, target
  <2>2. IntsOn(target, Assets)
    BY <1>5 DEF IntsOn, Portfolio
  <2>3. Total(target, Assets) \in Int
    BY <2>2, TotalType
  <2> QED BY <2>1, <2>3
<1>7. request \in Portfolio /\ \A a \in Assets : Lots(request[a], a)
  <2> HIDE DEF target, open, status
  <2>1. ASSUME NEW a \in Assets
        PROVE  request[a] \in Int /\ Lots(request[a], a)
    <3>1. account.shares[a] \in Int /\ Lots(account.shares[a], a)
      BY <1>1 DEF AccountIs, Portfolio
    <3>2. Requests(request[a], a, target[a] - account.shares[a] * open[a], open, status)
      BY <1>1, <1>5, <3>1, RequestedIs
    <3> QED BY <3>2 DEF Requests, Ordered
  <2>2. request = [a \in Assets |-> request[a]]
    BY DEF Requested
  <2> HIDE DEF request
  <2> QED BY <2>1, <2>2 DEF Portfolio
<1>8. Buying(b, request, open, budget)
  <2> HIDE DEF request, open, targetCash
  <2>1. CashAfterSells(request, open) \in Int
    <3>1. account.cash \in Int
      BY <1>1 DEF AccountIs
    <3>2. /\ CashAfterSells(request, open) = account.cash + Added(Proceeds(request, open), Assets)
          /\ Added(Proceeds(request, open), Assets) \in Nat
      BY <1>1, <1>7, <3>1, CashIs
    <3> QED BY <3>1, <3>2
  <2> QED BY <1>1, <1>6, <1>7, <2>1, BoughtIs
<1>9. Executes(e, b, request)
  <2> HIDE DEF request, b, open, budget
  <2> QED BY <1>7, <1>8, ExecutedIs
<1>10. /\ after.cash \in Int /\ after.shares \in Portfolio /\ cost \in Nat
       /\ Marked(after, open) = value - cost
  <2> HIDE DEF request, b, open, budget, e
  <2> QED BY <1>1, <1>7, <1>8, <1>9, ReconciledIs
<1>11. /\ (\E a \in DOMAIN b : b[a] > 0) => after.cash >= Most(targetCash, 0)
       /\ ~config.allowShort /\ Owns(account) => Owns(after)
  <2>1. request = Requested(target, open, status) /\ after = After(request, b, e, open)
    OBVIOUS
  <2> HIDE DEF request, b, open, e, target, status, targetCash, after
  <2> QED BY <1>1, <1>5, <1>6, <1>7, <1>8, <1>9, <1>10, <2>1, BalanceIs
<1>12. turn \in Nat /\ turn <= Turnover(target, c)
  <2>1. request = Requested(target, open, status) /\ Marked(account, open) > 0
        /\ c = Opening(open, status)
    OBVIOUS
  <2> HIDE DEF request, b, open, e, target, status, c
  <2> QED BY <1>1, <1>5, <1>9, <2>1, TurnoverIs
<1>13. end \in Int /\ (Owns(after) => end > 0)
  <2> HIDE DEF after, close
  <2> QED BY <1>1, <1>10, MarkedIs, OwnsValue
<1>14. \A a \in Assets : after.shares[a] = account.shares[a] + e[a]
  BY DEF After
<1>15. 100 * turn <= config.maxTurnover * value
  <2>1. /\ Limit(config.maxTurnover, c) \in Nat
        /\ 100 * Limit(config.maxTurnover, c) <= config.maxTurnover * value
        /\ config.maxTurnover * value \in Nat
    <3>1. config.maxTurnover \in Nat
      BY <1>1 DEF AccountIs, Config
    <3> HIDE DEF c, value
    <3>2. config.maxTurnover * value \in Nat
      BY <1>6, <3>1
    <3> QED BY <1>3, <3>1, <3>2, LimitIs
  <2>2. Turnover(target, c) \in Int
    <3>1. /\ c.mutable \in SUBSET Assets
          /\ Change(target, c) \in Portfolio
      <4> HIDE DEF c, target
      <4> QED BY <1>3, <1>5 DEF IsContext, Change, Portfolio
    <3> HIDE DEF c, target
    <3> QED BY <3>1, GrossIs DEF Turnover
  <2> HIDE DEF c, target, value, turn
  <2> QED BY <1>5, <1>12, <2>1, <2>2
<1> HIDE DEF open, close, status, value, c, q, target, targetCash, request, b, e, after, end,
             turn, cost, budget
<1>16. /\ account'.cash = after.cash /\ account'.shares = after.shares /\ account'.last = end
       /\ account'.peak = Most(account.peak, end)
  BY <1>2
<1>17. /\ report'.value = value /\ report'.target = targetCash
       /\ report'.bought = (\E a \in DOMAIN b : b[a] > 0)
       /\ report'.turnover = turn /\ report'.costs = cost
       /\ report'.mid = Marked(after, open)
  BY <1>2
<1>18. /\ episode'.index = episode.index + 1
       /\ ~(end <= 0) => ~episode'.raised
       /\ episode.index + 1 >= Sessions => episode'.done
  BY <1>2
<1>19. TypeOK'
  <2>1. config' \in Configs /\ account.peak \in Nat /\ episode.index \in 0..Sessions
        /\ episode.index < Sessions
    BY <1>2 DEF EnvInv, TypeOK
  <2>2. /\ account'.cash \in Int /\ account'.shares \in [Assets -> Int] /\ account'.last \in Int
        /\ account'.peak \in Nat /\ account'.peak >= account'.last
    <3>1. Most(account.peak, end) \in Nat /\ Most(account.peak, end) >= end
      BY <1>13, <2>1 DEF Most
    <3> QED BY <1>10, <1>13, <1>16, <3>1 DEF Portfolio
  <2>3. episode' \in [index : 0..Sessions, done : BOOLEAN, raised : BOOLEAN]
    <3>1. episode.index + 1 \in 0..Sessions
      BY <2>1, EnvAssumption
    <3>2. (end <= 0) \in BOOLEAN
          /\ (end <= 0 \/ episode.index + 1 >= Sessions
               \/ episode.index + 1 >= config.maxSteps) \in BOOLEAN
      OBVIOUS
    <3> QED BY <1>2, <3>1, <3>2
  <2>4. report'.turnover \in Nat /\ report'.costs \in Nat
    BY <1>10, <1>12, <1>17
  <2> QED BY <2>1, <2>2, <2>3, <2>4 DEF TypeOK
<1>20. \A a \in Assets : Lots(account'.shares[a], a)
  <2> SUFFICES ASSUME NEW a \in Assets PROVE Lots(account'.shares[a], a)
    OBVIOUS
  <2>1. /\ account.shares[a] \in Int /\ Lots(account.shares[a], a) /\ e[a] \in Int
        /\ request[a] \in Int /\ Lots(request[a], a)
    BY <1>1, <1>7, <1>9 DEF AccountIs, Portfolio, Executes
  <2>2. Lots(e[a], a)
    <3>1. CASE request[a] > 0
      <4>1. a \in Buys(request) /\ e[a] = b[a]
        BY <1>9, <3>1 DEF Executes
      <4> QED BY <1>8, <4>1 DEF Buying
    <3>2. CASE request[a] <= 0
      <4>1. e[a] = request[a]
        BY <1>9, <3>2 DEF Executes
      <4> QED BY <2>1, <4>1
    <3> QED BY <2>1, <3>1, <3>2
  <2>3. account'.shares[a] = account.shares[a] + e[a]
    BY <1>14, <1>16
  <2> QED BY <2>1, <2>2, <2>3, LotsAdd
<1>21. (~episode.done => episode.index < Sessions)'
  <2>1. episode.index \in Int /\ Sessions \in Int
    BY EnvAssumption DEF EnvInv, TypeOK
  <2> QED BY <1>18, <2>1
<1>22. (~config.allowShort => ~episode.raised /\ Owns(account) /\ account.last > 0)'
  <2> SUFFICES ASSUME ~config'.allowShort
               PROVE  ~episode'.raised /\ Owns(account)' /\ account'.last > 0
    OBVIOUS
  <2>1. Owns(after)
    BY <1>2, <1>11 DEF EnvInv
  <2>2. Owns(account)'
    BY <1>16, <2>1 DEF Owns
  <2> QED BY <1>13, <1>16, <1>18, <2>1, <2>2
<1>23. ReserveKept' /\ Reconciled'
  BY <1>10, <1>11, <1>16, <1>17 DEF ReserveKept, Reconciled
<1>24. TurnoverHeld'
  BY <1>2, <1>15, <1>17 DEF TurnoverHeld
<1> QED BY <1>19, <1>20, <1>21, <1>22, <1>23, <1>24 DEF EnvInv

\* Every step keeps the invariant: a value that is not positive at the open is
\* met by short sellers only.
LEMMA StepKeeps ==
  ASSUME EnvInv, [Next]_vars
  PROVE  EnvInv'
<1>1. CASE Reset
  <2>1. /\ config' \in Configs /\ account' = InitialAccount /\ report' = NoReport
        /\ episode' = [index |-> 0, done |-> FALSE, raised |-> FALSE]
    BY <1>1 DEF Reset, EnvInv, TypeOK
  <2>2. /\ account'.cash = InitialCash /\ account'.last = InitialCash
        /\ account'.peak = InitialCash /\ account'.shares = [a \in Assets |-> 0]
    BY <2>1 DEF InitialAccount
  <2>3. /\ report'.turnover = 0 /\ report'.costs = 0 /\ report'.bought = FALSE
        /\ report'.value = InitialCash /\ report'.mid = InitialCash
    BY <2>1 DEF NoReport
  <2>4. InitialCash \in Nat \ {0} /\ Sessions \in Nat \ {0}
    BY EnvAssumption
  <2>5. config'.maxTurnover \in Nat
    BY <2>1, EnvAssumption DEF Config
  <2>6. TypeOK'
    BY <2>1, <2>2, <2>3, <2>4 DEF TypeOK
  <2>7. (\A a \in Assets : Lots(account.shares[a], a))'
    <3> SUFFICES ASSUME NEW a \in Assets PROVE Lots(account'.shares[a], a)
      OBVIOUS
    <3>1. account'.shares[a] = 0 /\ LotSize[a] \in Nat
      BY <2>2, EnvAssumption
    <3>2. 0 = 0 * LotSize[a] /\ 0 \in Int
      BY <3>1
    <3> QED BY <3>1, <3>2 DEF Lots
  <2>8. (Owns(account) /\ account.last > 0)'
    BY <2>2, <2>4 DEF Owns
  <2>9. ReserveKept' /\ Reconciled'
    BY <2>3, <2>4 DEF ReserveKept, Reconciled
  <2>10. TurnoverHeld'
    <3>1. config'.maxTurnover * InitialCash \in Nat
      BY <2>4, <2>5
    <3> QED BY <2>3, <3>1 DEF TurnoverHeld
  <2> QED BY <2>1, <2>4, <2>6, <2>7, <2>8, <2>9, <2>10 DEF EnvInv
<1>2. ASSUME NEW action \in Actions, NEW row \in Rows, Step(action, row)
      PROVE  EnvInv'
  <2>1. AccountIs /\ Priced(row.open)
    BY AccountFacts, RowFacts
  <2>2. CASE StepRaises(row.open)
    <3>1. config.allowShort
      <4> SUFFICES ASSUME ~config.allowShort PROVE FALSE
        OBVIOUS
      <4>1. Owns(account)
        BY DEF EnvInv
      <4>2. Marked(account, row.open) > 0 /\ Marked(account, row.open) \in Int
        BY <2>1, <4>1, OwnsValue, MarkedIs DEF AccountIs, Priced
      <4> QED BY <2>2, <4>2 DEF StepRaises
    <3>2. config' = config /\ account' = account /\ report' = report
          /\ episode' = [episode EXCEPT !.raised = TRUE]
      BY <2>2 DEF StepRaises
    <3>3. episode \in [index : 0..Sessions, done : BOOLEAN, raised : BOOLEAN]
      BY DEF EnvInv, TypeOK
    <3>4. /\ episode' \in [index : 0..Sessions, done : BOOLEAN, raised : BOOLEAN]
          /\ episode'.index = episode.index /\ episode'.done = episode.done
      BY <3>2, <3>3
    <3>5. TypeOK'
      BY <3>2, <3>4 DEF EnvInv, TypeOK
    <3>6. ReserveKept' /\ TurnoverHeld' /\ Reconciled'
      BY <3>2 DEF EnvInv, ReserveKept, TurnoverHeld, Reconciled
    <3> QED BY <3>1, <3>2, <3>4, <3>5, <3>6 DEF EnvInv
  <2>3. CASE /\ Marked(account, row.open) > 0
             /\ Traded(Project(action, Opening(row.open, row.status)), row.open, row.close,
                       row.status, Marked(account, row.open))
    BY <1>2, <2>3, SessionKeeps DEF Step
  <2> QED BY <1>2, <2>2, <2>3 DEF Step
<1>3. CASE UNCHANGED vars
  BY <1>3 DEF vars, EnvInv, TypeOK, Owns, ReserveKept, TurnoverHeld, Reconciled
<1> QED BY <1>1, <1>2, <1>3 DEF Next

\* The invariant holds after any sequence of sessions and resets, for any panel
\* and any policy.
THEOREM EnvAlways == Spec => []EnvInv
<1>1. Init => EnvInv
  BY FreshIs DEF Init
<1>2. EnvInv /\ [Next]_vars => EnvInv'
  BY StepKeeps
<1> QED BY <1>1, <1>2, PTL DEF Spec

\* After any sequence of sessions and resets the state has its types, and the
\* peak of the account is never below its last value.
THEOREM TypeCorrect == Spec => []TypeOK
<1>1. EnvInv => TypeOK
  BY DEF EnvInv
<1> QED BY <1>1, EnvAlways, PTL

\* After any sequence of sessions: a session that buys leaves the projected
\* reserve of cash, a long-only account never owes anything and never loses its
\* whole value, positions are whole lots, what is traded stays inside the
\* turnover limit, and at the open value is lost to costs only.
THEOREM AccountAlwaysSound == Spec => []AccountSound
<1>1. EnvInv => AccountSound
  <2> SUFFICES ASSUME EnvInv PROVE AccountSound
    OBVIOUS
  <2>1. ReserveKept /\ TurnoverHeld /\ Reconciled
    BY DEF EnvInv
  <2>2. LongOnlySolvent
    BY DEF EnvInv, LongOnlySolvent, Owns
  <2>3. WholeLotsHeld
    <3> SUFFICES ASSUME NEW a \in Assets PROVE account.shares[a] % LotSize[a] = 0
      BY DEF WholeLotsHeld
    <3>1. account.shares[a] \in Int /\ Lots(account.shares[a], a)
      BY DEF EnvInv, TypeOK
    <3> QED BY <3>1, LotsAre
  <2> QED BY <2>1, <2>2, <2>3 DEF AccountSound
<1> QED BY <1>1, EnvAlways, PTL

\* In every reachable account, for any action and any session: where the current
\* portfolio meets a limit, so does the projected one - up to one unit of money
\* per asset - or the limit is reported as violated by what cannot be traded.
THEOREM LimitsAlwaysKept == Spec => []LimitsKept
<1>1. EnvInv => LimitsKept
  <2> SUFFICES ASSUME EnvInv, NEW action \in Actions, NEW row \in Rows,
                      Marked(account, row.open) > 0
               PROVE  LET c == Opening(row.open, row.status)
                          r == Project(action, c)
                          now == [r EXCEPT !.w = c.current]
                      IN  /\ AssetsWithin(now, c) => AssetsWithin(r, c)
                          /\ MarketsWithin(now, c, 0) => MarketsWithin(r, c, Rounding)
                          /\ CashWithin(now, c, 0) => CashWithin(r, c, Rounding)
    BY DEF LimitsKept
  <2> DEFINE c == Opening(row.open, row.status)
  <2>1. IsContext(c)
    BY AccountFacts, RowFacts, OpeningIs
  <2>2. action \in [cash : Int, assets : [Assets -> Int]]
    BY EnvAssumption
  <2> HIDE DEF c
  <2>3. Projected(Project(action, c), c)
    BY <2>1, <2>2, ProjectKeeps
  <2> QED BY <2>3 DEF Projected, c
<1> QED BY <1>1, EnvAlways, PTL

-----------------------------------------------------------------------------
(***************************************************************************)
(* The panel that an environment reads (MarketData): for any files, rates, *)
(* calendars and edits.                                                    *)
(*                                                                         *)
(* The argument: a row looks back only, to the latest bar and the latest   *)
(* rate of its day, which cutting the data after that day leaves alone;    *)
(* and an asset that has a close once has one ever after.                  *)
(***************************************************************************)
\* Files whose bars, as far as there are any, have numbers.
Readable(S) ==
  \A a \in DataAssets :
    /\ S[a] = [bars |-> S[a].bars, defects |-> S[a].defects]
    /\ \A d \in Data!Days :
         S[a].bars[d] # NoBar => S[a].bars[d].open \in Int /\ S[a].bars[d].close \in Int

\* A table of positive rates.
RateTable(T) == T \in [Data!Days -> {NoRate} \cup (Nat \ {0})]

\* The largest of a set of days is one of it.
LEMMA LatestDay ==
  ASSUME Data!DataAssumption, NEW D \in SUBSET Data!Days, D # {}
  PROVE  Data!Max(D) \in D /\ \A e \in D : e <= Data!Max(D)
<1>1. LastDay \in Nat /\ D \in SUBSET (0..LastDay)
  BY DEF Data!DataAssumption, Data!Days
<1>2. PICK t \in D : \A u \in D : u <= t
  BY <1>1, LargestUpTo
<1>3. \E x \in D : \A y \in D : x >= y
  BY <1>1, <1>2
<1>4. Data!Max(D) \in D /\ \A y \in D : Data!Max(D) >= y
  BY <1>3 DEF Data!Max
<1> QED BY <1>1, <1>4

\* So is the smallest.
LEMMA FirstDay ==
  ASSUME Data!DataAssumption, NEW D \in SUBSET Data!Days, D # {}
  PROVE  Data!Min(D) \in D /\ \A e \in D : Data!Min(D) <= e
<1>1. LastDay \in Nat /\ D \in SUBSET (0..LastDay)
  BY DEF Data!DataAssumption, Data!Days
<1>2. PICK T \in SUBSET (0..LastDay) : T = {LastDay - u : u \in D}
  <2>1. \A u \in D : LastDay - u \in 0..LastDay
    BY <1>1
  <2> QED BY <2>1
<1>3. T # {}
  BY <1>2
<1>4. PICK t \in T : \A u \in T : u <= t
  BY <1>1, <1>3, LargestUpTo
<1>5. PICK x \in D : t = LastDay - x
  BY <1>2, <1>4
<1>6. ASSUME NEW y \in D PROVE x <= y
  <2>1. LastDay - y \in T
    BY <1>2
  <2>2. LastDay - y <= LastDay - x
    BY <1>4, <1>5, <2>1
  <2> QED BY <1>1, <2>2
<1>7. Data!Min(D) \in D /\ \A y \in D : Data!Min(D) <= y
  BY <1>6 DEF Data!Min
<1> QED BY <1>7

\* The same first member, the same minimum.
LEMMA FirstIs ==
  ASSUME Data!DataAssumption, NEW D \in SUBSET Data!Days, NEW x \in D, \A e \in D : x <= e
  PROVE  Data!Min(D) = x
<1>1. PICK m \in D : m = Data!Min(D) /\ \A e \in D : m <= e
  BY FirstDay
<1>2. x \in 1..LastDay /\ m \in 1..LastDay /\ x <= m /\ m <= x
  BY <1>1 DEF Data!Days
<1>3. x = m
  BY <1>2
<1> QED BY <1>1, <1>3

\* A rate that is known is positive.
LEMMA RateIs ==
  ASSUME Data!DataAssumption, NEW T, RateTable(T), NEW a \in DataAssets, NEW d \in Data!Days,
         Foreign # {} => Data!KnownRates(T, d) # {}
  PROVE  Data!RateOn(T, a, d) \in Nat \ {0}
<1>1. CASE a \notin Foreign
  BY <1>1 DEF Data!RateOn
<1>2. CASE a \in Foreign
  <2> DEFINE K == Data!KnownRates(T, d)
  <2>1. K \in SUBSET Data!Days /\ K # {} /\ \A e \in K : T[e] # NoRate
    BY <1>2 DEF Data!KnownRates
  <2> HIDE DEF K
  <2>2. Data!Max(K) \in K
    BY <2>1, LatestDay
  <2>3. T[Data!Max(K)] \in Nat \ {0}
    BY <2>1, <2>2 DEF RateTable
  <2> QED BY <1>2, <2>3 DEF Data!RateOn, K
<1> QED BY <1>1, <1>2

\* A close is that of the latest session with a bar, and there is none before it.
LEMMA CloseIs ==
  ASSUME Data!DataAssumption, NEW S, Readable(S), NEW T, RateTable(T),
         NEW sessions \in SUBSET Data!Days, NEW a \in DataAssets, NEW d \in Data!Days,
         Foreign # {} => Data!KnownRates(T, d) # {}
  PROVE  LET seen == Data!SeenBy(S, sessions, a, d)
             last == Data!Max(seen)
         IN  /\ seen = {} => Data!CloseOn(S, T, sessions, a, d) = NoPrice
             /\ seen # {} => /\ last \in seen /\ \A e \in seen : e <= last
                             /\ S[a].bars[last].close \in Int
                             /\ Data!CloseOn(S, T, sessions, a, d)
                                  = S[a].bars[last].close * Data!RateOn(T, a, d)
                             /\ Data!CloseOn(S, T, sessions, a, d) \in Int
                             /\ Data!CloseOn(S, T, sessions, a, d) # NoPrice
<1> DEFINE seen == Data!SeenBy(S, sessions, a, d)
           last == Data!Max(seen)
           close == Data!CloseOn(S, T, sessions, a, d)
           rate == Data!RateOn(T, a, d)
<1>1. seen = {} => close = NoPrice
  BY DEF Data!CloseOn
<1>2. ASSUME seen # {}
      PROVE  /\ last \in seen /\ \A e \in seen : e <= last
             /\ S[a].bars[last].close \in Int /\ close = S[a].bars[last].close * rate
             /\ close \in Int /\ close # NoPrice
  <2>1. seen \in SUBSET Data!Days /\ \A e \in seen : S[a].bars[e] # NoBar
    BY DEF Data!SeenBy
  <2>2. last \in seen /\ \A e \in seen : e <= last
    <3> HIDE DEF seen
    <3> QED BY <1>2, <2>1, LatestDay
  <2>3. S[a].bars[last].close \in Int
    BY <2>1, <2>2 DEF Readable
  <2>4. close = S[a].bars[last].close * rate
    BY <1>2 DEF Data!CloseOn
  <2>5. rate \in Nat
    BY RateIs
  <2>6. close \in Int
    <3> HIDE DEF last, rate, close
    <3> QED BY <2>3, <2>4, <2>5
  <2>7. close # NoPrice
    <3> HIDE DEF close
    <3> QED BY <2>6 DEF Data!DataAssumption
  <2> QED BY <2>2, <2>3, <2>4, <2>6, <2>7
<1> QED BY <1>1, <1>2

\* Cutting the data after a day leaves what is known of the days up to it.
LEMMA CutRate ==
  ASSUME Data!DataAssumption, NEW T, RateTable(T), NEW a \in DataAssets,
         NEW d \in Data!Days, NEW e \in Data!Days, e <= d
  PROVE  /\ RateTable(Data!KnownUntil(T, d))
         /\ Data!KnownRates(Data!KnownUntil(T, d), e) = Data!KnownRates(T, e)
         /\ (Foreign # {} => Data!KnownRates(T, e) # {})
              => Data!RateOn(Data!KnownUntil(T, d), a, e) = Data!RateOn(T, a, e)
<1> DEFINE C == Data!KnownUntil(T, d)
           K == Data!KnownRates(T, e)
<1>1. RateTable(C)
  BY DEF RateTable, Data!KnownUntil
<1>2. \A u \in Data!Days : u <= e => C[u] = T[u]
  BY DEF Data!KnownUntil, Data!Days
<1>3. Data!KnownRates(C, e) = K
  BY <1>2 DEF Data!KnownRates
<1>4. ASSUME Foreign # {} => K # {} PROVE Data!RateOn(C, a, e) = Data!RateOn(T, a, e)
  <2>1. CASE a \notin Foreign
    BY <2>1 DEF Data!RateOn
  <2>2. CASE a \in Foreign
    <3>1. K # {} /\ K \in SUBSET Data!Days /\ \A u \in K : u <= e
      BY <1>4, <2>2 DEF Data!KnownRates
    <3>2. Data!Max(K) \in K
      <4> HIDE DEF K
      <4> QED BY <3>1, LatestDay
    <3>3. C[Data!Max(K)] = T[Data!Max(K)]
      <4> HIDE DEF K, C
      <4> QED BY <1>2, <3>1, <3>2
    <3> QED BY <1>3, <2>2, <3>3 DEF Data!RateOn
  <2> QED BY <2>1, <2>2
<1> QED BY <1>1, <1>3, <1>4

\* The rows up to the day are the same.
LEMMA CutRow ==
  ASSUME Data!DataAssumption, NEW S, Readable(S), NEW T, RateTable(T),
         NEW sessions \in SUBSET Data!Days,
         NEW d \in Data!Days, NEW e \in Data!Days, e <= d,
         Foreign # {} => Data!KnownRates(T, e) # {}
  PROVE  LET before == {u \in sessions : u <= d}
         IN  /\ Readable(Data!Until(S, d))
             /\ \A a \in DataAssets : Data!CloseOn(Data!Until(S, d), Data!KnownUntil(T, d), before, a, e)
                                    = Data!CloseOn(S, T, sessions, a, e)
             /\ Data!RowOf(Data!Until(S, d), Data!KnownUntil(T, d), before, e)
                  = Data!RowOf(S, T, sessions, e)
<1> DEFINE C == Data!Until(S, d)
           K == Data!KnownUntil(T, d)
           before == {u \in sessions : u <= d}
<1>1. ASSUME NEW a \in DataAssets
      PROVE  /\ C[a] = [bars |-> C[a].bars, defects |-> C[a].defects]
             /\ \A u \in Data!Days : C[a].bars[u] = IF u <= d THEN S[a].bars[u] ELSE NoBar
  <2>1. PICK bars, defects : S[a] = [bars |-> bars, defects |-> defects]
    BY DEF Readable
  <2>2. PICK cut : cut = [u \in Data!Days |-> IF u <= d THEN S[a].bars[u] ELSE NoBar]
    OBVIOUS
  <2>3. C[a] = [S[a] EXCEPT !.bars = cut]
    BY <2>2 DEF Data!Until
  <2>4. C[a] = [bars |-> cut, defects |-> defects]
    BY <2>1, <2>3
  <2>5. C[a].bars = cut /\ C[a].defects = defects
    BY <2>4
  <2> HIDE DEF C
  <2> QED BY <2>2, <2>4, <2>5
<1>2. Readable(C)
  <2> HIDE DEF C
  <2> QED BY <1>1 DEF Readable
<1>3. \A a \in DataAssets : \A u \in Data!Days : u <= e => C[a].bars[u] = S[a].bars[u]
  <2>1. \A u \in Data!Days : u <= e => u <= d
    BY DEF Data!Days
  <2> HIDE DEF C
  <2> QED BY <1>1, <2>1
<1>4. \A a \in DataAssets : Data!RateOn(K, a, e) = Data!RateOn(T, a, e)
  BY CutRate
<1> HIDE DEF C, K
<1>5. ASSUME NEW a \in DataAssets
      PROVE  Data!SeenBy(C, before, a, e) = Data!SeenBy(S, sessions, a, e)
  <2>1. \A u \in Data!Days : u <= e => u <= d
    BY DEF Data!Days
  <2>2. \A u \in sessions : u \in Data!Days
    OBVIOUS
  <2> QED BY <1>3, <2>1, <2>2 DEF Data!SeenBy
<1>6. ASSUME NEW a \in DataAssets
      PROVE  Data!CloseOn(C, K, before, a, e) = Data!CloseOn(S, T, sessions, a, e)
  <2> DEFINE seen == Data!SeenBy(S, sessions, a, e)
  <2>1. CASE seen = {}
    BY <1>5, <2>1 DEF Data!CloseOn
  <2>2. CASE seen # {}
    <3>1. Data!Max(seen) \in seen
      BY <2>2, CloseIs
    <3>2. Data!Max(seen) \in Data!Days /\ Data!Max(seen) <= e
      BY <3>1 DEF Data!SeenBy
    <3>3. C[a].bars[Data!Max(seen)] = S[a].bars[Data!Max(seen)]
      BY <1>3, <3>2
    <3> QED BY <1>4, <1>5, <2>2, <3>3 DEF Data!CloseOn
  <2> QED BY <2>1, <2>2
<1>7. ASSUME NEW a \in DataAssets
      PROVE  /\ Data!OpenOn(C, K, before, a, e) = Data!OpenOn(S, T, sessions, a, e)
             /\ Data!TradableOn(C, a, e) = Data!TradableOn(S, a, e)
  <2>1. C[a].bars[e] = S[a].bars[e]
    BY <1>3 DEF Data!Days
  <2>2. Data!OpenOn(C, K, before, a, e) = Data!OpenOn(S, T, sessions, a, e)
    BY <1>4, <1>6, <2>1 DEF Data!OpenOn
  <2>3. Data!TradableOn(C, a, e) = Data!TradableOn(S, a, e)
    BY <2>1, Zenon DEF Data!TradableOn
  <2> QED BY <2>2, <2>3
<1>8. Data!RowOf(C, K, before, e) = Data!RowOf(S, T, sessions, e)
  BY <1>6, <1>7, Zenon DEF Data!RowOf
<1> QED BY <1>2, <1>6, <1>8 DEF C, K

\* What every reachable state of the data is like.
PanelInv ==
  /\ files = [a \in DataAssets |-> files[a]]
  /\ \A a \in DataAssets : /\ files[a] = [bars |-> files[a].bars, defects |-> files[a].defects]
                           /\ files[a].bars \in [Data!Days -> Bars]
  /\ rates \in Tables
  /\ manifest.built \in BOOLEAN
  /\ \/ panel \in {Data!NoPanel, Data!Refused("manifest")}
     \/ \E mode \in Data!CalendarModes : panel = Data!Framed(mode)

\* What a panel that was built is made of.
BuiltOf(sessions) ==
  LET valued == Data!Valued(files, rates, sessions)
  IN  /\ panel = [status |-> "built", sessions |-> sessions, first |-> Data!Min(valued),
                  rows |-> [d \in sessions |-> Data!RowOf(files, rates, sessions, d)]]
      /\ valued # {} /\ ~Data!RatesMissing(rates, sessions)
      /\ Data!Merged(files) = {}

\* The files and the rates are as the panel needs them.
LEMMA SourcesAre ==
  ASSUME Data!DataAssumption, PanelInv
  PROVE  Readable(files) /\ RateTable(rates)
<1>1. RateTable(rates)
  BY DEF RateTable, PanelInv, Data!DataAssumption
<1>2. ASSUME NEW a \in DataAssets, NEW d \in Data!Days, files[a].bars[d] # NoBar
      PROVE  files[a].bars[d].open \in Int /\ files[a].bars[d].close \in Int
  <2>1. files[a].bars[d] \in Bars \ {NoBar}
    BY <1>2 DEF PanelInv
  <2> QED BY <2>1 DEF Data!DataAssumption
<1> QED BY <1>1, <1>2 DEF Readable, PanelInv

\* A panel is built on sessions among the days, or says why it is not.
LEMMA BuiltIs ==
  ASSUME Data!DataAssumption, PanelInv
  PROVE  /\ Data!Built => \E sessions \in SUBSET Data!Days : BuiltOf(sessions)
         /\ panel.status \in {"none", "manifest", "quality", "no_sessions", "fx_missing",
                              "never_valued", "built"}
<1>1. CASE panel \in {Data!NoPanel, Data!Refused("manifest")}
  BY <1>1 DEF Data!NoPanel, Data!Refused, Data!Built
<1>2. ASSUME NEW mode \in Data!CalendarModes, panel = Data!Framed(mode)
      PROVE  /\ Data!Built => \E sessions \in SUBSET Data!Days : BuiltOf(sessions)
             /\ panel.status \in {"quality", "no_sessions", "fx_missing", "never_valued", "built"}
  <2> DEFINE sessions == Data!Composite(mode)
             valued == Data!Valued(files, rates, sessions)
  <2>1. sessions \in SUBSET Data!Days
    <3>1. \A a \in DataAssets : Data!Observed(a) \in SUBSET Data!Days
      BY DEF Data!Observed
    <3>2. Data!UnionDays \in SUBSET Data!Days
      BY <3>1 DEF Data!UnionDays
    <3> QED BY <1>2, <3>2 DEF Data!Composite, Data!CalendarModes
  <2>2. CASE Data!Merged(files) # {}
    BY <1>2, <2>2 DEF Data!Framed, Data!Refused, Data!Built
  <2>3. CASE Data!Merged(files) = {}
    <3>1. panel = Data!PanelOf(files, rates, sessions)
      BY <1>2, <2>3 DEF Data!Framed
    <3>2. CASE sessions = {} \/ Data!RatesMissing(rates, sessions) \/ valued = {}
      <4> HIDE DEF sessions
      <4> QED BY <3>1, <3>2 DEF Data!PanelOf, Data!Refused, Data!Built
    <3>3. CASE ~(sessions = {} \/ Data!RatesMissing(rates, sessions) \/ valued = {})
      <4> HIDE DEF sessions
      <4>1. BuiltOf(sessions)
        BY <2>3, <3>1, <3>3 DEF Data!PanelOf, BuiltOf
      <4>2. panel.status = "built"
        BY <4>1 DEF BuiltOf
      <4> QED BY <2>1, <4>1, <4>2
    <3> QED BY <3>2, <3>3
  <2> QED BY <2>2, <2>3
<1> QED BY <1>1, <1>2 DEF PanelInv

\* An asset that had a close at the first common session has one ever after.
LEMMA ValuedAfter ==
  ASSUME Data!DataAssumption, PanelInv, NEW sessions \in SUBSET Data!Days, BuiltOf(sessions)
  PROVE  LET first == Data!Min(Data!Valued(files, rates, sessions))
         IN  /\ first \in sessions /\ first \in Data!Valued(files, rates, sessions)
             /\ \A e \in Data!Valued(files, rates, sessions) : first <= e
             /\ \A d \in sessions : Foreign # {} => Data!KnownRates(rates, d) # {}
             /\ \A d \in sessions, a \in DataAssets :
                  d >= first => Data!SeenBy(files, sessions, a, d) # {}
<1> DEFINE valued == Data!Valued(files, rates, sessions)
<1>1. valued \in SUBSET sessions /\ valued # {}
  BY DEF BuiltOf, Data!Valued
<1>2. PICK first \in valued : first = Data!Min(valued) /\ \A e \in valued : first <= e
  <2>1. valued \in SUBSET Data!Days
    BY <1>1
  <2> HIDE DEF valued
  <2> QED BY <1>1, <2>1, FirstDay
<1>3. \A d \in sessions : Foreign # {} => Data!KnownRates(rates, d) # {}
  BY DEF BuiltOf, Data!RatesMissing
<1>4. ASSUME NEW d \in sessions, NEW a \in DataAssets, d >= first
      PROVE  Data!SeenBy(files, sessions, a, d) # {}
  <2>1. Data!CloseOn(files, rates, sessions, a, first) # NoPrice
    BY <1>2 DEF Data!Valued
  <2>2. Data!SeenBy(files, sessions, a, first) # {}
    BY <2>1 DEF Data!CloseOn
  <2>3. PICK e \in sessions : e <= first /\ files[a].bars[e] # NoBar
    BY <2>2 DEF Data!SeenBy
  <2>4. e \in Data!Days /\ first \in Data!Days /\ d \in Data!Days
    BY <1>1, <1>2
  <2>5. e <= d
    BY <1>4, <2>3, <2>4 DEF Data!Days
  <2> QED BY <2>3, <2>5 DEF Data!SeenBy
<1> HIDE DEF valued
<1> QED BY <1>1, <1>2, <1>3, <1>4 DEF valued

\* Cutting the data after a day leaves the rows up to it.
LEMMA PanelForward ==
  ASSUME Data!DataAssumption, PanelInv
  PROVE  Data!ForwardOnly
<1> SUFFICES ASSUME Data!Built, NEW d \in panel.sessions, d >= panel.first
             PROVE  LET earlier == Data!PanelOf(Data!Until(files, d), Data!KnownUntil(rates, d),
                                                {e \in panel.sessions : e <= d})
                    IN  /\ earlier.status = "built" /\ earlier.first = panel.first
                        /\ \A e \in earlier.sessions : earlier.rows[e] = panel.rows[e]
  BY DEF Data!ForwardOnly
<1>1. PICK sessions \in SUBSET Data!Days : BuiltOf(sessions)
  BY BuiltIs
<1>2. Readable(files) /\ RateTable(rates)
  BY SourcesAre
<1> DEFINE C == Data!Until(files, d)
           K == Data!KnownUntil(rates, d)
           before == {e \in sessions : e <= d}
           valued == Data!Valued(files, rates, sessions)
           left == Data!Valued(C, K, before)
<1>3. /\ panel.sessions = sessions /\ panel.first = Data!Min(valued)
      /\ panel.rows = [e \in sessions |-> Data!RowOf(files, rates, sessions, e)]
  BY <1>1 DEF BuiltOf
<1>4. PICK first \in valued : /\ first = panel.first /\ first \in sessions
                              /\ \A e \in valued : first <= e
  BY <1>1, <1>3, ValuedAfter
<1>5. d \in Data!Days /\ d \in sessions /\ d \in before
  <2>1. d \in sessions
    BY <1>3
  <2>2. d \in Data!Days
    BY <2>1
  <2>3. d <= d
    BY <2>2 DEF Data!Days
  <2> QED BY <2>1, <2>2, <2>3
<1>6. \A e \in sessions : Foreign # {} => Data!KnownRates(rates, e) # {}
  BY <1>1, ValuedAfter
<1>7. ASSUME NEW e \in before
      PROVE  /\ \A a \in DataAssets : Data!CloseOn(C, K, before, a, e)
                                    = Data!CloseOn(files, rates, sessions, a, e)
             /\ Data!RowOf(C, K, before, e) = Data!RowOf(files, rates, sessions, e)
  <2>1. e \in sessions /\ e <= d /\ e \in Data!Days
    BY <1>3 DEF Data!Days
  <2>2. Foreign # {} => Data!KnownRates(rates, e) # {}
    BY <1>6, <2>1, Zenon
  <2> QED BY <1>2, <1>5, <2>1, <2>2, CutRow, ZenonT(30)
<1>8. left = {e \in valued : e <= d}
  <2> HIDE DEF C, K
  <2> QED BY <1>7, Zenon DEF Data!Valued
<1>9. first \in left /\ \A e \in left : first <= e
  <2>1. first <= d
    BY <1>4, <1>5 DEF Data!Days
  <2> HIDE DEF left, valued
  <2> QED BY <1>4, <1>8, <2>1
<1>10. Data!Min(left) = first
  <2>1. left \in SUBSET Data!Days
    BY DEF Data!Valued
  <2> HIDE DEF left
  <2> QED BY <1>9, <2>1, FirstIs
<1>11. ~Data!RatesMissing(K, before)
  <2>1. ASSUME NEW e \in before, Foreign # {} PROVE Data!KnownRates(K, e) # {}
    <3>1. e \in Data!Days /\ e <= d
      OBVIOUS
    <3>2. PICK a \in Foreign : TRUE
      BY <2>1
    <3>3. a \in DataAssets
      BY DEF Data!DataAssumption
    <3>4. Data!KnownRates(K, e) = Data!KnownRates(rates, e)
      BY <1>2, <1>5, <3>1, <3>3, CutRate
    <3> QED BY <1>6, <2>1, <3>4
  <2> HIDE DEF K, before
  <2> QED BY <2>1 DEF Data!RatesMissing
<1>12. Data!PanelOf(C, K, before)
         = [status |-> "built", sessions |-> before, first |-> Data!Min(left),
            rows |-> [e \in before |-> Data!RowOf(C, K, before, e)]]
  <2>1. before # {} /\ left # {}
    BY <1>5, <1>9
  <2>2. left = Data!Valued(C, K, before)
    OBVIOUS
  <2> HIDE DEF before, left, C, K
  <2>3. Data!Valued(C, K, before) # {}
    BY <2>1, <2>2
  <2>4. Data!PanelOf(C, K, before)
          = [status |-> "built", sessions |-> before, first |-> Data!Min(Data!Valued(C, K, before)),
             rows |-> [e \in before |-> Data!RowOf(C, K, before, e)]]
    BY <1>11, <2>1, <2>3, Zenon DEF Data!PanelOf
  <2> QED BY <2>2, <2>4, Zenon
<1>13. \A e \in before : Data!RowOf(C, K, before, e) = panel.rows[e]
  BY <1>3, <1>7
<1> DEFINE earlier == Data!PanelOf(C, K, before)
<1>14. /\ earlier.status = "built" /\ earlier.first = panel.first /\ earlier.sessions = before
       /\ \A e \in before : earlier.rows[e] = panel.rows[e]
  <2> HIDE DEF C, K, left, valued, before
  <2>1. earlier = [status |-> "built", sessions |-> before, first |-> Data!Min(left),
                   rows |-> [e \in before |-> Data!RowOf(C, K, before, e)]]
    BY <1>12
  <2> HIDE DEF earlier
  <2>2. earlier.status = "built" /\ earlier.sessions = before /\ earlier.first = Data!Min(left)
    BY <2>1
  <2>3. \A e \in before : earlier.rows[e] = Data!RowOf(C, K, before, e)
    BY <2>1
  <2> QED BY <1>4, <1>10, <1>13, <2>2, <2>3
<1>15. before = {e \in panel.sessions : e <= d}
  BY <1>3
<1> HIDE DEF before
<1> QED BY <1>14, <1>15

\* The bars of files without a finding.
LEMMA BarsAre ==
  ASSUME Data!DataAssumption, PanelInv, Data!Merged(files) = {},
         NEW a \in DataAssets, NEW d \in Data!Days, files[a].bars[d] # NoBar
  PROVE  LET bar == files[a].bars[d]
         IN  /\ bar.open \in Nat /\ bar.close \in Nat
             /\ ~Data!ZeroPriced => bar.open > 0 /\ bar.close > 0
<1> DEFINE bar == files[a].bars[d]
<1>1. bar.open \in Int /\ bar.close \in Int
  BY SourcesAre DEF Readable
<1>2. bar \in Data!Recorded(files[a])
  BY DEF Data!Recorded
<1>3. Data!Findings(files[a]) = {}
  BY DEF Data!Merged
<1>4. ~(\E b \in Data!Recorded(files[a]) : b.open < 0 \/ b.close < 0)
  BY <1>3 DEF Data!Findings
<1>5. ~(bar.open < 0 \/ bar.close < 0)
  BY <1>2, <1>4
<1>6. ~Data!ZeroPriced => ~(bar.open = 0 \/ bar.close = 0)
  BY <1>2 DEF Data!ZeroPriced
<1> HIDE DEF bar
<1> QED BY <1>1, <1>5, <1>6 DEF bar

\* From the first common session on everything has a price.
LEMMA PanelValued ==
  ASSUME Data!DataAssumption, PanelInv
  PROVE  Data!ValuationComplete
<1> SUFFICES ASSUME Data!Built, NEW d \in panel.sessions, d >= panel.first, NEW a \in DataAssets
             PROVE  /\ panel.rows[d].open[a] # NoPrice /\ panel.rows[d].close[a] # NoPrice
                    /\ ~Data!ZeroPriced => panel.rows[d].open[a] > 0 /\ panel.rows[d].close[a] > 0
  BY DEF Data!ValuationComplete
<1>1. PICK sessions \in SUBSET Data!Days : BuiltOf(sessions)
  BY BuiltIs
<1>2. Readable(files) /\ RateTable(rates) /\ Data!Merged(files) = {}
  BY <1>1, SourcesAre DEF BuiltOf
<1>3. /\ d \in sessions /\ d \in Data!Days
      /\ Foreign # {} => Data!KnownRates(rates, d) # {}
      /\ Data!SeenBy(files, sessions, a, d) # {}
      /\ panel.rows[d] = Data!RowOf(files, rates, sessions, d)
  <2>1. d \in sessions /\ d >= Data!Min(Data!Valued(files, rates, sessions))
        /\ panel.rows = [e \in sessions |-> Data!RowOf(files, rates, sessions, e)]
    BY <1>1 DEF BuiltOf
  <2> QED BY <1>1, <2>1, ValuedAfter
<1> DEFINE close == Data!CloseOn(files, rates, sessions, a, d)
           open == Data!OpenOn(files, rates, sessions, a, d)
<1>4. PICK r \in Nat \ {0} : r = Data!RateOn(rates, a, d)
  BY <1>2, <1>3, RateIs
<1>5. PICK c \in Nat : close = c * r /\ (~Data!ZeroPriced => c > 0)
  <2>1. PICK e \in Data!SeenBy(files, sessions, a, d) : close = files[a].bars[e].close * r
    BY <1>2, <1>3, <1>4, CloseIs
  <2>2. e \in Data!Days /\ files[a].bars[e] # NoBar
    BY <2>1 DEF Data!SeenBy
  <2>3. files[a].bars[e].close \in Nat /\ (~Data!ZeroPriced => files[a].bars[e].close > 0)
    BY <1>2, <2>2, BarsAre
  <2> QED BY <2>1, <2>3
<1>6. PICK o \in Nat : open = o * r /\ (~Data!ZeroPriced => o > 0)
  <2>1. CASE files[a].bars[d] = NoBar
    BY <1>5, <2>1 DEF Data!OpenOn
  <2>2. CASE files[a].bars[d] # NoBar
    <3>1. files[a].bars[d].open \in Nat /\ (~Data!ZeroPriced => files[a].bars[d].open > 0)
      BY <1>2, <1>3, <2>2, BarsAre
    <3>2. open = files[a].bars[d].open * r
      BY <1>4, <2>2 DEF Data!OpenOn
    <3> QED BY <3>1, <3>2
  <2> QED BY <2>1, <2>2
<1>7. c * r \in Int /\ o * r \in Int /\ (c > 0 => c * r > 0) /\ (o > 0 => o * r > 0)
  <2>1. r > 0
    BY <1>4
  <2> QED BY <1>4, <2>1
<1>8. panel.rows[d].open[a] = open /\ panel.rows[d].close[a] = close
  BY <1>3 DEF Data!RowOf
<1> HIDE DEF open, close
<1> QED BY <1>5, <1>6, <1>7, <1>8 DEF Data!DataAssumption

\* On the observed calendar a close is the latest of any day.
LEMMA PanelLatest ==
  ASSUME Data!DataAssumption, PanelInv
  PROVE  Data!LatestClose
<1> SUFFICES ASSUME Data!Built, panel.sessions = Data!UnionDays,
                    NEW d \in panel.sessions, NEW a \in DataAssets,
                    {e \in Data!Observed(a) : e <= d} # {}
             PROVE  panel.rows[d].close[a]
                      = files[a].bars[Data!Max({e \in Data!Observed(a) : e <= d})].close
                          * Data!RateOn(rates, a, d)
  BY DEF Data!LatestClose
<1>1. PICK sessions \in SUBSET Data!Days : BuiltOf(sessions)
  BY BuiltIs
<1>2. sessions = Data!UnionDays /\ panel.rows[d] = Data!RowOf(files, rates, sessions, d)
  BY <1>1 DEF BuiltOf
<1>3. Data!SeenBy(files, sessions, a, d) = {e \in Data!Observed(a) : e <= d}
  <2>1. Data!Observed(a) = {e \in sessions : files[a].bars[e] # NoBar}
    BY <1>2 DEF Data!UnionDays, Data!Observed
  <2> QED BY <2>1 DEF Data!SeenBy
<1>4. panel.rows[d].close[a] = Data!CloseOn(files, rates, sessions, a, d)
  BY <1>2 DEF Data!RowOf
<1> QED BY <1>3, <1>4 DEF Data!CloseOn

\* A part of the panel values everything from its first session on.
LEMMA PanelSliced ==
  ASSUME Data!DataAssumption, PanelInv
  PROVE  Data!SliceValued
<1> SUFFICES ASSUME Data!Built, NEW start \in panel.sessions, NEW end \in panel.sessions,
                    panel.first <= start, start <= end
             PROVE  LET s == Data!Slice(panel, start, end)
                    IN  s.first = start
                        /\ \A d \in s.sessions, a \in DataAssets : s.rows[d].close[a] # NoPrice
  BY DEF Data!SliceValued
<1>1. PICK sessions \in SUBSET Data!Days : BuiltOf(sessions)
  BY BuiltIs
<1>2. PICK first, rows : panel = [status |-> "built", sessions |-> sessions, first |-> first,
                                  rows |-> rows]
  BY <1>1 DEF BuiltOf
<1>3. first = panel.first /\ first \in Data!Days /\ panel.sessions = sessions /\ panel.rows = rows
  <2>1. first = Data!Min(Data!Valued(files, rates, sessions))
    BY <1>1, <1>2 DEF BuiltOf
  <2> QED BY <1>1, <1>2, <2>1, ValuedAfter
<1> DEFINE kept == {d \in sessions : start <= d /\ d <= end}
<1>4. /\ start \in Data!Days /\ end \in Data!Days /\ kept \in SUBSET Data!Days
      /\ start \in kept /\ \A d \in kept : start <= d /\ d \in sessions
  <2>1. start \in sessions /\ end \in sessions
    BY <1>3
  <2>2. start \in Data!Days /\ end \in Data!Days
    BY <2>1
  <2>3. start <= start
    BY <2>2 DEF Data!Days
  <2> QED BY <2>1, <2>2, <2>3
<1>5. Data!Min(kept) = start
  <2> HIDE DEF kept
  <2> QED BY <1>4, FirstIs
<1>6. Data!Max({first, start}) = start
  <2>1. PICK m \in {first, start} : /\ m = Data!Max({first, start})
                                    /\ \A e \in {first, start} : e <= m
    BY <1>3, <1>4, LatestDay
  <2> QED BY <1>3, <1>4, <2>1 DEF Data!Days
<1>7. Data!Slice(panel, start, end)
        = [status |-> "built", sessions |-> kept, first |-> start,
           rows |-> [d \in kept |-> rows[d]]]
  <2>1. Data!Slice(panel, start, end)
          = [panel EXCEPT !.sessions = kept, !.rows = [d \in kept |-> rows[d]],
                          !.first = Data!Max({first, Data!Min(kept)})]
    BY <1>3, Zenon DEF Data!Slice
  <2> HIDE DEF kept
  <2> QED BY <1>2, <1>5, <1>6, <2>1
<1>8. ASSUME NEW d \in kept, NEW a \in DataAssets PROVE rows[d].close[a] # NoPrice
  <2>1. d \in panel.sessions /\ d >= panel.first
    BY <1>3, <1>4 DEF Data!Days
  <2>2. panel.rows[d].close[a] # NoPrice
    BY <2>1, PanelValued DEF Data!ValuationComplete
  <2> QED BY <1>3, <2>2
<1> HIDE DEF kept
<1> QED BY <1>7, <1>8

\* The files of a data set are of their assets.
LEMMA PanelInit ==
  ASSUME Data!DataAssumption, Data!Init
  PROVE  PanelInv
<1>1. files \in [DataAssets -> UNION {Files[a] : a \in DataAssets}] /\ \A a \in DataAssets : files[a] \in Files[a]
  BY DEF Data!Init
<1>2. \A a \in DataAssets : /\ files[a] = [bars |-> files[a].bars, defects |-> files[a].defects]
                            /\ files[a].bars \in [Data!Days -> Bars]
  BY <1>1 DEF Data!DataAssumption
<1> QED BY <1>1, <1>2 DEF Data!Init, PanelInv, Data!NoManifest

\* An edit changes one bar, before there is a panel.
LEMMA EditKeeps ==
  ASSUME PanelInv, NEW a \in DataAssets, NEW d \in Data!Days, NEW bar \in Bars,
         Data!EditFile(a, d, bar)
  PROVE  PanelInv'
<1>1. /\ files' = [files EXCEPT ![a].bars[d] = bar]
      /\ UNCHANGED <<rates, manifest, panel>> /\ panel = Data!NoPanel
  BY DEF Data!EditFile
<1>2. PICK bars \in [Data!Days -> Bars] : \E defects : files[a] = [bars |-> bars, defects |-> defects]
  BY DEF PanelInv
<1>3. PICK defects : files[a] = [bars |-> bars, defects |-> defects]
  BY <1>2
<1>4. files'[a] = [bars |-> [bars EXCEPT ![d] = bar], defects |-> defects]
  <2>1. files'[a] = [files[a] EXCEPT !.bars = [files[a].bars EXCEPT ![d] = bar]]
    BY <1>1 DEF PanelInv
  <2> QED BY <1>3, <2>1
<1>5. \A b \in DataAssets \ {a} : files'[b] = files[b]
  BY <1>1 DEF PanelInv
<1>6. files' = [b \in DataAssets |-> files'[b]]
  BY <1>1 DEF PanelInv
<1>7. [bars EXCEPT ![d] = bar] \in [Data!Days -> Bars]
  BY <1>2
<1>8. ASSUME NEW b \in DataAssets
      PROVE  /\ files'[b] = [bars |-> files'[b].bars, defects |-> files'[b].defects]
             /\ files'[b].bars \in [Data!Days -> Bars]
  BY <1>4, <1>5, <1>7 DEF PanelInv
<1>9. Data!NoPanel' = Data!NoPanel
  BY DEF Data!NoPanel
<1> QED BY <1>1, <1>6, <1>8, <1>9 DEF PanelInv

\* A panel is made of the files as they are.
LEMMA FramedUnchanged ==
  ASSUME UNCHANGED <<files, rates>>, NEW mode \in Data!CalendarModes
  PROVE  Data!Framed(mode)' = Data!Framed(mode)
<1>1. Data!UnionDays' = Data!UnionDays
  BY DEF Data!UnionDays, Data!Observed
<1>2. Data!Composite(mode)' = Data!Composite(mode)
  BY <1>1 DEF Data!Composite, Data!Observed
<1>3. Data!Merged(files)' = Data!Merged(files)
  OBVIOUS
<1>4. Data!PanelOf(files, rates, Data!Composite(mode))' = Data!PanelOf(files, rates, Data!Composite(mode))
  BY <1>2
<1> QED BY <1>3, <1>4 DEF Data!Framed

\* Every step keeps it.
LEMMA PanelStep ==
  ASSUME Data!DataAssumption, PanelInv, [Data!Next]_(Data!vars)
  PROVE  PanelInv'
<1>1. ASSUME UNCHANGED <<files, rates>>, manifest'.built \in BOOLEAN,
             \/ panel' = panel
             \/ panel' = Data!Refused("manifest")
             \/ \E mode \in Data!CalendarModes : panel' = Data!Framed(mode)
      PROVE  PanelInv'
  <2>1. \A mode \in Data!CalendarModes : Data!Framed(mode)' = Data!Framed(mode)
    BY <1>1, FramedUnchanged
  <2>2. \/ panel' \in {Data!NoPanel, Data!Refused("manifest")}
        \/ \E mode \in Data!CalendarModes : panel' = Data!Framed(mode)'
    BY <1>1, <2>1 DEF PanelInv
  <2> QED BY <1>1, <2>2 DEF PanelInv, Data!NoPanel, Data!Refused
<1>2. CASE Data!BuildManifest
  BY <1>1, <1>2 DEF Data!BuildManifest
<1>3. ASSUME NEW a \in DataAssets, NEW d \in Data!Days, NEW bar \in Bars, Data!EditFile(a, d, bar)
      PROVE  PanelInv'
  BY <1>3, EditKeeps
<1>4. CASE Data!LoadPanel
  <2>1. "union" \in Data!CalendarModes
    BY DEF Data!CalendarModes
  <2> QED BY <1>1, <1>4, <2>1, Zenon DEF Data!LoadPanel, PanelInv
<1>5. ASSUME NEW mode \in Data!CalendarModes, Data!BuildPanel(mode) PROVE PanelInv'
  BY <1>1, <1>5, Zenon DEF Data!BuildPanel, PanelInv
<1>6. CASE UNCHANGED Data!vars
  BY <1>1, <1>6, Zenon DEF Data!vars, PanelInv
<1> QED BY <1>2, <1>3, <1>4, <1>5, <1>6 DEF Data!Next

(***************************************************************************)
(* A panel shows what was known (environments/panel.py): no row depends on *)
(* a later bar or rate, from the first common session on everything has a  *)
(* price, on the observed calendar the latest one, and so it is in every   *)
(* part of the panel; for any files, rates, calendars and edits.           *)
(***************************************************************************)
THEOREM PanelStaysSound ==
  ASSUME Data!DataAssumption
  PROVE  Data!Spec => [](Data!TypeOK /\ Data!PanelSound)
<1>1. Data!Init => PanelInv
  BY PanelInit
<1>2. PanelInv /\ [Data!Next]_(Data!vars) => PanelInv'
  BY PanelStep
<1>3. PanelInv => Data!TypeOK /\ Data!PanelSound
  <2> SUFFICES ASSUME PanelInv PROVE Data!TypeOK /\ Data!PanelSound
    OBVIOUS
  <2>1. Data!TypeOK
    BY BuiltIs DEF Data!TypeOK, PanelInv
  <2>2. Data!PanelSound
    BY PanelForward, PanelValued, PanelLatest, PanelSliced DEF Data!PanelSound
  <2> QED BY <2>1, <2>2
<1> QED BY <1>1, <1>2, <1>3, PTL DEF Data!Spec

(***************************************************************************)
(* A data set that was loaded is the one its manifest describes, and       *)
(* passed every quality check, whatever was edited after it was recorded   *)
(* (panel.py:82-85).                                                       *)
(***************************************************************************)
THEOREM PanelAlwaysVerified ==
  Data!Spec => Data!PanelVerified
<1>1. [Data!Next]_(Data!vars)
        => [Data!LoadPanel /\ Data!Built' => /\ manifest.digest = [ohlcv |-> files, fx |-> rates]
                                             /\ \A a \in DataAssets : Data!Findings(files[a]) = {}
           ]_(Data!vars)
  <2> SUFFICES ASSUME Data!LoadPanel, Data!Built'
               PROVE  /\ manifest.digest = [ohlcv |-> files, fx |-> rates]
                      /\ \A a \in DataAssets : Data!Findings(files[a]) = {}
    OBVIOUS
  <2>1. panel'.status = "built" /\ panel' = IF Data!Verified THEN Data!Framed("union")
                                            ELSE Data!Refused("manifest")
    BY DEF Data!LoadPanel, Data!Built
  <2>2. Data!Verified
    BY <2>1 DEF Data!Refused
  <2>3. Data!Merged(files) = {}
    BY <2>1, <2>2 DEF Data!Framed, Data!Refused
  <2> QED BY <2>2, <2>3 DEF Data!Verified, Data!Merged
<1> QED BY <1>1, PTL DEF Data!Spec, Data!PanelVerified

-----------------------------------------------------------------------------
(***************************************************************************)
(* What ends a trial early: the callbacks of its training (TrainingLoop)   *)
(* and the schedulers of its study (TrialSchedulers).                      *)
(*                                                                         *)
(* The tracker of the callbacks points at the first of the best scores,    *)
(* `stale` validations ago.                                                *)
(***************************************************************************)
\* Where the tracker points.
TrackerIs ==
  /\ scores = <<>> => tracker.best = Worst /\ tracker.stale = 0
  /\ scores # <<>> =>
       /\ tracker.stale < Len(scores) /\ tracker.best = scores[Len(scores) - tracker.stale]
       /\ \A j \in 1..Len(scores) : scores[j] <= tracker.best
       /\ \A i \in 1..(Len(scores) - tracker.stale - 1) : scores[i] < tracker.best

\* Early stopping is on, and its patience is used up.
UsedUp ==
  callbacks.validationFreq > 0 /\ callbacks.patience > 0 /\ Loop!Exhausted(tracker)

\* The invariant of a training run.
LoopInv ==
  /\ callbacks \in CallbackConfigs
  /\ calls \in 0..MaxSteps /\ (training = "running" => calls < MaxSteps)
  /\ tracker \in [best : Scores \cup {Worst}, evaluations : Nat, stale : Nat]
  /\ scores \in Seq(Scores) /\ tracker.evaluations = Len(scores)
  /\ callbacks.validationFreq = 0 => scores = <<>>
  /\ written.checkpoints \subseteq 1..calls /\ written.audit \subseteq 1..calls
  /\ training \in {"running", "stopped", "raised", "finished"}
  /\ TrackerIs
  /\ training = "running" => ~UsedUp
  /\ training = "stopped" /\ ~callbacks.drawdownGuard => UsedUp

\* A validation leaves the tracker at the first of the best.
LEMMA ValidatedIs ==
  ASSUME Loop!TrainingAssumption, LoopInv, NEW score \in Scores,
         tracker' = Loop!Validated(score), scores' = Append(scores, score)
  PROVE  /\ tracker' \in [best : Scores \cup {Worst}, evaluations : Nat, stale : Nat]
         /\ scores' \in Seq(Scores) /\ tracker'.evaluations = Len(scores')
         /\ TrackerIs'
<1>1. PICK best \in Int : best = tracker.best /\ best \in Scores \cup {Worst}
  BY DEF LoopInv, Loop!TrainingAssumption
<1>2. PICK stale \in Nat : stale = tracker.stale
  BY DEF LoopInv
<1>3. PICK n \in Nat : n = Len(scores) /\ n = tracker.evaluations
  BY DEF LoopInv
<1>4. score \in Int /\ Worst \in Int /\ Worst < score
  BY DEF Loop!TrainingAssumption
<1>5. Loop!Max({best, score}) = IF score > best THEN score ELSE best
  <2> DEFINE top == IF score > best THEN score ELSE best
  <2>1. top \in {best, score} /\ \A y \in {best, score} : top >= y
    BY <1>1, <1>4
  <2>2. \A x \in {best, score} : (\A y \in {best, score} : x >= y) => x = top
    BY <1>1, <1>4
  <2> QED BY <2>1, <2>2 DEF Loop!Max
<1>6. tracker' = [best |-> IF score > best THEN score ELSE best, evaluations |-> n + 1,
                  stale |-> IF score > best THEN 0 ELSE stale + 1]
  BY <1>1, <1>2, <1>3, <1>5 DEF Loop!Validated
<1>7. /\ scores' \in Seq(Scores) /\ Len(scores') = n + 1 /\ scores' # <<>>
      /\ scores'[n + 1] = score /\ \A i \in 1..n : scores'[i] = scores[i]
  BY <1>3 DEF LoopInv
<1>8. \A i \in 1..n : scores[i] \in Int
  <2>1. scores \in Seq(Scores) /\ Scores \subseteq Int
    BY DEF LoopInv, Loop!TrainingAssumption
  <2>2. \A i \in 1..Len(scores) : scores[i] \in Scores
    BY <2>1
  <2> QED BY <1>3, <2>1, <2>2
<1>9. TrackerIs'
  <2>1. CASE score > best
    <3>1. tracker'.best = score /\ tracker'.stale = 0
      BY <1>6, <2>1
    <3>2. \A i \in 1..n : scores[i] < score
      <4>1. ASSUME NEW i \in 1..n PROVE scores[i] <= best
        <5>1. Len(scores) # 0 /\ Len(<<>>) = 0
          BY <1>3
        <5>2. scores # <<>>
          BY <5>1
        <5> QED BY <1>1, <1>3, <5>2 DEF LoopInv, TrackerIs
      <4> QED BY <1>1, <1>4, <1>8, <2>1, <4>1
    <3>3. n + 1 - 0 = n + 1 /\ n + 1 - 0 - 1 = n /\ 0 < n + 1
      BY <1>3
    <3>4. \A j \in 1..(n + 1) : scores'[j] <= score
      BY <1>3, <1>4, <1>7, <1>8, <3>2
    <3>5. \A i \in 1..n : scores'[i] < score
      BY <1>7, <3>2
    <3> QED BY <1>7, <3>1, <3>3, <3>4, <3>5 DEF TrackerIs
  <2>2. CASE ~(score > best)
    <3>1. tracker'.best = best /\ tracker'.stale = stale + 1
      BY <1>6, <2>2
    <3>2. n > 0
      BY <1>1, <1>3, <1>4, <2>2 DEF LoopInv, TrackerIs
    <3>3. /\ stale < n /\ best = scores[n - stale]
          /\ \A j \in 1..n : scores[j] <= best
          /\ \A i \in 1..(n - stale - 1) : scores[i] < best
      <4>1. Len(scores) # 0 /\ Len(<<>>) = 0
        BY <1>3, <3>2
      <4>2. scores # <<>> /\ TrackerIs
        BY <1>1, <4>1, Zenon DEF LoopInv
      <4>3. /\ tracker.stale < Len(scores) /\ tracker.best = scores[Len(scores) - tracker.stale]
            /\ \A j \in 1..Len(scores) : scores[j] <= tracker.best
            /\ \A i \in 1..(Len(scores) - tracker.stale - 1) : scores[i] < tracker.best
        BY <4>2, Zenon DEF TrackerIs
      <4> QED BY <1>1, <1>2, <1>3, <4>3, Zenon
    <3>4. n + 1 - (stale + 1) = n - stale /\ n - stale \in 1..n
      BY <1>2, <1>3, <3>3
    <3>5. \A j \in 1..(n + 1) : scores'[j] <= best
      <4>1. score <= best
        BY <1>4, <1>8, <2>2
      <4>2. \A j \in 1..(n + 1) : j \in 1..n \/ j = n + 1
        BY <1>3
      <4> QED BY <1>7, <3>3, <4>1, <4>2, Zenon
    <3>6. \A i \in 1..(n - stale - 1) : scores'[i] < best
      BY <1>2, <1>3, <1>7, <3>3
    <3>7. stale + 1 < n + 1
      BY <1>2, <1>3, <3>3
    <3> QED BY <1>7, <3>1, <3>3, <3>4, <3>5, <3>6, <3>7 DEF TrackerIs
  <2> QED BY <2>1, <2>2
<1>10. tracker' \in [best : Scores \cup {Worst}, evaluations : Nat, stale : Nat]
  BY <1>1, <1>2, <1>3, <1>6
<1>11. tracker'.evaluations = Len(scores')
  BY <1>6, <1>7
<1> QED BY <1>7, <1>9, <1>10, <1>11

\* A step of the trainer keeps it.
LEMMA LoopStep ==
  ASSUME Loop!TrainingAssumption, LoopInv, [Loop!Next]_(Loop!vars)
  PROVE  LoopInv'
<1>1. CASE UNCHANGED Loop!vars
  BY <1>1 DEF Loop!vars, LoopInv, TrackerIs, UsedUp, Loop!Exhausted
<1>2. ASSUME NEW score \in Scores, NEW finite \in BOOLEAN, NEW drawdownHit \in BOOLEAN,
             Loop!Step(score, finite, drawdownHit)
      PROVE  LoopInv'
  <2> DEFINE validating == Loop!Due(callbacks.validationFreq, calls + 1)
             raises == callbacks.finiteGuard /\ ~finite
             seen == IF validating THEN Loop!Validated(score) ELSE tracker
  <2>1. /\ training = "running" /\ calls' = calls + 1 /\ UNCHANGED callbacks
        /\ tracker' = seen
        /\ scores' = IF validating THEN Append(scores, score) ELSE scores
        /\ written' = [checkpoints |-> written.checkpoints
                          \cup (IF Loop!Due(callbacks.checkpointFreq, calls + 1) THEN {calls + 1} ELSE {}),
                       audit |-> written.audit
                          \cup (IF Loop!Due(callbacks.auditFreq, calls + 1) /\ ~raises
                                THEN {calls + 1} ELSE {})]
        /\ training' = IF raises THEN "raised"
                       ELSE IF Loop!StopAsked(tracker', drawdownHit) THEN "stopped"
                       ELSE IF calls + 1 >= MaxSteps THEN "finished" ELSE "running"
    BY <1>2 DEF Loop!Step
  <2>2. callbacks \in CallbackConfigs /\ callbacks' = callbacks /\ callbacks.validationFreq \in Nat
    BY <2>1 DEF LoopInv, Loop!TrainingAssumption
  <2>3. /\ tracker' \in [best : Scores \cup {Worst}, evaluations : Nat, stale : Nat]
        /\ scores' \in Seq(Scores) /\ tracker'.evaluations = Len(scores')
        /\ TrackerIs'
    <3>1. CASE validating
      BY <2>1, <3>1, ValidatedIs
    <3>2. CASE ~validating
      <4>1. tracker' = tracker /\ scores' = scores
        BY <2>1, <3>2
      <4> QED BY <4>1 DEF LoopInv, TrackerIs
    <3> QED BY <3>1, <3>2
  <2>4. callbacks'.validationFreq = 0 => scores' = <<>>
    <3>1. callbacks.validationFreq = 0 => ~validating
      BY DEF Loop!Due
    <3> QED BY <2>1, <2>2, <3>1 DEF LoopInv
  <2>5. calls' \in 0..MaxSteps /\ (training' = "running" => calls' < MaxSteps)
    BY <2>1 DEF LoopInv, Loop!TrainingAssumption
  <2>6. written'.checkpoints \subseteq 1..calls' /\ written'.audit \subseteq 1..calls'
    <3>1. calls \in Nat /\ calls' = calls + 1
      BY <2>1 DEF LoopInv
    <3>2. 1..calls' = (1..calls) \cup {calls + 1}
      BY <3>1
    <3>3. written.checkpoints \subseteq 1..calls /\ written.audit \subseteq 1..calls
      BY DEF LoopInv
    <3> HIDE DEF raises
    <3> QED BY <2>1, <3>2, <3>3
  <2>7. training' \in {"running", "stopped", "raised", "finished"}
    BY <2>1
  <2>8. /\ training' = "running" => ~UsedUp'
        /\ training' = "stopped" /\ ~callbacks'.drawdownGuard => UsedUp'
    <3>1. UsedUp' <=> (callbacks.validationFreq > 0 /\ callbacks.patience > 0 /\ Loop!Exhausted(tracker'))
      BY <2>2 DEF UsedUp, Loop!Exhausted
    <3>2. training' = "running" => ~Loop!StopAsked(tracker', drawdownHit)
      BY <2>1
    <3>3. training' = "stopped" => Loop!StopAsked(tracker', drawdownHit)
      BY <2>1
    <3> QED BY <2>2, <3>1, <3>2, <3>3 DEF Loop!StopAsked
  <2> QED BY <2>2, <2>3, <2>4, <2>5, <2>6, <2>7, <2>8 DEF LoopInv
<1> QED BY <1>1, <1>2 DEF Loop!Next

\* It says that a run stops when patience is used up, and only then.
LEMMA LoopImplies ==
  ASSUME Loop!TrainingAssumption, LoopInv
  PROVE  Loop!TypeOK /\ Loop!EarlyStopJustified
<1>1. Loop!TypeOK
  BY DEF LoopInv, Loop!TypeOK
<1>2. ASSUME ~callbacks.drawdownGuard, callbacks.patience > 0, training \in {"running", "stopped"}
      PROVE  LET fresh == Len(scores) - callbacks.patience
             IN  (training = "stopped") <=>
                   /\ fresh >= 1
                   /\ \A j \in (fresh + 1)..Len(scores) : \E i \in 1..fresh : scores[j] <= scores[i]
  <2>1. PICK p \in Nat : p = callbacks.patience /\ p > 0
    BY <1>2 DEF LoopInv, Loop!TrainingAssumption
  <2>2. PICK n \in Nat : n = Len(scores) /\ n = tracker.evaluations
    BY DEF LoopInv
  <2>3. PICK stale \in Nat : stale = tracker.stale
    BY DEF LoopInv
  <2>4. (training = "stopped") <=> UsedUp
    BY <1>2 DEF LoopInv
  <2>5. UsedUp <=> (n > 0 /\ stale >= p)
    <3>1. UsedUp <=> (callbacks.validationFreq > 0 /\ n > 0 /\ stale >= p)
      BY <2>1, <2>2, <2>3 DEF UsedUp, Loop!Exhausted
    <3>2. n > 0 => callbacks.validationFreq > 0
      BY <2>2 DEF LoopInv, Loop!TrainingAssumption
    <3> QED BY <3>1, <3>2
  <2>6. \A i \in 1..n : scores[i] \in Int
    <3>1. scores \in Seq(Scores) /\ Scores \subseteq Int
      BY DEF LoopInv, Loop!TrainingAssumption
    <3>2. \A i \in 1..Len(scores) : scores[i] \in Scores
      BY <3>1
    <3> QED BY <2>2, <3>1, <3>2
  <2> DEFINE fresh == n - p
             over == fresh >= 1 /\ \A j \in (fresh + 1)..n : \E i \in 1..fresh : scores[j] <= scores[i]
  <2>7. n > 0 => /\ stale < n /\ n - stale \in 1..n
                 /\ \A j \in 1..n : scores[j] <= scores[n - stale]
                 /\ \A i \in 1..(n - stale - 1) : scores[i] < scores[n - stale]
    BY <2>2, <2>3 DEF LoopInv, TrackerIs
  <2>8. ASSUME n > 0, stale >= p PROVE over
    <3>1. n - stale \in 1..fresh /\ fresh >= 1
      BY <2>1, <2>2, <2>3, <2>7, <2>8
    <3>2. \A j \in (fresh + 1)..n : j \in 1..n
      BY <2>1, <2>2, <3>1
    <3> QED BY <2>7, <2>8, <3>1, <3>2
  <2>9. ASSUME over PROVE n > 0 /\ stale >= p
    <3>1. n > 0
      BY <2>1, <2>2, <2>9
    <3>2. ASSUME stale < p PROVE FALSE
      <4>1. n - stale \in (fresh + 1)..n
        BY <2>1, <2>2, <2>3, <3>1, <3>2
      <4>2. PICK i \in 1..fresh : scores[n - stale] <= scores[i]
        BY <2>9, <4>1
      <4>3. i \in 1..(n - stale - 1) /\ i \in 1..n
        BY <2>1, <2>2, <2>3, <3>2, <4>2
      <4>4. scores[i] < scores[n - stale] /\ scores[i] \in Int /\ scores[n - stale] \in Int
        BY <2>6, <2>7, <3>1, <4>3
      <4> QED BY <4>2, <4>4
    <3> QED BY <2>1, <2>3, <3>1, <3>2
  <2> HIDE DEF over
  <2>10. (training = "stopped") <=> over
    BY <2>4, <2>5, <2>8, <2>9
  <2> QED BY <2>1, <2>2, <2>10 DEF over
<1> QED BY <1>1, <1>2 DEF Loop!EarlyStopJustified

(***************************************************************************)
(* For any frequencies, patience and scores: a run without drawdown guard  *)
(* is stopped exactly when the last `patience` validations brought nothing *)
(* better than those before them (rl/callbacks/core.py:201).               *)
(***************************************************************************)
THEOREM EarlyStopAlwaysJustified ==
  ASSUME Loop!TrainingAssumption
  PROVE  Loop!Spec => [](Loop!TypeOK /\ Loop!EarlyStopJustified)
<1>1. Loop!Init => LoopInv
  <2> SUFFICES ASSUME Loop!Init PROVE LoopInv
    OBVIOUS
  <2>1. scores = <<>> /\ scores \in Seq(Scores) /\ Len(scores) = 0
    BY DEF Loop!Init
  <2>2. tracker = [best |-> Worst, evaluations |-> 0, stale |-> 0] /\ calls = 0
        /\ written = [checkpoints |-> {}, audit |-> {}] /\ training = "running"
        /\ callbacks \in CallbackConfigs
    BY DEF Loop!Init, Loop!NewTracker
  <2>3. TrackerIs /\ ~UsedUp
    BY <2>1, <2>2 DEF TrackerIs, UsedUp, Loop!Exhausted
  <2> QED BY <2>1, <2>2, <2>3 DEF LoopInv, Loop!TrainingAssumption
<1>2. LoopInv /\ [Loop!Next]_(Loop!vars) => LoopInv'
  BY LoopStep
<1>3. LoopInv => Loop!TypeOK /\ Loop!EarlyStopJustified
  BY LoopImplies
<1> QED BY <1>1, <1>2, <1>3, PTL DEF Loop!Spec

-----------------------------------------------------------------------------
(***************************************************************************)
(* The schedulers of a study, for any directions, resources, metrics and   *)
(* orders of the reports.                                                  *)
(*                                                                         *)
(* What a rung or a population holds was reported (Held), so that          *)
(* whoever is ahead of a trial there is ahead of it in the reports.  A     *)
(* rank without ties depends on what is held and not on its order, which   *)
(* is all that a checkpoint loses.                                         *)
(***************************************************************************)
\* The positions before i in a stable sort.
Before(keys, i) == {j \in DOMAIN keys : keys[j] < keys[i] \/ (j < i /\ keys[j] = keys[i])}

\* The cardinality that the schedulers use is the one the library is about.
LEMMA SchedSizes ==
  /\ \A S : Sched!Cardinality(S) = Cardinality(S)
  /\ \A S : Sched!IsFiniteSet(S) <=> IsFiniteSet(S)
<1>1. ASSUME NEW S PROVE Sched!Cardinality(S) = Cardinality(S)
  BY DEF Sched!Cardinality, Cardinality
<1>2. ASSUME NEW S PROVE Sched!IsFiniteSet(S) <=> IsFiniteSet(S)
  BY DEF Sched!IsFiniteSet, IsFiniteSet
<1> QED BY <1>1, <1>2

\* Every member has a place of its own, and every place has its member.
LEMMA PlaceIs ==
  ASSUME NEW n \in Nat, NEW keys \in [1..n -> Int]
  PROVE  /\ \A i \in 1..n : Sched!Place(keys, i) \in 1..n
         /\ \A i \in 1..n : Sched!Place(keys, i) = Cardinality(Before(keys, i)) + 1
         /\ \A i, j \in 1..n : Sched!Place(keys, i) = Sched!Place(keys, j) => i = j
         /\ \A m \in 1..n : /\ Sched!SortedAt(keys, m) \in 1..n
                            /\ Sched!Place(keys, Sched!SortedAt(keys, m)) = m
<1> DEFINE place == [i \in 1..n |-> Sched!Place(keys, i)]
<1>1. DOMAIN keys = 1..n /\ \A i \in 1..n : keys[i] \in Int
  OBVIOUS
<1>2. \A i \in 1..n : Sched!Place(keys, i) = Cardinality(Before(keys, i)) + 1
  BY SchedSizes, Zenon DEF Sched!Place, Before
<1>3. IsFiniteSet(1..n) /\ Cardinality(1..n) = n
  BY FS_Interval
<1>4. ASSUME NEW i \in 1..n
      PROVE  IsFiniteSet(Before(keys, i)) /\ Cardinality(Before(keys, i)) \in 0..(n - 1)
  <2>1. Before(keys, i) \in SUBSET ((1..n) \ {i})
    BY <1>1 DEF Before
  <2>2. IsFiniteSet((1..n) \ {i}) /\ Cardinality((1..n) \ {i}) = n - 1
    BY <1>3, FS_RemoveElement, Zenon
  <2>3. IsFiniteSet(Before(keys, i)) /\ Cardinality(Before(keys, i)) <= n - 1
    BY <2>1, <2>2, FS_Subset
  <2> QED BY <2>3, FS_CardinalityType
<1>5. ASSUME NEW i \in 1..n PROVE Sched!Place(keys, i) \in 1..n
  <2>1. PICK c \in 0..(n - 1) : c = Cardinality(Before(keys, i))
    BY <1>4
  <2>2. Sched!Place(keys, i) = c + 1
    BY <1>2, <2>1
  <2> QED BY <2>1, <2>2
<1>6. ASSUME NEW i \in 1..n, NEW j \in 1..n, i \in Before(keys, j)
      PROVE  Cardinality(Before(keys, i)) < Cardinality(Before(keys, j))
  <2>1. Before(keys, i) \cup {i} \in SUBSET Before(keys, j)
    <3>1. keys[i] < keys[j] \/ (i < j /\ keys[i] = keys[j])
      BY <1>6 DEF Before
    <3>2. ASSUME NEW k \in Before(keys, i) PROVE k \in Before(keys, j)
      <4>1. k \in 1..n /\ (keys[k] < keys[i] \/ (k < i /\ keys[k] = keys[i]))
        BY <1>1 DEF Before
      <4>2. keys[i] \in Int /\ keys[j] \in Int /\ keys[k] \in Int
        BY <1>1, <4>1
      <4>3. keys[k] < keys[j] \/ (k < j /\ keys[k] = keys[j])
        BY <3>1, <4>1, <4>2
      <4> QED BY <1>1, <4>1, <4>3 DEF Before
    <3> QED BY <1>6, <3>2
  <2>2. i \notin Before(keys, i)
    BY <1>1 DEF Before
  <2>3. IsFiniteSet(Before(keys, i)) /\ IsFiniteSet(Before(keys, j))
        /\ Cardinality(Before(keys, i)) \in Nat /\ Cardinality(Before(keys, j)) \in Nat
    BY <1>4
  <2>4. Cardinality(Before(keys, i) \cup {i}) = Cardinality(Before(keys, i)) + 1
    BY <2>2, <2>3, FS_AddElement, Zenon
  <2>5. Cardinality(Before(keys, i) \cup {i}) <= Cardinality(Before(keys, j))
    BY <2>1, <2>3, FS_Subset
  <2> QED BY <2>3, <2>4, <2>5
<1>7. ASSUME NEW i \in 1..n, NEW j \in 1..n, Sched!Place(keys, i) = Sched!Place(keys, j) PROVE i = j
  <2>1. Cardinality(Before(keys, i)) \in Nat /\ Cardinality(Before(keys, j)) \in Nat
    BY <1>4
  <2>2. Cardinality(Before(keys, i)) = Cardinality(Before(keys, j))
    BY <1>2, <1>7, <2>1
  <2>3. i \notin Before(keys, j) /\ j \notin Before(keys, i)
    BY <1>6, <2>1, <2>2
  <2> QED BY <1>1, <2>3 DEF Before
<1>8. place \in [1..n -> 1..n]
  BY <1>5
<1>9. place \in Surjection(1..n, 1..n)
  <2>1. \A i, j \in 1..n : place[i] = place[j] => i = j
    BY <1>7
  <2> HIDE DEF place
  <2>2. place \in Injection(1..n, 1..n)
    BY <1>8, <2>1 DEF Injection, IsInjective
  <2> QED BY <1>3, <2>2, FS_Injection
<1>10. ASSUME NEW m \in 1..n
       PROVE  /\ Sched!SortedAt(keys, m) \in 1..n
              /\ Sched!Place(keys, Sched!SortedAt(keys, m)) = m
  <2>1. \E i \in 1..n : place[i] = m
    <3> HIDE DEF place
    <3> QED BY <1>9 DEF Surjection
  <2>2. \E i \in DOMAIN keys : Sched!Place(keys, i) = m
    BY <1>1, <2>1
  <2> QED BY <1>1, <2>2, Zenon DEF Sched!SortedAt
<1> QED BY <1>2, <1>5, <1>7, <1>10

\* Metrics are ordered by their utilities, and one that is not a number is last.
LEMMA UtilityIs ==
  ASSUME Sched!SchedulerAssumption, scheduler \in Schedulers,
         NEW m \in Metrics \cup {NaN}, NEW k \in Metrics \cup {NaN}
  PROVE  /\ Sched!Utility(m) \in Int /\ NaN \in Int /\ NaN <= Sched!Utility(m)
         /\ Sched!Utility(m) = Sched!Utility(k) => m = k
         /\ Sched!Utility(m) <= Sched!Utility(k)
              <=> \/ m = NaN
                  \/ k # NaN /\ (IF Sched!direction = "maximize" THEN k >= m ELSE k <= m)
<1>1. Sched!direction \in {"maximize", "minimize"}
  BY DEF Sched!direction, Sched!SchedulerAssumption
<1>2. /\ m \in Int /\ k \in Int /\ NaN \in Int
      /\ m # NaN => NaN < m /\ NaN < -m
      /\ k # NaN => NaN < k /\ NaN < -k
  BY DEF Sched!SchedulerAssumption
<1>3. /\ Sched!Utility(m) = IF m = NaN \/ Sched!direction = "maximize" THEN m ELSE -m
      /\ Sched!Utility(k) = IF k = NaN \/ Sched!direction = "maximize" THEN k ELSE -k
  BY DEF Sched!Utility
<1> QED BY <1>1, <1>2, <1>3

\* What a rung or a population holds: one metric of each of some trials.
Entry == [trial : Trials, metric : Metrics \cup {NaN}]
Dict(F) ==
  /\ F \in Seq(Entry)
  /\ \A i, j \in 1..Len(F) : F[i].trial = F[j].trial => i = j
Items(F) == {F[i] : i \in 1..Len(F)}

\* There are as many members as items.
LEMMA DictSize ==
  ASSUME NEW F, Dict(F)
  PROVE  /\ IsFiniteSet(Items(F)) /\ Cardinality(Items(F)) = Len(F) /\ Len(F) \in Nat
         /\ DOMAIN F = 1..Len(F) /\ Items(F) \in SUBSET Entry
<1> DEFINE n == Len(F)
           at == [i \in 1..n |-> F[i]]
<1>1. n \in Nat /\ DOMAIN F = 1..n /\ \A i \in 1..n : F[i] \in Entry
  <2>1. F \in Seq(Entry)
    BY DEF Dict
  <2> QED BY <2>1
<1>2. IsFiniteSet(1..n) /\ Cardinality(1..n) = n
  BY <1>1, FS_Interval
<1>3. at \in Bijection(1..n, Items(F))
  <2>1. at \in [1..n -> Items(F)]
    BY DEF Items
  <2>2. \A i, j \in 1..n : at[i] = at[j] => i = j
    BY DEF Dict
  <2>3. \A x \in Items(F) : \E i \in 1..n : at[i] = x
    BY DEF Items
  <2> HIDE DEF at, n
  <2>4. at \in Injection(1..n, Items(F))
    BY <2>1, <2>2 DEF Injection, IsInjective
  <2>5. at \in Surjection(1..n, Items(F))
    BY <2>1, <2>3 DEF Surjection
  <2> QED BY <2>4, <2>5 DEF Bijection
<1>4. IsFiniteSet(Items(F)) /\ Cardinality(Items(F)) = n
  <2> HIDE DEF at, n
  <2>1. ExistsBijection(1..n, Items(F))
    BY <1>3 DEF ExistsBijection
  <2> QED BY <1>2, <2>1, FS_Bijection
<1>5. Items(F) \in SUBSET Entry
  BY <1>1 DEF Items
<1> QED BY <1>1, <1>4, <1>5

\* An assignment replaces the item of its trial, wherever it is.
LEMMA PutIs ==
  ASSUME NEW F, Dict(F), NEW e \in Entry
  PROVE  /\ Dict(Sched!Put(F, e))
         /\ Items(Sched!Put(F, e)) = {x \in Items(F) : x.trial # e.trial} \cup {e}
<1> DEFINE n == Len(F)
           P == Sched!Put(F, e)
<1>1. n \in Nat /\ DOMAIN F = 1..n /\ F \in Seq(Entry) /\ \A i \in 1..n : F[i] \in Entry
  <2>1. F \in Seq(Entry)
    BY DEF Dict
  <2> QED BY <2>1, DictSize
<1>2. \A i, j \in 1..n : F[i].trial = F[j].trial => i = j
  BY DEF Dict
<1>3. CASE \E i \in 1..n : F[i].trial = e.trial
  <2>1. PICK k \in 1..n : F[k].trial = e.trial
    BY <1>3
  <2>2. P = [i \in 1..n |-> IF F[i].trial = e.trial THEN e ELSE F[i]]
    BY <1>1, <1>3 DEF Sched!Put
  <2> HIDE DEF P
  <2>3. \A i \in 1..n : P[i] = (IF i = k THEN e ELSE F[i]) /\ P[i] \in Entry
    BY <1>1, <1>2, <2>1, <2>2
  <2>4. P \in Seq(Entry) /\ Len(P) = n
    BY <1>1, <2>2, <2>3
  <2>5. \A i, j \in 1..n : P[i].trial = P[j].trial => i = j
    BY <1>2, <2>1, <2>3
  <2>6. Items(P) = {x \in Items(F) : x.trial # e.trial} \cup {e}
    <3>1. \A i \in 1..n : F[i].trial # e.trial <=> i # k
      BY <1>2, <2>1
    <3>2. \A x \in Items(P) : x \in {y \in Items(F) : y.trial # e.trial} \cup {e}
      BY <2>3, <2>4, <3>1 DEF Items
    <3>3. \A x \in Items(F) : x.trial # e.trial => x \in Items(P)
      BY <2>3, <2>4, <3>1 DEF Items
    <3>4. e \in Items(P)
      BY <2>1, <2>3, <2>4 DEF Items
    <3> QED BY <3>2, <3>3, <3>4
  <2> QED BY <2>4, <2>5, <2>6 DEF Dict, P
<1>4. CASE ~(\E i \in 1..n : F[i].trial = e.trial)
  <2>1. P = Append(F, e)
    BY <1>1, <1>4 DEF Sched!Put
  <2> HIDE DEF P
  <2>2. P \in Seq(Entry) /\ Len(P) = n + 1 /\ P[n + 1] = e /\ \A i \in 1..n : P[i] = F[i]
    BY <1>1, <2>1
  <2>3. \A i \in 1..(n + 1) : i = n + 1 \/ i \in 1..n
    BY <1>1
  <2>4. \A i, j \in 1..(n + 1) : P[i].trial = P[j].trial => i = j
    BY <1>2, <1>4, <2>2, <2>3
  <2>5. Items(P) = {x \in Items(F) : x.trial # e.trial} \cup {e}
    <3>1. \A x \in Items(P) : x \in {y \in Items(F) : y.trial # e.trial} \cup {e}
      BY <1>4, <2>2, <2>3 DEF Items
    <3>2. \A i \in 1..n : i \in 1..(n + 1)
      BY <1>1
    <3>3. \A x \in Items(F) : x \in Items(P)
      BY <2>2, <3>2 DEF Items
    <3>4. e \in Items(P)
      <4>1. n + 1 \in 1..(n + 1)
        BY <1>1
      <4> QED BY <2>2, <4>1 DEF Items
    <3> QED BY <3>1, <3>3, <3>4
  <2> QED BY <2>2, <2>4, <2>5 DEF Dict, P
<1> QED BY <1>3, <1>4

\* Sorting by trial keeps the items.
LEMMA ByTrialIs ==
  ASSUME Sched!SchedulerAssumption, NEW F, Dict(F)
  PROVE  /\ Dict(Sched!ByTrial(F)) /\ Items(Sched!ByTrial(F)) = Items(F)
         /\ Len(Sched!ByTrial(F)) = Len(F)
<1>1. PICK n \in Nat : n = Len(F) /\ DOMAIN F = 1..n
  BY DictSize
<1>2. \A i \in 1..n : F[i] \in Entry
  BY <1>1 DEF Dict
<1>3. PICK keys \in [1..n -> Int] : keys = [i \in 1..n |-> F[i].trial]
  <2>1. Trials \subseteq Int
    BY DEF Sched!SchedulerAssumption
  <2>2. \A i \in 1..n : F[i].trial \in Int
    BY <1>2, <2>1 DEF Entry
  <2> QED BY <2>2
<1>4. /\ \A i \in 1..n : Sched!Place(keys, i) \in 1..n
      /\ \A i, j \in 1..n : Sched!Place(keys, i) = Sched!Place(keys, j) => i = j
      /\ \A m \in 1..n : /\ Sched!SortedAt(keys, m) \in 1..n
                         /\ Sched!Place(keys, Sched!SortedAt(keys, m)) = m
  BY PlaceIs
<1>5. PICK at \in [1..n -> 1..n] : at = [m \in 1..n |-> Sched!SortedAt(keys, m)]
  BY <1>4
<1>6. \A i \in 1..n : \E m \in 1..n : at[m] = i
  BY <1>4, <1>5
<1>7. \A m, k \in 1..n : at[m] = at[k] => m = k
  BY <1>4, <1>5
<1> DEFINE S == Sched!ByTrial(F)
<1>8. S = [m \in 1..n |-> F[at[m]]]
  BY <1>1, <1>3, <1>5 DEF Sched!ByTrial
<1> HIDE DEF S
<1>9. S \in Seq(Entry) /\ Len(S) = n /\ \A m \in 1..n : S[m] = F[at[m]] /\ at[m] \in 1..n
  <2>1. \A m \in 1..n : at[m] \in 1..n /\ F[at[m]] \in Entry
    BY <1>2
  <2> QED BY <1>8, <2>1
<1>10. Dict(S)
  <2>1. \A i, j \in 1..n : F[i].trial = F[j].trial => i = j
    BY <1>1 DEF Dict
  <2>2. ASSUME NEW m \in 1..n, NEW k \in 1..n, S[m].trial = S[k].trial PROVE m = k
    <3>1. at[m] \in 1..n /\ at[k] \in 1..n /\ F[at[m]].trial = F[at[k]].trial
      BY <1>9, <2>2
    <3>2. at[m] = at[k]
      BY <2>1, <3>1
    <3> QED BY <1>7, <3>2
  <2> QED BY <1>9, <2>2 DEF Dict
<1>11. Items(S) = Items(F)
  <2>1. \A x \in Items(S) : x \in Items(F)
    BY <1>1, <1>9 DEF Items
  <2>2. ASSUME NEW x \in Items(F) PROVE x \in Items(S)
    <3>1. PICK i \in 1..n : x = F[i]
      BY <1>1 DEF Items
    <3>2. PICK m \in 1..n : at[m] = i
      BY <1>6
    <3>3. S[m] = x
      BY <1>9, <3>1, <3>2
    <3> QED BY <1>9, <3>3 DEF Items
  <2> QED BY <2>1, <2>2
<1> QED BY <1>1, <1>9, <1>10, <1>11 DEF S

\* The worth of an item.
Worth(x) == Sched!Utility(x.metric)
Keys(F) == [i \in 1..Len(F) |-> -Worth(F[i])]

\* A rank is a place in the stable sort by worth.
LEMMA RankAt ==
  ASSUME Sched!SchedulerAssumption, scheduler \in Schedulers, NEW F, Dict(F), NEW i \in 1..Len(F)
  PROVE  /\ Keys(F) \in [1..Len(F) -> Int]
         /\ \A j \in 1..Len(F) : Worth(F[j]) \in Int /\ Keys(F)[j] = -Worth(F[j])
         /\ Sched!RankOf(F, F[i].trial) = Sched!Place(Keys(F), i) - 1
         /\ Sched!RankOf(F, F[i].trial) = Cardinality(Before(Keys(F), i))
         /\ Sched!RankOf(F, F[i].trial) \in 0..(Len(F) - 1)
<1>1. PICK n \in Nat : n = Len(F) /\ DOMAIN F = 1..n
  BY DictSize
<1>2. \A j \in 1..n : F[j] \in Entry
  BY <1>1 DEF Dict
<1>3. ASSUME NEW j \in 1..n PROVE Worth(F[j]) \in Int
  <2>1. F[j].metric \in Metrics \cup {NaN}
    BY <1>2 DEF Entry
  <2> QED BY <2>1, UtilityIs DEF Worth
<1>4. Keys(F) \in [1..n -> Int] /\ \A j \in 1..n : Keys(F)[j] = -Worth(F[j])
  BY <1>1, <1>3 DEF Keys
<1>5. Keys(F) = [j \in DOMAIN F |-> -Sched!Utility(F[j].metric)]
  BY <1>1 DEF Keys, Worth
<1>6. (CHOOSE j \in DOMAIN F : F[j].trial = F[i].trial) = i
  <2>1. \A j \in 1..n : F[j].trial = F[i].trial => j = i
    BY <1>1 DEF Dict
  <2> QED BY <1>1, <2>1
<1>7. Sched!RankOf(F, F[i].trial) = Sched!Place(Keys(F), i) - 1
  BY <1>5, <1>6, Zenon DEF Sched!RankOf
<1>8. PICK p \in 1..n : p = Sched!Place(Keys(F), i) /\ p = Cardinality(Before(Keys(F), i)) + 1
  BY <1>1, <1>4, PlaceIs
<1>9. Cardinality(Before(Keys(F), i)) \in Nat
  <2>1. Before(Keys(F), i) \in SUBSET (1..n)
    BY <1>4 DEF Before
  <2>2. IsFiniteSet(1..n)
    BY FS_Interval
  <2> QED BY <2>1, <2>2, FS_Subset, FS_CardinalityType
<1> QED BY <1>1, <1>3, <1>4, <1>7, <1>8, <1>9

\* Who has a rank above the first has somebody no worse before it, and the
\* first is no worse than anybody.
LEMMA RankRivals ==
  ASSUME Sched!SchedulerAssumption, scheduler \in Schedulers, NEW F, Dict(F), NEW e \in Items(F)
  PROVE  /\ Sched!RankOf(F, e.trial) \in 0..(Len(F) - 1)
         /\ Sched!RankOf(F, e.trial) >= 1 =>
              \E x \in Items(F) : x.trial # e.trial /\ Worth(e) <= Worth(x)
         /\ Sched!RankOf(F, e.trial) = 0 => \A x \in Items(F) : Worth(x) <= Worth(e)
<1>1. PICK n \in Nat : n = Len(F) /\ DOMAIN F = 1..n
  BY DictSize
<1>2. PICK i \in 1..n : F[i] = e
  BY <1>1 DEF Items
<1> DEFINE B == Before(Keys(F), i)
           rank == Sched!RankOf(F, e.trial)
<1>3. /\ \A j \in 1..n : Worth(F[j]) \in Int /\ Keys(F)[j] = -Worth(F[j])
      /\ DOMAIN Keys(F) = 1..n
      /\ rank = Cardinality(B) /\ rank \in 0..(n - 1)
  BY <1>1, <1>2, RankAt
<1>4. B = {j \in 1..n : Worth(F[i]) < Worth(F[j]) \/ (j < i /\ Worth(F[j]) = Worth(F[i]))}
  BY <1>3 DEF Before
<1>5. IsFiniteSet(B)
  <2>1. B \in SUBSET (1..n) /\ IsFiniteSet(1..n)
    BY <1>4, FS_Interval
  <2> QED BY <2>1, FS_Subset
<1> HIDE DEF B, rank
<1>6. ASSUME rank >= 1 PROVE \E x \in Items(F) : x.trial # e.trial /\ Worth(e) <= Worth(x)
  <2>1. B # {}
    <3>1. B = {} => Cardinality(B) = 0
      BY <1>5, FS_EmptySet, Zenon
    <3> QED BY <1>3, <1>6, <3>1
  <2>2. PICK j \in B : TRUE
    BY <2>1
  <2>3. j \in 1..n /\ j # i /\ Worth(e) <= Worth(F[j])
    BY <1>2, <1>3, <1>4, <2>2
  <2>4. F[j].trial # e.trial /\ F[j] \in Items(F)
    BY <1>1, <1>2, <2>3 DEF Dict, Items
  <2> QED BY <2>3, <2>4
<1>7. ASSUME rank = 0, NEW x \in Items(F) PROVE Worth(x) <= Worth(e)
  <2>1. B = {}
    BY <1>3, <1>5, <1>7, FS_EmptySet
  <2>2. PICK j \in 1..n : F[j] = x
    BY <1>1 DEF Items
  <2>3. j \notin B
    BY <2>1
  <2> QED BY <1>2, <1>3, <1>4, <2>2, <2>3
<1> QED BY <1>1, <1>3, <1>6, <1>7 DEF rank

\* Somebody is first.
LEMMA RankFirst ==
  ASSUME Sched!SchedulerAssumption, scheduler \in Schedulers, NEW F, Dict(F), Len(F) > 0
  PROVE  \E x \in Items(F) : Sched!RankOf(F, x.trial) = 0
<1>1. PICK n \in Nat : n = Len(F) /\ n > 0
  BY DictSize
<1>2. Keys(F) \in [1..n -> Int]
  <2>1. 1 \in 1..n
    BY <1>1
  <2> QED BY <1>1, <2>1, RankAt
<1>3. PICK i \in 1..n : Sched!Place(Keys(F), i) = 1
  <2>1. 1 \in 1..n
    BY <1>1
  <2> QED BY <1>2, <2>1, PlaceIs
<1>4. Sched!RankOf(F, F[i].trial) = 0
  <2>1. i \in 1..Len(F)
    BY <1>1
  <2>2. Sched!RankOf(F, F[i].trial) = Sched!Place(Keys(F), i) - 1
    BY <2>1, RankAt
  <2> QED BY <1>3, <2>2
<1> QED BY <1>1, <1>4 DEF Items

\* Nobody ties with another.
Untied(X) == \A x, y \in X : Worth(x) = Worth(y) => x = y

\* Without ties a rank is the number of those that are ahead.
LEMMA RankCounts ==
  ASSUME Sched!SchedulerAssumption, scheduler \in Schedulers,
         NEW F, Dict(F), Untied(Items(F)), NEW e \in Items(F)
  PROVE  Sched!RankOf(F, e.trial) = Cardinality({x \in Items(F) : Worth(e) < Worth(x)})
<1>1. PICK n \in Nat : n = Len(F) /\ DOMAIN F = 1..n
  BY DictSize
<1>2. PICK i \in 1..n : F[i] = e
  BY <1>1 DEF Items
<1> DEFINE B == Before(Keys(F), i)
           ahead == {x \in Items(F) : Worth(e) < Worth(x)}
<1>3. /\ \A j \in 1..n : Worth(F[j]) \in Int /\ Keys(F)[j] = -Worth(F[j])
      /\ DOMAIN Keys(F) = 1..n /\ Sched!RankOf(F, e.trial) = Cardinality(B)
  BY <1>1, <1>2, RankAt
<1>4. \A j, k \in 1..n : F[j] = F[k] => j = k
  BY <1>1 DEF Dict
<1>5. \A j \in 1..n : F[j] \in Items(F)
  BY <1>1 DEF Items
<1>6. B = {j \in 1..n : Worth(e) < Worth(F[j])}
  <2>1. B = {j \in 1..n : Worth(F[i]) < Worth(F[j]) \/ (j < i /\ Worth(F[j]) = Worth(F[i]))}
    BY <1>3 DEF Before
  <2>2. \A j \in 1..n : Worth(F[j]) = Worth(F[i]) => j = i
    BY <1>4, <1>5 DEF Untied
  <2> HIDE DEF B
  <2> QED BY <1>2, <2>1, <2>2
<1> HIDE DEF B
<1>7. IsFiniteSet(B)
  <2>1. B \in SUBSET (1..n)
    BY <1>6
  <2>2. 1 \in Int /\ n \in Int
    OBVIOUS
  <2>3. IsFiniteSet(1..n)
    BY <2>2, FS_Interval
  <2> QED BY <2>1, <2>3, FS_Subset
<1>8. [j \in B |-> F[j]] \in Bijection(B, ahead)
  <2> DEFINE f == [j \in B |-> F[j]]
  <2>1. f \in [B -> ahead]
    BY <1>5, <1>6
  <2>2. \A j, k \in B : f[j] = f[k] => j = k
    BY <1>4, <1>6
  <2>3. \A x \in ahead : \E j \in B : f[j] = x
    <3>1. ASSUME NEW x \in ahead PROVE \E j \in B : F[j] = x
      <4>1. PICK j \in 1..n : F[j] = x
        BY <1>1 DEF Items
      <4> QED BY <1>6, <4>1
    <3> QED BY <3>1
  <2> HIDE DEF f, ahead
  <2>4. f \in Injection(B, ahead)
    BY <2>1, <2>2 DEF Injection, IsInjective
  <2>5. f \in Surjection(B, ahead)
    BY <2>1, <2>3 DEF Surjection
  <2> QED BY <2>4, <2>5 DEF Bijection, f
<1> HIDE DEF ahead
<1>9. ExistsBijection(B, ahead)
  BY <1>8, Zenon DEF ExistsBijection
<1>10. Cardinality(ahead) = Cardinality(B)
  BY <1>7, <1>9, FS_Bijection
<1> QED BY <1>3, <1>10 DEF ahead

\* No two have the same rank.
LEMMA RankInjective ==
  ASSUME Sched!SchedulerAssumption, scheduler \in Schedulers, NEW F, Dict(F),
         NEW x \in Items(F), NEW y \in Items(F),
         Sched!RankOf(F, x.trial) = Sched!RankOf(F, y.trial)
  PROVE  x = y
<1>1. PICK n \in Nat : n = Len(F)
  BY DictSize
<1>2. PICK i \in 1..n : F[i] = x
  BY <1>1 DEF Items
<1>3. PICK j \in 1..n : F[j] = y
  BY <1>1 DEF Items
<1>4. Keys(F) \in [1..n -> Int] /\ Sched!RankOf(F, x.trial) = Sched!Place(Keys(F), i) - 1
  BY <1>1, <1>2, RankAt
<1>5. Sched!RankOf(F, y.trial) = Sched!Place(Keys(F), j) - 1
  BY <1>1, <1>3, RankAt
<1>6. PICK p \in 1..n : p = Sched!Place(Keys(F), i)
  BY <1>4, PlaceIs
<1>7. PICK q \in 1..n : q = Sched!Place(Keys(F), j)
  BY <1>4, PlaceIs
<1>8. p - 1 = q - 1
  BY <1>4, <1>5, <1>6, <1>7, Zenon
<1>9. Sched!Place(Keys(F), i) = Sched!Place(Keys(F), j)
  BY <1>6, <1>7, <1>8
<1> QED BY <1>2, <1>3, <1>4, <1>9, PlaceIs

\* Without ties the ranks do not depend on the order of the dictionary.
LEMMA SameRanks ==
  ASSUME Sched!SchedulerAssumption, scheduler \in Schedulers, NEW F, Dict(F), NEW G, Dict(G),
         Items(F) = Items(G), Untied(Items(F))
  PROVE  /\ Len(F) = Len(G)
         /\ \A x \in Items(F) : Sched!RankOf(F, x.trial) = Sched!RankOf(G, x.trial)
<1>1. Len(F) = Len(G)
  BY DictSize
<1>2. ASSUME NEW x \in Items(F) PROVE Sched!RankOf(F, x.trial) = Sched!RankOf(G, x.trial)
  <2>1. Sched!RankOf(F, x.trial) = Cardinality({y \in Items(F) : Worth(x) < Worth(y)})
    BY RankCounts
  <2>2. Sched!RankOf(G, x.trial) = Cardinality({y \in Items(G) : Worth(x) < Worth(y)})
    BY RankCounts
  <2> QED BY <2>1, <2>2
<1> QED BY <1>1, <1>2

\* A metric is no worse than another when its utility is no less.
LEMMA NoWorseIs ==
  ASSUME Sched!SchedulerAssumption, scheduler \in Schedulers,
         NEW r, NEW s, {r.metric, s.metric} \subseteq Metrics \cup {NaN}
  PROVE  Sched!NoWorse(r, s) <=> Sched!Utility(s.metric) <= Sched!Utility(r.metric)
<1>1. /\ Sched!Utility(s.metric) <= Sched!Utility(r.metric)
           <=> \/ s.metric = NaN
               \/ r.metric # NaN /\ (IF Sched!direction = "maximize" THEN r.metric >= s.metric
                                     ELSE r.metric <= s.metric)
  BY UtilityIs
<1> QED BY <1>1, Zenon DEF Sched!NoWorse

\* Whoever is below the median has somebody above it.
LEMMA MedianAhead ==
  ASSUME Sched!SchedulerAssumption, scheduler \in Schedulers,
         NEW prior \in Seq(Metrics \cup {NaN}), Len(prior) > 0, NEW m \in Metrics \cup {NaN},
         2 * Sched!Utility(m) < Sched!TwiceMedian(prior)
  PROVE  \E i \in 1..Len(prior) : Sched!Utility(m) < Sched!Utility(prior[i])
<1>1. PICK n \in Nat : n = Len(prior) /\ n > 0 /\ DOMAIN prior = 1..n
  OBVIOUS
<1>2. \A i \in 1..n : prior[i] \in Metrics \cup {NaN}
  BY <1>1
<1>3. \A i \in 1..n : Sched!Utility(prior[i]) \in Int /\ NaN <= Sched!Utility(prior[i])
  BY <1>2, UtilityIs
<1>4. PICK keys \in [1..n -> Int] : keys = [i \in 1..n |-> Sched!Utility(prior[i])]
  BY <1>3
<1>5. (n + 1) \div 2 \in 1..n /\ n \div 2 + 1 \in 1..n
  BY <1>1
<1>6. PICK a \in 1..n : a = Sched!SortedAt(keys, (n + 1) \div 2)
  BY <1>4, <1>5, PlaceIs
<1>7. PICK b \in 1..n : b = Sched!SortedAt(keys, n \div 2 + 1)
  BY <1>4, <1>5, PlaceIs
<1>8. Sched!TwiceMedian(prior) = IF keys[a] = NaN THEN 2 * NaN ELSE keys[a] + keys[b]
  BY <1>1, <1>4, <1>6, <1>7, Zenon DEF Sched!TwiceMedian
<1>9. Sched!Utility(m) \in Int /\ NaN \in Int /\ NaN <= Sched!Utility(m)
  BY UtilityIs
<1>10. keys[a] \in Int /\ keys[b] \in Int
  OBVIOUS
<1>11. Sched!Utility(m) < keys[a] \/ Sched!Utility(m) < keys[b]
  BY <1>8, <1>9, <1>10
<1> QED BY <1>1, <1>4, <1>11

\* What the state of a scheduler is made of, and that a list of reports has it all.
SchedStates ==
  [rungs : [0..(Cardinality(Levels) - 1) -> [Levels -> Seq(Entry)]],
   reached : [Trials -> SUBSET Levels], history : [Levels -> Seq(Metrics \cup {NaN})],
   latest : Seq(Entry), exploited : [Trials -> Int]]

RungHeld(F, b, k, L) ==
  /\ Dict(F)
  /\ \A x \in Items(F) :
       /\ Sched!BracketOf(x.trial) = b
       /\ \E i \in 1..Len(L) : L[i].trial = x.trial /\ L[i].metric = x.metric /\ L[i].resource >= k

LatestHeld(F, L) ==
  /\ Dict(F)
  /\ \A x \in Items(F) : \E i \in 1..Len(L) : L[i].trial = x.trial /\ L[i].metric = x.metric

HistoryHeld(h, k, L) ==
  \A j \in 1..Len(h) : \E i \in 1..Len(L) : L[i].resource = k /\ L[i].metric = h[j]

Held(s, L) ==
  /\ s \in SchedStates
  /\ \A b \in 0..(Cardinality(Levels) - 1) : \A k \in Levels : RungHeld(s.rungs[b][k], b, k, L)
  /\ LatestHeld(s.latest, L)
  /\ \A k \in Levels : HistoryHeld(s.history[k], k, L)
  /\ \A t \in Trials : s.reached[t] \in SUBSET Sched!LevelsOf(Sched!BracketOf(t))

\* A bracket is one of those there are.
LEMMA BracketIs ==
  ASSUME Sched!SchedulerAssumption, scheduler \in Schedulers, NEW t \in Trials
  PROVE  /\ Sched!BracketOf(t) \in 0..(Cardinality(Levels) - 1)
         /\ Sched!LevelsOf(Sched!BracketOf(t)) \in SUBSET Levels
<1>1. IsFiniteSet(Levels) /\ Levels # {} /\ t \in Nat
  BY SchedSizes, Zenon DEF Sched!SchedulerAssumption
<1>2. PICK n \in Nat : n = Cardinality(Levels)
  BY <1>1, FS_CardinalityType
<1>3. n > 0
  BY <1>1, <1>2, FS_EmptySet
<1>4. Cardinality(0..(n - 1)) = n /\ Cardinality({0}) = 1
  <2>1. Cardinality({0}) = 1
    BY FS_Singleton
  <2>2. 0 \in Int /\ n - 1 \in Int
    BY <1>2
  <2>3. Cardinality(0..(n - 1)) = IF 0 > n - 1 THEN 0 ELSE (n - 1) - 0 + 1
    BY <2>2, FS_Interval
  <2> QED BY <1>2, <1>3, <2>1, <2>3
<1>5. PICK c \in 1..n : c = Cardinality(Sched!Brackets)
  <2>1. Sched!Brackets = 0..(n - 1) \/ Sched!Brackets = {0}
    BY <1>2, SchedSizes, Zenon DEF Sched!Brackets
  <2> QED BY <1>3, <1>4, <2>1
<1>6. Sched!BracketOf(t) = t % c
  BY <1>5, SchedSizes, Zenon DEF Sched!BracketOf
<1>7. t % c \in 0..(c - 1)
  BY <1>1
<1>8. Sched!LevelsOf(Sched!BracketOf(t)) \in SUBSET Levels
  BY DEF Sched!LevelsOf
<1> QED BY <1>2, <1>6, <1>7, <1>8

\* More reports take nothing away.
LEMMA HeldMore ==
  ASSUME NEW s, NEW L \in Seq(Sched!Reports), Held(s, L), NEW r \in Sched!Reports
  PROVE  Held(s, Append(L, r))
<1> DEFINE M == Append(L, r)
<1>1. /\ Len(L) \in Nat /\ Len(M) = Len(L) + 1
      /\ \A i \in 1..Len(L) : i \in 1..Len(M) /\ M[i] = L[i]
  OBVIOUS
<1> HIDE DEF M
<1>2. ASSUME NEW b \in 0..(Cardinality(Levels) - 1), NEW k \in Levels
      PROVE  RungHeld(s.rungs[b][k], b, k, M)
  <2>1. RungHeld(s.rungs[b][k], b, k, L)
    BY Zenon DEF Held
  <2> QED BY <1>1, <2>1, Zenon DEF RungHeld
<1>3. LatestHeld(s.latest, M)
  <2>1. LatestHeld(s.latest, L)
    BY Zenon DEF Held
  <2> QED BY <1>1, <2>1, Zenon DEF LatestHeld
<1>4. ASSUME NEW k \in Levels PROVE HistoryHeld(s.history[k], k, M)
  <2>1. HistoryHeld(s.history[k], k, L)
    BY Zenon DEF Held
  <2> QED BY <1>1, <2>1, Zenon DEF HistoryHeld
<1> QED BY <1>2, <1>3, <1>4, Zenon DEF Held, M

\* A checkpoint gives back everything but the order.
LEMMA RestoredIs ==
  ASSUME Sched!SchedulerAssumption, scheduler \in Schedulers,
         NEW s, NEW L \in Seq(Sched!Reports), Held(s, L)
  PROVE  /\ Held(Sched!Restored(s), L)
         /\ Sched!Restored(s).reached = s.reached /\ Sched!Restored(s).history = s.history
         /\ Sched!Restored(s).exploited = s.exploited
         /\ Sched!Restored(s).latest = Sched!ByTrial(s.latest)
         /\ \A b \in 0..(Cardinality(Levels) - 1) : \A k \in Levels :
              Sched!Restored(s).rungs[b][k] = Sched!ByTrial(s.rungs[b][k])
<1> DEFINE N == 0..(Cardinality(Levels) - 1)
           R == Sched!Restored(s)
<1>1. s \in SchedStates
  BY Zenon DEF Held
<1>2. DOMAIN s.rungs = N
  BY <1>1 DEF SchedStates
<1>3. R = [s EXCEPT !.rungs = [b \in N |-> [k \in Levels |-> Sched!ByTrial(s.rungs[b][k])]],
                    !.latest = Sched!ByTrial(s.latest)]
  BY <1>1, <1>2 DEF Sched!Restored, SchedStates
<1> HIDE DEF N, R
<1>4. /\ R.reached = s.reached /\ R.history = s.history /\ R.exploited = s.exploited
      /\ R.latest = Sched!ByTrial(s.latest)
      /\ R.rungs = [b \in N |-> [k \in Levels |-> Sched!ByTrial(s.rungs[b][k])]]
  BY <1>1, <1>3 DEF SchedStates
<1>5. \A b \in N : \A k \in Levels : R.rungs[b][k] = Sched!ByTrial(s.rungs[b][k])
  BY <1>4
<1>6. LatestHeld(R.latest, L) /\ R.latest \in Seq(Entry)
  <2>1. LatestHeld(s.latest, L)
    BY Zenon DEF Held
  <2>2. Dict(R.latest) /\ Items(R.latest) = Items(s.latest)
    BY <1>4, <2>1, ByTrialIs, Zenon DEF LatestHeld
  <2>3. LatestHeld(R.latest, L)
    BY <2>1, <2>2, Zenon DEF LatestHeld
  <2> QED BY <2>2, <2>3, Zenon DEF Dict
<1>7. ASSUME NEW b \in N, NEW k \in Levels
      PROVE  RungHeld(R.rungs[b][k], b, k, L) /\ R.rungs[b][k] \in Seq(Entry)
  <2>1. RungHeld(s.rungs[b][k], b, k, L)
    BY Zenon DEF Held, N
  <2>2. Dict(s.rungs[b][k])
    BY <2>1, Zenon DEF RungHeld
  <2>3. Dict(R.rungs[b][k]) /\ Items(R.rungs[b][k]) = Items(s.rungs[b][k])
    BY <1>5, <2>2, ByTrialIs, Zenon
  <2>4. RungHeld(R.rungs[b][k], b, k, L)
    BY <2>1, <2>3, Zenon DEF RungHeld
  <2> QED BY <2>3, <2>4, Zenon DEF Dict
<1>8. R \in SchedStates
  <2>1. R.rungs \in [N -> [Levels -> Seq(Entry)]]
    <3>1. \A b \in N : \A k \in Levels : Sched!ByTrial(s.rungs[b][k]) \in Seq(Entry)
      BY <1>5, <1>7
    <3> QED BY <1>4, <3>1
  <2>2. s = [rungs |-> s.rungs, reached |-> s.reached, history |-> s.history,
             latest |-> s.latest, exploited |-> s.exploited]
    BY <1>1 DEF SchedStates
  <2>3. R = [rungs |-> R.rungs, reached |-> s.reached, history |-> s.history,
             latest |-> R.latest, exploited |-> s.exploited]
    BY <1>3, <1>4, <2>2
  <2> QED BY <1>1, <1>6, <2>1, <2>3 DEF SchedStates, N
<1>9. Held(R, L)
  <2>1. /\ \A k \in Levels : HistoryHeld(s.history[k], k, L)
        /\ \A t \in Trials : s.reached[t] \in SUBSET Sched!LevelsOf(Sched!BracketOf(t))
    BY Zenon DEF Held
  <2> QED BY <1>4, <1>6, <1>7, <1>8, <2>1, Zenon DEF Held, N
<1> QED BY <1>4, <1>5, <1>9 DEF R, N

\* The parts of a decision of ASHA or HyperBand.
Item(r) == [trial |-> r.trial, metric |-> r.metric]
Entered(s, r, k) == Sched!Put(s.rungs[Sched!BracketOf(r.trial)][k], Item(r))
Eligible(s, r) ==
  {k \in Sched!LevelsOf(Sched!BracketOf(r.trial)) : k <= r.resource /\ k \notin s.reached[r.trial]}
Ends(s, r, k) ==
  /\ Len(Entered(s, r, k)) >= Factor
  /\ Sched!RankOf(Entered(s, r, k), r.trial) >= Sched!Fraction(Len(Entered(s, r, k)), Factor)
Visited(s, r) == {k \in Eligible(s, r) : \A j \in Eligible(s, r) : j < k => ~Ends(s, r, j)}
Stopping(s, r) == {k \in Visited(s, r) : Ends(s, r, k)}

LEMMA AshaIs ==
  ASSUME NEW s, NEW r
  PROVE  Sched!AshaDecision(s, r) =
           <<IF Stopping(s, r) # {} THEN Sched!StopAt(CHOOSE k \in Stopping(s, r) : TRUE)
             ELSE IF r.resource >= Sched!TopLevel THEN Sched!StopAt(0) ELSE Sched!Continue,
             [s EXCEPT !.reached[r.trial] = @ \cup Visited(s, r),
                       !.rungs[Sched!BracketOf(r.trial)] =
                         [k \in Levels |-> IF k \in Visited(s, r) THEN Entered(s, r, k)
                                           ELSE s.rungs[Sched!BracketOf(r.trial)][k]]]>>
BY DEF Sched!AshaDecision, Stopping, Visited, Ends, Eligible, Entered, Item

\* A report is an item of its trial.
LEMMA ItemIs ==
  ASSUME NEW r \in Sched!Reports
  PROVE  /\ Item(r) \in Entry /\ Item(r).trial = r.trial /\ Item(r).metric = r.metric
         /\ r.trial \in Trials /\ r.metric \in Metrics \cup {NaN} /\ r.resource \in Levels
BY DEF Item, Entry, Sched!Reports

\* The last report backs its own item, in a rung or in the population.
LEMMA PutHeld ==
  ASSUME Sched!SchedulerAssumption, scheduler \in Schedulers,
         NEW L \in Seq(Sched!Reports), NEW r \in Sched!Reports, NEW F
  PROVE  /\ LatestHeld(F, Append(L, r)) => LatestHeld(Sched!Put(F, Item(r)), Append(L, r))
         /\ \A k \in Levels :
              /\ RungHeld(F, Sched!BracketOf(r.trial), k, Append(L, r)) /\ k <= r.resource
              => RungHeld(Sched!Put(F, Item(r)), Sched!BracketOf(r.trial), k, Append(L, r))
<1> DEFINE M == Append(L, r)
           P == Sched!Put(F, Item(r))
<1>1. Len(M) \in 1..Len(M) /\ M[Len(M)] = r
  OBVIOUS
<1>2. Item(r) \in Entry /\ Item(r).trial = r.trial /\ Item(r).metric = r.metric
  BY ItemIs
<1>3. ASSUME Dict(F)
      PROVE  Dict(P) /\ Items(P) = {x \in Items(F) : x.trial # Item(r).trial} \cup {Item(r)}
  BY <1>2, <1>3, PutIs
<1> HIDE DEF M, P
<1>4. ASSUME LatestHeld(F, M) PROVE LatestHeld(P, M)
  <2>1. Dict(F)
    BY <1>4 DEF LatestHeld
  <2>2. ASSUME NEW x \in Items(P)
        PROVE  \E i \in 1..Len(M) : M[i].trial = x.trial /\ M[i].metric = x.metric
    <3>1. x \in Items(F) \/ x = Item(r)
      BY <1>3, <2>1
    <3> QED BY <1>1, <1>2, <1>4, <3>1, Zenon DEF LatestHeld
  <2> QED BY <1>3, <2>1, <2>2 DEF LatestHeld
<1>5. ASSUME NEW k \in Levels, RungHeld(F, Sched!BracketOf(r.trial), k, M), k <= r.resource
      PROVE  RungHeld(P, Sched!BracketOf(r.trial), k, M)
  <2>1. Dict(F)
    BY <1>5 DEF RungHeld
  <2>2. r.resource >= k
    <3>1. Levels \subseteq Int
      BY DEF Sched!SchedulerAssumption
    <3>2. PICK a \in Levels : a = r.resource
      BY ItemIs
    <3> QED BY <1>5, <3>1, <3>2
  <2>3. ASSUME NEW x \in Items(P)
        PROVE  /\ Sched!BracketOf(x.trial) = Sched!BracketOf(r.trial)
               /\ \E i \in 1..Len(M) :
                    M[i].trial = x.trial /\ M[i].metric = x.metric /\ M[i].resource >= k
    <3>1. x \in Items(F) \/ x = Item(r)
      BY <1>3, <2>1
    <3> QED BY <1>1, <1>2, <1>5, <2>2, <3>1, Zenon DEF RungHeld
  <2> QED BY <1>3, <2>1, <2>3 DEF RungHeld
<1> QED BY <1>4, <1>5 DEF M, P

\* What a rung or a population holds of the others, it held before.
LEMMA PutOthers ==
  ASSUME NEW F, Dict(F), NEW r \in Sched!Reports, NEW x \in Items(Sched!Put(F, Item(r))),
         x.trial # r.trial
  PROVE  x \in Items(F)
BY PutIs, ItemIs

\* A part of something is at least one, and no more than the whole.
LEMMA FractionIs ==
  ASSUME NEW n \in Nat, n >= 1, NEW p \in Nat, p >= 2
  PROVE  Sched!Fraction(n, p) \in 1..n
<1>1. Sched!Fraction(n, p) = (n + p - 1) \div p
  BY DEF Sched!Fraction
<1>2. PICK q \in Int : q = (n + p - 1) \div p
  OBVIOUS
<1>3. /\ p * q <= n + p - 1
      /\ n + p - 1 < p * q + p
  BY <1>2, Z3
<1>4. q >= 1
  <2>1. ASSUME q <= 0 PROVE FALSE
    <3>1. p * q <= 0
      BY <2>1, Z3
    <3> QED BY <1>3, <3>1
  <2> QED BY <2>1
<1>5. q <= n
  <2>1. ASSUME q >= n + 1 PROVE FALSE
    <3>1. p * q >= p * (n + 1)
      BY <2>1, Z3
    <3>2. p * (n + 1) = p * n + p
      BY Z3
    <3>3. p * n >= 2 * n
      BY Z3
    <3>4. PICK x \in Int, y \in Int : x = p * q /\ y = p * n
      OBVIOUS
    <3> QED BY <1>3, <3>1, <3>2, <3>3, <3>4
  <2> QED BY <2>1
<1> QED BY <1>1, <1>2, <1>4, <1>5

\* The state after a report to ASHA or HyperBand is backed by the reports.
LEMMA AshaHeld ==
  ASSUME Sched!SchedulerAssumption, scheduler \in Schedulers,
         NEW s, NEW L \in Seq(Sched!Reports), NEW r \in Sched!Reports, Held(s, Append(L, r))
  PROVE  Held(Sched!AshaDecision(s, r)[2], Append(L, r))
<1> DEFINE N == 0..(Cardinality(Levels) - 1)
           M == Append(L, r)
           b == Sched!BracketOf(r.trial)
           V == Visited(s, r)
           rung == [k \in Levels |-> IF k \in V THEN Entered(s, r, k) ELSE s.rungs[b][k]]
           D == Sched!AshaDecision(s, r)[2]
<1>1. s \in SchedStates
  BY Zenon DEF Held
<1>2. b \in N /\ Sched!LevelsOf(b) \in SUBSET Levels /\ r.trial \in Trials
  BY BracketIs, ItemIs
<1>3. V \in SUBSET Sched!LevelsOf(b) /\ \A k \in V : k <= r.resource
  BY DEF Visited, Eligible
<1>4. D = [s EXCEPT !.reached[r.trial] = @ \cup V, !.rungs[b] = rung]
  BY AshaIs
<1>5. \A k \in Levels : RungHeld(rung[k], b, k, M) /\ rung[k] \in Seq(Entry)
  <2> SUFFICES ASSUME NEW k \in Levels PROVE RungHeld(rung[k], b, k, M) /\ rung[k] \in Seq(Entry)
    OBVIOUS
  <2>1. RungHeld(s.rungs[b][k], b, k, M)
    BY <1>2, Zenon DEF Held
  <2>2. k \in V => RungHeld(Entered(s, r, k), b, k, M)
    BY <1>3, <2>1, PutHeld, Zenon DEF Entered
  <2>3. RungHeld(rung[k], b, k, M)
    BY <2>1, <2>2
  <2> QED BY <2>3, Zenon DEF RungHeld, Dict
<1>6. rung \in [Levels -> Seq(Entry)]
  BY <1>5
<1> HIDE DEF N, M, b, V, rung, D
<1>7. /\ D.rungs = [s.rungs EXCEPT ![b] = rung]
      /\ D.reached = [s.reached EXCEPT ![r.trial] = @ \cup V]
      /\ D.history = s.history /\ D.latest = s.latest /\ D.exploited = s.exploited
      /\ D = [rungs |-> D.rungs, reached |-> D.reached, history |-> s.history,
              latest |-> s.latest, exploited |-> s.exploited]
  BY <1>1, <1>4 DEF SchedStates
<1>8. s.rungs \in [N -> [Levels -> Seq(Entry)]] /\ s.reached \in [Trials -> SUBSET Levels]
  BY <1>1 DEF SchedStates, N
<1>9. D.rungs \in [N -> [Levels -> Seq(Entry)]]
  BY <1>2, <1>6, <1>7, <1>8
<1>10. D.reached \in [Trials -> SUBSET Levels]
  <2>1. s.reached[r.trial] \cup V \in SUBSET Levels
    BY <1>2, <1>3, <1>8
  <2> QED BY <1>7, <1>8, <2>1
<1>11. D \in SchedStates
  BY <1>1, <1>7, <1>9, <1>10 DEF SchedStates, N
<1>12. ASSUME NEW c \in N, NEW k \in Levels PROVE RungHeld(D.rungs[c][k], c, k, M)
  <2>1. D.rungs[c] = IF c = b THEN rung ELSE s.rungs[c]
    BY <1>2, <1>7, <1>8
  <2>2. RungHeld(s.rungs[c][k], c, k, M)
    BY Zenon DEF Held, N, M
  <2> QED BY <1>5, <2>1, <2>2
<1>13. ASSUME NEW t \in Trials PROVE D.reached[t] \in SUBSET Sched!LevelsOf(Sched!BracketOf(t))
  <2>1. D.reached[t] = IF t = r.trial THEN s.reached[t] \cup V ELSE s.reached[t]
    BY <1>2, <1>7, <1>8
  <2>2. s.reached[t] \in SUBSET Sched!LevelsOf(Sched!BracketOf(t))
    BY Zenon DEF Held
  <2> QED BY <1>3, <2>1, <2>2 DEF b
<1>14. LatestHeld(s.latest, M) /\ \A k \in Levels : HistoryHeld(s.history[k], k, M)
  BY Zenon DEF Held, M
<1> QED BY <1>7, <1>11, <1>12, <1>13, <1>14, Zenon DEF Held, N, M, D

\* Whoever a rung ranks after its first has a rival there that is no worse.
LEMMA RivalHeld ==
  ASSUME Sched!SchedulerAssumption, scheduler \in Schedulers,
         NEW L \in Seq(Sched!Reports), NEW r \in Sched!Reports, NEW F, Dict(F),
         Sched!RankOf(Sched!Put(F, Item(r)), r.trial) >= 1
  PROVE  \E x \in Items(F) : x.trial # r.trial /\ Sched!NoWorse(x, r)
<1> DEFINE P == Sched!Put(F, Item(r))
<1>1. Item(r) \in Entry /\ Item(r).trial = r.trial /\ Item(r).metric = r.metric
      /\ r.metric \in Metrics \cup {NaN}
  BY ItemIs
<1>2. Dict(P) /\ Item(r) \in Items(P)
  BY <1>1, PutIs
<1> HIDE DEF P
<1>3. Sched!RankOf(P, Item(r).trial) >= 1
  BY <1>1 DEF P
<1>4. PICK x \in Items(P) : x.trial # Item(r).trial /\ Worth(Item(r)) <= Worth(x)
  BY <1>2, <1>3, RankRivals
<1>5. x \in Items(F)
  BY <1>1, <1>4, PutOthers DEF P
<1>6. x.metric \in Metrics \cup {NaN}
  <2>1. x \in Entry
    BY <1>5, DictSize
  <2> QED BY <2>1 DEF Entry
<1>7. Sched!NoWorse(x, r)
  <2>1. Sched!Utility(r.metric) <= Sched!Utility(x.metric)
    BY <1>1, <1>4 DEF Worth
  <2> QED BY <1>1, <1>6, <2>1, NoWorseIs
<1> QED BY <1>1, <1>4, <1>5, <1>7

\* Whoever a rung stops was not the best of its bracket there.
LEMMA AshaJustified ==
  ASSUME Sched!SchedulerAssumption, scheduler \in Schedulers,
         NEW s, NEW L \in Seq(Sched!Reports), NEW r \in Sched!Reports, Held(s, L)
  PROVE  LET v == Sched!AshaDecision(s, r)[1]
         IN  /\ v.action \in {"continue", "stop"}
             /\ v.action = "stop" /\ v.at > 0 =>
                  \E i \in 1..Len(L) :
                    /\ L[i].trial # r.trial /\ Sched!BracketOf(L[i].trial) = Sched!BracketOf(r.trial)
                    /\ L[i].resource >= v.at /\ Sched!NoWorse(L[i], r)
<1> DEFINE v == Sched!AshaDecision(s, r)[1]
           b == Sched!BracketOf(r.trial)
           k == CHOOSE k \in Stopping(s, r) : TRUE
<1>1. v = IF Stopping(s, r) # {} THEN Sched!StopAt(k)
          ELSE IF r.resource >= Sched!TopLevel THEN Sched!StopAt(0) ELSE Sched!Continue
  BY AshaIs
<1> HIDE DEF v, k
<1>2. v.action \in {"continue", "stop"}
  BY <1>1 DEF Sched!StopAt, Sched!Continue
<1>3. ASSUME v.action = "stop", v.at > 0
      PROVE  \E i \in 1..Len(L) :
               /\ L[i].trial # r.trial /\ Sched!BracketOf(L[i].trial) = b
               /\ L[i].resource >= v.at /\ Sched!NoWorse(L[i], r)
  <2>1. Stopping(s, r) # {} /\ v.at = k
    BY <1>1, <1>3 DEF Sched!StopAt, Sched!Continue
  <2>2. k \in Stopping(s, r)
    BY <2>1 DEF k
  <2>3. k \in Sched!LevelsOf(b) /\ Ends(s, r, k)
    BY <2>2 DEF Stopping, Visited, Eligible
  <2>4. b \in 0..(Cardinality(Levels) - 1) /\ k \in Levels
    BY <2>3, BracketIs, ItemIs
  <2>5. RungHeld(s.rungs[b][k], b, k, L) /\ Dict(s.rungs[b][k])
    BY <2>4, Zenon DEF Held, RungHeld
  <2>6. Dict(Entered(s, r, k))
    BY <2>5, PutIs, ItemIs DEF Entered
  <2>7. PICK n \in Nat : n = Len(Entered(s, r, k))
    BY <2>6, DictSize
  <2>8. Factor \in Nat /\ Factor >= 2
    BY DEF Sched!SchedulerAssumption
  <2>9. n >= Factor /\ Sched!RankOf(Entered(s, r, k), r.trial) >= Sched!Fraction(n, Factor)
    BY <2>3, <2>7 DEF Ends
  <2>10. Sched!Fraction(n, Factor) \in 1..n
    BY <2>8, <2>9, FractionIs
  <2>11. Sched!RankOf(Entered(s, r, k), r.trial) >= 1
    <3>1. Item(r) \in Items(Entered(s, r, k)) /\ Item(r).trial = r.trial
      BY <2>5, PutIs, ItemIs DEF Entered
    <3>2. PICK rank \in Int : rank = Sched!RankOf(Entered(s, r, k), r.trial)
      <4>1. Sched!RankOf(Entered(s, r, k), Item(r).trial) \in 0..(Len(Entered(s, r, k)) - 1)
        BY <2>6, <3>1, RankRivals
      <4> QED BY <3>1, <4>1
    <3>3. PICK quota \in 1..n : quota = Sched!Fraction(n, Factor)
      BY <2>10
    <3> QED BY <2>9, <3>2, <3>3
  <2>12. PICK x \in Items(s.rungs[b][k]) : x.trial # r.trial /\ Sched!NoWorse(x, r)
    BY <2>5, <2>11, RivalHeld DEF Entered
  <2>13. PICK i \in 1..Len(L) : L[i].trial = x.trial /\ L[i].metric = x.metric /\ L[i].resource >= k
    BY <2>5, Zenon DEF RungHeld
  <2>14. Sched!BracketOf(L[i].trial) = b
    <3>1. Sched!BracketOf(x.trial) = b
      BY <2>5, Zenon DEF RungHeld
    <3> QED BY <2>13, <3>1
  <2>15. Sched!NoWorse(L[i], r)
    BY <2>12, <2>13 DEF Sched!NoWorse
  <2> QED BY <2>1, <2>12, <2>13, <2>14, <2>15
<1> QED BY <1>2, <1>3 DEF v

\* The state after a report to the median scheduler is backed by the reports.
LEMMA MedianHeld ==
  ASSUME Sched!SchedulerAssumption, scheduler \in Schedulers,
         NEW s, NEW L \in Seq(Sched!Reports), NEW r \in Sched!Reports, Held(s, Append(L, r))
  PROVE  Held(Sched!MedianDecision(s, r)[2], Append(L, r))
<1> DEFINE M == Append(L, r)
           h == Append(s.history[r.resource], r.metric)
           D == Sched!MedianDecision(s, r)[2]
<1>1. s \in SchedStates
  BY Zenon DEF Held
<1>2. r.resource \in Levels /\ r.metric \in Metrics \cup {NaN}
  BY ItemIs
<1>3. D = [s EXCEPT !.history[r.resource] = h]
  BY DEF Sched!MedianDecision
<1>4. s.history \in [Levels -> Seq(Metrics \cup {NaN})]
  BY <1>1 DEF SchedStates
<1>5. h \in Seq(Metrics \cup {NaN})
  BY <1>2, <1>4
<1>6. HistoryHeld(h, r.resource, M)
  <2>1. HistoryHeld(s.history[r.resource], r.resource, M)
    BY <1>2, Zenon DEF Held
  <2>2. Len(M) \in 1..Len(M) /\ M[Len(M)] = r
    OBVIOUS
  <2>3. PICK n \in Nat : n = Len(s.history[r.resource])
    BY <1>2, <1>4
  <2>4. Len(h) = n + 1 /\ h[n + 1] = r.metric /\ \A j \in 1..n : h[j] = s.history[r.resource][j]
    BY <1>2, <1>4, <2>3
  <2>5. \A j \in 1..(n + 1) : j = n + 1 \/ j \in 1..n
    OBVIOUS
  <2> HIDE DEF M, h
  <2> QED BY <2>1, <2>2, <2>3, <2>4, <2>5, Zenon DEF HistoryHeld
<1> HIDE DEF M, h, D
<1>7. /\ D.history = [s.history EXCEPT ![r.resource] = h]
      /\ D = [rungs |-> s.rungs, reached |-> s.reached, history |-> D.history,
              latest |-> s.latest, exploited |-> s.exploited]
  BY <1>1, <1>3 DEF SchedStates
<1>8. D.history \in [Levels -> Seq(Metrics \cup {NaN})]
  BY <1>2, <1>4, <1>5, <1>7
<1>9. D \in SchedStates
  <2>1. /\ s.rungs \in [0..(Cardinality(Levels) - 1) -> [Levels -> Seq(Entry)]]
        /\ s.reached \in [Trials -> SUBSET Levels]
        /\ s.latest \in Seq(Entry) /\ s.exploited \in [Trials -> Int]
    BY <1>1, Zenon DEF SchedStates
  <2> QED BY <1>7, <1>8, <2>1 DEF SchedStates
<1>10. ASSUME NEW k \in Levels PROVE HistoryHeld(D.history[k], k, M)
  <2>1. D.history[k] = IF k = r.resource THEN h ELSE s.history[k]
    BY <1>2, <1>4, <1>7
  <2>2. HistoryHeld(s.history[k], k, M)
    BY Zenon DEF Held, M
  <2> QED BY <1>6, <2>1, <2>2
<1>11. /\ D.rungs = s.rungs /\ D.latest = s.latest /\ D.reached = s.reached
  BY <1>7
<1> QED BY <1>9, <1>10, <1>11, Zenon DEF Held, M, D

\* Whoever the median stops has somebody better at that resource.
LEMMA MedianJustified ==
  ASSUME Sched!SchedulerAssumption, scheduler \in Schedulers,
         NEW s, NEW L \in Seq(Sched!Reports), NEW r \in Sched!Reports, Held(s, L),
         \A i \in 1..Len(L) : L[i].trial = r.trial => L[i].resource < r.resource
  PROVE  LET v == Sched!MedianDecision(s, r)[1]
         IN  /\ v.action \in {"continue", "stop"} /\ v.at = 0
             /\ v.action = "stop" =>
                  \E i \in 1..Len(L) : /\ L[i].trial # r.trial /\ L[i].resource = r.resource
                                       /\ ~Sched!NoWorse(r, L[i])
<1> DEFINE v == Sched!MedianDecision(s, r)[1]
           prior == s.history[r.resource]
           stop == Len(prior) >= MinTrials /\ 2 * Sched!Utility(r.metric) < Sched!TwiceMedian(prior)
<1>1. v = IF stop THEN Sched!StopAt(0) ELSE Sched!Continue
  BY DEF Sched!MedianDecision
<1> HIDE DEF v
<1>2. v.action \in {"continue", "stop"} /\ v.at = 0
  BY <1>1 DEF Sched!StopAt, Sched!Continue
<1>3. ASSUME v.action = "stop"
      PROVE  \E i \in 1..Len(L) : /\ L[i].trial # r.trial /\ L[i].resource = r.resource
                                  /\ ~Sched!NoWorse(r, L[i])
  <2>1. stop
    BY <1>1, <1>3 DEF Sched!StopAt, Sched!Continue
  <2>2. r.resource \in Levels /\ r.metric \in Metrics \cup {NaN}
    BY ItemIs
  <2>3. s \in SchedStates
    BY Zenon DEF Held
  <2>4. prior \in Seq(Metrics \cup {NaN})
    BY <2>2, <2>3 DEF SchedStates
  <2>5. Len(prior) > 0
    <3>1. MinTrials \in Nat /\ MinTrials > 0
      BY DEF Sched!SchedulerAssumption
    <3> QED BY <2>1, <2>4, <3>1
  <2> HIDE DEF prior
  <2>6. PICK j \in 1..Len(prior) : Sched!Utility(r.metric) < Sched!Utility(prior[j])
    BY <2>1, <2>2, <2>4, <2>5, MedianAhead
  <2>7. PICK i \in 1..Len(L) : L[i].resource = r.resource /\ L[i].metric = prior[j]
    BY <2>2, Zenon DEF Held, HistoryHeld, prior
  <2>8. L[i].trial # r.trial
    <3>1. r.resource \in Int
      <4>1. Levels \subseteq Int
        BY DEF Sched!SchedulerAssumption
      <4> QED BY <2>2, <4>1
    <3>2. ~(r.resource < r.resource)
      BY <3>1
    <3> QED BY <2>7, <3>2, Zenon
  <2>9. prior[j] \in Metrics \cup {NaN}
    BY <2>4
  <2>10. ~Sched!NoWorse(r, L[i])
    <3>1. Sched!Utility(r.metric) \in Int /\ Sched!Utility(prior[j]) \in Int
      BY <2>2, <2>9, UtilityIs
    <3>2. Sched!NoWorse(r, L[i]) <=> Sched!Utility(L[i].metric) <= Sched!Utility(r.metric)
      BY <2>2, <2>7, <2>9, NoWorseIs
    <3> QED BY <2>6, <2>7, <3>1, <3>2
  <2> QED BY <2>7, <2>8, <2>10
<1> QED BY <1>2, <1>3 DEF v

\* The parts of a decision of population based training.
Members(s, r) == Sched!Put(s.latest, Item(r))
Behind(s, r) ==
  /\ r.resource - s.exploited[r.trial] >= Interval /\ Len(Members(s, r)) >= Sched!PopulationMin
  /\ Sched!RankOf(Members(s, r), r.trial)
       >= Len(Members(s, r)) - Sched!Fraction(Len(Members(s, r)), 4)
Leader(F) == CHOOSE t \in {F[i].trial : i \in DOMAIN F} : Sched!RankOf(F, t) = 0

LEMMA PbtIs ==
  ASSUME NEW s, NEW r
  PROVE  Sched!PbtDecision(s, r) =
           IF Behind(s, r)
           THEN <<Sched!Exploit(Leader(Members(s, r))),
                  [[s EXCEPT !.latest = Members(s, r)] EXCEPT !.exploited[r.trial] = r.resource]>>
           ELSE <<Sched!Continue, [s EXCEPT !.latest = Members(s, r)]>>
BY DEF Sched!PbtDecision, Behind, Members, Leader, Item

\* The leader of a population is the member that has the first rank.
LEMMA LeaderIs ==
  ASSUME Sched!SchedulerAssumption, scheduler \in Schedulers, NEW F, Dict(F), Len(F) > 0
  PROVE  \E x \in Items(F) : x.trial = Leader(F) /\ Sched!RankOf(F, x.trial) = 0
<1>1. DOMAIN F = 1..Len(F)
  BY DictSize
<1>2. PICK y \in Items(F) : Sched!RankOf(F, y.trial) = 0
  BY RankFirst
<1>3. y.trial \in {F[i].trial : i \in DOMAIN F}
  BY <1>1, <1>2 DEF Items
<1>4. Leader(F) \in {F[i].trial : i \in DOMAIN F} /\ Sched!RankOf(F, Leader(F)) = 0
  BY <1>2, <1>3, Zenon DEF Leader
<1>5. PICK i \in 1..Len(F) : F[i].trial = Leader(F)
  BY <1>1, <1>4
<1> QED BY <1>4, <1>5 DEF Items

\* The state after a report to population based training is backed by the reports.
LEMMA PbtHeld ==
  ASSUME Sched!SchedulerAssumption, scheduler \in Schedulers,
         NEW s, NEW L \in Seq(Sched!Reports), NEW r \in Sched!Reports, Held(s, Append(L, r))
  PROVE  Held(Sched!PbtDecision(s, r)[2], Append(L, r))
<1> DEFINE M == Append(L, r)
           P == Members(s, r)
           D == Sched!PbtDecision(s, r)[2]
<1>1. s \in SchedStates /\ LatestHeld(s.latest, M)
  BY Zenon DEF Held
<1>2. LatestHeld(P, M)
  BY <1>1, PutHeld DEF Members
<1>3. P \in Seq(Entry)
  BY <1>2, Zenon DEF LatestHeld, Dict
<1>4. D = [[s EXCEPT !.latest = P] EXCEPT !.exploited[r.trial] = r.resource]
      \/ D = [s EXCEPT !.latest = P]
  BY PbtIs
<1>5. r.trial \in Trials /\ r.resource \in Int
  <2>1. Levels \subseteq Int
    BY DEF Sched!SchedulerAssumption
  <2> QED BY <2>1, ItemIs
<1> HIDE DEF M, P, D
<1>6. /\ s.rungs \in [0..(Cardinality(Levels) - 1) -> [Levels -> Seq(Entry)]]
      /\ s.reached \in [Trials -> SUBSET Levels] /\ s.history \in [Levels -> Seq(Metrics \cup {NaN})]
      /\ s.exploited \in [Trials -> Int]
  BY <1>1, Zenon DEF SchedStates
<1>7. /\ D.exploited = [s.exploited EXCEPT ![r.trial] = r.resource] \/ D.exploited = s.exploited
      /\ D = [rungs |-> s.rungs, reached |-> s.reached, history |-> s.history,
              latest |-> P, exploited |-> D.exploited]
  BY <1>1, <1>4 DEF SchedStates
<1>8. D.exploited \in [Trials -> Int]
  BY <1>5, <1>6, <1>7
<1>9. D \in SchedStates
  BY <1>3, <1>6, <1>7, <1>8 DEF SchedStates
<1>10. D.rungs = s.rungs /\ D.latest = P /\ D.reached = s.reached /\ D.history = s.history
  BY <1>7
<1> QED BY <1>2, <1>9, <1>10, Zenon DEF Held, M, D

\* Whoever exploits another is not the leader, and copies the leader.
LEMMA PbtJustified ==
  ASSUME Sched!SchedulerAssumption, scheduler \in Schedulers,
         NEW s, NEW L \in Seq(Sched!Reports), NEW r \in Sched!Reports, Held(s, L)
  PROVE  LET v == Sched!PbtDecision(s, r)[1]
         IN  /\ v.action \in {"continue", "exploit"}
             /\ v.action = "exploit" =>
                  \E i \in 1..Len(L) : /\ L[i].trial # r.trial /\ L[i].trial = v.source
                                       /\ Sched!NoWorse(L[i], r)
<1> DEFINE v == Sched!PbtDecision(s, r)[1]
           P == Members(s, r)
<1>1. v = IF Behind(s, r) THEN Sched!Exploit(Leader(P)) ELSE Sched!Continue
  BY PbtIs
<1> HIDE DEF v, P
<1>2. v.action \in {"continue", "exploit"}
  BY <1>1 DEF Sched!Exploit, Sched!Continue
<1>3. ASSUME v.action = "exploit"
      PROVE  \E i \in 1..Len(L) : /\ L[i].trial # r.trial /\ L[i].trial = v.source
                                  /\ Sched!NoWorse(L[i], r)
  <2>1. Behind(s, r) /\ v.source = Leader(P)
    BY <1>1, <1>3 DEF Sched!Exploit, Sched!Continue
  <2>2. LatestHeld(s.latest, L) /\ Dict(s.latest)
    BY Zenon DEF Held, LatestHeld
  <2>3. /\ Item(r) \in Entry /\ Item(r).trial = r.trial /\ Item(r).metric = r.metric
        /\ r.metric \in Metrics \cup {NaN}
    BY ItemIs
  <2>4. Dict(P) /\ Item(r) \in Items(P)
    BY <2>2, <2>3, PutIs DEF P, Members
  <2>5. PICK n \in Nat : n = Len(P)
    BY <2>4, DictSize
  <2>6. n >= 4 /\ Sched!RankOf(P, r.trial) >= n - Sched!Fraction(n, 4)
    BY <2>1, <2>5 DEF Behind, Sched!PopulationMin, P
  <2>7. Sched!RankOf(P, r.trial) >= 1
    <3>1. PICK rank \in Int : rank = Sched!RankOf(P, r.trial)
      <4>1. Sched!RankOf(P, Item(r).trial) \in 0..(Len(P) - 1)
        BY <2>4, RankRivals
      <4> QED BY <2>3, <4>1
    <3>2. n - (n + 4 - 1) \div 4 >= 1
      BY <2>6
    <3>3. PICK q \in Int : q = (n + 4 - 1) \div 4
      OBVIOUS
    <3>4. Sched!Fraction(n, 4) = q
      BY <3>3 DEF Sched!Fraction
    <3> QED BY <2>6, <3>1, <3>2, <3>3, <3>4
  <2>8. PICK x \in Items(P) : x.trial = Leader(P) /\ Sched!RankOf(P, x.trial) = 0
    BY <2>4, <2>5, <2>6, LeaderIs
  <2>9. x.trial # r.trial
    BY <2>7, <2>8
  <2>10. x \in Items(s.latest)
    BY <2>2, <2>8, <2>9, PutOthers DEF P, Members
  <2>11. Sched!NoWorse(x, r)
    <3>1. Worth(Item(r)) <= Worth(x)
      BY <2>4, <2>8, RankRivals
    <3>2. x.metric \in Metrics \cup {NaN}
      <4>1. x \in Entry
        BY <2>2, <2>10, DictSize
      <4> QED BY <4>1 DEF Entry
    <3>3. Sched!Utility(r.metric) <= Sched!Utility(x.metric)
      BY <2>3, <3>1 DEF Worth
    <3> QED BY <2>3, <3>2, <3>3, NoWorseIs
  <2>12. PICK i \in 1..Len(L) : L[i].trial = x.trial /\ L[i].metric = x.metric
    BY <2>2, <2>10, Zenon DEF LatestHeld
  <2>13. Sched!NoWorse(L[i], r)
    BY <2>11, <2>12 DEF Sched!NoWorse
  <2> QED BY <2>1, <2>8, <2>9, <2>12, <2>13
<1> QED BY <1>2, <1>3 DEF v

\* What the verdict on a report promises, of the reports before it.
Promised(v, L, r) ==
  /\ v.action \in {"continue", "stop", "exploit"}
  /\ v.action = "stop" /\ v.at > 0 =>
       \E i \in 1..Len(L) :
         /\ L[i].trial # r.trial /\ Sched!BracketOf(L[i].trial) = Sched!BracketOf(r.trial)
         /\ L[i].resource >= v.at /\ Sched!NoWorse(L[i], r)
  /\ v.action = "exploit" =>
       \E i \in 1..Len(L) : L[i].trial # r.trial /\ L[i].trial = v.source /\ Sched!NoWorse(L[i], r)
  /\ v.action = "stop" /\ Sched!kind = "median" =>
       \E i \in 1..Len(L) :
         L[i].trial # r.trial /\ L[i].resource = r.resource /\ ~Sched!NoWorse(r, L[i])

\* Every decision keeps its promise and a state backed by the reports.
LEMMA DecisionOfRule ==
  ASSUME Sched!SchedulerAssumption, scheduler \in Schedulers,
         NEW s, NEW L \in Seq(Sched!Reports), NEW r \in Sched!Reports, Held(s, L),
         \A i \in 1..Len(L) : L[i].trial = r.trial => L[i].resource < r.resource
  PROVE  Held(Sched!Decision(s, r)[2], Append(L, r)) /\ Promised(Sched!Decision(s, r)[1], L, r)
<1>1. Sched!kind \in {"median", "asha", "hyperband", "pbt"}
  BY DEF Sched!SchedulerAssumption, Sched!kind
<1>2. Held(s, Append(L, r))
  BY HeldMore
<1>3. CASE Sched!kind = "median"
  <2>1. Sched!Decision(s, r) = Sched!MedianDecision(s, r)
    BY <1>3 DEF Sched!Decision
  <2>2. Promised(Sched!MedianDecision(s, r)[1], L, r)
    BY <1>3, MedianJustified DEF Promised
  <2> QED BY <1>2, <2>1, <2>2, MedianHeld
<1>4. CASE Sched!kind \in {"asha", "hyperband"}
  <2>1. Sched!Decision(s, r) = Sched!AshaDecision(s, r)
    BY <1>4 DEF Sched!Decision
  <2>2. Promised(Sched!AshaDecision(s, r)[1], L, r)
    BY <1>4, AshaJustified DEF Promised
  <2> QED BY <1>2, <2>1, <2>2, AshaHeld
<1>5. CASE Sched!kind = "pbt"
  <2>1. Sched!Decision(s, r) = Sched!PbtDecision(s, r)
    BY <1>5 DEF Sched!Decision
  <2>2. Promised(Sched!PbtDecision(s, r)[1], L, r)
    BY <1>5, PbtJustified DEF Promised
  <2> QED BY <1>2, <2>1, <2>2, PbtHeld
<1> QED BY <1>1, <1>3, <1>4, <1>5

SchedInv ==
  /\ scheduler \in Schedulers /\ log \in Seq(Sched!Reports)
  /\ verdict.action \in {"continue", "stop", "exploit"}
  /\ Held(state, log)
  /\ Sched!StopsJustified

\* What depends on the scheduler alone keeps its value with the scheduler.
LEMMA RuleKept ==
  ASSUME scheduler' = scheduler
  PROVE  /\ Sched!kind' = Sched!kind
         /\ \A t : Sched!BracketOf(t)' = Sched!BracketOf(t)
         /\ \A b : Sched!LevelsOf(b)' = Sched!LevelsOf(b)
         /\ \A x, y : Sched!NoWorse(x, y)' <=> Sched!NoWorse(x, y)
<1>1. Sched!kind' = Sched!kind /\ Sched!direction' = Sched!direction
  BY DEF Sched!kind, Sched!direction
<1>2. Sched!Brackets' = Sched!Brackets
  BY <1>1 DEF Sched!Brackets
<1>3. ASSUME NEW t PROVE Sched!BracketOf(t)' = Sched!BracketOf(t)
  BY <1>2 DEF Sched!BracketOf
<1>4. ASSUME NEW b PROVE Sched!LevelsOf(b)' = Sched!LevelsOf(b)
  BY DEF Sched!LevelsOf
<1>5. ASSUME NEW x, NEW y PROVE Sched!NoWorse(x, y)' <=> Sched!NoWorse(x, y)
  BY <1>1, Zenon DEF Sched!NoWorse
<1> QED BY <1>1, <1>3, <1>4, <1>5

\* A state that is held stays held when the scheduler does not change.
LEMMA HeldKept ==
  ASSUME scheduler' = scheduler, Held(state', log')
  PROVE  Held(state, log)'
<1>1. ASSUME NEW b \in 0..(Cardinality(Levels) - 1), NEW k \in Levels
      PROVE  RungHeld(state.rungs[b][k], b, k, log)'
  <2>1. RungHeld(state'.rungs[b][k], b, k, log')
    BY Zenon DEF Held
  <2> QED BY <2>1, RuleKept, Zenon DEF RungHeld, Dict, Items
<1>2. LatestHeld(state.latest, log)' /\ (state \in SchedStates)'
  BY Zenon DEF Held, LatestHeld, Dict, Items, SchedStates, Entry
<1>3. ASSUME NEW k \in Levels PROVE HistoryHeld(state.history[k], k, log)'
  BY Zenon DEF Held, HistoryHeld
<1>4. ASSUME NEW t \in Trials
      PROVE  (state.reached[t] \in SUBSET Sched!LevelsOf(Sched!BracketOf(t)))'
  <2>1. state'.reached[t] \in SUBSET Sched!LevelsOf(Sched!BracketOf(t))
    BY Zenon DEF Held
  <2>2. Sched!LevelsOf(Sched!BracketOf(t))' = Sched!LevelsOf(Sched!BracketOf(t))
    <3>1. Sched!BracketOf(t)' = Sched!BracketOf(t)
      BY RuleKept
    <3> QED BY <3>1 DEF Sched!LevelsOf
  <2> QED BY <2>1, <2>2
<1> QED BY <1>1, <1>2, <1>3, <1>4, Zenon DEF Held

\* A promise about the reports before the last is what the last report needs.
LEMMA PromiseKept ==
  ASSUME NEW L \in Seq(Sched!Reports), NEW r \in Sched!Reports, scheduler' = scheduler,
         log' = Append(L, r), Promised(verdict', L, r)
  PROVE  Sched!StopsJustified'
<1> DEFINE M == Append(L, r)
           rivals == {i \in DOMAIN M : M[i].trial # r.trial}
<1>1. /\ Len(M) = Len(L) + 1 /\ Len(L) \in Nat /\ M[Len(M)] = r /\ DOMAIN M = 1..Len(M)
      /\ \A i \in 1..Len(L) : i \in DOMAIN M /\ M[i] = L[i]
  OBVIOUS
<1> HIDE DEF M
<1>2. \A i \in 1..Len(L) : L[i].trial # r.trial => i \in rivals
  BY <1>1
<1>3. log' = M /\ Sched!LastReport' = r
  BY <1>1 DEF M, Sched!LastReport
<1> HIDE DEF rivals
<1>4. /\ verdict'.action = "stop" /\ verdict'.at > 0 =>
           \E i \in rivals : /\ Sched!BracketOf(M[i].trial) = Sched!BracketOf(r.trial)
                             /\ M[i].resource >= verdict'.at /\ Sched!NoWorse(M[i], r)
      /\ verdict'.action = "exploit" =>
           \E i \in rivals : M[i].trial = verdict'.source /\ Sched!NoWorse(M[i], r)
      /\ verdict'.action = "stop" /\ Sched!kind = "median" =>
           \E i \in rivals : M[i].resource = r.resource /\ ~Sched!NoWorse(r, M[i])
  BY <1>1, <1>2, Zenon DEF Promised
<1> QED BY <1>3, <1>4, RuleKept, Zenon DEF Sched!StopsJustified, rivals

\* Every step keeps the invariant.
LEMMA SchedStep ==
  ASSUME Sched!SchedulerAssumption, SchedInv, [Sched!Next]_(Sched!schedulerVars)
  PROVE  SchedInv'
<1>1. ASSUME Sched!Restore PROVE SchedInv'
  <2>1. state' = Sched!Restored(state) /\ scheduler' = scheduler /\ log' = log /\ verdict' = verdict
    BY <1>1 DEF Sched!Restore
  <2>2. Held(Sched!Restored(state), log)
    BY RestoredIs, Zenon DEF SchedInv
  <2>3. Held(state, log)'
    BY <2>1, <2>2, HeldKept
  <2>4. Sched!StopsJustified'
    <3>1. Sched!LastReport' = Sched!LastReport
      BY <2>1 DEF Sched!LastReport
    <3> QED BY <2>1, <3>1, RuleKept, Zenon DEF SchedInv, Sched!StopsJustified
  <2> QED BY <2>1, <2>3, <2>4 DEF SchedInv, Sched!Reports
<1>2. ASSUME NEW r \in Sched!Reports, Sched!OnResult(r) PROVE SchedInv'
  <2>1. /\ verdict' = Sched!Decision(state, r)[1] /\ state' = Sched!Decision(state, r)[2]
        /\ log' = Append(log, r) /\ scheduler' = scheduler /\ Sched!MayReport(r)
    BY <1>2, Zenon DEF Sched!OnResult
  <2>2. log \in Seq(Sched!Reports) /\ Held(state, log) /\ scheduler \in Schedulers
    BY DEF SchedInv
  <2>3. \A i \in 1..Len(log) : log[i].trial = r.trial => log[i].resource < r.resource
    <3>1. DOMAIN log = 1..Len(log)
      BY <2>2
    <3> QED BY <2>1, <3>1, Zenon DEF Sched!MayReport
  <2>4. Held(Sched!Decision(state, r)[2], Append(log, r))
        /\ Promised(Sched!Decision(state, r)[1], log, r)
    BY <2>2, <2>3, DecisionOfRule
  <2>5. Held(state, log)'
    BY <2>1, <2>4, HeldKept
  <2>6. Sched!StopsJustified'
    BY <2>1, <2>2, <2>4, PromiseKept
  <2>7. verdict'.action \in {"continue", "stop", "exploit"}
    BY <2>1, <2>4 DEF Promised
  <2>8. (log \in Seq(Sched!Reports))'
    BY <2>1, <2>2 DEF Sched!Reports
  <2> QED BY <2>1, <2>2, <2>5, <2>6, <2>7, <2>8 DEF SchedInv
<1>3. ASSUME UNCHANGED Sched!schedulerVars PROVE SchedInv'
  <2>1. state' = state /\ scheduler' = scheduler /\ log' = log /\ verdict' = verdict
    BY <1>3 DEF Sched!schedulerVars
  <2>2. Held(state, log)'
    BY <2>1, HeldKept, Zenon DEF SchedInv
  <2>3. Sched!StopsJustified'
    <3>1. Sched!LastReport' = Sched!LastReport
      BY <2>1 DEF Sched!LastReport
    <3> QED BY <2>1, <3>1, RuleKept, Zenon DEF SchedInv, Sched!StopsJustified
  <2> QED BY <2>1, <2>2, <2>3 DEF SchedInv, Sched!Reports
<1> QED BY <1>1, <1>2, <1>3, Zenon DEF Sched!Next

\* A dictionary with a new item and its restored copy rank alike, without ties.
LEMMA PutSame ==
  ASSUME Sched!SchedulerAssumption, scheduler \in Schedulers, log \in Seq(Sched!Reports),
         NEW F, LatestHeld(F, log), NEW r \in Sched!Reports, Sched!NoTies, ~Sched!Tied(r)
  PROVE  LET P == Sched!Put(F, Item(r))
             Q == Sched!Put(Sched!ByTrial(F), Item(r))
         IN  /\ Dict(P) /\ Dict(Q) /\ Items(P) = Items(Q) /\ Len(P) = Len(Q)
             /\ \A x \in Items(P) : Sched!RankOf(P, x.trial) = Sched!RankOf(Q, x.trial)
             /\ Item(r) \in Items(P)
<1> DEFINE P == Sched!Put(F, Item(r))
           Q == Sched!Put(Sched!ByTrial(F), Item(r))
<1>1. /\ Item(r) \in Entry /\ Item(r).trial = r.trial /\ Item(r).metric = r.metric
      /\ r.metric \in Metrics \cup {NaN}
  BY ItemIs
<1>2. Dict(F) /\ Dict(Sched!ByTrial(F)) /\ Items(Sched!ByTrial(F)) = Items(F)
  BY ByTrialIs DEF LatestHeld
<1>3. Dict(P) /\ Items(P) = {x \in Items(F) : x.trial # Item(r).trial} \cup {Item(r)}
  BY <1>1, <1>2, PutIs
<1>4. Dict(Q) /\ Items(Q) = {x \in Items(F) : x.trial # Item(r).trial} \cup {Item(r)}
  BY <1>1, <1>2, PutIs
<1> HIDE DEF P, Q
<1>5. DOMAIN log = 1..Len(log)
  OBVIOUS
<1>6. ASSUME NEW x \in Items(F), NEW y \in Items(F), x.metric = y.metric PROVE x = y
  <2>1. PICK i \in 1..Len(log) : log[i].trial = x.trial /\ log[i].metric = x.metric
    BY Zenon DEF LatestHeld
  <2>2. PICK j \in 1..Len(log) : log[j].trial = y.trial /\ log[j].metric = y.metric
    BY Zenon DEF LatestHeld
  <2>3. x.trial = y.trial
    BY <1>5, <1>6, <2>1, <2>2 DEF Sched!NoTies
  <2> QED BY <1>2, <2>3 DEF Dict, Items
<1>7. ASSUME NEW x \in Items(F), x.trial # r.trial PROVE x.metric # r.metric
  <2>1. PICK i \in 1..Len(log) : log[i].trial = x.trial /\ log[i].metric = x.metric
    BY Zenon DEF LatestHeld
  <2> QED BY <1>5, <1>7, <2>1 DEF Sched!Tied
<1>8. Untied(Items(P))
  <2> SUFFICES ASSUME NEW x \in Items(P), NEW y \in Items(P), Worth(x) = Worth(y) PROVE x = y
    BY DEF Untied
  <2>1. x.metric \in Metrics \cup {NaN} /\ y.metric \in Metrics \cup {NaN}
    <3>1. x \in Entry /\ y \in Entry
      BY <1>3, DictSize
    <3> QED BY <3>1 DEF Entry
  <2>2. x.metric = y.metric
    BY <2>1, UtilityIs DEF Worth
  <2>3. /\ x = Item(r) \/ (x \in Items(F) /\ x.trial # r.trial)
        /\ y = Item(r) \/ (y \in Items(F) /\ y.trial # r.trial)
    BY <1>1, <1>3
  <2> QED BY <1>1, <1>6, <1>7, <2>2, <2>3
<1>9. Items(P) = Items(Q)
  BY <1>3, <1>4
<1>10. Len(P) = Len(Q) /\ \A x \in Items(P) : Sched!RankOf(P, x.trial) = Sched!RankOf(Q, x.trial)
  BY <1>3, <1>4, <1>8, <1>9, SameRanks
<1>11. Item(r) \in Items(P)
  BY <1>3
<1> QED BY <1>3, <1>4, <1>9, <1>10, <1>11 DEF P, Q

\* Population based training decides alike after a restore.
LEMMA PbtResumes ==
  ASSUME Sched!SchedulerAssumption, SchedInv,
         NEW r \in Sched!Reports, Sched!NoTies, ~Sched!Tied(r)
  PROVE  Sched!PbtDecision(Sched!Restored(state), r)[1] = Sched!PbtDecision(state, r)[1]
<1> DEFINE R == Sched!Restored(state)
           P == Members(state, r)
           Q == Members(R, r)
<1>1. scheduler \in Schedulers /\ log \in Seq(Sched!Reports) /\ Held(state, log)
      /\ LatestHeld(state.latest, log)
  BY Zenon DEF SchedInv, Held
<1>2. R.latest = Sched!ByTrial(state.latest) /\ R.exploited = state.exploited
  BY <1>1, RestoredIs
<1>3. /\ Dict(P) /\ Dict(Q) /\ Items(P) = Items(Q) /\ Len(P) = Len(Q)
      /\ \A x \in Items(P) : Sched!RankOf(P, x.trial) = Sched!RankOf(Q, x.trial)
      /\ Item(r) \in Items(P)
  BY <1>1, <1>2, PutSame DEF Members
<1>4. Sched!RankOf(P, r.trial) = Sched!RankOf(Q, r.trial)
  BY <1>3, ItemIs
<1> HIDE DEF R, P, Q
<1>5. Behind(R, r) <=> Behind(state, r)
  BY <1>2, <1>3, <1>4, Zenon DEF Behind, P, Q
<1>6. ASSUME Behind(state, r) PROVE Leader(P) = Leader(Q)
  <2>1. Len(P) > 0 /\ Len(Q) > 0
    <3>1. Len(P) >= 4
      BY <1>6 DEF Behind, Sched!PopulationMin, P
    <3>2. Len(P) \in Nat
      BY <1>3, DictSize
    <3> QED BY <1>3, <3>1, <3>2
  <2>2. PICK x \in Items(P) : x.trial = Leader(P) /\ Sched!RankOf(P, x.trial) = 0
    BY <1>1, <1>3, <2>1, LeaderIs
  <2>3. PICK y \in Items(Q) : y.trial = Leader(Q) /\ Sched!RankOf(Q, y.trial) = 0
    BY <1>1, <1>3, <2>1, LeaderIs
  <2>4. Sched!RankOf(P, y.trial) = 0 /\ y \in Items(P)
    BY <1>3, <2>3
  <2>5. x = y
    BY <1>1, <1>3, <2>2, <2>4, RankInjective
  <2> QED BY <2>2, <2>3, <2>5
<1>7. Sched!PbtDecision(R, r)[1] = IF Behind(R, r) THEN Sched!Exploit(Leader(Q)) ELSE Sched!Continue
  BY PbtIs DEF Q
<1>8. Sched!PbtDecision(state, r)[1]
        = IF Behind(state, r) THEN Sched!Exploit(Leader(P)) ELSE Sched!Continue
  BY PbtIs DEF P
<1> QED BY <1>5, <1>6, <1>7, <1>8 DEF R

\* ASHA and HyperBand decide alike after a restore.
LEMMA AshaResumes ==
  ASSUME Sched!SchedulerAssumption, SchedInv,
         NEW r \in Sched!Reports, Sched!NoTies, ~Sched!Tied(r)
  PROVE  Sched!AshaDecision(Sched!Restored(state), r)[1] = Sched!AshaDecision(state, r)[1]
<1> DEFINE R == Sched!Restored(state)
           b == Sched!BracketOf(r.trial)
<1>1. scheduler \in Schedulers /\ log \in Seq(Sched!Reports) /\ Held(state, log)
  BY Zenon DEF SchedInv
<1>2. R.reached = state.reached
  BY <1>1, RestoredIs
<1>3. b \in 0..(Cardinality(Levels) - 1) /\ Sched!LevelsOf(b) \in SUBSET Levels
  BY <1>1, BracketIs, ItemIs
<1>4. ASSUME NEW k \in Sched!LevelsOf(b) PROVE Ends(R, r, k) <=> Ends(state, r, k)
  <2>1. k \in Levels
    BY <1>3
  <2>2. RungHeld(state.rungs[b][k], b, k, log)
    BY <1>1, <1>3, <2>1, Zenon DEF Held
  <2>3. LatestHeld(state.rungs[b][k], log)
    BY <2>2, Zenon DEF RungHeld, LatestHeld
  <2>4. R.rungs[b][k] = Sched!ByTrial(state.rungs[b][k])
    BY <1>1, <1>3, <2>1, RestoredIs
  <2> DEFINE P == Entered(state, r, k)
             Q == Entered(R, r, k)
  <2>5. /\ Items(P) = Items(Q) /\ Len(P) = Len(Q) /\ Item(r) \in Items(P)
        /\ \A x \in Items(P) : Sched!RankOf(P, x.trial) = Sched!RankOf(Q, x.trial)
    BY <1>1, <2>3, <2>4, PutSame DEF Entered
  <2>6. Sched!RankOf(P, r.trial) = Sched!RankOf(Q, r.trial)
    BY <2>5, ItemIs
  <2> HIDE DEF P, Q
  <2> QED BY <2>5, <2>6, Zenon DEF Ends, P, Q
<1> HIDE DEF R
<1>5. Eligible(R, r) = Eligible(state, r) /\ Eligible(state, r) \in SUBSET Sched!LevelsOf(b)
  BY <1>2 DEF Eligible
<1>6. Visited(R, r) = Visited(state, r)
  BY <1>4, <1>5 DEF Visited
<1>7. Stopping(R, r) = Stopping(state, r)
  <2>1. Visited(state, r) \in SUBSET Sched!LevelsOf(b)
    BY <1>5 DEF Visited
  <2> QED BY <1>4, <1>6, <2>1 DEF Stopping
<1>8. Sched!AshaDecision(R, r)[1]
        = IF Stopping(R, r) # {} THEN Sched!StopAt(CHOOSE k \in Stopping(R, r) : TRUE)
          ELSE IF r.resource >= Sched!TopLevel THEN Sched!StopAt(0) ELSE Sched!Continue
  BY AshaIs
<1>9. Sched!AshaDecision(state, r)[1]
        = IF Stopping(state, r) # {} THEN Sched!StopAt(CHOOSE k \in Stopping(state, r) : TRUE)
          ELSE IF r.resource >= Sched!TopLevel THEN Sched!StopAt(0) ELSE Sched!Continue
  BY AshaIs
<1>10. Sched!AshaDecision(R, r)[1] = Sched!AshaDecision(state, r)[1]
  BY <1>7, <1>8, <1>9
<1> QED BY <1>10 DEF R

\* Every scheduler does, for every report it may get next.
LEMMA Resumes ==
  ASSUME Sched!SchedulerAssumption, SchedInv
  PROVE  Sched!ResumeTransparent
<1> SUFFICES ASSUME Sched!NoTies, NEW r \in Sched!Reports, ~Sched!Tied(r)
             PROVE  Sched!Decision(Sched!Restored(state), r)[1] = Sched!Decision(state, r)[1]
  BY Zenon DEF Sched!ResumeTransparent
<1>1. Sched!kind \in {"median", "asha", "hyperband", "pbt"}
  BY DEF Sched!SchedulerAssumption, Sched!kind, SchedInv
<1>2. CASE Sched!kind = "median"
  <2>1. Sched!Restored(state).history = state.history
    BY RestoredIs, Zenon DEF SchedInv
  <2>2. Sched!MedianDecision(Sched!Restored(state), r)[1] = Sched!MedianDecision(state, r)[1]
    BY <2>1 DEF Sched!MedianDecision
  <2> QED BY <1>2, <2>2 DEF Sched!Decision
<1>3. CASE Sched!kind \in {"asha", "hyperband"}
  BY <1>3, AshaResumes DEF Sched!Decision
<1>4. CASE Sched!kind = "pbt"
  BY <1>4, PbtResumes DEF Sched!Decision
<1> QED BY <1>1, <1>2, <1>3, <1>4

\* In the beginning nothing is held and nothing was reported.
LEMMA SchedInit ==
  ASSUME Sched!SchedulerAssumption, Sched!Init
  PROVE  SchedInv
<1>1. scheduler \in Schedulers /\ log = <<>> /\ log \in Seq(Sched!Reports) /\ verdict = Sched!Continue
  BY DEF Sched!Init
<1>2. state = [rungs |-> [b \in 0..(Cardinality(Levels) - 1) |-> [k \in Levels |-> <<>>]],
               reached |-> [t \in Trials |-> {}], history |-> [k \in Levels |-> <<>>],
               latest |-> <<>>, exploited |-> [t \in Trials |-> 0]]
  BY SchedSizes, Zenon DEF Sched!Init
<1>3. state \in SchedStates
  BY <1>2 DEF SchedStates
<1>4. Dict(<<>>) /\ Items(<<>>) = {}
  BY DEF Dict, Items
<1>5. /\ LatestHeld(<<>>, log)
      /\ \A b, k : RungHeld(<<>>, b, k, log) /\ HistoryHeld(<<>>, k, log)
  <2>1. 1..Len(<<>>) = {}
    OBVIOUS
  <2> QED BY <1>4, <2>1 DEF LatestHeld, RungHeld, HistoryHeld
<1>6. Held(state, log)
  <2>1. \A b \in 0..(Cardinality(Levels) - 1) : \A k \in Levels : state.rungs[b][k] = <<>>
    BY <1>2
  <2>2. state.latest = <<>> /\ \A k \in Levels : state.history[k] = <<>>
    BY <1>2
  <2>3. \A t \in Trials : state.reached[t] = {}
    BY <1>2
  <2> QED BY <1>3, <1>5, <2>1, <2>2, <2>3 DEF Held
<1>7. Sched!StopsJustified
  BY <1>1 DEF Sched!StopsJustified
<1>8. verdict.action \in {"continue", "stop", "exploit"}
  BY <1>1 DEF Sched!Continue
<1> QED BY <1>1, <1>6, <1>7, <1>8 DEF SchedInv

\* Every stop and every exploit of a scheduler is justified by the reports alone,
\* and a checkpoint loses nothing but the order of equals.
THEOREM SchedulersAlwaysJustified ==
  ASSUME Sched!SchedulerAssumption
  PROVE  Sched!Spec => [](Sched!TypeOK /\ Sched!DecisionsSound)
<1>1. Sched!Init => SchedInv
  BY SchedInit
<1>2. SchedInv /\ [Sched!Next]_(Sched!schedulerVars) => SchedInv'
  BY SchedStep
<1>3. SchedInv => Sched!TypeOK /\ Sched!DecisionsSound
  <2> SUFFICES ASSUME SchedInv PROVE Sched!TypeOK /\ Sched!DecisionsSound
    OBVIOUS
  <2>1. \A t \in Trials : state.reached[t] \in SUBSET Sched!LevelsOf(Sched!BracketOf(t))
    BY Zenon DEF SchedInv, Held
  <2>2. Sched!TypeOK
    BY <2>1 DEF SchedInv, Sched!TypeOK
  <2>3. Sched!DecisionsSound
    BY Resumes DEF SchedInv, Sched!DecisionsSound
  <2> QED BY <2>2, <2>3
<1> QED BY <1>1, <1>2, <1>3, PTL DEF Sched!Spec

-----------------------------------------------------------------------------
(***************************************************************************)
(* The searchers of a study, for any algorithm, directions, values, batches *)
(* and failures.  That a searcher has the best it ever saw is inductive only *)
(* with what connects its memory to the results: every candidate is at most *)
(* as good as some member of a population, or as some particle; and to know *)
(* that, each trial of a batch must have a particle of its own.  A front is *)
(* kept because the fronts are taken away one by one, and the first of them *)
(* is kept whole as long as it fits.                                       *)
(***************************************************************************)

\* A finite set has a member of largest value.
LEMMA LargestBy ==
  ASSUME NEW S, IsFiniteSet(S), S # {}, NEW f \in [S -> Int]
  PROVE  \E x \in S : \A y \in S : f[y] <= f[x]
<1> DEFINE G == {T \in SUBSET S : T = {} \/ \E x \in T : \A y \in T : f[y] <= f[x]}
<1>1. G \in SUBSET SUBSET S /\ {} \in G
  OBVIOUS
<1>2. ASSUME NEW T \in G, NEW x \in S \ T PROVE T \cup {x} \in G
  <2>1. T \cup {x} \in SUBSET S /\ f[x] \in Int
    OBVIOUS
  <2>2. CASE T = {}
    BY <2>1, <2>2
  <2>3. CASE T # {}
    <3>1. PICK t \in T : \A y \in T : f[y] <= f[t]
      BY <2>3
    <3>2. \A y \in T : f[y] \in Int
      OBVIOUS
    <3>3. CASE f[x] <= f[t]
      BY <2>1, <3>1, <3>3
    <3>4. CASE ~(f[x] <= f[t])
      <4>1. \A y \in T \cup {x} : f[y] <= f[x]
        BY <2>1, <3>1, <3>2, <3>4
      <4> QED BY <2>1, <4>1
    <3> QED BY <3>3, <3>4
  <2> QED BY <2>2, <2>3
<1> HIDE DEF G
<1>3. S \in G
  BY <1>1, <1>2, GrowsToAll
<1> QED BY <1>3 DEF G

\* The members of S before x in an order, which is a set of pairs.
Preceding(S, R, x) == {y \in S : <<y, x>> \in R}

Ranked(S, R) ==
  /\ \A x \in S : <<x, x>> \notin R
  /\ \A x, y, z \in S : <<x, y>> \in R /\ <<y, z>> \in R => <<x, z>> \in R
  /\ \A x, y \in S : x # y => <<x, y>> \in R \/ <<y, x>> \in R

\* The places of a strict order are 0, 1, ..., and every member has its own.
LEMMA OrderPlaces ==
  ASSUME NEW S, IsFiniteSet(S), NEW R, Ranked(S, R)
  PROVE  /\ Cardinality(S) \in Nat
         /\ \A x \in S : Cardinality(Preceding(S, R, x)) \in 0..(Cardinality(S) - 1)
         /\ \A x, y \in S :
              Cardinality(Preceding(S, R, x)) = Cardinality(Preceding(S, R, y)) => x = y
         /\ \A k \in 0..(Cardinality(S) - 1) :
              \E x \in S : Cardinality(Preceding(S, R, x)) = k
<1> DEFINE n == Cardinality(S)
           place == [x \in S |-> Cardinality(Preceding(S, R, x))]
<1>0. n \in Nat
  BY FS_CardinalityType
<1>1. ASSUME NEW x \in S
      PROVE  /\ IsFiniteSet(Preceding(S, R, x))
             /\ Cardinality(Preceding(S, R, x)) \in 0..(n - 1)
  <2>1. Preceding(S, R, x) \in SUBSET (S \ {x})
    BY DEF Preceding, Ranked
  <2>2. IsFiniteSet(S \ {x}) /\ Cardinality(S \ {x}) = n - 1
    BY FS_RemoveElement, Zenon
  <2>3. IsFiniteSet(Preceding(S, R, x)) /\ Cardinality(Preceding(S, R, x)) <= n - 1
    BY <2>1, <2>2, FS_Subset
  <2> QED BY <1>0, <2>3, FS_CardinalityType
<1>2. ASSUME NEW x \in S, NEW y \in S, <<x, y>> \in R
      PROVE  Cardinality(Preceding(S, R, x)) < Cardinality(Preceding(S, R, y))
  <2>1. Preceding(S, R, x) \cup {x} \in SUBSET Preceding(S, R, y)
    BY <1>2 DEF Preceding, Ranked
  <2>2. x \notin Preceding(S, R, x)
    BY DEF Preceding, Ranked
  <2>3. IsFiniteSet(Preceding(S, R, x)) /\ IsFiniteSet(Preceding(S, R, y))
        /\ Cardinality(Preceding(S, R, x)) \in Nat /\ Cardinality(Preceding(S, R, y)) \in Nat
    BY <1>1
  <2>4. Cardinality(Preceding(S, R, x) \cup {x}) = Cardinality(Preceding(S, R, x)) + 1
    BY <2>2, <2>3, FS_AddElement, Zenon
  <2>5. Cardinality(Preceding(S, R, x) \cup {x}) <= Cardinality(Preceding(S, R, y))
    BY <2>1, <2>3, FS_Subset
  <2> QED BY <2>3, <2>4, <2>5
<1>3. ASSUME NEW x \in S, NEW y \in S,
             Cardinality(Preceding(S, R, x)) = Cardinality(Preceding(S, R, y))
      PROVE  x = y
  <2>1. Cardinality(Preceding(S, R, x)) \in Int /\ Cardinality(Preceding(S, R, y)) \in Int
    BY <1>1
  <2>2. <<x, y>> \notin R /\ <<y, x>> \notin R
    BY <1>2, <1>3, <2>1
  <2> QED BY <2>2 DEF Ranked
<1>4. place \in Surjection(S, 0..(n - 1))
  <2>1. place \in [S -> 0..(n - 1)]
    BY <1>1
  <2>2. \A x, y \in S : place[x] = place[y] => x = y
    BY <1>3
  <2>3. IsFiniteSet(0..(n - 1)) /\ Cardinality(0..(n - 1)) = n
    BY <1>0, FS_Interval
  <2> HIDE DEF place
  <2>4. place \in Injection(S, 0..(n - 1))
    BY <2>1, <2>2 DEF Injection, IsInjective
  <2> QED BY <2>3, <2>4, FS_Injection
<1>5. ASSUME NEW k \in 0..(n - 1) PROVE \E x \in S : Cardinality(Preceding(S, R, x)) = k
  <2>1. \E x \in S : place[x] = k
    <3> HIDE DEF place
    <3> QED BY <1>4 DEF Surjection
  <2> QED BY <2>1
<1> QED BY <1>0, <1>1, <1>3, <1>5

\* The cardinality that the searchers use is the one the library is about.
LEMMA SearchSizes == \A S : Search!Cardinality(S) = Cardinality(S)
<1>1. ASSUME NEW S PROVE Search!Cardinality(S) = Cardinality(S)
  BY DEF Search!Cardinality, Cardinality
<1> QED BY <1>1

ResultIs(r) ==
  /\ r.trial \in Nat \ {0} /\ r.completed \in BOOLEAN
  /\ r.completed => r.objectives[1] \in Values /\ r.objectives[2] \in Int

\* Results of different trials.
Results(S) ==
  /\ IsFiniteSet(S) /\ \A r \in S : ResultIs(r)
  /\ \A q, r \in S : q.trial = r.trial => q = r

Directed == directions \in {<<d, "minimize">> : d \in {"maximize", "minimize"}}

\* A failed trial is worse than every other.
LEMMA UtilityIn ==
  ASSUME Search!SearchAssumption, Directed, NEW r, ResultIs(r)
  PROVE  /\ Search!Utility(r) \in Int /\ Lowest \in Int
         /\ r.completed => Lowest < Search!Utility(r)
         /\ ~r.completed => Search!Utility(r) = Lowest
<1>1. Lowest \in Int /\ \A v \in Values : v \in Int /\ Lowest < v /\ Lowest < -v
  BY DEF Search!SearchAssumption
<1>2. directions[1] \in {"maximize", "minimize"}
  BY DEF Directed
<1>3. CASE r.completed
  <2>1. PICK v \in Values : v = r.objectives[1]
    BY <1>3 DEF ResultIs
  <2>2. Search!Utility(r) = IF directions[1] = "maximize" THEN v ELSE -v
    BY <1>3, <2>1 DEF Search!Utility, Search!Signed
  <2> QED BY <1>1, <1>3, <2>2
<1>4. CASE ~r.completed
  BY <1>1, <1>4 DEF Search!Utility
<1> QED BY <1>3, <1>4

\* The n best are at most n, and the first of them is one of the best of all.
LEMMA BestAre ==
  ASSUME Search!SearchAssumption, Directed, NEW S, Results(S), NEW n \in Nat \ {0}
  PROVE  /\ Search!Best(S, n) \in SUBSET S
         /\ IsFiniteSet(Search!Best(S, n)) /\ Cardinality(Search!Best(S, n)) <= n
         /\ S # {} => \E r \in Search!Best(S, n) : \A q \in S : Search!Utility(q) <= Search!Utility(r)
<1> DEFINE R == {p \in S \X S : Search!Ahead(p[1], p[2])}
           B == Search!Best(S, n)
           place == [x \in B |-> Cardinality(Preceding(S, R, x))]
<1>1. \A q, r \in S : <<q, r>> \in R <=> Search!Ahead(q, r)
  OBVIOUS
<1>2. \A r \in S : Search!Utility(r) \in Int /\ r.trial \in Int
  BY UtilityIn DEF Results, ResultIs
<1>3. \A q, r \in S : Search!Ahead(q, r) <=> \/ Search!Utility(q) > Search!Utility(r)
                                             \/ Search!Utility(q) = Search!Utility(r) /\ q.trial < r.trial
  BY DEF Search!Ahead
<1>4. \A q, r \in S : q.trial = r.trial => q = r
  BY DEF Results
<1> HIDE DEF R
<1>5. Ranked(S, R)
  <2>1. \A x \in S : <<x, x>> \notin R
    BY <1>1, <1>2, <1>3
  <2>2. \A x, y, z \in S : <<x, y>> \in R /\ <<y, z>> \in R => <<x, z>> \in R
    BY <1>1, <1>2, <1>3
  <2>3. \A x, y \in S : x # y => <<x, y>> \in R \/ <<y, x>> \in R
    BY <1>1, <1>2, <1>3, <1>4
  <2> QED BY <2>1, <2>2, <2>3 DEF Ranked
<1>6. IsFiniteSet(S)
  BY DEF Results
<1>7. \A r \in S : {q \in S : Search!Ahead(q, r)} = Preceding(S, R, r)
  BY <1>1 DEF Preceding
<1>8. B = {r \in S : Cardinality(Preceding(S, R, r)) < n}
  BY <1>7, SearchSizes DEF Search!Best
<1>9. /\ Cardinality(S) \in Nat
      /\ \A x \in S : Cardinality(Preceding(S, R, x)) \in 0..(Cardinality(S) - 1)
      /\ \A x, y \in S : Cardinality(Preceding(S, R, x)) = Cardinality(Preceding(S, R, y)) => x = y
      /\ \A k \in 0..(Cardinality(S) - 1) : \E x \in S : Cardinality(Preceding(S, R, x)) = k
  BY <1>5, <1>6, OrderPlaces
<1> HIDE DEF B
<1>10. B \in SUBSET S /\ IsFiniteSet(B)
  BY <1>6, <1>8, FS_Subset
<1>11. Cardinality(B) <= n
  <2>1. \A x \in B : Cardinality(Preceding(S, R, x)) \in 0..(n - 1)
    BY <1>8, <1>9
  <2>2. place \in [B -> 0..(n - 1)]
    BY <2>1
  <2>3. \A x, y \in B : place[x] = place[y] => x = y
    BY <1>9, <1>10
  <2> HIDE DEF place
  <2>4. place \in Injection(B, 0..(n - 1))
    BY <2>2, <2>3 DEF Injection, IsInjective
  <2>5. IsFiniteSet(0..(n - 1)) /\ Cardinality(0..(n - 1)) = n
    BY FS_Interval
  <2> QED BY <2>4, <2>5, FS_Injection
<1>12. ASSUME S # {}
       PROVE  \E r \in B : \A q \in S : Search!Utility(q) <= Search!Utility(r)
  <2>1. Cardinality(S) # 0
    BY <1>6, <1>12, FS_EmptySet
  <2>2. PICK r \in S : Cardinality(Preceding(S, R, r)) = 0
    BY <1>9, <2>1
  <2>3. r \in B
    BY <1>8, <2>2
  <2>4. IsFiniteSet(Preceding(S, R, r)) /\ Preceding(S, R, r) \in SUBSET S
    BY <1>6, FS_Subset DEF Preceding
  <2>5. Preceding(S, R, r) = {}
    BY <2>2, <2>4, FS_EmptySet
  <2>6. \A q \in S : ~Search!Ahead(q, r)
    BY <1>7, <2>5
  <2> QED BY <1>2, <1>3, <2>3, <2>6
<1> QED BY <1>10, <1>11, <1>12 DEF B

\* A set of natural numbers has a least member.
LEMMA SmallestIs ==
  ASSUME NEW S \in SUBSET Nat, S # {}
  PROVE  \E m \in S : \A k \in S : m <= k
<1>1. PICK m \in S : \A k \in S : <<k, m>> \notin OpToRel(<, Nat)
  BY NatLessThanWellFounded, WFMin
<1>2. \A k \in S : ~(k < m)
  BY <1>1 DEF OpToRel
<1> QED BY <1>2

\* What is left of candidates C for the first n fronts.
Peels(C, n, left) ==
  /\ left \in [0..n -> SUBSET C] /\ left[0] = C
  /\ \A k \in 1..n : left[k] = left[k - 1] \ Search!Nondominated(left[k - 1])

\* There is one for every n.
LEMMA PeelingExists ==
  ASSUME NEW C, NEW n \in Nat
  PROVE  \E left : Peels(C, n, left)
<1> DEFINE Without == {m \in Nat : ~ \E left : Peels(C, m, left)}
<1> SUFFICES ASSUME Without # {} PROVE FALSE
  OBVIOUS
<1>1. PICK m \in Without : \A k \in Without : m <= k
  BY SmallestIs
<1>2. m # 0
  <2>1. Peels(C, 0, [k \in 0..0 |-> C])
    BY DEF Peels
  <2> QED BY <2>1
<1>3. m \in Nat /\ m - 1 \in Nat /\ m - 1 \notin Without
  BY <1>1, <1>2
<1>4. PICK left : Peels(C, m - 1, left)
  BY <1>3
<1> HIDE DEF Without
<1> DEFINE last == left[m - 1] \ Search!Nondominated(left[m - 1])
           longer == [k \in 0..m |-> IF k = m THEN last ELSE left[k]]
<1>5. /\ left \in [0..(m - 1) -> SUBSET C] /\ left[0] = C
      /\ \A k \in 1..(m - 1) : left[k] = left[k - 1] \ Search!Nondominated(left[k - 1])
  BY <1>4 DEF Peels
<1>6. m \in Nat /\ 0 \in 0..(m - 1) /\ m - 1 \in 0..(m - 1)
  BY <1>2, <1>3
<1>7. last \in SUBSET C
  BY <1>5, <1>6
<1> HIDE DEF last
<1>8. longer \in [0..m -> SUBSET C] /\ longer[0] = C
  <2>1. \A k \in 0..m : k = m \/ k \in 0..(m - 1)
    BY <1>6
  <2>2. 0 \in 0..m /\ 0 # m
    BY <1>2, <1>6
  <2> QED BY <1>5, <1>7, <2>1, <2>2
<1>9. ASSUME NEW k \in 1..m
      PROVE  longer[k] = longer[k - 1] \ Search!Nondominated(longer[k - 1])
  <2>1. k \in 0..m /\ k - 1 \in 0..m /\ k - 1 # m /\ longer[k - 1] = left[k - 1]
    BY <1>6
  <2>2. CASE k = m
    BY <2>1, <2>2 DEF last
  <2>3. CASE k # m
    <3>1. k \in 1..(m - 1)
      BY <1>6, <2>3
    <3> QED BY <1>5, <2>1, <2>3, <3>1
  <2> QED BY <2>2, <2>3
<1> HIDE DEF longer
<1>10. Peels(C, m, longer)
  BY <1>8, <1>9 DEF Peels
<1> QED BY <1>1, <1>10 DEF Without

\* There is only one, as far as it goes.
LEMMA PeelingsAgree ==
  ASSUME NEW C, NEW n \in Nat, NEW m \in Nat, NEW f, Peels(C, n, f), NEW g, Peels(C, m, g),
         NEW k \in Nat, k <= n, k <= m
  PROVE  f[k] = g[k]
<1> DEFINE Differ == {j \in Nat : j <= n /\ j <= m /\ f[j] # g[j]}
<1> SUFFICES ASSUME Differ # {} PROVE FALSE
  OBVIOUS
<1>1. PICK j \in Differ : \A i \in Differ : j <= i
  BY SmallestIs
<1>2. j # 0
  BY <1>1 DEF Peels
<1>3. j - 1 \in Nat /\ j - 1 \notin Differ /\ j \in 1..n /\ j \in 1..m
  BY <1>1, <1>2
<1>4. f[j - 1] = g[j - 1]
  BY <1>3
<1>5. /\ f[j] = f[j - 1] \ Search!Nondominated(f[j - 1])
      /\ g[j] = g[j - 1] \ Search!Nondominated(g[j - 1])
  BY <1>3 DEF Peels
<1> QED BY <1>1, <1>4, <1>5

\* So it can be computed front by front.
LEMMA RemainingIs ==
  ASSUME NEW C
  PROVE  /\ Search!Remaining(C)[0] = C
         /\ \A k \in Nat : Search!Remaining(C)[k + 1] =
              Search!Remaining(C)[k] \ Search!Nondominated(Search!Remaining(C)[k])
<1> DEFINE upto(n) == CHOOSE left : Peels(C, n, left)
           F == [k \in Nat |-> upto(k)[k]]
           Peeled(f, k) == IF k = 0 THEN C ELSE f[k - 1] \ Search!Nondominated(f[k - 1])
<1>1. \A n \in Nat : Peels(C, n, upto(n))
  BY PeelingExists
<1> HIDE DEF upto
<1>2. F = [k \in Nat |-> Peeled(F, k)]
  <2>1. ASSUME NEW k \in Nat PROVE upto(k)[k] = Peeled(F, k)
    <3>1. CASE k = 0
      BY <1>1, <3>1 DEF Peels
    <3>2. CASE k # 0
      <4>1. k - 1 \in Nat /\ k \in 1..k /\ k - 1 <= k /\ k - 1 <= k - 1
        BY <3>2
      <4>2. upto(k)[k] = upto(k)[k - 1] \ Search!Nondominated(upto(k)[k - 1])
        BY <1>1, <4>1 DEF Peels
      <4>3. upto(k)[k - 1] = upto(k - 1)[k - 1]
        BY <1>1, <4>1, PeelingsAgree
      <4>4. F[k - 1] = upto(k - 1)[k - 1]
        BY <4>1
      <4> HIDE DEF F
      <4> QED BY <3>2, <4>2, <4>3, <4>4
    <3> QED BY <3>1, <3>2
  <2> QED BY <2>1
<1> HIDE DEF F
<1> DEFINE L == CHOOSE f : f = [k \in Nat |-> Peeled(f, k)]
<1>3. Search!Remaining(C) = L
  BY DEF Search!Remaining
<1>4. L = [k \in Nat |-> Peeled(L, k)]
  BY <1>2
<1> HIDE DEF L
<1>5. L[0] = C
  BY <1>4
<1>6. ASSUME NEW k \in Nat PROVE L[k + 1] = L[k] \ Search!Nondominated(L[k])
  <2>1. k + 1 \in Nat /\ k + 1 # 0 /\ k + 1 - 1 = k
    OBVIOUS
  <2>2. L[k + 1] = Peeled(L, k + 1)
    BY <1>4, <2>1
  <2> QED BY <2>1, <2>2
<1> QED BY <1>3, <1>5, <1>6

\* A first front that fits is selected as a whole.
LEMMA SelectionIs ==
  ASSUME NEW C, IsFiniteSet(C), NEW room \in Nat, NEW kept \in Search!Selections(C, room)
  PROVE  /\ kept \in SUBSET C /\ IsFiniteSet(kept) /\ Cardinality(kept) <= room
         /\ Cardinality(Search!Nondominated(C)) <= room => Search!Nondominated(C) \subseteq kept
<1> DEFINE left == Search!Remaining(C)
           front == Search!Nondominated(C)
<1>1. kept \in SUBSET C /\ IsFiniteSet(kept)
  BY FS_Subset DEF Search!Selections
<1>2. /\ Cardinality(C) \in Nat /\ Cardinality(kept) \in Nat
      /\ Cardinality(kept) = IF Cardinality(C) <= room THEN Cardinality(C) ELSE room
  BY <1>1, FS_CardinalityType, SearchSizes DEF Search!Selections
<1>3. PICK k \in Nat : C \ left[k] \subseteq kept /\ kept \cap left[k + 1] = {}
  BY <1>2, SearchSizes DEF Search!Selections
<1>4. left[0] = C /\ \A j \in Nat : left[j + 1] = left[j] \ Search!Nondominated(left[j])
  BY RemainingIs
<1> HIDE DEF left
<1>5. left[1] = C \ front
  <2>1. 0 \in Nat /\ 0 + 1 = 1
    OBVIOUS
  <2>2. left[0 + 1] = left[0] \ Search!Nondominated(left[0])
    BY <1>4, <2>1
  <2> QED BY <1>4, <2>1, <2>2
<1>6. front \in SUBSET C /\ IsFiniteSet(front) /\ Cardinality(front) <= Cardinality(C)
      /\ Cardinality(front) \in Nat
  BY FS_Subset, FS_CardinalityType DEF Search!Nondominated
<1> HIDE DEF front
<1>7. ASSUME Cardinality(front) <= room PROVE front \subseteq kept
  <2>1. CASE k = 0
    <3>1. kept \in SUBSET front
      BY <1>1, <1>3, <1>5, <2>1
    <3>2. Cardinality(front) <= Cardinality(kept)
      BY <1>2, <1>6, <1>7
    <3>3. Cardinality(kept) <= Cardinality(front)
      BY <1>6, <3>1, FS_Subset
    <3>4. Cardinality(front) = Cardinality(kept)
      BY <1>2, <1>6, <3>2, <3>3
    <3> QED BY <1>6, <3>1, <3>4, FS_Subset
  <2>2. CASE k # 0
    <3> DEFINE Back == {j \in Nat : j # 0 /\ ~(left[j] \subseteq left[1])}
    <3>1. Back = {}
      <4> SUFFICES ASSUME Back # {} PROVE FALSE
        OBVIOUS
      <4>1. PICK j \in Back : \A i \in Back : j <= i
        BY SmallestIs
      <4>2. j # 1
        BY <4>1
      <4>3. j - 1 \in Nat /\ j - 1 # 0 /\ j - 1 \notin Back /\ j - 1 + 1 = j
        BY <4>1, <4>2
      <4>4. left[j] \subseteq left[j - 1]
        BY <1>4, <4>3
      <4> QED BY <4>1, <4>3, <4>4
    <3>2. left[k] \subseteq left[1]
      BY <2>2, <3>1
    <3> QED BY <1>3, <1>5, <1>6, <3>2
  <2> QED BY <2>1, <2>2
<1> QED BY <1>1, <1>2, <1>7 DEF front

\* A batch is of the trials after all that were observed; a swarm gives each a
\* particle of its own.
BatchIs ==
  /\ \E n \in Nat : DOMAIN batch = (Cardinality(observed) + 1)..(Cardinality(observed) + n)
  /\ \A t \in DOMAIN batch : batch[t] \in Search!Particles
  /\ algorithm = "pso" =>
       /\ \A t \in DOMAIN batch : batch[t] \in memory.issued \ memory.scored
       /\ \A s, t \in DOMAIN batch : batch[s] = batch[t] => s = t

\* What a searcher keeps are results it has observed.
MemoryOf(m, C, O) ==
  /\ m \in [population : SUBSET C, elite : SUBSET C, current : SUBSET O, generation : Nat,
            issued : SUBSET Search!Particles, scored : SUBSET Search!Particles,
            personal : [Search!Particles -> [score : Int, position : Nat]],
            global : Search!Particles \X Nat]
  /\ Cardinality(m.population) <= PopulationSize
  /\ m.scored \subseteq m.issued

MemoryIs == MemoryOf(memory, Search!Candidates, observed)

\* A chain stands on one result, which completed unless it is the first of all.
ChainInv ==
  /\ \A q, r \in memory.current : q = r
  /\ \A r \in memory.current : r.completed \/ r.trial = 1
  /\ observed # {} => memory.current # {}

\* A population has one that no candidate exceeds; an uncut one, the whole front.
GeneticInv ==
  Search!Candidates # {} =>
    \E r \in memory.population : \A q \in Search!Candidates : Search!Utility(q) <= Search!Utility(r)
FrontInv == ~crowded => Search!Nondominated(Search!Candidates) \subseteq memory.population

\* No candidate exceeds all the particles; a swarm that has moved follows its best.
SwarmInv ==
  /\ \A r \in Search!Candidates :
       \E p \in Search!Particles : Search!Utility(r) <= memory.personal[p].score
  /\ memory.scored = {} /\ memory.generation > 0 =>
       /\ \A p \in Search!Particles : memory.personal[memory.global[1]].score >= memory.personal[p].score
       /\ memory.global[2] = memory.personal[memory.global[1]].position

LearnedInv ==
  /\ algorithm = "annealing" => ChainInv
  /\ algorithm = "genetic" => GeneticInv
  /\ algorithm = "nsga_ii" => FrontInv
  /\ algorithm = "pso" => SwarmInv

SearchInv ==
  /\ algorithm \in Algorithms /\ Directed /\ crowded \in BOOLEAN
  /\ Results(observed) /\ {r.trial : r \in observed} = 1..Cardinality(observed)
  /\ BatchIs /\ MemoryIs /\ LearnedInv

\* Results numbered from one are as many as their largest number.
LEMMA NumberedResults ==
  ASSUME NEW S, Results(S), NEW k \in Nat, {r.trial : r \in S} = 1..k
  PROVE  Cardinality(S) = k
<1> DEFINE number == [r \in S |-> r.trial]
<1>1. number \in [S -> 1..k]
  OBVIOUS
<1>2. \A q, r \in S : number[q] = number[r] => q = r
  BY DEF Results
<1>3. \A t \in 1..k : \E r \in S : number[r] = t
  OBVIOUS
<1> HIDE DEF number
<1>4. number \in Bijection(S, 1..k)
  BY <1>1, <1>2, <1>3 DEF Bijection, Injection, IsInjective, Surjection
<1>5. IsFiniteSet(1..k) /\ Cardinality(1..k) = k
  <2>1. IsFiniteSet(1..k) /\ Cardinality(1..k) = IF 1 > k THEN 0 ELSE k - 1 + 1
    BY FS_Interval
  <2> QED BY <2>1
<1>6. IsFiniteSet(S)
  BY DEF Results
<1> QED BY <1>4, <1>5, <1>6, FS_Bijection DEF ExistsBijection

\* Those of results that completed are results.
LEMMA CompletedAre ==
  ASSUME NEW S, Results(S)
  PROVE  Results(Search!Completed(S)) /\ Search!Completed(S) \in SUBSET S
<1>1. Search!Completed(S) \in SUBSET S
  BY DEF Search!Completed
<1>2. IsFiniteSet(Search!Completed(S))
  BY <1>1, FS_Subset DEF Results
<1> QED BY <1>1, <1>2 DEF Results

\* Results of some are results.
LEMMA FewerResults ==
  ASSUME NEW S, Results(S), NEW T \in SUBSET S
  PROVE  Results(T)
<1>1. IsFiniteSet(T)
  BY FS_Subset DEF Results
<1> QED BY <1>1 DEF Results

\* A set of results has a first one.
LEMMA EarliestIs ==
  ASSUME NEW S, Results(S), S # {}
  PROVE  Search!First(S) \in S
<1> DEFINE T == {r.trial : r \in S}
<1>1. T \in SUBSET Nat /\ T # {}
  BY DEF Results, ResultIs
<1>2. PICK m \in T : \A k \in T : m <= k
  BY <1>1, SmallestIs
<1>3. \E r \in S : \A q \in S : r.trial <= q.trial
  BY <1>2
<1> QED BY <1>3 DEF Search!First

\* A study begins with nothing observed.
LEMMA SearchInit ==
  ASSUME Search!SearchAssumption, Search!Init
  PROVE  SearchInv
<1>1. /\ algorithm \in Algorithms /\ Directed /\ crowded = FALSE
      /\ observed = {} /\ batch = <<>> /\ memory = Search!NothingLearned
  BY DEF Search!Init, Directed
<1>2. IsFiniteSet({}) /\ Cardinality({}) = 0 /\ {r.trial : r \in {}} = 1..0
  BY FS_EmptySet
<1>3. Results(observed) /\ {r.trial : r \in observed} = 1..Cardinality(observed)
  BY <1>1, <1>2 DEF Results
<1>4. Search!Candidates = {}
  BY <1>1 DEF Search!Candidates, Search!Completed
<1>5. BatchIs
  <2>1. DOMAIN batch = {} /\ {} = (0 + 1)..(0 + 0)
    BY <1>1
  <2> QED BY <1>1, <1>2, <2>1 DEF BatchIs
<1>6. PopulationSize \in Nat \ {0} /\ Lowest \in Int /\ 1 \in Search!Particles
  BY DEF Search!SearchAssumption, Search!Particles
<1>7. MemoryIs
  BY <1>1, <1>2, <1>6 DEF MemoryIs, MemoryOf, Search!NothingLearned
<1>8. LearnedInv
  <2>1. ChainInv
    BY <1>1 DEF ChainInv, Search!NothingLearned
  <2>2. GeneticInv /\ FrontInv
    BY <1>4 DEF GeneticInv, FrontInv, Search!Nondominated
  <2>3. SwarmInv
    BY <1>1, <1>4 DEF SwarmInv, Search!NothingLearned
  <2> QED BY <2>1, <2>2, <2>3 DEF LearnedInv
<1> QED BY <1>1, <1>3, <1>5, <1>7, <1>8 DEF SearchInv

\* The particles that a swarm issues are free ones, each a different one.
LEMMA FreeParticles ==
  ASSUME Search!SearchAssumption, MemoryIs,
         NEW size \in Nat, size <= Cardinality(Search!Free)
  PROVE  /\ \A i \in 1..size : Search!NthFree(i) \in Search!Free
         /\ \A i, j \in 1..size : Search!NthFree(i) = Search!NthFree(j) => i = j
<1> DEFINE S == Search!Free
           R == {p \in S \X S : p[1] < p[2]}
<1>1. PopulationSize \in Nat
  BY DEF Search!SearchAssumption
<1>2. IsFiniteSet(S) /\ S \in SUBSET Int
  <2>1. IsFiniteSet(1..PopulationSize)
    BY <1>1, FS_Interval
  <2>2. S \in SUBSET (1..PopulationSize)
    BY DEF Search!Free, Search!Particles
  <2>3. IsFiniteSet(S)
    <3> HIDE DEF S
    <3> QED BY <2>1, <2>2, FS_Subset
  <2> QED BY <1>1, <2>2, <2>3
<1> HIDE DEF S
<1>3. \A x, y \in S : <<x, y>> \in R <=> x < y
  OBVIOUS
<1> HIDE DEF R
<1>4. Ranked(S, R)
  BY <1>2, <1>3 DEF Ranked
<1>5. /\ Cardinality(S) \in Nat
      /\ \A k \in 0..(Cardinality(S) - 1) : \E x \in S : Cardinality(Preceding(S, R, x)) = k
  <2>1. IsFiniteSet(S)
    BY <1>2
  <2> QED BY <1>4, <2>1, OrderPlaces
<1>6. \A x \in S : {f \in S : f < x} = Preceding(S, R, x)
  BY <1>3 DEF Preceding
<1>7. ASSUME NEW i \in 1..size
      PROVE  /\ Search!NthFree(i) \in S
             /\ Cardinality({f \in S : f < Search!NthFree(i)}) = i - 1
  <2>1. i - 1 \in 0..(Cardinality(S) - 1)
    BY <1>5 DEF S
  <2>2. \E p \in S : Cardinality({f \in S : f < p}) = i - 1
    BY <1>5, <1>6, <2>1
  <2>3. Search!NthFree(i) = CHOOSE p \in S : Cardinality({f \in S : f < p}) = i - 1
    BY SearchSizes DEF Search!NthFree, S
  <2> QED BY <2>2, <2>3
<1>8. ASSUME NEW i \in 1..size, NEW j \in 1..size, Search!NthFree(i) = Search!NthFree(j)
      PROVE  i = j
  <2>1. {f \in S : f < Search!NthFree(i)} = {f \in S : f < Search!NthFree(j)}
    BY <1>8
  <2>2. i - 1 = j - 1
    BY <1>7, <2>1, Zenon
  <2> QED BY <2>2
<1> QED BY <1>7, <1>8 DEF S

\* The directions of a study never change, so neither does what it thinks of results.
LEMMA SameSight ==
  ASSUME UNCHANGED directions
  PROVE  /\ \A r : Search!Utility(r)' = Search!Utility(r)
         /\ \A q, r : Search!Dominates(q, r)' = Search!Dominates(q, r)
<1>1. ASSUME NEW r PROVE Search!Utility(r)' = Search!Utility(r)
  BY DEF Search!Utility
<1>2. ASSUME NEW q, NEW r PROVE Search!Dominates(q, r)' = Search!Dominates(q, r)
  BY DEF Search!Dominates
<1> QED BY <1>1, <1>2

\* What is learned stays true while a batch is suggested.
LEMMA LearnedStays ==
  ASSUME LearnedInv, UNCHANGED <<algorithm, directions, observed, crowded>>,
         memory'.population = memory.population, memory'.current = memory.current,
         memory'.personal = memory.personal, memory'.global = memory.global,
         memory'.scored = memory.scored, memory'.generation = memory.generation
  PROVE  LearnedInv'
<1>1. Search!Candidates' = Search!Candidates
  BY DEF Search!Candidates
<1>2. /\ \A r : Search!Utility(r)' = Search!Utility(r)
      /\ \A q, r : Search!Dominates(q, r)' = Search!Dominates(q, r)
  BY SameSight
<1>3. ChainInv => ChainInv'
  BY DEF ChainInv
<1>4. GeneticInv => GeneticInv'
  BY <1>1, <1>2 DEF GeneticInv
<1>5. FrontInv => FrontInv'
  BY <1>1, <1>2 DEF FrontInv, Search!Nondominated
<1>6. SwarmInv => SwarmInv'
  BY <1>1, <1>2 DEF SwarmInv, Search!Particles
<1> QED BY <1>3, <1>4, <1>5, <1>6 DEF LearnedInv

\* A suggestion takes the next numbers, and a swarm free particles for them.
LEMMA SearchSuggest ==
  ASSUME Search!SearchAssumption, SearchInv, NEW n \in 1..MaxBatch, Search!Suggest(n)
  PROVE  SearchInv'
<1> DEFINE seen == Cardinality(observed)
           free == Cardinality(Search!Free)
           size == IF algorithm = "pso" /\ free < n THEN free ELSE n
           new == {Search!NthFree(i) : i \in 1..size}
<1>1. /\ BatchIs /\ MemoryIs /\ LearnedInv /\ Directed
      /\ Results(observed) /\ {r.trial : r \in observed} = 1..seen
      /\ algorithm \in Algorithms /\ crowded \in BOOLEAN
  BY DEF SearchInv
<1>2. /\ DOMAIN batch = {}
      /\ batch' = [t \in (seen + 1)..(seen + size) |->
                     IF algorithm = "pso" THEN Search!NthFree(t - seen) ELSE 1]
      /\ memory' = IF algorithm # "pso" THEN memory ELSE [memory EXCEPT !.issued = @ \cup new]
      /\ UNCHANGED <<algorithm, directions, observed, crowded>>
  BY SearchSizes DEF Search!Suggest
<1>3. PopulationSize \in Nat \ {0} /\ MaxBatch \in Nat
  BY DEF Search!SearchAssumption
<1>4. seen \in Nat
  BY <1>1, FS_CardinalityType DEF Results
<1>5. free \in Nat
  <2>1. IsFiniteSet(1..PopulationSize)
    BY <1>3, FS_Interval
  <2>2. Search!Free \in SUBSET (1..PopulationSize)
    BY DEF Search!Free, Search!Particles
  <2>3. IsFiniteSet(Search!Free)
    BY <2>1, <2>2, FS_Subset
  <2> QED BY <2>3, FS_CardinalityType
<1>6. size \in Nat /\ (algorithm = "pso" => size <= free)
  BY <1>3, <1>5
<1>7. algorithm = "pso" =>
        /\ \A i \in 1..size : Search!NthFree(i) \in Search!Free
        /\ \A i, j \in 1..size : Search!NthFree(i) = Search!NthFree(j) => i = j
  BY <1>1, <1>6, FreeParticles
<1>8. algorithm = "pso" => new \in SUBSET Search!Free
  BY <1>7
<1> HIDE DEF seen, free, size
<1>9. ASSUME NEW t \in (seen + 1)..(seen + size) PROVE t - seen \in 1..size /\ t \in Int
  BY <1>4, <1>6
<1>10. BatchIs'
  <2>1. DOMAIN batch' = (seen + 1)..(seen + size)
    BY <1>2
  <2>2. seen = Cardinality(observed')
    BY <1>2 DEF seen
  <2>3. \E k \in Nat : DOMAIN batch' = (Cardinality(observed') + 1)..(Cardinality(observed') + k)
    BY <1>6, <2>1, <2>2
  <2>4. CASE algorithm = "pso"
    <3>1. \A t \in (seen + 1)..(seen + size) : batch'[t] = Search!NthFree(t - seen)
      BY <1>2, <2>4
    <3>2. \A t \in DOMAIN batch' : batch'[t] \in new /\ batch'[t] \in Search!Free
      BY <1>7, <1>9, <2>1, <2>4, <3>1
    <3>3. ASSUME NEW s \in DOMAIN batch', NEW t \in DOMAIN batch', batch'[s] = batch'[t]
          PROVE  s = t
      <4>1. s - seen = t - seen
        BY <1>7, <1>9, <2>1, <2>4, <3>1, <3>3
      <4> QED BY <1>4, <1>9, <2>1, <4>1
    <3> HIDE DEF new
    <3>4. memory'.issued = memory.issued \cup new /\ memory'.scored = memory.scored
      BY <1>1, <1>2, <2>4 DEF MemoryIs, MemoryOf
    <3>5. memory.scored \subseteq memory.issued
      BY <1>1 DEF MemoryIs, MemoryOf
    <3>6. \A t \in DOMAIN batch' : /\ batch'[t] \in Search!Particles
                                   /\ batch'[t] \in memory'.issued \ memory'.scored
      BY <3>2, <3>4, <3>5 DEF Search!Free
    <3>7. Search!Particles' = Search!Particles
      BY DEF Search!Particles
    <3> QED BY <2>3, <3>3, <3>6, <3>7 DEF BatchIs
  <2>5. CASE algorithm # "pso"
    <3>1. \A t \in DOMAIN batch' : batch'[t] = 1 /\ 1 \in Search!Particles
      BY <1>2, <1>3, <2>5 DEF Search!Particles
    <3>2. Search!Particles' = Search!Particles
      BY DEF Search!Particles
    <3> QED BY <1>2, <2>3, <2>5, <3>1, <3>2 DEF BatchIs
  <2> QED BY <2>4, <2>5
<1>11. Search!Candidates' = Search!Candidates /\ Search!Particles' = Search!Particles
  BY <1>2 DEF Search!Candidates, Search!Particles
<1>12. MemoryIs'
  <2>1. CASE algorithm = "pso"
    <3>1. memory' = [memory EXCEPT !.issued = @ \cup new] /\ new \in SUBSET Search!Particles
      BY <1>2, <1>8, <2>1 DEF Search!Free
    <3> HIDE DEF new
    <3> QED BY <1>1, <1>2, <1>11, <3>1 DEF MemoryIs, MemoryOf
  <2>2. CASE algorithm # "pso"
    BY <1>1, <1>2, <1>11, <2>2 DEF MemoryIs, MemoryOf
  <2> QED BY <2>1, <2>2
<1>13. LearnedInv'
  <2>1. /\ memory'.population = memory.population /\ memory'.current = memory.current
        /\ memory'.personal = memory.personal /\ memory'.global = memory.global
        /\ memory'.scored = memory.scored /\ memory'.generation = memory.generation
    <3> HIDE DEF new
    <3> QED BY <1>1, <1>2 DEF MemoryIs, MemoryOf
  <2> QED BY <1>1, <1>2, <2>1, LearnedStays
<1> QED BY <1>1, <1>2, <1>10, <1>12, <1>13 DEF SearchInv, Directed, Results, seen

\* The results of a batch are new, and what is observed of them is learned.
Watched(results) ==
  /\ results # {} /\ Results(observed \cup results)
  /\ {r.trial : r \in results} = DOMAIN batch
  /\ \A q \in observed, r \in results : q.trial < r.trial
  /\ observed' = observed \cup results /\ batch' = <<>>
  /\ memory' \in Search!Learned(results)
  /\ crowded' = (crowded \/ Cardinality(Search!Nondominated(Search!Elitists(results))) > PopulationSize)
  /\ UNCHANGED <<algorithm, directions>>

\* What a trial may come to.
LEMMA TrialOutcomeIs ==
  ASSUME Search!SearchAssumption, NEW x \in Search!Outcomes
  PROVE  /\ x.completed \in BOOLEAN
         /\ x.completed => x.objectives[1] \in Values /\ x.objectives[2] \in Int
<1> DEFINE second == IF algorithm = "nsga_ii" THEN Values ELSE {0}
<1>1. second \subseteq Int
  BY DEF Search!SearchAssumption
<1>2. x \in [completed : {TRUE}, objectives : Values \X second] \cup [completed : {FALSE}, objectives : {<<>>}]
  BY DEF Search!Outcomes
<1> HIDE DEF second
<1>4. CASE x \in [completed : {TRUE}, objectives : Values \X second]
  BY <1>1, <1>4
<1>5. CASE x \in [completed : {FALSE}, objectives : {<<>>}]
  BY <1>5
<1> QED BY <1>2, <1>4, <1>5

\* The results of a batch are one for each of its trials.
LEMMA BatchResults ==
  ASSUME Search!SearchAssumption, SearchInv, Search!Observe
  PROVE  /\ \E results : Watched(results)
         /\ {r.trial : r \in observed'} = 1..Cardinality(observed')
<1> DEFINE seen == Cardinality(observed)
<1>1. /\ BatchIs /\ Results(observed) /\ {r.trial : r \in observed} = 1..seen
  BY DEF SearchInv
<1>2. seen \in Nat
  BY <1>1, FS_CardinalityType DEF Results
<1>3. PICK n \in Nat : DOMAIN batch = (seen + 1)..(seen + n)
  BY <1>1 DEF BatchIs
<1> HIDE DEF seen
<1>4. PICK ended \in [DOMAIN batch -> Search!Outcomes] :
        LET results == {[trial |-> t, completed |-> ended[t].completed,
                         objectives |-> ended[t].objectives] : t \in DOMAIN batch}
        IN  /\ DOMAIN batch # {}
            /\ observed' = observed \cup results
            /\ memory' \in Search!Learned(results)
            /\ crowded' = (crowded \/ Search!Cardinality(Search!Nondominated(Search!Elitists(results))) > PopulationSize)
            /\ batch' = <<>>
            /\ UNCHANGED <<algorithm, directions>>
  BY DEF Search!Observe
<1> DEFINE of(t) == [trial |-> t, completed |-> ended[t].completed,
                     objectives |-> ended[t].objectives]
           results == {of(t) : t \in DOMAIN batch}
<1>5. ASSUME NEW t \in DOMAIN batch
      PROVE  ResultIs(of(t)) /\ of(t).trial = t /\ t \in Nat /\ t > seen /\ t <= seen + n
  <2>1. t \in Nat \ {0} /\ t > seen /\ t <= seen + n
    BY <1>2, <1>3
  <2>2. ended[t] \in Search!Outcomes
    BY <1>4
  <2>3. /\ ended[t].completed \in BOOLEAN
        /\ ended[t].completed => ended[t].objectives[1] \in Values /\ ended[t].objectives[2] \in Int
    BY <2>2, TrialOutcomeIs, Zenon
  <2>4. /\ of(t).trial = t /\ of(t).completed = ended[t].completed
        /\ of(t).objectives = ended[t].objectives
    OBVIOUS
  <2> HIDE DEF of
  <2>5. ResultIs(of(t))
    BY <2>1, <2>3, <2>4 DEF ResultIs
  <2> QED BY <2>1, <2>4, <2>5
<1>6. \A r \in results : ResultIs(r) /\ r.trial \in Nat /\ r.trial > seen /\ r = of(r.trial)
  BY <1>5
<1>7. results # {} /\ {r.trial : r \in results} = DOMAIN batch
  BY <1>4, <1>5
<1>8. IsFiniteSet(results)
  <2>1. IsFiniteSet(DOMAIN batch)
    BY <1>2, <1>3, FS_Interval
  <2> DEFINE made == [t \in DOMAIN batch |-> of(t)]
  <2>2. made \in Surjection(DOMAIN batch, results)
    BY DEF Surjection
  <2> HIDE DEF made, results
  <2> QED BY <2>1, <2>2, FS_Surjection
<1> HIDE DEF of
<1>9. \A q, r \in results : q.trial = r.trial => q = r
  BY <1>6
<1>10. \A q \in observed : q.trial \in Nat /\ q.trial <= seen
  BY <1>1, <1>2 DEF Results, ResultIs
<1>11. \A q \in observed, r \in results : q.trial < r.trial
  BY <1>2, <1>6, <1>10
<1>12. Results(observed \cup results)
  <2>1. IsFiniteSet(observed \cup results)
    BY <1>1, <1>8, FS_Union DEF Results
  <2>2. \A r \in observed \cup results : ResultIs(r)
    BY <1>1, <1>6 DEF Results
  <2>3. \A q, r \in observed \cup results : q.trial = r.trial => q = r
    <3>1. \A q, r \in observed : q.trial = r.trial => q = r
      BY <1>1 DEF Results
    <3>2. \A q \in observed, r \in results : q.trial # r.trial
      BY <1>2, <1>6, <1>10, <1>11
    <3> HIDE DEF results
    <3> QED BY <1>9, <3>1, <3>2
  <2> QED BY <2>1, <2>2, <2>3 DEF Results
<1>13. Watched(results)
  <2>1. /\ observed' = observed \cup results /\ memory' \in Search!Learned(results)
        /\ crowded' = (crowded \/ Cardinality(Search!Nondominated(Search!Elitists(results))) > PopulationSize)
        /\ batch' = <<>> /\ UNCHANGED <<algorithm, directions>>
    BY <1>4, SearchSizes DEF of
  <2> HIDE DEF results
  <2> QED BY <1>7, <1>11, <1>12, <2>1 DEF Watched
<1>14. {r.trial : r \in observed'} = 1..(seen + n)
  <2>1. observed' = observed \cup results
    BY <1>13 DEF Watched
  <2>2. (1..seen) \cup ((seen + 1)..(seen + n)) = 1..(seen + n)
    BY <1>2
  <2>3. {r.trial : r \in observed} = 1..seen /\ {r.trial : r \in results} = (seen + 1)..(seen + n)
    BY <1>1, <1>3, <1>7 DEF seen
  <2> HIDE DEF results
  <2>4. {r.trial : r \in observed'} = {r.trial : r \in observed} \cup {r.trial : r \in results}
    BY <2>1
  <2> QED BY <2>2, <2>3, <2>4
<1>15. Cardinality(observed') = seen + n
  BY <1>2, <1>12, <1>13, <1>14, NumberedResults DEF Watched
<1> QED BY <1>13, <1>14, <1>15

\* More results do no harm to what is kept of the earlier ones.
LEMMA MemoryOfMore ==
  ASSUME NEW C, NEW O, NEW m, MemoryOf(m, C, O), NEW D, C \subseteq D, NEW P, O \subseteq P
  PROVE  MemoryOf(m, D, P)
<1> DEFINE Fields(K, H) ==
      [population : SUBSET K, elite : SUBSET K, current : SUBSET H, generation : Nat,
       issued : SUBSET Search!Particles, scored : SUBSET Search!Particles,
       personal : [Search!Particles -> [score : Int, position : Nat]],
       global : Search!Particles \X Nat]
<1>1. m \in Fields(C, O) => m \in Fields(D, P)
  OBVIOUS
<1> QED BY <1>1, Zenon DEF MemoryOf

\* What is observed in a step, and how it looks then.
LEMMA SeenNow ==
  ASSUME Search!SearchAssumption, SearchInv, NEW results, Watched(results)
  PROVE  /\ Search!Candidates' = Search!Candidates \cup Search!Completed(results)
         /\ Search!Completed(results) \in SUBSET results
         /\ Search!Candidates \in SUBSET observed
         /\ Results(results) /\ Results(Search!Completed(results)) /\ Results(Search!Candidates')
         /\ \A r \in observed \cup results : Search!Utility(r) \in Int
         /\ \A r : Search!Utility(r)' = Search!Utility(r)
         /\ \A q, r : Search!Dominates(q, r)' = Search!Dominates(q, r)
         /\ MemoryOf(memory, Search!Candidates', observed')
<1>1. /\ observed' = observed \cup results /\ Results(observed \cup results)
      /\ UNCHANGED directions /\ Directed
  BY DEF Watched, SearchInv
<1>2. Search!Candidates' = Search!Candidates \cup Search!Completed(results)
  BY <1>1 DEF Search!Candidates, Search!Completed
<1>3. Search!Completed(results) \in SUBSET results /\ Search!Candidates \in SUBSET observed
  BY DEF Search!Completed, Search!Candidates
<1>4. /\ results \in SUBSET (observed \cup results)
      /\ Search!Completed(results) \in SUBSET (observed \cup results)
      /\ Search!Candidates' \in SUBSET (observed \cup results)
  BY <1>2, <1>3
<1>5. Results(results) /\ Results(Search!Completed(results)) /\ Results(Search!Candidates')
  BY <1>1, <1>4, FewerResults
<1>6. \A r \in observed \cup results : Search!Utility(r) \in Int
  BY <1>1, UtilityIn DEF Results
<1>7. /\ \A r : Search!Utility(r)' = Search!Utility(r)
      /\ \A q, r : Search!Dominates(q, r)' = Search!Dominates(q, r)
  BY <1>1, SameSight
<1>8. MemoryOf(memory, Search!Candidates', observed')
  <2>1. MemoryOf(memory, Search!Candidates, observed)
    BY DEF SearchInv, MemoryIs
  <2>2. Search!Candidates \subseteq Search!Candidates' /\ observed \subseteq observed'
    BY <1>1, <1>2
  <2> QED BY <2>1, <2>2, MemoryOfMore
<1> QED BY <1>2, <1>3, <1>5, <1>6, <1>7, <1>8

\* A memory with a new population.
Repopulated(m, B) == [m EXCEPT !.population = B, !.generation = @ + 1]

\* A new population leaves everything else as it is.
LEMMA NewPopulation ==
  ASSUME NEW C, NEW O, NEW m, MemoryOf(m, C, O), NEW B \in SUBSET C, Cardinality(B) <= PopulationSize
  PROVE  MemoryOf(Repopulated(m, B), C, O) /\ Repopulated(m, B).population = B
<1> DEFINE n == Repopulated(m, B)
           Kept == SUBSET C
           Passed == SUBSET O
           Some == SUBSET Search!Particles
           Places == [Search!Particles -> [score : Int, position : Nat]]
           Leaders == Search!Particles \X Nat
           Fields == [population : Kept, elite : Kept, current : Passed, generation : Nat,
                      issued : Some, scored : Some, personal : Places, global : Leaders]
<1>1. m \in Fields /\ m.scored \subseteq m.issued /\ B \in Kept
  BY DEF MemoryOf
<1> HIDE DEF Kept, Passed, Some, Places, Leaders
<1>2. n \in Fields /\ n.population = B /\ n.scored = m.scored /\ n.issued = m.issued
  <2> DEFINE between == [m EXCEPT !.population = B]
  <2>1. /\ between \in Fields /\ between.population = B
        /\ between.scored = m.scored /\ between.issued = m.issued
        /\ between.generation = m.generation
    BY <1>1
  <2>2. n = [between EXCEPT !.generation = m.generation + 1] /\ m.generation + 1 \in Nat
    BY <1>1 DEF Repopulated
  <2> HIDE DEF between, n
  <2> QED BY <2>1, <2>2
<1> USE DEF Kept, Passed, Some, Places, Leaders
<1>3. n.scored \subseteq n.issued /\ Cardinality(n.population) <= PopulationSize
  BY <1>1, <1>2
<1> QED BY <1>2, <1>3, Zenon DEF MemoryOf

\* The best of a population and of a batch are a population again.
LEMMA GeneticLearns ==
  ASSUME Search!SearchAssumption, SearchInv, NEW results, Watched(results), algorithm = "genetic"
  PROVE  MemoryIs' /\ GeneticInv'
<1> DEFINE C == Search!Candidates'
           E == Search!Elitists(results)
           B == Search!Best(E, PopulationSize)
<1>1. /\ C = Search!Candidates \cup Search!Completed(results) /\ Results(C)
      /\ \A r : Search!Utility(r)' = Search!Utility(r)
      /\ MemoryOf(memory, C, observed')
  BY SeenNow
<1>2. E = memory.population \cup Search!Completed(results)
  BY DEF Search!Elitists
<1>3. MemoryOf(memory, Search!Candidates, observed) /\ GeneticInv /\ Directed
  BY DEF SearchInv, MemoryIs, LearnedInv
<1>4. memory.population \in SUBSET Search!Candidates
  BY <1>3 DEF MemoryOf
<1>5. memory' = Repopulated(memory, B)
  BY DEF Watched, Search!Learned, Search!LearnGenetic, Repopulated
<1> HIDE DEF C, E, B
<1>6. Results(E) /\ E \in SUBSET C
  BY <1>1, <1>2, <1>4, FewerResults
<1>7. PopulationSize \in Nat \ {0}
  BY DEF Search!SearchAssumption
<1>8. /\ B \in SUBSET E /\ IsFiniteSet(B) /\ Cardinality(B) <= PopulationSize
      /\ E # {} => \E r \in B : \A q \in E : Search!Utility(q) <= Search!Utility(r)
  BY <1>3, <1>6, <1>7, BestAre DEF B
<1>9. B \in SUBSET C
  BY <1>6, <1>8
<1>10. MemoryOf(memory', C, observed') /\ memory'.population = B
  <2>1. MemoryOf(memory, C, observed') /\ Cardinality(B) <= PopulationSize
    BY <1>1, <1>8
  <2>2. MemoryOf(Repopulated(memory, B), C, observed')
    BY <1>9, <2>1, NewPopulation
  <2>3. Repopulated(memory, B).population = B
    BY <1>9, <2>1, NewPopulation
  <2> QED BY <1>5, <2>2, <2>3
<1>11. ASSUME C # {}
       PROVE  \E r \in B : \A q \in C : Search!Utility(q) <= Search!Utility(r)
  <2>1. E # {}
    BY <1>1, <1>2, <1>3, <1>11 DEF GeneticInv
  <2>2. PICK r \in B : \A q \in E : Search!Utility(q) <= Search!Utility(r)
    BY <1>8, <2>1
  <2>3. ASSUME NEW q \in C PROVE Search!Utility(q) <= Search!Utility(r)
    <3>1. CASE q \in Search!Completed(results)
      BY <1>2, <2>2, <3>1
    <3>2. CASE q \in Search!Candidates
      <4>1. PICK p \in memory.population : Search!Utility(q) <= Search!Utility(p)
        BY <1>3, <3>2 DEF GeneticInv
      <4>2. Search!Utility(p) <= Search!Utility(r) /\ p \in C /\ r \in C
        BY <1>2, <1>6, <1>9, <2>2, <4>1
      <4>3. \A x \in C : Search!Utility(x) \in Int
        BY <1>1, <1>3, UtilityIn DEF Results
      <4> QED BY <4>1, <4>2, <4>3
    <3> QED BY <1>1, <2>3, <3>1, <3>2
  <2> QED BY <2>2, <2>3
<1>12. GeneticInv'
  BY <1>1, <1>10, <1>11 DEF GeneticInv, C
<1>13. Search!Particles' = Search!Particles
  BY DEF Search!Particles
<1> QED BY <1>10, <1>12, <1>13 DEF MemoryIs, MemoryOf, C

\* TPE keeps nothing beside what it has observed.
LEMMA TpeLearns ==
  ASSUME Search!SearchAssumption, SearchInv, NEW results, Watched(results), algorithm = "tpe"
  PROVE  MemoryIs'
<1>1. MemoryOf(memory, Search!Candidates', observed')
  BY SeenNow
<1>2. memory' = memory
  BY DEF Watched, Search!Learned
<1> QED BY <1>1, <1>2 DEF MemoryIs

\* CMA-ES keeps members of the last batch.
LEMMA CmaLearns ==
  ASSUME Search!SearchAssumption, SearchInv, NEW results, Watched(results), algorithm = "cma_es"
  PROVE  MemoryIs'
<1> DEFINE C == Search!Candidates'
           ok == Search!Completed(results)
           half == Search!Cardinality(ok) \div 2
           n == IF half = 0 THEN 1 ELSE half
           B == Search!Best(ok, n)
<1>1. /\ C = Search!Candidates \cup ok /\ Results(ok)
      /\ MemoryOf(memory, C, observed')
  BY SeenNow
<1>2. \/ memory' = memory
      \/ memory' = [memory EXCEPT !.elite = B, !.generation = @ + 1]
  BY DEF Watched, Search!Learned, Search!LearnCma
<1>3. Directed
  BY DEF SearchInv
<1> HIDE DEF C, ok
<1>4. half \in Nat
  <2>1. Search!Cardinality(ok) \in Nat
    BY <1>1, FS_CardinalityType, SearchSizes DEF Results
  <2> QED BY <2>1
<1>5. n \in Nat \ {0}
  BY <1>4
<1> HIDE DEF n
<1>6. B \in SUBSET C
  BY <1>1, <1>3, <1>5, BestAre
<1> HIDE DEF B
<1>7. CASE memory' = [memory EXCEPT !.elite = B, !.generation = @ + 1]
  <2> DEFINE between == [memory EXCEPT !.elite = B]
  <2>1. MemoryOf(between, C, observed') /\ between.generation = memory.generation
    BY <1>1, <1>6 DEF MemoryOf
  <2>2. memory' = [between EXCEPT !.generation = memory.generation + 1] /\ memory.generation \in Nat
    BY <1>1, <1>7 DEF MemoryOf
  <2> HIDE DEF between
  <2>3. MemoryOf(memory', C, observed')
    BY <2>1, <2>2 DEF MemoryOf
  <2> QED BY <2>3 DEF MemoryIs, C
<1>8. CASE memory' = memory
  BY <1>1, <1>8 DEF MemoryIs, C
<1> QED BY <1>2, <1>7, <1>8

\* A chain moves to a result that completed, unless it has only failures to choose from.
LEMMA ChainLearns ==
  ASSUME Search!SearchAssumption, SearchInv, NEW results, Watched(results), algorithm = "annealing"
  PROVE  MemoryIs' /\ ChainInv'
<1>1. PICK r \in Search!Links(results) : memory' = [memory EXCEPT !.current = {r}]
  BY DEF Watched, Search!Learned
<1>2. /\ r \in memory.current \cup results
      /\ r.completed \/ \A q \in memory.current \cup results : r.trial <= q.trial
  BY <1>1 DEF Search!Links
<1>3. /\ ChainInv /\ MemoryOf(memory, Search!Candidates, observed)
      /\ {q.trial : q \in observed} = 1..Cardinality(observed) /\ BatchIs
  BY DEF SearchInv, LearnedInv, MemoryIs
<1>4. MemoryOf(memory, Search!Candidates', observed')
  BY SeenNow
<1>5. /\ observed' = observed \cup results /\ {q.trial : q \in results} = DOMAIN batch
      /\ \A q \in observed, s \in results : q.trial < s.trial
      /\ Results(results) /\ results # {} /\ Results(observed \cup results)
  BY SeenNow DEF Watched
<1>6. memory.current \in SUBSET observed
  BY <1>3 DEF MemoryOf
<1>7. r \in observed'
  BY <1>2, <1>5, <1>6
<1>8. memory'.current = {r}
  BY <1>1, <1>4 DEF MemoryOf
<1>9. \A q \in observed \cup results : q.trial \in Nat
  BY <1>5 DEF Results, ResultIs
<1>10. r.completed \/ r.trial = 1
  <2> SUFFICES ASSUME ~r.completed PROVE r.trial = 1
    OBVIOUS
  <2>1. \A q \in memory.current \cup results : r.trial <= q.trial
    BY <1>2
  <2>2. CASE memory.current # {}
    <3>1. PICK q \in memory.current : TRUE
      BY <2>2
    <3>2. r \in memory.current
      BY <1>2, <1>5, <1>6, <1>9, <2>1, <3>1
    <3> QED BY <1>3, <3>2 DEF ChainInv
  <2>3. CASE memory.current = {}
    <3>1. observed = {}
      BY <1>3, <2>3 DEF ChainInv
    <3>2. Cardinality(observed) = 0
      BY <3>1, FS_EmptySet
    <3>3. PICK n \in Nat : DOMAIN batch = 1..n
      BY <1>3, <3>2 DEF BatchIs
    <3>4. 1 \in DOMAIN batch /\ r.trial \in 1..n
      BY <1>2, <1>5, <2>3, <3>3
    <3>5. PICK q \in results : q.trial = 1
      BY <1>5, <3>4
    <3> QED BY <2>1, <3>4, <3>5
  <2> QED BY <2>2, <2>3
<1>11. ChainInv'
  BY <1>8, <1>10 DEF ChainInv
<1>12. MemoryOf(memory', Search!Candidates', observed')
  BY <1>1, <1>4, <1>7 DEF MemoryOf
<1> QED BY <1>11, <1>12 DEF MemoryIs

\* As long as no first front had to be cut, all of it is in the population.
LEMMA NsgaLearns ==
  ASSUME Search!SearchAssumption, SearchInv, NEW results, Watched(results), algorithm = "nsga_ii"
  PROVE  MemoryIs' /\ FrontInv'
<1> DEFINE C == Search!Candidates'
           E == Search!Elitists(results)
<1>1. PICK B \in Search!Selections(E, PopulationSize) : memory' = Repopulated(memory, B)
  BY DEF Watched, Search!Learned, Search!LearnNsga, Repopulated
<1>2. /\ C = Search!Candidates \cup Search!Completed(results) /\ Results(C)
      /\ MemoryOf(memory, C, observed')
  BY SeenNow
<1>3. E = memory.population \cup Search!Completed(results)
  BY DEF Search!Elitists
<1>4. memory.population \in SUBSET Search!Candidates /\ FrontInv /\ crowded \in BOOLEAN
  BY DEF SearchInv, LearnedInv, MemoryIs, MemoryOf
<1>5. crowded' = (crowded \/ Cardinality(Search!Nondominated(E)) > PopulationSize)
  BY DEF Watched
<1>6. \A q, r : Search!Dominates(q, r)' = Search!Dominates(q, r)
  BY SeenNow
<1> HIDE DEF C, E
<1>7. E \in SUBSET C /\ IsFiniteSet(E) /\ PopulationSize \in Nat
  <2>1. E \in SUBSET C /\ Results(E)
    BY <1>2, <1>3, <1>4, FewerResults
  <2> QED BY <2>1 DEF Results, Search!SearchAssumption
<1>8. /\ B \in SUBSET E /\ IsFiniteSet(B) /\ Cardinality(B) <= PopulationSize
      /\ Cardinality(Search!Nondominated(E)) <= PopulationSize => Search!Nondominated(E) \subseteq B
  BY <1>1, <1>7, SelectionIs
<1>9. MemoryOf(memory', C, observed') /\ memory'.population = B
  <2>1. B \in SUBSET C /\ Cardinality(B) <= PopulationSize
    BY <1>7, <1>8
  <2>2. MemoryOf(Repopulated(memory, B), C, observed')
    BY <1>2, <2>1, NewPopulation
  <2>3. Repopulated(memory, B).population = B
    BY <1>2, <2>1, NewPopulation
  <2> QED BY <1>1, <2>2, <2>3
<1>10. ASSUME ~crowded' PROVE \A r \in C : (\A q \in C : ~Search!Dominates(q, r)) => r \in B
  <2>1. ~crowded /\ ~(Cardinality(Search!Nondominated(E)) > PopulationSize)
    BY <1>5, <1>10
  <2>2. Cardinality(Search!Nondominated(E)) <= PopulationSize
    <3>1. Search!Nondominated(E) \in SUBSET E
      BY DEF Search!Nondominated
    <3>2. Cardinality(Search!Nondominated(E)) \in Nat
      BY <1>7, <3>1, FS_Subset, FS_CardinalityType
    <3> QED BY <1>7, <2>1, <3>2
  <2>3. Search!Nondominated(Search!Candidates) \subseteq memory.population
    BY <1>4, <2>1 DEF FrontInv
  <2>4. ASSUME NEW r \in C, \A q \in C : ~Search!Dominates(q, r) PROVE r \in E
    BY <1>2, <1>3, <2>3, <2>4 DEF Search!Nondominated
  <2>5. ASSUME NEW r \in C, \A q \in C : ~Search!Dominates(q, r) PROVE r \in Search!Nondominated(E)
    BY <1>7, <2>4, <2>5 DEF Search!Nondominated
  <2> QED BY <1>8, <2>2, <2>5
<1>11. FrontInv'
  BY <1>6, <1>9, <1>10 DEF FrontInv, Search!Nondominated, C
<1> QED BY <1>9, <1>11 DEF MemoryIs, C

\* The particles have a leader: the first of the best.
LEMMA SwarmLeaderIs ==
  ASSUME Search!SearchAssumption, NEW personal \in [Search!Particles -> [score : Int, position : Nat]]
  PROVE  LET leader == CHOOSE p \in Search!Particles :
               \A q \in Search!Particles : \/ personal[p].score > personal[q].score
                                           \/ personal[p].score = personal[q].score /\ p <= q
         IN  /\ leader \in Search!Particles
             /\ \A q \in Search!Particles : personal[leader].score >= personal[q].score
<1> DEFINE P == Search!Particles
           score == [p \in P |-> personal[p].score]
           Top == {p \in P : \A q \in P : score[q] <= score[p]}
<1>1. PopulationSize \in Nat \ {0}
  BY DEF Search!SearchAssumption
<1>2. IsFiniteSet(P) /\ P # {} /\ P \in SUBSET Nat
  <2>1. IsFiniteSet(1..PopulationSize)
    BY <1>1, FS_Interval
  <2>2. 1 \in 1..PopulationSize /\ \A p \in 1..PopulationSize : p \in Nat
    BY <1>1
  <2> QED BY <2>1, <2>2 DEF Search!Particles
<1> HIDE DEF P
<1>3. score \in [P -> Int]
  BY DEF P
<1>4. \A p \in P : score[p] = personal[p].score /\ score[p] \in Int
  BY <1>3
<1> HIDE DEF score
<1>5. Top # {}
  BY <1>2, <1>3, LargestBy
<1>6. PICK m \in Top : \A k \in Top : m <= k
  BY <1>2, <1>5, SmallestIs
<1>7. m \in P /\ \A q \in P : \/ score[m] > score[q]
                              \/ score[m] = score[q] /\ m <= q
  <2>1. ASSUME NEW q \in P, ~(score[m] > score[q]) PROVE score[m] = score[q] /\ m <= q
    <3>1. score[m] = score[q]
      BY <1>4, <1>6, <2>1
    <3>2. q \in Top
      BY <1>6, <3>1
    <3> QED BY <1>6, <3>1, <3>2
  <2> QED BY <1>6, <2>1
<1> DEFINE leader == CHOOSE p \in P : \A q \in P : \/ personal[p].score > personal[q].score
                                                   \/ personal[p].score = personal[q].score /\ p <= q
<1>8. leader \in P /\ \A q \in P : \/ personal[leader].score > personal[q].score
                                   \/ personal[leader].score = personal[q].score /\ leader <= q
  <2>1. \E p \in P : \A q \in P : \/ personal[p].score > personal[q].score
                                  \/ personal[p].score = personal[q].score /\ p <= q
    BY <1>4, <1>7
  <2> QED BY <2>1, Zenon
<1>9. \A q \in P : personal[leader].score \in Int /\ personal[q].score \in Int
  BY <1>4, <1>8
<1> HIDE DEF leader
<1>10. \A q \in P : personal[leader].score >= personal[q].score
  BY <1>8, <1>9
<1> QED BY <1>8, <1>10, Zenon DEF leader, P

\* A particle's score is the best it has had, and the results that it was given
\* are not above it.
LEMMA SwarmLearns ==
  ASSUME Search!SearchAssumption, SearchInv, NEW results, Watched(results), algorithm = "pso"
  PROVE  MemoryIs' /\ SwarmInv'
<1> DEFINE P == Search!Particles
           C == Search!Candidates'
           better(p) == {r \in results : batch[r.trial] = p /\ Search!Utility(r) > memory.personal[p].score}
           personal == [p \in P |->
             IF better(p) = {} THEN memory.personal[p]
             ELSE [score |-> Search!Utility(CHOOSE r \in better(p) : TRUE), position |-> memory.generation]]
           leader == CHOOSE p \in P :
             \A q \in P : \/ personal[p].score > personal[q].score
                          \/ personal[p].score = personal[q].score /\ p <= q
           scored == memory.scored \cup {batch[r.trial] : r \in results}
           moved == [memory EXCEPT !.personal = personal, !.scored = scored]
<1>1. memory' = IF scored # P THEN moved
                ELSE [moved EXCEPT !.global = <<leader, personal[leader].position>>,
                                   !.issued = {}, !.scored = {}, !.generation = @ + 1]
  BY DEF Watched, Search!Learned, Search!LearnSwarm
<1>2. /\ C = Search!Candidates \cup Search!Completed(results)
      /\ Search!Completed(results) \in SUBSET results /\ Search!Candidates \in SUBSET observed
      /\ \A r \in observed \cup results : Search!Utility(r) \in Int
      /\ \A r : Search!Utility(r)' = Search!Utility(r)
      /\ MemoryOf(memory, C, observed')
  BY SeenNow
<1>3. /\ results # {} /\ {r.trial : r \in results} = DOMAIN batch
      /\ \A q, r \in results : q.trial = r.trial => q = r
  BY SeenNow DEF Watched, Results
<1>4. /\ \A t \in DOMAIN batch : batch[t] \in P /\ batch[t] \in memory.issued \ memory.scored
      /\ \A s, t \in DOMAIN batch : batch[s] = batch[t] => s = t
      /\ SwarmInv
  BY DEF SearchInv, BatchIs, LearnedInv
<1>5. /\ memory.personal \in [P -> [score : Int, position : Nat]] /\ memory.generation \in Nat
      /\ memory.scored \subseteq memory.issued /\ memory.issued \subseteq P
  BY <1>2 DEF MemoryOf
<1>6. \A r \in results : r.trial \in DOMAIN batch /\ Search!Utility(r) \in Int
  BY <1>2, <1>3
<1> HIDE DEF P, C
<1>7. ASSUME NEW p \in P
      PROVE  /\ personal[p] \in [score : Int, position : Nat]
             /\ personal[p].score >= memory.personal[p].score
             /\ \A r \in results : batch[r.trial] = p => Search!Utility(r) <= personal[p].score
  <2>1. memory.personal[p] \in [score : Int, position : Nat] /\ memory.personal[p].score \in Int
    BY <1>5
  <2>2. CASE better(p) = {}
    <3>1. personal[p] = memory.personal[p]
      BY <2>2
    <3>2. \A r \in results : batch[r.trial] = p => ~(Search!Utility(r) > memory.personal[p].score)
      BY <2>2
    <3> HIDE DEF personal, better
    <3> QED BY <1>6, <2>1, <3>1, <3>2
  <2>3. CASE better(p) # {}
    <3> DEFINE top == CHOOSE r \in better(p) : TRUE
    <3>1. top \in better(p)
      BY <2>3
    <3>2. personal[p] = [score |-> Search!Utility(top), position |-> memory.generation]
      BY <2>3
    <3> HIDE DEF top, personal
    <3>3. /\ top \in results /\ batch[top.trial] = p
          /\ Search!Utility(top) > memory.personal[p].score /\ Search!Utility(top) \in Int
      BY <1>6, <3>1
    <3> HIDE DEF better
    <3>4. \A r \in results : batch[r.trial] = p => r = top
      BY <1>3, <1>4, <1>6, <3>3
    <3>5. personal[p].score = Search!Utility(top) /\ personal[p] \in [score : Int, position : Nat]
      BY <1>5, <3>2, <3>3
    <3> QED BY <2>1, <3>3, <3>4, <3>5
  <2> QED BY <2>2, <2>3
<1>8. personal \in [P -> [score : Int, position : Nat]]
  BY <1>7
<1> HIDE DEF personal, better
<1>9. scored \subseteq memory.issued /\ scored \in SUBSET P /\ scored # {}
  BY <1>3, <1>4, <1>5, <1>6
<1> HIDE DEF scored
<1>10. leader \in P /\ \A q \in P : personal[leader].score >= personal[q].score
  BY <1>8, SwarmLeaderIs DEF P
<1> HIDE DEF leader
<1>11. ASSUME NEW r \in C PROVE \E p \in P : Search!Utility(r) <= personal[p].score
  <2>1. CASE r \in Search!Completed(results)
    <3>1. r \in results /\ batch[r.trial] \in P
      BY <1>2, <1>4, <1>6, <2>1
    <3> QED BY <1>7, <3>1
  <2>2. CASE r \in Search!Candidates
    <3>1. PICK p \in P : Search!Utility(r) <= memory.personal[p].score
      BY <1>4, <2>2 DEF SwarmInv, P
    <3>2. /\ memory.personal[p].score \in Int /\ personal[p].score \in Int
          /\ Search!Utility(r) \in Int /\ personal[p].score >= memory.personal[p].score
      BY <1>2, <1>5, <1>7, <2>2
    <3> QED BY <3>1, <3>2
  <2> QED BY <1>2, <2>1, <2>2
<1>12. /\ MemoryOf(moved, C, observed') /\ moved.personal = personal
       /\ moved.scored = scored /\ moved.generation = memory.generation
  <2> DEFINE between == [memory EXCEPT !.personal = personal]
  <2>1. MemoryOf(between, C, observed')
    BY <1>2, <1>8 DEF MemoryOf, P
  <2>2. /\ between.personal = personal /\ between.issued = memory.issued
        /\ between.generation = memory.generation
    BY <1>2 DEF MemoryOf
  <2>3. moved = [between EXCEPT !.scored = scored]
    OBVIOUS
  <2> HIDE DEF between, moved
  <2>4. MemoryOf(moved, C, observed')
    BY <1>9, <2>1, <2>2, <2>3 DEF MemoryOf, P
  <2>5. moved.personal = personal /\ moved.scored = scored /\ moved.generation = memory.generation
    BY <2>1, <2>2, <2>3 DEF MemoryOf
  <2> QED BY <2>4, <2>5
<1> HIDE DEF moved
<1>13. /\ MemoryOf(memory', C, observed') /\ memory'.personal = personal
       /\ memory'.scored = {} =>
            /\ memory'.global[1] = leader /\ memory'.global[2] = personal[leader].position
  <2>1. CASE scored # P
    BY <1>1, <1>9, <1>12, <2>1
  <2>2. CASE scored = P
    <3> DEFINE global == <<leader, personal[leader].position>>
               first == [moved EXCEPT !.global = global]
               second == [first EXCEPT !.issued = {}, !.scored = {}]
    <3>1. global \in P \X Nat /\ global[1] = leader /\ global[2] = personal[leader].position
      BY <1>8, <1>10
    <3> HIDE DEF global
    <3>2. MemoryOf(first, C, observed')
      BY <1>12, <3>1 DEF MemoryOf, P
    <3>3. first.personal = personal /\ first.global = global
      BY <1>12 DEF MemoryOf
    <3> HIDE DEF first
    <3>4. MemoryOf(second, C, observed')
      BY <3>2 DEF MemoryOf
    <3>5. second.personal = personal /\ second.global = global /\ second.generation \in Nat
      BY <3>2, <3>3 DEF MemoryOf
    <3>6. memory' = [second EXCEPT !.generation = second.generation + 1]
      BY <1>1, <2>2 DEF global, first
    <3> HIDE DEF second
    <3>7. MemoryOf(memory', C, observed')
      BY <3>4, <3>5, <3>6 DEF MemoryOf
    <3>8. memory'.personal = personal /\ memory'.global = global
      BY <3>4, <3>5, <3>6 DEF MemoryOf
    <3> QED BY <3>1, <3>7, <3>8
  <2> QED BY <2>1, <2>2
<1>14. Search!Particles' = P
  BY DEF Search!Particles, P
<1>15. SwarmInv'
  BY <1>2, <1>10, <1>11, <1>13, <1>14 DEF SwarmInv, C
<1> QED BY <1>13, <1>15 DEF MemoryIs, C

\* What is observed is learned from.
LEMMA SearchObserve ==
  ASSUME Search!SearchAssumption, SearchInv, Search!Observe
  PROVE  SearchInv'
<1>1. PICK results : Watched(results)
  BY BatchResults
<1>2. {r.trial : r \in observed'} = 1..Cardinality(observed')
  BY BatchResults
<1>3. /\ algorithm \in Algorithms /\ Directed /\ crowded \in BOOLEAN
      /\ UNCHANGED <<algorithm, directions>>
      /\ Results(observed') /\ batch' = <<>>
  BY <1>1 DEF SearchInv, Watched
<1>4. Algorithms \subseteq {"tpe", "cma_es", "nsga_ii", "pso", "genetic", "annealing"}
  BY DEF Search!SearchAssumption
<1>5. MemoryIs' /\ LearnedInv'
  <2>1. CASE algorithm = "tpe"
    BY <1>1, <1>3, <2>1, TpeLearns DEF LearnedInv
  <2>2. CASE algorithm = "cma_es"
    BY <1>1, <1>3, <2>2, CmaLearns DEF LearnedInv
  <2>3. CASE algorithm = "nsga_ii"
    BY <1>1, <1>3, <2>3, NsgaLearns DEF LearnedInv
  <2>4. CASE algorithm = "pso"
    BY <1>1, <1>3, <2>4, SwarmLearns DEF LearnedInv
  <2>5. CASE algorithm = "genetic"
    BY <1>1, <1>3, <2>5, GeneticLearns DEF LearnedInv
  <2>6. CASE algorithm = "annealing"
    BY <1>1, <1>3, <2>6, ChainLearns DEF LearnedInv
  <2> QED BY <1>3, <1>4, <2>1, <2>2, <2>3, <2>4, <2>5, <2>6
<1>6. BatchIs'
  <2>1. DOMAIN batch' = {}
    BY <1>3
  <2>2. Cardinality(observed') \in Nat
    BY <1>3, FS_CardinalityType DEF Results
  <2>3. DOMAIN batch' = (Cardinality(observed') + 1)..(Cardinality(observed') + 0)
    BY <2>1, <2>2
  <2> QED BY <2>1, <2>3 DEF BatchIs
<1>7. crowded' \in BOOLEAN
  BY <1>1 DEF Watched
<1>8. Directed' /\ algorithm' \in Algorithms
  BY <1>3 DEF Directed
<1>9. Results(observed)'
  BY <1>3 DEF Results, ResultIs
<1> QED BY <1>2, <1>5, <1>6, <1>7, <1>8, <1>9, Zenon DEF SearchInv

\* The keepers of the best have it.
LEMMA BestIsKept ==
  ASSUME Search!SearchAssumption, SearchInv
  PROVE  Search!IncumbentKept
<1> DEFINE C == Search!Candidates
<1>1. /\ Results(C) /\ Directed /\ MemoryOf(memory, C, observed) /\ LearnedInv
      /\ \A r \in C : Search!Utility(r) \in Int
  <2>1. Results(observed) /\ Directed /\ MemoryOf(memory, C, observed) /\ LearnedInv
    BY DEF SearchInv, MemoryIs
  <2>2. Results(C)
    BY <2>1, CompletedAre DEF Search!Candidates
  <2> QED BY <2>1, <2>2, UtilityIn DEF Results
<1>2. \A r \in C : (\A q \in C : Search!Utility(q) <= Search!Utility(r)) => r \in Search!Incumbents
  BY <1>1 DEF Search!Incumbents
<1>3. SUFFICES ASSUME C # {}
               PROVE  /\ algorithm = "genetic" => Search!Incumbents \cap memory.population # {}
                      /\ algorithm = "tpe" /\ Search!Basis # {} => Search!Incumbents \cap Search!Basis # {}
                      /\ algorithm = "nsga_ii" /\ ~crowded =>
                           Search!Nondominated(C) \subseteq memory.population
                      /\ algorithm = "pso" =>
                           \E p \in Search!Particles : \A r \in C : memory.personal[p].score >= Search!Utility(r)
  BY DEF Search!IncumbentKept
<1>4. memory.population \in SUBSET C
  BY <1>1 DEF MemoryOf
<1>5. ASSUME algorithm = "genetic" PROVE Search!Incumbents \cap memory.population # {}
  <2>1. PICK r \in memory.population : \A q \in C : Search!Utility(q) <= Search!Utility(r)
    BY <1>1, <1>3, <1>5 DEF LearnedInv, GeneticInv
  <2> QED BY <1>2, <1>4, <2>1
<1>6. ASSUME algorithm = "tpe", Search!Basis # {} PROVE Search!Incumbents \cap Search!Basis # {}
  <2> DEFINE k == (Search!Cardinality(C) + 3) \div 4
             n == IF k < 2 THEN 2 ELSE k
  <2>1. Search!Basis = Search!Best(C, n)
    BY <1>6 DEF Search!Basis, Search!TpeGood, Search!Candidates
  <2>2. n \in Nat \ {0}
    <3>1. Search!Cardinality(C) \in Nat
      BY <1>1, FS_CardinalityType, SearchSizes DEF Results
    <3> HIDE DEF C
    <3> QED BY <3>1
  <2> HIDE DEF n, C
  <2>3. /\ Search!Best(C, n) \in SUBSET C
        /\ \E r \in Search!Best(C, n) : \A q \in C : Search!Utility(q) <= Search!Utility(r)
    BY <1>1, <1>3, <2>2, BestAre
  <2> QED BY <1>2, <2>1, <2>3
<1>7. ASSUME algorithm = "nsga_ii", ~crowded PROVE Search!Nondominated(C) \subseteq memory.population
  BY <1>1, <1>7 DEF LearnedInv, FrontInv
<1>8. ASSUME algorithm = "pso"
      PROVE  \E p \in Search!Particles : \A r \in C : memory.personal[p].score >= Search!Utility(r)
  <2> DEFINE P == Search!Particles
             score == [p \in P |-> memory.personal[p].score]
  <2>1. memory.personal \in [P -> [score : Int, position : Nat]]
    BY <1>1 DEF MemoryOf
  <2>2. score \in [P -> Int] /\ \A p \in P : score[p] = memory.personal[p].score
    BY <2>1
  <2>3. IsFiniteSet(P) /\ P # {}
    <3>1. IsFiniteSet(1..PopulationSize) /\ 1 \in 1..PopulationSize
      BY FS_Interval DEF Search!SearchAssumption
    <3> QED BY <3>1 DEF Search!Particles
  <2>4. \A r \in C : \E p \in P : Search!Utility(r) <= memory.personal[p].score
    BY <1>1, <1>8 DEF LearnedInv, SwarmInv
  <2> HIDE DEF score, P, C
  <2>5. PICK p \in P : \A q \in P : score[q] <= score[p]
    BY <2>2, <2>3, LargestBy
  <2>6. ASSUME NEW r \in C PROVE memory.personal[p].score >= Search!Utility(r)
    <3>1. PICK q \in P : Search!Utility(r) <= memory.personal[q].score
      BY <2>4
    <3>2. score[q] <= score[p] /\ score[q] \in Int /\ score[p] \in Int /\ Search!Utility(r) \in Int
      BY <1>1, <2>2, <2>5
    <3> QED BY <2>2, <3>1, <3>2
  <2> QED BY <2>6 DEF P
<1> QED BY <1>5, <1>6, <1>7, <1>8

\* Suggestions are drawn from what completed.
LEMMA DrawnFromCompleted ==
  ASSUME Search!SearchAssumption, SearchInv
  PROVE  Search!BasisCompleted
<1>1. /\ MemoryOf(memory, Search!Candidates, observed) /\ LearnedInv /\ Results(observed) /\ Directed
      /\ algorithm \in Algorithms
  BY DEF SearchInv, MemoryIs
<1>2. Results(Search!Candidates) /\ \A r \in Search!Candidates : r.completed
  BY <1>1, CompletedAre DEF Search!Candidates, Search!Completed
<1>3. memory.population \in SUBSET Search!Candidates /\ memory.elite \in SUBSET Search!Candidates
  BY <1>1 DEF MemoryOf
<1>4. Algorithms \subseteq {"tpe", "cma_es", "nsga_ii", "pso", "genetic", "annealing"}
  BY DEF Search!SearchAssumption
<1>5. ASSUME algorithm = "tpe" PROVE Search!Basis \in SUBSET Search!Candidates
  BY <1>5 DEF Search!Basis, Search!TpeGood, Search!Best, Search!Candidates
<1>6. ASSUME algorithm \in {"cma_es", "genetic", "nsga_ii", "pso"}
      PROVE  Search!Basis \in SUBSET Search!Candidates
  BY <1>3, <1>6 DEF Search!Basis
<1>7. ASSUME algorithm = "annealing"
      PROVE  \A r \in Search!Basis : r.completed \/ r.trial = 1
  BY <1>1, <1>7 DEF Search!Basis, LearnedInv, ChainInv
<1> QED BY <1>1, <1>2, <1>4, <1>5, <1>6, <1>7 DEF Search!BasisCompleted

\* Multiplying by a positive number keeps what is larger larger.
LEMMA TimesPositive ==
  ASSUME NEW a \in Int, NEW b \in Int, NEW k \in Int, k >= 1, a <= b
  PROVE  a * k <= b * k /\ (a < b => a * k < b * k)
<1>1. (b - a) * k >= 0 /\ (a < b => (b - a) * k >= 1)
  OBVIOUS
<1>2. (b - a) * k = b * k - a * k
  OBVIOUS
<1> QED BY <1>1, <1>2

\* The selection of the locked trial: by a weighted sum, by the first of the front
\* or by the first objective, it is on the front.
LEMMA LockedOnFront ==
  ASSUME Search!SearchAssumption, SearchInv
  PROVE  Search!SelectedOnFront
<1> DEFINE C == Search!Candidates
           u == [i \in {1, 2} |-> [r \in C |-> Search!Signed(r.objectives[i], directions[i])]]
<1> SUFFICES ASSUME C # {}
             PROVE  /\ Search!ParetoFirst \in Search!Nondominated(C)
                    /\ \A w \in {<<1, 1>>, <<1, 2>>} : Search!Weighted(w) \in Search!Nondominated(C)
                    /\ Search!Primary \in Search!Incumbents
  BY DEF Search!SelectedOnFront
<1>1. /\ Results(C) /\ Directed /\ IsFiniteSet(C)
      /\ \A r \in C : ResultIs(r) /\ r.completed /\ Search!Utility(r) \in Int
  <2>1. Results(observed) /\ Directed
    BY DEF SearchInv
  <2>2. Results(C) /\ \A r \in C : r.completed
    BY <2>1, CompletedAre DEF Search!Candidates, Search!Completed
  <2> QED BY <2>1, <2>2, UtilityIn DEF Results
<1>2. DOMAIN directions = {1, 2}
  BY <1>1 DEF Directed
<1>3. ASSUME NEW r \in C, NEW i \in {1, 2}
      PROVE  Search!Signed(r.objectives[i], directions[i]) \in Int
  <2>1. r.objectives[1] \in Int /\ r.objectives[2] \in Int
    BY <1>1 DEF ResultIs, Search!SearchAssumption
  <2>2. r.objectives[i] \in Int
    BY <2>1
  <2> QED BY <2>2 DEF Search!Signed
<1>4. /\ u[1] \in [C -> Int] /\ u[2] \in [C -> Int]
      /\ \A r \in C : /\ u[1][r] = Search!Signed(r.objectives[1], directions[1])
                      /\ u[2][r] = Search!Signed(r.objectives[2], directions[2])
                      /\ u[1][r] \in Int /\ u[2][r] \in Int
  <2>1. \A r \in C : /\ Search!Signed(r.objectives[1], directions[1]) \in Int
                     /\ Search!Signed(r.objectives[2], directions[2]) \in Int
    BY <1>3
  <2> HIDE DEF C
  <2> QED BY <2>1
<1> HIDE DEF u
<1>5. \A p, q \in C : Search!Dominates(p, q) <=>
        /\ u[1][p] >= u[1][q] /\ u[2][p] >= u[2][q]
        /\ u[1][p] > u[1][q] \/ u[2][p] > u[2][q]
  BY <1>2, <1>4 DEF Search!Dominates
<1> HIDE DEF C
\* whatever is largest in a sum with positive weights is dominated by nothing
<1>6. ASSUME NEW j \in Int, NEW k \in Int, j >= 1, k >= 1,
             NEW r \in C, \A q \in C : u[1][q] * j + u[2][q] * k <= u[1][r] * j + u[2][r] * k
      PROVE  r \in Search!Nondominated(C)
  <2>1. ASSUME NEW q \in C, Search!Dominates(q, r) PROVE FALSE
    <3>1. /\ u[1][q] >= u[1][r] /\ u[2][q] >= u[2][r]
          /\ u[1][q] > u[1][r] \/ u[2][q] > u[2][r]
      BY <1>5, <2>1
    <3> DEFINE a == u[1][q]
               b == u[1][r]
               c == u[2][q]
               d == u[2][r]
    <3>2. a \in Int /\ b \in Int /\ c \in Int /\ d \in Int
      BY <1>4
    <3>3. b <= a /\ d <= c /\ (b < a \/ d < c) /\ a * j + c * k <= b * j + d * k
      BY <1>6, <3>1, <3>2
    <3> HIDE DEF a, b, c, d
    <3>4. b * j <= a * j /\ (b < a => b * j < a * j)
      BY <1>6, <3>2, <3>3, TimesPositive
    <3>5. d * k <= c * k /\ (d < c => d * k < c * k)
      BY <1>6, <3>2, <3>3, TimesPositive
    <3>6. a * j \in Int /\ b * j \in Int /\ c * k \in Int /\ d * k \in Int
      BY <3>2
    <3> QED BY <3>3, <3>4, <3>5, <3>6
  <2> QED BY <2>1 DEF Search!Nondominated
<1>7. Search!ParetoFirst \in Search!Nondominated(C)
  <2> DEFINE sum == [r \in C |-> u[1][r] + u[2][r]]
  <2>1. sum \in [C -> Int]
    BY <1>4
  <2>2. PICK r \in C : \A q \in C : sum[q] <= sum[r]
    <3> HIDE DEF sum
    <3> QED BY <1>1, <2>1, LargestBy
  <2>3. \A q \in C : u[1][q] * 1 + u[2][q] * 1 <= u[1][r] * 1 + u[2][r] * 1
    BY <1>4, <2>2
  <2>4. r \in Search!Nondominated(C)
    BY <1>6, <2>3
  <2>5. Search!Nondominated(C) \in SUBSET C
    BY DEF Search!Nondominated
  <2>6. Results(Search!Nondominated(C)) /\ Search!Nondominated(C) # {}
    BY <1>1, <2>4, <2>5, FewerResults
  <2> QED BY <2>6, EarliestIs DEF Search!ParetoFirst, C
<1>8. Search!Primary \in Search!Incumbents
  <2> DEFINE f == [r \in C |-> Search!Utility(r)]
             Top == {r \in C : \A q \in C : Search!Utility(r) >= Search!Utility(q)}
  <2>1. f \in [C -> Int] /\ \A r \in C : f[r] = Search!Utility(r)
    BY <1>1
  <2>2. PICK r \in C : \A q \in C : f[q] <= f[r]
    <3> HIDE DEF f
    <3> QED BY <1>1, <2>1, LargestBy
  <2>3. r \in Top
    BY <1>1, <2>1, <2>2
  <2>4. Results(Top) /\ Top # {}
    BY <1>1, <2>3, FewerResults
  <2> HIDE DEF Top
  <2>5. Search!First(Top) \in Top
    BY <2>4, EarliestIs
  <2> QED BY <2>5 DEF Search!Primary, Search!Incumbents, Top, C
<1>9. ASSUME NEW w \in {<<1, 1>>, <<1, 2>>} PROVE Search!Weighted(w) \in Search!Nondominated(C)
  <2> DEFINE v(r, i) == Search!Signed(r.objectives[i], directions[i])
             low(i) == v(CHOOSE r \in C : \A q \in C : v(r, i) <= v(q, i), i)
             high(i) == v(CHOOSE r \in C : \A q \in C : v(r, i) >= v(q, i), i)
             range(i) == IF high(i) = low(i) THEN 1 ELSE high(i) - low(i)
             score(r) == w[1] * (v(r, 1) - low(1)) * range(2) + w[2] * (v(r, 2) - low(2)) * range(1)
             Top == {r \in C : \A q \in C : score(r) >= score(q)}
  <2>1. Search!Weighted(w) = Search!First(Top)
    BY DEF Search!Weighted, C
  <2>2. \A r \in C : v(r, 1) = u[1][r] /\ v(r, 2) = u[2][r]
    BY <1>4
  <2>3. /\ \A r \in C : v(r, 1) \in Int /\ v(r, 2) \in Int
        /\ w[1] \in {1, 2} /\ w[2] \in {1, 2}
    BY <1>3
  <2>4. ASSUME NEW i \in {1, 2} PROVE low(i) \in Int /\ range(i) \in Int /\ range(i) >= 1
    <3> DEFINE rise == [r \in C |-> v(r, i)]
               fall == [r \in C |-> -v(r, i)]
    <3>1. \A r \in C : v(r, i) \in Int
      BY <1>3
    <3> HIDE DEF v
    <3>2. rise \in [C -> Int] /\ fall \in [C -> Int]
      BY <3>1
    <3>3. \A r \in C : rise[r] = v(r, i) /\ fall[r] = -v(r, i)
      OBVIOUS
    <3> HIDE DEF rise, fall
    <3>4. (\E r \in C : \A q \in C : rise[q] <= rise[r]) /\ (\E r \in C : \A q \in C : fall[q] <= fall[r])
      BY <1>1, <3>2, LargestBy
    <3>5. (\E r \in C : \A q \in C : v(r, i) >= v(q, i)) /\ (\E r \in C : \A q \in C : v(r, i) <= v(q, i))
      BY <3>1, <3>3, <3>4
    <3> DEFINE x == CHOOSE r \in C : \A q \in C : v(r, i) <= v(q, i)
               y == CHOOSE r \in C : \A q \in C : v(r, i) >= v(q, i)
    <3>6. x \in C /\ y \in C /\ v(x, i) <= v(y, i)
      BY <3>5
    <3>7. low(i) = v(x, i) /\ high(i) = v(y, i)
      OBVIOUS
    <3> HIDE DEF x, y, low, high
    <3> QED BY <3>1, <3>6, <3>7
  <2>5. low(1) \in Int /\ low(2) \in Int /\ range(1) \in Int /\ range(2) \in Int
        /\ range(1) >= 1 /\ range(2) >= 1
    BY <2>4
  <2> DEFINE j == w[1] * range(2)
             k == w[2] * range(1)
             base == j * low(1) + k * low(2)
             total(r) == u[1][r] * j + u[2][r] * k
  <2> HIDE DEF low, high, range, v
  <2>6. j \in Int /\ j >= 1 /\ k \in Int /\ k >= 1
    BY <2>3, <2>5
  <2>7. base \in Int
    BY <2>5, <2>6
  <2>8. ASSUME NEW r \in C PROVE score(r) = total(r) - base /\ score(r) \in Int /\ total(r) \in Int
    <3> DEFINE a == v(r, 1)
               b == v(r, 2)
               m == low(1)
               n == low(2)
               s == range(2)
               t == range(1)
    <3>1. a \in Int /\ b \in Int /\ m \in Int /\ n \in Int /\ s \in Int /\ t \in Int
      BY <2>3, <2>5
    <3>2. u[1][r] = a /\ u[2][r] = b
      BY <2>2
    <3> HIDE DEF a, b, m, n, s, t
    <3>3. score(r) = w[1] * (a - m) * s + w[2] * (b - n) * t
      BY DEF a, b, m, n, s, t
    <3>4. base = w[1] * s * m + w[2] * t * n /\ j = w[1] * s /\ k = w[2] * t
      BY DEF m, n, s, t
    <3> HIDE DEF score, base, j, k
    <3>5. (w[1] = 1 \/ w[1] = 2) /\ (w[2] = 1 \/ w[2] = 2)
      BY <2>3
    <3>6. w[1] * (a - m) * s = a * (w[1] * s) - w[1] * s * m
      BY <3>1, <3>5
    <3>7. w[2] * (b - n) * t = b * (w[2] * t) - w[2] * t * n
      BY <3>1, <3>5
    <3> QED BY <2>6, <2>7, <3>1, <3>2, <3>3, <3>4, <3>5, <3>6, <3>7
  <2> HIDE DEF j, k, base, score, total
  <2>9. Top \in SUBSET C
    OBVIOUS
  <2>10. Top # {}
    <3> DEFINE f == [r \in C |-> score(r)]
    <3>1. f \in [C -> Int] /\ \A r \in C : f[r] = score(r) /\ score(r) \in Int
      BY <2>8
    <3>2. PICK r \in C : \A q \in C : f[q] <= f[r]
      <4> HIDE DEF f
      <4> QED BY <1>1, <3>1, LargestBy
    <3>3. r \in Top
      BY <3>1, <3>2
    <3> QED BY <3>3
  <2>11. Top \in SUBSET Search!Nondominated(C)
    <3>1. ASSUME NEW r \in Top PROVE r \in Search!Nondominated(C)
      <4>1. \A q \in C : total(q) <= total(r)
        BY <2>7, <2>8
      <4>2. \A q \in C : u[1][q] * j + u[2][q] * k <= u[1][r] * j + u[2][r] * k
        BY <4>1 DEF total
      <4> QED BY <1>6, <2>6, <2>9, <4>2
    <3> QED BY <3>1
  <2> HIDE DEF Top
  <2>12. Search!First(Top) \in Top
    BY <1>1, <2>9, <2>10, FewerResults, EarliestIs
  <2> QED BY <2>1, <2>11, <2>12
<1> QED BY <1>7, <1>8, <1>9 DEF C

\* The searchers stay well typed, however a study goes.
LEMMA SearcherTypes ==
  ASSUME Search!SearchAssumption, SearchInv
  PROVE  Search!TypeOK
<1>1. MemoryOf(memory, Search!Candidates, observed)
  BY DEF SearchInv, MemoryIs
<1>2. memory.scored \subseteq memory.issued /\ memory.issued \subseteq Search!Particles
      /\ Cardinality(memory.population) <= PopulationSize
  BY <1>1 DEF MemoryOf
<1> QED BY <1>2, SearchSizes DEF SearchInv, Search!TypeOK

\* Every searcher keeps what it claims to keep, for any batches and any failures,
\* and the trial that is locked is on the front (tuning/searchers/algorithms.py,
\* tuning/objectives.py).
THEOREM SearchersStaySound ==
  ASSUME Search!SearchAssumption
  PROVE  Search!Spec => [](Search!TypeOK /\ Search!SearchersSound)
<1>1. Search!Init => SearchInv
  BY SearchInit
<1>2. SearchInv /\ [Search!Next]_(Search!searchVars) => SearchInv'
  <2> SUFFICES ASSUME SearchInv, [Search!Next]_(Search!searchVars) PROVE SearchInv'
    OBVIOUS
  <2>1. CASE Search!Observe
    BY <2>1, SearchObserve
  <2>2. ASSUME NEW n \in 1..MaxBatch, Search!Suggest(n) PROVE SearchInv'
    BY <2>2, SearchSuggest
  <2>3. CASE UNCHANGED Search!searchVars
    <3>1. UNCHANGED <<algorithm, directions, observed, memory, batch, crowded>>
      BY <2>3 DEF Search!searchVars
    <3> QED BY <3>1 DEF SearchInv, Directed, BatchIs, MemoryIs, LearnedInv, ChainInv,
              GeneticInv, FrontInv, SwarmInv, Search!Candidates, Search!Utility, Search!Nondominated,
              Search!Dominates
  <2> QED BY <2>1, <2>2, <2>3 DEF Search!Next
<1>3. SearchInv => Search!TypeOK /\ Search!SearchersSound
  <2> SUFFICES ASSUME SearchInv PROVE Search!TypeOK /\ Search!SearchersSound
    OBVIOUS
  <2>1. Search!LeaderTrue
    BY DEF Search!LeaderTrue, SearchInv, LearnedInv, SwarmInv
  <2> QED BY <2>1, BestIsKept, DrawnFromCompleted, LockedOnFront, SearcherTypes DEF Search!SearchersSound
<1> QED BY <1>1, <1>2, <1>3, PTL DEF Search!Spec

-----------------------------------------------------------------------------
(***************************************************************************)
(* A trial of a study, for any numbers of folds and seeds, any windows and *)
(* strides: the directories are the places of the scores, each once, so that *)
(* a checkpoint that a death left is of the fold and seed it is found for. *)
(***************************************************************************)

\* The record of a score in its place.
ScoreAt(i) ==
  LET at == Trial!At(i - 1)
  IN  [fold |-> at[1], seed |-> at[2], model |-> [fold |-> at[1], seed |-> at[2]],
       window |-> Trial!ValidationWindow(at[1])]

TrialInv ==
  /\ stride \in Nat /\ length \in Nat /\ deaths \in 0..MaxDeaths
  /\ DOMAIN checkpoints = Trial!Directories
  /\ \A d \in Trial!Directories :
       checkpoints[d] \in {Trial!NoModel, [fold |-> d[1], seed |-> d[2]]}
  /\ records \in Seq({ScoreAt(i) : i \in 1..(Folds * Seeds)})
  /\ Len(records) <= Folds * Seeds
  /\ \A i \in 1..Len(records) :
       records[i] = ScoreAt(i) /\ Trial!Buildable(Trial!At(i - 1)[1])
  /\ outcome \in {"running", "completed", "failed"}
  /\ outcome = "completed" => Len(records) = Folds * Seeds

\* The places of a trial are its directories, each once.
LEMMA PlacesOfTrial ==
  ASSUME Trial!TrialAssumption
  PROVE  /\ Folds * Seeds \in Nat
         /\ \A i \in 0..(Folds * Seeds - 1) : Trial!At(i) \in Trial!Directories
         /\ \A i, j \in 0..(Folds * Seeds - 1) : Trial!At(i) = Trial!At(j) => i = j
         /\ \A d \in Trial!Directories : \E i \in 0..(Folds * Seeds - 1) : Trial!At(i) = d
<1>1. Folds \in Nat \ {0} /\ Seeds \in Nat \ {0}
  BY DEF Trial!TrialAssumption
<1>2. Folds * Seeds \in Nat
  BY <1>1
<1>3. ASSUME NEW i \in 0..(Folds * Seeds - 1)
      PROVE  /\ i \div Seeds \in 0..(Folds - 1) /\ i % Seeds \in 0..(Seeds - 1)
             /\ i = Seeds * (i \div Seeds) + (i % Seeds)
             /\ Trial!At(i) = <<i \div Seeds, (i % Seeds) + 1>>
             /\ Trial!At(i) \in Trial!Directories
  <2>1. PICK q \in Int, r \in 0..(Seeds - 1) : q = i \div Seeds /\ r = i % Seeds /\ i = Seeds * q + r
    BY <1>1, <1>2
  <2>2. q >= 0
    <3> SUFFICES ASSUME q <= -1 PROVE FALSE
      BY <2>1
    <3>1. Seeds * q <= Seeds * (-1)
      BY <1>1, <2>1
    <3> QED BY <1>1, <1>2, <2>1, <3>1
  <2>3. q <= Folds - 1
    <3> SUFFICES ASSUME q >= Folds PROVE FALSE
      BY <1>1, <2>1
    <3>1. Seeds * q >= Seeds * Folds
      BY <1>1, <2>1
    <3>2. Seeds * Folds = Folds * Seeds
      BY <1>1
    <3> QED BY <1>1, <1>2, <2>1, <3>1, <3>2
  <2>4. Trial!At(i) = <<q, r + 1>>
    BY <2>1 DEF Trial!At
  <2>5. q \in 0..(Folds - 1) /\ r + 1 \in 1..Seeds
    BY <1>1, <2>1, <2>2, <2>3
  <2>6. Trial!At(i) \in Trial!Directories
    BY <2>4, <2>5 DEF Trial!Directories
  <2> QED BY <2>1, <2>4, <2>5, <2>6
<1>4. \A i, j \in 0..(Folds * Seeds - 1) : Trial!At(i) = Trial!At(j) => i = j
  <2> SUFFICES ASSUME NEW i \in 0..(Folds * Seeds - 1), NEW j \in 0..(Folds * Seeds - 1),
                      Trial!At(i) = Trial!At(j)
               PROVE  i = j
    OBVIOUS
  <2>1. i \div Seeds = j \div Seeds /\ (i % Seeds) + 1 = (j % Seeds) + 1
    BY <1>3
  <2>2. i % Seeds = j % Seeds
    BY <1>3, <2>1
  <2> QED BY <1>3, <2>1, <2>2
<1>5. ASSUME NEW d \in Trial!Directories
      PROVE  \E i \in 0..(Folds * Seeds - 1) : Trial!At(i) = d
  <2>1. PICK f \in 0..(Folds - 1), s \in 1..Seeds : d = <<f, s>>
    BY DEF Trial!Directories
  <2>2. PICK i \in Int : i = Seeds * f + (s - 1)
    BY <1>1
  <2>3. i \in 0..(Folds * Seeds - 1)
    <3>1. Seeds * f >= 0
      BY <1>1
    <3>2. Seeds * f <= Seeds * (Folds - 1) /\ Seeds * (Folds - 1) = Folds * Seeds - Seeds
      BY <1>1
    <3> QED BY <1>1, <1>2, <2>2, <3>1, <3>2
  <2>4. i \div Seeds = f /\ i % Seeds = s - 1
    <3>1. PICK q \in 0..(Folds - 1), r \in 0..(Seeds - 1) :
            q = i \div Seeds /\ r = i % Seeds /\ i = Seeds * q + r
      BY <1>3, <2>3
    <3>2. q = f
      <4>1. CASE q < f
        <5>1. Seeds * (q + 1) <= Seeds * f /\ Seeds * (q + 1) = Seeds * q + Seeds
          BY <1>1, <4>1
        <5> QED BY <1>1, <2>2, <3>1, <5>1
      <4>2. CASE q > f
        <5>1. Seeds * (f + 1) <= Seeds * q /\ Seeds * (f + 1) = Seeds * f + Seeds
          BY <1>1, <4>2
        <5> QED BY <1>1, <2>2, <3>1, <5>1
      <4> QED BY <4>1, <4>2
    <3> QED BY <1>1, <2>2, <3>1, <3>2
  <2>5. Trial!At(i) = <<f, s>>
    BY <1>1, <2>4 DEF Trial!At
  <2> QED BY <2>1, <2>3, <2>5
<1> QED BY <1>2, <1>3, <1>4, <1>5

\* It holds to begin with.
LEMMA TrialInit ==
  ASSUME Trial!TrialAssumption, Trial!Init
  PROVE  TrialInv
<1>1. records = <<>> /\ Len(records) = 0 /\ records \in Seq({ScoreAt(i) : i \in 1..(Folds * Seeds)})
  BY DEF Trial!Init
<1>2. Folds * Seeds \in Nat /\ stride \in Nat /\ length \in Nat /\ deaths \in 0..MaxDeaths
  BY PlacesOfTrial DEF Trial!TrialAssumption, Trial!Init
<1>3. checkpoints = [d \in Trial!Directories |-> Trial!NoModel] /\ outcome = "running"
  BY DEF Trial!Init
<1> QED BY <1>1, <1>2, <1>3 DEF TrialInv

\* The fold and the seed in hand.
LEMMA InHand ==
  ASSUME Trial!TrialAssumption, TrialInv, Len(records) < Folds * Seeds
  PROVE  /\ <<Trial!Fold, Trial!Seed>> = Trial!At(Len(records))
         /\ Trial!Directory(Trial!Fold, Trial!Seed) = Trial!At(Len(records))
         /\ Trial!At(Len(records)) \in Trial!Directories
<1>1. Len(records) \in 0..(Folds * Seeds - 1)
  BY PlacesOfTrial DEF TrialInv
<1>2. Trial!At(Len(records)) \in Trial!Directories
  BY <1>1, PlacesOfTrial
<1>3. <<Trial!At(Len(records))[1], Trial!At(Len(records))[2]>> = Trial!At(Len(records))
  BY <1>2 DEF Trial!Directories
<1> QED BY <1>2, <1>3 DEF Trial!Fold, Trial!Seed, Trial!Directory

\* A training leaves the model of its own fold and seed.
LEMMA TrainKeeps ==
  ASSUME Trial!TrialAssumption, TrialInv, Trial!Train
  PROVE  TrialInv'
<1> DEFINE at == Trial!At(Len(records))
<1>1. /\ UNCHANGED <<stride, length, records, outcome, deaths>>
      /\ Len(records) < Folds * Seeds
      /\ checkpoints' = [checkpoints EXCEPT ![Trial!Directory(Trial!Fold, Trial!Seed)]
                           = [fold |-> Trial!Fold, seed |-> Trial!Seed]]
  BY DEF Trial!Train, Trial!Working
<1>2. Trial!Directory(Trial!Fold, Trial!Seed) = at /\ at \in Trial!Directories
      /\ Trial!Fold = at[1] /\ Trial!Seed = at[2]
  BY <1>1, InHand DEF Trial!Fold, Trial!Seed
<1> HIDE DEF at
<1>3. checkpoints' = [checkpoints EXCEPT ![at] = [fold |-> at[1], seed |-> at[2]]]
  BY <1>1, <1>2
<1>4. DOMAIN checkpoints' = Trial!Directories
  BY <1>3 DEF TrialInv
<1>5. \A d \in Trial!Directories :
        checkpoints'[d] \in {Trial!NoModel, [fold |-> d[1], seed |-> d[2]]}
  BY <1>3 DEF TrialInv
<1>6. \A i \in Int : ScoreAt(i)' = ScoreAt(i)
  BY <1>1 DEF ScoreAt, Trial!ValidationWindow, Trial!Shift
<1>7. \A i \in Int : Trial!Buildable(i)' = Trial!Buildable(i)
  BY <1>1 DEF Trial!Buildable, Trial!Shift
<1> QED BY <1>1, <1>4, <1>5, <1>6, <1>7 DEF TrialInv, ScoreAt, Trial!ValidationWindow, Trial!Shift, Trial!Buildable

\* A score is that of the checkpoint of its own place.
LEMMA ScoreKeeps ==
  ASSUME Trial!TrialAssumption, TrialInv, Trial!Score
  PROVE  TrialInv'
<1>1. PICK n \in Nat : n = Len(records)
  BY DEF TrialInv
<1> DEFINE at == Trial!At(n)
           all == {ScoreAt(i) : i \in 1..(Folds * Seeds)}
<1>2. /\ UNCHANGED <<stride, length, checkpoints, outcome, deaths>>
      /\ n < Folds * Seeds /\ outcome = "running"
      /\ Trial!Buildable(Trial!Fold)
      /\ checkpoints[Trial!Directory(Trial!Fold, Trial!Seed)] # Trial!NoModel
      /\ records' = Append(records, [fold |-> Trial!Fold, seed |-> Trial!Seed,
                       model |-> checkpoints[Trial!Directory(Trial!Fold, Trial!Seed)],
                       window |-> Trial!ValidationWindow(Trial!Fold)])
  BY <1>1 DEF Trial!Score, Trial!Working
<1>3. Trial!Directory(Trial!Fold, Trial!Seed) = at /\ at \in Trial!Directories
      /\ Trial!Fold = at[1] /\ Trial!Seed = at[2]
  BY <1>1, <1>2, InHand DEF Trial!Fold, Trial!Seed
<1>4. n + 1 \in 1..(Folds * Seeds) /\ n + 1 - 1 = n /\ Folds * Seeds \in Nat
  BY <1>1, <1>2, PlacesOfTrial
<1>5. checkpoints[at] = [fold |-> at[1], seed |-> at[2]]
  BY <1>2, <1>3 DEF TrialInv
<1>6. ScoreAt(n + 1) = [fold |-> at[1], seed |-> at[2], model |-> checkpoints[at],
                        window |-> Trial!ValidationWindow(at[1])]
  BY <1>4, <1>5 DEF ScoreAt
<1>7. records' = Append(records, ScoreAt(n + 1))
  BY <1>2, <1>3, <1>6
<1>8. ScoreAt(n + 1) \in all /\ records \in Seq(all)
  BY <1>4 DEF TrialInv
<1> HIDE DEF at, all
<1>9. records' \in Seq(all) /\ Len(records') = n + 1 /\ records'[n + 1] = ScoreAt(n + 1)
      /\ \A i \in 1..n : records'[i] = records[i]
  BY <1>1, <1>7, <1>8
<1>10. Trial!Buildable(Trial!At(n + 1 - 1)[1])
  BY <1>2, <1>3, <1>4 DEF at
<1>11. ASSUME NEW i \in 1..(n + 1)
       PROVE  records'[i] = ScoreAt(i) /\ Trial!Buildable(Trial!At(i - 1)[1])
  <2>1. CASE i = n + 1
    BY <1>9, <1>10, <2>1
  <2>2. CASE i \in 1..n
    BY <1>1, <1>9, <2>2 DEF TrialInv
  <2> QED BY <1>1, <2>1, <2>2
<1>12. /\ \A i \in 1..(n + 1) : records'[i] = ScoreAt(i)' /\ Trial!Buildable(Trial!At(i - 1)[1])'
       /\ records' \in Seq({ScoreAt(i)' : i \in 1..(Folds * Seeds)})
  <2>1. \A i \in Int : ScoreAt(i)' = ScoreAt(i)
    BY <1>2 DEF ScoreAt, Trial!ValidationWindow, Trial!Shift
  <2>2. \A f : Trial!Buildable(f)' = Trial!Buildable(f)
    BY <1>2 DEF Trial!Buildable, Trial!Shift
  <2>3. \A i : Trial!At(i)' = Trial!At(i)
    BY DEF Trial!At
  <2>4. {ScoreAt(i)' : i \in 1..(Folds * Seeds)} = all
    BY <2>1 DEF all
  <2>5. \A i \in 1..(n + 1) : i \in Int
    BY <1>1
  <2> QED BY <1>9, <1>11, <2>1, <2>2, <2>3, <2>4, <2>5
<1> QED BY <1>2, <1>4, <1>9, <1>12 DEF TrialInv, Trial!Directories

\* Every step keeps it.
LEMMA TrialStep ==
  ASSUME Trial!TrialAssumption, TrialInv, [Trial!Next]_(Trial!hpoVars)
  PROVE  TrialInv'
<1>1. ASSUME UNCHANGED <<stride, length, checkpoints, records>>,
             outcome' = outcome \/ outcome' = "failed"
                \/ (outcome' = "completed" /\ Len(records) = Folds * Seeds),
             deaths' = deaths
      PROVE  TrialInv'
  <2> DEFINE all == {ScoreAt(i) : i \in 1..(Folds * Seeds)}
  <2>1. \A i : ScoreAt(i)' = ScoreAt(i)
    BY <1>1 DEF ScoreAt, Trial!ValidationWindow, Trial!Shift, Trial!At
  <2>2. \A f : Trial!Buildable(f)' = Trial!Buildable(f)
    BY <1>1 DEF Trial!Buildable, Trial!Shift
  <2>3. \A i : Trial!At(i)' = Trial!At(i)
    BY DEF Trial!At
  <2>4. {ScoreAt(i)' : i \in 1..(Folds * Seeds)} = all
    BY <2>1
  <2>5. records' = records /\ records \in Seq(all)
    BY <1>1 DEF TrialInv
  <2> HIDE DEF all
  <2>6. records' \in Seq({ScoreAt(i)' : i \in 1..(Folds * Seeds)})
    BY <2>4, <2>5
  <2>7. \A i \in 1..Len(records') :
          records'[i] = ScoreAt(i)' /\ Trial!Buildable(Trial!At(i - 1)[1])'
    <3>1. \A i \in 1..Len(records) :
            records[i] = ScoreAt(i) /\ Trial!Buildable(Trial!At(i - 1)[1])
      BY DEF TrialInv
    <3> QED BY <2>1, <2>2, <2>3, <2>5, <3>1
  <2>8. /\ stride' \in Nat /\ length' \in Nat /\ deaths' \in 0..MaxDeaths
        /\ DOMAIN checkpoints' = Trial!Directories
        /\ \A d \in Trial!Directories :
             checkpoints'[d] \in {Trial!NoModel, [fold |-> d[1], seed |-> d[2]]}
        /\ Len(records') <= Folds * Seeds
        /\ outcome' \in {"running", "completed", "failed"}
        /\ outcome' = "completed" => Len(records') = Folds * Seeds
    BY <1>1 DEF TrialInv
  <2> QED BY <2>6, <2>7, <2>8 DEF TrialInv, Trial!Directories, Trial!NoModel
<1>2. CASE Trial!Overrun
  BY <1>1, <1>2 DEF Trial!Overrun
<1>3. CASE Trial!Train
  BY <1>3, TrainKeeps
<1>4. CASE Trial!Score
  BY <1>4, ScoreKeeps
<1>5. CASE Trial!Complete
  BY <1>1, <1>5 DEF Trial!Complete
<1>6. CASE Trial!Die
  <2>1. /\ UNCHANGED <<stride, length, checkpoints, outcome>> /\ outcome = "running"
        /\ records' = <<>> /\ deaths < MaxDeaths /\ deaths' = deaths + 1
    BY <1>6 DEF Trial!Die
  <2>2. Len(records') = 0 /\ records' \in Seq({ScoreAt(i) : i \in 1..(Folds * Seeds)}')
    BY <2>1
  <2>3. deaths' \in 0..MaxDeaths /\ Folds * Seeds \in Nat
    BY <2>1, PlacesOfTrial DEF TrialInv, Trial!TrialAssumption
  <2> QED BY <2>1, <2>2, <2>3 DEF TrialInv, Trial!Directories
<1>7. CASE UNCHANGED Trial!hpoVars
  BY <1>1, <1>7 DEF Trial!hpoVars
<1> QED BY <1>2, <1>3, <1>4, <1>5, <1>6, <1>7 DEF Trial!Next

\* A validation window begins where the sessions of the training end.
LEMMA WindowsApart ==
  ASSUME Trial!TrialAssumption, NEW f \in Nat, stride \in Nat
  PROVE  /\ Trial!ValidationWindow(f) \cap Trial!TrainWindow(f) = {}
         /\ Trial!Buildable(f) /\ length \in Nat =>
              \A day \in Trial!ValidationWindow(f) : day < length
<1>0. TrainEnd \in Nat /\ Trial!Shift(f) \in Nat
  BY DEF Trial!Shift, Trial!TrialAssumption
<1>1. PICK start \in Nat : start = TrainEnd + Trial!Shift(f)
  BY <1>0
<1>2. Width \in Nat
  BY DEF Trial!TrialAssumption
<1>3. Trial!ValidationWindow(f) = start..(start + Width - 1) /\ Trial!TrainWindow(f) = 0..(start - 1)
  <2>1. Trial!ValidationWindow(f)
          = (TrainEnd + Trial!Shift(f))..(TrainEnd + Trial!Shift(f) + Width - 1)
    BY Zenon DEF Trial!ValidationWindow
  <2>2. Trial!TrainWindow(f) = 0..(TrainEnd + Trial!Shift(f) - 1)
    BY Zenon DEF Trial!TrainWindow
  <2> QED BY <1>0, <1>1, <1>2, <2>1, <2>2
<1>4. \A day \in start..(start + Width - 1) : day \notin 0..(start - 1) /\ day < start + Width
  BY <1>1, <1>2
<1>5. Trial!Buildable(f) => start + Width <= length
  BY <1>1 DEF Trial!Buildable
<1>6. length \in Nat /\ start + Width <= length => \A day \in start..(start + Width - 1) : day < length
  BY <1>1, <1>2
<1> QED BY <1>3, <1>4, <1>5, <1>6

(***************************************************************************)
(* Whatever an evaluation that died has left (tuning/rl_objective.py:151): *)
(* every score is that of the model of its own fold and seed, on sessions  *)
(* of the panel that this model has not seen, and a trial that completes   *)
(* has one for every fold and seed.                                        *)
(***************************************************************************)
THEOREM TrialsStayHonest ==
  ASSUME Trial!TrialAssumption
  PROVE  Trial!Spec => [](Trial!TypeOK /\ Trial!TrialHonest)
<1>1. Trial!Init => TrialInv
  BY TrialInit
<1>2. TrialInv /\ [Trial!Next]_(Trial!hpoVars) => TrialInv'
  BY TrialStep
<1>3. TrialInv => Trial!TypeOK /\ Trial!TrialHonest
  <2> SUFFICES ASSUME TrialInv PROVE Trial!TypeOK /\ Trial!TrialHonest
    OBVIOUS
  <2>1. Trial!TypeOK
    BY DEF TrialInv, Trial!TypeOK
  <2>2. PICK n \in Nat : n = Len(records) /\ n <= Folds * Seeds /\ DOMAIN records = 1..n
    BY DEF TrialInv
  <2>3. ASSUME NEW i \in 1..n
        PROVE  /\ i - 1 \in 0..(Folds * Seeds - 1)
               /\ records[i] = ScoreAt(i) /\ Trial!At(i - 1)[1] \in Nat
               /\ Trial!Buildable(Trial!At(i - 1)[1])
               /\ <<records[i].fold, records[i].seed>> = Trial!At(i - 1)
    <3>1. i - 1 \in 0..(Folds * Seeds - 1)
      BY <2>2, PlacesOfTrial
    <3>2. records[i] = ScoreAt(i) /\ Trial!Buildable(Trial!At(i - 1)[1])
      BY <2>2 DEF TrialInv
    <3>3. Trial!At(i - 1) \in Trial!Directories
      BY <3>1, PlacesOfTrial
    <3>4. Trial!At(i - 1)[1] \in Nat /\ Trial!At(i - 1) = <<Trial!At(i - 1)[1], Trial!At(i - 1)[2]>>
      BY <3>3 DEF Trial!Directories
    <3> QED BY <3>1, <3>2, <3>4 DEF ScoreAt
  <2>4. ASSUME NEW i \in 1..n
        PROVE  /\ records[i].model = [fold |-> records[i].fold, seed |-> records[i].seed]
               /\ records[i].window \cap Trial!TrainWindow(records[i].model.fold) = {}
               /\ \A day \in records[i].window : day < length
    <3> DEFINE f == Trial!At(i - 1)[1]
    <3>1. records[i] = [fold |-> f, seed |-> Trial!At(i - 1)[2],
                        model |-> [fold |-> f, seed |-> Trial!At(i - 1)[2]],
                        window |-> Trial!ValidationWindow(f)]
      BY <2>3 DEF ScoreAt
    <3>2. f \in Nat /\ Trial!Buildable(f) /\ stride \in Nat /\ length \in Nat
      BY <2>3 DEF TrialInv
    <3> HIDE DEF f
    <3>3. Trial!ValidationWindow(f) \cap Trial!TrainWindow(f) = {}
          /\ \A day \in Trial!ValidationWindow(f) : day < length
      BY <3>2, WindowsApart
    <3> QED BY <3>1, <3>3
  <2>5. ASSUME NEW i \in 1..n, NEW j \in 1..n, j # i
        PROVE  <<records[i].fold, records[i].seed>> # <<records[j].fold, records[j].seed>>
    <3>1. i - 1 # j - 1
      BY <2>2, <2>5
    <3> QED BY <2>3, <3>1, PlacesOfTrial, SMTT(30)
  <2>6. ASSUME outcome = "completed"
        PROVE  {<<records[i].fold, records[i].seed>> : i \in DOMAIN records} = Trial!Directories
    <3>1. n = Folds * Seeds
      BY <2>2, <2>6 DEF TrialInv
    <3>2. ASSUME NEW d \in Trial!Directories
          PROVE  \E i \in 1..n : <<records[i].fold, records[i].seed>> = d
      <4>1. PICK k \in 0..(Folds * Seeds - 1) : Trial!At(k) = d
        BY PlacesOfTrial
      <4>2. k + 1 \in 1..n /\ k + 1 - 1 = k
        BY <2>2, <3>1
      <4> QED BY <2>3, <4>1, <4>2
    <3>3. \A i \in 1..n : Trial!At(i - 1) \in Trial!Directories
      BY <2>3, PlacesOfTrial
    <3>4. \A i \in 1..n : <<records[i].fold, records[i].seed>> \in Trial!Directories
      BY <2>3, <3>3
    <3>5. \A d \in Trial!Directories : d \in {<<records[i].fold, records[i].seed>> : i \in 1..n}
      BY <3>2
    <3>6. {<<records[i].fold, records[i].seed>> : i \in 1..n} = Trial!Directories
      BY <3>4, <3>5
    <3> QED BY <2>2, <3>6
  <2>7. Trial!TrialHonest
    BY <2>2, <2>4, <2>5, <2>6, Zenon DEF Trial!TrialHonest
  <2> QED BY <2>1, <2>7
<1> QED BY <1>1, <1>2, <1>3, PTL DEF Trial!Spec

-----------------------------------------------------------------------------
(***************************************************************************)
(* Search spaces.                                                          *)
(***************************************************************************)

\* A quotient is the one number of times that leaves less than the divisor.
LEMMA QuotientIs ==
  ASSUME NEW d \in Nat \ {0}, NEW q \in Int, NEW r \in 0..(d - 1), NEW n, n = q * d + r
  PROVE  n \div d = q /\ n % d = r
<1> DEFINE p == n \div d
           m == n % d
<1>1. n \in Int /\ p \in Int /\ m \in 0..(d - 1) /\ n = d * p + m
  OBVIOUS
<1> HIDE DEF p, m
<1>2. n = q * d + r
  OBVIOUS
<1>3. d * (p - q) = r - m
  <2>1. d * (p - q) = d * p - d * q /\ q * d = d * q
    BY <1>1
  <2> QED BY <1>1, <1>2, <2>1
<1>4. p = q
  <2>1. CASE p - q >= 1
    <3>1. d * (p - q) >= d * 1
      BY <1>1, <2>1
    <3> QED BY <1>1, <1>3, <3>1
  <2>2. CASE p - q <= -1
    <3>1. d * (p - q) <= d * (-1)
      BY <1>1, <2>2
    <3> QED BY <1>1, <1>3, <3>1
  <2> QED BY <1>1, <2>1, <2>2
<1>5. m = r
  BY <1>1, <1>2, <1>4
<1> QED BY <1>4, <1>5 DEF p, m

\* What division leaves.
LEMMA DivisionIs ==
  ASSUME NEW n \in Int, NEW d \in Nat \ {0}
  PROVE  \E q \in Int, r \in 0..(d - 1) :
           q = n \div d /\ r = n % d /\ n = q * d + r
<1>1. n \div d \in Int /\ n % d \in 0..(d - 1) /\ n = d * (n \div d) + (n % d)
  OBVIOUS
<1>2. d * (n \div d) = (n \div d) * d
  BY <1>1
<1> QED BY <1>1, <1>2

\* A multiple is rounded to itself.
LEMMA RoundsTo ==
  ASSUME NEW d \in Nat \ {0}, NEW q \in Int
  PROVE  Space!RoundHalfEven(q * d, d) = q
<1>1. 0 \in 0..(d - 1) /\ q * d = q * d + 0 /\ 2 * 0 < d
  OBVIOUS
<1>2. (q * d) \div d = q /\ (q * d) % d = 0
  BY <1>1, QuotientIs
<1> QED BY <1>1, <1>2 DEF Space!RoundHalfEven

\* A number within bounds is rounded into them.
LEMMA RoundsWithin ==
  ASSUME NEW d \in Nat \ {0}, NEW n \in Int, NEW low \in Int, NEW high \in Int,
         low * d <= n, n <= high * d
  PROVE  Space!RoundHalfEven(n, d) \in low..high
<1>1. PICK q \in Int, r \in 0..(d - 1) : q = n \div d /\ r = n % d /\ n = q * d + r
  <2>1. n \in Int /\ d \in Nat \ {0}
    OBVIOUS
  <2> QED BY <2>1, DivisionIs, Zenon
<1>2. Space!RoundHalfEven(n, d) =
        IF 2 * r < d \/ (2 * r = d /\ q % 2 = 0) THEN q ELSE q + 1
  BY <1>1 DEF Space!RoundHalfEven
<1>3. low <= q
  <2> SUFFICES ASSUME low >= q + 1 PROVE FALSE
    BY <1>1
  <2>1. low * d >= (q + 1) * d /\ (q + 1) * d = q * d + d
    BY <1>1
  <2> QED BY <1>1, <2>1
<1>4. q <= high /\ (r > 0 => q + 1 <= high)
  <2>1. q <= high
    <3> SUFFICES ASSUME q >= high + 1 PROVE FALSE
      BY <1>1
    <3>1. q * d >= (high + 1) * d /\ (high + 1) * d = high * d + d
      BY <1>1
    <3> QED BY <1>1, <3>1
  <2>2. q # high \/ r = 0
    BY <1>1
  <2> QED BY <1>1, <2>1, <2>2
<1>5. 2 * r < d \/ r > 0
  BY <1>1
<1> QED BY <1>1, <1>2, <1>3, <1>4, <1>5

\* Larger numbers have larger multiples.
LEMMA MultiplesGrow ==
  ASSUME NEW p \in Int, NEW q \in Int, NEW e \in Nat \ {0}
  PROVE  /\ p * e \in Int /\ q * e \in Int
         /\ p >= q + 1 => p * e >= q * e + e
         /\ p <= q => p * e <= q * e
<1>1. p * e \in Int /\ q * e \in Int
  OBVIOUS
<1>2. ASSUME p >= q + 1 PROVE p * e >= q * e + e
  <2>1. p * e >= (q + 1) * e /\ (q + 1) * e = q * e + e
    BY <1>2
  <2> QED BY <1>1, <2>1
<1>3. ASSUME p <= q PROVE p * e <= q * e
  BY <1>3
<1> QED BY <1>1, <1>2, <1>3

\* What is rounded lies within half of the divisor, and what lies closer is
\* rounded so.
LEMMA NearestIs ==
  ASSUME NEW d \in Nat \ {0}, NEW n \in Int
  PROVE  /\ Space!RoundHalfEven(n, d) \in Int
         /\ \A k \in Int : k = Space!RoundHalfEven(n, d) => -d <= 2 * (n - k * d) /\ 2 * (n - k * d) <= d
         /\ \A k \in Int : -d < 2 * (n - k * d) /\ 2 * (n - k * d) < d => k = Space!RoundHalfEven(n, d)
<1>1. PICK q \in Int, r \in 0..(d - 1) : q = n \div d /\ r = n % d /\ n = q * d + r
  <2>1. n \in Int /\ d \in Nat \ {0}
    OBVIOUS
  <2> QED BY <2>1, DivisionIs, Zenon
<1>2. Space!RoundHalfEven(n, d) = IF 2 * r < d \/ (2 * r = d /\ q % 2 = 0) THEN q ELSE q + 1
  BY <1>1 DEF Space!RoundHalfEven
<1>3. (q + 1) * d = q * d + d /\ q * d \in Int
  OBVIOUS
<1>4. ASSUME NEW k \in Int, k = Space!RoundHalfEven(n, d)
      PROVE  -d <= 2 * (n - k * d) /\ 2 * (n - k * d) <= d
  <2>1. CASE k = q /\ 2 * r <= d
    BY <1>1, <1>3, <2>1
  <2>2. CASE k = q + 1 /\ 2 * r >= d
    <3>1. k * d = q * d + d
      BY <1>3, <2>2
    <3> QED BY <1>1, <1>3, <2>2, <3>1
  <2> QED BY <1>1, <1>2, <1>4, <2>1, <2>2
<1>5. ASSUME NEW k \in Int, -d < 2 * (n - k * d), 2 * (n - k * d) < d
      PROVE  k = Space!RoundHalfEven(n, d)
  <2>1. PICK e \in Int : e = k * d
    OBVIOUS
  <2>2. k >= q
    <3> SUFFICES ASSUME q >= k + 1 PROVE FALSE
      BY <1>1
    <3>1. q * d >= k * d + d
      BY MultiplesGrow
    <3> QED BY <1>1, <1>3, <1>5, <2>1, <3>1
  <2>3. k <= q + 1
    <3> SUFFICES ASSUME k >= q + 1 + 1 PROVE FALSE
      BY <1>1
    <3>1. k * d >= (q + 1) * d + d
      BY MultiplesGrow
    <3> QED BY <1>1, <1>3, <1>5, <2>1, <3>1
  <2>4. CASE k = q
    <3>1. 2 * r < d
      BY <1>1, <1>5, <2>4
    <3> QED BY <1>2, <2>4, <3>1
  <2>5. CASE k = q + 1
    <3>1. k * d = q * d + d
      BY <1>3, <2>5
    <3>2. 2 * r > d
      BY <1>1, <1>3, <1>5, <3>1
    <3> QED BY <1>1, <1>2, <2>5, <3>2
  <2> QED BY <1>1, <2>2, <2>3, <2>4, <2>5
<1>6. Space!RoundHalfEven(n, d) \in Int
  BY <1>1, <1>2
<1> QED BY <1>4, <1>5, <1>6

\* Rounding depends on the ratio alone.
LEMMA RoundsScaled ==
  ASSUME NEW w \in Nat \ {0}, NEW s \in Nat \ {0}, NEW v \in Int
  PROVE  Space!RoundHalfEven(v * w, w * s) = Space!RoundHalfEven(v, s)
<1>0. PICK q \in Int, r \in 0..(s - 1) : q = v \div s /\ r = v % s /\ v = q * s + r
  <2>1. v \in Int /\ s \in Nat \ {0}
    OBVIOUS
  <2> QED BY <2>1, DivisionIs, Zenon
<1>1. PICK f \in Nat \ {0}, b \in Int, t \in Nat : f = w * s /\ b = v * w /\ t = w * r
  OBVIOUS
<1>2. t <= f - w
  <2>1. w * r <= w * (s - 1) /\ w * (s - 1) = w * s - w
    OBVIOUS
  <2> QED BY <1>1, <2>1
<1>3. b = q * f + t
  <2>1. v * w = w * (q * s + r) /\ w * (q * s + r) = w * (q * s) + w * r
    BY <1>0
  <2>2. w * (q * s) = q * (w * s)
    OBVIOUS
  <2> QED BY <1>1, <2>1, <2>2
<1>4. t \in 0..(f - 1)
  BY <1>1, <1>2
<1>5. b \div f = q /\ b % f = t
  BY <1>3, <1>4, QuotientIs
<1>6. Space!RoundHalfEven(b, f) = IF 2 * t < f \/ (2 * t = f /\ q % 2 = 0) THEN q ELSE q + 1
  BY <1>5 DEF Space!RoundHalfEven
<1>7. (2 * t < f <=> 2 * r < s) /\ (2 * t = f <=> 2 * r = s)
  <2>1. 2 * t = (2 * r) * w /\ f = s * w
    BY <1>1
  <2>2. 2 * r < s => (2 * r) * w < s * w
    BY MultiplesGrow
  <2>3. 2 * r > s => (2 * r) * w > s * w
    BY MultiplesGrow
  <2> QED BY <1>1, <2>1, <2>2, <2>3
<1>8. Space!RoundHalfEven(v, s) = IF 2 * r < s \/ (2 * r = s /\ q % 2 = 0) THEN q ELSE q + 1
  BY <1>0 DEF Space!RoundHalfEven
<1> QED BY <1>1, <1>6, <1>7, <1>8

\* What steps take past the upper bound is clipped to it, and from there as many
\* steps lead to the bound or past it again.
LEMMA ClippedStays ==
  ASSUME NEW w \in Nat \ {0}, NEW s \in Nat \ {0}, NEW d \in Nat \ {0}, NEW n \in 0..d,
         s * Space!RoundHalfEven(n * w, d * s) > w
  PROVE  /\ Space!RoundHalfEven(w * w, w * s) \in Int
         /\ s * Space!RoundHalfEven(w * w, w * s) >= w
<1>1. PICK e \in Nat \ {0}, a \in Nat : e = d * s /\ a = n * w
  OBVIOUS
<1>2. PICK q \in Int, r \in 0..(s - 1) : q = w \div s /\ r = w % s /\ w = q * s + r
  <2>1. w \in Int /\ s \in Nat \ {0}
    OBVIOUS
  <2> QED BY <2>1, DivisionIs, Zenon
<1>3. PICK p \in Int, m \in 0..(e - 1) : p = a \div e /\ m = a % e /\ a = p * e + m
  <2>1. a \in Int /\ e \in Nat \ {0}
    OBVIOUS
  <2> QED BY <2>1, DivisionIs, Zenon
<1> DEFINE k == Space!RoundHalfEven(a, e)
           up == Space!RoundHalfEven(w * w, w * s)
<1>4. k = IF 2 * m < e \/ (2 * m = e /\ p % 2 = 0) THEN p ELSE p + 1
  BY <1>3 DEF Space!RoundHalfEven
<1>5. up = IF 2 * r < s \/ (2 * r = s /\ q % 2 = 0) THEN q ELSE q + 1
  <2>1. w \in Int
    OBVIOUS
  <2>2. Space!RoundHalfEven(w * w, w * s) = Space!RoundHalfEven(w, s)
    BY <2>1, RoundsScaled, Zenon
  <2> QED BY <1>2, <2>2 DEF Space!RoundHalfEven
<1>6. s * k > w
  BY <1>1
<1> HIDE DEF k, up
<1> SUFFICES up \in Int /\ s * up >= w
  BY DEF up
<1>7. k \in Int /\ (k = p \/ k = p + 1) /\ up \in Int
  BY <1>4, <1>5
<1>8. s * up = up * s /\ (q + 1) * s = q * s + s /\ s * k = k * s
  BY <1>2, <1>7
<1>9. CASE up = q + 1
  BY <1>2, <1>7, <1>8, <1>9
<1>10. CASE up = q /\ r = 0
  BY <1>2, <1>7, <1>8, <1>10
<1>11. CASE up = q /\ r > 0
  <2>1. 2 * r <= s /\ (2 * r = s => q % 2 = 0)
    BY <1>5, <1>11
  <2>2. PICK dr \in Nat : dr = d * r
    OBVIOUS
  <2>3. a <= q * e + dr
    <3>1. a <= d * w
      BY <1>1
    <3>2. d * w = d * (q * s + r) /\ d * (q * s + r) = d * (q * s) + d * r
      BY <1>2
    <3>3. d * (q * s) = q * (d * s)
      OBVIOUS
    <3> QED BY <1>1, <2>2, <3>1, <3>2, <3>3
  <2>4. 2 * dr <= e /\ (2 * dr = e => 2 * r = s)
    <3>1. 2 * dr = (2 * r) * d /\ e = s * d
      BY <1>1, <2>2
    <3>2. (2 * r) * d <= s * d /\ (2 * r < s => (2 * r) * d < s * d)
      BY <2>1, MultiplesGrow
    <3> QED BY <2>1, <3>1, <3>2
  <2>5. q * e \in Int /\ p * e \in Int
    OBVIOUS
  <2>6. p <= q
    <3> SUFFICES ASSUME p >= q + 1 PROVE FALSE
      OBVIOUS
    <3>1. p * e >= q * e + e
      BY MultiplesGrow
    <3> QED BY <1>3, <2>2, <2>3, <2>4, <2>5, <3>1
  <2>7. k >= q + 1
    <3> SUFFICES ASSUME k <= q PROVE FALSE
      BY <1>7
    <3>1. k * s <= q * s
      BY <1>7, MultiplesGrow
    <3> QED BY <1>2, <1>6, <1>7, <1>8, <1>11, <3>1
  <2>8. p = q /\ k = p + 1
    BY <1>7, <2>6, <2>7
  <2>9. 2 * m >= e /\ (2 * m = e => p % 2 # 0)
    BY <1>4, <2>8
  <2>10. m <= dr
    BY <1>3, <2>3, <2>5, <2>8
  <2>11. 2 * m = e /\ 2 * r = s
    BY <2>4, <2>9, <2>10
  <2> QED BY <2>1, <2>8, <2>9, <2>11
<1> QED BY <1>2, <1>5, <1>7, <1>9, <1>10, <1>11

CoordinateIs(u) == u.d \in Nat \ {0} /\ u.n \in 0..u.d

\* A value that the way through the unit cube gives back.
Returns(p, x) == Space!FromUnit(p, Space!ToUnit(p, x)) = x

LEMMA SwitchReturns ==
  ASSUME NEW p, p.kind = "bool", NEW x \in {0, 1}
  PROVE  Returns(p, x)
<1>1. Space!ToUnit(p, x) = [n |-> x, d |-> 1, place |-> FALSE]
  BY DEF Space!ToUnit, Space!Unit
<1>2. Space!FromUnit(p, [n |-> x, d |-> 1, place |-> FALSE]) = IF 2 * x >= 1 THEN 1 ELSE 0
  BY DEF Space!FromUnit
<1> QED BY <1>1, <1>2 DEF Returns

\* With n choices, the place k of n - 1 is the k-th, and the last is clipped to.
LEMMA ChoiceReturns ==
  ASSUME NEW i, NEW p, Space!ParameterIs(p, i), p.kind = "categorical",
         NEW x, \E j \in DOMAIN p.choices : x = p.choices[j]
  PROVE  Returns(p, x)
<1> DEFINE m == CHOOSE j \in DOMAIN p.choices : p.choices[j] = x
<1>1. PICK n \in Nat \ {0} : n = Len(p.choices) /\ DOMAIN p.choices = 1..n
  BY DEF Space!ParameterIs
<1>2. m \in 1..n /\ p.choices[m] = x
  BY <1>1
<1> DEFINE last == IF n - 1 = 0 THEN 1 ELSE n - 1
           at == ((m - 1) * n) \div last
           spot == (IF at < n THEN at ELSE n - 1) + 1
<1>3. Space!ToUnit(p, x) = [n |-> m - 1, d |-> last, place |-> FALSE]
  <2>1. Space!ToUnit(p, x) = Space!Unit(m - 1, IF Len(p.choices) - 1 = 0 THEN 1 ELSE Len(p.choices) - 1)
    BY DEF Space!ToUnit, Space!ChoiceToUnit
  <2> QED BY <1>1, <2>1 DEF Space!Unit
<1>4. Space!FromUnit(p, [n |-> m - 1, d |-> last, place |-> FALSE]) = p.choices[spot]
  BY <1>1 DEF Space!FromUnit
<1> HIDE DEF m
<1>5. spot = m
  <2>1. PICK k \in 0..(n - 1) : k = m - 1
    BY <1>2
  <2>2. CASE n = 1
    <3>1. k = 0 /\ last = 1 /\ k * n = 0 * 1 + 0 /\ 0 \in 0..(1 - 1)
      BY <2>1, <2>2
    <3>2. (k * n) \div 1 = 0
      BY <3>1, QuotientIs
    <3> QED BY <2>1, <2>2, <3>1, <3>2
  <2>3. CASE n > 1 /\ k < n - 1
    <3>1. PICK e \in Nat \ {0} : e = n - 1
      BY <2>3
    <3>2. k * n = k * e + k /\ k \in 0..(e - 1)
      BY <2>3, <3>1
    <3>3. (k * n) \div e = k
      BY <3>2, QuotientIs
    <3>4. last = e
      BY <2>3, <3>1
    <3>5. at = k
      BY <2>1, <3>3, <3>4
    <3> HIDE DEF at
    <3> QED BY <1>2, <2>1, <2>3, <3>5
  <2>4. CASE n > 1 /\ k = n - 1
    <3>1. PICK e \in Nat \ {0} : e = n - 1
      BY <2>4
    <3>2. k * n = n * e + 0 /\ 0 \in 0..(e - 1)
      BY <2>4, <3>1
    <3>3. (k * n) \div e = n
      BY <3>2, QuotientIs
    <3>4. last = e
      BY <2>4, <3>1
    <3>5. at = n
      BY <2>1, <3>3, <3>4
    <3> HIDE DEF at
    <3> QED BY <1>2, <2>1, <2>4, <3>5
  <2> QED BY <2>1, <2>2, <2>3, <2>4
<1> QED BY <1>2, <1>3, <1>4, <1>5 DEF Returns

\* What the validators say of a number.
NumberIs(p) ==
  /\ p.kind \in {"int", "float"}
  /\ p.low \in Int /\ p.high \in Int /\ p.low < p.high /\ p.step \in Nat
  /\ p.kind = "float" => p.step > 0
  /\ p.kind = "int" => p.low % Grain = 0 /\ p.high % Grain = 0
  /\ p.curve = <<>> \/ (Space!CurveIs(p.curve) /\ p.low > 0)

\* Every scale leads a coordinate to a place in the range, and a place to itself.
LEMMA PlaceInRange ==
  ASSUME NEW p, NumberIs(p), NEW u, CoordinateIs(u)
  PROVE  CoordinateIs(Space!Place(p, u))
<1>1. CASE p.curve = <<>> \/ u.place
  BY <1>1 DEF Space!Place
<1>2. CASE ~(p.curve = <<>> \/ u.place)
  <2>1. PICK top \in Nat \ {0} :
          /\ top = Len(p.curve) /\ p.curve[top] \in Nat \ {0}
          /\ \A k \in 1..top : p.curve[k] \in 0..p.curve[top]
    BY <1>2 DEF NumberIs, Space!CurveIs
  <2>2. PICK d \in Nat \ {0}, n \in Nat, m \in Nat : d = u.d /\ n = u.n /\ n \in 0..d /\ m = top - 1
    <3>1. PICK d \in Nat \ {0}, n \in Nat : d = u.d /\ n = u.n /\ n \in 0..d
      BY DEF CoordinateIs
    <3>2. top - 1 \in Nat
      BY <2>1
    <3> QED BY <3>1, <3>2
  <2>3. PICK a \in Nat : a = n * m
    OBVIOUS
  <2>4. PICK q \in Int, r \in 0..(d - 1) : q = a \div d /\ r = a % d /\ a = q * d + r
    <3>1. a \in Int /\ d \in Nat \ {0}
      OBVIOUS
    <3> QED BY <3>1, DivisionIs, Zenon
  <2>5. q >= 0
    <3> SUFFICES ASSUME q + 1 <= 0 PROVE FALSE
      OBVIOUS
    <3>1. 0 * d >= q * d + d
      BY MultiplesGrow
    <3> QED BY <2>4, <3>1
  <2>6. q <= m
    <3> SUFFICES ASSUME q >= m + 1 PROVE FALSE
      OBVIOUS
    <3>1. q * d >= m * d + d
      BY MultiplesGrow
    <3>2. n * m <= d * m /\ d * m = m * d
      BY <2>2, MultiplesGrow
    <3> QED BY <2>3, <2>4, <3>1, <3>2
  <2>7. Space!Place(p, u) = [n |-> p.curve[q + 1], d |-> p.curve[top], place |-> TRUE]
    BY <1>2, <2>1, <2>2, <2>3, <2>4 DEF Space!Place, Space!PlaceOf
  <2>8. q + 1 \in 1..top
    BY <2>2, <2>5, <2>6
  <2> QED BY <2>1, <2>7, <2>8 DEF CoordinateIs
<1> QED BY <1>1, <1>2

\* The value at a place of the range, a coordinate that leads there or not.
LEMMA NumberReturns ==
  ASSUME NEW p, NumberIs(p), NEW x
  PROVE  Returns(p, x) <=> Space!Numeric(p, [n |-> x - p.low, d |-> p.high - p.low, place |-> TRUE]) = x
<1>1. Space!ToUnit(p, x) = [n |-> x - p.low, d |-> p.high - p.low, place |-> TRUE]
  BY DEF Space!ToUnit, Space!PlaceOf, NumberIs
<1>2. Space!Place(p, Space!ToUnit(p, x)) = Space!ToUnit(p, x)
  BY <1>1 DEF Space!Place
<1>3. Space!FromUnit(p, Space!ToUnit(p, x)) = Space!Numeric(p, Space!ToUnit(p, x))
  BY <1>2 DEF Space!FromUnit, NumberIs
<1> QED BY <1>1, <1>3 DEF Returns

\* The bounds of an integer are whole.
LEMMA BoundsAre ==
  ASSUME Grain \in Nat \ {0}, NEW p, NumberIs(p), p.kind = "int"
  PROVE  \E a \in Int, b \in Int : p.low = a * Grain /\ p.high = b * Grain
<1>1. PICK low \in Int, high \in Int, g \in Nat \ {0} :
        low = p.low /\ high = p.high /\ g = Grain /\ low % g = 0 /\ high % g = 0
  BY DEF NumberIs
<1>2. PICK a \in Int, r \in 0..(g - 1) : a = low \div g /\ r = low % g /\ low = a * g + r
  BY DivisionIs, Zenon
<1>3. PICK b \in Int, t \in 0..(g - 1) : b = high \div g /\ t = high % g /\ high = b * g + t
  BY DivisionIs, Zenon
<1>4. low = a * g /\ high = b * g
  BY <1>1, <1>2, <1>3
<1> QED BY <1>1, <1>4

\* Every whole number within the bounds of an integer without a step.
LEMMA WholeReturns ==
  ASSUME Grain \in Nat \ {0}, NEW p, NumberIs(p), p.kind = "int", p.step = 0,
         NEW y \in Int
  PROVE  Returns(p, Grain * y)
<1>1. PICK low \in Int, w \in Nat \ {0}, g \in Nat \ {0}, x \in Int :
        low = p.low /\ w = p.high - p.low /\ g = Grain /\ x = Grain * y
  BY DEF NumberIs
<1>2. Space!Numeric(p, [n |-> x - low, d |-> w, place |-> TRUE])
        = Grain * Space!RoundHalfEven(low * w + (x - low) * w, w * g)
  BY <1>1 DEF Space!Numeric, Space!Whole
<1>3. low * w + (x - low) * w = y * (w * g)
  <2>1. low * w + (x - low) * w = x * w
    OBVIOUS
  <2>2. x * w = y * (w * g)
    BY <1>1
  <2> QED BY <2>1, <2>2
<1>4. PICK e \in Nat \ {0} : e = w * g
  OBVIOUS
<1>5. Space!RoundHalfEven(y * e, e) = y
  BY RoundsTo
<1>6. Space!Numeric(p, [n |-> x - low, d |-> w, place |-> TRUE]) = x
  BY <1>1, <1>2, <1>3, <1>4, <1>5
<1> QED BY <1>1, <1>6, NumberReturns

\* What steps lead to: a point of the lattice, or the upper bound where the
\* lattice ends before it.
LEMMA SteppedIs ==
  ASSUME NEW p, NumberIs(p), p.step # 0, NEW u, CoordinateIs(u)
  PROVE  \E k \in Int : /\ k = Space!RoundHalfEven(u.n * (p.high - p.low), u.d * p.step)
                        /\ k >= 0
                        /\ Space!Stepped(p, u) = IF p.step * k > p.high - p.low THEN p.high ELSE p.low + p.step * k
<1>1. PICK w \in Nat \ {0}, s \in Nat \ {0}, d \in Nat \ {0}, n \in Nat, low \in Int :
        w = p.high - p.low /\ s = p.step /\ d = u.d /\ n = u.n /\ low = p.low /\ p.high = low + w
  <2>1. PICK d \in Nat \ {0}, n \in Nat : d = u.d /\ n = u.n
    BY DEF CoordinateIs
  <2>2. p.high - p.low \in Nat \ {0} /\ p.step \in Nat \ {0} /\ p.low \in Int /\ p.high = p.low + (p.high - p.low)
    BY DEF NumberIs
  <2> QED BY <2>1, <2>2
<1>2. PICK e \in Nat \ {0}, a \in Nat : e = d * s /\ a = n * w
  OBVIOUS
<1>3. PICK q \in Int, r \in 0..(e - 1) : q = a \div e /\ r = a % e /\ a = q * e + r
  <2>1. a \in Int /\ e \in Nat \ {0}
    OBVIOUS
  <2> QED BY <2>1, DivisionIs, Zenon
<1>4. q >= 0
  <2> SUFFICES ASSUME q + 1 <= 0 PROVE FALSE
    OBVIOUS
  <2>1. 0 * e >= q * e + e
    BY MultiplesGrow
  <2> QED BY <1>3, <2>1
<1>5. PICK k \in Int : k = Space!RoundHalfEven(a, e) /\ k >= 0
  BY <1>3, <1>4 DEF Space!RoundHalfEven
<1>6. PICK t \in Int : t = s * k
  OBVIOUS
<1>7. k = Space!RoundHalfEven(u.n * (p.high - p.low), u.d * p.step)
  BY <1>1, <1>2, <1>5
<1>8. Space!Stepped(p, u) = Space!Within(p, low + t)
  BY <1>1, <1>6, <1>7 DEF Space!Stepped
<1>9. Space!Stepped(p, u) = IF t > w THEN p.high ELSE low + t
  BY <1>1, <1>8 DEF Space!Within
<1> QED BY <1>1, <1>5, <1>6, <1>7, <1>9

\* What steps led to they lead to again.
LEMMA SteppedReturns ==
  ASSUME NEW p, NumberIs(p), p.step # 0, NEW u, CoordinateIs(u),
         NEW x, x = Space!Stepped(p, u)
  PROVE  /\ x \in p.low..p.high
         /\ Space!Stepped(p, [n |-> x - p.low, d |-> p.high - p.low, place |-> TRUE]) = x
<1>1. p.low \in Int /\ p.high \in Int /\ p.low < p.high /\ p.step \in Nat \ {0}
  BY DEF NumberIs
<1>2. PICK w \in Nat \ {0}, s \in Nat \ {0}, d \in Nat \ {0}, n \in Nat :
        w = p.high - p.low /\ s = p.step /\ d = u.d /\ n = u.n /\ n \in 0..d
  BY <1>1 DEF CoordinateIs
<1>3. PICK k \in Int : /\ k = Space!RoundHalfEven(n * w, d * s) /\ k >= 0
                       /\ x = IF s * k > w THEN p.high ELSE p.low + s * k
  BY <1>2, SteppedIs
<1>4. PICK t \in Nat : t = s * k
  BY <1>3
<1>5. x \in p.low..p.high
  BY <1>1, <1>2, <1>3, <1>4
<1>6. Space!Stepped(p, [n |-> x - p.low, d |-> w, place |-> TRUE])
        = Space!Within(p, p.low + s * Space!RoundHalfEven((x - p.low) * w, w * s))
  BY <1>2 DEF Space!Stepped
<1>7. CASE s * k > w
  <2>1. x = p.high /\ x - p.low = w
    BY <1>1, <1>2, <1>3, <1>7
  <2>2. /\ Space!RoundHalfEven(w * w, w * s) \in Int
        /\ s * Space!RoundHalfEven(w * w, w * s) >= w
    <3>1. n \in 0..d
      BY <1>2
    <3>2. s * Space!RoundHalfEven(n * w, d * s) > w
      BY <1>3, <1>7
    <3> QED BY <3>1, <3>2, ClippedStays
  <2>3. PICK up \in Int : up = s * Space!RoundHalfEven(w * w, w * s)
    BY <2>2
  <2>4. Space!Stepped(p, [n |-> x - p.low, d |-> w, place |-> TRUE]) = Space!Within(p, p.low + up)
    BY <1>6, <2>1, <2>3
  <2>5. Space!Within(p, p.low + up) = p.high
    BY <1>1, <1>2, <2>2, <2>3 DEF Space!Within
  <2> QED BY <1>2, <1>5, <2>1, <2>4, <2>5
<1>8. CASE ~(s * k > w)
  <2>1. x = p.low + s * k /\ x - p.low = s * k /\ ~(p.low + s * k > p.high)
    BY <1>1, <1>2, <1>3, <1>4, <1>8
  <2>2. (s * k) * w = k * (w * s)
    OBVIOUS
  <2>3. PICK e \in Nat \ {0} : e = w * s
    OBVIOUS
  <2>4. Space!RoundHalfEven((s * k) * w, w * s) = k
    BY <2>2, <2>3, RoundsTo
  <2>5. Space!Stepped(p, [n |-> x - p.low, d |-> w, place |-> TRUE]) = Space!Within(p, p.low + s * k)
    BY <1>6, <2>1, <2>4
  <2> QED BY <1>2, <1>5, <2>1, <2>5 DEF Space!Within
<1> QED BY <1>7, <1>8

\* An integer with a step that need not be whole: what a point of the lattice is
\* rounded to leads to a point that is rounded to it again.  A step wider than a
\* whole leads back to the same point, a narrower one to a point closer to the
\* rounded value than half of a whole.
LEMMA RoundedReturns ==
  ASSUME Grain \in Nat \ {0}, NEW p, NumberIs(p), p.kind = "int", p.step # 0,
         NEW u, CoordinateIs(u), NEW y, y = Space!Whole(Space!Stepped(p, u), 1)
  PROVE  Returns(p, y)
<1>1. PICK low \in Int, w \in Nat \ {0}, s \in Nat \ {0}, g \in Nat \ {0}, a \in Int, b \in Int :
        /\ w = p.high - p.low /\ s = p.step /\ g = Grain /\ low = p.low /\ p.high = low + w
        /\ low = a * g /\ low + w = b * g
  <2>1. PICK a \in Int, b \in Int : p.low = a * Grain /\ p.high = b * Grain
    BY BoundsAre
  <2>2. p.high - p.low \in Nat \ {0} /\ p.step \in Nat \ {0} /\ p.low \in Int /\ p.high = p.low + (p.high - p.low)
    BY DEF NumberIs
  <2> QED BY <2>1, <2>2
<1>2. PICK x \in low..(low + w) :
        /\ x = Space!Stepped(p, u)
        /\ Space!Stepped(p, [n |-> x - p.low, d |-> p.high - p.low, place |-> TRUE]) = x
  BY <1>1, SteppedReturns
<1>3. PICK m \in a..b : m = Space!RoundHalfEven(x, g)
  <2>1. x \in Int /\ a * g <= x /\ x <= b * g
    BY <1>1
  <2>2. Space!RoundHalfEven(x, g) \in a..b
    BY <2>1, RoundsWithin, Zenon
  <2> QED BY <2>2
<1>4. y = m * g
  BY <1>1, <1>2, <1>3 DEF Space!Whole
<1>5. PICK v \in Nat : v = y - low /\ y = low + v /\ v <= w
  <2>1. a * g <= m * g /\ m * g <= b * g
    BY MultiplesGrow
  <2> QED BY <1>1, <1>4, <2>1
<1>6. -g <= 2 * (x - y) /\ 2 * (x - y) <= g
  BY <1>3, <1>4, NearestIs
<1> DEFINE place == [n |-> v, d |-> w, place |-> TRUE]
<1>7. PICK k \in Int : /\ k = Space!RoundHalfEven(v, s) /\ k >= 0
                       /\ Space!Stepped(p, place) = IF s * k > w THEN low + w ELSE low + s * k
  <2>1. CoordinateIs(place)
    BY <1>5 DEF CoordinateIs
  <2>2. place.n = v /\ place.d = w
    OBVIOUS
  <2> HIDE DEF place
  <2>3. v \in Int
    BY <1>5
  <2>4. Space!RoundHalfEven(v * w, w * s) = Space!RoundHalfEven(v, s)
    BY <2>3, RoundsScaled, Zenon
  <2> QED BY <1>1, <2>1, <2>2, <2>4, SteppedIs
<1>8. PICK t \in Nat : t = s * k /\ t = k * s
  BY <1>7
<1>9. PICK z \in Int : z = Space!Stepped(p, place) /\ z = IF t > w THEN low + w ELSE low + t
  BY <1>7, <1>8
<1>10. Space!Numeric(p, place) = g * Space!RoundHalfEven(z, g)
  <2>1. Space!Numeric(p, place) = Space!Whole(z, 1)
    BY <1>9 DEF Space!Numeric
  <2>2. 1 * Grain = g
    BY <1>1
  <2> QED BY <1>1, <2>1, <2>2 DEF Space!Whole
<1>11. -s <= 2 * (v - t) /\ 2 * (v - t) <= s
  <2>1. v \in Int
    BY <1>5
  <2>2. -s <= 2 * (v - k * s) /\ 2 * (v - k * s) <= s
    BY <1>7, <2>1, NearestIs
  <2> QED BY <1>8, <2>2
<1>12. Returns(p, y) <=> Space!Numeric(p, place) = y
  <2>1. place = [n |-> y - p.low, d |-> p.high - p.low, place |-> TRUE]
    BY <1>1, <1>5
  <2> QED BY <2>1, NumberReturns
<1> HIDE DEF place
<1>13. CASE s < g
  <2>1. -g < 2 * (z - m * g) /\ 2 * (z - m * g) < g
    BY <1>4, <1>5, <1>9, <1>11, <1>13
  <2>2. Space!RoundHalfEven(z, g) = m
    BY <2>1, NearestIs
  <2> QED BY <1>4, <1>10, <1>12, <2>2
<1>14. CASE s = g
  <2>1. PICK c \in Int : c = m - a
    OBVIOUS
  <2>2. v = c * s
    BY <1>1, <1>4, <1>5, <1>14, <2>1
  <2>3. k = c
    BY <1>7, <2>2, RoundsTo
  <2>4. z = m * g
    BY <1>4, <1>5, <1>8, <1>9, <2>2, <2>3
  <2>5. Space!RoundHalfEven(z, g) = m
    BY <2>4, RoundsTo
  <2> QED BY <1>4, <1>10, <1>12, <2>5
<1>15. CASE s > g
  <2>1. z = x
    <3>1. PICK j \in Int : /\ j >= 0
                           /\ x = IF s * j > w THEN low + w ELSE low + s * j
      BY <1>1, <1>2, SteppedIs
    <3>2. CASE x = low + w
      <4>1. b * g = m * g \/ b >= m + 1
        BY <1>3
      <4>2. Space!RoundHalfEven(b * g, g) = b
        BY RoundsTo
      <4>3. v = w
        BY <1>1, <1>3, <1>4, <1>5, <3>2, <4>2
      <4>4. Space!Stepped(p, place) = x
        BY <1>1, <1>2, <3>2, <4>3 DEF place
      <4> QED BY <1>9, <4>4
    <3>3. CASE x # low + w
      <4>1. PICK e \in Nat : e = s * j /\ e = j * s
        BY <3>1
      <4>2. x = low + e /\ ~(e > w)
        BY <3>1, <3>3, <4>1
      <4>3. -s < 2 * (v - j * s) /\ 2 * (v - j * s) < s
        BY <1>5, <1>6, <1>15, <4>1, <4>2
      <4>4. j = k
        BY <1>7, <4>3, NearestIs
      <4> QED BY <1>8, <1>9, <4>1, <4>2, <4>4
    <3> QED BY <3>2, <3>3
  <2>2. Space!Numeric(p, place) = y
    BY <1>3, <1>4, <1>10, <2>1
  <2> QED BY <1>12, <2>2
<1> QED BY <1>13, <1>14, <1>15

\* Whatever a place of the range holds is given back.
LEMMA NumericReturns ==
  ASSUME Grain \in Nat \ {0}, NEW p, NumberIs(p), NEW u, CoordinateIs(u)
  PROVE  Returns(p, Space!Numeric(p, u))
<1>1. CASE p.kind = "int" /\ p.step = 0
  <2>1. PICK w \in Nat \ {0}, d \in Nat \ {0}, n \in Nat, low \in Int, g \in Nat \ {0}, a \in Int, b \in Int :
          /\ w = p.high - p.low /\ d = u.d /\ n = u.n /\ n \in 0..d /\ low = p.low /\ p.high = low + w
          /\ g = Grain /\ low = a * g /\ low + w = b * g
    <3>1. PICK a \in Int, b \in Int : p.low = a * Grain /\ p.high = b * Grain
      BY <1>1, BoundsAre
    <3>2. p.high - p.low \in Nat \ {0} /\ p.low \in Int /\ p.high = p.low + (p.high - p.low)
      BY DEF NumberIs
    <3>3. PICK d \in Nat \ {0}, n \in Nat : d = u.d /\ n = u.n /\ n \in 0..d
      BY DEF CoordinateIs
    <3> QED BY <3>1, <3>2, <3>3
  <2>2. PICK m : m = Space!RoundHalfEven(low * d + n * w, d * g)
    OBVIOUS
  <2>3. Space!Numeric(p, u) = Grain * m
    BY <1>1, <2>1, <2>2 DEF Space!Numeric, Space!Whole
  <2>4. m \in Int
    <3>1. PICK c \in Int, e \in Nat \ {0} : c = low * d + n * w /\ e = d * g
      OBVIOUS
    <3> QED BY <2>2, <3>1, NearestIs
  <2> QED BY <1>1, <2>3, <2>4, WholeReturns
<1>2. CASE p.kind = "int" /\ p.step # 0
  <2>1. Space!Numeric(p, u) = Space!Whole(Space!Stepped(p, u), 1)
    BY <1>2 DEF Space!Numeric
  <2> QED BY <1>2, <2>1, RoundedReturns
<1>3. CASE p.kind = "float"
  <2>1. \A at : Space!Numeric(p, at) = Space!Stepped(p, at)
    BY <1>3 DEF Space!Numeric
  <2>2. p.step # 0
    BY <1>3 DEF NumberIs
  <2>3. PICK x : x = Space!Stepped(p, u)
    OBVIOUS
  <2>4. Space!Stepped(p, [n |-> x - p.low, d |-> p.high - p.low, place |-> TRUE]) = x
    BY <2>2, <2>3, SteppedReturns
  <2> QED BY <2>1, <2>3, <2>4, NumberReturns
<1> QED BY <1>1, <1>2, <1>3 DEF NumberIs

\* Whatever a coordinate decodes to is given back.
LEMMA DrawnReturns ==
  ASSUME Grain \in Nat \ {0}, NEW i, NEW p, Space!ParameterIs(p, i), NEW u, CoordinateIs(u)
  PROVE  Returns(p, Space!FromUnit(p, u))
<1>1. CASE p.kind = "bool"
  <2>1. Space!FromUnit(p, u) \in {0, 1}
    BY <1>1 DEF Space!FromUnit
  <2> QED BY <1>1, <2>1, SwitchReturns
<1>2. CASE p.kind = "categorical"
  <2>1. PICK n \in Nat \ {0} : n = Len(p.choices) /\ DOMAIN p.choices = 1..n
    BY <1>2 DEF Space!ParameterIs
  <2> DEFINE at == (u.n * n) \div u.d
             j == (IF at < n THEN at ELSE n - 1) + 1
  <2>2. Space!FromUnit(p, u) = p.choices[j]
    BY <1>2, <2>1 DEF Space!FromUnit
  <2>3. at \in Nat
    <3>1. PICK a \in Nat, d \in Nat \ {0} : a = u.n * n /\ d = u.d
      BY DEF CoordinateIs
    <3> QED BY <3>1
  <2> HIDE DEF at
  <2>4. j \in 1..n
    BY <2>3
  <2> HIDE DEF j
  <2> QED BY <1>2, <2>1, <2>2, <2>4, ChoiceReturns
<1>3. CASE p.kind \in {"int", "float"}
  <2>1. NumberIs(p)
    BY <1>3 DEF Space!ParameterIs, NumberIs
  <2>2. Space!FromUnit(p, u) = Space!Numeric(p, Space!Place(p, u))
    BY <1>3 DEF Space!FromUnit
  <2>3. CoordinateIs(Space!Place(p, u))
    BY <2>1, PlaceInRange
  <2> QED BY <2>1, <2>2, <2>3, NumericReturns
<1> QED BY <1>1, <1>2, <1>3 DEF Space!ParameterIs

\* And so is whatever is on the grid.
LEMMA GridReturns ==
  ASSUME Grain \in Nat \ {0}, NEW i, NEW p, Space!ParameterIs(p, i), NEW at \in DOMAIN Space!GridValues(p)
  PROVE  Returns(p, Space!GridValues(p)[at])
<1>1. CASE p.kind = "bool"
  <2>1. Space!GridValues(p) = <<0, 1>>
    BY <1>1 DEF Space!GridValues
  <2>2. Space!GridValues(p)[at] \in {0, 1}
    BY <2>1
  <2> QED BY <1>1, <2>2, SwitchReturns
<1>2. CASE p.kind = "categorical"
  <2>1. Space!GridValues(p) = p.choices
    BY <1>2 DEF Space!GridValues
  <2> QED BY <1>2, <2>1, ChoiceReturns
<1>3. CASE p.kind \in {"int", "float"} /\ p.step = 0
  <2>1. Space!GridValues(p) = [k \in 1..3 |-> Space!FromUnit(p, Space!Unit(k - 1, 2))]
    BY <1>3 DEF Space!GridValues
  <2>2. at \in 1..3 /\ Space!GridValues(p)[at] = Space!FromUnit(p, Space!Unit(at - 1, 2))
    BY <2>1
  <2>3. CoordinateIs(Space!Unit(at - 1, 2))
    BY <2>2 DEF CoordinateIs, Space!Unit
  <2> QED BY <2>2, <2>3, DrawnReturns
<1>4. CASE p.kind \in {"int", "float"} /\ p.step # 0
  <2>1. PICK w \in Nat, s \in Nat \ {0} : w = p.high - p.low /\ s = p.step
    BY <1>4 DEF Space!ParameterIs
  <2>2. PICK m \in Nat : m = w \div s
    OBVIOUS
  <2>3. Space!Steps(p) = m
    BY <2>1, <2>2 DEF Space!Steps
  <2>4. Space!GridValues(p) = [k \in 1..(m + 1) |-> Space!FromUnit(p, Space!Unit(k - 1, IF m = 0 THEN 1 ELSE m))]
    BY <1>4, <2>3 DEF Space!GridValues
  <2>5. at \in 1..(m + 1) /\ Space!GridValues(p)[at] = Space!FromUnit(p, Space!Unit(at - 1, IF m = 0 THEN 1 ELSE m))
    BY <2>4
  <2>6. CoordinateIs(Space!Unit(at - 1, IF m = 0 THEN 1 ELSE m))
    BY <2>5 DEF CoordinateIs, Space!Unit
  <2> QED BY <2>5, <2>6, DrawnReturns
<1> QED BY <1>1, <1>2, <1>3, <1>4 DEF Space!ParameterIs

\* What a set of active parameters has to agree with: the conditions, on the
\* values of those of them that come before.
ActiveAre(D, values) ==
  \A i \in Space!Index :
    i \in D <=> Space!Active(Space!Param(i), [j \in D \cap 1..(i - 1) |-> values[j]])

LEMMA IndexIs ==
  ASSUME Space!SpaceAssumption, space \in Spaces
  PROVE  /\ Space!Index \in SUBSET (Nat \ {0})
         /\ \A i \in Space!Index : Space!ParameterIs(Space!Param(i), i)
<1>1. /\ Len(space.parameters) \in Nat /\ DOMAIN space.parameters = 1..Len(space.parameters)
      /\ \A i \in DOMAIN space.parameters : Space!ParameterIs(space.parameters[i], i)
  BY DEF Space!SpaceAssumption
<1> QED BY <1>1 DEF Space!Index, Space!Param

\* There is one such set: the first parameter in which two differ would have the
\* same values before it in both.
LEMMA ActiveAlike ==
  ASSUME Space!SpaceAssumption, space \in Spaces, NEW values,
         NEW D \in SUBSET Space!Index, ActiveAre(D, values),
         NEW E \in SUBSET Space!Index, ActiveAre(E, values)
  PROVE  D = E
<1> DEFINE Differ == (D \ E) \cup (E \ D)
<1> SUFFICES ASSUME Differ # {} PROVE FALSE
  OBVIOUS
<1>1. Differ \in SUBSET Nat
  BY IndexIs
<1>2. PICK m \in Differ : \A k \in Differ : m <= k
  BY <1>1, SmallestIs
<1>3. m \in Space!Index /\ m \in Nat
  BY <1>1, <1>2
<1>4. \A k \in 1..(m - 1) : k \in D <=> k \in E
  <2> SUFFICES ASSUME NEW k \in 1..(m - 1), k \in Differ PROVE FALSE
    OBVIOUS
  <2> QED BY <1>2, <1>3
<1>5. D \cap 1..(m - 1) = E \cap 1..(m - 1)
  BY <1>4
<1>6. m \in D <=> m \in E
  BY <1>3, <1>5 DEF ActiveAre
<1> QED BY <1>2, <1>6

\* A valid candidate is what is assembled of its own values.
LEMMA AssembledIs ==
  ASSUME Space!SpaceAssumption, space \in Spaces, NEW c, Space!Valid(c),
         c = [i \in DOMAIN c |-> c[i]], NEW values, \A i \in DOMAIN c : values[i] = c[i]
  PROVE  Space!Assembled(values) = c
<1> DEFINE D == DOMAIN c
           active == CHOOSE S \in SUBSET Space!Index : ActiveAre(S, values)
<1>1. D \in SUBSET Space!Index
  BY DEF Space!Valid
<1>2. ActiveAre(D, values)
  <2> SUFFICES ASSUME NEW i \in Space!Index
               PROVE  i \in D <=> Space!Active(Space!Param(i), [j \in D \cap 1..(i - 1) |-> values[j]])
    BY DEF ActiveAre
  <2>1. i \in D <=> Space!Active(Space!Param(i), [j \in D \cap 1..(i - 1) |-> c[j]])
    BY DEF Space!Valid
  <2>2. [j \in D \cap 1..(i - 1) |-> c[j]] = [j \in D \cap 1..(i - 1) |-> values[j]]
    OBVIOUS
  <2> QED BY <2>1, <2>2
<1>3. active \in SUBSET Space!Index /\ ActiveAre(active, values)
  BY <1>1, <1>2
<1>4. active = D
  BY <1>1, <1>2, <1>3, ActiveAlike
<1>5. Space!Assembled(values) = [i \in active |-> values[i]]
  BY DEF Space!Assembled, ActiveAre
<1> QED BY <1>4, <1>5

\* A valid candidate comes back if each of its values does.
LEMMA CandidateReturns ==
  ASSUME Space!SpaceAssumption, space \in Spaces, NEW c, Space!Valid(c),
         c = [i \in DOMAIN c |-> c[i]], \A i \in DOMAIN c : Returns(Space!Param(i), c[i])
  PROVE  Space!Decode(Space!Encode(c)) = c
<1> DEFINE values == [i \in Space!Index |-> Space!FromUnit(Space!Param(i), Space!Encode(c)[i])]
<1>1. Space!Decode(Space!Encode(c)) = Space!Assembled(values)
  BY DEF Space!Decode
<1>2. ASSUME NEW i \in DOMAIN c PROVE values[i] = c[i]
  <2>1. i \in Space!Index
    BY DEF Space!Valid
  <2>2. Space!Encode(c)[i] = Space!ToUnit(Space!Param(i), c[i])
    BY <2>1 DEF Space!Encode
  <2>3. Returns(Space!Param(i), c[i])
    OBVIOUS
  <2> QED BY <2>1, <2>2, <2>3 DEF Returns
<1> HIDE DEF values
<1> QED BY <1>1, <1>2, AssembledIs

\* What is assembled has the values it was given.
LEMMA AssembledHas ==
  ASSUME NEW values
  PROVE  /\ Space!Assembled(values) = [i \in DOMAIN Space!Assembled(values) |-> Space!Assembled(values)[i]]
         /\ \A i \in DOMAIN Space!Assembled(values) : Space!Assembled(values)[i] = values[i]
<1>1. PICK active : Space!Assembled(values) = [i \in active |-> values[i]]
  BY DEF Space!Assembled
<1> QED BY <1>1

\* The grid comes back.
LEMMA OnGridReturns ==
  ASSUME Space!SpaceAssumption, space \in Spaces, NEW at \in Space!Grid
  PROVE  Space!Decode(Space!Encode(Space!Combination(at))) = Space!Combination(at)
<1> DEFINE values == [i \in Space!Index |-> Space!GridValues(Space!Param(i))[at[i]]]
           c == Space!Assembled(values)
<1>1. Space!Combination(at) = c
  BY DEF Space!Combination
<1>2. at \in Space!Products /\ Space!Valid(c)
  BY <1>1 DEF Space!Grid
<1>3. c = [i \in DOMAIN c |-> c[i]] /\ \A i \in DOMAIN c : c[i] = values[i]
  <2> HIDE DEF values
  <2> QED BY AssembledHas
<1> HIDE DEF c
<1>4. ASSUME NEW i \in DOMAIN c PROVE Returns(Space!Param(i), c[i])
  <2>1. i \in Space!Index
    BY <1>2 DEF Space!Valid
  <2>2. c[i] = Space!GridValues(Space!Param(i))[at[i]] /\ at[i] \in DOMAIN Space!GridValues(Space!Param(i))
    BY <1>2, <1>3, <2>1 DEF Space!Products
  <2>3. Space!ParameterIs(Space!Param(i), i) /\ Grain \in Nat \ {0}
    BY <2>1, IndexIs DEF Space!SpaceAssumption
  <2> QED BY <2>2, <2>3, GridReturns
<1> QED BY <1>1, <1>2, <1>3, <1>4, CandidateReturns

\* A step that divides the range leads through the lattice, point by point.
LEMMA LatticeIs ==
  ASSUME Grain \in Nat \ {0}, NEW i, NEW p, Space!ParameterIs(p, i), Space!Stepping(p)
  PROVE  \E m \in Nat : /\ p.high - p.low = m * p.step
                        /\ Space!GridValues(p) = [k \in 1..(m + 1) |-> p.low + (k - 1) * p.step]
<1>0. NumberIs(p) /\ p.curve = <<>> /\ p.step > 0 /\ (p.high - p.low) % p.step = 0
  BY DEF Space!ParameterIs, Space!Stepping, NumberIs
<1>1. PICK low \in Int, high \in Int, s \in Nat \ {0}, w \in Nat \ {0} :
        low = p.low /\ high = p.high /\ s = p.step /\ w = high - low
  BY <1>0 DEF NumberIs
<1>2. PICK m \in Int, r \in 0..(s - 1) : m = w \div s /\ r = w % s /\ w = m * s + r
  <2>1. w \in Int /\ s \in Nat \ {0}
    OBVIOUS
  <2> QED BY <2>1, DivisionIs, Zenon
<1>3. r = 0
  BY <1>0, <1>1, <1>2
<1>4. w = m * s /\ m \in Nat \ {0}
  <2>1. w = m * s
    BY <1>2, <1>3
  <2>2. m >= 1
    <3> SUFFICES ASSUME m <= 0 PROVE FALSE
      OBVIOUS
    <3>1. m * s <= 0 * s
      BY MultiplesGrow
    <3> QED BY <2>1, <3>1
  <2> QED BY <2>1, <2>2
<1>5. Space!Steps(p) = m
  BY <1>1, <1>2 DEF Space!Steps
<1>6. Space!GridValues(p) = [k \in 1..(m + 1) |-> Space!FromUnit(p, Space!Unit(k - 1, m))]
  BY <1>0, <1>1, <1>4, <1>5 DEF Space!GridValues, NumberIs
<1>7. ASSUME NEW k \in 0..m
      PROVE  Space!FromUnit(p, Space!Unit(k, m)) = low + k * s
  <2>1. Space!FromUnit(p, Space!Unit(k, m)) = Space!Numeric(p, Space!Unit(k, m))
    BY <1>0 DEF Space!FromUnit, Space!Place, NumberIs
  <2>2. Space!Stepped(p, Space!Unit(k, m)) =
          Space!Within(p, low + s * Space!RoundHalfEven(k * w, m * s))
    BY <1>1 DEF Space!Stepped, Space!Unit
  <2>3. Space!RoundHalfEven(k * w, m * s) = k
    BY <1>4, RoundsTo
  <2>4. PICK t \in Int : t = s * k /\ t = k * s /\ 0 <= t /\ t <= w
    <3>1. k * s <= m * s /\ 0 * s <= k * s
      BY <1>4, MultiplesGrow
    <3> QED BY <1>4, <3>1
  <2>5. Space!Stepped(p, Space!Unit(k, m)) = low + t
    BY <1>1, <2>2, <2>3, <2>4 DEF Space!Within
  <2>6. CASE p.kind = "float"
    BY <2>1, <2>4, <2>5, <2>6 DEF Space!Numeric
  <2>7. CASE p.kind = "int"
    <3>1. Space!Numeric(p, Space!Unit(k, m)) = Space!Whole(low + t, 1)
      BY <1>0, <2>5, <2>7 DEF Space!Numeric
    <3>2. PICK a \in Int : low = a * Grain
      BY <1>0, <1>1, <2>7, BoundsAre
    <3>3. PICK g \in Nat \ {0} : g = Grain /\ s % g = 0
      BY <1>1, <2>7 DEF Space!Stepping
    <3>4. PICK c \in Int, e \in 0..(g - 1) : c = s \div g /\ e = s % g /\ s = c * g + e
      <4>1. s \in Int /\ g \in Nat \ {0}
        OBVIOUS
      <4> QED BY <4>1, DivisionIs, Zenon
    <3>5. s = c * g
      BY <3>3, <3>4
    <3>6. PICK v \in Int : v = a + k * c
      OBVIOUS
    <3>7. low + t = v * g
      BY <2>4, <3>2, <3>3, <3>5, <3>6
    <3>8. Space!RoundHalfEven(v * g, g) = v
      BY RoundsTo
    <3>9. Space!Whole(low + t, 1) = low + t
      BY <3>3, <3>7, <3>8 DEF Space!Whole
    <3> QED BY <2>1, <2>4, <3>1, <3>9
  <2> QED BY <1>0, <2>6, <2>7 DEF NumberIs
<1>8. ASSUME NEW k \in 1..(m + 1)
      PROVE  Space!FromUnit(p, Space!Unit(k - 1, m)) = low + (k - 1) * s
  <2>1. k - 1 \in 0..m
    BY <1>4
  <2> QED BY <1>7, <2>1
<1>9. Space!GridValues(p) = [k \in 1..(m + 1) |-> low + (k - 1) * s]
  BY <1>6, <1>8
<1> QED BY <1>1, <1>4, <1>9

\* So every point is among its values, and none of them twice.
LEMMA PointsListed ==
  ASSUME Grain \in Nat \ {0}, NEW i, NEW p, Space!ParameterIs(p, i),
         p.kind \in {"bool", "categorical"} \/ Space!Stepping(p)
  PROVE  /\ \A x \in Space!Points(p) : \E k \in DOMAIN Space!GridValues(p) : Space!GridValues(p)[k] = x
         /\ ~Space!Repeating(p) =>
              \A j, k \in DOMAIN Space!GridValues(p) :
                Space!GridValues(p)[j] = Space!GridValues(p)[k] => j = k
<1>1. CASE p.kind = "bool"
  <2>1. Space!GridValues(p) = <<0, 1>> /\ Space!Points(p) = {0, 1}
    BY <1>1 DEF Space!GridValues, Space!Points
  <2>2. DOMAIN <<0, 1>> = {1, 2} /\ <<0, 1>>[1] = 0 /\ <<0, 1>>[2] = 1
    OBVIOUS
  <2>3. \A j, k \in {1, 2} : <<0, 1>>[j] = <<0, 1>>[k] => j = k
    OBVIOUS
  <2>4. \A x \in {0, 1} : \E k \in {1, 2} : <<0, 1>>[k] = x
    BY <2>2
  <2>5. DOMAIN Space!GridValues(p) = {1, 2}
    BY <2>1, <2>2
  <2> QED BY <2>1, <2>3, <2>4, <2>5
<1>2. CASE p.kind = "categorical"
  <2>1. Space!GridValues(p) = p.choices /\ Space!Points(p) = {p.choices[k] : k \in DOMAIN p.choices}
    BY <1>2 DEF Space!GridValues, Space!Points
  <2>2. ~Space!Repeating(p) => \A j, k \in DOMAIN p.choices : p.choices[j] = p.choices[k] => j = k
    BY <1>2 DEF Space!Repeating
  <2> QED BY <2>1, <2>2
<1>3. CASE Space!Stepping(p)
  <2>1. PICK low \in Int, high \in Int, s \in Nat \ {0} :
          low = p.low /\ high = p.high /\ s = p.step /\ p.kind \notin {"bool", "categorical"}
    BY <1>3 DEF Space!ParameterIs, Space!Stepping
  <2>2. PICK m \in Nat : /\ high - low = m * s
                         /\ Space!GridValues(p) = [k \in 1..(m + 1) |-> low + (k - 1) * s]
    BY <1>3, <2>1, LatticeIs
  <2>3. ASSUME NEW x \in low..high, (x - low) % s = 0
        PROVE  \E k \in 1..(m + 1) : low + (k - 1) * s = x
    <3>1. PICK k \in Int, e \in 0..(s - 1) : k = (x - low) \div s /\ e = (x - low) % s /\ x - low = k * s + e
      <4>1. x - low \in Int /\ s \in Nat \ {0}
        OBVIOUS
      <4> QED BY <4>1, DivisionIs, Zenon
    <3>2. x - low = k * s /\ 0 <= x - low /\ x - low <= high - low
      BY <2>3, <3>1
    <3>3. k >= 0
      <4> SUFFICES ASSUME k + 1 <= 0 PROVE FALSE
        OBVIOUS
      <4>1. 0 * s >= k * s + s
        BY MultiplesGrow
      <4> QED BY <3>2, <4>1
    <3>4. k <= m
      <4> SUFFICES ASSUME k >= m + 1 PROVE FALSE
        OBVIOUS
      <4>1. k * s >= m * s + s
        BY MultiplesGrow
      <4> QED BY <2>2, <3>2, <4>1
    <3>5. k + 1 \in 1..(m + 1) /\ (k + 1) - 1 = k
      BY <3>3, <3>4
    <3> QED BY <3>2, <3>5
  <2>4. ASSUME NEW j \in 1..(m + 1), NEW k \in 1..(m + 1), j + 1 <= k
        PROVE  low + (j - 1) * s # low + (k - 1) * s
    <3>1. PICK c \in Int, d \in Int : c = j - 1 /\ d = k - 1 /\ d >= c + 1
      BY <2>4
    <3>2. d * s >= c * s + s /\ d * s \in Int /\ c * s \in Int
      BY <3>1, MultiplesGrow
    <3>3. (j - 1) * s = c * s /\ (k - 1) * s = d * s
      BY <3>1
    <3> QED BY <3>2, <3>3
  <2>5. \A j, k \in 1..(m + 1) : low + (j - 1) * s = low + (k - 1) * s => j = k
    <3> SUFFICES ASSUME NEW j \in 1..(m + 1), NEW k \in 1..(m + 1), j # k
                 PROVE  low + (j - 1) * s # low + (k - 1) * s
      OBVIOUS
    <3>1. CASE j + 1 <= k
      BY <2>4, <3>1
    <3>2. CASE k + 1 <= j
      <4>1. low + (k - 1) * s # low + (j - 1) * s
        BY <2>4, <3>2
      <4> QED BY <4>1
    <3> QED BY <3>1, <3>2
  <2>6. Space!Points(p) = {x \in low..high : (x - low) % s = 0}
    BY <2>1 DEF Space!Points
  <2>7. /\ DOMAIN Space!GridValues(p) = 1..(m + 1)
        /\ \A k \in 1..(m + 1) : Space!GridValues(p)[k] = low + (k - 1) * s
    BY <2>2
  <2>8. \A x \in Space!Points(p) : \E k \in DOMAIN Space!GridValues(p) : Space!GridValues(p)[k] = x
    <3> SUFFICES ASSUME NEW x \in Space!Points(p)
                 PROVE  \E k \in DOMAIN Space!GridValues(p) : Space!GridValues(p)[k] = x
      OBVIOUS
    <3>1. x \in low..high /\ (x - low) % s = 0
      BY <2>6
    <3>2. PICK k \in 1..(m + 1) : low + (k - 1) * s = x
      BY <2>3, <3>1
    <3> QED BY <2>7, <3>2
  <2> QED BY <2>5, <2>7, <2>8
<1> QED BY <1>1, <1>2, <1>3

\* Without conditions every parameter is active.
LEMMA Unconditional ==
  ASSUME Space!SpaceAssumption, space \in Spaces, \A i \in Space!Index : Space!Param(i).on = {},
         NEW values
  PROVE  Space!Assembled(values) = [i \in Space!Index |-> values[i]]
<1> DEFINE active == CHOOSE S \in SUBSET Space!Index : ActiveAre(S, values)
<1>1. \A c : \A i \in Space!Index : Space!Active(Space!Param(i), c)
  BY DEF Space!Active
<1>2. ActiveAre(Space!Index, values)
  BY <1>1 DEF ActiveAre
<1>3. active \in SUBSET Space!Index /\ ActiveAre(active, values)
  BY <1>2
<1>4. active = Space!Index
  BY <1>2, <1>3, ActiveAlike
<1>5. Space!Assembled(values) = [i \in active |-> values[i]]
  BY DEF Space!Assembled, ActiveAre
<1> QED BY <1>4, <1>5

\* Every valid candidate is at some place of the grid, and without conditions and
\* choices that are listed twice at one.
LEMMA GridIsComplete ==
  ASSUME Space!SpaceAssumption, space \in Spaces
  PROVE  Space!GridComplete
<1> SUFFICES ASSUME \A i \in Space!Index :
                      Space!Param(i).kind \in {"bool", "categorical"} \/ Space!Stepping(Space!Param(i))
             PROVE  /\ \A x \in [Space!Index -> UNION {Space!Points(Space!Param(i)) : i \in Space!Index}] :
                         (\A i \in Space!Index : x[i] \in Space!Points(Space!Param(i)))
                         /\ Space!Valid(Space!Assembled(x)) =>
                           \E at \in Space!Grid : Space!Combination(at) = Space!Assembled(x)
                    /\ (\A i \in Space!Index : Space!Param(i).on = {} /\ ~Space!Repeating(Space!Param(i))) =>
                         \A at, other \in Space!Grid :
                           Space!Combination(at) = Space!Combination(other) => at = other
  BY DEF Space!GridComplete
<1> DEFINE Listing(i) == Space!GridValues(Space!Param(i))
<1>1. ASSUME NEW i \in Space!Index
      PROVE  /\ \A x \in Space!Points(Space!Param(i)) : \E k \in DOMAIN Listing(i) : Listing(i)[k] = x
             /\ ~Space!Repeating(Space!Param(i)) =>
                  \A j, k \in DOMAIN Listing(i) : Listing(i)[j] = Listing(i)[k] => j = k
  <2>1. Space!ParameterIs(Space!Param(i), i) /\ Grain \in Nat \ {0}
    BY IndexIs DEF Space!SpaceAssumption
  <2>2. Space!Param(i).kind \in {"bool", "categorical"} \/ Space!Stepping(Space!Param(i))
    OBVIOUS
  <2> QED BY <2>1, <2>2, PointsListed
<1>2. \A at : Space!Combination(at) = Space!Assembled([i \in Space!Index |-> Listing(i)[at[i]]])
  BY DEF Space!Combination
<1>3. \A at : at \in Space!Products <=>
        /\ at \in [Space!Index -> UNION {DOMAIN Listing(i) : i \in Space!Index}]
        /\ \A i \in Space!Index : at[i] \in DOMAIN Listing(i)
  BY DEF Space!Products
<1> HIDE DEF Listing
<1>4. ASSUME NEW x \in [Space!Index -> UNION {Space!Points(Space!Param(i)) : i \in Space!Index}],
             \A i \in Space!Index : x[i] \in Space!Points(Space!Param(i)),
             Space!Valid(Space!Assembled(x))
      PROVE  \E at \in Space!Grid : Space!Combination(at) = Space!Assembled(x)
  <2> DEFINE at == [i \in Space!Index |-> CHOOSE k \in DOMAIN Listing(i) : Listing(i)[k] = x[i]]
  <2>1. ASSUME NEW i \in Space!Index PROVE at[i] \in DOMAIN Listing(i) /\ Listing(i)[at[i]] = x[i]
    <3>1. \E k \in DOMAIN Listing(i) : Listing(i)[k] = x[i]
      BY <1>1, <1>4
    <3> QED BY <3>1
  <2>2. at \in [Space!Index -> UNION {DOMAIN Listing(i) : i \in Space!Index}]
    BY <2>1
  <2> HIDE DEF at
  <2>3. at \in Space!Products
    BY <1>3, <2>1, <2>2
  <2>4. [i \in Space!Index |-> Listing(i)[at[i]]] = x
    BY <2>1
  <2>5. Space!Combination(at) = Space!Assembled(x)
    BY <1>2, <2>4
  <2> QED BY <1>4, <2>3, <2>5 DEF Space!Grid
<1>5. ASSUME \A i \in Space!Index : Space!Param(i).on = {} /\ ~Space!Repeating(Space!Param(i)),
             NEW at \in Space!Grid, NEW other \in Space!Grid,
             Space!Combination(at) = Space!Combination(other)
      PROVE  at = other
  <2>1. at \in Space!Products /\ other \in Space!Products
    BY DEF Space!Grid
  <2>2. ASSUME NEW b PROVE Space!Combination(b) = [i \in Space!Index |-> Listing(i)[b[i]]]
    <3> DEFINE values == [i \in Space!Index |-> Listing(i)[b[i]]]
    <3>1. Space!Assembled(values) = [i \in Space!Index |-> values[i]]
      <4> HIDE DEF values
      <4> QED BY <1>5, Unconditional
    <3> QED BY <1>2, <3>1
  <2>3. ASSUME NEW i \in Space!Index PROVE at[i] = other[i]
    <3>1. Listing(i)[at[i]] = Listing(i)[other[i]]
      BY <1>5, <2>2
    <3>2. at[i] \in DOMAIN Listing(i) /\ other[i] \in DOMAIN Listing(i)
      BY <1>3, <2>1
    <3> QED BY <1>1, <1>5, <3>1, <3>2
  <2>4. at = [i \in Space!Index |-> at[i]] /\ other = [i \in Space!Index |-> other[i]]
    BY <1>3, <2>1
  <2> QED BY <2>3, <2>4
<1> QED BY <1>4, <1>5

\* What was drawn of the coordinates of a vector, and is valid.
Drawn(c) ==
  /\ Space!Valid(c) /\ c = [i \in DOMAIN c |-> c[i]]
  /\ \A i \in DOMAIN c : \E u : CoordinateIs(u) /\ c[i] = Space!FromUnit(Space!Param(i), u)

SpaceInv ==
  /\ space \in Spaces /\ tries \in 0..Retries
  /\ candidate = <<>> \/ \E c : candidate = <<c>> /\ Drawn(c)

\* A step that leaves the space alone leaves it drawn.
LEMMA DrawnStays ==
  ASSUME UNCHANGED space
  PROVE  \A c : Drawn(c) => Drawn(c)'
<1> QED BY DEF Drawn, Space!Valid, Space!Index, Space!Param

\* Every draw goes through a vector.
LEMMA DrawKeeps ==
  ASSUME Space!SpaceAssumption, SpaceInv, Space!Next
  PROVE  SpaceInv'
<1>1. PICK vector \in [Space!Index -> {Space!Unit(n, Divisions) : n \in 0..Divisions}] : Space!Draw(vector)
  BY DEF Space!Next
<1>2. space' = space /\ tries' \in 0..Retries
  BY <1>1 DEF Space!Draw, SpaceInv, Space!SpaceAssumption
<1>3. CASE candidate' = <<>>
  BY <1>2, <1>3 DEF SpaceInv
<1>4. CASE Space!Valid(Space!Decode(vector)) /\ candidate' = <<Space!Decode(vector)>>
  <2> DEFINE c == Space!Decode(vector)
             values == [i \in Space!Index |-> Space!FromUnit(Space!Param(i), vector[i])]
  <2>1. c = Space!Assembled(values)
    BY DEF Space!Decode
  <2> HIDE DEF c
  <2>2. c = [i \in DOMAIN c |-> c[i]] /\ \A i \in DOMAIN c : c[i] = values[i]
    <3> HIDE DEF values
    <3> QED BY <2>1, AssembledHas
  <2>3. Space!Valid(c)
    BY <1>4 DEF c
  <2>4. ASSUME NEW i \in DOMAIN c
        PROVE  CoordinateIs(vector[i]) /\ c[i] = Space!FromUnit(Space!Param(i), vector[i])
    <3>1. i \in Space!Index
      BY <2>3 DEF Space!Valid
    <3>2. CoordinateIs(vector[i])
      BY <3>1 DEF CoordinateIs, Space!Unit, Space!SpaceAssumption
    <3> QED BY <2>2, <3>1, <3>2
  <2>5. Drawn(c)
    BY <2>2, <2>3, <2>4 DEF Drawn
  <2>6. candidate' = <<c>>
    BY <1>4 DEF c
  <2> HIDE DEF values
  <2>7. \E d : candidate' = <<d>> /\ Drawn(d)'
    BY <1>2, <2>5, <2>6, DrawnStays
  <2> QED BY <1>2, <2>7 DEF SpaceInv
<1> QED BY <1>1, <1>3, <1>4 DEF Space!Draw

\* A draw is in its space; what was drawn or is on the grid comes back from its
\* coordinates, and the grid is complete.
LEMMA SpaceInvSound ==
  ASSUME Space!SpaceAssumption, SpaceInv
  PROVE  Space!TypeOK /\ Space!SpaceSound
<1>1. space \in Spaces
  BY DEF SpaceInv
<1>2. Space!TypeOK
  <2>1. Len(candidate) <= 1
    <3>1. CASE candidate = <<>>
      BY <3>1
    <3>2. CASE \E c : candidate = <<c>>
      <4>1. PICK c : candidate = <<c>>
        BY <3>2
      <4>2. Len(<<c>>) = 1
        OBVIOUS
      <4> QED BY <4>1, <4>2
    <3> QED BY <3>1, <3>2 DEF SpaceInv
  <2> QED BY <2>1 DEF Space!TypeOK, SpaceInv
<1>3. ASSUME NEW i \in DOMAIN candidate
      PROVE  Space!Decode(Space!Encode(candidate[i])) = candidate[i]
  <2>1. PICK c : candidate = <<c>> /\ Drawn(c)
    BY <1>3 DEF SpaceInv
  <2>2. candidate[i] = c
    BY <1>3, <2>1
  <2>3. ASSUME NEW j \in DOMAIN c PROVE Returns(Space!Param(j), c[j])
    <3>1. j \in Space!Index
      BY <2>1 DEF Drawn, Space!Valid
    <3>2. PICK u : CoordinateIs(u) /\ c[j] = Space!FromUnit(Space!Param(j), u)
      BY <2>1 DEF Drawn
    <3>3. Space!ParameterIs(Space!Param(j), j) /\ Grain \in Nat \ {0}
      BY <1>1, <3>1, IndexIs DEF Space!SpaceAssumption
    <3> QED BY <3>2, <3>3, DrawnReturns
  <2>4. Space!Valid(c) /\ c = [j \in DOMAIN c |-> c[j]]
    BY <2>1 DEF Drawn
  <2>5. Space!Decode(Space!Encode(c)) = c
    BY <1>1, <2>3, <2>4, CandidateReturns
  <2> QED BY <2>2, <2>5
<1>4. Space!RoundTrip
  BY <1>1, <1>3, OnGridReturns DEF Space!RoundTrip
<1> QED BY <1>1, <1>2, <1>4, GridIsComplete DEF Space!SpaceSound

\* Whatever sample() draws and whatever stands on the grid comes back the same
\* from its coordinates, on linear and logarithmic scales, with steps that divide
\* the range, are whole, or neither; and where every number has a linear scale and
\* a step that divides its range, the grid has every valid candidate, once unless
\* a condition or a choice that is listed twice repeats it (tuning/models.py).
\* Integer parameters have whole bounds, floats a step, and arithmetic is exact.
THEOREM SpacesStaySound ==
  ASSUME Space!SpaceAssumption
  PROVE  Space!Spec => [](Space!TypeOK /\ Space!SpaceSound)
<1>1. Space!Init => SpaceInv
  BY DEF Space!Init, SpaceInv, Space!SpaceAssumption
<1>2. SpaceInv /\ [Space!Next]_(Space!spaceVars) => SpaceInv'
  <2> SUFFICES ASSUME SpaceInv, [Space!Next]_(Space!spaceVars) PROVE SpaceInv'
    OBVIOUS
  <2>1. CASE Space!Next
    BY <2>1, DrawKeeps
  <2>2. CASE UNCHANGED Space!spaceVars
    <3>1. space' = space /\ candidate' = candidate /\ tries' = tries
      BY <2>2 DEF Space!spaceVars
    <3> QED BY <3>1, DrawnStays DEF SpaceInv
  <2> QED BY <2>1, <2>2
<1>3. SpaceInv => Space!TypeOK /\ Space!SpaceSound
  BY SpaceInvSound
<1> QED BY <1>1, <1>2, <1>3, PTL DEF Space!Spec

-----------------------------------------------------------------------------
(***************************************************************************)
(* All parts beside each other: a step of one leaves the others alone.     *)
(***************************************************************************)

\* A step of a behaviour is a step of each part, or leaves it alone.
LEMMA PartsKept ==
  ASSUME [MarketNext]_marketVars
  PROVE  /\ [LayersNext]_layerVars /\ [Data!Next]_(Data!vars)
         /\ [Loop!Next]_(Loop!vars) /\ [Sched!Next]_(Sched!schedulerVars)
         /\ [Search!Next]_(Search!searchVars) /\ [Space!Next]_(Space!spaceVars)
         /\ [Trial!Next]_(Trial!hpoVars)
<1>1. [LayersNext]_layerVars
  BY Zenon DEF MarketNext, marketVars, actingVars
<1>2. UNCHANGED dataVars \/ Data!Next
  BY Zenon DEF MarketNext, marketVars, learningVars
<1>3. UNCHANGED trainingVars \/ Loop!Next
  BY Zenon DEF MarketNext, marketVars, learningVars
<1>4. /\ UNCHANGED schedulerVars \/ Sched!Next
      /\ UNCHANGED searcherVars \/ Search!Next
      /\ UNCHANGED spaceVars \/ Space!Next
      /\ UNCHANGED trialVars \/ Trial!Next
  BY Zenon DEF MarketNext, StudyNext, marketVars, learningVars, studyVars
<1>5. [Data!Next]_(Data!vars)
  BY <1>2 DEF dataVars, Data!vars
<1>6. [Loop!Next]_(Loop!vars)
  BY <1>3 DEF trainingVars, Loop!vars
<1>7. [Sched!Next]_(Sched!schedulerVars)
  BY <1>4 DEF schedulerVars, Sched!schedulerVars
<1>8. [Search!Next]_(Search!searchVars)
  BY <1>4 DEF searcherVars, Search!searchVars
<1>9. [Space!Next]_(Space!spaceVars)
  BY <1>4 DEF spaceVars, Space!spaceVars
<1>10. [Trial!Next]_(Trial!hpoVars)
  BY <1>4 DEF trialVars, Trial!hpoVars
<1> QED BY <1>1, <1>5, <1>6, <1>7, <1>8, <1>9, <1>10

\* So every part goes on as it would on its own.
LEMMA PartsGo ==
  MarketSpec => /\ LayersSpec /\ Data!Spec /\ Loop!Spec
                /\ Sched!Spec /\ Search!Spec /\ Space!Spec /\ Trial!Spec
<1>1. MarketInit => /\ LayersInit /\ Data!Init /\ Loop!Init
                    /\ Sched!Init /\ Search!Init /\ Space!Init /\ Trial!Init
  BY DEF MarketInit
<1>2. [MarketNext]_marketVars =>
        /\ [LayersNext]_layerVars /\ [Data!Next]_(Data!vars)
        /\ [Loop!Next]_(Loop!vars) /\ [Sched!Next]_(Sched!schedulerVars)
        /\ [Search!Next]_(Search!searchVars) /\ [Space!Next]_(Space!spaceVars)
        /\ [Trial!Next]_(Trial!hpoVars)
  BY PartsKept
<1> QED BY <1>1, <1>2, PTL
      DEF MarketSpec, LayersSpec, Data!Spec, Loop!Spec, Sched!Spec, Search!Spec,
          Space!Spec, Trial!Spec

\* The environment does too, where a behaviour picks it.
LEMMA EnvBeside == MarketSpec => [](part = "env" => EnvInv)
<1>1. MarketInit => (part = "env" => EnvInv)
  BY FreshIs DEF MarketInit, Init
<1>2. (part = "env" => EnvInv) /\ [MarketNext]_marketVars => (part = "env" => EnvInv)'
  <2> SUFFICES ASSUME part = "env" => EnvInv, [MarketNext]_marketVars, part' = "env"
               PROVE  EnvInv'
    OBVIOUS
  <2>1. part = "env"
    BY DEF MarketNext, marketVars
  <2>2. [Next]_vars
    BY <2>1 DEF MarketNext, marketVars, actingVars
  <2> QED BY <2>1, <2>2, StepKeeps
<1> QED BY <1>1, <1>2, PTL DEF MarketSpec

\* What the data, a training and a study promise holds beside the others.
LEMMA MarketAll ==
  ASSUME MarketAssumption
  PROVE  MarketSpec =>
           [](/\ LayersTypeOK
              /\ Data!TypeOK /\ Data!PanelSound
              /\ Loop!TypeOK /\ Loop!EarlyStopJustified
              /\ Sched!TypeOK /\ Sched!DecisionsSound
              /\ Search!TypeOK /\ Search!SearchersSound
              /\ Space!TypeOK /\ Space!SpaceSound
              /\ Trial!TypeOK /\ Trial!TrialHonest)
<1>1. LayersSpec => []LayersTypeOK
  BY LayersTypeCorrect DEF MarketAssumption
<1>2. Data!Spec => [](Data!TypeOK /\ Data!PanelSound)
  BY PanelStaysSound DEF MarketAssumption
<1>3. Loop!Spec => [](Loop!TypeOK /\ Loop!EarlyStopJustified)
  BY EarlyStopAlwaysJustified DEF MarketAssumption
<1>4. Sched!Spec => [](Sched!TypeOK /\ Sched!DecisionsSound)
  BY SchedulersAlwaysJustified DEF MarketAssumption
<1>5. Search!Spec => [](Search!TypeOK /\ Search!SearchersSound)
  BY SearchersStaySound DEF MarketAssumption
<1>6. Space!Spec => [](Space!TypeOK /\ Space!SpaceSound)
  BY SpacesStaySound DEF MarketAssumption
<1>7. Trial!Spec => [](Trial!TypeOK /\ Trial!TrialHonest)
  BY TrialsStayHonest DEF MarketAssumption
<1> QED BY <1>1, <1>2, <1>3, <1>4, <1>5, <1>6, <1>7, PartsGo, PTL

\* Whatever happens in the market and to those who learn and act on it, every
\* part keeps its types.
THEOREM MarketTypeCorrect ==
  ASSUME MarketAssumption
  PROVE  MarketSpec => []MarketTypes
<1>1. (/\ part = "env" => EnvInv
       /\ LayersTypeOK /\ Data!TypeOK /\ Loop!TypeOK
       /\ Sched!TypeOK /\ Search!TypeOK /\ Space!TypeOK /\ Trial!TypeOK) => MarketTypes
  BY Zenon DEF MarketTypes, EnvInv
<1> QED BY <1>1, EnvBeside, MarketAll, PTL

\* Whatever is edited, and in whatever order data is recorded, loaded and framed
\* (environments/panel.py): a panel shows what was known, values everything from
\* its first common session on, and so does every part of it.
THEOREM PanelAlwaysSound ==
  ASSUME MarketAssumption
  PROVE  MarketSpec => []PanelSound
<1>1. Data!PanelSound => PanelSound
  BY DEF PanelSound
<1> QED BY <1>1, MarketAll, PTL

\* No step loads a panel of files or rates that are not those of the manifest, or
\* that have a quality finding, at that moment (panel.py:82-85).
THEOREM LoadedAlwaysVerified == MarketSpec => PanelVerified
<1>1. Data!PanelVerified => PanelVerified
  BY DEF PanelVerified
<1> QED BY <1>1, PanelAlwaysVerified, PartsGo, PTL

\* The same of whatever space beside the rest of a study: draws and the grid come
\* back from their coordinates, and over numbers whose step divides a linear range
\* the grid has every valid candidate (tuning/models.py).
THEOREM SpacesAlwaysSound ==
  ASSUME MarketAssumption
  PROVE  MarketSpec => []SpacesSound
<1>1. Space!SpaceSound => SpacesSound
  BY DEF SpacesSound
<1> QED BY <1>1, MarketAll, PTL

\* In whatever order reports come and however often a scheduler is restored
\* (tuning/schedulers/algorithms.py), and whatever scores a training has
\* (rl/callbacks/core.py:201): who is stopped early, or copies another, is so
\* with good reason; searchers keep their best, the locked trial is on the front
\* (tuning/searchers/algorithms.py, tuning/objectives.py), and a score is of the
\* model and window it names (tuning/rl_objective.py).
THEOREM DecisionsAlwaysSound ==
  ASSUME MarketAssumption
  PROVE  MarketSpec => []DecisionsSound
<1>1. (/\ Sched!DecisionsSound /\ Loop!EarlyStopJustified
       /\ Search!SearchersSound /\ Trial!TrialHonest) => DecisionsSound
  BY Zenon DEF DecisionsSound
<1> QED BY <1>1, MarketAll, PTL
=============================================================================
