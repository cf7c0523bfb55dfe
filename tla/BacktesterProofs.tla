--------------------------- MODULE BacktesterProofs ---------------------------
(***************************************************************************)
(* The backtester, whatever the market, the strategy and the settings of    *)
(* the run: no decision looks ahead; the types; cash and holdings are       *)
(* covered; the drawdown is that of the curve; the trades explain the books *)
(* and the reviewed weights keep their limits.                              *)
(***************************************************************************)
EXTENDS Backtester, SumTheorems

-----------------------------------------------------------------------------
(* The days of a market in order.                                          *)

\* Any set of days has a last one, and is finite.
LEMMA LastOfDays ==
    ASSUME NEW S \in SUBSET Days, S # {}
    PROVE  Max(S) \in S /\ \A d \in S : d <= Max(S)
<1> DEFINE From == {x \in Nat : \E d \in S : x = LastDay - d}
<1>1. LastDay \in Nat /\ S \subseteq 1 .. LastDay
  BY MarketAssumption DEF Days
<1>2. From \subseteq Nat /\ From # {}
  <2>1. PICK d \in S : d \in 1 .. LastDay
    BY <1>1
  <2>2. LastDay - d \in Nat
    BY <1>1, <2>1
  <2> QED
    BY <2>2
<1>3. PICK x \in From : \A y \in From : ~ <<y, x>> \in OpToRel(<, Nat)
  BY <1>2, NatLessThanWellFounded, WFMin
<1>4. \A y \in From : ~ y < x
  BY <1>2, <1>3 DEF OpToRel
<1>5. PICK d \in S : x = LastDay - d
  OBVIOUS
<1>6. \A e \in S : LastDay - e \in From /\ d >= e
  <2> SUFFICES ASSUME NEW e \in S PROVE LastDay - e \in From /\ d >= e
    OBVIOUS
  <2>1. LastDay - e \in Nat
    BY <1>1
  <2>2. ~ LastDay - e < x
    BY <1>4, <2>1
  <2> QED
    BY <1>1, <1>5, <2>1, <2>2
<1>7. \E c \in S : \A e \in S : c >= e
  BY <1>6
<1>8. Max(S) \in S /\ \A e \in S : Max(S) >= e
  BY <1>7 DEF Max
<1> QED
  BY <1>1, <1>8

LEMMA DaysAreFinite ==
    ASSUME NEW S \in SUBSET Days
    PROVE  IsFiniteSet(S) /\ Cardinality(S) \in Nat
<1>1. IsFiniteSet(Days)
  BY MarketAssumption, FS_Interval DEF Days
<1> QED
  BY <1>1, FS_Subset, FS_CardinalityType

\* InOrder lists days of the set it is given: counting down from the last day,
\* there is one for every number.
LEMMA EveryIndexHasItsDay ==
    ASSUME NEW S \in SUBSET Days, NEW i \in 1 .. Cardinality(S)
    PROVE  InOrder(S)[i] \in S
<1> DEFINE Found(k) == \E d \in S : Cardinality(Until(S, d)) = k
           n == Cardinality(S)
           Lost == {k \in 1 .. n : ~ Found(k)}
           From == {x \in Nat : \E k \in Lost : x = n - k}
<1>1. n \in Nat
  BY DaysAreFinite
<1>2. Lost = {}
  <2> SUFFICES ASSUME Lost # {} PROVE FALSE
    OBVIOUS
  <2>1. From \subseteq Nat /\ From # {}
    <3>1. PICK k \in Lost : k \in 1 .. n
      OBVIOUS
    <3>2. n - k \in Nat
      BY <1>1, <3>1
    <3> QED
      BY <3>2
  <2>2. PICK x \in From : \A y \in From : ~ <<y, x>> \in OpToRel(<, Nat)
    BY <2>1, NatLessThanWellFounded, WFMin
  <2>3. \A y \in From : ~ y < x
    BY <2>1, <2>2 DEF OpToRel
  <2>4. PICK k \in Lost : x = n - k
    OBVIOUS
  <2>5. k \in 1 .. n /\ ~ Found(k) /\ \A l \in Lost : l <= k
    <3> SUFFICES ASSUME NEW l \in Lost PROVE l <= k
      OBVIOUS
    <3>1. n - l \in Nat /\ l \in 1 .. n
      BY <1>1
    <3>2. ~ n - l < x
      BY <2>3, <3>1
    <3> QED
      BY <1>1, <2>4, <3>1, <3>2
  <2>6. S # {}
    BY <1>1, <2>5, FS_EmptySet
  <2>7. Max(S) \in S /\ Until(S, Max(S)) = S
    BY <2>6, LastOfDays DEF Until
  <2>8. Found(n)
    BY <2>7
  <2>9. k + 1 \in 1 .. n /\ k + 1 \notin Lost
    BY <1>1, <2>5, <2>8
  <2>10. PICK d \in S : Cardinality(Until(S, d)) = k + 1
    BY <2>9
  <2> DEFINE T == Until(S, d) \ {d}
  <2>11. S \subseteq Nat
    BY MarketAssumption DEF Days
  <2>12. d \in Until(S, d) /\ Until(S, d) \in SUBSET Days /\ T \in SUBSET Days
    <3>1. d <= d
      BY <2>11
    <3>2. Until(S, d) \subseteq S
      BY DEF Until
    <3> QED
      BY <3>1, <3>2 DEF Until
  <2>13. IsFiniteSet(Until(S, d))
    BY <2>12, DaysAreFinite
  <2>14. Cardinality(T) = Cardinality(Until(S, d)) - 1
    BY <2>12, <2>13, FS_RemoveElement
  <2>15. Cardinality(T) = k
    BY <1>1, <2>5, <2>10, <2>14
  <2>16. T # {}
    BY <2>5, <2>15, FS_EmptySet
  <2>17. Max(T) \in T /\ \A e \in T : e <= Max(T)
    BY <2>12, <2>16, LastOfDays
  <2>18. \A e \in S : e <= Max(T) <=> e \in T
    <3>1. Max(T) \in Nat /\ Max(T) <= d /\ Max(T) # d /\ d \in Nat
      BY <2>11, <2>17 DEF Until
    <3>2. \A e \in S : e \in Nat
      BY <2>11
    <3> QED
      BY <2>17, <3>1, <3>2 DEF Until
  <2>19. Until(S, Max(T)) = T
    BY <2>18 DEF Until
  <2>20. Found(k)
    BY <2>15, <2>17, <2>19 DEF Until
  <2> QED
    BY <2>5, <2>20
<1>3. Found(i)
  BY <1>2
<1> QED
  BY <1>3 DEF InOrder

-----------------------------------------------------------------------------
(* What is computed from the past is computed from the market up to then.   *)

LEMMA SameDays ==
    ASSUME NEW m, NEW day, NEW s \in Symbols
    PROVE  /\ Until(BarDays(Upto(m, day), s), day) = Until(BarDays(m, s), day)
           /\ \A d \in Until(BarDays(m, s), day) : Upto(m, day)[s][d] = m[s][d]
BY DEF Until, BarDays, Upto

LEMMA SamePrices ==
    ASSUME NEW m, NEW day
    PROVE  price_map(Upto(m, day), day) = price_map(m, day)
<1> DEFINE Known(s) == Until(BarDays(m, s), day)
           Blind(s) == Until(BarDays(Upto(m, day), s), day)
<1>1. \A s \in Symbols : Blind(s) = Known(s)
  BY SameDays
<1>2. ASSUME NEW s \in Symbols, Known(s) # {}
      PROVE  Upto(m, day)[s][Max(Known(s))] = m[s][Max(Known(s))]
  <2>1. Known(s) \in SUBSET Days
    BY DEF Until, BarDays
  <2>2. Max(Known(s)) \in Known(s)
    BY <1>2, <2>1, LastOfDays
  <2> QED
    BY <2>2, SameDays
<1>3. {t \in Symbols : Blind(t) # {}} = {t \in Symbols : Known(t) # {}}
  BY <1>1
<1>4. \A s \in {t \in Symbols : Known(t) # {}} :
        Upto(m, day)[s][Max(Blind(s))].close = m[s][Max(Known(s))].close
  BY <1>1, <1>2
<1> QED
  BY <1>3, <1>4 DEF price_map

LEMMA SameCloses ==
    ASSUME NEW m, NEW day, NEW s \in Symbols
    PROVE  closes(Upto(m, day), s, day) = closes(m, s, day)
<1> DEFINE known == Until(BarDays(m, s), day)
           days == InOrder(known)
<1>1. known \in SUBSET Days
  BY DEF Until, BarDays
<1>2. DOMAIN days = 1 .. Cardinality(known)
  BY DEF InOrder
<1>3. \A i \in DOMAIN days : days[i] \in known
  BY <1>1, <1>2, EveryIndexHasItsDay
<1>4. \A i \in DOMAIN days : Upto(m, day)[s][days[i]].close = m[s][days[i]].close
  BY <1>3, SameDays
<1>5. Until(BarDays(Upto(m, day), s), day) = known
  BY SameDays
<1> HIDE DEF days
<1>6. closes(m, s, day) = [i \in DOMAIN days |-> m[s][days[i]].close]
  BY DEF closes, days
<1>7. closes(Upto(m, day), s, day) = [i \in DOMAIN days |-> Upto(m, day)[s][days[i]].close]
  BY <1>5 DEF closes, days
<1> QED
  BY <1>4, <1>6, <1>7

LEMMA SameTargets ==
    ASSUME NEW m, NEW day
    PROVE  TargetsOf(Upto(m, day), day) = TargetsOf(m, day)
<1>1. [s \in Symbols |-> closes(Upto(m, day), s, day)] = [s \in Symbols |-> closes(m, s, day)]
  BY SameCloses
<1> QED
  BY <1>1 DEF TargetsOf, generate_targets

\* The positions of a portfolio are all that a decision needs of the holdings.
LEMMA SameDecision ==
    ASSUME NEW m, NEW day, NEW money, NEW held
    PROVE  LET made == Decision(m, day, money, held)
           IN  made = Decision(Upto(m, day), day, made.portfolio.cash,
                               [s \in Symbols |-> Get(made.portfolio.positions, s)])
<1> DEFINE prices == price_map(m, day)
           pf == portfolio_state(money, held, prices)
           seen == [s \in Symbols |-> Get(pf.positions, s)]
<1>1. DOMAIN prices \subseteq Symbols
  BY DEF price_map
<1> HIDE DEF prices
<1>2. pf.cash = money /\ pf.positions = [s \in {t \in DOMAIN prices : held[t] # 0} |-> held[s]]
  BY DEF portfolio_state
<1>3. \A s \in DOMAIN prices : seen[s] = held[s]
  BY <1>1, <1>2 DEF Get
<1> HIDE DEF seen
<1>4. [s \in {t \in DOMAIN prices : seen[t] # 0} |-> seen[s]]
        = [s \in {t \in DOMAIN prices : held[t] # 0} |-> held[s]]
  <2>1. {t \in DOMAIN prices : seen[t] # 0} = {t \in DOMAIN prices : held[t] # 0}
    BY <1>3
  <2> QED
    BY <1>3, <2>1
<1>5. portfolio_state(money, seen, prices) = pf
  BY <1>4 DEF portfolio_state
<1>6. Decision(Upto(m, day), day, money, seen) = Decision(m, day, money, held)
  BY <1>5, SamePrices, SameTargets DEF Decision, prices
<1>7. Decision(m, day, money, held).portfolio = pf
  BY DEF Decision, prices
<1> QED
  BY <1>2, <1>6, <1>7 DEF seen

-----------------------------------------------------------------------------
(* The run.                                                                *)

LEMMA DecideLooksBehind ==
    ASSUME Decide PROVE NoLookAhead'
<1> DEFINE day == timeline[index]
           made == Decision(market, day, cash, quantities)
           past == Upto(market, day)
           seen == [s \in Symbols |-> Get(made.portfolio.positions, s)]
           blind == Decision(past, day, made.portfolio.cash, seen)
<1>1. portfolio' = made.portfolio /\ targets' = made.targets
  BY DEF Decide
<1>2. inputs' = inputs /\ index' = index
  BY DEF Decide
<1>3. phase' = "trade" =>
        intents' = diff_to_intents(made.approved, made.portfolio, settings.intent)
  BY DEF Decide
<1>4. market' = market /\ strategy' = strategy /\ settings' = settings
  BY <1>2 DEF inputs
<1>5. timeline'[index'] = day
  BY <1>2, <1>4 DEF timeline
<1>6. made = blind
  BY SameDecision
<1>7. /\ blind.portfolio = portfolio_state(made.portfolio.cash, seen, price_map(past, day))
      /\ blind.targets = TargetsOf(past, day)
      /\ blind.approved = review(TargetsOf(past, day), blind.portfolio, settings.risk)
  BY DEF Decision
<1> HIDE DEF made, blind, day
<1> DEFINE pf == portfolio_state(portfolio.cash, [s \in Symbols |-> Get(portfolio.positions, s)],
                                 price_map(Upto(market, timeline[index]), timeline[index]))
           asked == TargetsOf(Upto(market, timeline[index]), timeline[index])
<1>8. portfolio' = pf'
  BY <1>1, <1>4, <1>5, <1>6, <1>7
<1>9. targets' = asked'
  BY <1>1, <1>4, <1>5, <1>6, <1>7 DEF TargetsOf
<1>10. phase' = "trade" =>
        intents' = diff_to_intents(review(asked', pf', settings'.risk), pf', settings'.intent)
  BY <1>1, <1>3, <1>4, <1>6, <1>7, <1>8, <1>9
<1> QED
  BY <1>8, <1>9, <1>10 DEF NoLookAhead, Decision

LEMMA KeepsDecision ==
    ASSUME UNCHANGED <<inputs, index, decision, phase>>, NoLookAhead
    PROVE  NoLookAhead'
BY DEF NoLookAhead, inputs, decision, timeline, Decision, TargetsOf

\* In every state in which intents of a day are executed, the portfolio, the targets
\* and the intents are those of a market that ends that day: whatever the bars,
\* the strategy, the costs and the limits.  (run, _price_map, generate_targets.)
THEOREM NothingAhead == Spec => []NoLookAhead
<1>1. Init => NoLookAhead
  BY DEF Init, NoLookAhead
<1>2. NoLookAhead /\ [Next]_vars => NoLookAhead'
  <2> SUFFICES ASSUME NoLookAhead, [Next]_vars PROVE NoLookAhead'
    OBVIOUS
  <2>1. CASE Decide
    BY <2>1, DecideLooksBehind
  <2>2. CASE RefusePosition
    BY <2>2 DEF RefusePosition, NoLookAhead
  <2>3. CASE Execute
    BY <2>3, KeepsDecision DEF Execute
  <2>4. CASE CloseDay
    BY <2>4 DEF CloseDay, NoLookAhead
  <2>5. CASE Finish
    BY <2>5 DEF Finish, NoLookAhead
  <2>6. CASE UNCHANGED vars
    BY <2>6, KeepsDecision DEF vars
  <2> QED
    BY <2>1, <2>2, <2>3, <2>4, <2>5, <2>6 DEF Next
<1> QED
  BY <1>1, <1>2, PTL DEF Spec

-----------------------------------------------------------------------------
(* Rounding.                                                               *)

LEMMA DivBounds ==
    ASSUME NEW x \in Int, NEW m \in Nat \ {0}
    PROVE  x \div m \in Int /\ m * (x \div m) <= x /\ x < m * (x \div m) + m
OBVIOUS

\* Half-up rounding of a quotient: half a unit off at most, and towards the sign of
\* the number.
LEMMA HalfUpNear ==
    ASSUME NEW a \in Int, NEW b \in Nat \ {0}
    PROVE  /\ HalfUp(a, b) \in Int /\ b * HalfUp(a, b) \in Int
           /\ 2 * (b * HalfUp(a, b)) <= 2 * a + b
           /\ 2 * a <= 2 * (b * HalfUp(a, b)) + b
           /\ a >= 0 => HalfUp(a, b) >= 0
           /\ a <= 0 => HalfUp(a, b) <= 0
<1> DEFINE q == (2 * Magnitude(a) + Magnitude(b)) \div (2 * Magnitude(b))
           h == HalfUp(a, b)
           p == b * q
<1>1. Magnitude(b) = b /\ Magnitude(a) \in Nat
  BY DEF Magnitude
<1>2. q \in Int /\ (2 * b) * q <= 2 * Magnitude(a) + b /\ 2 * Magnitude(a) + b < (2 * b) * q + 2 * b
  <2> DEFINE x == 2 * Magnitude(a) + Magnitude(b)
             m == 2 * Magnitude(b)
  <2>1. x \in Int /\ m \in Nat \ {0} /\ m = 2 * b /\ x = 2 * Magnitude(a) + b
    BY <1>1
  <2>2. q = x \div m
    OBVIOUS
  <2> HIDE DEF x, m, q
  <2>3. x \div m \in Int /\ m * (x \div m) <= x /\ x < m * (x \div m) + m
    BY <2>1, DivBounds
  <2> QED
    BY <2>1, <2>2, <2>3
<1>3. h = IF a < 0 THEN -q ELSE q
  BY DEF HalfUp
<1> HIDE DEF q, h
<1>4. q >= 0
  <2> SUFFICES ASSUME q < 0 PROVE FALSE
    BY <1>2
  <2>1. (2 * b) * q <= (2 * b) * (-1)
    BY <1>2
  <2> QED
    BY <1>1, <1>2, <2>1
<1>5. p \in Int /\ (2 * b) * q = 2 * p /\ b * (-q) = -p
  BY <1>2
<1> HIDE DEF p
<1>6. 2 * p <= 2 * Magnitude(a) + b /\ 2 * Magnitude(a) <= 2 * p + b
  BY <1>1, <1>2, <1>5
<1>7. CASE a < 0
  <2>1. h = -q /\ b * h = -p /\ Magnitude(a) = -a
    BY <1>3, <1>5, <1>7 DEF Magnitude
  <2> QED
    BY <1>2, <1>4, <1>5, <1>6, <1>7, <2>1 DEF h
<1>8. CASE a >= 0
  <2>1. h = q /\ b * h = p /\ Magnitude(a) = a
    BY <1>3, <1>8 DEF Magnitude, p
  <2> QED
    BY <1>2, <1>4, <1>5, <1>6, <1>8, <2>1 DEF h
<1> QED
  BY <1>7, <1>8

LEMMA HalfUpType ==
    ASSUME NEW a \in Int, NEW b \in Int, b # 0
    PROVE  HalfUp(a, b) \in Int
<1> DEFINE q == (2 * Magnitude(a) + Magnitude(b)) \div (2 * Magnitude(b))
<1>1. Magnitude(b) \in Nat \ {0} /\ Magnitude(a) \in Nat
  BY DEF Magnitude
<1>2. q \in Int
  BY <1>1, DivBounds
<1> QED
  BY <1>2 DEF HalfUp

\* What lies between two whole numbers is rounded to one between them.
LEMMA HalfUpBetween ==
    ASSUME NEW a \in Int, NEW b \in Nat \ {0}, NEW l \in Int, NEW u \in Int,
           b * l <= a, a <= b * u
    PROVE  l <= HalfUp(a, b) /\ HalfUp(a, b) <= u
<1> DEFINE h == HalfUp(a, b)
<1>1. h \in Int /\ b * h \in Int /\ 2 * (b * h) <= 2 * a + b /\ 2 * a <= 2 * (b * h) + b
  BY HalfUpNear
<1> HIDE DEF h
<1>2. b * l \in Int /\ b * u \in Int
  OBVIOUS
<1>3. ~ h < l
  <2> SUFFICES ASSUME h < l PROVE FALSE
    OBVIOUS
  <2>1. b * (h + 1) <= b * l /\ b * (h + 1) = b * h + b
    BY <1>1
  <2> QED
    BY <1>1, <1>2, <2>1
<1>4. ~ u < h
  <2> SUFFICES ASSUME u < h PROVE FALSE
    OBVIOUS
  <2>1. b * (u + 1) <= b * h /\ b * (u + 1) = b * u + b
    BY <1>1
  <2> QED
    BY <1>1, <1>2, <2>1
<1> QED
  BY <1>1, <1>3, <1>4 DEF h

\* Rounding towards zero keeps the sign and never goes beyond.
LEMMA RoundDownNear ==
    ASSUME NEW a \in Int, NEW b \in Nat \ {0}
    PROVE  /\ RoundDown(a, b) \in Int
           /\ a >= 0 => RoundDown(a, b) >= 0 /\ b * RoundDown(a, b) <= a
           /\ -b < a /\ a <= 0 => RoundDown(a, b) = 0
<1>1. CASE a >= 0
  <2> DEFINE q == a \div b
  <2>1. q \in Int /\ b * q <= a /\ a < b * q + b
    BY DivBounds
  <2>2. RoundDown(a, b) = q
    BY <1>1 DEF RoundDown
  <2> HIDE DEF q
  <2>3. q >= 0
    <3> SUFFICES ASSUME q < 0 PROVE FALSE
      BY <2>1
    <3>1. b * q <= b * (-1)
      BY <2>1
    <3> QED
      BY <1>1, <2>1, <3>1
  <2>4. a = 0 => q = 0
    <3> SUFFICES ASSUME a = 0, q > 0 PROVE FALSE
      BY <2>1, <2>3
    <3>1. b * q >= b
      BY <2>1
    <3> QED
      BY <2>1, <3>1
  <2> QED
    BY <1>1, <2>1, <2>2, <2>3, <2>4
<1>2. CASE a < 0
  <2> DEFINE q == (-a) \div b
  <2>1. q \in Int /\ b * q <= -a /\ -a < b * q + b
    BY <1>2, DivBounds
  <2>2. RoundDown(a, b) = -q
    BY <1>2 DEF RoundDown
  <2> HIDE DEF q
  <2>3. -b < a => q = 0
    <3> SUFFICES ASSUME -b < a, q # 0 PROVE FALSE
      OBVIOUS
    <3>1. CASE q > 0
      <4>1. b * q >= b
        BY <2>1, <3>1
      <4> QED
        BY <1>2, <2>1, <4>1
    <3>2. CASE q < 0
      <4>1. b * q <= b * (-1)
        BY <2>1, <3>2
      <4> QED
        BY <1>2, <2>1, <4>1
    <3> QED
      BY <2>1, <3>1, <3>2
  <2> QED
    BY <1>2, <2>1, <2>2, <2>3
<1> QED
  BY <1>1, <1>2

-----------------------------------------------------------------------------
(* What the pure parts return.                                             *)

LEMMA SymbolsAreFinite == IsFiniteSet(Symbols)
<1> DEFINE S == 1 .. Len(SymbolOrder)
<1>1. SymbolOrder \in Seq(Symbols) /\ DOMAIN SymbolOrder = S
  BY SymbolOrderAssumption
<1>2. SymbolOrder \in [S -> Symbols] /\ \A s \in Symbols : \E i \in S : SymbolOrder[i] = s
  BY <1>1, SymbolOrderAssumption
<1>3. SymbolOrder \in Surjection(S, Symbols)
  BY <1>2 DEF Surjection
<1>4. IsFiniteSet(S)
  BY <1>1, FS_Interval
<1> QED
  BY <1>3, <1>4, FS_Surjection

LEMMA DictionariesAreFinite ==
    ASSUME NEW S \in SUBSET Symbols PROVE IsFiniteSet(S) /\ Cardinality(S) \in Nat
BY SymbolsAreFinite, FS_Subset, FS_CardinalityType

LEMMA DictionarySum ==
    ASSUME NEW S \in SUBSET Symbols, NEW f, DOMAIN f = S, \A s \in S : f[s] \in Int
    PROVE  SumFunction(f) \in Int
BY DictionariesAreFinite, SumType DEF SumFunction

LEMMA PricesType ==
    ASSUME NEW m \in Market, NEW day
    PROVE  IsDictionary(price_map(m, day), Nat \ {0})
<1> DEFINE Known(s) == Until(BarDays(m, s), day)
<1>1. ASSUME NEW s \in Symbols, Known(s) # {}
      PROVE  m[s][Max(Known(s))].close \in Nat \ {0}
  <2>1. Known(s) \in SUBSET Days /\ Known(s) \subseteq BarDays(m, s)
    BY DEF Until, BarDays
  <2>2. Max(Known(s)) \in Known(s)
    BY <1>1, <2>1, LastOfDays
  <2>3. Max(Known(s)) \in Days /\ m[s][Max(Known(s))] # NoBar
    BY <2>1, <2>2 DEF BarDays
  <2>4. m[s] \in [Days -> Bar \cup {NoBar}]
    BY DEF Market
  <2> HIDE DEF Known
  <2>5. m[s][Max(Known(s))] \in Bar
    BY <2>3, <2>4
  <2> QED
    BY <2>5 DEF Bar
<1> QED
  BY <1>1 DEF IsDictionary, price_map

LEMMA ValueType ==
    ASSUME NEW money \in Int, NEW held, NEW prices, DOMAIN held \subseteq Symbols,
           \A s \in DOMAIN held : held[s] \in Int /\ prices[s] \in Int
    PROVE  Value(money, held, prices) \in Int
<1> DEFINE worth == [s \in DOMAIN held |-> held[s] * prices[s]]
<1>1. DOMAIN worth = DOMAIN held /\ \A s \in DOMAIN held : worth[s] \in Int
  OBVIOUS
<1> HIDE DEF worth
<1>2. SumFunction(worth) \in Int
  BY <1>1, DictionarySum
<1>3. money * Scale + SumFunction(worth) \in Int
  BY <1>2, ScaleAssumption
<1> QED
  BY <1>3, ScaleAssumption, HalfUpType DEF Value, worth

LEMMA PortfolioType ==
    ASSUME NEW money \in Int, NEW held \in [Symbols -> Int], NEW prices,
           IsDictionary(prices, Nat \ {0})
    PROVE  IsPortfolio(portfolio_state(money, held, prices))
<1> DEFINE positions == [s \in {t \in DOMAIN prices : held[t] # 0} |-> held[s]]
           worth == Value(money, positions, prices)
<1>1. /\ DOMAIN positions \subseteq Symbols /\ DOMAIN positions \subseteq DOMAIN prices
      /\ \A s \in DOMAIN positions : positions[s] \in Int \ {0} /\ prices[s] \in Int
  BY DEF IsDictionary
<1>2. worth \in Int
  <2> HIDE DEF positions
  <2> QED
    BY <1>1, ValueType
<1>3. portfolio_state(money, held, prices)
        = [cash |-> money, nav |-> Larger(worth, 1), positions |-> positions,
           market_prices |-> prices]
  BY DEF portfolio_state
<1> HIDE DEF positions, worth
<1>4. Larger(worth, 1) \in Nat \ {0}
  BY <1>2 DEF Larger
<1> QED
  BY <1>1, <1>3, <1>4 DEF IsPortfolio, IsDictionary

LEMMA WeightsType ==
    ASSUME NEW pf, IsPortfolio(pf)
    PROVE  IsDictionary(current_weights(pf), Int) /\ DOMAIN current_weights(pf) = DOMAIN pf.positions
<1>1. ASSUME NEW s \in DOMAIN pf.positions
      PROVE  HalfUp(pf.positions[s] * pf.market_prices[s], pf.nav) \in Int
  <2>1. pf.positions[s] \in Int /\ pf.market_prices[s] \in Int /\ pf.nav \in Nat \ {0}
    BY DEF IsPortfolio, IsDictionary
  <2>2. pf.positions[s] * pf.market_prices[s] \in Int
    BY <2>1
  <2> QED
    BY <2>1, <2>2, HalfUpType
<1> QED
  BY <1>1 DEF IsPortfolio, IsDictionary, current_weights

LEMMA GetType ==
    ASSUME NEW f, IsDictionary(f, Int), NEW s PROVE Get(f, s) \in Int
BY DEF IsDictionary, Get

LEMMA GrossType ==
    ASSUME NEW f, IsDictionary(f, Int) PROVE Gross(f) \in Int
<1> DEFINE g == [s \in DOMAIN f |-> Magnitude(f[s])]
<1>1. DOMAIN g = DOMAIN f /\ DOMAIN f \in SUBSET Symbols /\ \A s \in DOMAIN f : g[s] \in Int
  BY DEF IsDictionary, Magnitude
<1> HIDE DEF g
<1>2. SumFunction(g) \in Int
  BY <1>1, DictionarySum
<1> QED
  BY <1>2 DEF Gross, g

LEMMA BetweenType ==
    ASSUME NEW f, IsDictionary(f, Int), NEW g, IsDictionary(g, Int) PROVE Between(f, g) \in Int
<1> DEFINE S == (DOMAIN f) \cup (DOMAIN g)
           d == [s \in S |-> Magnitude(Get(f, s) - Get(g, s))]
<1>1. \A s \in S : Get(f, s) \in Int /\ Get(g, s) \in Int
  BY GetType
<1>2. DOMAIN d = S /\ S \in SUBSET Symbols /\ \A s \in S : d[s] \in Int
  BY <1>1 DEF IsDictionary, Magnitude
<1> HIDE DEF d
<1>3. SumFunction(d) \in Int
  BY <1>2, DictionarySum
<1> QED
  BY <1>3 DEF Between, d

LEMMA WithoutZerosType ==
    ASSUME NEW f, IsDictionary(f, Int)
    PROVE  IsDictionary(WithoutZeros(f), Int) /\ DOMAIN WithoutZeros(f) \subseteq DOMAIN f
BY DEF IsDictionary, WithoutZeros

LEMMA ClippedType ==
    ASSUME NEW targets0, IsDictionary(targets0, Int), NEW current, IsDictionary(current, Int),
           NEW policy \in RiskPolicy
    PROVE  IsDictionary(Clipped(targets0, current, policy), Int)
<1> DEFINE m == policy.max_single_name_weight
           cap == Scale - policy.min_cash_buffer
           one == clip_single_name_limits(targets0, m)
           two == clip_cash_buffer(one, cap)
           three == clip_turnover(two, current, policy.max_turnover)
<1>1. m \in Nat \ {0} /\ cap \in Nat /\ policy.max_turnover \in Nat \ {0}
  BY ScaleAssumption DEF RiskPolicy
<1>2. IsDictionary(one, Int)
  <2> DEFINE f == [s \in DOMAIN targets0 |-> Larger(-m, Smaller(m, targets0[s]))]
  <2>1. IsDictionary(f, Int)
    BY <1>1 DEF IsDictionary, Larger, Smaller
  <2> HIDE DEF f
  <2>2. IsDictionary(WithoutZeros(f), Int)
    BY <2>1, WithoutZerosType
  <2> QED
    BY <2>2 DEF clip_single_name_limits, f
<1> HIDE DEF one, m, cap
<1>3. IsDictionary(two, Int)
  <2> DEFINE f == [s \in DOMAIN one |-> HalfUp(one[s] * cap, Gross(one))]
  <2>1. Gross(one) \in Int
    BY <1>2, GrossType
  <2>2. CASE Gross(one) <= cap
    BY <1>2, <2>2 DEF clip_cash_buffer
  <2>3. CASE ~(Gross(one) <= cap)
    <3>1. Gross(one) # 0
      BY <1>1, <2>1, <2>3
    <3>2. ASSUME NEW s \in DOMAIN one PROVE HalfUp(one[s] * cap, Gross(one)) \in Int
      <4>1. one[s] * cap \in Int
        BY <1>1, <1>2 DEF IsDictionary
      <4> QED
        BY <2>1, <3>1, <4>1, HalfUpType
    <3>3. IsDictionary(f, Int)
      BY <1>2, <3>2 DEF IsDictionary
    <3> HIDE DEF f
    <3>4. IsDictionary(WithoutZeros(f), Int)
      BY <3>3, WithoutZerosType
    <3> QED
      BY <2>3, <3>4 DEF clip_cash_buffer, f
  <2> QED
    BY <2>2, <2>3
<1> HIDE DEF two
<1>4. IsDictionary(three, Int)
  <2> DEFINE T == Between(two, current)
             M == policy.max_turnover
             f == [s \in (DOMAIN current) \cup (DOMAIN two) |->
                     HalfUp(Get(current, s) * T + (Get(two, s) - Get(current, s)) * M, T)]
  <2>1. T \in Int
    BY <1>3, BetweenType
  <2>2. CASE T <= M
    BY <1>3, <2>2 DEF clip_turnover
  <2>3. CASE ~(T <= M)
    <3>1. T # 0
      BY <1>1, <2>1, <2>3
    <3> HIDE DEF T, M
    <3>2. ASSUME NEW s \in (DOMAIN current) \cup (DOMAIN two)
          PROVE  HalfUp(Get(current, s) * T + (Get(two, s) - Get(current, s)) * M, T) \in Int
      <4>1. Get(current, s) \in Int /\ Get(two, s) \in Int
        BY <1>3, GetType
      <4>2. Get(current, s) * T + (Get(two, s) - Get(current, s)) * M \in Int
        BY <1>1, <2>1, <4>1 DEF M
      <4> QED
        BY <2>1, <3>1, <4>2, HalfUpType
    <3>3. IsDictionary(f, Int)
      BY <1>3, <3>2 DEF IsDictionary
    <3> HIDE DEF f
    <3>4. IsDictionary(WithoutZeros(f), Int)
      BY <3>3, WithoutZerosType
    <3> QED
      BY <2>3, <3>4 DEF clip_turnover, f, T, M
  <2> QED
    BY <2>2, <2>3
<1> QED
  BY <1>4 DEF Clipped, three, two, one, m, cap

LEMMA ReviewType ==
    ASSUME NEW asked, IsDictionary(asked, Int), NEW pf, IsPortfolio(pf), NEW policy \in RiskPolicy
    PROVE  IsDictionary(review(asked, pf, policy), Int)
<1>1. IsDictionary(current_weights(pf), Int)
  BY WeightsType
<1>2. IsDictionary(Clipped(asked, current_weights(pf), policy), Int)
  BY <1>1, ClippedType
<1>3. IsDictionary(WithoutZeros(current_weights(pf)), Int)
  BY <1>1, WithoutZerosType
<1> QED
  BY <1>2, <1>3 DEF review

-----------------------------------------------------------------------------
(* The intents of a day.                                                   *)

LEMMA IntentQuantityType ==
    ASSUME NEW delta \in Int, NEW s, NEW pf, IsPortfolio(pf), NEW policy \in IntentPolicy
    PROVE  IntentQuantity(delta, s, pf, policy) \in Int
<1> DEFINE lot == policy.lot_size
           price == pf.market_prices[s]
           wanted == RoundDown(Magnitude(delta) * pf.nav, price * lot) * lot
           held == round_down_to_lot(Get(pf.positions, s), lot)
<1>1. lot \in Nat \ {0}
  BY DEF IntentPolicy
<1>2. CASE s \notin DOMAIN pf.market_prices
  BY <1>2 DEF IntentQuantity
<1>3. CASE s \in DOMAIN pf.market_prices
  <2>1. price \in Nat \ {0} /\ pf.nav \in Nat \ {0} /\ Magnitude(delta) \in Nat
    BY <1>3 DEF IsPortfolio, IsDictionary, Magnitude
  <2>2. price * lot \in Nat \ {0} /\ Magnitude(delta) * pf.nav \in Int
    BY <1>1, <2>1
  <2>3. wanted \in Int
    BY <1>1, <2>2, RoundDownNear
  <2>4. Get(pf.positions, s) \in Int
    BY DEF IsPortfolio, IsDictionary, Get
  <2>5. held \in Int
    BY <1>1, <2>4, RoundDownNear DEF round_down_to_lot
  <2>6. IntentQuantity(delta, s, pf, policy) \in {0, wanted, Smaller(wanted, held)}
    BY DEF IntentQuantity
  <2> HIDE DEF wanted, held
  <2> QED
    BY <2>3, <2>5, <2>6 DEF Smaller
<1> QED
  BY <1>2, <1>3

\* The loop over the symbols: the intents of the first k of them.
Looped(g, Q, M, n) ==
    g = [k \in 0 .. n |->
            IF k = 0 THEN <<>>
            ELSE IF Q[SymbolOrder[k]] = 0 THEN g[k - 1]
            ELSE Append(g[k - 1], M[SymbolOrder[k]])]

LEMMA LoopExists ==
    ASSUME NEW Q, NEW M, NEW n \in Nat
    PROVE  \E g : Looped(g, Q, M, n)
<1> DEFINE Step(g, k) == IF k = 0 THEN <<>>
                         ELSE IF Q[SymbolOrder[k]] = 0 THEN g[k - 1]
                         ELSE Append(g[k - 1], M[SymbolOrder[k]])
           Has(i) == \E g : g = [k \in 0 .. i |-> Step(g, k)]
           P == {i \in Nat : Has(i)}
<1>1. Has(0)
  <2> DEFINE g == [k \in 0 .. 0 |-> <<>>]
  <2>1. g = [k \in 0 .. 0 |-> Step(g, k)]
    OBVIOUS
  <2> QED
    BY <2>1
<1>2. ASSUME NEW i \in Nat, Has(i) PROVE Has(i + 1)
  <2>1. PICK g : g = [k \in 0 .. i |-> Step(g, k)]
    BY <1>2
  <2> DEFINE h == [k \in 0 .. i + 1 |-> Step(g, k)]
  <2>2. \A k \in 0 .. i : h[k] = g[k]
    <3> HIDE DEF Step
    <3>1. \A k \in 0 .. i : g[k] = Step(g, k)
      BY <2>1
    <3>2. \A k \in 0 .. i : k \in 0 .. i + 1
      OBVIOUS
    <3>3. \A k \in 0 .. i + 1 : h[k] = Step(g, k)
      OBVIOUS
    <3> QED
      BY <3>1, <3>2, <3>3
  <2>3. \A k \in 0 .. i + 1 : k # 0 => k - 1 \in 0 .. i
    OBVIOUS
  <2>4. \A k \in 0 .. i + 1 : Step(g, k) = Step(h, k)
    BY <2>2, <2>3
  <2>5. h = [k \in 0 .. i + 1 |-> Step(h, k)]
    BY <2>4
  <2> QED
    BY <2>5
<1> HIDE DEF Has
<1>3. P \in SUBSET Nat /\ 0 \in P /\ \A i \in P : i + 1 \in P
  BY <1>1, <1>2
<1>4. P = Nat
  <2> HIDE DEF P
  <2> QED
    BY <1>3, NumberInduction
<1>5. Has(n)
  BY <1>4
<1> QED
  BY <1>5 DEF Has, Looped

\* A property of the intents of the first k symbols that every intent made keeps.
LEMMA LoopKeeps ==
    ASSUME NEW Q, NEW M, NEW n \in Nat, NEW g, Looped(g, Q, M, n), NEW V,
           n = Len(SymbolOrder), \A s \in Symbols : Q[s] # 0 => M[s] \in V
    PROVE  \A k \in 0 .. n : g[k] \in Seq(V)
<1> DEFINE P == {k \in Nat : k \in 0 .. n => g[k] \in Seq(V)}
<1>1. 0 \in P
  BY DEF Looped
<1>2. ASSUME NEW k \in P PROVE k + 1 \in P
  <2> SUFFICES ASSUME k + 1 \in 0 .. n PROVE g[k + 1] \in Seq(V)
    OBVIOUS
  <2>1. k \in 0 .. n /\ g[k] \in Seq(V) /\ k + 1 # 0 /\ (k + 1) - 1 = k
    OBVIOUS
  <2>2. SymbolOrder[k + 1] \in Symbols
    BY SymbolOrderAssumption
  <2>3. g[k + 1] = IF Q[SymbolOrder[k + 1]] = 0 THEN g[k]
                   ELSE Append(g[k], M[SymbolOrder[k + 1]])
    BY <2>1 DEF Looped
  <2> QED
    BY <2>1, <2>2, <2>3
<1>3. P = Nat
  <2>1. P \in SUBSET Nat
    OBVIOUS
  <2> HIDE DEF P
  <2> QED
    BY <1>1, <1>2, <2>1, NumberInduction
<1> QED
  BY <1>3

\* An intent as it is made, before OrderIntent accepts it.
Draft == [symbol : Symbols, side : {"BUY", "SELL"}, quantity : Int]

LEMMA IntentsType ==
    ASSUME NEW targets0, IsDictionary(targets0, Int), NEW pf, IsPortfolio(pf),
           NEW policy \in IntentPolicy
    PROVE  /\ diff_to_intents(targets0, pf, policy) \in Seq(Draft)
           /\ Built(diff_to_intents(targets0, pf, policy)) =>
                diff_to_intents(targets0, pf, policy) \in Seq(Intent)
<1> DEFINE current == current_weights(pf)
           Delta(s) == Get(targets0, s) - Get(current, s)
           Quantity(s) == IntentQuantity(Delta(s), s, pf, policy)
           Made(s) == [symbol |-> s, side |-> IF Delta(s) > 0 THEN "BUY" ELSE "SELL",
                       quantity |-> Quantity(s)]
           n == Len(SymbolOrder)
           Q == [s \in Symbols |-> Quantity(s)]
           M == [s \in Symbols |-> Made(s)]
           Loop(g) == g = [k \in 0 .. n |->
                        IF k = 0 THEN <<>>
                        ELSE IF Quantity(SymbolOrder[k]) = 0 THEN g[k - 1]
                        ELSE Append(g[k - 1], Made(SymbolOrder[k]))]
           made == CHOOSE g : Loop(g)
           intents0 == diff_to_intents(targets0, pf, policy)
<1>1. \A s \in Symbols : Quantity(s) \in Int
  <2> SUFFICES ASSUME NEW s \in Symbols PROVE Quantity(s) \in Int
    OBVIOUS
  <2>1. IsDictionary(current, Int)
    BY WeightsType
  <2>2. Delta(s) \in Int
    BY <2>1, GetType
  <2> QED
    BY <2>2, IntentQuantityType
<1>2. \A s \in Symbols : Made(s) \in Draft
  <2> HIDE DEF Delta, Quantity
  <2> QED
    BY <1>1 DEF Draft
<1>3. intents0 = made[n]
  BY DEF diff_to_intents
<1> HIDE DEF Quantity, Made
<1>4. n \in Nat /\ \A k \in 0 .. n : k # 0 => SymbolOrder[k] \in Symbols
  BY SymbolOrderAssumption
<1>5. \A g : Looped(g, Q, M, n) <=> Loop(g)
  <2> SUFFICES ASSUME NEW g PROVE Looped(g, Q, M, n) <=> Loop(g)
    OBVIOUS
  <2> DEFINE Left(k) == IF k = 0 THEN <<>>
                        ELSE IF Q[SymbolOrder[k]] = 0 THEN g[k - 1]
                        ELSE Append(g[k - 1], M[SymbolOrder[k]])
             Right(k) == IF k = 0 THEN <<>>
                         ELSE IF Quantity(SymbolOrder[k]) = 0 THEN g[k - 1]
                         ELSE Append(g[k - 1], Made(SymbolOrder[k]))
  <2>1. \A k \in 0 .. n : Left(k) = Right(k)
    BY <1>4
  <2> HIDE DEF Left, Right
  <2>2. [k \in 0 .. n |-> Left(k)] = [k \in 0 .. n |-> Right(k)]
    BY <2>1
  <2> QED
    BY <2>2 DEF Looped, Left, Right
<1>6. Loop(made)
  <2>1. \E g : Loop(g)
    BY <1>4, <1>5, LoopExists
  <2> HIDE DEF Loop
  <2> QED
    BY <2>1
<1> HIDE DEF made, intents0, Loop, n
<1>7. Looped(made, Q, M, n)
  BY <1>5, <1>6
<1>8. made[n] \in Seq(Draft)
  <2>1. \A s \in Symbols : Q[s] # 0 => M[s] \in Draft
    BY <1>2
  <2>2. n \in 0 .. n /\ n = Len(SymbolOrder)
    BY <1>4 DEF n
  <2> HIDE DEF Q, M
  <2>3. \A k \in 0 .. n : made[k] \in Seq(Draft)
    BY <1>4, <1>7, <2>1, <2>2, LoopKeeps
  <2> QED
    BY <2>2, <2>3
<1>9. ASSUME Built(intents0) PROVE intents0 \in Seq(Intent)
  <2>1. intents0 \in Seq(Draft)
    BY <1>3, <1>8
  <2>2. ASSUME NEW i \in 1 .. Len(intents0) PROVE intents0[i] \in Intent
    <3>1. intents0[i] \in Draft /\ intents0[i].quantity > 0
      BY <1>9, <2>1 DEF Built
    <3> QED
      BY <3>1 DEF Draft, Intent
  <2> QED
    BY <2>1, <2>2
<1> QED
  BY <1>3, <1>8, <1>9 DEF intents0

-----------------------------------------------------------------------------
(* What a strategy asks for.                                               *)

LEMMA MomentumType ==
    ASSUME NEW bars, NEW config \in StrategyDefinition
    PROVE  IsDictionary(Selected(bars, config), -Scale .. Scale)
<1> DEFINE result == Selected(bars, config)
           S == DOMAIN result
           limit == config.target_gross_exposure_limit
<1>1. config.universe \in Seq(Symbols) /\ limit \in 1 .. Scale
  BY DEF StrategyDefinition
<1>2. S \subseteq ToSet(config.universe)
  BY DEF Selected
<1>3. S \subseteq Symbols
  BY <1>1, <1>2 DEF ToSet
<1>4. \A s \in S : result[s] = HalfUp(limit, Cardinality(S))
  BY DEF Selected
<1> HIDE DEF result, S, limit
<1>5. IsFiniteSet(S) /\ Cardinality(S) \in Nat
  BY <1>3, DictionariesAreFinite
<1>6. ASSUME NEW s \in S PROVE result[s] \in -Scale .. Scale
  <2> DEFINE c == Cardinality(S)
  <2>1. c \in Nat \ {0}
    BY <1>5, FS_EmptySet
  <2>2. limit \in Int /\ 0 <= limit /\ limit <= Scale /\ Scale \in Nat
    BY <1>1, ScaleAssumption
  <2> HIDE DEF c
  <2>3. c * 0 <= limit /\ limit <= c * Scale
    <3>1. 1 * Scale <= c * Scale
      BY <2>1, <2>2
    <3> QED
      BY <2>1, <2>2, <3>1
  <2>4. 0 <= HalfUp(limit, c) /\ HalfUp(limit, c) <= Scale /\ HalfUp(limit, c) \in Int
    BY <2>1, <2>2, <2>3, HalfUpBetween, HalfUpNear
  <2>5. HalfUp(limit, c) \in -Scale .. Scale
    BY <2>2, <2>4
  <2> QED
    BY <1>4, <2>5 DEF c
<1> QED
  BY <1>3, <1>6 DEF IsDictionary, result, S

LEMMA AskedType ==
    ASSUME strategy \in Strategy, NEW m, NEW day \in Days
    PROVE  IsDictionary(TargetsOf(m, day), -Scale .. Scale)
<1>1. CASE strategy \in [momentum : StrategyDefinition]
  <2>1. strategy.momentum \in StrategyDefinition /\ "momentum" \in DOMAIN strategy
    BY <1>1
  <2> QED
    BY <2>1, MomentumType DEF TargetsOf, generate_targets
<1>2. CASE strategy \in [script : [Days -> Targets]]
  <2>1. strategy.script \in [Days -> Targets] /\ "momentum" \notin DOMAIN strategy
    BY <1>2
  <2>2. strategy.script[day] \in Targets
    BY <2>1
  <2>3. PICK S \in SUBSET Symbols : strategy.script[day] \in [S -> -Scale .. Scale]
    BY <2>2 DEF Targets
  <2> QED
    BY <2>1, <2>3 DEF TargetsOf, IsDictionary
<1> QED
  BY <1>1, <1>2 DEF Strategy

-----------------------------------------------------------------------------
(* The days of a run.                                                      *)

LEMMA InputsTyped ==
    ASSUME [market |-> market, strategy |-> strategy, settings |-> settings] \in Inputs
    PROVE  market \in Market /\ strategy \in Strategy /\ settings \in Setting
<1> DEFINE r == [market |-> market, strategy |-> strategy, settings |-> settings]
<1>1. r \in [market : Market, strategy : Strategy, settings : Setting]
  BY InputAssumption
<1>2. r.market = market /\ r.strategy = strategy /\ r.settings = settings
  OBVIOUS
<1> HIDE DEF r
<1> QED
  BY <1>1, <1>2

LEMMA TimelineType ==
    /\ Len(timeline) \in Nat /\ Len(timeline) <= LastDay
    /\ \A i \in 1 .. Len(timeline) : timeline[i] \in Days
    /\ timeline = <<>> <=> Len(timeline) = 0
<1> DEFINE S == UNION {BarDays(market, s) : s \in Symbols}
<1>1. S \in SUBSET Days
  BY DEF BarDays
<1> HIDE DEF S
<1>2. timeline = InOrder(S)
  BY DEF timeline, S
<1>3. Cardinality(S) \in Nat /\ Cardinality(S) <= LastDay
  <2>1. LastDay \in Nat /\ IsFiniteSet(Days) /\ Cardinality(Days) = LastDay
    BY MarketAssumption, FS_Interval DEF Days
  <2> QED
    BY <1>1, <2>1, DaysAreFinite, FS_Subset
<1>4. timeline \in Seq(Days) /\ Len(timeline) = Cardinality(S)
  <2>1. \A i \in 1 .. Cardinality(S) : InOrder(S)[i] \in Days
    BY <1>1, EveryIndexHasItsDay
  <2> DEFINE n == Cardinality(S)
             f == InOrder(S)
  <2>2. f = [i \in 1 .. n |-> f[i]] /\ n \in Nat
    BY <1>3 DEF InOrder
  <2> HIDE DEF n, f
  <2>3. [i \in 1 .. n |-> f[i]] \in Seq(Days) /\ Len([i \in 1 .. n |-> f[i]]) = n
    BY <2>1, <2>2 DEF n, f
  <2> QED
    BY <1>2, <2>2, <2>3 DEF n, f
<1> HIDE DEF timeline
<1> QED
  BY <1>3, <1>4

-----------------------------------------------------------------------------
(* Types.                                                                  *)

Going ==
    /\ phase \in {"value", "trade"} => index <= Len(timeline)
    /\ phase = "trade" => index < Len(timeline)
Typed == TypeOK /\ Going

LEMMA NowIsADay ==
    ASSUME Typed, phase \in {"value", "trade"}
    PROVE  /\ timeline[index] \in Days
           /\ phase = "trade" => execution_day \in Days
<1>1. index \in Nat \ {0} /\ index <= Len(timeline) /\ (phase = "trade" => index < Len(timeline))
  BY MarketAssumption DEF Typed, Going, TypeOK
<1>2. Len(timeline) \in Nat /\ \A i \in 1 .. Len(timeline) : timeline[i] \in Days
  BY TimelineType
<1> HIDE DEF timeline
<1> QED
  BY <1>1, <1>2 DEF execution_day

LEMMA ValuationType ==
    ASSUME Typed, Valuation
    PROVE  /\ equity_curve' \in Seq([day : Days, nav : Int, cash : Int])
           /\ peak_nav' \in Nat \ {0} /\ max_drawdown' \in Int
<1> DEFINE day == timeline[index]
           prices == [s \in Symbols |-> Get(price_map(market, day), s)]
           nav == Value(cash, quantities, prices)
           peak == Larger(peak_nav, nav)
           fall == HalfUp((nav - peak) * Scale, peak)
<1>1. phase = "value" /\ TypeOK /\ market \in Market
  BY InputsTyped DEF Valuation, Typed, TypeOK
<1>2. day \in Days
  BY <1>1, NowIsADay
<1>3. nav \in Int
  <2>1. IsDictionary(price_map(market, day), Nat \ {0})
    BY <1>1, PricesType
  <2>2. \A s \in Symbols : prices[s] \in Int
    BY <2>1 DEF IsDictionary, Get
  <2>3. quantities \in [Symbols -> Int] /\ cash \in Int
    BY <1>1 DEF TypeOK
  <2> HIDE DEF prices
  <2> QED
    BY <2>2, <2>3, ValueType
<1>4. /\ equity_curve' = Append(equity_curve, [day |-> day, nav |-> nav, cash |-> cash])
      /\ peak_nav' = peak
      /\ max_drawdown' = Smaller(max_drawdown, fall)
  BY DEF Valuation
<1> HIDE DEF day, nav
<1>5. peak \in Nat \ {0} /\ peak_nav \in Nat \ {0} /\ max_drawdown \in Int /\ cash \in Int
  BY <1>1, <1>3 DEF TypeOK, Larger
<1> HIDE DEF peak
<1>6. fall \in Int
  BY <1>3, <1>5, ScaleAssumption, HalfUpType
<1>7. [day |-> day, nav |-> nav, cash |-> cash] \in [day : Days, nav : Int, cash : Int]
  BY <1>2, <1>3, <1>5
<1> HIDE DEF fall
<1> QED
  BY <1>1, <1>4, <1>5, <1>6, <1>7 DEF TypeOK, Smaller

LEMMA DecisionType ==
    ASSUME market \in Market, strategy \in Strategy, settings \in Setting,
           NEW day \in Days, NEW money \in Int, NEW held \in [Symbols -> Int]
    PROVE  LET made == Decision(market, day, money, held)
           IN  /\ IsPortfolio(made.portfolio)
               /\ IsDictionary(made.targets, -Scale .. Scale)
               /\ IsDictionary(made.approved, Int)
<1> DEFINE pf == portfolio_state(money, held, price_map(market, day))
           asked == TargetsOf(market, day)
<1>1. IsPortfolio(pf)
  BY PricesType, PortfolioType
<1>2. IsDictionary(asked, -Scale .. Scale)
  BY AskedType
<1>3. IsDictionary(asked, Int)
  BY <1>2, ScaleAssumption DEF IsDictionary
<1>4. settings.risk \in RiskPolicy
  BY DEF Setting
<1> HIDE DEF pf, asked
<1>5. IsDictionary(review(asked, pf, settings.risk), Int)
  BY <1>1, <1>3, <1>4, ReviewType
<1> QED
  BY <1>1, <1>2, <1>5 DEF Decision, pf, asked

LEMMA DecideType == ASSUME Typed, Decide PROVE Typed'
<1> DEFINE made == Decision(market, timeline[index], cash, quantities)
           orders == diff_to_intents(made.approved, made.portfolio, settings.intent)
<1>1. phase = "value" /\ TypeOK /\ market \in Market /\ strategy \in Strategy /\ settings \in Setting
  BY InputsTyped DEF Decide, Valuation, Typed, TypeOK
<1>2. timeline[index] \in Days /\ cash \in Int /\ quantities \in [Symbols -> Int]
  BY <1>1, NowIsADay DEF TypeOK
<1>3. IsPortfolio(made.portfolio) /\ IsDictionary(made.targets, -Scale .. Scale) /\ IsDictionary(made.approved, Int)
  BY <1>1, <1>2, DecisionType
<1>4. portfolio' = made.portfolio /\ targets' = made.targets
  BY DEF Decide
<1>5. /\ next' = 1 /\ totals' = [totals EXCEPT !.day = 0] /\ index < Len(timeline)
      /\ UNCHANGED <<inputs, index, books, trades>>
      /\ Valuation
  BY DEF Decide
<1>6. phase' \in {"trade", "raised"} /\ intents' \in Seq(Intent)
  <2>1. settings.intent \in IntentPolicy
    BY <1>1 DEF Setting
  <2>2. \/ Built(orders) /\ intents' = orders /\ phase' = "trade"
        \/ intents' = <<>> /\ phase' = "raised"
    BY DEF Decide
  <2> HIDE DEF made
  <2>3. Built(orders) => orders \in Seq(Intent)
    BY <1>3, <2>1, IntentsType
  <2> HIDE DEF orders
  <2>4. CASE Built(orders) /\ intents' = orders /\ phase' = "trade"
    <3>1. orders \in Seq(Intent)
      BY <2>3, <2>4
    <3> QED
      BY <2>4, <3>1
  <2>5. CASE intents' = <<>> /\ phase' = "raised"
    BY <2>5
  <2> QED
    BY <2>2, <2>4, <2>5
<1> HIDE DEF made, orders
<1>7. timeline' = timeline
  BY <1>5 DEF timeline, inputs
<1>8. equity_curve' \in Seq([day : Days, nav : Int, cash : Int]) /\ peak_nav' \in Nat \ {0} /\ max_drawdown' \in Int
  BY <1>5, ValuationType
<1>9. totals' \in Totals
  <2>1. totals \in Totals
    BY <1>1 DEF TypeOK
  <2>2. totals' = [totals EXCEPT !.day = 0]
    BY <1>5
  <2> QED
    BY <2>1, <2>2 DEF Totals
<1>10. Len(intents') \in Nat
  BY <1>6
<1>11. next' \in 1 .. Len(intents') + 1
  BY <1>5, <1>10
<1>12. [market |-> market, strategy |-> strategy, settings |-> settings]' \in Inputs
  BY <1>1, <1>5 DEF TypeOK, inputs
<1>13. index' \in 1 .. LastDay /\ index' = index
  BY <1>1, <1>5 DEF TypeOK
<1> HIDE DEF timeline
<1>14. Going'
  BY <1>5, <1>6, <1>7, <1>13, MarketAssumption DEF Going
<1>15. /\ cash' \in Int /\ quantities' \in [Symbols -> Int] /\ average_costs' \in [Symbols -> Int]
       /\ trades' \in Seq(Trade)
  BY <1>1, <1>5 DEF TypeOK, books
<1>16. IsPortfolio(portfolio)' /\ IsDictionary(targets, -Scale .. Scale)'
  BY <1>3, <1>4
<1> QED
  BY <1>6, <1>8, <1>9, <1>11, <1>12, <1>13, <1>14, <1>15, <1>16 DEF Typed, TypeOK

\* The bar an intent meets, its price and the quantity that is executed.
BarOf(intent) == market[intent.symbol][execution_day]
PriceOf(intent) == apply_slippage(BarOf(intent).open, intent.side)
QuantityOf(intent) == Executed(intent, PriceOf(intent), BarOf(intent))

LEMMA SettingFacts ==
    ASSUME TypeOK
    PROVE  /\ settings.intent.lot_size \in Nat \ {0} /\ Rate \in Nat \ {0} /\ Scale \in Nat \ {0}
           /\ settings.commission \in Nat /\ settings.sell_tax \in Nat
           /\ settings.slippage \in Nat /\ settings.max_bar_volume_share \in 1 .. Rate
           /\ settings.initial_cash \in Nat \ {0} /\ settings.risk \in RiskPolicy
<1>1. settings \in Setting
  BY InputsTyped DEF TypeOK
<1> QED
  BY <1>1, InputAssumption, ScaleAssumption DEF Setting, IntentPolicy

LEMMA PriceType ==
    ASSUME TypeOK, NEW open \in Nat \ {0}, NEW side
    PROVE  /\ apply_slippage(open, side) \in Int
           /\ side # "SELL" => apply_slippage(open, side) >= open
           /\ settings.slippage <= Rate => apply_slippage(open, side) \in Nat
<1> DEFINE factor == IF side = "SELL" THEN Rate - settings.slippage ELSE Rate + settings.slippage
           a == open * factor
<1>1. /\ factor \in Int /\ (side # "SELL" => factor >= Rate) /\ Rate \in Nat \ {0}
      /\ settings.slippage <= Rate => factor >= 0
  BY SettingFacts
<1> HIDE DEF factor
<1>2. a \in Int /\ (side # "SELL" => Rate * open <= a) /\ (settings.slippage <= Rate => a >= 0)
  BY <1>1
<1>3. apply_slippage(open, side) = HalfUp(a, Rate)
  BY DEF apply_slippage, factor
<1> HIDE DEF a
<1>4. HalfUp(a, Rate) \in Int /\ (settings.slippage <= Rate => HalfUp(a, Rate) >= 0)
  BY <1>1, <1>2, HalfUpNear
<1>5. ASSUME side # "SELL" PROVE HalfUp(a, Rate) >= open
  <2> DEFINE u == a
  <2>1. a <= Rate * u
    <3>1. 0 <= a
      BY <1>1, <1>2, <1>5
    <3>2. 1 * a <= Rate * a
      BY <1>1, <1>2, <3>1
    <3> QED
      BY <1>2, <3>2
  <2>2. u \in Int /\ open \in Int /\ a \in Int
    BY <1>2
  <2> HIDE DEF u
  <2> QED
    BY <1>1, <1>2, <1>5, <2>1, <2>2, HalfUpBetween
<1> QED
  BY <1>3, <1>4, <1>5

LEMMA VolumeType ==
    ASSUME TypeOK, NEW volume \in Nat
    PROVE  volume_limited_quantity(volume) \in Nat
<1> DEFINE lot == settings.intent.lot_size
           a == volume * settings.max_bar_volume_share
           b == Rate * lot
           q == RoundDown(a, b)
<1>1. lot \in Nat \ {0} /\ a \in Nat /\ b \in Nat \ {0}
  BY SettingFacts
<1>2. volume_limited_quantity(volume) = q * lot
  BY DEF volume_limited_quantity
<1> HIDE DEF a, b
<1>3. q \in Int /\ q >= 0
  BY <1>1, RoundDownNear
<1> HIDE DEF q, lot
<1> QED
  BY <1>1, <1>2, <1>3

LEMMA AffordableType ==
    ASSUME TypeOK, NEW price \in Nat \ {0}
    PROVE  affordable_quantity(price) \in Int
<1> DEFINE lot == settings.intent.lot_size
           a == cash * Rate * Scale
           b == price * (Rate + settings.commission) * lot
           q == RoundDown(a, b)
<1>1. lot \in Nat \ {0} /\ a \in Int /\ b \in Nat \ {0}
  <2>1. lot \in Nat \ {0} /\ Rate \in Nat \ {0} /\ Scale \in Nat /\ settings.commission \in Nat /\ cash \in Int
    BY SettingFacts DEF TypeOK
  <2>2. price * (Rate + settings.commission) \in Nat \ {0}
    BY <2>1
  <2> QED
    BY <2>1, <2>2
<1>2. affordable_quantity(price) = q * lot
  BY DEF affordable_quantity
<1> HIDE DEF a, b
<1>3. q \in Int
  BY <1>1, RoundDownNear
<1> HIDE DEF q, lot
<1> QED
  BY <1>1, <1>2, <1>3

LEMMA FillType ==
    ASSUME Typed, phase = "trade", NEW intent \in Intent, Fillable(intent)
    PROVE  /\ BarOf(intent) \in Bar /\ PriceOf(intent) \in Int
           /\ intent.side = "BUY" => PriceOf(intent) >= BarOf(intent).open
           /\ settings.slippage <= Rate => PriceOf(intent) \in Nat
           /\ QuantityOf(intent) \in Int /\ QuantityOf(intent) # 0
           /\ QuantityOf(intent) =
                Smaller(intent.quantity,
                    Smaller(volume_limited_quantity(BarOf(intent).volume),
                            IF intent.side = "BUY" THEN affordable_quantity(PriceOf(intent))
                            ELSE quantities[intent.symbol]))
<1>1. TypeOK /\ market \in Market
  BY InputsTyped DEF Typed, TypeOK
<1>2. intent.symbol \in Symbols /\ intent.quantity \in Nat \ {0} /\ intent.side \in {"BUY", "SELL"}
  BY DEF Intent
<1>3. execution_day \in Days
  BY NowIsADay
<1>4. BarOf(intent) \in Bar
  <2>1. market[intent.symbol] \in [Days -> Bar \cup {NoBar}]
    BY <1>1, <1>2 DEF Market
  <2>2. BarOf(intent) # NoBar
    BY DEF Fillable, BarOf
  <2> QED
    BY <1>3, <2>1, <2>2 DEF BarOf
<1>5. BarOf(intent).open \in Nat \ {0} /\ BarOf(intent).volume \in Nat
  BY <1>4 DEF Bar
<1>6. /\ PriceOf(intent) \in Int /\ (intent.side = "BUY" => PriceOf(intent) >= BarOf(intent).open)
      /\ settings.slippage <= Rate => PriceOf(intent) \in Nat
  BY <1>1, <1>5, PriceType DEF PriceOf
<1>7. intent.side = "BUY" => PriceOf(intent) \in Nat \ {0}
  BY <1>5, <1>6
<1>8. intent.side = "BUY" => affordable_quantity(PriceOf(intent)) \in Int
  BY <1>1, <1>7, AffordableType
<1>9. quantities[intent.symbol] \in Int /\ volume_limited_quantity(BarOf(intent).volume) \in Nat
  BY <1>1, <1>2, <1>5, VolumeType DEF TypeOK
<1>10. QuantityOf(intent) # 0
  BY DEF Fillable, QuantityOf, PriceOf, BarOf
<1>11. QuantityOf(intent) =
        Smaller(intent.quantity,
            Smaller(volume_limited_quantity(BarOf(intent).volume),
                    IF intent.side = "BUY" THEN affordable_quantity(PriceOf(intent))
                    ELSE quantities[intent.symbol]))
  BY DEF QuantityOf, Executed
<1>12. QuantityOf(intent) \in Int
  BY <1>2, <1>8, <1>9, <1>11 DEF Smaller
<1> QED
  BY <1>4, <1>6, <1>10, <1>11, <1>12

LEMMA MoneyType ==
    ASSUME TypeOK, NEW quantity \in Int, NEW price \in Int, NEW side
    PROVE  LET notional == Notional(quantity, price)
           IN  notional \in Int /\ Commission(notional) \in Int /\ sell_tax(notional, side) \in Int
<1> DEFINE n == Notional(quantity, price)
<1>1. Rate \in Nat \ {0} /\ Scale \in Nat \ {0} /\ settings.commission \in Nat /\ settings.sell_tax \in Nat
  BY SettingFacts
<1>2. n \in Int
  BY <1>1, HalfUpType DEF Notional
<1> HIDE DEF n
<1>3. n * settings.commission \in Int /\ n * settings.sell_tax \in Int
  BY <1>1, <1>2
<1>4. Commission(n) \in Int /\ sell_tax(n, side) \in Int
  BY <1>1, <1>3, HalfUpType DEF Commission, sell_tax
<1> QED
  BY <1>2, <1>4 DEF n

NotionalOf(intent) == Notional(QuantityOf(intent), PriceOf(intent))
TradeOf(intent) == [day |-> execution_day, symbol |-> intent.symbol, side |-> intent.side,
                    quantity |-> QuantityOf(intent), price |-> PriceOf(intent),
                    notional |-> NotionalOf(intent)]

LEMMA FillFacts ==
    ASSUME NEW intent, Fill(intent)
    PROVE  /\ Fillable(intent)
           /\ Book(intent, QuantityOf(intent), PriceOf(intent))
           /\ Pay(intent, NotionalOf(intent))
           /\ trades' = Append(trades, TradeOf(intent))
           /\ totals' = [totals EXCEPT
                !.day = @ + NotionalOf(intent),
                !.notional = @ + NotionalOf(intent),
                !.commission = @ + Commission(NotionalOf(intent)),
                !.tax = @ + sell_tax(NotionalOf(intent), intent.side),
                !.slippage_cost = @ + HalfUp((IF Bought(intent) THEN PriceOf(intent) - BarOf(intent).open
                                              ELSE BarOf(intent).open - PriceOf(intent)) * QuantityOf(intent), Scale)]
BY DEF Fill, TradeOf, NotionalOf, QuantityOf, PriceOf, BarOf

LEMMA TradeType ==
    ASSUME Typed, phase = "trade", NEW intent \in Intent, Fillable(intent)
    PROVE  TradeOf(intent) \in Trade /\ NotionalOf(intent) \in Int
<1>1. QuantityOf(intent) \in Int /\ PriceOf(intent) \in Int /\ execution_day \in Days
  BY FillType, NowIsADay
<1>2. NotionalOf(intent) \in Int
  BY <1>1, MoneyType DEF Typed, NotionalOf
<1> QED
  BY <1>1, <1>2 DEF TradeOf, Trade, Intent

LEMMA BookType ==
    ASSUME Typed, phase = "trade", NEW intent \in Intent, Fill(intent)
    PROVE  /\ quantities' \in [Symbols -> Int] /\ average_costs' \in [Symbols -> Int]
           /\ cash' \in Int /\ totals' \in Totals /\ trades' \in Seq(Trade)
<1> DEFINE q == QuantityOf(intent)
           p == PriceOf(intent)
           n == NotionalOf(intent)
           s == intent.symbol
           t == TradeOf(intent)
           slip == HalfUp((IF Bought(intent) THEN p - BarOf(intent).open
                           ELSE BarOf(intent).open - p) * q, Scale)
<1>1. /\ Fillable(intent) /\ Book(intent, q, p) /\ Pay(intent, n) /\ trades' = Append(trades, t)
      /\ totals' = [totals EXCEPT !.day = @ + n, !.notional = @ + n, !.commission = @ + Commission(n),
                        !.tax = @ + sell_tax(n, intent.side), !.slippage_cost = @ + slip]
  BY FillFacts
<1>2. TypeOK /\ s \in Symbols
  BY DEF Typed, Intent
<1>3. q \in Int /\ p \in Int /\ BarOf(intent).open \in Nat
  BY <1>1, FillType DEF Bar
<1>4. n \in Int /\ t \in Trade
  BY <1>1, TradeType
<1>5. Commission(n) \in Int /\ sell_tax(n, intent.side) \in Int
  BY <1>2, <1>3, MoneyType DEF NotionalOf
<1>6. slip \in Int
  <2>1. (IF Bought(intent) THEN p - BarOf(intent).open ELSE BarOf(intent).open - p) * q \in Int
    BY <1>3
  <2> QED
    BY <2>1, ScaleAssumption, HalfUpType
<1> HIDE DEF q, p, n, t, slip, s
<1>7. trades' \in Seq(Trade)
  BY <1>1, <1>2, <1>4 DEF TypeOK
<1>8. totals' \in Totals
  <2> DEFINE a == totals.day + n
             b == totals.notional + n
             c == totals.commission + Commission(n)
             d == totals.tax + sell_tax(n, intent.side)
             e == totals.slippage_cost + slip
  <2>1. totals \in Totals
    BY <1>2 DEF TypeOK
  <2>2. a \in Int /\ b \in Int /\ c \in Int /\ d \in Int /\ e \in Int
    BY <1>4, <1>5, <1>6, <2>1 DEF Totals
  <2>3. totals' = [totals EXCEPT !.day = a, !.notional = b, !.commission = c, !.tax = d,
                                 !.slippage_cost = e]
    BY <1>1
  <2> HIDE DEF a, b, c, d, e
  <2> QED
    BY <2>1, <2>2, <2>3 DEF Totals
<1>9. cash' \in Int
  <2>1. cash \in Int
    BY <1>2 DEF TypeOK
  <2> QED
    BY <1>1, <1>4, <1>5, <2>1 DEF Pay
<1>10. quantities' \in [Symbols -> Int] /\ average_costs' \in [Symbols -> Int]
  <2>1. quantities \in [Symbols -> Int] /\ average_costs \in [Symbols -> Int]
    BY <1>2 DEF TypeOK
  <2>2. quantities[s] \in Int /\ average_costs[s] \in Int
    BY <1>2, <2>1
  <2>3. CASE Bought(intent)
    <3> DEFINE total == quantities[s] + q
               worth == quantities[s] * average_costs[s] + q * p
               cost == IF total = 0 THEN 0 ELSE HalfUp(worth, total)
    <3>1. total \in Int /\ worth \in Int
      BY <1>3, <2>2
    <3>2. quantities' = [quantities EXCEPT ![s] = total] /\ average_costs' = [average_costs EXCEPT ![s] = cost]
      BY <1>1, <2>3 DEF Book, s
    <3> HIDE DEF total, worth
    <3>3. cost \in Int
      BY <3>1, HalfUpType
    <3> HIDE DEF cost
    <3> QED
      BY <2>1, <3>1, <3>2, <3>3
  <2>4. CASE ~Bought(intent)
    <3> DEFINE left == quantities[s] - q
               cost == IF quantities[s] = q THEN 0 ELSE average_costs[s]
    <3>1. quantities' = [quantities EXCEPT ![s] = left] /\ average_costs' = [average_costs EXCEPT ![s] = cost]
      BY <1>1, <2>4 DEF Book, s
    <3>2. left \in Int /\ cost \in Int
      BY <1>3, <2>2
    <3> HIDE DEF left, cost
    <3> QED
      BY <2>1, <3>1, <3>2
  <2> QED
    BY <2>3, <2>4
<1> QED
  BY <1>7, <1>8, <1>9, <1>10

LEMMA ExecuteType == ASSUME Typed, Execute PROVE Typed'
<1>1. TypeOK /\ Going /\ phase = "trade" /\ next \in Nat /\ next <= Len(intents)
  BY DEF Execute, Typed, TypeOK
<1>2. intents[next] \in Intent /\ next \in 1 .. Len(intents)
  BY <1>1 DEF TypeOK
<1>3. next' = next + 1 /\ UNCHANGED <<inputs, phase, index, decision, curve>>
  BY DEF Execute
<1>4. /\ quantities' \in [Symbols -> Int] /\ average_costs' \in [Symbols -> Int]
      /\ cash' \in Int /\ totals' \in Totals /\ trades' \in Seq(Trade)
  <2>1. CASE Skip(intents[next])
    BY <1>1, <2>1 DEF Skip, books, TypeOK
  <2>2. CASE Fill(intents[next])
    BY <1>1, <1>2, <2>2, BookType
  <2> QED
    BY <2>1, <2>2 DEF Execute
<1>5. timeline' = timeline
  BY <1>3 DEF timeline, inputs
<1>6. Going'
  BY <1>1, <1>3, <1>5 DEF Going
<1>7. [market |-> market, strategy |-> strategy, settings |-> settings]' \in Inputs
  BY <1>1, <1>3 DEF TypeOK, inputs
<1>8. next' \in 1 .. Len(intents') + 1
  BY <1>1, <1>2, <1>3 DEF TypeOK, decision
<1>9. IsPortfolio(portfolio)' /\ IsDictionary(targets, -Scale .. Scale)' /\ intents' \in Seq(Intent)
  BY <1>1, <1>3 DEF TypeOK, decision
<1>10. /\ index' \in 1 .. LastDay /\ phase' \in {"value", "trade", "done", "raised"}
       /\ equity_curve' \in Seq([day : Days, nav : Int, cash : Int])
       /\ peak_nav' \in Nat \ {0} /\ max_drawdown' \in Int
  BY <1>1, <1>3 DEF TypeOK, curve
<1> QED
  BY <1>4, <1>6, <1>7, <1>8, <1>9, <1>10 DEF Typed, TypeOK

LEMMA CloseDayType == ASSUME Typed, CloseDay PROVE Typed'
<1>1. TypeOK /\ Going /\ phase = "trade"
  BY DEF CloseDay, Typed
<1>2. /\ phase' = "value" /\ index' = index + 1
      /\ UNCHANGED <<inputs, books, decision, next, trades, curve>>
      /\ totals' = IF totals.day <= 0 THEN totals
                   ELSE [totals EXCEPT !.turnover = @ + HalfUp(totals.day * Scale, portfolio.nav)]
  BY DEF CloseDay
<1>3. timeline' = timeline
  BY <1>2 DEF timeline, inputs
<1>4. index' \in 1 .. LastDay /\ index' <= Len(timeline')
  <2>1. index \in Nat /\ index >= 1 /\ index < Len(timeline)
    BY <1>1, MarketAssumption DEF TypeOK, Going
  <2>2. Len(timeline) \in Nat /\ Len(timeline) <= LastDay /\ LastDay \in Nat
    BY TimelineType, MarketAssumption
  <2> HIDE DEF timeline
  <2> QED
    BY <1>2, <1>3, <2>1, <2>2
<1>5. Going'
  BY <1>2, <1>4 DEF Going
<1>6. totals' \in Totals
  <2>1. totals \in Totals /\ portfolio.nav \in Nat \ {0}
    BY <1>1 DEF TypeOK, IsPortfolio
  <2>2. totals.day * Scale \in Int
    BY <2>1, ScaleAssumption DEF Totals
  <2> DEFINE more == HalfUp(totals.day * Scale, portfolio.nav)
  <2>3. more \in Int
    BY <2>1, <2>2, HalfUpType
  <2>4. totals' = IF totals.day <= 0 THEN totals ELSE [totals EXCEPT !.turnover = @ + more]
    BY <1>2
  <2> HIDE DEF more
  <2> QED
    BY <2>1, <2>3, <2>4 DEF Totals
<1>7. [market |-> market, strategy |-> strategy, settings |-> settings]' \in Inputs
  BY <1>1, <1>2 DEF TypeOK, inputs
<1>8. /\ next' \in 1 .. Len(intents') + 1 /\ intents' \in Seq(Intent)
      /\ IsPortfolio(portfolio)' /\ IsDictionary(targets, -Scale .. Scale)'
  BY <1>1, <1>2 DEF TypeOK, decision
<1>9. /\ cash' \in Int /\ quantities' \in [Symbols -> Int] /\ average_costs' \in [Symbols -> Int]
      /\ trades' \in Seq(Trade)
  BY <1>1, <1>2 DEF TypeOK, books
<1>10. /\ equity_curve' \in Seq([day : Days, nav : Int, cash : Int])
       /\ peak_nav' \in Nat \ {0} /\ max_drawdown' \in Int
  BY <1>1, <1>2 DEF TypeOK, curve
<1> QED
  BY <1>2, <1>4, <1>5, <1>6, <1>7, <1>8, <1>9, <1>10 DEF Typed, TypeOK

LEMMA EndType ==
    ASSUME Typed, Finish \/ RefusePosition
    PROVE  Typed'
<1>1. /\ TypeOK
      /\ UNCHANGED <<inputs, index, books, decision, next, totals, trades>>
      /\ phase' \in {"done", "raised"}
  BY DEF Typed, Finish, RefusePosition
<1>2. /\ equity_curve' \in Seq([day : Days, nav : Int, cash : Int])
      /\ peak_nav' \in Nat \ {0} /\ max_drawdown' \in Int
  <2>1. CASE Finish
    BY <2>1, ValuationType DEF Finish
  <2>2. CASE RefusePosition
    BY <1>1, <2>2 DEF RefusePosition, curve, TypeOK
  <2> QED
    BY <2>1, <2>2
<1>3. [market |-> market, strategy |-> strategy, settings |-> settings]' \in Inputs
  BY <1>1 DEF TypeOK, inputs
<1>4. /\ next' \in 1 .. Len(intents') + 1 /\ intents' \in Seq(Intent)
      /\ IsPortfolio(portfolio)' /\ IsDictionary(targets, -Scale .. Scale)'
  BY <1>1 DEF TypeOK, decision
<1>5. /\ cash' \in Int /\ quantities' \in [Symbols -> Int] /\ average_costs' \in [Symbols -> Int]
      /\ trades' \in Seq(Trade) /\ totals' \in Totals /\ index' \in 1 .. LastDay
  BY <1>1 DEF TypeOK, books
<1>6. Going'
  BY <1>1 DEF Going
<1> QED
  BY <1>1, <1>2, <1>3, <1>4, <1>5, <1>6 DEF Typed, TypeOK

LEMMA InitType == ASSUME Init PROVE Typed
<1>1. PICK run \in Inputs : market = run.market /\ strategy = run.strategy /\ settings = run.settings
  BY DEF Init
<1>2. run \in [market : Market, strategy : Strategy, settings : Setting]
  BY <1>1, InputAssumption
<1>3. [market |-> market, strategy |-> strategy, settings |-> settings] = run
  BY <1>1, <1>2
<1>4. settings.initial_cash \in Nat \ {0}
  BY <1>1, <1>2 DEF Setting
<1>5. /\ phase = IF timeline = <<>> THEN "done" ELSE "value"
      /\ index = 1 /\ cash = settings.initial_cash /\ peak_nav = settings.initial_cash /\ max_drawdown = 0
      /\ quantities = [s \in Symbols |-> 0] /\ average_costs = [s \in Symbols |-> 0]
      /\ targets = Nothing /\ intents = <<>> /\ next = 1 /\ trades = <<>> /\ equity_curve = <<>>
      /\ portfolio = [cash |-> cash, nav |-> cash, positions |-> Nothing, market_prices |-> Nothing]
      /\ totals = [turnover |-> 0, commission |-> 0, tax |-> 0, slippage_cost |-> 0,
                   notional |-> 0, day |-> 0]
  BY DEF Init
<1>6. DOMAIN Nothing = {}
  BY DEF Nothing
<1>7. IsPortfolio(portfolio) /\ IsDictionary(targets, -Scale .. Scale)
  BY <1>4, <1>5, <1>6 DEF IsPortfolio, IsDictionary
<1>8. Going
  <2> HIDE DEF timeline
  <2>1. timeline # <<>> => Len(timeline) >= 1
    BY TimelineType
  <2>2. phase = "value" => timeline # <<>>
    BY <1>5
  <2> QED
    BY <1>5, <2>1, <2>2 DEF Going
<1>9. totals \in Totals /\ trades \in Seq(Trade) /\ intents \in Seq(Intent)
      /\ equity_curve \in Seq([day : Days, nav : Int, cash : Int])
  BY <1>5 DEF Totals
<1>10. phase \in {"value", "trade", "done", "raised"} /\ index \in 1 .. LastDay /\ next \in 1 .. Len(intents) + 1
  BY <1>5, MarketAssumption
<1> QED
  BY <1>1, <1>3, <1>4, <1>5, <1>7, <1>8, <1>9, <1>10 DEF Typed, TypeOK

LEMMA SameType == ASSUME Typed, UNCHANGED vars PROVE Typed'
<1>1. timeline' = timeline
  BY DEF timeline, vars, inputs
<1> QED
  BY <1>1 DEF Typed, TypeOK, Going, vars, inputs, books, decision, curve

LEMMA NextType == ASSUME Typed, [Next]_vars PROVE Typed'
<1>1. CASE RefusePosition
  BY <1>1, EndType
<1>2. CASE Decide
  BY <1>2, DecideType
<1>3. CASE Execute
  BY <1>3, ExecuteType
<1>4. CASE CloseDay
  BY <1>4, CloseDayType
<1>5. CASE Finish
  BY <1>5, EndType
<1>6. CASE UNCHANGED vars
  BY <1>6, SameType
<1> QED
  BY <1>1, <1>2, <1>3, <1>4, <1>5, <1>6 DEF Next

THEOREM AlwaysTyped == Spec => []Typed
<1>1. Init => Typed
  BY InitType
<1>2. Typed /\ [Next]_vars => Typed'
  BY NextType
<1> QED
  BY <1>1, <1>2, PTL DEF Spec

\* Every variable of a run keeps its type, whatever the market, the strategy and
\* the settings: the sums are integers, the net asset value and the peak stay
\* positive, every position has a market price and every intent a quantity.
THEOREM TypeCorrect == Spec => []TypeOK
<1>1. Typed => TypeOK
  BY DEF Typed
<1> QED
  BY <1>1, AlwaysTyped, PTL

-----------------------------------------------------------------------------
(* Cash and holdings.                                                      *)

LEMMA TimesMonotone ==
    ASSUME NEW a \in Nat, NEW x \in Int, NEW y \in Int, x <= y
    PROVE  a * x <= a * y /\ a * x \in Int /\ a * y \in Int
<1>1. PICK d \in Nat : y = x + d
  <2>1. y - x \in Nat
    OBVIOUS
  <2> QED
    BY <2>1
<1>2. a * (x + d) = a * x + a * d /\ a * d \in Nat /\ a * x \in Int
  OBVIOUS
<1> QED
  BY <1>1, <1>2

LEMMA TimesCancels ==
    ASSUME NEW a \in Nat \ {0}, NEW x \in Int, NEW y \in Int, a * x <= a * y
    PROVE  x <= y
<1>1. SUFFICES ASSUME y + 1 <= x PROVE FALSE
  OBVIOUS
<1>2. a * (y + 1) <= a * x
  BY <1>1, TimesMonotone
<1>3. a * (y + 1) = a * y + a /\ a * y \in Int /\ a * x \in Int
  OBVIOUS
<1> QED
  BY <1>2, <1>3

\* What is paid for a quantity that was affordable, the notional and the commission
\* rounded apart, is beyond the cash by a unit at most.
LEMMA BuyCosts ==
    ASSUME NEW money \in Nat, NEW q \in Nat, NEW p \in Nat, NEW c \in Nat,
           NEW S \in Nat \ {0}, NEW R \in Nat \ {0}, c < R,
           q * (p * (R + c)) <= (money * R) * S
    PROVE  LET n == HalfUp(q * p, S)
               k == HalfUp(n * c, R)
           IN  /\ n + k <= money + 1
               /\ c = 0 => n + k <= money
<1> DEFINE x == q * p
           n == HalfUp(x, S)
           k == HalfUp(n * c, R)
<1>1. x \in Nat /\ x * (R + c) <= (money * R) * S
  <2>1. q * (p * (R + c)) = x * (R + c)
    OBVIOUS
  <2> QED
    BY <2>1
<1> HIDE DEF x
<1>2. n \in Int /\ 2 * (S * n) <= 2 * x + S
  BY <1>1, HalfUpNear
<1>3. x >= 0 => n >= 0
  BY <1>1, HalfUpBetween
<1>4. c = 0 => n <= money
  <2> SUFFICES ASSUME c = 0 PROVE n <= money
    OBVIOUS
  <2>1. R * x <= R * (S * money)
    <3>1. x * (R + c) = R * x /\ (money * R) * S = R * (S * money)
      BY <1>1
    <3> QED
      BY <1>1, <3>1
  <2>2. S * money \in Int
    OBVIOUS
  <2>3. x <= S * money
    <3> DEFINE w == S * money
    <3> HIDE DEF w
    <3> QED
      BY <1>1, <2>1, <2>2, TimesCancels DEF w
  <2>4. S * 0 <= x
    BY <1>1
  <2> QED
    BY <1>1, <2>3, <2>4, HalfUpBetween
<1> HIDE DEF n
<1>5. n * c \in Nat
  BY <1>1, <1>2, <1>3
<1>6. k \in Int /\ 2 * (R * k) <= 2 * (n * c) + R
  BY <1>5, HalfUpNear
<1>7. c = 0 => k <= 0
  <2> SUFFICES ASSUME c = 0 PROVE k <= 0
    OBVIOUS
  <2>1. n * c = 0
    BY <1>2
  <2> QED
    BY <2>1, HalfUpBetween
<1> HIDE DEF k
<1>8. 2 * (n * (R + c)) <= 2 * (money * R) + (R + c)
  <2> DEFINE f == R + c
             v == 2 * (n * f)
             w == 2 * (money * R) + f
  <2>1. f * (2 * (S * n)) <= f * (2 * x + S)
    <3>1. 2 * (S * n) \in Int /\ 2 * x + S \in Int /\ f \in Nat
      BY <1>1, <1>2
    <3> HIDE DEF f
    <3> QED
      BY <1>2, <3>1, TimesMonotone
  <2>2. f * (2 * (S * n)) = S * v
    BY <1>2
  <2>3. f * (2 * x + S) = 2 * (x * f) + S * f
    BY <1>1
  <2>4. S * w = 2 * ((money * R) * S) + S * f
    OBVIOUS
  <2>5. x * f \in Int /\ (money * R) * S \in Int /\ S * f \in Int /\ v \in Int /\ w \in Int
    BY <1>1, <1>2
  <2>6. x * f <= (money * R) * S
    BY <1>1
  <2> HIDE DEF f
  <2>7. S * v <= S * w
    <3> HIDE DEF v, w
    <3> QED
      BY <2>1, <2>2, <2>3, <2>4, <2>5, <2>6
  <2> HIDE DEF v, w
  <2>8. v <= w
    BY <2>5, <2>7, TimesCancels
  <2> QED
    BY <2>8 DEF v, w, f
<1>9. R * (2 * (n + k)) <= R * (2 * money + 3) - 1
  <2>1. n * (R + c) = n * R + n * c /\ n * R \in Int /\ R * k \in Int /\ money * R \in Int
    BY <1>2, <1>5, <1>6
  <2>2. R * (2 * (n + k)) = 2 * (n * R) + 2 * (R * k) /\ R * (2 * money + 3) = 2 * (money * R) + 3 * R
    BY <1>2, <1>6
  <2> QED
    BY <1>5, <1>6, <1>8, <2>1, <2>2
<1>10. n + k <= money + 1
  <2>1. R * (2 * (n + k)) <= R * (2 * money + 3)
    <3>1. R * (2 * money + 3) \in Int
      OBVIOUS
    <3>2. R * (2 * (n + k)) \in Int
      BY <1>2, <1>6
    <3> QED
      BY <1>9, <3>1, <3>2
  <2>2. ~ 2 * (n + k) >= 2 * money + 3
    <3> SUFFICES ASSUME 2 * money + 3 <= 2 * (n + k) PROVE FALSE
      BY <1>2, <1>6
    <3>1. 2 * money + 3 \in Int /\ 2 * (n + k) \in Int
      BY <1>2, <1>6
    <3>2. /\ R * (2 * money + 3) <= R * (2 * (n + k))
          /\ R * (2 * money + 3) \in Int /\ R * (2 * (n + k)) \in Int
      BY <3>1, TimesMonotone
    <3> QED
      BY <1>9, <3>2
  <2> QED
    BY <1>2, <1>6, <2>2
<1> QED
  BY <1>2, <1>4, <1>6, <1>7, <1>10 DEF x, n, k

\* The commission and the tax of a sale, rounded apart, are no more than its notional.
LEMMA SaleCosts ==
    ASSUME NEW n \in Nat, NEW c \in Nat, NEW t \in Nat, NEW R \in Nat \ {0}, c + t < R
    PROVE  HalfUp(n * c, R) + HalfUp(n * t, R) <= n
<1> DEFINE k == HalfUp(n * c, R)
           l == HalfUp(n * t, R)
<1>1. n * c \in Nat /\ n * t \in Nat
  OBVIOUS
<1>2. k \in Int /\ 2 * (R * k) <= 2 * (n * c) + R /\ l \in Int /\ 2 * (R * l) <= 2 * (n * t) + R
  BY <1>1, HalfUpNear
<1>3. CASE n = 0
  <2>1. n * c = 0 /\ n * t = 0
    BY <1>3
  <2>2. k <= 0 /\ l <= 0
    BY <2>1, HalfUpBetween
  <2> QED
    BY <1>2, <1>3, <2>2
<1>4. CASE n > 0
  <2> HIDE DEF k, l
  <2> DEFINE m == c + t
  <2>1. n * m <= n * (R - 1)
    <3>1. m \in Int /\ R - 1 \in Int /\ m <= R - 1
      OBVIOUS
    <3> HIDE DEF m
    <3> QED
      BY <3>1, TimesMonotone
  <2>2. n * m = n * c + n * t /\ n * (R - 1) = R * n - n /\ R * n \in Int
    OBVIOUS
  <2>3. R * (k + l) = R * k + R * l /\ R * k \in Int /\ R * l \in Int
    BY <1>2
  <2>4. R * (k + l) <= R * n - n + R
    BY <1>1, <1>2, <2>1, <2>2, <2>3
  <2>5. ~ n + 1 <= k + l
    <3> SUFFICES ASSUME n + 1 <= k + l PROVE FALSE
      OBVIOUS
    <3>1. R * (n + 1) <= R * (k + l)
      BY <1>2, TimesMonotone
    <3>2. R * (n + 1) = R * n + R
      OBVIOUS
    <3> QED
      BY <1>4, <2>2, <2>3, <2>4, <3>1, <3>2
  <2> QED
    BY <1>2, <2>5 DEF k, l
<1> QED
  BY <1>3, <1>4

Sensible == LotsWorthAUnit /\ SalesPay

Covered ==
    /\ cash >= -1
    /\ settings.commission = 0 => cash >= 0
    /\ \A s \in Symbols : quantities[s] >= 0
    /\ \A i \in DOMAIN trades : trades[i].quantity > 0

\* A whole lot costs a unit of money at least, so that nothing is affordable for a
\* cash balance of minus one; for any other the quantity is paid for.
LEMMA AffordableCovered ==
    ASSUME TypeOK, Sensible, Covered, NEW price \in Nat \ {0},
           price * settings.intent.lot_size >= Scale
    PROVE  /\ affordable_quantity(price) \in Int
           /\ cash >= 0 =>
                /\ affordable_quantity(price) >= 0
                /\ affordable_quantity(price) * (price * (Rate + settings.commission)) <= (cash * Rate) * Scale
           /\ cash < 0 => affordable_quantity(price) = 0
<1> DEFINE lot == settings.intent.lot_size
           c == settings.commission
           a == cash * Rate * Scale
           b == price * (Rate + c) * lot
           r == RoundDown(a, b)
           f == price * (Rate + c)
<1>1. lot \in Nat \ {0} /\ Rate \in Nat \ {0} /\ Scale \in Nat \ {0} /\ c \in Nat /\ cash \in Int
  BY SettingFacts DEF TypeOK
<1>2. f \in Nat \ {0} /\ b = f * lot /\ a = (cash * Rate) * Scale
  BY <1>1
<1>3. price * lot >= Scale /\ cash >= -1 /\ (c = 0 => cash >= 0)
  BY DEF Covered
<1>4. affordable_quantity(price) = r * lot
  BY DEF affordable_quantity
<1>5. b \in Nat \ {0} /\ a \in Int
  <2> HIDE DEF f
  <2>1. f * lot \in Nat \ {0}
    BY <1>1, <1>2
  <2>2. cash * Rate \in Int
    BY <1>1
  <2> QED
    BY <1>1, <1>2, <2>1, <2>2
<1>6. ASSUME cash >= 0 PROVE r \in Int /\ r * lot >= 0 /\ (r * lot) * f <= a
  <2>1. cash * Rate \in Nat
    BY <1>1, <1>6
  <2>2. a >= 0
    BY <1>1, <1>2, <2>1
  <2> HIDE DEF a, b
  <2>3. r \in Int /\ r >= 0 /\ b * r <= a
    BY <1>5, <2>2, RoundDownNear
  <2> HIDE DEF r, f, lot
  <2>4. (r * lot) * f = (f * lot) * r /\ r * lot >= 0
    BY <1>1, <1>2, <2>3
  <2> QED
    BY <1>2, <2>3, <2>4
<1>7. ASSUME cash < 0 PROVE r = 0
  <2>1. cash = -1 /\ c > 0
    BY <1>1, <1>3, <1>7
  <2>2. a = -(Rate * Scale)
    BY <1>1, <1>2, <2>1
  <2>3. b > Rate * Scale
    <3> DEFINE w == price * lot
    <3>1. w \in Nat /\ w >= Scale /\ b = w * (Rate + c)
      BY <1>1, <1>3
    <3> HIDE DEF w, b, c, lot
    <3>2. w * (Rate + c) = Rate * w + w * c
      BY <1>1, <3>1
    <3>3. Rate * Scale <= Rate * w
      BY <1>1, <3>1, TimesMonotone
    <3>4. w * 1 <= w * c
      BY <1>1, <2>1, <3>1, TimesMonotone
    <3>5. Rate * w \in Int /\ w * c \in Int /\ Rate * Scale \in Int
      BY <1>1, <3>1
    <3> QED
      BY <1>1, <3>1, <3>2, <3>3, <3>4, <3>5
  <2>4. Rate * Scale \in Nat
    BY <1>1
  <2>5. -b < a /\ a <= 0
    <3> HIDE DEF a, b
    <3> QED
      BY <1>5, <2>2, <2>3, <2>4
  <2> HIDE DEF a, b
  <2> QED
    BY <1>5, <2>5, RoundDownNear
<1> HIDE DEF a, b
<1>8. r \in Int
  BY <1>5, RoundDownNear
<1> HIDE DEF r
<1> QED
  <2>1. affordable_quantity(price) \in Int
    BY <1>1, <1>4, <1>8
  <2>2. ASSUME cash >= 0
        PROVE  /\ affordable_quantity(price) >= 0
               /\ affordable_quantity(price) * (price * (Rate + c)) <= (cash * Rate) * Scale
    BY <1>2, <1>4, <1>6, <2>2
  <2>3. ASSUME cash < 0 PROVE affordable_quantity(price) = 0
    BY <1>1, <1>4, <1>7, <2>3
  <2> QED
    BY <2>1, <2>2, <2>3

\* A fill buys or sells something, and a sale no more than is held.
LEMMA FillQuantity ==
    ASSUME Typed, Sensible, Covered, phase = "trade", NEW intent \in Intent, Fillable(intent)
    PROVE  /\ QuantityOf(intent) \in Nat \ {0}
           /\ intent.side = "BUY" =>
                /\ cash >= 0
                /\ QuantityOf(intent) * (PriceOf(intent) * (Rate + settings.commission)) <= (cash * Rate) * Scale
           /\ intent.side = "SELL" => QuantityOf(intent) <= quantities[intent.symbol]
<1> DEFINE bar == BarOf(intent)
           price == PriceOf(intent)
           q == QuantityOf(intent)
           afford == affordable_quantity(price)
           share == volume_limited_quantity(bar.volume)
           c == settings.commission
<1>1. TypeOK /\ intent.quantity \in Nat \ {0} /\ intent.symbol \in Symbols /\ intent.side \in {"BUY", "SELL"}
  BY DEF Typed, Intent
<1>2. /\ bar \in Bar /\ price \in Int /\ (intent.side = "BUY" => price >= bar.open)
      /\ q \in Int /\ q # 0
      /\ q = Smaller(intent.quantity, Smaller(share, IF intent.side = "BUY" THEN afford
                                                     ELSE quantities[intent.symbol]))
  BY FillType
<1>3. bar.open \in Nat \ {0} /\ share \in Nat
  BY <1>1, <1>2, VolumeType DEF Bar
<1>4. CASE intent.side = "BUY"
  <2>1. price \in Nat \ {0} /\ price >= bar.open
    BY <1>2, <1>3, <1>4
  <2>2. price * settings.intent.lot_size >= Scale
    <3> DEFINE lot == settings.intent.lot_size
    <3>1. lot \in Nat \ {0} /\ Scale \in Nat
      BY <1>1, SettingFacts
    <3>2. bar.open * lot >= Scale
      <4>1. bar # NoBar /\ bar = market[intent.symbol][execution_day]
        BY DEF Fillable, BarOf
      <4>2. execution_day \in Days
        BY NowIsADay
      <4> QED
        BY <1>1, <4>1, <4>2 DEF Sensible, LotsWorthAUnit
    <3> HIDE DEF lot, bar, price
    <3>3. lot * bar.open <= lot * price
      BY <1>3, <2>1, <3>1, TimesMonotone
    <3>4. lot * bar.open = bar.open * lot /\ lot * price = price * lot /\ lot * price \in Int /\ lot * bar.open \in Int
      BY <1>3, <2>1, <3>1
    <3> QED
      BY <3>1, <3>2, <3>3, <3>4 DEF lot
  <2>3. /\ afford \in Int
        /\ cash >= 0 => afford >= 0 /\ afford * (price * (Rate + c)) <= (cash * Rate) * Scale
        /\ cash < 0 => afford = 0
    BY <1>1, <2>1, <2>2, AffordableCovered
  <2>4. q = Smaller(intent.quantity, Smaller(share, afford))
    BY <1>2, <1>4
  <2>5. cash \in Int /\ Rate \in Nat \ {0} /\ Scale \in Nat \ {0} /\ c \in Nat
    BY <1>1, SettingFacts DEF TypeOK
  <2> DEFINE f == price * (Rate + c)
  <2>6. f \in Nat
    BY <2>1, <2>5
  <2> HIDE DEF q, afford, share, price, c
  <2>7. cash >= 0 /\ afford >= 0
    BY <1>1, <1>2, <1>3, <2>3, <2>4, <2>5 DEF Smaller
  <2>8. q > 0 /\ q <= afford
    BY <1>1, <1>2, <1>3, <2>3, <2>4, <2>7 DEF Smaller
  <2>9. q * f <= (cash * Rate) * Scale
    <3>1. afford * f <= (cash * Rate) * Scale
      BY <2>3, <2>7
    <3> HIDE DEF f
    <3>2. f * q <= f * afford /\ f * q \in Int /\ f * afford \in Int
      BY <1>2, <2>3, <2>6, <2>8, TimesMonotone
    <3>3. f * q = q * f /\ f * afford = afford * f
      BY <1>2, <2>3, <2>6
    <3>4. (cash * Rate) * Scale \in Int
      BY <2>5
    <3> QED
      BY <3>1, <3>2, <3>3, <3>4
  <2> QED
    BY <1>2, <1>4, <2>7, <2>8, <2>9 DEF q, f, price, c
<1>5. CASE intent.side = "SELL"
  <2> DEFINE held == quantities[intent.symbol]
  <2>1. held \in Int /\ held >= 0
    BY <1>1 DEF Covered, TypeOK
  <2>2. q = Smaller(intent.quantity, Smaller(share, held))
    BY <1>2, <1>5
  <2> HIDE DEF q, held, share
  <2>3. q > 0 /\ q <= held
    BY <1>1, <1>2, <1>3, <2>1, <2>2 DEF Smaller
  <2> QED
    BY <1>2, <1>5, <2>3 DEF q, held
<1> QED
  BY <1>1, <1>4, <1>5

LEMMA FillCovered ==
    ASSUME Typed, Sensible, Covered, phase = "trade", NEW intent \in Intent, Fill(intent)
    PROVE  /\ cash' >= -1
           /\ settings.commission = 0 => cash' >= 0
           /\ \A s \in Symbols : quantities'[s] >= 0
           /\ \A i \in DOMAIN trades' : trades'[i].quantity > 0
<1> DEFINE q == QuantityOf(intent)
           p == PriceOf(intent)
           n == NotionalOf(intent)
           s == intent.symbol
           t == TradeOf(intent)
           c == settings.commission
           fee == Commission(n)
           tax == sell_tax(n, intent.side)
<1>1. /\ Fillable(intent) /\ Book(intent, q, p) /\ Pay(intent, n) /\ trades' = Append(trades, t)
  BY FillFacts
<1>2. TypeOK /\ s \in Symbols /\ intent.side \in {"BUY", "SELL"}
  BY DEF Typed, Intent
<1>3. /\ q \in Nat \ {0}
      /\ intent.side = "BUY" => cash >= 0 /\ q * (p * (Rate + c)) <= (cash * Rate) * Scale
      /\ intent.side = "SELL" => q <= quantities[s]
  BY <1>1, FillQuantity
<1>4. p \in Nat
  BY <1>1, FillType DEF Sensible, SalesPay
<1>5. /\ Rate \in Nat \ {0} /\ Scale \in Nat \ {0} /\ c \in Nat /\ settings.sell_tax \in Nat /\ cash \in Int
      /\ quantities \in [Symbols -> Int]
  BY <1>2, SettingFacts DEF TypeOK
<1>6. c + settings.sell_tax < Rate
  BY DEF Sensible, SalesPay
<1>7. t.quantity = q /\ t \in Trade
  BY <1>1, TradeType DEF TradeOf
<1>8. n = HalfUp(q * p, Scale) /\ fee = HalfUp(n * c, Rate)
      /\ tax = IF intent.side = "BUY" THEN 0 ELSE HalfUp(n * settings.sell_tax, Rate)
  BY DEF NotionalOf, Notional, Commission, sell_tax
<1>9. n \in Int /\ fee \in Int /\ tax \in Int
  BY <1>2, <1>3, <1>4, MoneyType DEF NotionalOf
<1>10. cash' = IF intent.side = "BUY" THEN cash - n - fee ELSE cash + n - fee - tax
  BY <1>1 DEF Pay, Bought
<1>11. quantities' = [quantities EXCEPT ![s] = IF intent.side = "BUY" THEN @ + q ELSE @ - q]
  BY <1>1 DEF Book, Bought
<1> HIDE DEF q, p, s, t, c
<1>12. ASSUME intent.side = "BUY"
       PROVE  /\ cash' >= -1
              /\ settings.commission = 0 => cash' >= 0
              /\ \A x \in Symbols : quantities'[x] >= 0
  <2>1. cash \in Nat
    BY <1>3, <1>5, <1>12
  <2>2. c < Rate
    BY <1>5, <1>6
  <2>3. n + fee <= cash + 1 /\ (c = 0 => n + fee <= cash)
    <3>1. LET m == HalfUp(q * p, Scale)
              k == HalfUp(m * c, Rate)
          IN  m + k <= cash + 1 /\ (c = 0 => m + k <= cash)
      BY <1>3, <1>4, <1>5, <1>12, <2>1, <2>2, BuyCosts
    <3> QED
      BY <1>8, <3>1
  <2> HIDE DEF n, fee, tax
  <2>4. cash' >= -1 /\ (c = 0 => cash' >= 0)
    BY <1>5, <1>9, <1>10, <1>12, <2>3
  <2>5. \A x \in Symbols : quantities'[x] >= 0
    <3>1. \A x \in Symbols : quantities[x] >= 0 /\ quantities[x] \in Int
      BY <1>5 DEF Covered
    <3> QED
      BY <1>2, <1>3, <1>5, <1>11, <1>12, <3>1
  <2> QED
    BY <2>4, <2>5 DEF c
<1>13. ASSUME intent.side = "SELL"
       PROVE  /\ cash' >= -1
              /\ settings.commission = 0 => cash' >= 0
              /\ \A x \in Symbols : quantities'[x] >= 0
  <2>1. n \in Nat
    <3>1. q * p \in Nat
      BY <1>3, <1>4
    <3>2. Scale * 0 <= q * p
      BY <1>5, <3>1
    <3>3. 0 <= HalfUp(q * p, Scale)
      BY <1>5, <3>1, <3>2, HalfUpNear
    <3> QED
      BY <1>8, <1>9, <3>3
  <2>2. tax = HalfUp(n * settings.sell_tax, Rate)
    BY <1>8, <1>13
  <2>3. fee + tax <= n
    <3> HIDE DEF n
    <3>1. HalfUp(n * c, Rate) + HalfUp(n * settings.sell_tax, Rate) <= n
      BY <1>5, <1>6, <2>1, SaleCosts
    <3> QED
      BY <1>8, <2>2, <3>1
  <2> HIDE DEF n, fee, tax
  <2>4. cash' >= cash
    BY <1>5, <1>9, <1>10, <1>13, <2>3
  <2>5. cash' \in Int
    BY <1>5, <1>9, <1>10
  <2>6. cash' >= -1 /\ (c = 0 => cash' >= 0)
    BY <1>5, <2>4, <2>5 DEF Covered, c
  <2>7. \A x \in Symbols : quantities'[x] >= 0
    <3>1. \A x \in Symbols : quantities[x] >= 0 /\ quantities[x] \in Int
      BY <1>5 DEF Covered
    <3>2. q <= quantities[s]
      BY <1>3, <1>13
    <3> QED
      BY <1>2, <1>3, <1>5, <1>11, <1>13, <3>1, <3>2
  <2> QED
    BY <2>6, <2>7 DEF c
<1>14. \A i \in DOMAIN trades' : trades'[i].quantity > 0
  <2>1. trades \in Seq(Trade) /\ \A i \in DOMAIN trades : trades[i].quantity > 0
    BY <1>2 DEF Covered, TypeOK
  <2> QED
    BY <1>1, <1>3, <1>7, <2>1
<1> QED
  BY <1>2, <1>12, <1>13, <1>14

SoundInv == Typed /\ (Sensible => Covered)

LEMMA SameSense == ASSUME UNCHANGED inputs PROVE Sensible' <=> Sensible
BY DEF Sensible, LotsWorthAUnit, SalesPay, inputs

LEMMA SoundInit == ASSUME Init PROVE SoundInv
<1>1. Typed
  BY InitType
<1>2. settings.initial_cash \in Nat \ {0}
  BY <1>1, SettingFacts DEF Typed
<1>3. cash = settings.initial_cash /\ quantities = [s \in Symbols |-> 0] /\ trades = <<>>
  BY DEF Init
<1>4. Covered
  BY <1>2, <1>3 DEF Covered
<1> QED
  BY <1>1, <1>4 DEF SoundInv

LEMMA SoundNext == ASSUME SoundInv, [Next]_vars PROVE SoundInv'
<1>1. Typed /\ Typed'
  BY NextType DEF SoundInv
<1>2. UNCHANGED inputs
  <2>1. Execute => UNCHANGED inputs
    BY DEF Execute
  <2> QED
    BY <2>1 DEF Next, RefusePosition, Decide, CloseDay, Finish, vars
<1>3. SUFFICES ASSUME Sensible PROVE Covered'
  BY <1>1, <1>2, SameSense DEF SoundInv
<1>4. Covered
  BY <1>3 DEF SoundInv
<1>5. settings' = settings
  BY <1>2 DEF inputs
<1>6. CASE UNCHANGED <<books, trades>>
  BY <1>4, <1>5, <1>6 DEF Covered, books
<1>7. CASE Execute
  <2>1. phase = "trade" /\ next \in Nat /\ next <= Len(intents) /\ intents \in Seq(Intent) /\ next >= 1
    BY <1>1, <1>7 DEF Execute, Typed, TypeOK
  <2>2. intents[next] \in Intent
    BY <2>1
  <2>3. CASE Skip(intents[next])
    BY <1>6, <2>3 DEF Skip
  <2>4. CASE Fill(intents[next])
    <3>1. /\ cash' >= -1
          /\ settings.commission = 0 => cash' >= 0
          /\ \A s \in Symbols : quantities'[s] >= 0
          /\ \A i \in DOMAIN trades' : trades'[i].quantity > 0
      BY <1>1, <1>3, <1>4, <2>1, <2>2, <2>4, FillCovered
    <3> QED
      BY <1>5, <3>1 DEF Covered
  <2> QED
    BY <1>7, <2>3, <2>4 DEF Execute
<1>8. \/ Execute \/ UNCHANGED <<books, trades>>
  BY DEF Next, RefusePosition, Decide, CloseDay, Finish, vars
<1> QED
  BY <1>6, <1>7, <1>8

THEOREM AlwaysSound == Spec => []SoundInv
<1>1. Init => SoundInv
  BY SoundInit
<1>2. SoundInv /\ [Next]_vars => SoundInv'
  BY SoundNext
<1> QED
  BY <1>1, <1>2, PTL DEF Spec

\* Where a lot costs at least a unit of money and a sale brings more than its fees,
\* no trade sells what is not held, and none spends more than the cash but for a
\* unit, and for nothing without a commission: affordable_quantity accounts for the
\* commission, and notional and commission are rounded apart.
THEOREM NothingIsShort == Spec => []NeverShort
<1>1. SoundInv => NeverShort
  BY DEF SoundInv, NeverShort, Sensible, Covered
<1> QED
  BY <1>1, AlwaysSound, PTL

-----------------------------------------------------------------------------
(* The drawdown.                                                           *)

IsMost(m, S) == S \subseteq Int /\ m \in S /\ \A y \in S : y <= m
IsLeast(m, S) == S \subseteq Int /\ m \in S /\ \A y \in S : m <= y

LEMMA MostIsMax ==
    ASSUME NEW S, NEW m, IsMost(m, S)
    PROVE  Max(S) = m
<1>1. S \subseteq Int /\ m \in S /\ \A y \in S : y <= m
  BY DEF IsMost
<1>2. Max(S) \in S /\ \A y \in S : Max(S) >= y
  BY <1>1 DEF Max
<1>3. Max(S) >= m /\ Max(S) <= m /\ Max(S) \in Int /\ m \in Int
  BY <1>1, <1>2
<1> QED
  BY <1>3

LEMMA LeastIsMin ==
    ASSUME NEW S, NEW m, IsLeast(m, S)
    PROVE  Min(S) = m
<1>1. S \subseteq Int /\ m \in S /\ \A y \in S : m <= y
  BY DEF IsLeast
<1>2. Min(S) \in S /\ \A y \in S : Min(S) <= y
  BY <1>1 DEF Min
<1>3. Min(S) >= m /\ Min(S) <= m /\ Min(S) \in Int /\ m \in Int
  BY <1>1, <1>2
<1> QED
  BY <1>3

\* What the curve has been at up to a point, and its falls.
Heights(start, c, i) == {start} \cup {c[k].nav : k \in 1 .. i}
FallAt(start, c, i) == HalfUp((c[i].nav - Max(Heights(start, c, i))) * Scale, Max(Heights(start, c, i)))
Falls(start, c) == {0} \cup {FallAt(start, c, i) : i \in DOMAIN c}

CurveInv ==
    /\ Typed
    /\ IsMost(peak_nav, Heights(settings.initial_cash, equity_curve, Len(equity_curve)))
    /\ IsLeast(max_drawdown, Falls(settings.initial_cash, equity_curve))

LEMMA CurveInit == ASSUME Init PROVE CurveInv
<1>1. Typed
  BY InitType
<1>2. settings.initial_cash \in Nat \ {0}
  BY <1>1, SettingFacts DEF Typed
<1>3. peak_nav = settings.initial_cash /\ max_drawdown = 0 /\ equity_curve = <<>>
  BY DEF Init
<1>4. Heights(settings.initial_cash, equity_curve, Len(equity_curve)) = {settings.initial_cash} /\ Falls(settings.initial_cash, equity_curve) = {0}
  <2>1. Len(equity_curve) = 0 /\ DOMAIN equity_curve = {}
    BY <1>3
  <2> QED
    BY <2>1 DEF Heights, Falls
<1> QED
  BY <1>1, <1>2, <1>3, <1>4 DEF CurveInv, IsMost, IsLeast

LEMMA CurveValuation ==
    ASSUME CurveInv, Typed', Valuation, UNCHANGED inputs
    PROVE  CurveInv'
<1> DEFINE start == settings.initial_cash
           n == Len(equity_curve)
           nav == Value(cash, quantities, [s \in Symbols |-> Get(price_map(market, timeline[index]), s)])
           peak == Larger(peak_nav, nav)
           fall == HalfUp((nav - peak) * Scale, peak)
           point == [day |-> timeline[index], nav |-> nav, cash |-> cash]
           grown == Append(equity_curve, point)
<1>1. TypeOK /\ TypeOK'
  BY DEF CurveInv, Typed
<1>2. equity_curve' = grown /\ peak_nav' = peak /\ max_drawdown' = Smaller(max_drawdown, fall)
  BY DEF Valuation
<1>3. settings' = settings
  BY DEF inputs
<1>4. point.nav = nav
  OBVIOUS
<1>5. equity_curve' \in Seq([day : Days, nav : Int, cash : Int]) /\ peak_nav' \in Int
  BY <1>1 DEF TypeOK
<1>6. equity_curve \in Seq([day : Days, nav : Int, cash : Int]) /\ peak_nav \in Int /\ max_drawdown \in Int
  BY <1>1 DEF TypeOK
<1>7. n \in Nat /\ Len(grown) = n + 1 /\ DOMAIN grown = 1 .. n + 1 /\ DOMAIN equity_curve = 1 .. n
      /\ grown[n + 1] = point /\ \A i \in 1 .. n : grown[i] = equity_curve[i]
  BY <1>6
<1>8. nav \in Int
  <2>1. grown[n + 1] \in [day : Days, nav : Int, cash : Int]
    BY <1>2, <1>5, <1>7
  <2> QED
    BY <1>4, <1>7, <2>1
<1> HIDE DEF nav
<1>9. peak \in Nat \ {0} /\ fall \in Int
  <2>1. peak \in Nat \ {0}
    BY <1>1, <1>2 DEF TypeOK
  <2>2. (nav - peak) * Scale \in Int
    BY <1>8, <2>1, ScaleAssumption
  <2> HIDE DEF peak
  <2> QED
    BY <2>1, <2>2, HalfUpType
<1> HIDE DEF n, point, grown, fall
<1>10. IsMost(peak, Heights(start, grown, n + 1))
  <2>1. Heights(start, grown, n + 1) = Heights(start, equity_curve, n) \cup {nav}
    <3>1. {grown[k].nav : k \in 1 .. n + 1} = {equity_curve[k].nav : k \in 1 .. n} \cup {nav}
      BY <1>4, <1>7
    <3> QED
      BY <3>1 DEF Heights
  <2>2. IsMost(peak_nav, Heights(start, equity_curve, n))
    BY DEF CurveInv, n
  <2> QED
    BY <1>6, <1>8, <2>1, <2>2 DEF IsMost, Larger
<1>11. Falls(start, grown) = Falls(start, equity_curve) \cup {fall}
  <2>1. \A i \in 1 .. n : FallAt(start, grown, i) = FallAt(start, equity_curve, i)
    <3> SUFFICES ASSUME NEW i \in 1 .. n PROVE FallAt(start, grown, i) = FallAt(start, equity_curve, i)
      OBVIOUS
    <3>1. \A k \in 1 .. i : grown[k] = equity_curve[k]
      BY <1>7
    <3>2. Heights(start, grown, i) = Heights(start, equity_curve, i)
      BY <3>1 DEF Heights
    <3> QED
      BY <1>7, <3>2 DEF FallAt
  <2>2. FallAt(start, grown, n + 1) = fall
    <3>1. Max(Heights(start, grown, n + 1)) = peak
      BY <1>10, MostIsMax
    <3> QED
      BY <1>4, <1>7, <3>1 DEF FallAt, fall
  <2>3. {FallAt(start, grown, i) : i \in 1 .. n + 1} = {FallAt(start, equity_curve, i) : i \in 1 .. n} \cup {fall}
    BY <1>7, <2>1, <2>2
  <2> QED
    BY <1>7, <2>3 DEF Falls
<1>12. IsLeast(Smaller(max_drawdown, fall), Falls(start, grown))
  <2>1. IsLeast(max_drawdown, Falls(start, equity_curve))
    BY DEF CurveInv
  <2> QED
    BY <1>6, <1>9, <1>11, <2>1 DEF IsLeast, Smaller
<1>13. Len(equity_curve') = n + 1
  BY <1>2, <1>7
<1>14. settings'.initial_cash = start
  BY <1>3
<1>15. Heights(settings'.initial_cash, equity_curve', Len(equity_curve')) = Heights(start, grown, n + 1)
  BY <1>2, <1>13, <1>14
<1>16. Falls(settings'.initial_cash, equity_curve') = Falls(start, grown)
  BY <1>2, <1>14
<1> HIDE DEF start, peak
<1> QED
  BY <1>2, <1>10, <1>12, <1>15, <1>16 DEF CurveInv

LEMMA CurveNext == ASSUME CurveInv, [Next]_vars PROVE CurveInv'
<1>1. Typed /\ Typed'
  BY NextType DEF CurveInv
<1>2. UNCHANGED inputs
  <2>1. Execute => UNCHANGED inputs
    BY DEF Execute
  <2> QED
    BY <2>1 DEF Next, RefusePosition, Decide, CloseDay, Finish, vars
<1>3. CASE Valuation
  BY <1>1, <1>2, <1>3, CurveValuation
<1>4. CASE UNCHANGED curve
  BY <1>1, <1>2, <1>4 DEF CurveInv, inputs, curve
<1>5. Valuation \/ UNCHANGED curve
  <2>1. Execute => UNCHANGED curve
    BY DEF Execute
  <2> QED
    BY <2>1 DEF Next, RefusePosition, Decide, CloseDay, Finish, vars
<1> QED
  BY <1>3, <1>4, <1>5

THEOREM AlwaysOnCurve == Spec => []CurveInv
<1>1. Init => CurveInv
  BY CurveInit
<1>2. CurveInv /\ [Next]_vars => CurveInv'
  BY CurveNext
<1> QED
  BY <1>1, <1>2, PTL DEF Spec

\* The running peak and the running minimum of the loop are those of the whole
\* curve: the reported drawdown is the deepest fall below what the curve, or the
\* initial cash, had been at before.
THEOREM DrawdownIsDeepest == Spec => []DrawdownOfCurve
<1>1. CurveInv => DrawdownOfCurve
  <2> SUFFICES ASSUME CurveInv PROVE DrawdownOfCurve
    OBVIOUS
  <2>1. Min(Falls(settings.initial_cash, equity_curve)) = max_drawdown
    BY LeastIsMin DEF CurveInv
  <2> QED
    BY <2>1 DEF DrawdownOfCurve, Falls, FallAt, Heights
<1> QED
  BY <1>1, AlwaysOnCurve, PTL

-----------------------------------------------------------------------------
(* What the trades add up to.                                              *)

\* What a trade changed the cash by, and what it cost.
CashOf(t) == (IF t.side = "BUY" THEN -t.notional ELSE t.notional) - Commission(t.notional)
                - sell_tax(t.notional, t.side)
CostOf(t) == Commission(t.notional) + sell_tax(t.notional, t.side)

MoneyInv ==
    /\ cash = settings.initial_cash + SumFunction([i \in DOMAIN trades |-> CashOf(trades[i])])
    /\ totals.notional = SumFunction([i \in DOMAIN trades |-> trades[i].notional])
    /\ totals.commission + totals.tax = SumFunction([i \in DOMAIN trades |-> CostOf(trades[i])])

QuantitiesOf(S) == SumFunction([i \in S |-> trades[i].quantity])

HoldingsInv ==
    \A s \in Symbols :
        quantities[s] = QuantitiesOf(TradesOf(s, "BUY")) - QuantitiesOf(TradesOf(s, "SELL"))

LEMMA TradeMoney ==
    ASSUME TypeOK, NEW t \in Trade
    PROVE  /\ t.notional \in Int /\ CashOf(t) \in Int /\ CostOf(t) \in Int
           /\ Commission(t.notional) \in Int /\ sell_tax(t.notional, t.side) \in Int
<1> DEFINE n == t.notional
<1>1. Rate \in Nat \ {0} /\ settings.commission \in Nat /\ settings.sell_tax \in Nat /\ n \in Int
  BY SettingFacts DEF Trade
<1> HIDE DEF n
<1>2. n * settings.commission \in Int /\ n * settings.sell_tax \in Int
  BY <1>1
<1>3. Commission(n) \in Int /\ sell_tax(n, t.side) \in Int
  BY <1>1, <1>2, HalfUpType DEF Commission, sell_tax
<1> QED
  BY <1>1, <1>3 DEF CashOf, CostOf, n

LEMMA SumOfNothing ==
    ASSUME NEW f, DOMAIN f = {}
    PROVE  SumFunction(f) = 0
BY SumOfNone DEF SumFunction

LEMMA SumsInit == ASSUME Init PROVE MoneyInv /\ HoldingsInv
<1>1. Typed
  BY InitType
<1>2. settings.initial_cash \in Nat
  BY <1>1, SettingFacts DEF Typed
<1>3. /\ trades = <<>> /\ cash = settings.initial_cash /\ quantities = [s \in Symbols |-> 0]
      /\ totals.notional = 0 /\ totals.commission = 0 /\ totals.tax = 0
  BY DEF Init
<1>4. DOMAIN trades = {}
  BY <1>3
<1>5. MoneyInv
  BY <1>2, <1>3, <1>4, SumOfNothing DEF MoneyInv
<1>6. \A S : S = {} => QuantitiesOf(S) = 0
  BY SumOfNothing DEF QuantitiesOf
<1>7. HoldingsInv
  BY <1>3, <1>4, <1>6 DEF HoldingsInv, TradesOf
<1> QED
  BY <1>5, <1>7

\* The trades of a run as they grow.
LEMMA FillAppends ==
    ASSUME Typed, phase = "trade", NEW intent \in Intent, Fill(intent)
    PROVE  /\ trades \in Seq(Trade) /\ trades' \in Seq(Trade) /\ Len(trades) \in Nat
           /\ DOMAIN trades = 1 .. Len(trades) /\ DOMAIN trades' = 1 .. Len(trades) + 1
           /\ trades'[Len(trades) + 1] = TradeOf(intent) /\ TradeOf(intent) \in Trade
           /\ \A i \in 1 .. Len(trades) : trades'[i] = trades[i] /\ trades[i] \in Trade
<1>1. Fillable(intent) /\ trades' = Append(trades, TradeOf(intent))
  BY FillFacts
<1>2. trades \in Seq(Trade) /\ trades' \in Seq(Trade) /\ TradeOf(intent) \in Trade
  BY <1>1, BookType, TradeType DEF Typed, TypeOK
<1> QED
  BY <1>1, <1>2

LEMMA FillMoney ==
    ASSUME Typed, phase = "trade", MoneyInv, NEW intent \in Intent, Fill(intent), UNCHANGED inputs
    PROVE  MoneyInv'
<1> DEFINE n == Len(trades)
           t == TradeOf(intent)
           flow == [i \in DOMAIN trades |-> CashOf(trades[i])]
           nots == [i \in DOMAIN trades |-> trades[i].notional]
           cost == [i \in DOMAIN trades |-> CostOf(trades[i])]
           flow2 == [i \in DOMAIN trades' |-> CashOf(trades'[i])]
           nots2 == [i \in DOMAIN trades' |-> trades'[i].notional]
           cost2 == [i \in DOMAIN trades' |-> CostOf(trades'[i])]
<1>1. /\ trades \in Seq(Trade) /\ trades' \in Seq(Trade) /\ n \in Nat
      /\ DOMAIN trades = 1 .. n /\ DOMAIN trades' = 1 .. n + 1
      /\ trades'[n + 1] = t /\ t \in Trade
      /\ \A i \in 1 .. n : trades'[i] = trades[i] /\ trades[i] \in Trade
  BY FillAppends
<1>2. settings' = settings /\ TypeOK
  BY DEF inputs, Typed
<1>3. \A x \in Trade : x.notional \in Int /\ CashOf(x) \in Int /\ CostOf(x) \in Int
  BY <1>2, TradeMoney
<1>4. /\ Pay(intent, NotionalOf(intent)) /\ t.notional = NotionalOf(intent) /\ t.side = intent.side
      /\ totals' = [totals EXCEPT
                !.day = @ + NotionalOf(intent),
                !.notional = @ + NotionalOf(intent),
                !.commission = @ + Commission(NotionalOf(intent)),
                !.tax = @ + sell_tax(NotionalOf(intent), intent.side),
                !.slippage_cost = @ + HalfUp((IF Bought(intent) THEN PriceOf(intent) - BarOf(intent).open
                                              ELSE BarOf(intent).open - PriceOf(intent)) * QuantityOf(intent), Scale)]
  BY FillFacts DEF TradeOf
<1>5. t.notional \in Int /\ Commission(t.notional) \in Int /\ sell_tax(t.notional, t.side) \in Int
  BY <1>1, <1>2, TradeMoney
<1>6. cash' = cash + CashOf(t)
  <2>1. cash \in Int
    BY <1>2 DEF TypeOK
  <2>2. t.side = "BUY" => sell_tax(t.notional, t.side) = 0
    BY DEF sell_tax
  <2> QED
    BY <1>4, <1>5, <2>1, <2>2 DEF Pay, Bought, CashOf
<1>7. /\ totals'.notional = totals.notional + t.notional
      /\ totals'.commission + totals'.tax = totals.commission + totals.tax + CostOf(t)
  <2>1. totals \in Totals
    BY <1>2 DEF TypeOK
  <2>2. totals'.notional = totals.notional + t.notional
    BY <1>4, <2>1 DEF Totals
  <2>3. totals'.commission = totals.commission + Commission(t.notional)
    BY <1>4, <2>1 DEF Totals
  <2>4. totals'.tax = totals.tax + sell_tax(t.notional, t.side)
    BY <1>4, <2>1 DEF Totals
  <2>5. totals.commission \in Int /\ totals.tax \in Int
    BY <2>1 DEF Totals
  <2> QED
    BY <1>5, <2>2, <2>3, <2>4, <2>5 DEF CostOf
<1> HIDE DEF n, t
<1>8. SumFunction(flow2) = SumFunction(flow) + CashOf(t) /\ SumFunction(flow) \in Int
  <2>1. \A i \in 1 .. n : flow2[i] = flow[i]
    BY <1>1
  <2>2. \A i \in 1 .. n + 1 : flow2[i] \in Int
    BY <1>1, <1>3
  <2>3. flow2[n + 1] = CashOf(t) /\ DOMAIN flow = 1 .. n /\ DOMAIN flow2 = 1 .. n + 1
    BY <1>1
  <2> HIDE DEF flow, flow2
  <2> QED
    BY <1>1, <2>1, <2>2, <2>3, SumAppend
<1>9. SumFunction(nots2) = SumFunction(nots) + t.notional
  <2>1. \A i \in 1 .. n : nots2[i] = nots[i]
    BY <1>1
  <2>2. \A i \in 1 .. n + 1 : nots2[i] \in Int
    BY <1>1, <1>3
  <2>3. nots2[n + 1] = t.notional /\ DOMAIN nots = 1 .. n /\ DOMAIN nots2 = 1 .. n + 1
    BY <1>1
  <2> HIDE DEF nots, nots2
  <2> QED
    BY <1>1, <2>1, <2>2, <2>3, SumAppend
<1>10. SumFunction(cost2) = SumFunction(cost) + CostOf(t)
  <2>1. \A i \in 1 .. n : cost2[i] = cost[i]
    BY <1>1
  <2>2. \A i \in 1 .. n + 1 : cost2[i] \in Int
    BY <1>1, <1>3
  <2>3. cost2[n + 1] = CostOf(t) /\ DOMAIN cost = 1 .. n /\ DOMAIN cost2 = 1 .. n + 1
    BY <1>1
  <2> HIDE DEF cost, cost2
  <2> QED
    BY <1>1, <2>1, <2>2, <2>3, SumAppend
<1>11. /\ cash = settings.initial_cash + SumFunction(flow)
       /\ totals.notional = SumFunction(nots)
       /\ totals.commission + totals.tax = SumFunction(cost)
  BY DEF MoneyInv
<1>12. /\ cash' = settings'.initial_cash + SumFunction(flow2)
       /\ totals'.notional = SumFunction(nots2)
       /\ totals'.commission + totals'.tax = SumFunction(cost2)
  <2>1. settings.initial_cash \in Int /\ CashOf(t) \in Int
    BY <1>1, <1>2, <1>3, SettingFacts
  <2> HIDE DEF flow, flow2, nots, nots2, cost, cost2
  <2> QED
    BY <1>2, <1>6, <1>7, <1>8, <1>9, <1>10, <1>11, <2>1
<1>13. /\ flow2 = [i \in DOMAIN trades |-> CashOf(trades[i])]'
       /\ cost2 = [i \in DOMAIN trades |-> CostOf(trades[i])]'
  BY <1>2 DEF CashOf, CostOf, Commission, sell_tax
<1> HIDE DEF flow2, cost2
<1> QED
  BY <1>12, <1>13 DEF MoneyInv

\* The trades of a symbol and a side: the new trade joins its own.
LEMMA FillJoins ==
    ASSUME Typed, phase = "trade", NEW intent \in Intent, Fill(intent), NEW s \in Symbols, NEW side
    PROVE  LET n == Len(trades)
               S == TradesOf(s, side)
           IN  /\ IsFiniteSet(S) /\ n + 1 \notin S /\ S \subseteq 1 .. n
               /\ TradesOf(s, side)' = IF s = intent.symbol /\ side = intent.side THEN S \cup {n + 1} ELSE S
<1> DEFINE n == Len(trades)
           S == TradesOf(s, side)
<1>1. /\ n \in Nat /\ DOMAIN trades = 1 .. n /\ DOMAIN trades' = 1 .. n + 1
      /\ trades'[n + 1] = TradeOf(intent)
      /\ \A i \in 1 .. n : trades'[i] = trades[i]
  BY FillAppends
<1>2. S \subseteq 1 .. n
  BY <1>1 DEF TradesOf
<1>3. IsFiniteSet(S)
  <2>1. IsFiniteSet(1 .. n)
    BY <1>1, FS_Interval
  <2> HIDE DEF n, S
  <2> QED
    BY <1>2, <2>1, FS_Subset
<1>4. TradeOf(intent).symbol = intent.symbol /\ TradeOf(intent).side = intent.side
  BY DEF TradeOf
<1>5. TradesOf(s, side)' = IF s = intent.symbol /\ side = intent.side THEN S \cup {n + 1} ELSE S
  <2>1. TradesOf(s, side)' = {i \in DOMAIN trades' : trades'[i].symbol = s /\ trades'[i].side = side}
    BY DEF TradesOf
  <2>2. S = {i \in 1 .. n : trades[i].symbol = s /\ trades[i].side = side}
    BY <1>1 DEF TradesOf
  <2>3. 1 .. n + 1 = (1 .. n) \cup {n + 1}
    BY <1>1
  <2> HIDE DEF n, S
  <2> QED
    BY <1>1, <1>4, <2>1, <2>2, <2>3
<1> QED
  BY <1>1, <1>2, <1>3, <1>5

LEMMA FillHoldings ==
    ASSUME Typed, phase = "trade", HoldingsInv, NEW intent \in Intent, Fill(intent)
    PROVE  HoldingsInv'
<1> DEFINE n == Len(trades)
           t == TradeOf(intent)
           q == QuantityOf(intent)
<1>1. /\ n \in Nat /\ trades'[n + 1] = t /\ t \in Trade
      /\ \A i \in 1 .. n : trades'[i] = trades[i] /\ trades[i] \in Trade
  BY FillAppends
<1>2. t.quantity = q /\ q \in Int /\ intent.side \in {"BUY", "SELL"} /\ intent.symbol \in Symbols
  BY <1>1 DEF TradeOf, Trade, Intent
<1>3. quantities' = [quantities EXCEPT ![intent.symbol] = IF intent.side = "BUY" THEN @ + q ELSE @ - q]
  BY FillFacts DEF Book, Bought
<1>4. quantities \in [Symbols -> Int]
  BY DEF Typed, TypeOK
<1>5. \A s \in Symbols, side \in {"BUY", "SELL"} :
        /\ QuantitiesOf(TradesOf(s, side)) \in Int
        /\ QuantitiesOf(TradesOf(s, side))' =
             QuantitiesOf(TradesOf(s, side))
                + (IF s = intent.symbol /\ side = intent.side THEN q ELSE 0)
  <2> SUFFICES ASSUME NEW s \in Symbols, NEW side \in {"BUY", "SELL"}
               PROVE  /\ QuantitiesOf(TradesOf(s, side)) \in Int
                      /\ QuantitiesOf(TradesOf(s, side))' =
                            QuantitiesOf(TradesOf(s, side))
                                + (IF s = intent.symbol /\ side = intent.side THEN q ELSE 0)
    OBVIOUS
  <2> DEFINE S == TradesOf(s, side)
             T == TradesOf(s, side)'
             f == [i \in S |-> trades[i].quantity]
             g == [i \in T |-> trades'[i].quantity]
  <2>1. /\ IsFiniteSet(S) /\ n + 1 \notin S /\ S \subseteq 1 .. n
        /\ T = IF s = intent.symbol /\ side = intent.side THEN S \cup {n + 1} ELSE S
    BY FillJoins
  <2>2. QuantitiesOf(TradesOf(s, side)) = SumFunction(f) /\ QuantitiesOf(TradesOf(s, side))' = SumFunction(g)
    BY DEF QuantitiesOf
  <2> HIDE DEF S, T, q
  <2>3. \A i \in S : f[i] \in Int
    BY <1>1, <2>1 DEF Trade
  <2>4. DOMAIN f = S /\ DOMAIN g = T /\ (\A i \in S \cap T : g[i] = f[i]) /\ (n + 1 \in T => g[n + 1] = q)
    BY <1>1, <1>2, <2>1
  <2> HIDE DEF f, g
  <2>5. CASE s = intent.symbol /\ side = intent.side
    <3>1. T = S \cup {n + 1}
      BY <2>1, <2>5
    <3>2. (\A i \in S : g[i] = f[i] /\ f[i] \in Int) /\ g[n + 1] = q
      BY <2>3, <2>4, <3>1
    <3> DEFINE e == n + 1
    <3>3. SumFunction(g) = SumFunction(f) + g[e] /\ SumFunction(f) \in Int
      <4>1. e \notin S /\ DOMAIN f = S /\ DOMAIN g = S \cup {e} /\ g[e] \in Int
        BY <1>2, <2>1, <2>4, <3>1, <3>2
      <4> HIDE DEF e
      <4> QED
        BY <2>1, <3>2, <4>1, SumJoin
    <3> QED
      BY <2>2, <2>5, <3>2, <3>3
  <2>6. CASE ~(s = intent.symbol /\ side = intent.side)
    <3>1. T = S
      BY <2>1, <2>6
    <3>2. SumFunctionOnSet(f, S) \in Int /\ SumFunctionOnSet(f, S) = SumFunctionOnSet(g, S)
      BY <2>1, <2>3, <2>4, <3>1, SumType, SumSame
    <3> QED
      BY <2>2, <2>4, <2>6, <3>1, <3>2 DEF SumFunction
  <2> QED
    BY <2>5, <2>6
<1> HIDE DEF q
<1>6. \A s \in Symbols :
        quantities'[s] = QuantitiesOf(TradesOf(s, "BUY"))' - QuantitiesOf(TradesOf(s, "SELL"))'
  <2> SUFFICES ASSUME NEW s \in Symbols
               PROVE  quantities'[s] = QuantitiesOf(TradesOf(s, "BUY"))' - QuantitiesOf(TradesOf(s, "SELL"))'
    OBVIOUS
  <2> DEFINE b == QuantitiesOf(TradesOf(s, "BUY"))
             c == QuantitiesOf(TradesOf(s, "SELL"))
             b2 == QuantitiesOf(TradesOf(s, "BUY"))'
             c2 == QuantitiesOf(TradesOf(s, "SELL"))'
  <2>1. /\ b \in Int /\ b2 = b + (IF s = intent.symbol /\ "BUY" = intent.side THEN q ELSE 0)
        /\ c \in Int /\ c2 = c + (IF s = intent.symbol /\ "SELL" = intent.side THEN q ELSE 0)
    BY <1>5
  <2>2. quantities[s] = b - c
    BY DEF HoldingsInv
  <2> HIDE DEF b, c, b2, c2
  <2> QED
    BY <1>2, <1>3, <1>4, <2>1, <2>2 DEF b2, c2
<1> QED
  BY <1>6 DEF HoldingsInv

\* A held quantity has an average cost between the prices of two of its buys.
CostsInv ==
    \A s \in Symbols :
        /\ quantities[s] = 0 => average_costs[s] = 0
        /\ quantities[s] # 0 =>
             /\ \E i \in TradesOf(s, "BUY") : trades[i].price <= average_costs[s]
             /\ \E j \in TradesOf(s, "BUY") : average_costs[s] <= trades[j].price

\* The average of what is held and of what is bought lies between the two.
LEMMA AverageBetween ==
    ASSUME NEW held \in Nat, NEW old \in Int, NEW q \in Nat \ {0}, NEW p \in Nat
    PROVE  LET avg == HalfUp(held * old + q * p, held + q)
           IN  /\ avg \in Int
               /\ held = 0 => avg = p
               /\ avg >= old \/ avg >= p
               /\ avg <= old \/ avg <= p
<1> DEFINE a == held * old + q * p
           b == held + q
           lo == Smaller(old, p)
           hi == Larger(old, p)
           avg == HalfUp(a, b)
<1>1. a \in Int /\ b \in Nat \ {0} /\ lo \in Int /\ hi \in Int
  BY DEF Smaller, Larger
<1>2. b * lo <= a
  <2>1. lo <= old /\ lo <= p /\ lo \in Int
    BY DEF Smaller
  <2> HIDE DEF lo
  <2>2. held * lo <= held * old /\ held * lo \in Int /\ held * old \in Int
    BY <2>1, TimesMonotone
  <2>3. q * lo <= q * p /\ q * lo \in Int /\ q * p \in Int
    BY <2>1, TimesMonotone
  <2>4. b * lo = held * lo + q * lo
    BY <2>1
  <2> QED
    BY <2>2, <2>3, <2>4
<1>3. a <= b * hi
  <2>1. old <= hi /\ p <= hi /\ hi \in Int
    BY DEF Larger
  <2> HIDE DEF hi
  <2>2. held * old <= held * hi /\ held * hi \in Int /\ held * old \in Int
    BY <2>1, TimesMonotone
  <2>3. q * p <= q * hi /\ q * hi \in Int /\ q * p \in Int
    BY <2>1, TimesMonotone
  <2>4. b * hi = held * hi + q * hi
    BY <2>1
  <2> QED
    BY <2>2, <2>3, <2>4
<1>4. held = 0 => a = b * p
  OBVIOUS
<1> HIDE DEF a, b
<1>5. lo <= avg /\ avg <= hi /\ avg \in Int
  <2> HIDE DEF lo, hi
  <2> QED
    BY <1>1, <1>2, <1>3, HalfUpBetween, HalfUpNear
<1>6. held = 0 => avg = p
  <2> SUFFICES ASSUME held = 0 PROVE avg = p
    OBVIOUS
  <2>1. b * p <= a /\ a <= b * p
    BY <1>1, <1>4
  <2>2. p <= avg /\ avg <= p
    BY <1>1, <2>1, HalfUpBetween
  <2> QED
    BY <1>5, <2>2
<1> HIDE DEF avg
<1> QED
  BY <1>5, <1>6 DEF Smaller, Larger, avg, a, b

LEMMA FillCosts ==
    ASSUME Typed, Sensible, Covered, CostsInv, phase = "trade", NEW intent \in Intent, Fill(intent)
    PROVE  CostsInv'
<1> DEFINE n == Len(trades)
           q == QuantityOf(intent)
           p == PriceOf(intent)
           x == intent.symbol
           held == quantities[x]
           old == average_costs[x]
           avg == HalfUp(held * old + q * p, held + q)
<1>1. Fillable(intent) /\ Book(intent, q, p)
  BY FillFacts
<1>2. q \in Nat \ {0} /\ (intent.side = "SELL" => q <= held)
  BY <1>1, FillQuantity
<1>3. p \in Nat
  BY <1>1, FillType DEF Sensible, SalesPay
<1>4. x \in Symbols /\ intent.side \in {"BUY", "SELL"}
  BY DEF Intent
<1>5. quantities \in [Symbols -> Int] /\ average_costs \in [Symbols -> Int] /\ \A s \in Symbols : quantities[s] >= 0
  BY DEF Typed, TypeOK, Covered
<1>6. held \in Nat /\ old \in Int
  BY <1>4, <1>5
<1>7. \A s \in Symbols :
        /\ TradesOf(s, "BUY") \subseteq 1 .. n
        /\ TradesOf(s, "BUY")' = IF s = x /\ intent.side = "BUY" THEN TradesOf(s, "BUY") \cup {n + 1}
                                 ELSE TradesOf(s, "BUY")
  BY FillJoins
<1>8. trades'[n + 1].price = p /\ \A i \in 1 .. n : trades'[i] = trades[i]
  <2>1. trades'[n + 1] = TradeOf(intent) /\ \A i \in 1 .. n : trades'[i] = trades[i]
    BY FillAppends
  <2>2. TradeOf(intent).price = p
    BY DEF TradeOf
  <2> QED
    BY <2>1, <2>2
<1> HIDE DEF n, q, p, x
<1>9. \A s \in Symbols \ {x} :
        /\ quantities'[s] = 0 => average_costs'[s] = 0
        /\ quantities'[s] # 0 =>
             /\ \E i \in TradesOf(s, "BUY")' : trades'[i].price <= average_costs'[s]
             /\ \E j \in TradesOf(s, "BUY")' : average_costs'[s] <= trades'[j].price
  <2> SUFFICES ASSUME NEW s \in Symbols \ {x}
               PROVE  /\ quantities'[s] = 0 => average_costs'[s] = 0
                      /\ quantities'[s] # 0 =>
                           /\ \E i \in TradesOf(s, "BUY")' : trades'[i].price <= average_costs'[s]
                           /\ \E j \in TradesOf(s, "BUY")' : average_costs'[s] <= trades'[j].price
    OBVIOUS
  <2>1. quantities'[s] = quantities[s] /\ average_costs'[s] = average_costs[s]
    BY <1>1, <1>5 DEF Book, x
  <2>2. TradesOf(s, "BUY")' = TradesOf(s, "BUY") /\ TradesOf(s, "BUY") \subseteq 1 .. n
    BY <1>7
  <2>3. /\ quantities[s] = 0 => average_costs[s] = 0
        /\ quantities[s] # 0 =>
             /\ \E i \in TradesOf(s, "BUY") : trades[i].price <= average_costs[s]
             /\ \E j \in TradesOf(s, "BUY") : average_costs[s] <= trades[j].price
    BY DEF CostsInv
  <2> QED
    BY <1>8, <2>1, <2>2, <2>3
<1>10. /\ held = 0 => old = 0
       /\ held # 0 =>
            /\ \E i \in TradesOf(x, "BUY") : trades[i].price <= old
            /\ \E j \in TradesOf(x, "BUY") : old <= trades[j].price
  BY <1>4 DEF CostsInv
<1>11. TradesOf(x, "BUY") \subseteq 1 .. n
  BY <1>4, <1>7
<1>12. CASE intent.side = "BUY"
  <2>1. quantities'[x] = held + q /\ average_costs'[x] = avg
    <3>1. held + q # 0
      BY <1>2, <1>6
    <3>2. /\ quantities' = [quantities EXCEPT ![x] = @ + q]
          /\ average_costs' = [average_costs EXCEPT ![x] =
                IF held + q = 0 THEN 0 ELSE HalfUp(held * @ + q * p, held + q)]
      BY <1>1, <1>12 DEF Book, Bought, x
    <3> QED
      BY <1>4, <1>5, <3>1, <3>2
  <2>2. /\ avg \in Int
        /\ held = 0 => avg = p
        /\ avg >= old \/ avg >= p
        /\ avg <= old \/ avg <= p
    BY <1>2, <1>3, <1>6, AverageBetween
  <2>3. n + 1 \in TradesOf(x, "BUY")' /\ TradesOf(x, "BUY") \subseteq TradesOf(x, "BUY")'
    BY <1>4, <1>7, <1>12
  <2>4. \A i \in TradesOf(x, "BUY") : trades'[i].price = trades[i].price /\ trades[i].price \in Int
    <3>1. \A i \in 1 .. n : trades[i] \in Trade
      BY FillAppends DEF n
    <3> QED
      BY <1>8, <1>11, <3>1 DEF Trade
  <2> HIDE DEF avg, held, old
  <2>5. held + q # 0
    BY <1>2, <1>6
  <2>6. \E i \in TradesOf(x, "BUY")' : trades'[i].price <= avg
    <3>1. CASE avg >= p
      BY <1>3, <1>8, <2>2, <2>3, <3>1
    <3>2. CASE ~ avg >= p
      <4>1. held # 0 /\ avg >= old
        BY <1>3, <2>2, <3>2
      <4>2. PICK i \in TradesOf(x, "BUY") : trades[i].price <= old
        BY <1>10, <4>1
      <4>3. trades'[i].price <= avg
        BY <1>6, <2>2, <2>4, <4>1, <4>2
      <4> QED
        BY <2>3, <4>3
    <3> QED
      BY <3>1, <3>2
  <2>7. \E j \in TradesOf(x, "BUY")' : avg <= trades'[j].price
    <3>1. CASE avg <= p
      BY <1>3, <1>8, <2>2, <2>3, <3>1
    <3>2. CASE ~ avg <= p
      <4>1. held # 0 /\ avg <= old
        BY <1>3, <2>2, <3>2
      <4>2. PICK j \in TradesOf(x, "BUY") : old <= trades[j].price
        BY <1>10, <4>1
      <4>3. avg <= trades'[j].price
        BY <1>6, <2>2, <2>4, <4>1, <4>2
      <4> QED
        BY <2>3, <4>3
    <3> QED
      BY <3>1, <3>2
  <2> QED
    BY <1>9, <2>1, <2>5, <2>6, <2>7 DEF CostsInv
<1>13. CASE intent.side = "SELL"
  <2>1. /\ quantities' = [quantities EXCEPT ![x] = @ - q]
        /\ average_costs' = [average_costs EXCEPT ![x] = IF held = q THEN 0 ELSE @]
    BY <1>1, <1>13 DEF Book, Bought, x
  <2>2. quantities'[x] = held - q /\ average_costs'[x] = IF held = q THEN 0 ELSE old
    BY <1>4, <1>5, <2>1
  <2>3. q <= held /\ TradesOf(x, "BUY")' = TradesOf(x, "BUY")
    BY <1>2, <1>4, <1>7, <1>13
  <2>4. \A i \in TradesOf(x, "BUY") : trades'[i] = trades[i]
    BY <1>8, <1>11
  <2> HIDE DEF held, old
  <2>5. /\ held - q = 0 => held = q
        /\ held - q # 0 => held # q /\ held # 0
    BY <1>2, <1>6, <2>3
  <2>6. /\ quantities'[x] = 0 => average_costs'[x] = 0
        /\ quantities'[x] # 0 =>
             /\ \E i \in TradesOf(x, "BUY")' : trades'[i].price <= average_costs'[x]
             /\ \E j \in TradesOf(x, "BUY")' : average_costs'[x] <= trades'[j].price
    BY <1>10, <2>2, <2>3, <2>4, <2>5
  <2> QED
    BY <1>9, <2>6 DEF CostsInv
<1> QED
  BY <1>4, <1>12, <1>13

ExplainInv == SoundInv /\ MoneyInv /\ HoldingsInv /\ (Sensible => CostsInv)

LEMMA ExplainInit == ASSUME Init PROVE ExplainInv
<1>1. quantities = [s \in Symbols |-> 0] /\ average_costs = [s \in Symbols |-> 0]
  BY DEF Init
<1>2. CostsInv
  BY <1>1 DEF CostsInv
<1> QED
  BY <1>2, SoundInit, SumsInit DEF ExplainInv

LEMMA ExplainNext == ASSUME ExplainInv, [Next]_vars PROVE ExplainInv'
<1>1. SoundInv /\ SoundInv' /\ Typed /\ MoneyInv /\ HoldingsInv
  BY SoundNext DEF ExplainInv, SoundInv
<1>2. UNCHANGED inputs
  <2>1. Execute => UNCHANGED inputs
    BY DEF Execute
  <2> QED
    BY <2>1 DEF Next, RefusePosition, Decide, CloseDay, Finish, vars
<1>3. Sensible' <=> Sensible
  BY <1>2, SameSense
<1>4. settings' = settings
  BY <1>2 DEF inputs
<1>5. ASSUME UNCHANGED <<books, trades>>, UNCHANGED <<totals.notional, totals.commission, totals.tax>>
      PROVE  ExplainInv'
  <2>1. cash' = cash /\ quantities' = quantities /\ average_costs' = average_costs /\ trades' = trades
    BY <1>5 DEF books
  <2>2. MoneyInv'
    <3>1. /\ [i \in DOMAIN trades |-> CashOf(trades[i])]' = [i \in DOMAIN trades |-> CashOf(trades[i])]
          /\ [i \in DOMAIN trades |-> CostOf(trades[i])]' = [i \in DOMAIN trades |-> CostOf(trades[i])]
      BY <1>4, <2>1 DEF CashOf, CostOf, Commission, sell_tax
    <3> QED
      BY <1>1, <1>4, <1>5, <2>1, <3>1 DEF MoneyInv
  <2>3. HoldingsInv'
    BY <1>1, <2>1 DEF HoldingsInv, QuantitiesOf, TradesOf
  <2>4. Sensible => CostsInv'
    <3>1. Sensible => CostsInv
      BY DEF ExplainInv
    <3> QED
      BY <2>1, <3>1 DEF CostsInv, TradesOf
  <2> QED
    BY <1>1, <1>3, <2>2, <2>3, <2>4 DEF ExplainInv
<1>6. CASE Execute
  <2>1. phase = "trade" /\ next \in Nat /\ next <= Len(intents) /\ intents \in Seq(Intent) /\ next >= 1
    BY <1>1, <1>6, MarketAssumption DEF Execute, Typed, TypeOK
  <2>2. intents[next] \in Intent
    BY <2>1
  <2>3. CASE Skip(intents[next])
    <3>1. UNCHANGED <<books, trades>> /\ UNCHANGED <<totals.notional, totals.commission, totals.tax>>
      BY <2>3 DEF Skip
    <3> QED
      BY <1>5, <3>1
  <2>4. CASE Fill(intents[next])
    <3>1. MoneyInv' /\ HoldingsInv'
      BY <1>1, <1>2, <2>1, <2>2, <2>4, FillMoney, FillHoldings
    <3>2. ASSUME Sensible PROVE CostsInv'
      <4>1. Covered /\ CostsInv
        BY <3>2 DEF ExplainInv, SoundInv
      <4> QED
        BY <1>1, <2>1, <2>2, <2>4, <3>2, <4>1, FillCosts
    <3> QED
      BY <1>1, <1>3, <3>1, <3>2 DEF ExplainInv
  <2> QED
    BY <1>6, <2>3, <2>4 DEF Execute
<1>7. Execute \/ (UNCHANGED <<books, trades>> /\ UNCHANGED <<totals.notional, totals.commission, totals.tax>>)
  <2>1. totals \in Totals
    BY <1>1 DEF Typed, TypeOK
  <2>2. Decide => UNCHANGED <<totals.notional, totals.commission, totals.tax>>
    BY <2>1 DEF Decide, Totals
  <2>3. CloseDay => UNCHANGED <<totals.notional, totals.commission, totals.tax>>
    BY <2>1 DEF CloseDay, Totals
  <2>4. Next => Execute \/ UNCHANGED <<books, trades>>
    BY DEF Next, RefusePosition, Decide, CloseDay, Finish
  <2>5. Finish \/ RefusePosition \/ UNCHANGED vars => totals' = totals /\ UNCHANGED <<books, trades>>
    <3>1. UNCHANGED vars => totals' = totals /\ UNCHANGED <<books, trades>>
      BY DEF vars
    <3> QED
      BY <3>1 DEF RefusePosition, Finish
  <2> QED
    BY <2>2, <2>3, <2>4, <2>5 DEF Next
<1> QED
  BY <1>5, <1>6, <1>7

THEOREM AlwaysExplained == Spec => []ExplainInv
<1>1. Init => ExplainInv
  BY ExplainInit
<1>2. ExplainInv /\ [Next]_vars => ExplainInv'
  BY ExplainNext
<1> QED
  BY <1>1, <1>2, PTL DEF Spec

\* The books of a run are what its list of trades adds up to, whatever they are:
\* the cash, the holdings and the reported sums of costs; and where a lot costs a
\* unit of money and a sale pays, an average cost lies between the prices of two buys.
THEOREM TradesExplain == Spec => []TradesExplainBooks
<1>1. ExplainInv => TradesExplainBooks
  <2> SUFFICES ASSUME ExplainInv PROVE TradesExplainBooks
    OBVIOUS
  <2>1. CashFollows
    BY DEF CashFollows, SumOver, ExplainInv, MoneyInv, CashOf
  <2>2. HoldingsFollow
    BY DEF HoldingsFollow, SumOver, ExplainInv, HoldingsInv, QuantitiesOf
  <2>3. TotalsFollow
    BY DEF TotalsFollow, SumOver, ExplainInv, MoneyInv, CostOf
  <2>4. ASSUME Sensible PROVE CostsFollow
    <3>1. CostsInv
      BY <2>4 DEF ExplainInv
    <3> QED
      BY <3>1 DEF CostsFollow, CostsInv
  <2> QED
    BY <2>1, <2>2, <2>3, <2>4 DEF TradesExplainBooks, Sensible
<1> QED
  BY <1>1, AlwaysExplained, PTL

-----------------------------------------------------------------------------
(* The limits of the review.                                               *)

LEMMA MagnitudeFacts ==
    ASSUME NEW x \in Int
    PROVE  /\ Magnitude(x) \in Nat /\ x <= Magnitude(x) /\ -x <= Magnitude(x)
           /\ Magnitude(x) = x \/ Magnitude(x) = -x
           /\ x = 0 => Magnitude(x) = 0
BY DEF Magnitude

LEMMA TimesMagnitude ==
    ASSUME NEW a \in Nat, NEW x \in Int
    PROVE  a * Magnitude(x) = Magnitude(a * x) /\ a * Magnitude(x) \in Nat
<1>1. a * x \in Int /\ a * (-x) = -(a * x)
  OBVIOUS
<1>2. x >= 0 => a * x >= 0
  OBVIOUS
<1>3. x < 0 => a * x <= 0
  <2>1. x < 0 => a * (-x) >= 0
    OBVIOUS
  <2> QED
    BY <1>1, <2>1
<1>4. CASE x >= 0
  <2>1. Magnitude(x) = x
    BY <1>4 DEF Magnitude
  <2>2. Magnitude(a * x) = a * x
    BY <1>1, <1>2, <1>4 DEF Magnitude
  <2> QED
    BY <1>1, <1>2, <1>4, <2>1, <2>2
<1>5. CASE x < 0
  <2>1. Magnitude(x) = -x
    BY <1>5 DEF Magnitude
  <2>2. Magnitude(a * x) = -(a * x)
    BY <1>1, <1>3, <1>5 DEF Magnitude
  <2> QED
    BY <1>1, <1>3, <1>5, <2>1, <2>2
<1> QED
  BY <1>4, <1>5

\* Rounding adds half a unit to a magnitude at most.
LEMMA HalfUpMagnitude ==
    ASSUME NEW a \in Int, NEW b \in Nat \ {0}
    PROVE  2 * (b * Magnitude(HalfUp(a, b))) <= 2 * Magnitude(a) + b
<1> DEFINE h == HalfUp(a, b)
           bh == b * h
<1>1. h \in Int /\ bh \in Int /\ 2 * bh <= 2 * a + b /\ 2 * a <= 2 * bh + b
  BY HalfUpNear
<1>2. b * Magnitude(h) = Magnitude(bh)
  BY <1>1, TimesMagnitude
<1> HIDE DEF bh, h
<1>3. 2 * Magnitude(bh) <= 2 * Magnitude(a) + b
  BY <1>1 DEF Magnitude
<1> QED
  BY <1>2, <1>3 DEF h

\* A weight scaled down by cap / G.
LEMMA ScaledDown ==
    ASSUME NEW o \in Int, NEW cap \in Nat, NEW G \in Nat, cap < G
    PROVE  LET h == HalfUp(o * cap, G)
           IN  /\ h \in Int /\ Magnitude(h) <= Magnitude(o)
               /\ (2 * G) * Magnitude(h) <= (2 * cap) * Magnitude(o) + G
<1> DEFINE a == o * cap
           h == HalfUp(a, G)
<1>1. G \in Nat \ {0} /\ a \in Int
  OBVIOUS
<1>2. h \in Int /\ 2 * (G * Magnitude(h)) <= 2 * Magnitude(a) + G
  BY <1>1, HalfUpNear, HalfUpMagnitude
<1>3. Magnitude(a) = cap * Magnitude(o)
  <2>1. a = cap * o
    OBVIOUS
  <2> HIDE DEF a
  <2> QED
    BY <2>1, TimesMagnitude
<1>4. Magnitude(h) <= Magnitude(o)
  <2>1. CASE o >= 0
    <3>1. G * 0 <= a
      BY <2>1
    <3>2. a <= G * o
      <4>1. o * cap <= o * G /\ o * G = G * o
        BY <2>1, TimesMonotone
      <4> QED
        BY <4>1
    <3> HIDE DEF a
    <3>3. 0 <= h /\ h <= o
      BY <1>1, <3>1, <3>2, HalfUpBetween
    <3> HIDE DEF h
    <3> QED
      BY <1>2, <2>1, <3>3 DEF Magnitude
  <2>2. CASE o < 0
    <3> DEFINE p == -o
    <3>1. p \in Nat /\ o = -p
      BY <2>2
    <3>2. p * cap <= p * G /\ p * cap \in Int /\ p * G \in Int
      BY <3>1, TimesMonotone
    <3>3. a = -(p * cap) /\ G * o = -(p * G)
      OBVIOUS
    <3>4. p * cap >= 0
      BY <3>1
    <3> HIDE DEF a, p
    <3>5. G * o <= a /\ a <= G * 0
      BY <3>2, <3>3, <3>4
    <3>6. o <= h /\ h <= 0
      BY <1>1, <3>5, HalfUpBetween
    <3> HIDE DEF h
    <3> QED
      BY <1>2, <2>2, <3>6 DEF Magnitude
  <2> QED
    BY <2>1, <2>2
<1>5. (2 * G) * Magnitude(h) = 2 * (G * Magnitude(h)) /\ (2 * cap) * Magnitude(o) = 2 * (cap * Magnitude(o))
  <2>1. Magnitude(h) \in Nat /\ Magnitude(o) \in Nat
    BY <1>2, MagnitudeFacts
  <2> HIDE DEF h
  <2> QED
    BY <2>1
<1> HIDE DEF a, h
<1>6. /\ h \in Int /\ Magnitude(h) <= Magnitude(o)
      /\ (2 * G) * Magnitude(h) <= (2 * cap) * Magnitude(o) + G
  BY <1>2, <1>3, <1>4, <1>5
<1> QED
  BY <1>6 DEF h, a

\* A weight moved from c towards w by M / T.
LEMMA MovedTowards ==
    ASSUME NEW c \in Int, NEW w \in Int, NEW M \in Nat, NEW T \in Nat, M < T
    PROVE  LET h == HalfUp(c * T + (w - c) * M, T)
           IN  /\ h \in Int /\ Magnitude(h) <= Larger(Magnitude(w), Magnitude(c))
               /\ (2 * T) * Magnitude(h - c) <= (2 * M) * Magnitude(w - c) + T
               /\ (2 * T) * Magnitude(h) <= (2 * (T - M)) * Magnitude(c) + (2 * M) * Magnitude(w) + T
<1> DEFINE a == c * T + (w - c) * M
           h == HalfUp(a, T)
           rest == T - M
           x == rest * c
           y == M * w
           z == M * (w - c)
<1>1. T \in Nat \ {0} /\ rest \in Nat /\ a \in Int /\ x \in Int /\ y \in Int /\ z \in Int
  OBVIOUS
<1>2. a = x + y /\ a = T * c + z /\ T * c \in Int
  OBVIOUS
<1>3. /\ h \in Int /\ T * h \in Int /\ 2 * (T * h) <= 2 * a + T /\ 2 * a <= 2 * (T * h) + T
      /\ 2 * (T * Magnitude(h)) <= 2 * Magnitude(a) + T
  <2> HIDE DEF a
  <2> QED
    BY <1>1, HalfUpNear, HalfUpMagnitude
<1>4. Magnitude(h) <= Larger(Magnitude(w), Magnitude(c))
  <2> DEFINE lo == Smaller(w, c)
             hi == Larger(w, c)
  <2>1. lo \in Int /\ hi \in Int /\ lo <= w /\ lo <= c /\ w <= hi /\ c <= hi
    BY DEF Smaller, Larger
  <2> HIDE DEF lo, hi
  <2>2. T * lo <= a
    <3>1. rest * lo <= x /\ rest * lo \in Int
      BY <1>1, <2>1, TimesMonotone
    <3>2. M * lo <= y /\ M * lo \in Int
      BY <2>1, TimesMonotone
    <3>3. T * lo = rest * lo + M * lo
      BY <2>1
    <3> HIDE DEF a, x, y, rest
    <3> QED
      BY <1>1, <1>2, <3>1, <3>2, <3>3
  <2>3. a <= T * hi
    <3>1. x <= rest * hi /\ rest * hi \in Int
      BY <1>1, <2>1, TimesMonotone
    <3>2. y <= M * hi /\ M * hi \in Int
      BY <2>1, TimesMonotone
    <3>3. T * hi = rest * hi + M * hi
      BY <2>1
    <3> HIDE DEF a, x, y, rest
    <3> QED
      BY <1>1, <1>2, <3>1, <3>2, <3>3
  <2> HIDE DEF a
  <2>4. lo <= h /\ h <= hi
    BY <1>1, <2>1, <2>2, <2>3, HalfUpBetween
  <2> HIDE DEF h
  <2> QED
    BY <1>3, <2>4 DEF Magnitude, Smaller, Larger, lo, hi
<1>5. 2 * (T * Magnitude(h - c)) <= 2 * (M * Magnitude(w - c)) + T
  <2>1. T * (h - c) = T * h - T * c
    BY <1>3
  <2>2. T * Magnitude(h - c) = Magnitude(T * (h - c))
    BY <1>1, <1>3, TimesMagnitude
  <2>3. M * Magnitude(w - c) = Magnitude(z)
    BY TimesMagnitude
  <2> DEFINE th == T * h
             tc == T * c
  <2>4. 2 * Magnitude(th - tc) <= 2 * Magnitude(z) + T
    <3>1. th \in Int /\ tc \in Int /\ 2 * th <= 2 * a + T /\ 2 * a <= 2 * th + T /\ a = tc + z
      BY <1>2, <1>3
    <3> HIDE DEF th, tc, a, z
    <3> QED
      BY <1>1, <3>1 DEF Magnitude
  <2> QED
    BY <2>1, <2>2, <2>3, <2>4
<1>6. Magnitude(a) <= rest * Magnitude(c) + M * Magnitude(w)
  <2>1. rest * Magnitude(c) = Magnitude(x) /\ M * Magnitude(w) = Magnitude(y)
    BY <1>1, TimesMagnitude
  <2> HIDE DEF a, x, y, rest
  <2> QED
    BY <1>1, <1>2, <2>1 DEF Magnitude
<1>7. /\ Magnitude(h) \in Nat /\ Magnitude(h - c) \in Nat /\ Magnitude(w - c) \in Nat
      /\ Magnitude(c) \in Nat /\ Magnitude(w) \in Nat
  <2> HIDE DEF h
  <2> QED
    BY <1>3, MagnitudeFacts
<1>8. /\ (2 * T) * Magnitude(h - c) = 2 * (T * Magnitude(h - c))
      /\ (2 * M) * Magnitude(w - c) = 2 * (M * Magnitude(w - c))
      /\ (2 * T) * Magnitude(h) = 2 * (T * Magnitude(h))
      /\ (2 * (T - M)) * Magnitude(c) = 2 * (rest * Magnitude(c))
      /\ (2 * M) * Magnitude(w) = 2 * (M * Magnitude(w))
  <2> DEFINE hc == Magnitude(h - c)
             wc == Magnitude(w - c)
             mh == Magnitude(h)
             mc == Magnitude(c)
             mw == Magnitude(w)
  <2> HIDE DEF hc, wc, mh, mc, mw
  <2>1. hc \in Nat /\ wc \in Nat /\ mh \in Nat /\ mc \in Nat /\ mw \in Nat
    BY <1>7 DEF hc, wc, mh, mc, mw
  <2>2. /\ (2 * T) * hc = 2 * (T * hc) /\ (2 * M) * wc = 2 * (M * wc) /\ (2 * T) * mh = 2 * (T * mh)
        /\ (2 * (T - M)) * mc = 2 * (rest * mc) /\ (2 * M) * mw = 2 * (M * mw)
    BY <2>1
  <2> QED
    BY <2>2 DEF hc, wc, mh, mc, mw
<1>9. /\ T * Magnitude(h) \in Int /\ rest * Magnitude(c) \in Int /\ M * Magnitude(w) \in Int
  <2> HIDE DEF h
  <2> QED
    BY <1>1, <1>7
<1>10. Magnitude(a) \in Nat
  BY <1>1, MagnitudeFacts
<1>11. (2 * T) * Magnitude(h) <= (2 * (T - M)) * Magnitude(c) + (2 * M) * Magnitude(w) + T
  <2> HIDE DEF h, a, rest
  <2> QED
    BY <1>3, <1>6, <1>8, <1>9, <1>10
<1>12. (2 * T) * Magnitude(h - c) <= (2 * M) * Magnitude(w - c) + T
  BY <1>5, <1>8
<1> QED
  BY <1>3, <1>4, <1>11, <1>12

\* The magnitudes of a dictionary, and of what is between two, over any set of names.
Mags(U, f) == [s \in U |-> Magnitude(Get(f, s))]
Gaps(U, f, g) == [s \in U |-> Magnitude(Get(f, s) - Get(g, s))]
MagsSum(U, f) == SumFunctionOnSet(Mags(U, f), U)
GapsSum(U, f, g) == SumFunctionOnSet(Gaps(U, f, g), U)

LEMMA MagsAre ==
    ASSUME NEW U, NEW f, IsDictionary(f, Int), NEW g, IsDictionary(g, Int), NEW s \in U
    PROVE  /\ Get(f, s) \in Int /\ Get(g, s) \in Int
           /\ Mags(U, f)[s] = Magnitude(Get(f, s)) /\ Mags(U, f)[s] \in Nat
           /\ Gaps(U, f, g)[s] = Magnitude(Get(f, s) - Get(g, s)) /\ Gaps(U, f, g)[s] \in Nat
<1>1. Get(f, s) \in Int /\ Get(g, s) \in Int
  BY GetType
<1>2. Get(f, s) - Get(g, s) \in Int
  BY <1>1
<1> QED
  BY <1>1, <1>2, MagnitudeFacts DEF Mags, Gaps

LEMMA GrossOver ==
    ASSUME NEW U, IsFiniteSet(U), NEW f, IsDictionary(f, Int), DOMAIN f \subseteq U
    PROVE  Gross(f) = MagsSum(U, f)
<1> DEFINE D == DOMAIN f
           m == [s \in D |-> Magnitude(f[s])]
           n == Mags(U, f)
<1>1. Gross(f) = SumFunctionOnSet(m, D)
  BY DEF Gross, SumFunction
<1>2. \A s \in U : n[s] \in Int /\ n[s] = Magnitude(Get(f, s))
  BY MagsAre
<1>3. \A s \in D : m[s] = n[s]
  BY <1>2 DEF Get
<1>4. \A s \in U \ D : n[s] = 0
  BY <1>2 DEF Get, Magnitude
<1>5. D \in SUBSET U /\ IsFiniteSet(D)
  BY FS_Subset
<1> HIDE DEF m, n, D
<1>6. SumFunctionOnSet(m, D) = SumFunctionOnSet(n, D)
  BY <1>3, <1>5, SumSame
<1>7. SumFunctionOnSet(n, U) = SumFunctionOnSet(n, D)
  BY <1>2, <1>4, <1>5, SumExtends
<1> QED
  BY <1>1, <1>6, <1>7 DEF MagsSum, n

LEMMA BetweenOver ==
    ASSUME NEW U, IsFiniteSet(U), NEW f, IsDictionary(f, Int), DOMAIN f \subseteq U,
           NEW g, IsDictionary(g, Int), DOMAIN g \subseteq U
    PROVE  Between(f, g) = GapsSum(U, f, g)
<1> DEFINE D == (DOMAIN f) \cup (DOMAIN g)
           m == [s \in D |-> Magnitude(Get(f, s) - Get(g, s))]
           n == Gaps(U, f, g)
<1>1. Between(f, g) = SumFunctionOnSet(m, D)
  BY DEF Between, SumFunction
<1>2. \A s \in U : n[s] \in Int /\ n[s] = Magnitude(Get(f, s) - Get(g, s))
  <2> SUFFICES ASSUME NEW s \in U PROVE n[s] \in Int /\ n[s] = Magnitude(Get(f, s) - Get(g, s))
    OBVIOUS
  <2>1. Get(f, s) - Get(g, s) \in Int
    BY GetType
  <2> QED
    BY <2>1, MagnitudeFacts DEF Gaps
<1>3. D \in SUBSET U /\ IsFiniteSet(D)
  BY FS_Subset
<1>4. \A s \in D : m[s] = n[s]
  BY <1>2, <1>3
<1>5. \A s \in U \ D : n[s] = 0
  BY <1>2 DEF Get, Magnitude
<1> HIDE DEF m, n, D
<1>6. SumFunctionOnSet(m, D) = SumFunctionOnSet(n, D)
  BY <1>3, <1>4, SumSame
<1>7. SumFunctionOnSet(n, U) = SumFunctionOnSet(n, D)
  BY <1>2, <1>3, <1>5, SumExtends
<1> QED
  BY <1>1, <1>6, <1>7 DEF GapsSum, n

LEMMA SumsOverType ==
    ASSUME NEW U, IsFiniteSet(U), NEW f, IsDictionary(f, Int), NEW g, IsDictionary(g, Int)
    PROVE  MagsSum(U, f) \in Nat /\ GapsSum(U, f, g) \in Nat /\ Cardinality(U) \in Nat
<1>1. \A s \in U : Mags(U, f)[s] \in Nat /\ Gaps(U, f, g)[s] \in Nat
  BY MagsAre
<1> QED
  BY <1>1, SumIsNat, FS_CardinalityType DEF MagsSum, GapsSum

LEMMA SameWithoutZeros ==
    ASSUME NEW f, NEW s
    PROVE  Get(WithoutZeros(f), s) = Get(f, s)
BY DEF Get, WithoutZeros

\* Clipped to the single-name limit.
LEMMA SingleNames ==
    ASSUME NEW f, IsDictionary(f, Int), NEW m \in Nat
    PROVE  /\ IsDictionary(clip_single_name_limits(f, m), Int)
           /\ DOMAIN clip_single_name_limits(f, m) \subseteq DOMAIN f
           /\ \A s : Magnitude(Get(clip_single_name_limits(f, m), s)) <= m
<1> DEFINE g == [s \in DOMAIN f |-> Larger(-m, Smaller(m, f[s]))]
<1>1. IsDictionary(g, Int) /\ \A s \in DOMAIN g : Magnitude(g[s]) <= m
  BY DEF IsDictionary, Larger, Smaller, Magnitude
<1>2. clip_single_name_limits(f, m) = WithoutZeros(g) /\ DOMAIN g = DOMAIN f
  BY DEF clip_single_name_limits
<1> HIDE DEF g
<1>3. IsDictionary(WithoutZeros(g), Int) /\ DOMAIN WithoutZeros(g) \subseteq DOMAIN g
  BY <1>1, WithoutZerosType
<1>4. \A s : Magnitude(Get(g, s)) <= m
  BY <1>1 DEF Get, Magnitude
<1>5. \A s : Magnitude(Get(WithoutZeros(g), s)) <= m
  BY <1>4, SameWithoutZeros
<1> QED
  BY <1>2, <1>3, <1>5

\* Clipped to what the cash buffer leaves: no weight grows, and the sum is within the
\* cap but for the rounding.
LEMMA WithinBuffer ==
    ASSUME NEW U, IsFiniteSet(U), NEW f, IsDictionary(f, Int), DOMAIN f \subseteq U, NEW cap \in Nat
    PROVE  LET g == clip_cash_buffer(f, cap)
           IN  /\ IsDictionary(g, Int) /\ DOMAIN g \subseteq U
               /\ \A s : Magnitude(Get(g, s)) <= Magnitude(Get(f, s))
               /\ 2 * MagsSum(U, g) <= 2 * cap + Cardinality(U)
<1> DEFINE g == clip_cash_buffer(f, cap)
           G == Gross(f)
           k == Cardinality(U)
<1>1. G = MagsSum(U, f) /\ G \in Nat /\ k \in Nat
  BY GrossOver, SumsOverType
<1>2. CASE G <= cap
  <2>1. g = f
    BY <1>2 DEF clip_cash_buffer
  <2>2. \A s : Get(f, s) \in Int
    BY GetType
  <2>3. \A s : Magnitude(Get(f, s)) <= Magnitude(Get(f, s))
    BY <2>2, MagnitudeFacts
  <2> HIDE DEF g, G, k
  <2> QED
    BY <1>1, <1>2, <2>1, <2>3 DEF g, k
<1>3. CASE ~(G <= cap)
  <2> DEFINE e == [s \in DOMAIN f |-> HalfUp(f[s] * cap, G)]
  <2>1. g = WithoutZeros(e)
    BY <1>3 DEF clip_cash_buffer
  <2>2. cap < G /\ G \in Nat \ {0}
    BY <1>1, <1>3
  <2> HIDE DEF g, G, k
  <2>3. ASSUME NEW s
        PROVE  /\ Get(e, s) \in Int /\ Get(f, s) \in Int /\ Magnitude(Get(e, s)) <= Magnitude(Get(f, s))
               /\ (2 * G) * Magnitude(Get(e, s)) <= (2 * cap) * Magnitude(Get(f, s)) + G
    <3>1. CASE s \in DOMAIN f
      <4>1. f[s] \in Int /\ Get(e, s) = HalfUp(f[s] * cap, G) /\ Get(f, s) = f[s]
        BY <3>1 DEF IsDictionary, Get
      <4> HIDE DEF e
      <4> QED
        BY <2>2, <4>1, ScaledDown
    <3>2. CASE s \notin DOMAIN f
      <4>1. Get(e, s) = 0 /\ Get(f, s) = 0 /\ Magnitude(0) = 0
        BY <3>2 DEF Get, Magnitude
      <4> HIDE DEF e
      <4> QED
        BY <2>2, <4>1
    <3> QED
      BY <3>1, <3>2
  <2>4. IsDictionary(e, Int) /\ DOMAIN e = DOMAIN f
    <3>1. \A s \in DOMAIN e : e[s] = Get(e, s)
      BY DEF Get
    <3> QED
      BY <2>3, <3>1 DEF IsDictionary
  <2> HIDE DEF e
  <2>5. IsDictionary(g, Int) /\ DOMAIN g \subseteq U
    BY <2>1, <2>4, WithoutZerosType
  <2>6. \A s : Get(g, s) = Get(e, s)
    BY <2>1, SameWithoutZeros
  <2>7. \A s : Magnitude(Get(g, s)) <= Magnitude(Get(f, s))
    BY <2>3, <2>6
  <2> DEFINE mg == Mags(U, g)
             mf == Mags(U, f)
             B == 2 * cap
  <2>8. \A s \in U : /\ mg[s] \in Int /\ mf[s] \in Int
                     /\ (2 * G) * mg[s] <= B * mf[s] + 0 * mf[s] + G
    <3> SUFFICES ASSUME NEW s \in U
                 PROVE  /\ mg[s] \in Int /\ mf[s] \in Int
                        /\ (2 * G) * mg[s] <= B * mf[s] + 0 * mf[s] + G
      OBVIOUS
    <3>1. mg[s] = Magnitude(Get(g, s)) /\ mg[s] \in Nat /\ mf[s] = Magnitude(Get(f, s)) /\ mf[s] \in Nat
      BY <2>5, MagsAre
    <3>2. (2 * G) * mg[s] <= B * mf[s] + G
      BY <2>3, <2>6, <3>1
    <3> HIDE DEF mg, mf
    <3>3. 0 * mf[s] = 0 /\ B * mf[s] \in Int
      BY <3>1
    <3> HIDE DEF B
    <3> QED
      BY <3>1, <3>2, <3>3
  <2>9. (2 * G) * SumFunctionOnSet(mg, U) <= B * SumFunctionOnSet(mf, U) + 0 * SumFunctionOnSet(mf, U) + G * Cardinality(U)
    <3>1. 2 * G \in Int /\ B \in Int /\ G \in Int /\ 0 \in Int
      BY <1>1
    <3> DEFINE A == 2 * G
    <3> HIDE DEF mg, mf, B, A
    <3>2. Bounded(A, mg, B, mf, 0, mf, G, U)
      BY <2>8 DEF Bounded, A
    <3>3. A \in Int /\ B \in Int /\ G \in Int
      BY <3>1 DEF A
    <3>4. A * SumFunctionOnSet(mg, U) <= B * SumFunctionOnSet(mf, U) + 0 * SumFunctionOnSet(mf, U) + G * Cardinality(U)
      BY <3>2, <3>3, SumBounded
    <3> QED
      BY <3>4 DEF A
  <2> DEFINE sg == MagsSum(U, g)
  <2>10. SumFunctionOnSet(mg, U) = sg /\ SumFunctionOnSet(mf, U) = G /\ sg \in Nat
    BY <1>1, <2>5, SumsOverType DEF MagsSum
  <2> HIDE DEF mg, mf, sg
  <2>11. (2 * G) * sg <= (2 * cap) * G + 0 * G + G * k
    BY <2>9, <2>10 DEF k
  <2>12. G * (2 * sg) <= G * (2 * cap + k)
    <3>1. (2 * G) * sg = G * (2 * sg) /\ (2 * cap) * G + 0 * G + G * k = G * (2 * cap + k)
      BY <1>1, <2>10
    <3> QED
      BY <2>11, <3>1
  <2>13. 2 * sg <= 2 * cap + k
    <3> DEFINE l == 2 * sg
               r == 2 * cap + k
    <3>1. l \in Int /\ r \in Int /\ G * l <= G * r
      BY <1>1, <2>10, <2>12
    <3> HIDE DEF l, r
    <3>2. l <= r
      BY <2>2, <3>1, TimesCancels
    <3> QED
      BY <3>2 DEF l, r
  <2> QED
    BY <2>5, <2>7, <2>13 DEF g, k, sg
<1> QED
  BY <1>2, <1>3

\* Of two sums the mixture by M / T is within the larger, up to the rounding.
LEMMA MixtureWithin ==
    ASSUME NEW M \in Nat, NEW T \in Nat, M < T, NEW g \in Nat, NEW c \in Nat, NEW f \in Nat,
           NEW cap \in Nat, NEW k \in Nat, 2 * f <= 2 * cap + k,
           (2 * T) * g <= (2 * (T - M)) * c + (2 * M) * f + T * k
    PROVE  g <= Larger(cap, c) + k
<1> DEFINE l == Larger(cap, c)
           rest == T - M
<1>1. l \in Nat /\ cap <= l /\ c <= l
  BY DEF Larger
<1> HIDE DEF l
<1>2. rest * c <= rest * l /\ rest * c \in Int /\ rest * l \in Int
  BY <1>1, TimesMonotone
<1>3. M * (2 * f) <= M * (2 * l + k)
  <2> DEFINE u == 2 * f
             v == 2 * l + k
  <2>1. u \in Int /\ v \in Int /\ u <= v
    BY <1>1
  <2> HIDE DEF u, v
  <2>2. M * u <= M * v
    BY <2>1, TimesMonotone
  <2> QED
    BY <2>2 DEF u, v
<1>4. M * k <= T * k
  <2>1. k * M <= k * T /\ k * M = M * k /\ k * T = T * k
    BY TimesMonotone
  <2> QED
    BY <2>1
<1>5. /\ M * (2 * l + k) = 2 * (M * l) + M * k /\ (2 * M) * f = M * (2 * f)
      /\ (2 * rest) * c = 2 * (rest * c) /\ rest * l = T * l - M * l
      /\ (2 * T) * g = T * (2 * g) /\ T * (2 * (l + k)) = 2 * (T * l) + 2 * (T * k)
  BY <1>1
<1>6. /\ M * l \in Int /\ M * k \in Int /\ T * l \in Int /\ T * k \in Int /\ T * (2 * g) \in Int
      /\ M * (2 * f) \in Int
  BY <1>1
<1>7. T * (2 * g) <= T * (2 * (l + k))
  <2>1. (2 * T) * g <= (2 * rest) * c + (2 * M) * f + T * k
    OBVIOUS
  <2> HIDE DEF rest
  <2> QED
    BY <1>2, <1>3, <1>4, <1>5, <1>6, <2>1
<1>8. 2 * g <= 2 * (l + k)
  <2> DEFINE u == 2 * g
             v == 2 * (l + k)
  <2>1. u \in Int /\ v \in Int /\ T * u <= T * v /\ T \in Nat \ {0}
    BY <1>1, <1>7
  <2> HIDE DEF u, v
  <2>2. u <= v
    BY <2>1, TimesCancels
  <2> QED
    BY <2>2 DEF u, v
<1> QED
  BY <1>1, <1>8 DEF l

\* Moved towards the current weights to the turnover limit.
LEMMA WithinTurnover ==
    ASSUME NEW U, IsFiniteSet(U), NEW f, IsDictionary(f, Int), DOMAIN f \subseteq U,
           NEW c, IsDictionary(c, Int), DOMAIN c \subseteq U, NEW M \in Nat,
           NEW cap \in Nat, 2 * MagsSum(U, f) <= 2 * cap + Cardinality(U)
    PROVE  LET g == clip_turnover(f, c, M)
           IN  /\ IsDictionary(g, Int) /\ DOMAIN g \subseteq U
               /\ \A s : Magnitude(Get(g, s)) <= Larger(Magnitude(Get(f, s)), Magnitude(Get(c, s)))
               /\ 2 * GapsSum(U, g, c) <= 2 * M + Cardinality(U)
               /\ MagsSum(U, g) <= Larger(cap, MagsSum(U, c)) + Cardinality(U)
<1> DEFINE g == clip_turnover(f, c, M)
           T == Between(f, c)
           k == Cardinality(U)
           sf == MagsSum(U, f)
           sc == MagsSum(U, c)
<1>1. T = GapsSum(U, f, c)
  BY BetweenOver
<1>2. GapsSum(U, f, c) \in Nat /\ sf \in Nat /\ k \in Nat
  BY SumsOverType
<1>3. sc \in Nat
  BY SumsOverType
<1>4. \A s : Get(f, s) \in Int /\ Get(c, s) \in Int
  BY GetType
<1>5. 2 * sf <= 2 * cap + k
  OBVIOUS
<1>6. CASE T <= M
  <2>1. g = f
    BY <1>6 DEF clip_turnover
  <2>2. \A s : Magnitude(Get(f, s)) <= Larger(Magnitude(Get(f, s)), Magnitude(Get(c, s)))
    BY <1>4 DEF Magnitude, Larger
  <2> HIDE DEF g, T, k, sf, sc
  <2>3. 2 * GapsSum(U, f, c) <= 2 * M + k
    BY <1>1, <1>2, <1>6
  <2>4. sf <= Larger(cap, sc) + k
    BY <1>2, <1>3, <1>5 DEF Larger
  <2> QED
    BY <2>1, <2>2, <2>3, <2>4 DEF g, k, sf, sc
<1>7. CASE ~(T <= M)
  <2> DEFINE e == [s \in (DOMAIN c) \cup (DOMAIN f) |->
                     HalfUp(Get(c, s) * T + (Get(f, s) - Get(c, s)) * M, T)]
  <2>1. g = WithoutZeros(e)
    BY <1>7 DEF clip_turnover
  <2>2. M < T /\ T \in Nat \ {0}
    BY <1>1, <1>2, <1>7
  <2> HIDE DEF g, T, k, sf, sc
  <2>3. ASSUME NEW s
        PROVE  /\ Get(e, s) \in Int
               /\ Magnitude(Get(e, s)) <= Larger(Magnitude(Get(f, s)), Magnitude(Get(c, s)))
               /\ (2 * T) * Magnitude(Get(e, s) - Get(c, s)) <= (2 * M) * Magnitude(Get(f, s) - Get(c, s)) + T
               /\ (2 * T) * Magnitude(Get(e, s)) <=
                    (2 * (T - M)) * Magnitude(Get(c, s)) + (2 * M) * Magnitude(Get(f, s)) + T
    <3>1. CASE s \in (DOMAIN c) \cup (DOMAIN f)
      <4>1. Get(e, s) = HalfUp(Get(c, s) * T + (Get(f, s) - Get(c, s)) * M, T)
        BY <3>1 DEF Get
      <4> HIDE DEF e
      <4> DEFINE x == Get(c, s)
                 y == Get(f, s)
      <4>2. x \in Int /\ y \in Int
        BY <1>4
      <4> HIDE DEF x, y
      <4>3. LET h == HalfUp(x * T + (y - x) * M, T)
            IN  /\ h \in Int /\ Magnitude(h) <= Larger(Magnitude(y), Magnitude(x))
                /\ (2 * T) * Magnitude(h - x) <= (2 * M) * Magnitude(y - x) + T
                /\ (2 * T) * Magnitude(h) <= (2 * (T - M)) * Magnitude(x) + (2 * M) * Magnitude(y) + T
        BY <2>2, <4>2, MovedTowards
      <4> QED
        BY <4>1, <4>3 DEF x, y
    <3>2. CASE s \notin (DOMAIN c) \cup (DOMAIN f)
      <4>1. Get(e, s) = 0 /\ Get(f, s) = 0 /\ Get(c, s) = 0 /\ Magnitude(0) = 0
        BY <3>2 DEF Get, Magnitude
      <4> HIDE DEF e
      <4> QED
        BY <2>2, <4>1 DEF Larger
    <3> QED
      BY <3>1, <3>2
  <2>4. IsDictionary(e, Int) /\ DOMAIN e \subseteq U
    <3>1. \A s \in DOMAIN e : e[s] = Get(e, s)
      BY DEF Get
    <3> QED
      BY <2>3, <3>1 DEF IsDictionary
  <2> HIDE DEF e
  <2>5. IsDictionary(g, Int) /\ DOMAIN g \subseteq U
    BY <2>1, <2>4, WithoutZerosType
  <2>6. \A s : Get(g, s) = Get(e, s)
    BY <2>1, SameWithoutZeros
  <2>7. \A s : Magnitude(Get(g, s)) <= Larger(Magnitude(Get(f, s)), Magnitude(Get(c, s)))
    BY <2>3, <2>6
  <2> DEFINE gap == Gaps(U, g, c)
             wide == Gaps(U, f, c)
             mg == Mags(U, g)
             mf == Mags(U, f)
             mc == Mags(U, c)
             A == 2 * T
             B == 2 * M
             C == 2 * (T - M)
  <2>8. A \in Int /\ B \in Int /\ C \in Int /\ T \in Int
    BY <2>2
  <2>9. \A s \in U : /\ gap[s] \in Nat /\ wide[s] \in Nat /\ mg[s] \in Nat /\ mf[s] \in Nat /\ mc[s] \in Nat
                     /\ A * gap[s] <= B * wide[s] + T
                     /\ A * mg[s] <= C * mc[s] + B * mf[s] + T
    <3> SUFFICES ASSUME NEW s \in U
                 PROVE  /\ gap[s] \in Nat /\ wide[s] \in Nat /\ mg[s] \in Nat /\ mf[s] \in Nat /\ mc[s] \in Nat
                        /\ A * gap[s] <= B * wide[s] + T
                        /\ A * mg[s] <= C * mc[s] + B * mf[s] + T
      OBVIOUS
    <3>1. /\ gap[s] = Magnitude(Get(e, s) - Get(c, s)) /\ wide[s] = Magnitude(Get(f, s) - Get(c, s))
          /\ mg[s] = Magnitude(Get(e, s)) /\ mf[s] = Magnitude(Get(f, s)) /\ mc[s] = Magnitude(Get(c, s))
      BY <2>6 DEF Gaps, Mags
    <3>2. /\ Get(e, s) \in Int /\ Get(f, s) \in Int /\ Get(c, s) \in Int
          /\ Get(e, s) - Get(c, s) \in Int /\ Get(f, s) - Get(c, s) \in Int
      BY <1>4, <2>3
    <3>3. /\ gap[s] \in Nat /\ wide[s] \in Nat /\ mg[s] \in Nat /\ mf[s] \in Nat /\ mc[s] \in Nat
      BY <3>1, <3>2, MagnitudeFacts
    <3>4. A * gap[s] <= B * wide[s] + T
      BY <2>3, <3>1
    <3>5. A * mg[s] <= C * mc[s] + B * mf[s] + T
      BY <2>3, <3>1
    <3> QED
      BY <3>3, <3>4, <3>5
  <2> HIDE DEF gap, wide, mg, mf, mc, A, B, C
  <2>10. A * SumFunctionOnSet(gap, U) <=
            B * SumFunctionOnSet(wide, U) + 0 * SumFunctionOnSet(wide, U) + T * Cardinality(U)
    <3>1. Bounded(A, gap, B, wide, 0, wide, T, U)
      <4> SUFFICES ASSUME NEW s \in U
                   PROVE  /\ gap[s] \in Int /\ wide[s] \in Int
                          /\ A * gap[s] <= B * wide[s] + 0 * wide[s] + T
        BY DEF Bounded
      <4>1. gap[s] \in Nat /\ wide[s] \in Nat /\ A * gap[s] <= B * wide[s] + T
        BY <2>9
      <4>2. 0 * wide[s] = 0 /\ B * wide[s] \in Int
        BY <2>8, <4>1
      <4> QED
        BY <4>1, <4>2
    <3> QED
      BY <2>8, <3>1, SumBounded
  <2>11. A * SumFunctionOnSet(mg, U) <=
            C * SumFunctionOnSet(mc, U) + B * SumFunctionOnSet(mf, U) + T * Cardinality(U)
    <3>1. Bounded(A, mg, C, mc, B, mf, T, U)
      BY <2>9 DEF Bounded
    <3> QED
      BY <2>8, <3>1, SumBounded
  <2> DEFINE sg == MagsSum(U, g)
             d == GapsSum(U, g, c)
  <2>12. /\ SumFunctionOnSet(gap, U) = d /\ SumFunctionOnSet(wide, U) = T
         /\ SumFunctionOnSet(mg, U) = sg /\ SumFunctionOnSet(mc, U) = sc /\ SumFunctionOnSet(mf, U) = sf
    BY <1>1 DEF GapsSum, MagsSum, gap, wide, mg, mc, mf, sc, sf
  <2>13. d \in Nat /\ sg \in Nat
    BY <2>5, SumsOverType
  <2> HIDE DEF sg, d
  <2>14. 2 * d <= 2 * M + k
    <3>1. (2 * T) * d <= (2 * M) * T + 0 * T + T * k
      BY <2>10, <2>12 DEF A, B, k
    <3> DEFINE l == 2 * d
               r == 2 * M + k
    <3>2. (2 * T) * d = T * l /\ (2 * M) * T + 0 * T + T * k = T * r
      BY <1>2, <2>2, <2>13
    <3>3. l \in Int /\ r \in Int /\ T * l <= T * r
      BY <1>2, <2>13, <3>1, <3>2
    <3> HIDE DEF l, r
    <3>4. l <= r
      BY <2>2, <3>3, TimesCancels
    <3> QED
      BY <3>4 DEF l, r
  <2>15. sg <= Larger(cap, sc) + k
    <3>1. (2 * T) * sg <= (2 * (T - M)) * sc + (2 * M) * sf + T * k
      BY <2>11, <2>12 DEF A, B, C, k
    <3> QED
      BY <1>2, <1>3, <1>5, <2>2, <2>13, <3>1, MixtureWithin
  <2> QED
    BY <2>5, <2>7, <2>14, <2>15 DEF g, k, sg, d, sc
<1> QED
  BY <1>6, <1>7

LEMMA ClippedWithin ==
    ASSUME NEW U, IsFiniteSet(U), NEW f, IsDictionary(f, Int), DOMAIN f \subseteq U,
           NEW c, IsDictionary(c, Int), DOMAIN c \subseteq U, NEW policy \in RiskPolicy
    PROVE  LET g == Clipped(f, c, policy)
           IN  /\ IsDictionary(g, Int) /\ DOMAIN g \subseteq U
               /\ \A s : Magnitude(Get(g, s)) <= Larger(policy.max_single_name_weight, Magnitude(Get(c, s)))
               /\ 2 * Between(g, c) <= 2 * policy.max_turnover + Cardinality(U)
               /\ Gross(g) <= Larger(Scale - policy.min_cash_buffer, Gross(c)) + Cardinality(U)
<1> DEFINE m == policy.max_single_name_weight
           cap == Scale - policy.min_cash_buffer
           M == policy.max_turnover
           one == clip_single_name_limits(f, m)
           two == clip_cash_buffer(one, cap)
           g == clip_turnover(two, c, M)
<1>1. m \in Nat /\ cap \in Nat /\ M \in Nat
  BY ScaleAssumption DEF RiskPolicy
<1>2. g = Clipped(f, c, policy)
  BY DEF Clipped
<1> HIDE DEF m, cap, M, g, two, one
<1>3. IsDictionary(one, Int) /\ DOMAIN one \subseteq U /\ \A s : Magnitude(Get(one, s)) <= m
  BY <1>1, SingleNames DEF one
<1>4. /\ IsDictionary(two, Int) /\ DOMAIN two \subseteq U
      /\ \A s : Magnitude(Get(two, s)) <= Magnitude(Get(one, s))
      /\ 2 * MagsSum(U, two) <= 2 * cap + Cardinality(U)
  BY <1>1, <1>3, WithinBuffer DEF two
<1>5. /\ IsDictionary(g, Int) /\ DOMAIN g \subseteq U
      /\ \A s : Magnitude(Get(g, s)) <= Larger(Magnitude(Get(two, s)), Magnitude(Get(c, s)))
      /\ 2 * GapsSum(U, g, c) <= 2 * M + Cardinality(U)
      /\ MagsSum(U, g) <= Larger(cap, MagsSum(U, c)) + Cardinality(U)
  BY <1>1, <1>4, WithinTurnover DEF g
<1>6. ASSUME NEW s PROVE Magnitude(Get(g, s)) <= Larger(m, Magnitude(Get(c, s)))
  <2>1. Get(g, s) \in Int /\ Get(two, s) \in Int /\ Get(one, s) \in Int /\ Get(c, s) \in Int
    BY <1>3, <1>4, <1>5, GetType
  <2>2. /\ Magnitude(Get(g, s)) \in Nat /\ Magnitude(Get(two, s)) \in Nat
        /\ Magnitude(Get(one, s)) \in Nat /\ Magnitude(Get(c, s)) \in Nat
    BY <2>1, MagnitudeFacts
  <2>3. Magnitude(Get(two, s)) <= m
    BY <1>1, <1>3, <1>4, <2>2
  <2>4. Magnitude(Get(g, s)) <= Larger(Magnitude(Get(two, s)), Magnitude(Get(c, s)))
    BY <1>5
  <2> QED
    BY <1>1, <2>2, <2>3, <2>4 DEF Larger
<1>7. Between(g, c) = GapsSum(U, g, c) /\ Gross(g) = MagsSum(U, g) /\ Gross(c) = MagsSum(U, c)
  BY <1>5, BetweenOver, GrossOver
<1> QED
  BY <1>2, <1>5, <1>6, <1>7 DEF m, cap, M

LEMMA ReviewLimited ==
    ASSUME NEW asked, IsDictionary(asked, Int), DOMAIN asked # {}, NEW c, IsDictionary(c, Int),
           NEW pf, c = current_weights(pf), NEW policy \in RiskPolicy, policy.fail_closed
    PROVE  LET g == review(asked, pf, policy)
               k == Cardinality((DOMAIN c) \cup (DOMAIN asked))
           IN  /\ 2 * Between(g, c) <= 2 * policy.max_turnover + k
               /\ Gross(g) <= Larger(Scale - policy.min_cash_buffer, Gross(c)) + k
               /\ \A s \in DOMAIN g :
                    Magnitude(g[s]) <= Larger(policy.max_single_name_weight, Magnitude(Get(c, s)))
<1> DEFINE U == (DOMAIN c) \cup (DOMAIN asked)
           g == review(asked, pf, policy)
           k == Cardinality(U)
           clipped == Clipped(asked, c, policy)
           cap == Scale - policy.min_cash_buffer
           m == policy.max_single_name_weight
           M == policy.max_turnover
<1>1. IsFiniteSet(U) /\ DOMAIN c \subseteq U /\ DOMAIN asked \subseteq U /\ k \in Nat
  <2>1. U \in SUBSET Symbols
    BY DEF IsDictionary
  <2> QED
    BY <2>1, SymbolsAreFinite, FS_Subset, FS_CardinalityType
<1>2. m \in Nat /\ cap \in Nat /\ M \in Nat
  BY ScaleAssumption DEF RiskPolicy
<1>3. g = clipped \/ g = WithoutZeros(c)
  BY DEF review
<1> HIDE DEF U, g, k, clipped, cap, m, M
<1>4. CASE g = clipped
  <2>1. /\ \A s : Magnitude(Get(clipped, s)) <= Larger(m, Magnitude(Get(c, s)))
        /\ 2 * Between(clipped, c) <= 2 * M + k
        /\ Gross(clipped) <= Larger(cap, Gross(c)) + k
    BY <1>1, ClippedWithin DEF clipped, m, M, k, cap
  <2>2. \A s \in DOMAIN g : g[s] = Get(g, s)
    BY DEF Get
  <2> QED
    BY <1>4, <2>1, <2>2 DEF U, g, k, cap, m, M
<1>5. CASE g = WithoutZeros(c)
  <2>1. IsDictionary(g, Int) /\ DOMAIN g \subseteq U
    BY <1>1, <1>5, WithoutZerosType
  <2>2. \A s : Get(g, s) = Get(c, s) /\ Get(c, s) \in Int
    BY <1>5, SameWithoutZeros, GetType
  <2>3. Between(g, c) = 0
    <3> DEFINE n == Gaps(U, g, c)
    <3>1. \A s \in U : n[s] = 0
      BY <2>2 DEF Gaps, Magnitude
    <3>2. Between(g, c) = SumFunctionOnSet(n, U)
      BY <1>1, <2>1, BetweenOver DEF GapsSum
    <3> HIDE DEF n
    <3> QED
      BY <1>1, <3>1, <3>2, SumOfZeros
  <2>4. Gross(g) = Gross(c)
    <3>1. Mags(U, g) = Mags(U, c)
      BY <2>2 DEF Mags
    <3> QED
      BY <1>1, <2>1, <3>1, GrossOver DEF MagsSum
  <2>5. Gross(c) \in Int
    BY GrossType
  <2>6. \A s \in DOMAIN g : Magnitude(g[s]) <= Larger(m, Magnitude(Get(c, s)))
    <3> SUFFICES ASSUME NEW s \in DOMAIN g PROVE Magnitude(g[s]) <= Larger(m, Magnitude(Get(c, s)))
      OBVIOUS
    <3>1. g[s] = Get(c, s) /\ Get(c, s) \in Int
      BY <2>2 DEF Get
    <3>2. Magnitude(Get(c, s)) \in Nat
      BY <3>1, MagnitudeFacts
    <3> QED
      BY <1>2, <3>1, <3>2 DEF Larger
  <2>7. 2 * Between(g, c) <= 2 * M + k /\ Gross(g) <= Larger(cap, Gross(c)) + k
    BY <1>1, <1>2, <2>3, <2>4, <2>5 DEF Larger
  <2> QED
    BY <2>6, <2>7 DEF U, g, k, cap, m, M
<1> QED
  BY <1>3, <1>4, <1>5

\* Whatever a strategy asks for, the reviewed weights are within the limits, or no
\* further beyond them than the current weights are: the single-name limit exactly,
\* the cash buffer and the turnover limit up to the rounding of every weight.
THEOREM ReviewKeepsLimits == Spec => []ReviewWithinLimits
<1>1. Typed => ReviewWithinLimits
  <2> SUFFICES ASSUME Typed, phase = "trade", DOMAIN targets # {}, settings.risk.fail_closed
               PROVE  ReviewWithinLimits
    BY DEF ReviewWithinLimits
  <2> DEFINE c == current_weights(portfolio)
  <2>1. IsPortfolio(portfolio) /\ IsDictionary(targets, -Scale .. Scale) /\ settings.risk \in RiskPolicy
    BY SettingFacts DEF Typed, TypeOK
  <2>2. IsDictionary(c, Int)
    BY <2>1, WeightsType
  <2>3. IsDictionary(targets, Int)
    BY <2>1, ScaleAssumption DEF IsDictionary
  <2> HIDE DEF c
  <2>4. LET g == review(targets, portfolio, settings.risk)
            k == Cardinality((DOMAIN c) \cup (DOMAIN targets))
        IN  /\ 2 * Between(g, c) <= 2 * settings.risk.max_turnover + k
            /\ Gross(g) <= Larger(Scale - settings.risk.min_cash_buffer, Gross(c)) + k
            /\ \A s \in DOMAIN g :
                 Magnitude(g[s]) <= Larger(settings.risk.max_single_name_weight, Magnitude(Get(c, s)))
    BY <2>1, <2>2, <2>3, ReviewLimited DEF c
  <2> QED
    BY <2>4 DEF ReviewWithinLimits, c
<1> QED
  BY <1>1, AlwaysTyped, PTL
=============================================================================
