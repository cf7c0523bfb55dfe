-------------------------- MODULE PortfolioAnalytics --------------------------
(***************************************************************************)
(* quant_os/portfolio/analytics.py and the records it works on.  A          *)
(* dictionary is a function whose domain is the set of its keys; a list of  *)
(* targets is the dictionary target_weight_map makes of it, zero weights    *)
(* kept, since the risk review tells an empty list from a list of zeros.    *)
(***************************************************************************)
EXTENDS Decimals, FiniteSetsExt

CONSTANT Symbols

IsDictionary(f, S) == DOMAIN f \subseteq Symbols /\ \A s \in DOMAIN f : f[s] \in S

\* PortfolioState: positions as quantities, every position with a market price.
IsPortfolio(p) ==
    /\ DOMAIN p = {"cash", "nav", "positions", "market_prices"}
    /\ p.cash \in Int
    /\ p.nav \in Nat \ {0}
    /\ IsDictionary(p.positions, Int \ {0})
    /\ IsDictionary(p.market_prices, Nat \ {0})
    /\ DOMAIN p.positions \subseteq DOMAIN p.market_prices

\* dict.get(key, ZERO)
Get(f, s) == IF s \in DOMAIN f THEN f[s] ELSE 0

WithoutZeros(f) == [s \in {k \in DOMAIN f : f[k] # 0} |-> f[s]]
Gross(f) == SumFunction([s \in DOMAIN f |-> Magnitude(f[s])])
Between(f, g) ==
    SumFunction([s \in (DOMAIN f) \cup (DOMAIN g) |-> Magnitude(Get(f, s) - Get(g, s))])

current_weights(portfolio) ==
    [s \in DOMAIN portfolio.positions |->
        HalfUp(portfolio.positions[s] * portfolio.market_prices[s], portfolio.nav)]
=============================================================================
