---------------------------- MODULE MCPaperTrading ----------------------------
(* TLC instances of PaperTrading.  A has an initial lot, B is all but         *)
(* worthless, C has no price.  Amounts are tenths and rates are percents, so  *)
(* that every rounding of the code has something to round.                    *)
EXTENDS PaperTrading, TLC

TheSymbols == {"A", "B", "C"}
Lots == [s \in TheSymbols |-> IF s = "A" THEN << [qty |-> 22, cost |-> 17] >> ELSE <<>>]
Prices == [A |-> 23, B |-> 1, C |-> 0]
Want(s, side, qty) == [symbol |-> s, side |-> side, qty |-> qty]

\* The cash pays for the buy only after a sale; the last sale takes from two lots,
\* or is more than is left; a small part of the dust costs nothing; 12 is not a
\* multiple of the lot size 5.
TwoWays == [buy |-> Want("A", "BUY", 15), sell |-> Want("A", "SELL", 20),
            rest |-> Want("A", "SELL", 15), dust |-> Want("B", "BUY", 20),
            none |-> Want("C", "BUY", 10), odd |-> Want("A", "SELL", 12)]

\* A behaviour is about the trades or about the refusals.
Submitted == {mem[o].intent : o \in {p \in Orders : mem[p] # NoRow}}
                \cup {rows[o].intent : o \in {p \in Orders : rows[p] # NoRow}}
OneSubject == \/ Submitted \subseteq {"buy", "sell", "rest"}
              \/ Submitted \subseteq {"dust", "none", "odd"}

\* The position, sold twice.
SoldTwice == [sell |-> Want("A", "SELL", 15), again |-> Want("A", "SELL", 15)]

AnyPolicy == {[ratio |-> 100, uncertain |-> FALSE], [ratio |-> 55, uncertain |-> FALSE],
              [ratio |-> 100, uncertain |-> TRUE], [ratio |-> 3, uncertain |-> FALSE]}
Full == {[ratio |-> 100, uncertain |-> FALSE]}

NoFaults == [f \in FaultKinds |-> 0]
AnyFault == [f \in FaultKinds |-> 1]

=============================================================================
