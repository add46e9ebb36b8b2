----------------------------- MODULE OrderBook -----------------------------
(* One side of the limit order book: OrderBookSide of                       *)
(* 13-solana-spot-exchange-lab/crates/domain/src/order_book.rs.             *)
(* The BTreeMap<Price, VecDeque<Order>> is a function from prices to        *)
(* queues of orders; a price the map has no entry for holds <<>>.           *)
(* An order keeps what the engine looks at. OrderStatus is not a field:     *)
(* in the engine an order is Filled exactly when nothing remains, and       *)
(* nothing on the paths modelled here cancels one.                          *)
EXTENDS Integers, Sequences, FiniteSets, Functions

CONSTANTS
    Prices,     \* prices an order may carry (tick-aligned, non-zero)
    Quantities, \* quantities an order may carry (lot-aligned, non-zero)
    Traders     \* trader ids

ASSUME PricesAssumption == IsFiniteSet(Prices) /\ Prices \subseteq Nat \ {0}
ASSUME QuantitiesAssumption == Quantities \subseteq Nat \ {0}

Sides == {"Bid", "Ask"}
Opposite(side) == IF side = "Bid" THEN "Ask" ELSE "Bid"

NewOrder(id, trader, side, price, quantity) ==
    [id |-> id, trader |-> trader, side |-> side, price |-> price,
     quantity |-> quantity, remaining |-> quantity]

IsTerminal(order) == order.remaining = 0

ApplyFill(order, quantity) == [order EXCEPT !.remaining = @ - quantity]

EmptyBookSide == [p \in Prices |-> <<>>]

Insert(levels, order) ==
    [levels EXCEPT ![order.price] = Append(@, order)]

\* Mutant of ReinsertFront: what is left of a maker is lost.
LoseMaker(levels, order) == levels

ReinsertFront(levels, order) ==
    [levels EXCEPT ![order.price] = <<order>> \o @]

LevelPrices(levels) == {p \in Prices : levels[p] # <<>>}

\* p is at least as good as q for the owner of a resting order of this side's
\* counterparty: the best bid is the highest, the best ask the lowest.
AtLeastAsGood(side, p, q) == IF side = "Bid" THEN p >= q ELSE p <= q

BestPrice(side, levels) ==
    CHOOSE p \in LevelPrices(levels) :
        \A q \in LevelPrices(levels) : AtLeastAsGood(side, p, q)

BestOrder(side, levels) == Head(levels[BestPrice(side, levels)])

PopBestOrder(side, levels) ==
    [levels EXCEPT ![BestPrice(side, levels)] = Tail(@)]

RestingOrders(levels) ==
    UNION {{levels[p][i] : i \in DOMAIN levels[p]} : p \in Prices}

RestingCount(levels) == SumFunction([p \in Prices |-> Len(levels[p])])
=============================================================================
