--------------------------- MODULE MatchingEngine ---------------------------
(* The matching engine driven by an arbitrary sequence of orders, with the  *)
(* history of what was placed and what each placement filled.               *)
EXTENDS Matching

CONSTANTS
    MaxOrders   \* bound: number of orders placed in a behaviour

ASSUME MaxOrdersAssumption == MaxOrders \in Nat

VARIABLES
    engine,     \* MatchingEngine { bids, asks }
    history     \* <<[order, fills]>>: every placement, in order

engineVars == <<engine, history>>

EngineInit ==
    /\ engine = NewEngine
    /\ history = <<>>

PlaceInBook(order) ==
    LET result == PlaceInEngine(engine, order)
    IN  /\ engine' = result.engine
        /\ history' = Append(history, [order |-> order, fills |-> result.fills])

EngineNext ==
    /\ Len(history) < MaxOrders
    /\ \E t \in Traders, s \in Sides, p \in Prices, q \in Quantities :
          PlaceInBook(NewOrder(Len(history) + 1, t, s, p, q))

EngineSpec == EngineInit /\ [][EngineNext]_engineVars

-----------------------------------------------------------------------------
OrderIds == 1 .. Len(history)
OrderOf(id) == history[id].order

Resting == RestingOrders(engine["Bid"]) \cup RestingOrders(engine["Ask"])

\* Every fill of the history, as <<placement, position>>.
FillIndexes == UNION {{n} \X DOMAIN history[n].fills : n \in OrderIds}
FillAt(x) == history[x[1]].fills[x[2]]

\* What an order traded in the fills of one placement, and in all of them.
TradedIn(fills, id) ==
    SumFunction([i \in DOMAIN fills |->
        IF id \in {fills[i].maker, fills[i].taker} THEN fills[i].quantity ELSE 0])

FilledQuantity(id) ==
    SumFunction([n \in OrderIds |-> TradedIn(history[n].fills, id)])

RemainingOf(id) ==
    SumFunction([o \in {r \in Resting : r.id = id} |-> o.remaining])

\* The time and price priority of two resting orders of one side.
HasPriority(side, o, r) ==
    \/ AtLeastAsGood(side, o.price, r.price) /\ o.price # r.price
    \/ o.price = r.price /\ o.id < r.id

\* The engine never leaves a bid and an ask that would trade with each other:
\* the loops of match_bid and match_ask run until the book no longer crosses.
BookNotCrossed ==
    \A b \in RestingOrders(engine["Bid"]), a \in RestingOrders(engine["Ask"]) :
        b.price < a.price

\* Quantity is neither created nor lost over any number of partial fills and
\* reinsertions: what an order traded, as taker and as maker, plus what rests
\* in the book is what was ordered.
QuantityConserved ==
    \A id \in OrderIds :
        FilledQuantity(id) + RemainingOf(id) = OrderOf(id).quantity

\* Price-time priority over whole histories: when a maker trades, no order
\* placed before that trade, on the maker's side and with priority over it,
\* is still unfilled afterwards. A partially filled maker put back at the end
\* of its queue, or a level visited out of price order, breaks it.
PriceTimePriority ==
    \A x \in FillIndexes : \A r \in Resting :
        LET maker == OrderOf(FillAt(x).maker)
        IN  (r.side = maker.side /\ r.id < x[1] /\ r.id # maker.id)
                => ~HasPriority(maker.side, r, maker)
=============================================================================
