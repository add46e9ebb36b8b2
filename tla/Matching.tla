------------------------------ MODULE Matching ------------------------------
(* MatchingEngine::place_order of crates/domain/src/matching.rs.            *)
(* match_bid and match_ask are one operator that reads the taker's side.    *)
(* The engine's while loop is the function Rounds below: one round takes    *)
(* the best maker, and every round but the last removes a maker from the    *)
(* book, so RestingCount rounds reach the loop's exit.                      *)
EXTENDS OrderBook

\* Mutant of Crosses: equal prices do not trade.
CrossesStrictly(taker, makers) ==
    /\ LevelPrices(makers) # {}
    /\ LET best == BestPrice(Opposite(taker.side), makers)
       IN  IF taker.side = "Bid" THEN taker.price > best
                                 ELSE taker.price < best

Crosses(taker, makers) ==
    /\ LevelPrices(makers) # {}
    /\ LET best == BestPrice(Opposite(taker.side), makers)
       IN  IF taker.side = "Bid" THEN taker.price >= best
                                 ELSE taker.price <= best

Fill(maker, taker, price, quantity) ==
    [maker       |-> maker.id,     taker       |-> taker.id,
     makerTrader |-> maker.trader, takerTrader |-> taker.trader,
     price       |-> price,        quantity    |-> quantity]

\* The body of the loop: m holds the taker, the opposite side and the fills.
MatchRound(m) ==
    LET side     == Opposite(m.taker.side)
        maker    == BestOrder(side, m.makers)
        rest     == PopBestOrder(side, m.makers)
        quantity == IF m.taker.remaining < maker.remaining
                    THEN m.taker.remaining ELSE maker.remaining
        filled   == ApplyFill(maker, quantity)
    IN  [taker  |-> ApplyFill(m.taker, quantity),
         makers |-> IF IsTerminal(filled) THEN rest
                                          ELSE ReinsertFront(rest, filled),
         fills  |-> Append(m.fills, Fill(maker, m.taker, maker.price, quantity))]

MatchRounds(order, makers) ==
    LET Rounds[n \in 0 .. RestingCount(makers)] ==
            IF n = 0
            THEN [taker |-> order, makers |-> makers, fills |-> <<>>]
            ELSE LET m == Rounds[n - 1]
                 IN  IF ~IsTerminal(m.taker) /\ Crosses(m.taker, m.makers)
                     THEN MatchRound(m)
                     ELSE m
    IN  Rounds[RestingCount(makers)]

NewEngine == [side \in Sides |-> EmptyBookSide]

\* The engine is [Bid |-> levels, Ask |-> levels]; the result pairs the
\* updated engine with the fills of this taker.
PlaceInEngine(engine, order) ==
    LET m == MatchRounds(order, engine[Opposite(order.side)])
    IN  [engine |-> [engine EXCEPT
                        ![Opposite(order.side)] = m.makers,
                        ![order.side] = IF IsTerminal(m.taker) THEN @
                                        ELSE Insert(@, m.taker)],
         fills  |-> m.fills]
=============================================================================
