-------------------------- MODULE MCSettlementRelay --------------------------
(* Two takers of one side meet one maker on the other: taker1 fills once,   *)
(* taker2 twice. The placement without fills asks for nothing.              *)
EXTENDS SettlementRelay, TLC

Signed(order, market, trader, side, price, quantity) ==
    [order |-> order, market |-> market, trader |-> trader, side |-> side,
     price |-> price, quantity |-> quantity]

MCPayloads ==
    {Signed("maker", Market, "bob", "Ask", 1, 2),
     Signed("taker1", Market, "alice", "Bid", 1, 1),
     Signed("taker2", Market, "alice", "Bid", 2, 2)}

MCLivePayloads ==
    {Signed("maker", Market, "bob", "Ask", 1, 2),
     Signed("taker2", Market, "alice", "Bid", 2, 2)}

\* The maker's good payload may be replaced by one for another market.
MCReplacedPayloads ==
    MCLivePayloads \cup {Signed("maker", "other", "bob", "Ask", 1, 2)}

MCFill(maker, taker, price, quantity) ==
    [maker |-> maker, taker |-> taker, makerTrader |-> "bob",
     takerTrader |-> "alice", price |-> price, quantity |-> quantity]

TakerOrder(id) == [id |-> id, side |-> "Bid", market |-> Market]

OneFill ==
    [order |-> TakerOrder("taker1"), fills |-> <<MCFill("maker", "taker1", 1, 1)>>]
TwoFills ==
    [order |-> TakerOrder("taker2"),
     fills |-> <<MCFill("maker", "taker2", 1, 1), MCFill("maker", "taker2", 1, 1)>>]
NoFills == [order |-> TakerOrder("taker1"), fills |-> <<>>]

MCPlacements == "one" :> OneFill @@ "two" :> TwoFills
MCLivePlacements == "two" :> TwoFills @@ "none" :> NoFills
=============================================================================
