--------------------------- MODULE MCMarketActor ---------------------------
(* Two traders on a two-price market. depA and retryA are one deposit sent  *)
(* twice; bid and ask cross once both deposits are there; a second deposit  *)
(* for alice (more) takes her past MaxAmount.                               *)
EXTENDS MarketActor

Deposit(cmd, trader, asset, amount) ==
    [kind |-> "CreditDeposit", cmd |-> cmd, trader |-> trader, asset |-> asset,
     amount |-> amount]

Place(cmd, order) == [kind |-> "PlaceOrder", cmd |-> cmd, order |-> order]

MCCommandOf == [c \in Calls |->
    CASE c \in {"depA", "retryA"} -> Deposit(1, "alice", QuoteAsset, 4)
      [] c = "depB"  -> Deposit(2, "bob", BaseAsset, 2)
      [] c = "bid"   -> Place(3, NewOrder(1, "alice", "Bid", 2, 2))
      [] c = "ask"   -> Place(4, NewOrder(2, "bob", "Ask", 1, 1))
      [] c = "more"  -> Deposit(5, "alice", QuoteAsset, 3)
      [] c = "snap"  -> [kind |-> "Snapshot"]
      [] c = "stop"  -> [kind |-> "Shutdown"]]
=============================================================================
