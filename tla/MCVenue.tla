------------------------------ MODULE MCVenue -------------------------------
(* An ask of two units and bids of one that take it in parts; an order id   *)
(* may be placed again, with a payload that covers both or not. Payloads    *)
(* for what was ordered; for less than was placed or at a worse price, both *)
(* on the side opposite to the one the order id was placed on; not signed   *)
(* by the trader, with the hash of another order, with nonce 0, and under   *)
(* the trader's id with another trader's key.                               *)
EXTENDS Venue, TLC

MCPlacements ==
    {NewOrder(1, "bob", "Ask", 1, 2),
     NewOrder(2, "alice", "Bid", 2, 1)}

Order(id, trader, side, price, quantity, nonce) ==
    [id |-> id, trader |-> trader, side |-> side, price |-> price,
     quantity |-> quantity, nonce |-> nonce, expiry |-> 1]
Ask == Order(1, "bob", "Ask", 1, 2, 1)
Bid == Order(2, "alice", "Bid", 2, 2, 1)
ShortBid == Order(1, "alice", "Bid", 2, 1, 1)
DearAsk == Order(2, "bob", "Ask", 2, 2, 1)
BidWithoutNonce == Order(2, "alice", "Bid", 2, 2, 0)
BidOfBob == Order(2, "bob", "Bid", 2, 2, 1)
MCOrders == {Ask, Bid, ShortBid, DearAsk, BidWithoutNonce, BidOfBob}

Payload(trader, order, hash, signed) ==
    [trader |-> trader, order |-> order, hash |-> hash, signed |-> signed]
Own(order) == Payload(order.trader, order, order, TRUE)
MCPayloads ==
    {Own(o) : o \in MCOrders \ {BidOfBob}}
    \cup {Payload("alice", Bid, Bid, FALSE), Payload("alice", Bid, Ask, TRUE),
          Payload("alice", BidOfBob, BidOfBob, TRUE)}

MCFunds ==
    [t \in Traders |-> [a \in {"Base", "Quote"} |->
        IF t = "alice" /\ a = "Quote" THEN 2
        ELSE IF t = "bob" /\ a = "Base" THEN 4 ELSE 0]]
=============================================================================
