-------------------------- MODULE MCSpotSettlement --------------------------
(* A bid for two units that two asks of another trader can fill in parts,   *)
(* with different limits and expiries, so that partial fills, overfills,    *)
(* cancellations and expiry meet in every order; and an ask whose nonce is  *)
(* missing.                                                                 *)
EXTENDS SpotSettlement, TLC

Signed(id, trader, side, price, quantity, nonce, expiry) ==
    [id |-> id, trader |-> trader, side |-> side, price |-> price,
     quantity |-> quantity, nonce |-> nonce, expiry |-> expiry]

MCOrders ==
    {Signed(1, "alice", "Bid", 2, 2, 1, 2),
     Signed(2, "bob", "Ask", 1, 2, 1, 1),
     Signed(3, "bob", "Ask", 2, 1, 1, 2),
     Signed(3, "bob", "Ask", 2, 1, 0, 2)}

MCInitialWallet ==
    [t \in Traders |-> [a \in Assets |->
        IF t = "alice" /\ a = "Quote" THEN 4
        ELSE IF t = "bob" /\ a = "Base" THEN 2 ELSE 0]]

\* Settlement ids and the two keys are compared for equality only.
MCSymmetry == Permutations(SettlementIds) \cup Permutations(Principals)
=============================================================================
