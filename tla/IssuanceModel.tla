---------------------------- MODULE IssuanceModel ----------------------------
(* Lab 10's reference model of issuance (IssuanceModel in                   *)
(* 10-security-invariants-fuzzing): one issuer with a limit under a global  *)
(* cap. An abstract specification: StablecoinIssuer implements it.          *)
EXTENDS Integers

CONSTANTS
    MaxAmount   \* u64::MAX

NoModel == [cap |-> -1]

VARIABLES
    model   \* IssuanceModel, NoModel before new

Init == model = NoModel

New(cap, limit) ==
    /\ model = NoModel
    /\ model' = [cap |-> cap, limit |-> limit, supply |-> 0, outstanding |-> 0,
                 minted |-> 0, burned |-> 0]

Mint(amount) ==
    /\ model # NoModel
    /\ model.minted + amount <= MaxAmount
    /\ model.supply + amount <= model.cap
    /\ model.outstanding + amount <= model.limit
    /\ model' = [model EXCEPT !.supply = @ + amount, !.outstanding = @ + amount,
                              !.minted = @ + amount]

Burn(amount) ==
    /\ model # NoModel
    /\ amount <= model.outstanding /\ amount <= model.supply
    /\ model.burned + amount <= MaxAmount
    /\ model' = [model EXCEPT !.supply = @ - amount, !.outstanding = @ - amount,
                              !.burned = @ + amount]

Next ==
    \/ \E cap, limit \in 0 .. MaxAmount : New(cap, limit)
    \/ \E amount \in 0 .. MaxAmount : Mint(amount) \/ Burn(amount)

Spec == Init /\ [][Next]_model
=============================================================================
