---------------------------- MODULE MCStablecoin -----------------------------
(* The issuer and the redemption program for TLC. No step of one enables or *)
(* disables a step of the other: the initial state chooses the one that     *)
(* runs. Three keys, so that a rotated issuer can be rotated again and meet *)
(* one registered beside it, and a nominated admin can be replaced and the  *)
(* role can return; totals that overflow after a few mints, and with the    *)
(* second request.                                                          *)
EXTENDS Stablecoin, TLC

VARIABLE which

MCInit == which \in {"issuer", "redemption"} /\ StablecoinInit

MCNext ==
    /\ \/ which = "issuer" /\ IssuerStep
       \/ which = "redemption" /\ RedemptionStep
    /\ UNCHANGED which

MCSpec == MCInit /\ [][MCNext]_<<which, allVars>>

MCSymmetry == Permutations(Authorities)
=============================================================================
