----------------------------- MODULE Stablecoin -----------------------------
(* The issuer and the redemption program of lab 12 on one cluster. They     *)
(* share no account: an instruction belongs to one of them and leaves the   *)
(* other's accounts alone.                                                  *)
EXTENDS StablecoinIssuer, Sequences

CONSTANTS
    Keys,           \* owners of redemption requests and their admins
    AskedAmounts,   \* amounts asked for
    MaxRequests,    \* bound: requests filed
    MaxActions      \* bound: entries of the admin log

VARIABLES config, vault, requests, log      \* redemption

issuerVars == vars
redemptionVars == <<config, vault, requests, log>>
allVars == <<issuerVars, redemptionVars>>

Desk == INSTANCE StablecoinRedemption WITH Amounts <- AskedAmounts

\* Amounts are u64; no signer is Pubkey::default().
ASSUME RedemptionAssumption ==
    /\ AskedAmounts \subseteq Nat /\ MaxRequests \in Nat
    /\ Desk!NoKey \notin Keys

StablecoinInit == Init /\ Desk!Init

IssuerStep == Next /\ UNCHANGED redemptionVars
RedemptionStep == Desk!Next /\ UNCHANGED issuerVars

StablecoinNext == IssuerStep \/ RedemptionStep

StablecoinSpec == StablecoinInit /\ [][StablecoinNext]_allVars

-----------------------------------------------------------------------------
(* Properties of redemption, stated in its module.                          *)

\* The vault's counters are what the requests say.
VaultMatchesRequests == Desk!VaultMatchesRequests

\* The admin log holds one decision for each decided request.
LogTellsDecisions == Desk!LogTellsDecisions

\* The admin log tells who held the role of admin when.
LogTellsAdmins == Desk!LogTellsAdmins

\* Each request, and the role of admin, follow lab 10's models.
RedemptionImplementsReference == Desk!RedemptionImplementsReference
=============================================================================
