------------------------------ MODULE Programs ------------------------------
(* Three programs on one cluster that share no account: the compliance      *)
(* hook, the bridge receivers and the vault. An instruction belongs to one  *)
(* of them and leaves the accounts of the others alone.                     *)
EXTENDS ComplianceHook

CONSTANTS
    Keys, Tokens, Messages, MessageLimits, Chains, MaxLog,      \* bridge receivers
    Rent, Wallet, VaultAmounts, VaultLimits                     \* vault

\* A u64 is a natural number.
ASSUME VaultAssumption ==
    /\ Rent \in Nat /\ Wallet \in Nat
    /\ VaultAmounts \cup VaultLimits \subseteq Nat

VARIABLES
    configs, consumed, contract, consumedMessages, log,     \* bridge receivers
    vault, lamports, wallet                                 \* vault

hookVars == vars
bridgeVars == <<configs, consumed, contract, consumedMessages, log>>
vaultVars == <<vault, lamports, wallet>>
allVars == <<hookVars, bridgeVars, vaultVars>>

Hook == Next

Bridge == INSTANCE BridgeReceiver
    WITH config <- configs, Mints <- Tokens, Limits <- MessageLimits

Vault == INSTANCE VaultAuthority
    WITH Amounts <- VaultAmounts, Limits <- VaultLimits

ProgramsInit == Init /\ Bridge!Init /\ Vault!Init

HookStep == Hook /\ UNCHANGED <<bridgeVars, vaultVars>>
BridgeStep == Bridge!Next /\ UNCHANGED <<hookVars, vaultVars>>
VaultStep == Vault!Next /\ UNCHANGED <<hookVars, bridgeVars>>

ProgramsNext == HookStep \/ BridgeStep \/ VaultStep

ProgramsSpec == ProgramsInit /\ [][ProgramsNext]_allVars

-----------------------------------------------------------------------------
(* Properties, each of one program and stated in its module.                *)

\* A mint message mints once.
OncePerMessage == Bridge!OncePerMessage

\* What a vault records can be withdrawn.
DepositsClaimable == Vault!DepositsClaimable
=============================================================================
