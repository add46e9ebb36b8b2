--------------------------- MODULE VaultAuthority ---------------------------
(* The program vault_authority (lab 02): one vault account per user, owned  *)
(* by the program and created at an address derived from the user's key.    *)
(* The account's own lamports hold the deposits next to its rent; the       *)
(* account's data records what was deposited.                               *)
(*                                                                          *)
(* Every instruction is signed by the user of the vault it names. Lamports  *)
(* move by the runtime's rules (external): a transfer needs the lamports,   *)
(* and anyone may send lamports to any address, created or not.             *)
EXTENDS Integers

CONSTANTS
    Users,
    Rent,       \* lamports that keep a vault account alive
    Wallet,     \* lamports each user has at first
    Amounts,    \* arguments of deposits, withdrawals and donations
    Limits      \* arguments of initialize_vault and set_vault_limit

None == [none |-> TRUE]

VARIABLES
    vault,      \* VaultConfig { limit_lamports, total_deposited_lamports }
    lamports,   \* of the vault addresses
    wallet      \* lamports of the users

vars == <<vault, lamports, wallet>>

Init ==
    /\ vault = [u \in Users |-> None]
    /\ lamports = [u \in Users |-> 0]
    /\ wallet = [u \in Users |-> Wallet]

\* init pays what the address lacks of the rent.
Shortfall(held) == IF held >= Rent THEN 0 ELSE Rent - held

InitializeVault(u, limit) ==
    LET due == Shortfall(lamports[u])
    IN  /\ vault[u] = None
        /\ wallet[u] >= due
        /\ wallet' = [wallet EXCEPT ![u] = @ - due]
        /\ lamports' = [lamports EXCEPT ![u] = @ + due]
        /\ vault' = [vault EXCEPT ![u] = [limit |-> limit, total |-> 0]]

\* The new limit may be below what has been deposited.
SetVaultLimit(u, limit) ==
    /\ vault[u] # None
    /\ vault' = [vault EXCEPT ![u].limit = limit]
    /\ UNCHANGED <<lamports, wallet>>

Deposit(u, amount) ==
    LET newTotal == vault[u].total + amount
    IN  /\ vault[u] # None
        /\ newTotal <= vault[u].limit
        /\ wallet[u] >= amount
        /\ wallet' = [wallet EXCEPT ![u] = @ - amount]
        /\ lamports' = [lamports EXCEPT ![u] = @ + amount]
        /\ vault' = [vault EXCEPT ![u].total = newTotal]

\* Mutant of Withdraw: the record of the deposits is not lowered.
WithdrawUnrecorded(u, amount) ==
    /\ vault[u] # None
    /\ amount <= vault[u].total
    /\ lamports[u] >= amount
    /\ lamports' = [lamports EXCEPT ![u] = @ - amount]
    /\ wallet' = [wallet EXCEPT ![u] = @ + amount]
    /\ UNCHANGED vault

\* A direct debit of the account's lamports: -= traps when it underflows.
Withdraw(u, amount) ==
    /\ vault[u] # None
    /\ amount <= vault[u].total
    /\ lamports[u] >= amount
    /\ lamports' = [lamports EXCEPT ![u] = @ - amount]
    /\ wallet' = [wallet EXCEPT ![u] = @ + amount]
    /\ vault' = [vault EXCEPT ![u].total = @ - amount]

\* close = user: every lamport of the account goes back, its data is gone and
\* the address can be initialized again.
CloseVault(u) ==
    /\ vault[u] # None
    /\ vault[u].total = 0
    /\ wallet' = [wallet EXCEPT ![u] = @ + lamports[u]]
    /\ lamports' = [lamports EXCEPT ![u] = 0]
    /\ vault' = [vault EXCEPT ![u] = None]

\* A plain transfer to a vault's address, by any user (external).
Donate(from, u, amount) ==
    /\ wallet[from] >= amount
    /\ wallet' = [wallet EXCEPT ![from] = @ - amount]
    /\ lamports' = [lamports EXCEPT ![u] = @ + amount]
    /\ UNCHANGED vault

Next ==
    \E u \in Users :
        \/ \E limit \in Limits : InitializeVault(u, limit) \/ SetVaultLimit(u, limit)
        \/ \E amount \in Amounts : Deposit(u, amount) \/ Withdraw(u, amount)
        \/ CloseVault(u)
        \/ \E from \in Users, amount \in Amounts : Donate(from, u, amount)

Spec == Init /\ [][Next]_vars

-----------------------------------------------------------------------------
(* Properties.                                                              *)

\* Everything a vault records as deposited can be withdrawn without touching
\* the rent that keeps the account alive, through any order of deposits,
\* withdrawals, limit changes, donations, closing and reopening.
DepositsClaimable ==
    \A u \in Users : vault[u] # None => lamports[u] >= Rent + vault[u].total
=============================================================================
