-------------------------- MODULE StablecoinIssuer --------------------------
(* The issuer program of 12-token-2022-stablecoin-protocol (lab 06 holds    *)
(* the same instructions): a global supply cap, issuers with mint limits,   *)
(* mint, burn by permanent delegate, and the rotation of an issuer's key.   *)
(* A transaction is one step: an instruction that fails changes nothing.    *)
(* An issuer's config and stats accounts are created together and name each *)
(* other for ever, so they are one record here. The Token-2022 program is   *)
(* external: its balances, and what the owners of token accounts may do.    *)
EXTENDS Integers, FiniteSets, Functions

CONSTANTS
    Admins,         \* keys that may initialize the protocol
    Authorities,    \* issuer authorities
    TokenAccounts,  \* addresses of token accounts
    Amounts,        \* amounts of a mint, burn or transfer
    Caps, Limits,   \* global supply caps and mint limits
    MaxAmount       \* u64::MAX

ASSUME AmountsAssumption ==
    /\ MaxAmount \in Nat
    /\ Amounts \subseteq 0 .. MaxAmount
    /\ Caps \subseteq 0 .. MaxAmount /\ Limits \subseteq 0 .. MaxAmount

\* Authorities and token accounts are keys of 32 bytes.
ASSUME FiniteAssumption == IsFiniteSet(Authorities) /\ IsFiniteSet(TokenAccounts)

NoProtocol == [admin |-> "None"]
NoIssuer == [limit |-> -1]
NoAccount == -1

VARIABLES
    protocol,   \* ProtocolConfig, with whether the mint has been created
    supply,     \* GlobalSupplyStats
    issuers,    \* IssuerConfig and IssuerStats by authority
    tokens,     \* Token-2022: the balance of each token account
    burnedByRetired     \* history: burns by issuers that may no longer mint

ledger == <<supply, tokens, burnedByRetired>>
vars == <<protocol, supply, issuers, tokens, burnedByRetired>>

NoSupply == [current |-> 0, minted |-> 0, burned |-> 0]

Init ==
    /\ protocol = NoProtocol
    /\ supply = NoSupply
    /\ issuers = [k \in Authorities |-> NoIssuer]
    /\ tokens = [t \in TokenAccounts |-> NoAccount]
    /\ burnedByRetired = 0

Registered(k) == issuers[k] # NoIssuer
IsAdmin(signer) == protocol # NoProtocol /\ signer = protocol.admin

-----------------------------------------------------------------------------
(* Administration. No instruction ever sets protocol.paused.                *)

InitializeProtocol(signer, cap) ==
    /\ protocol = NoProtocol
    /\ cap > 0
    /\ protocol' = [admin |-> signer, cap |-> cap, paused |-> FALSE, mint |-> FALSE]
    /\ UNCHANGED <<issuers, ledger>>

CreateStablecoinMint(signer) ==
    /\ IsAdmin(signer)
    /\ ~protocol.mint
    /\ protocol' = [protocol EXCEPT !.mint = TRUE]
    /\ supply' = NoSupply
    /\ UNCHANGED <<issuers, tokens, burnedByRetired>>

RegisterIssuer(signer, k, limit) ==
    /\ IsAdmin(signer)
    /\ ~Registered(k)
    /\ limit > 0
    /\ issuers' = [issuers EXCEPT ![k] =
            [limit |-> limit, paused |-> FALSE,
             outstanding |-> 0, minted |-> 0, burned |-> 0]]
    /\ UNCHANGED <<protocol, ledger>>

SetIssuerPaused(signer, k, paused) ==
    /\ IsAdmin(signer)
    /\ Registered(k)
    /\ issuers' = [issuers EXCEPT ![k].paused = paused]
    /\ UNCHANGED <<protocol, ledger>>

\* Mutant of RotateIssuerAuthority: the old issuer is paused but keeps its limit.
RotateKeepingLimit(signer, old, new) ==
    /\ IsAdmin(signer)
    /\ Registered(old) /\ ~Registered(new)
    /\ issuers' = [issuers EXCEPT ![new] = issuers[old], ![old].paused = TRUE]
    /\ UNCHANGED <<protocol, ledger>>

\* The new accounts copy the old ones; the old issuer keeps its stats, and is
\* left paused with a limit of zero.
RotateIssuerAuthority(signer, old, new) ==
    /\ IsAdmin(signer)
    /\ Registered(old) /\ ~Registered(new)
    /\ issuers' = [issuers EXCEPT ![new] = issuers[old],
                                  ![old].limit = 0, ![old].paused = TRUE]
    /\ UNCHANGED <<protocol, ledger>>

-----------------------------------------------------------------------------
(* Issuance.                                                                *)

MayOperate(k) ==
    /\ protocol # NoProtocol /\ protocol.mint /\ ~protocol.paused
    /\ Registered(k) /\ ~issuers[k].paused

\* Mutants of WithinLimits: the issuer's own limit, or the cap, is not looked
\* at.
WithinCap(k, amount) == supply.current + amount <= protocol.cap
WithinOwnLimit(k, amount) == issuers[k].outstanding + amount <= issuers[k].limit

WithinLimits(k, amount) ==
    /\ issuers[k].outstanding + amount <= issuers[k].limit
    /\ supply.current + amount <= protocol.cap

\* Every mint creates the token account it mints to. The totals are checked
\* additions too.
MintToUser(k, account, amount) ==
    /\ MayOperate(k)
    /\ WithinLimits(k, amount)
    /\ tokens[account] = NoAccount
    /\ issuers[k].minted + amount <= MaxAmount
    /\ supply.minted + amount <= MaxAmount
    /\ tokens' = [tokens EXCEPT ![account] = amount]
    /\ issuers' = [issuers EXCEPT ![k].outstanding = @ + amount,
                                  ![k].minted = @ + amount]
    /\ supply' = [supply EXCEPT !.current = @ + amount, !.minted = @ + amount]
    /\ UNCHANGED <<protocol, burnedByRetired>>

\* Mutant of BurnFromUser: the tokens are not checked to be there.
BurnAnyway(k, account, amount) ==
    /\ MayOperate(k)
    /\ tokens[account] # NoAccount
    /\ issuers[k].outstanding >= amount /\ supply.current >= amount
    /\ tokens' = [tokens EXCEPT ![account] = IF @ >= amount THEN @ - amount ELSE @]
    /\ issuers' = [issuers EXCEPT ![k].outstanding = @ - amount,
                                  ![k].burned = @ + amount]
    /\ supply' = [supply EXCEPT !.current = @ - amount, !.burned = @ + amount]
    /\ burnedByRetired' = IF issuers[k].limit = 0 THEN burnedByRetired + amount
                                                 ELSE burnedByRetired
    /\ UNCHANGED protocol

\* The program is the mint's permanent delegate: an issuer burns from any
\* account, whoever minted the tokens, up to its own outstanding amount.
BurnFromUser(k, account, amount) ==
    /\ MayOperate(k)
    /\ issuers[k].outstanding >= amount
    /\ supply.current >= amount
    /\ tokens[account] >= amount
    /\ issuers[k].burned + amount <= MaxAmount
    /\ supply.burned + amount <= MaxAmount
    /\ tokens' = [tokens EXCEPT ![account] = @ - amount]
    /\ issuers' = [issuers EXCEPT ![k].outstanding = @ - amount,
                                  ![k].burned = @ + amount]
    /\ supply' = [supply EXCEPT !.current = @ - amount, !.burned = @ + amount]
    /\ burnedByRetired' = IF issuers[k].limit = 0 THEN burnedByRetired + amount
                                                 ELSE burnedByRetired
    /\ UNCHANGED protocol

-----------------------------------------------------------------------------
(* Token-2022, external: owners open, close and empty their accounts. The   *)
(* mint has no transfer hook and the program is not told.                   *)

OpenTokenAccount(account) ==
    /\ tokens[account] = NoAccount /\ protocol # NoProtocol /\ protocol.mint
    /\ tokens' = [tokens EXCEPT ![account] = 0]
    /\ UNCHANGED <<protocol, supply, issuers, burnedByRetired>>

CloseTokenAccount(account) ==
    /\ tokens[account] = 0
    /\ tokens' = [tokens EXCEPT ![account] = NoAccount]
    /\ UNCHANGED <<protocol, supply, issuers, burnedByRetired>>

TransferTokens(from, to, amount) ==
    /\ from # to /\ tokens[to] # NoAccount
    /\ tokens[from] >= amount
    /\ tokens' = [tokens EXCEPT ![from] = @ - amount, ![to] = @ + amount]
    /\ UNCHANGED <<protocol, supply, issuers, burnedByRetired>>

BurnOwnTokens(account, amount) ==
    /\ tokens[account] >= amount
    /\ tokens' = [tokens EXCEPT ![account] = @ - amount]
    /\ UNCHANGED <<protocol, supply, issuers, burnedByRetired>>

Next ==
    \/ \E s \in Admins :
          \/ \E cap \in Caps : InitializeProtocol(s, cap)
          \/ CreateStablecoinMint(s)
          \/ \E k \in Authorities :
                \/ \E limit \in Limits : RegisterIssuer(s, k, limit)
                \/ \E paused \in BOOLEAN : SetIssuerPaused(s, k, paused)
                \/ \E new \in Authorities : RotateIssuerAuthority(s, k, new)
    \/ \E k \in Authorities, t \in TokenAccounts, amount \in Amounts :
          MintToUser(k, t, amount) \/ BurnFromUser(k, t, amount)
    \/ \E t, u \in TokenAccounts, amount \in Amounts : TransferTokens(t, u, amount)
    \/ \E t \in TokenAccounts :
          \/ OpenTokenAccount(t) \/ CloseTokenAccount(t)
          \/ \E amount \in Amounts : BurnOwnTokens(t, amount)

Spec == Init /\ [][Next]_vars

-----------------------------------------------------------------------------
(* Properties.                                                              *)

\* An issuer that may mint. Registration demands a positive limit; rotation
\* leaves the old key with zero.
Live == {k \in Authorities : Registered(k) /\ issuers[k].limit > 0}

\* Rotation neither loses nor doubles an issuer's share: what the live issuers
\* have outstanding is the supply the protocol counts, plus what retired keys
\* burned after they were unpaused again. A live issuer has outstanding what
\* it minted and has not burned, within its limit.
SupplyAccounted ==
    /\ SumFunction([k \in Live |-> issuers[k].outstanding])
          = supply.current + burnedByRetired
    /\ \A k \in Live :
          /\ issuers[k].outstanding = issuers[k].minted - issuers[k].burned
          /\ issuers[k].outstanding \in 0 .. issuers[k].limit

OpenAccounts == {t \in TokenAccounts : tokens[t] # NoAccount}

\* The tokens in existence never exceed the supply the protocol counts, nor
\* that its cap, whoever burns what from whose account.
TokensCovered ==
    protocol # NoProtocol =>
        /\ supply.current = supply.minted - supply.burned
        /\ supply.current <= protocol.cap
        /\ SumFunction([t \in OpenAccounts |-> tokens[t]]) <= supply.current

\* A key once rotated away never issues again, even unpaused by the admin: its
\* limit stays zero and what it has outstanding only shrinks.
RetiredNeverIssues ==
    [][ \A k \in Authorities :
            (Registered(k) /\ k \notin Live) =>
                /\ issuers'[k].limit = 0
                /\ issuers'[k].outstanding <= issuers[k].outstanding
                /\ issuers'[k].minted = issuers[k].minted ]_vars

\* The protocol's global statistics, as lab 10's model of a single issuer whose
\* limit is the cap.
Totals ==
    IF protocol = NoProtocol THEN [cap |-> -1]
    ELSE [cap |-> protocol.cap, limit |-> protocol.cap,
          supply |-> supply.current, outstanding |-> supply.current,
          minted |-> supply.minted, burned |-> supply.burned]
Reference == INSTANCE IssuanceModel WITH model <- Totals

\* All issuers together, registered, paused and rotated in any order, act on
\* the supply as the reference model's one issuer: each step is one of its
\* mints or burns, within the cap, or leaves the supply alone.
ImplementsReference == Reference!Spec
=============================================================================
