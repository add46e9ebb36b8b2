--------------------------- MODULE SpotSettlement ---------------------------
(* The on-chain program spot-settlement: custody of the two assets of one   *)
(* market, settlement of fills, and the fill state of signed orders         *)
(* (programs/spot-settlement/src/instructions).                             *)
(*                                                                          *)
(* A transaction executes alone and atomically: an instruction that fails a *)
(* check leaves no trace, so its checks are the guard of its action.        *)
(* Orders are the payloads for this market that their traders have signed,  *)
(* whatever they say; the ed25519 checks let no other through. An order     *)
(* stands for its own hash: an instruction that states another fails. Token *)
(* accounts and transfer_checked belong to the token program (external);    *)
(* the mint has no transfer fee, and nobody sends tokens straight to the    *)
(* vaults, which would only add to them.                                    *)
EXTENDS Integers, FiniteSets, Functions

CONSTANTS
    Principals,     \* keys that sign transactions besides the traders
    Traders,
    Orders,         \* signed orders:
                    \* [id, trader, side, price, quantity, nonce, expiry]
    SettlementIds,  \* settlement ids the settlement authority may use
    FillPrices, FillQuantities,     \* arguments of a signed fill
    TransferAmounts,                \* amounts of deposits, withdrawals, plain fills
    InitialWallet,  \* what each trader's token accounts hold at first
    MaxAmount,      \* the largest u64
    MaxSlot         \* bound: the last slot of a behaviour

Assets == {"Base", "Quote"}
Amounts == 0 .. MaxAmount

ASSUME MaxAmountAssumption == MaxAmount \in Nat
ASSUME MaxSlotAssumption == MaxSlot \in Nat
\* Keys are arrays of 32 bytes, settlement ids are u64.
ASSUME FiniteAssumption == IsFiniteSet(Traders) /\ IsFiniteSet(SettlementIds)
ASSUME ArgumentsAssumption ==
    /\ FillPrices \subseteq Nat
    /\ FillQuantities \subseteq Nat
    /\ TransferAmounts \subseteq Amounts
ASSUME OrdersAssumption ==
    \A o \in Orders : /\ o.trader \in Traders
                      /\ o.side \in {"Bid", "Ask"}
                      /\ o.price \in Amounts /\ o.quantity \in Amounts
                      /\ {o.id, o.nonce, o.expiry} \subseteq Nat
ASSUME WalletAssumption ==
    InitialWallet \in [Traders -> [Assets -> Amounts]]

NoOne == "NoOne"
ASSUME NoOneAssumption == NoOne \notin Principals \cup Traders

\* The receipt account of a settlement id that has not been used.
NoReceipt == [buyer |-> NoOne]

VARIABLES
    admin,      \* ProtocolConfig.admin, NoOne before initialize_protocol
    authority,  \* MarketConfig.settlement_authority, NoOne before initialize_market
    paused,     \* MarketConfig.paused
    slot,       \* Clock::slot
    opened,     \* traders whose TraderMarketBalance account exists
    balance,    \* TraderMarketBalance { available_base, available_quote }
    vault,      \* the market's two token vaults
    wallet,     \* the traders' own token accounts
    receipts,   \* SettlementReceipt by settlement id
    filled,     \* OrderFillState.filled_quantity by order, 0 without account
    cancelled   \* orders whose OrderFillState.cancelled is set

market == <<admin, authority, paused>>
custody == <<opened, balance, vault, wallet>>
settlement == <<receipts, filled, cancelled>>
vars == <<admin, authority, paused, slot, opened, balance, vault, wallet,
          receipts, filled, cancelled>>

Init ==
    /\ admin = NoOne
    /\ authority = NoOne
    /\ paused = FALSE
    /\ slot = 0
    /\ opened = {}
    /\ balance = [t \in Traders |-> [a \in Assets |-> 0]]
    /\ vault = [a \in Assets |-> 0]
    /\ wallet = InitialWallet
    /\ receipts = [id \in SettlementIds |-> NoReceipt]
    /\ filled = [o \in Orders |-> 0]
    /\ cancelled = {}

MarketOpen == authority # NoOne /\ ~paused

InitializeProtocol(signer) ==
    /\ admin = NoOne
    /\ admin' = signer
    /\ UNCHANGED <<authority, paused, slot, custody, settlement>>

InitializeMarket(signer, settlementAuthority) ==
    /\ authority = NoOne
    /\ admin # NoOne /\ signer = admin
    /\ authority' = settlementAuthority
    /\ paused' = FALSE
    /\ UNCHANGED <<admin, slot, custody, settlement>>

-----------------------------------------------------------------------------
(* Custody.                                                                 *)

Deposit(trader, asset, amount) ==
    /\ MarketOpen
    /\ amount > 0
    /\ wallet[trader][asset] >= amount
    /\ vault[asset] + amount <= MaxAmount
    /\ balance[trader][asset] + amount <= MaxAmount
    /\ wallet' = [wallet EXCEPT ![trader][asset] = @ - amount]
    /\ vault' = [vault EXCEPT ![asset] = @ + amount]
    /\ opened' = opened \cup {trader}
    /\ balance' = [balance EXCEPT ![trader][asset] = @ + amount]
    /\ UNCHANGED <<market, slot, settlement>>

Withdraw(trader, asset, amount) ==
    /\ MarketOpen
    /\ amount > 0
    /\ trader \in opened
    /\ balance[trader][asset] >= amount
    /\ vault[asset] >= amount
    /\ wallet[trader][asset] + amount <= MaxAmount
    /\ balance' = [balance EXCEPT ![trader][asset] = @ - amount]
    /\ vault' = [vault EXCEPT ![asset] = @ - amount]
    /\ wallet' = [wallet EXCEPT ![trader][asset] = @ + amount]
    /\ UNCHANGED <<market, slot, opened, settlement>>

-----------------------------------------------------------------------------
(* Settlement.                                                              *)

\* Both trader balances are writable accounts of one instruction, and Anchor
\* refuses one account passed twice as writable: buyer and seller differ.
DistinctAccounts(buyer, seller) ==
    buyer # seller /\ {buyer, seller} \subseteq opened

\* Both settlements create the receipt account of the id with init, which
\* fails when the account exists. Mutant: init_if_needed.
ReusableReceipt(id) == id \in SettlementIds
FreshReceipt(id) == receipts[id] = NoReceipt

\* Mutant of CanExchange: wrapping arithmetic.
CanExchangeUnchecked(buyer, seller, base, quote) ==
    {buyer, seller} \subseteq opened

\* apply_balance_settlement, and the same statements in settle_fill_handler:
\* checked_sub and checked_add on four balances.
CanExchange(buyer, seller, base, quote) ==
    /\ balance[buyer]["Quote"] >= quote
    /\ balance[buyer]["Base"] + base <= MaxAmount
    /\ balance[seller]["Base"] >= base
    /\ balance[seller]["Quote"] + quote <= MaxAmount

\* Mutant of Exchanged: the buyer is not debited.
ExchangedForFree(buyer, seller, base, quote) ==
    [balance EXCEPT ![buyer]["Base"] = @ + base,
                    ![seller] = [a \in Assets |-> IF a = "Base" THEN @[a] - base
                                                  ELSE @[a] + quote]]

Exchanged(buyer, seller, base, quote) ==
    [balance EXCEPT
        ![buyer]  = [a \in Assets |-> IF a = "Base" THEN @[a] + base ELSE @[a] - quote],
        ![seller] = [a \in Assets |-> IF a = "Base" THEN @[a] - base ELSE @[a] + quote]]

\* buyerOrder and sellerOrder are the order hashes: {} is [0; 32].
Receipt(buyer, seller, buyerOrder, sellerOrder, base, quote) ==
    [buyer |-> buyer, seller |-> seller, orders |-> buyerOrder \cup sellerOrder,
     base |-> base, quote |-> quote]

SettleFill(signer, id, buyer, seller, base, quote) ==
    /\ MarketOpen
    /\ signer = authority
    /\ DistinctAccounts(buyer, seller)
    /\ FreshReceipt(id)
    /\ base > 0 /\ quote > 0
    /\ CanExchange(buyer, seller, base, quote)
    /\ balance' = Exchanged(buyer, seller, base, quote)
    /\ receipts' = [receipts EXCEPT ![id] =
                        Receipt(buyer, seller, {}, {}, base, quote)]
    /\ UNCHANGED <<market, slot, opened, vault, wallet, filled, cancelled>>

\* What validate_signed_order_payload and validate_cancel_order_payload ask of
\* a payload besides its market, trader and side.
WellFormed(order) ==
    /\ order.id > 0 /\ order.price > 0 /\ order.quantity > 0
    /\ order.nonce > 0 /\ order.expiry > 0

\* validate_signed_order_payload and validate_signed_fill_rules.
SignedFillAllowed(buy, sell, price, quantity) ==
    /\ buy.side = "Bid" /\ sell.side = "Ask"
    /\ WellFormed(buy) /\ WellFormed(sell)
    /\ buy.trader # sell.trader
    /\ slot <= buy.expiry /\ slot <= sell.expiry
    /\ buy.price >= sell.price
    /\ price <= buy.price /\ price >= sell.price
    /\ quantity <= buy.quantity /\ quantity <= sell.quantity

\* Mutants of CanFill: each fill is compared by itself; a cancelled order
\* still fills.
CanFillEach(order, quantity) ==
    /\ order \notin cancelled
    /\ quantity <= order.quantity
CanFillCancelled(order, quantity) ==
    filled[order] + quantity <= order.quantity

\* apply_fill_state: what an order has filled over all its settlements.
CanFill(order, quantity) ==
    /\ order \notin cancelled
    /\ filled[order] + quantity <= order.quantity

\* Mutant of Filled: the last fill overwrites the sum.
FilledLast(buy, sell, quantity) ==
    [filled EXCEPT ![buy] = quantity, ![sell] = quantity]

Filled(buy, sell, quantity) ==
    [filled EXCEPT ![buy]  = @ + quantity,
                   ![sell] = @ + quantity]

SettleSignedFill(signer, id, buy, sell, price, quantity) ==
    LET quote == price * quantity
    IN  /\ MarketOpen
        /\ signer = authority
        /\ DistinctAccounts(buy.trader, sell.trader)
        /\ FreshReceipt(id)
        /\ price > 0 /\ quantity > 0
        /\ SignedFillAllowed(buy, sell, price, quantity)
        /\ CanFill(buy, quantity) /\ CanFill(sell, quantity)
        /\ quote <= MaxAmount
        /\ CanExchange(buy.trader, sell.trader, quantity, quote)
        /\ filled' = Filled(buy, sell, quantity)
        /\ balance' = Exchanged(buy.trader, sell.trader, quantity, quote)
        /\ receipts' = [receipts EXCEPT ![id] =
                            Receipt(buy.trader, sell.trader, {buy}, {sell},
                                    quantity, quote)]
        /\ UNCHANGED <<market, slot, opened, vault, wallet, cancelled>>

\* The trader of the order signs; the order may be unknown, filled, expired or
\* cancelled already.
CancelSignedOrder(signer, order) ==
    /\ MarketOpen
    /\ signer = order.trader
    /\ WellFormed(order)
    /\ cancelled' = cancelled \cup {order}
    /\ UNCHANGED <<market, slot, custody, receipts, filled>>

\* The cluster's clock (external).
AdvanceSlot ==
    /\ slot < MaxSlot
    /\ slot' = slot + 1
    /\ UNCHANGED <<market, custody, settlement>>

-----------------------------------------------------------------------------
Signers == Principals \cup Traders

CustodyStep ==
    \E t \in Traders, a \in Assets, amount \in TransferAmounts :
        Deposit(t, a, amount) \/ Withdraw(t, a, amount)

PlainSettlementStep ==
    \E signer \in Signers, id \in SettlementIds, buyer, seller \in Traders,
       base, quote \in TransferAmounts :
        SettleFill(signer, id, buyer, seller, base, quote)

SignedSettlementStep ==
    \E signer \in Signers, id \in SettlementIds, buy, sell \in Orders,
       price \in FillPrices, quantity \in FillQuantities :
        SettleSignedFill(signer, id, buy, sell, price, quantity)

Next ==
    \/ \E s \in Principals : InitializeProtocol(s)
    \/ \E s, a \in Principals : InitializeMarket(s, a)
    \/ CustodyStep
    \/ PlainSettlementStep
    \/ SignedSettlementStep
    \/ \E s \in Signers, o \in Orders : CancelSignedOrder(s, o)
    \/ AdvanceSlot

Spec == Init /\ [][Next]_vars

-----------------------------------------------------------------------------
(* Properties.                                                              *)

Settled == {id \in SettlementIds : receipts[id] # NoReceipt}
SettledFor(order) == {id \in Settled : order \in receipts[id].orders}

Receipts ==
    [buyer : Traders, seller : Traders, orders : SUBSET Orders,
     base : Amounts, quote : Amounts]

TypeOK ==
    /\ admin \in Principals \cup {NoOne}
    /\ authority \in Principals \cup {NoOne}
    /\ paused \in BOOLEAN
    /\ slot \in 0 .. MaxSlot
    /\ opened \subseteq Traders
    /\ balance \in [Traders -> [Assets -> Amounts]]
    /\ vault \in [Assets -> Amounts]
    /\ wallet \in [Traders -> [Assets -> Amounts]]
    /\ receipts \in [SettlementIds -> Receipts \cup {NoReceipt}]
    /\ filled \in [Orders -> Nat]
    /\ cancelled \subseteq Orders

\* The program's instructions leave in the vaults exactly what the traders'
\* balances promise, through any deposits, withdrawals and settlements: no
\* settlement pays out of nothing, and every balance can be withdrawn. Tokens
\* sent to a vault past the program would be on top of it.
VaultBacksBalances ==
    \A a \in Assets :
        vault[a] = SumFunction([t \in Traders |-> balance[t][a]])

\* A signed order is never filled past the quantity its trader signed, over
\* any number of partial settlements against any counterparties.
NeverOverfilled ==
    \A o \in Orders : filled[o] <= o.quantity

\* The cumulative fill state is the sum of the receipts that name the order:
\* no settlement is counted twice or missed.
FilledIsSumOfReceipts ==
    \A o \in Orders :
        filled[o] = SumFunction([id \in SettledFor(o) |-> receipts[id].base])

\* A cancelled order stays cancelled and is never filled again, not even by a
\* settlement signed and submitted before the cancellation landed.
CancelIsFinal ==
    [][ \A o \in cancelled : o \in cancelled' /\ filled'[o] = filled[o] ]_vars

\* Only a valid order fills: nothing fills an order past its expiry slot.
NoFillAfterExpiry ==
    [][ \A o \in Orders : slot > o.expiry => filled'[o] = filled[o] ]_vars

\* A settlement id settles once: its receipt, once written, never changes
\* (settlement_rejects_replay_by_existing_receipt), so a resubmitted
\* transaction cannot move the balances a second time.
ReceiptsAreForever ==
    [][ \A id \in Settled : receipts'[id] = receipts[id] ]_vars
=============================================================================
