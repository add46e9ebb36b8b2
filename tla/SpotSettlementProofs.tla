------------------------ MODULE SpotSettlementProofs ------------------------
(* Theorems about SpotSettlement for every set of traders, orders and       *)
(* settlement ids, and every width MaxAmount of the amounts.                *)
EXTENDS SpotSettlement, Sums, TLAPS

\* What the constants' assumptions say of one order, in the form the proofs use.
LEMMA OrderFacts ==
    ASSUME NEW o \in Orders
    PROVE  /\ o.trader \in Traders
           /\ o.quantity \in Nat /\ o.quantity <= MaxAmount
           /\ o.price \in Nat /\ o.price <= MaxAmount
           /\ o.expiry \in Nat
BY OrdersAssumption, MaxAmountAssumption DEF Amounts

\* The exchange of the two legs keeps every balance inside u64: the checked
\* arithmetic of apply_balance_settlement.
LEMMA ExchangedType ==
    ASSUME TypeOK,
           NEW buyer \in Traders, NEW seller \in Traders, buyer # seller,
           NEW base \in Nat, NEW quote \in Nat,
           CanExchange(buyer, seller, base, quote)
    PROVE  Exchanged(buyer, seller, base, quote) \in [Traders -> [Assets -> Amounts]]
<1> DEFINE bought == [a \in Assets |-> IF a = "Base" THEN balance[buyer][a] + base
                                                     ELSE balance[buyer][a] - quote]
           sold   == [a \in Assets |-> IF a = "Base" THEN balance[seller][a] - base
                                                     ELSE balance[seller][a] + quote]
<1>1. bought \in [Assets -> Amounts]
  BY MaxAmountAssumption DEF TypeOK, Amounts, Assets, CanExchange
<1>2. sold \in [Assets -> Amounts]
  BY MaxAmountAssumption DEF TypeOK, Amounts, Assets, CanExchange
<1>3. Exchanged(buyer, seller, base, quote)
        = [balance EXCEPT ![buyer] = bought, ![seller] = sold]
  BY DEF Exchanged, TypeOK
<1> HIDE DEF bought, sold
<1>4. QED
  BY <1>1, <1>2, <1>3 DEF TypeOK

LEMMA InitTypeOK == Init => TypeOK
<1> SUFFICES ASSUME Init PROVE TypeOK
  OBVIOUS
<1>1. 0 \in Amounts /\ slot \in 0 .. MaxSlot
  BY MaxAmountAssumption, MaxSlotAssumption DEF Init, Amounts
<1>2. balance \in [Traders -> [Assets -> Amounts]] /\ vault \in [Assets -> Amounts]
  BY <1>1 DEF Init
<1>3. receipts \in [SettlementIds -> Receipts \cup {NoReceipt}]
  BY DEF Init
<1>4. QED
  BY <1>1, <1>2, <1>3, WalletAssumption DEF Init, TypeOK

LEMMA DepositTypeOK ==
    ASSUME TypeOK, NEW t \in Traders, NEW a \in Assets, NEW amount \in TransferAmounts,
           Deposit(t, a, amount)
    PROVE  TypeOK'
<1>1. amount \in Nat
  BY ArgumentsAssumption DEF Amounts
<1>2. balance' \in [Traders -> [Assets -> Amounts]]
  BY <1>1, MaxAmountAssumption DEF Deposit, TypeOK, Amounts
<1>3. wallet' \in [Traders -> [Assets -> Amounts]]
  BY <1>1, MaxAmountAssumption DEF Deposit, TypeOK, Amounts
<1>4. vault' \in [Assets -> Amounts]
  BY <1>1, MaxAmountAssumption DEF Deposit, TypeOK, Amounts
<1>5. QED
  BY <1>2, <1>3, <1>4 DEF Deposit, TypeOK, market, settlement

LEMMA WithdrawTypeOK ==
    ASSUME TypeOK, NEW t \in Traders, NEW a \in Assets, NEW amount \in TransferAmounts,
           Withdraw(t, a, amount)
    PROVE  TypeOK'
<1>1. amount \in Nat
  BY ArgumentsAssumption DEF Amounts
<1>2. balance' \in [Traders -> [Assets -> Amounts]]
  BY <1>1, MaxAmountAssumption DEF Withdraw, TypeOK, Amounts
<1>3. wallet' \in [Traders -> [Assets -> Amounts]]
  BY <1>1, MaxAmountAssumption DEF Withdraw, TypeOK, Amounts
<1>4. vault' \in [Assets -> Amounts]
  BY <1>1, MaxAmountAssumption DEF Withdraw, TypeOK, Amounts
<1>5. QED
  BY <1>2, <1>3, <1>4 DEF Withdraw, TypeOK, market, settlement

LEMMA SettleFillTypeOK ==
    ASSUME TypeOK, NEW signer \in Signers, NEW id \in SettlementIds,
           NEW buyer \in Traders, NEW seller \in Traders,
           NEW base \in TransferAmounts, NEW quote \in TransferAmounts,
           SettleFill(signer, id, buyer, seller, base, quote)
    PROVE  TypeOK'
<1>1. base \in Amounts /\ quote \in Amounts
  BY ArgumentsAssumption
<1>2. balance' \in [Traders -> [Assets -> Amounts]]
  <2>1. base \in Nat /\ quote \in Nat
    BY <1>1 DEF Amounts
  <2>2. QED
    BY <2>1, ExchangedType DEF SettleFill, DistinctAccounts
<1>3. receipts' \in [SettlementIds -> Receipts \cup {NoReceipt}]
  <2>1. Receipt(buyer, seller, {}, {}, base, quote) \in Receipts
    BY <1>1 DEF Receipt, Receipts
  <2>2. QED
    BY <2>1 DEF SettleFill, TypeOK
<1>4. QED
  BY <1>2, <1>3 DEF SettleFill, TypeOK, market

LEMMA SettleSignedFillTypeOK ==
    ASSUME TypeOK, NEW signer \in Signers, NEW id \in SettlementIds,
           NEW buy \in Orders, NEW sell \in Orders,
           NEW price \in FillPrices, NEW quantity \in FillQuantities,
           SettleSignedFill(signer, id, buy, sell, price, quantity)
    PROVE  TypeOK'
<1> DEFINE quote == price * quantity
<1>1. price \in Nat /\ quantity \in Nat /\ quote \in Nat
  BY ArgumentsAssumption
<1>2. buy.trader \in Traders /\ sell.trader \in Traders
  BY OrderFacts
<1>3. quantity \in Amounts /\ quote \in Amounts
  <2>1. quantity <= buy.quantity /\ quote <= MaxAmount
    BY DEF SettleSignedFill, SignedFillAllowed
  <2>2. QED
    BY <1>1, <2>1, OrderFacts, MaxAmountAssumption DEF Amounts
<1>4. balance' = Exchanged(buy.trader, sell.trader, quantity, quote)
  BY DEF SettleSignedFill
<1>5. CanExchange(buy.trader, sell.trader, quantity, quote)
      /\ buy.trader # sell.trader
  BY DEF SettleSignedFill, DistinctAccounts
<1>6. receipts' = [receipts EXCEPT ![id] =
                      Receipt(buy.trader, sell.trader, {buy}, {sell}, quantity, quote)]
  BY DEF SettleSignedFill
<1> HIDE DEF quote
<1>7. balance' \in [Traders -> [Assets -> Amounts]]
  BY <1>1, <1>2, <1>4, <1>5, ExchangedType
<1>8. receipts' \in [SettlementIds -> Receipts \cup {NoReceipt}]
  <2>1. Receipt(buy.trader, sell.trader, {buy}, {sell}, quantity, quote) \in Receipts
    BY <1>2, <1>3 DEF Receipt, Receipts
  <2>2. QED
    BY <2>1, <1>6 DEF TypeOK
<1>9. filled' \in [Orders -> Nat]
  BY <1>1 DEF SettleSignedFill, Filled, TypeOK
<1>10. QED
  BY <1>7, <1>8, <1>9 DEF SettleSignedFill, TypeOK, market

LEMMA NextTypeOK == TypeOK /\ [Next]_vars => TypeOK'
<1> SUFFICES ASSUME TypeOK, [Next]_vars PROVE TypeOK'
  OBVIOUS
<1>1. ASSUME NEW s \in Principals, InitializeProtocol(s) PROVE TypeOK'
  BY <1>1 DEF InitializeProtocol, TypeOK, custody, settlement
<1>2. ASSUME NEW s \in Principals, NEW a \in Principals, InitializeMarket(s, a)
      PROVE  TypeOK'
  BY <1>2 DEF InitializeMarket, TypeOK, custody, settlement
<1>3. CASE CustodyStep
  BY <1>3, DepositTypeOK, WithdrawTypeOK DEF CustodyStep
<1>4. CASE PlainSettlementStep
  BY <1>4, SettleFillTypeOK DEF PlainSettlementStep
<1>5. CASE SignedSettlementStep
  BY <1>5, SettleSignedFillTypeOK DEF SignedSettlementStep
<1>6. ASSUME NEW s \in Signers, NEW o \in Orders, CancelSignedOrder(s, o)
      PROVE  TypeOK'
  BY <1>6 DEF CancelSignedOrder, TypeOK, market, custody
<1>7. CASE AdvanceSlot
  BY <1>7, MaxSlotAssumption DEF AdvanceSlot, TypeOK, market, custody, settlement
<1>8. CASE UNCHANGED vars
  BY <1>8 DEF vars, TypeOK
<1>9. QED
  BY <1>1, <1>2, <1>3, <1>4, <1>5, <1>6, <1>7, <1>8 DEF Next

\* Every value the program stores has its type: balances, vaults and wallets
\* stay within u64, so no checked operation leaves a wrapped value behind.
THEOREM TypeCorrect == Spec => []TypeOK
<1>1. Init => TypeOK
  BY InitTypeOK
<1>2. TypeOK /\ [Next]_vars => TypeOK'
  BY NextTypeOK
<1>3. QED
  BY <1>1, <1>2, PTL DEF Spec

-----------------------------------------------------------------------------
(* Custody. A deposit or a withdrawal moves one balance and the vault by    *)
(* the same amount; a settlement moves two balances by opposite amounts.    *)

\* What the traders own of one asset.
Owned(a) == [t \in Traders |-> balance[t][a]]

LEMMA OwnedType ==
    ASSUME TypeOK, NEW a \in Assets
    PROVE  /\ \A t \in Traders : Owned(a)[t] \in Int /\ Owned(a)[t] = balance[t][a]
           /\ vault[a] \in Int
           /\ SumFunction(Owned(a)) = SumFunctionOnSet(Owned(a), Traders)
BY DEF Owned, TypeOK, Amounts, SumFunction

\* Moving one balance and its vault together keeps the vault backing.
LEMMA TransferBacked ==
    ASSUME TypeOK, TypeOK', VaultBacksBalances,
           NEW t \in Traders, NEW a \in Assets, NEW d \in Int,
           balance' = [balance EXCEPT ![t][a] = balance[t][a] + d],
           vault' = [vault EXCEPT ![a] = vault[a] + d]
    PROVE  VaultBacksBalances'
<1> SUFFICES ASSUME NEW b \in Assets
             PROVE  vault'[b] = SumFunction(Owned(b)')
  BY DEF VaultBacksBalances, Owned
<1>1. /\ \A u \in Traders : Owned(b)[u] \in Int /\ Owned(b)'[u] \in Int
      /\ \A u \in Traders \ {t} : Owned(b)'[u] = Owned(b)[u]
      /\ Owned(b)'[t] = IF b = a THEN Owned(b)[t] + d ELSE Owned(b)[t]
      /\ vault'[b] = IF b = a THEN vault[b] + d ELSE vault[b]
      /\ vault[b] \in Int
  BY DEF Owned, TypeOK, Amounts
<1>2. vault[b] = SumFunctionOnSet(Owned(b), Traders)
      /\ SumFunction(Owned(b)') = SumFunctionOnSet(Owned(b)', Traders)
  BY DEF VaultBacksBalances, Owned, SumFunction
<1>3. SumFunctionOnSet(Owned(b)', Traders)
        = SumFunctionOnSet(Owned(b), Traders) + (Owned(b)'[t] - Owned(b)[t])
  BY <1>1, FiniteAssumption, SumUpdate
<1> QED
  BY <1>1, <1>2, <1>3

\* What a settlement adds to one trader's balance of an asset, it takes from the
\* other's: the sum over all traders does not move.
LEMMA ExchangeBacked ==
    ASSUME TypeOK, TypeOK', VaultBacksBalances,
           NEW buyer \in Traders, NEW seller \in Traders, buyer # seller,
           NEW base \in Nat, NEW quote \in Nat,
           balance' = Exchanged(buyer, seller, base, quote), vault' = vault
    PROVE  VaultBacksBalances'
<1> SUFFICES ASSUME NEW b \in Assets
             PROVE  vault'[b] = SumFunction(Owned(b)')
  BY DEF VaultBacksBalances, Owned
<1>1. /\ \A u \in Traders : Owned(b)[u] \in Int /\ Owned(b)'[u] \in Int
      /\ \A u \in Traders \ {buyer, seller} : Owned(b)'[u] = Owned(b)[u]
      /\ Owned(b)'[buyer] = IF b = "Base" THEN Owned(b)[buyer] + base
                            ELSE Owned(b)[buyer] - quote
      /\ Owned(b)'[seller] = IF b = "Base" THEN Owned(b)[seller] - base
                             ELSE Owned(b)[seller] + quote
      /\ vault[b] \in Int
  BY DEF Owned, TypeOK, Amounts, Exchanged
<1>2. vault[b] = SumFunctionOnSet(Owned(b), Traders)
      /\ SumFunction(Owned(b)') = SumFunctionOnSet(Owned(b)', Traders)
  BY DEF VaultBacksBalances, Owned, SumFunction
<1>3. SumFunctionOnSet(Owned(b)', Traders)
        = SumFunctionOnSet(Owned(b), Traders) + (Owned(b)'[buyer] - Owned(b)[buyer])
            + (Owned(b)'[seller] - Owned(b)[seller])
  BY <1>1, FiniteAssumption, SumTransfer
<1> QED
  BY <1>1, <1>2, <1>3

LEMMA BackedKept ==
    ASSUME TypeOK, TypeOK', VaultBacksBalances, [Next]_vars
    PROVE  VaultBacksBalances'
<1>1. ASSUME UNCHANGED <<balance, vault>> PROVE VaultBacksBalances'
  BY <1>1 DEF VaultBacksBalances
<1>2. ASSUME NEW t \in Traders, NEW a \in Assets, NEW amount \in TransferAmounts,
             Deposit(t, a, amount) \/ Withdraw(t, a, amount)
      PROVE  VaultBacksBalances'
  <2>1. amount \in Int /\ -amount \in Int
    BY ArgumentsAssumption DEF Amounts
  <2>2. balance[t][a] \in Int /\ vault[a] \in Int
    BY DEF TypeOK, Amounts
  <2>3. CASE Deposit(t, a, amount)
    BY <2>1, <2>3, TransferBacked DEF Deposit
  <2>4. CASE Withdraw(t, a, amount)
    <3>1. /\ balance' = [balance EXCEPT ![t][a] = balance[t][a] + (-amount)]
          /\ vault' = [vault EXCEPT ![a] = vault[a] + (-amount)]
      BY <2>1, <2>2, <2>4 DEF Withdraw
    <3> QED
      BY <2>1, <3>1, TransferBacked
  <2> QED
    BY <1>2, <2>3, <2>4
<1>3. ASSUME NEW signer \in Signers, NEW id \in SettlementIds,
             NEW buyer \in Traders, NEW seller \in Traders,
             NEW base \in TransferAmounts, NEW quote \in TransferAmounts,
             SettleFill(signer, id, buyer, seller, base, quote)
      PROVE  VaultBacksBalances'
  BY <1>3, ArgumentsAssumption, ExchangeBacked DEF SettleFill, DistinctAccounts, Amounts
<1>4. ASSUME NEW signer \in Signers, NEW id \in SettlementIds,
             NEW buy \in Orders, NEW sell \in Orders,
             NEW price \in FillPrices, NEW quantity \in FillQuantities,
             SettleSignedFill(signer, id, buy, sell, price, quantity)
      PROVE  VaultBacksBalances'
  <2>1. quantity \in Nat /\ price * quantity \in Nat
    BY ArgumentsAssumption
  <2>2. /\ balance' = Exchanged(buy.trader, sell.trader, quantity, price * quantity)
        /\ buy.trader # sell.trader /\ vault' = vault
    BY <1>4 DEF SettleSignedFill, DistinctAccounts
  <2> QED
    BY <2>1, <2>2, OrderFacts, ExchangeBacked
<1>5. ASSUME NEW s \in Principals, InitializeProtocol(s) PROVE VaultBacksBalances'
  BY <1>1, <1>5 DEF InitializeProtocol, custody
<1>6. ASSUME NEW s \in Principals, NEW a \in Principals, InitializeMarket(s, a)
      PROVE  VaultBacksBalances'
  BY <1>1, <1>6 DEF InitializeMarket, custody
<1>7. ASSUME NEW s \in Signers, NEW o \in Orders, CancelSignedOrder(s, o)
      PROVE  VaultBacksBalances'
  BY <1>1, <1>7 DEF CancelSignedOrder, custody
<1>8. CASE AdvanceSlot
  BY <1>1, <1>8 DEF AdvanceSlot, custody
<1>9. CASE UNCHANGED vars
  BY <1>1, <1>9 DEF vars
<1>10. QED
  BY <1>2, <1>3, <1>4, <1>5, <1>6, <1>7, <1>8, <1>9
     DEF Next, CustodyStep, PlainSettlementStep, SignedSettlementStep

\* The vaults hold the sum of the traders' balances, for any number of traders
\* and any history: what deposit put in, withdraw can take out, and neither
\* settlement pays out of nothing.
THEOREM VaultBacksBalancesHolds == Spec => []VaultBacksBalances
<1>1. Init => VaultBacksBalances
  <2> SUFFICES ASSUME Init, NEW a \in Assets
               PROVE  vault[a] = SumFunction(Owned(a))
    BY DEF VaultBacksBalances, Owned
  <2>1. \A t \in Traders : Owned(a)[t] = 0
    BY DEF Init, Owned
  <2>2. SumFunction(Owned(a)) = SumFunctionOnSet(Owned(a), Traders)
    BY DEF SumFunction, Owned
  <2> QED
    BY <2>1, <2>2, FiniteAssumption, SumOfZeros DEF Init
<1>2. TypeOK /\ TypeOK' /\ VaultBacksBalances /\ [Next]_vars => VaultBacksBalances'
  BY BackedKept
<1>3. QED
  BY <1>1, <1>2, TypeCorrect, PTL DEF Spec

-----------------------------------------------------------------------------
(* What the steps do to the fill state. Every theorem below reads a step    *)
(* through this lemma: only a settlement of two open, unexpired orders with *)
(* room left fills, and only their trader's cancellation cancels.           *)
LEMMA FillStateSteps ==
    ASSUME TypeOK, [Next]_vars, NEW o \in Orders
    PROVE  /\ cancelled \subseteq cancelled'
           /\ \/ filled'[o] = filled[o]
              \/ /\ o \notin cancelled
                 /\ slot <= o.expiry
                 /\ filled'[o] <= o.quantity
<1>1. ASSUME NEW s \in Principals, InitializeProtocol(s)
      PROVE  UNCHANGED <<filled, cancelled>>
  BY <1>1 DEF InitializeProtocol, settlement
<1>2. ASSUME NEW s \in Principals, NEW a \in Principals, InitializeMarket(s, a)
      PROVE  UNCHANGED <<filled, cancelled>>
  BY <1>2 DEF InitializeMarket, settlement
<1>3. CustodyStep => UNCHANGED <<filled, cancelled>>
  BY DEF CustodyStep, Deposit, Withdraw, settlement
<1>4. PlainSettlementStep => UNCHANGED <<filled, cancelled>>
  BY DEF PlainSettlementStep, SettleFill
<1>5. ASSUME NEW signer \in Signers, NEW id \in SettlementIds,
             NEW buy \in Orders, NEW sell \in Orders,
             NEW price \in FillPrices, NEW quantity \in FillQuantities,
             SettleSignedFill(signer, id, buy, sell, price, quantity)
      PROVE  /\ cancelled' = cancelled
             /\ \/ filled'[o] = filled[o]
                \/ /\ o \notin cancelled
                   /\ slot <= o.expiry
                   /\ filled'[o] <= o.quantity
  <2>1. cancelled' = cancelled
    BY <1>5 DEF SettleSignedFill
  <2>2. SignedFillAllowed(buy, sell, price, quantity)
        /\ CanFill(buy, quantity) /\ CanFill(sell, quantity)
    BY <1>5 DEF SettleSignedFill
  <2>3. buy # sell
    BY <2>2 DEF SignedFillAllowed
  <2>4. filled' = [filled EXCEPT ![buy] = @ + quantity, ![sell] = @ + quantity]
    BY <1>5 DEF SettleSignedFill, Filled
  <2>5. CASE o = buy
    BY <2>1, <2>2, <2>3, <2>4, <2>5 DEF TypeOK, SignedFillAllowed, CanFill
  <2>6. CASE o = sell
    BY <2>1, <2>2, <2>3, <2>4, <2>6 DEF TypeOK, SignedFillAllowed, CanFill
  <2>7. CASE o # buy /\ o # sell
    BY <2>1, <2>4, <2>7 DEF TypeOK
  <2>8. QED
    BY <2>5, <2>6, <2>7
<1>6. ASSUME NEW s \in Signers, NEW c \in Orders, CancelSignedOrder(s, c)
      PROVE  cancelled \subseteq cancelled' /\ filled' = filled
  BY <1>6 DEF CancelSignedOrder
<1>7. AdvanceSlot => UNCHANGED <<filled, cancelled>>
  BY DEF AdvanceSlot, settlement
<1>8. UNCHANGED vars => UNCHANGED <<filled, cancelled>>
  BY DEF vars
<1>9. QED
  BY <1>1, <1>2, <1>3, <1>4, <1>5, <1>6, <1>7, <1>8
     DEF Next, SignedSettlementStep

\* A signed order is never filled past its signed quantity, whatever partial
\* settlements, cancellations and slots come in between (apply_fill_state).
THEOREM NeverOverfilledHolds == Spec => []NeverOverfilled
<1>1. Init => NeverOverfilled
  BY OrderFacts DEF Init, NeverOverfilled
<1>2. TypeOK /\ NeverOverfilled /\ [Next]_vars => NeverOverfilled'
  BY FillStateSteps DEF NeverOverfilled
<1>3. QED
  BY <1>1, <1>2, TypeCorrect, PTL DEF Spec

-----------------------------------------------------------------------------
(* The fill state and the receipts: one receipt more, one term more.        *)

Bases(o) == [id \in SettledFor(o) |-> receipts[id].base]

\* The receipt a settlement writes under a fresh id joins the receipts of the
\* orders it names, and of no other; the others keep their terms.
LEMMA ReceiptAdded ==
    ASSUME TypeOK, NEW id \in SettlementIds, FreshReceipt(id),
           NEW r \in Receipts, receipts' = [receipts EXCEPT ![id] = r],
           NEW o \in Orders
    PROVE  /\ id \notin SettledFor(o)
           /\ SettledFor(o)' = IF o \in r.orders THEN SettledFor(o) \cup {id} ELSE SettledFor(o)
           /\ \A i \in SettledFor(o) : receipts'[i] = receipts[i] /\ receipts[i] \in Receipts
           /\ receipts'[id] = r
<1>1. r # NoReceipt
  BY NoOneAssumption DEF Receipts, NoReceipt
<1>2. \A i \in SettlementIds : receipts[i] # NoReceipt => receipts[i] \in Receipts
  BY DEF TypeOK
<1> QED
  BY <1>1, <1>2 DEF TypeOK, FreshReceipt, SettledFor, Settled

\* What that does to the sum of the order's receipts.
LEMMA SumOfReceipts ==
    ASSUME TypeOK, NEW id \in SettlementIds, FreshReceipt(id),
           NEW r \in Receipts, receipts' = [receipts EXCEPT ![id] = r],
           NEW o \in Orders
    PROVE  /\ SumFunction(Bases(o)) \in Int
           /\ SumFunction(Bases(o)') = IF o \in r.orders THEN r.base + SumFunction(Bases(o))
                                       ELSE SumFunction(Bases(o))
<1> DEFINE S == SettledFor(o)
<1>1. IsFiniteSet(S) /\ IsFiniteSet(S')
  <2>1. S \in SUBSET SettlementIds /\ S' \in SUBSET SettlementIds
    BY DEF SettledFor, Settled
  <2> QED
    BY <2>1, FiniteAssumption, FS_Subset
<1>2. /\ SumFunction(Bases(o)) = SumFunctionOnSet(Bases(o), S)
      /\ SumFunction(Bases(o)') = SumFunctionOnSet(Bases(o)', S')
  BY DEF SumFunction, Bases
<1>3. /\ id \notin S
      /\ S' = IF o \in r.orders THEN S \cup {id} ELSE S
      /\ \A i \in S : receipts'[i] = receipts[i] /\ receipts[i] \in Receipts
      /\ receipts'[id] = r
  BY ReceiptAdded
<1>4. \A i \in S : Bases(o)'[i] = Bases(o)[i] /\ Bases(o)[i] \in Int
  BY <1>3 DEF Bases, Receipts, Amounts
<1>5. SumFunctionOnSet(Bases(o)', S) = SumFunctionOnSet(Bases(o), S)
      /\ SumFunctionOnSet(Bases(o), S) \in Int
  <2>1. SumFunctionOnSet(Bases(o)', S) = SumFunctionOnSet(Bases(o), S)
    BY <1>1, <1>4, SumCongruent
  <2>2. SumFunctionOnSet(Bases(o), S) \in Int
    BY <1>1, <1>4, SumIsInt
  <2> QED
    BY <2>1, <2>2
<1>6. CASE o \in r.orders
  <2>1. Bases(o)'[id] = r.base /\ r.base \in Int /\ S' = S \cup {id}
    BY <1>3, <1>6 DEF Bases, Receipts, Amounts
  <2>2. SumFunctionOnSet(Bases(o)', S \cup {id}) = r.base + SumFunctionOnSet(Bases(o)', S)
    BY <1>1, <1>3, <1>4, <2>1, SumAdd
  <2> QED
    BY <1>2, <1>5, <1>6, <2>1, <2>2
<1>7. CASE o \notin r.orders
  BY <1>2, <1>3, <1>5, <1>7
<1> QED
  BY <1>6, <1>7

LEMMA FilledSummed ==
    ASSUME TypeOK, FilledIsSumOfReceipts, [Next]_vars
    PROVE  FilledIsSumOfReceipts'
<1>1. ASSUME UNCHANGED <<receipts, filled>> PROVE FilledIsSumOfReceipts'
  BY <1>1 DEF FilledIsSumOfReceipts, SettledFor, Settled
<1>2. ASSUME NEW signer \in Signers, NEW id \in SettlementIds,
             NEW buyer \in Traders, NEW seller \in Traders,
             NEW base \in TransferAmounts, NEW quote \in TransferAmounts,
             SettleFill(signer, id, buyer, seller, base, quote)
      PROVE  FilledIsSumOfReceipts'
  <2> DEFINE r == Receipt(buyer, seller, {}, {}, base, quote)
  <2>1. r \in Receipts /\ r.orders = {}
    BY ArgumentsAssumption DEF Receipt, Receipts
  <2>2. FreshReceipt(id) /\ receipts' = [receipts EXCEPT ![id] = r] /\ filled' = filled
    BY <1>2 DEF SettleFill
  <2> HIDE DEF r
  <2> SUFFICES ASSUME NEW o \in Orders
               PROVE  filled'[o] = SumFunction(Bases(o)')
    BY DEF FilledIsSumOfReceipts, Bases
  <2>3. SumFunction(Bases(o)') = SumFunction(Bases(o))
    BY <2>1, <2>2, SumOfReceipts
  <2> QED
    BY <2>2, <2>3 DEF FilledIsSumOfReceipts, Bases
<1>3. ASSUME NEW signer \in Signers, NEW id \in SettlementIds,
             NEW buy \in Orders, NEW sell \in Orders,
             NEW price \in FillPrices, NEW quantity \in FillQuantities,
             SettleSignedFill(signer, id, buy, sell, price, quantity)
      PROVE  FilledIsSumOfReceipts'
  <2> DEFINE r == Receipt(buy.trader, sell.trader, {buy}, {sell}, quantity, price * quantity)
  <2>1. r \in Receipts /\ r.orders = {buy, sell} /\ r.base = quantity /\ quantity \in Nat
    <3>1. price \in Nat /\ quantity \in Nat /\ price * quantity \in Nat
      BY ArgumentsAssumption
    <3>2. quantity <= buy.quantity /\ price * quantity <= MaxAmount
      BY <1>3 DEF SettleSignedFill, SignedFillAllowed
    <3>3. quantity \in Amounts /\ price * quantity \in Amounts
      BY <3>1, <3>2, OrderFacts, MaxAmountAssumption DEF Amounts
    <3> QED
      BY <3>1, <3>3, OrderFacts DEF Receipt, Receipts
  <2>2. /\ FreshReceipt(id) /\ receipts' = [receipts EXCEPT ![id] = r]
        /\ filled' = [filled EXCEPT ![buy] = @ + quantity, ![sell] = @ + quantity]
        /\ buy # sell
    BY <1>3 DEF SettleSignedFill, Filled, SignedFillAllowed
  <2> HIDE DEF r
  <2> SUFFICES ASSUME NEW o \in Orders
               PROVE  filled'[o] = SumFunction(Bases(o)')
    BY DEF FilledIsSumOfReceipts, Bases
  <2>3. /\ SumFunction(Bases(o)) \in Int
        /\ SumFunction(Bases(o)') = IF o \in {buy, sell} THEN quantity + SumFunction(Bases(o))
                                    ELSE SumFunction(Bases(o))
    BY <2>1, <2>2, SumOfReceipts
  <2>4. filled[o] = SumFunction(Bases(o))
    BY DEF FilledIsSumOfReceipts, Bases
  <2>5. filled'[o] = IF o \in {buy, sell} THEN filled[o] + quantity ELSE filled[o]
    BY <2>2 DEF TypeOK
  <2> QED
    BY <2>1, <2>3, <2>4, <2>5
<1>4. ASSUME NEW s \in Principals, InitializeProtocol(s) PROVE FilledIsSumOfReceipts'
  BY <1>1, <1>4 DEF InitializeProtocol, settlement
<1>5. ASSUME NEW s \in Principals, NEW a \in Principals, InitializeMarket(s, a)
      PROVE  FilledIsSumOfReceipts'
  BY <1>1, <1>5 DEF InitializeMarket, settlement
<1>6. CASE CustodyStep
  BY <1>1, <1>6 DEF CustodyStep, Deposit, Withdraw, settlement
<1>7. ASSUME NEW s \in Signers, NEW o \in Orders, CancelSignedOrder(s, o)
      PROVE  FilledIsSumOfReceipts'
  BY <1>1, <1>7 DEF CancelSignedOrder
<1>8. CASE AdvanceSlot
  BY <1>1, <1>8 DEF AdvanceSlot, settlement
<1>9. CASE UNCHANGED vars
  BY <1>1, <1>9 DEF vars
<1>10. QED
  BY <1>2, <1>3, <1>4, <1>5, <1>6, <1>7, <1>8, <1>9
     DEF Next, PlainSettlementStep, SignedSettlementStep

\* What apply_fill_state has counted for an order is what the receipts that name
\* it add up to, over any settlements by any counterparties.
THEOREM FilledIsSumOfReceiptsHolds == Spec => []FilledIsSumOfReceipts
<1>1. Init => FilledIsSumOfReceipts
  <2> SUFFICES ASSUME Init, NEW o \in Orders
               PROVE  filled[o] = SumFunction(Bases(o))
    BY DEF FilledIsSumOfReceipts, Bases
  <2>1. SettledFor(o) = {}
    BY DEF Init, SettledFor, Settled
  <2>2. SumFunction(Bases(o)) = 0
    BY <2>1, SumEmpty DEF SumFunction, Bases
  <2> QED
    BY <2>2 DEF Init
<1>2. TypeOK /\ FilledIsSumOfReceipts /\ [Next]_vars => FilledIsSumOfReceipts'
  BY FilledSummed
<1>3. QED
  BY <1>1, <1>2, TypeCorrect, PTL DEF Spec

\* Cancellation is final: no step of the program fills or revives a cancelled
\* order (apply_fill_state refuses it, nothing resets the flag).
THEOREM CancelIsFinalHolds == Spec => CancelIsFinal
<1>1. TypeOK /\ [Next]_vars =>
        [\A o \in cancelled : o \in cancelled' /\ filled'[o] = filled[o]]_vars
  <2> SUFFICES ASSUME TypeOK, [Next]_vars, NEW o \in cancelled
               PROVE  o \in cancelled' /\ filled'[o] = filled[o]
    OBVIOUS
  <2>1. o \in Orders
    BY DEF TypeOK
  <2>2. QED
    BY <2>1, FillStateSteps
<1>2. QED
  BY <1>1, TypeCorrect, PTL DEF Spec, CancelIsFinal

\* No order is filled in a slot past its expiry (validate_signed_fill_rules).
THEOREM NoFillAfterExpiryHolds == Spec => NoFillAfterExpiry
<1>1. TypeOK /\ [Next]_vars =>
        [\A o \in Orders : slot > o.expiry => filled'[o] = filled[o]]_vars
  <2> SUFFICES ASSUME TypeOK, [Next]_vars, NEW o \in Orders, slot > o.expiry
               PROVE  filled'[o] = filled[o]
    OBVIOUS
  <2>1. ~(slot <= o.expiry)
    BY OrderFacts DEF TypeOK
  <2>2. QED
    BY <2>1, FillStateSteps
<1>2. QED
  BY <1>1, TypeCorrect, PTL DEF Spec, NoFillAfterExpiry

\* A receipt, once written, is never changed or removed: the init constraint
\* on the receipt account makes every settlement id settle at most once.
THEOREM ReceiptsAreForeverHolds == Spec => ReceiptsAreForever
<1>1. TypeOK /\ [Next]_vars => [\A id \in Settled : receipts'[id] = receipts[id]]_vars
  <2> SUFFICES ASSUME TypeOK, [Next]_vars, NEW id \in Settled
               PROVE  receipts'[id] = receipts[id]
    OBVIOUS
  <2>1. id \in SettlementIds /\ receipts[id] # NoReceipt
    BY DEF Settled
  <2>2. ASSUME NEW s \in Principals, InitializeProtocol(s) PROVE receipts' = receipts
    BY <2>2 DEF InitializeProtocol, settlement
  <2>3. ASSUME NEW s \in Principals, NEW a \in Principals, InitializeMarket(s, a)
        PROVE  receipts' = receipts
    BY <2>3 DEF InitializeMarket, settlement
  <2>4. CustodyStep => receipts' = receipts
    BY DEF CustodyStep, Deposit, Withdraw, settlement
  <2>5. PlainSettlementStep => receipts'[id] = receipts[id]
    BY <2>1 DEF PlainSettlementStep, SettleFill, FreshReceipt, TypeOK
  <2>6. SignedSettlementStep => receipts'[id] = receipts[id]
    BY <2>1 DEF SignedSettlementStep, SettleSignedFill, FreshReceipt, TypeOK
  <2>7. ASSUME NEW s \in Signers, NEW o \in Orders, CancelSignedOrder(s, o)
        PROVE  receipts' = receipts
    BY <2>7 DEF CancelSignedOrder
  <2>8. AdvanceSlot => receipts' = receipts
    BY DEF AdvanceSlot, settlement
  <2>9. UNCHANGED vars => receipts' = receipts
    BY DEF vars
  <2>10. QED
    BY <2>2, <2>3, <2>4, <2>5, <2>6, <2>7, <2>8, <2>9 DEF Next
<1>2. QED
  BY <1>1, TypeCorrect, PTL DEF Spec, ReceiptsAreForever

=============================================================================
