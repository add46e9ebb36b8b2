------------------------------- MODULE Venue --------------------------------
(* The book and the chain together: the matching engine whose fills the     *)
(* traders see at once, the service that turns fills into settlement        *)
(* requests from the signed orders it holds in memory, and the program      *)
(* spot-settlement that executes them later, if it still can.               *)
(*                                                                          *)
(* SettlementRelay has the outbox and its worker step by step. Here a row   *)
(* of the outbox may be submitted at any time and any number of times, or   *)
(* never: every retry, crash and late transaction of the worker is one of   *)
(* these. The engine survives a crash, its journal is replayed (Exchange,   *)
(* MarketActor); which orders the balances allow is left open. The chain is *)
(* SpotSettlement itself, without the plain settlements this service never  *)
(* asks for.                                                                *)
EXTENDS Matching

CONSTANTS
    Orders,         \* order payloads of this market, as in SpotSettlement
    Payloads,       \* what may be registered:
                    \* [trader, order, hash, signed]
    Placements,     \* orders the market actor may accept
    MaxPlacements,  \* bound: orders accepted in a behaviour
    MaxCancels,     \* bound: signed orders cancelled in a behaviour
    Funds,          \* what each trader has deposited on chain at first
    TransferAmounts, MaxAmount, MaxSlot     \* as in SpotSettlement

\* Orders as PlaceOrderRequest makes them, with the id the client chose.
ASSUME PlacementsAssumption ==
    \A o \in Placements :
        /\ o.id \in Nat
        /\ \E t \in Traders, s \in Sides, p \in Prices, q \in Quantities :
              o = NewOrder(o.id, t, s, p, q)
ASSUME BoundsAssumption == MaxPlacements \in Nat /\ MaxCancels \in Nat
\* A payload has u64 fields, zero among them, and one of two sides. It is
\* registered under a trader id, which need not be that of the order's key,
\* with a hash, which need not be the order's (an order stands for its hash),
\* and a signature, which need not verify. Payloads of another market are left
\* out: the bridge refuses them.
ASSUME PayloadsAssumption ==
    /\ \A o \in Orders :
          /\ o.side \in Sides
          /\ {o.id, o.price, o.quantity, o.nonce, o.expiry} \subseteq Nat
    /\ \A p \in Payloads : p.order \in Orders
ASSUME LastSlotAssumption == MaxSlot \in Nat

Authority == "Authority"    \* settlement_authority and payer
ServiceKeys == {Authority}
Unsigned == [signed |-> FALSE]
OrderIds == {o.id : o \in Placements}
AllSettlementIds == 0 .. 2 * MaxPlacements

VARIABLES
    engine,         \* the matching engine
    placed,         \* <<[order, fills]>>: every accepted order, as replied
    handlers,       \* how far the handler of each accepted order is, in memory
    signedOrders,   \* SettlementEdgeState.signed_orders, in memory
    nextId,         \* SettlementEdgeState.next_settlement_id, in memory
    outbox,         \* the requests of settlement_outbox
    admin, authority, paused, slot, opened, balance, vault, wallet,
    receipts, filled, cancelled     \* the chain

service == <<engine, placed, handlers, signedOrders, nextId, outbox>>
chain == <<admin, authority, paused, slot, opened, balance, vault, wallet,
           receipts, filled, cancelled>>
vars == <<service, chain>>

Chain == INSTANCE SpotSettlement
    WITH Principals <- ServiceKeys, SettlementIds <- AllSettlementIds,
         FillPrices <- Prices, FillQuantities <- Quantities, InitialWallet <- Funds

\* The market is open, the traders have deposited what they had and the last
\* slot that expires nothing has come.
Init ==
    /\ engine = NewEngine
    /\ placed = <<>>
    /\ handlers = <<>>
    /\ signedOrders = [id \in OrderIds |-> Unsigned]
    /\ nextId = 0
    /\ outbox = {}
    /\ admin = Authority /\ authority = Authority /\ paused = FALSE
    /\ slot = MaxSlot - 1
    /\ opened = Traders
    /\ balance = Funds
    /\ vault = [a \in Chain!Assets |-> SumFunction([t \in Traders |-> Funds[t][a]])]
    /\ wallet = [t \in Traders |-> [a \in Chain!Assets |-> 0]]
    /\ receipts = [id \in AllSettlementIds |-> Chain!NoReceipt]
    /\ filled = [o \in Orders |-> 0]
    /\ cancelled = {}

-----------------------------------------------------------------------------
(* The service. The handler of an order goes on alone after the actor's     *)
(* reply: each lock it takes and each row it inserts is a step of its own,  *)
(* and in between others register payloads and have handlers of their own.  *)

Handler(step) ==
    [step |-> step, first |-> 0, maker |-> Unsigned, requests |-> <<>>, queued |-> 0]

\* The actor accepts an order and replies with its fills. An order id may be
\* used again: only command ids are checked for duplicates.
PlaceOrder(order) ==
    LET result == PlaceInEngine(engine, order)
    IN  /\ Len(placed) < MaxPlacements
        /\ engine' = result.engine
        /\ placed' = Append(placed, [order |-> order, fills |-> result.fills])
        /\ handlers' = Append(handlers,
                            Handler(IF result.fills = <<>> THEN "Done" ELSE "Allocate"))
        /\ UNCHANGED <<signedOrders, nextId, outbox, chain>>

\* insert: the last payload registered for an order id replaces the others.
\* The handler looks at no field of it: neither the signature nor the hash,
\* nor whether price, quantity, nonce and expiry are what the chain accepts.
RegisterSignedOrder(payload) ==
    /\ signedOrders' = [signedOrders EXCEPT ![payload.order.id] = payload]
    /\ UNCHANGED <<engine, placed, handlers, nextId, outbox, chain>>

\* allocate_settlement_ids: one id for each fill.
AllocateIds(n) ==
    /\ handlers[n].step = "Allocate"
    /\ nextId' = nextId + Len(placed[n].fills)
    /\ handlers' = [handlers EXCEPT ![n] = [Handler("Maker") EXCEPT !.first = nextId]]
    /\ UNCHANGED <<engine, placed, signedOrders, outbox, chain>>

\* The fill that the handler of placement n bridges now.
FillOf(n) == placed[n].fills[Len(handlers[n].requests) + 1]

\* The signed order of the maker is read under the lock, or the batch is
\* skipped: MissingSignedOrder.
ReadMaker(n) ==
    LET maker == signedOrders[FillOf(n).maker]
    IN  /\ handlers[n].step = "Maker"
        /\ handlers' = [handlers EXCEPT ![n] =
                            IF maker = Unsigned THEN Handler("Done")
                            ELSE [@ EXCEPT !.step = "Taker", !.maker = maker]]
        /\ UNCHANGED <<engine, placed, signedOrders, nextId, outbox, chain>>

\* from_fill: the taker's side says who buys.
BuyerTrader(order, fill) ==
    IF order.side = "Bid" THEN fill.takerTrader ELSE fill.makerTrader
SellerTrader(order, fill) ==
    IF order.side = "Bid" THEN fill.makerTrader ELSE fill.takerTrader

WithinPayloads(fill, buy, sell) ==
    /\ fill.price <= buy.price /\ fill.price >= sell.price
    /\ fill.quantity <= buy.quantity /\ fill.quantity <= sell.quantity

\* bid_ask_orders orders the two payloads by the side they state, and then
\* validate_fill compares them with the intent.
CanBridge(order, fill, maker, taker) ==
    /\ taker # Unsigned
    /\ maker.order.side # taker.order.side
    /\ LET buy  == IF maker.order.side = "Bid" THEN maker ELSE taker
           sell == IF maker.order.side = "Bid" THEN taker ELSE maker
       IN  /\ buy.trader = BuyerTrader(order, fill)
           /\ sell.trader = SellerTrader(order, fill)
           /\ WithinPayloads(fill, buy.order, sell.order)

\* One of the two payloads, as bid_ask_orders returns them.
PayloadOn(side, maker, taker) == CHOOSE p \in {maker, taker} : p.order.side = side

\* Mutant of RequestFrom: the taker's quantity, not the fill's.
RequestForOrder(order, fill, maker, taker, id) ==
    [id |-> id, buy |-> PayloadOn("Bid", maker, taker),
     sell |-> PayloadOn("Ask", maker, taker),
     price |-> fill.price, quantity |-> order.quantity]

RequestFrom(order, fill, maker, taker, id) ==
    [id |-> id, buy |-> PayloadOn("Bid", maker, taker),
     sell |-> PayloadOn("Ask", maker, taker),
     price |-> fill.price, quantity |-> fill.quantity]

\* The signed order of the taker is read, and the fill bridged; one fill that
\* cannot be bridged drops the whole batch.
ReadTaker(n) ==
    LET h == handlers[n]
        order == placed[n].order
        taker == signedOrders[FillOf(n).taker]
        request == RequestFrom(order, FillOf(n), h.maker, taker, h.first + Len(h.requests))
        last == Len(h.requests) + 1 = Len(placed[n].fills)
    IN  /\ h.step = "Taker"
        /\ handlers' = [handlers EXCEPT ![n] =
                IF CanBridge(order, FillOf(n), h.maker, taker)
                THEN [h EXCEPT !.step = IF last THEN "Insert" ELSE "Maker",
                               !.maker = Unsigned,
                               !.requests = Append(@, request)]
                ELSE Handler("Done")]
        /\ UNCHANGED <<engine, placed, signedOrders, nextId, outbox, chain>>

\* The handler after another row.
Inserted(h, finally) ==
    IF h.queued + 1 = Len(h.requests) THEN Handler(finally)
    ELSE [h EXCEPT !.queued = @ + 1]

\* Mutant of InsertRow: the fills are queued again, under other ids.
InsertRowAndRepeat(n) ==
    LET h == handlers[n]
    IN  /\ h.step = "Insert"
        /\ outbox' = outbox \cup {h.requests[h.queued + 1]}
        /\ handlers' = [handlers EXCEPT ![n] = Inserted(h, "Allocate")]
        /\ UNCHANGED <<engine, placed, signedOrders, nextId, chain>>

\* enqueue_settlement_requests: one INSERT for each request, in no transaction.
InsertRow(n) ==
    LET h == handlers[n]
    IN  /\ h.step = "Insert"
        /\ outbox' = outbox \cup {h.requests[h.queued + 1]}
        /\ handlers' = [handlers EXCEPT ![n] = Inserted(h, "Done")]
        /\ UNCHANGED <<engine, placed, signedOrders, nextId, chain>>

\* An INSERT fails, or its answer is lost: the rest is not inserted.
InsertFails(n) ==
    /\ handlers[n].step = "Insert"
    /\ handlers' = [handlers EXCEPT ![n] = Handler("Done")]
    /\ UNCHANGED <<engine, placed, signedOrders, nextId, outbox, chain>>

QueueSettlementRequests(n) ==
    AllocateIds(n) \/ ReadMaker(n) \/ ReadTaker(n) \/ InsertRow(n) \/ InsertFails(n)

\* A restart replays the journal; what was in memory is gone.
Restart ==
    /\ handlers' = [n \in DOMAIN handlers |-> Handler("Done")]
    /\ signedOrders' = [id \in OrderIds |-> Unsigned]
    /\ nextId' = 0
    /\ UNCHANGED <<engine, placed, outbox, chain>>

-----------------------------------------------------------------------------
(* From a request to the chain: settlement_client and the ed25519 checks.   *)

Ed25519(payload) == [program |-> "Ed25519", order |-> payload.order,
                     signer |-> payload.order.trader, verifies |-> payload.signed]
ComputeBudget(what) == [program |-> "ComputeBudget", sets |-> what]

\* SignedSettlementInstructionBuilder: the two signatures come right before
\* the settlement.
TransactionOf(r) ==
    <<ComputeBudget("limit"), ComputeBudget("price"),
      Ed25519(r.buy), Ed25519(r.sell), [program |-> "SpotSettlement"]>>

\* verify_previous_ed25519_instruction: the instruction at a position relative
\* to the settlement signs this order by its trader.
SignedAt(transaction, back, order) ==
    LET instruction == transaction[Len(transaction) - back]
    IN  /\ instruction.program = "Ed25519"
        /\ instruction.order = order
        /\ instruction.signer = order.trader
        /\ instruction.verifies

\* The program hashes both payloads and compares with the hashes it was given,
\* then looks for the two signatures.
SignaturesVerify(r) ==
    /\ r.buy.hash = r.buy.order /\ r.sell.hash = r.sell.order
    /\ SignedAt(TransactionOf(r), 2, r.buy.order)
    /\ SignedAt(TransactionOf(r), 1, r.sell.order)

\* Mutant of ValidateSignedFill: an order expires in its last slot.
ValidateUnexpiredFill(bid, ask, price, quantity) ==
    /\ bid.order.side = "Bid" /\ ask.order.side = "Ask"
    /\ bid.trader # ask.trader
    /\ ~(slot >= bid.order.expiry \/ slot >= ask.order.expiry)
    /\ ~(bid.order.price < ask.order.price)
    /\ ~(price > bid.order.price \/ price < ask.order.price)
    /\ ~(quantity > bid.order.quantity \/ quantity > ask.order.quantity)

\* The domain crate's copy of the program's rule (validate_signed_fill). It
\* compares trader ids where the program compares keys, and its types hold no
\* zero: it is asked only of payloads that are WellFormed.
ValidateSignedFill(bid, ask, price, quantity) ==
    /\ bid.order.side = "Bid" /\ ask.order.side = "Ask"
    /\ bid.trader # ask.trader
    /\ ~(slot > bid.order.expiry \/ slot > ask.order.expiry)
    /\ ~(bid.order.price < ask.order.price)
    /\ ~(price > bid.order.price \/ price < ask.order.price)
    /\ ~(quantity > bid.order.quantity \/ quantity > ask.order.quantity)

\* bound: r.id is one of AllSettlementIds; a behaviour never needs another,
\* for every fill completes an order.
Submit(r) ==
    /\ r.id \in AllSettlementIds
    /\ SignaturesVerify(r)
    /\ Chain!SettleSignedFill(Authority, r.id, r.buy.order, r.sell.order,
                              r.price, r.quantity)
    /\ UNCHANGED service

CancelStep ==
    /\ Cardinality(cancelled) < MaxCancels
    /\ \E o \in Orders : Chain!CancelSignedOrder(o.trader, o)

TraderStep == (Chain!CustodyStep \/ CancelStep) /\ UNCHANGED service

ClockStep == Chain!AdvanceSlot /\ UNCHANGED service

Next ==
    \/ \E order \in Placements : PlaceOrder(order)
    \/ \E p \in Payloads : RegisterSignedOrder(p)
    \/ \E n \in DOMAIN placed : QueueSettlementRequests(n)
    \/ Restart
    \/ \E r \in outbox : Submit(r)
    \/ TraderStep
    \/ ClockStep

Spec == Init /\ [][Next]_vars

-----------------------------------------------------------------------------
(* Properties.                                                              *)

\* The fills of the book between two order ids, as <<placement, position>>.
Fills == UNION {{n} \X DOMAIN placed[n].fills : n \in DOMAIN placed}
FillAt(x) == placed[x[1]].fills[x[2]]
FillsBetween(a, b) == {x \in Fills : {FillAt(x).maker, FillAt(x).taker} = {a, b}}

ReceiptsBetween(a, b) ==
    {id \in Chain!Settled : {o.id : o \in receipts[id].orders} = {a, b}}

\* The chain moves only what the book has matched: between two orders, all the
\* settlements together move no more base and no more quote than the fills the
\* engine made between them, whatever was resubmitted, registered anew or
\* numbered again after a restart. Which of the two buys is what the payloads
\* say; no code compares that with the sides they were placed on.
ChainWithinBook ==
    \A a, b \in OrderIds :
        /\ SumFunction([id \in ReceiptsBetween(a, b) |-> receipts[id].base])
           <= SumFunction([x \in FillsBetween(a, b) |-> FillAt(x).quantity])
        /\ SumFunction([id \in ReceiptsBetween(a, b) |-> receipts[id].quote])
           <= SumFunction([x \in FillsBetween(a, b) |-> FillAt(x).price * FillAt(x).quantity])

PlacedQuantity(id) ==
    SumFunction([n \in {m \in DOMAIN placed : placed[m].order.id = id} |->
                    placed[n].order.quantity])

\* The payload is well formed, stated with its own hash, and its trader's own
\* signature of all that was placed under its order id; it is neither expired
\* nor cancelled.
StillGood(p) ==
    /\ Chain!WellFormed(p.order) /\ p.hash = p.order
    /\ p.signed /\ p.trader = p.order.trader
    /\ p.order.quantity >= PlacedQuantity(p.order.id)
    /\ slot <= p.order.expiry
    /\ p.order \notin cancelled

\* A client that registers honest payloads has its fills settled: a request
\* whose id is unused, with payloads that are still good, of two traders,
\* passes every check of the program on payloads, hashes, signatures and what
\* its orders have filled, so that only balances can refuse it. It holds through
\* any reuse of order ids, replaced payloads, restarts and partial settlements.
\* What the service itself never looks at (a zero, a wrong hash, a forged
\* signature, another trader's key) is bridged and always refused.
GoodRequestsNeedOnlyFunds ==
    \A r \in outbox :
        (/\ Chain!FreshReceipt(r.id)
         /\ StillGood(r.buy) /\ StillGood(r.sell)
         /\ r.buy.trader # r.sell.trader)
        => /\ SignaturesVerify(r)
           /\ Chain!SignedFillAllowed(r.buy.order, r.sell.order, r.price, r.quantity)
           /\ Chain!CanFill(r.buy.order, r.quantity)
           /\ Chain!CanFill(r.sell.order, r.quantity)

\* The rule is written twice, in the domain crate and in the program, and the
\* copies agree on every request the bridge lets through whose payloads the
\* domain types can hold and whose traders' ids and keys differ alike.
DomainRuleAgrees ==
    \A r \in outbox :
        (/\ Chain!WellFormed(r.buy.order) /\ Chain!WellFormed(r.sell.order)
         /\ (r.buy.trader = r.sell.trader) <=> (r.buy.order.trader = r.sell.order.trader))
        => (ValidateSignedFill(r.buy, r.sell, r.price, r.quantity)
            <=> Chain!SignedFillAllowed(r.buy.order, r.sell.order, r.price, r.quantity))
=============================================================================
