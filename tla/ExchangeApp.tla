----------------------------- MODULE ExchangeApp -----------------------------
(* ExchangeApplication of crates/application/src/lib.rs with the balance    *)
(* sheet and reservations of crates/domain/src/reservation.rs: what a       *)
(* command becomes (an event), and what an event does.                      *)
(* Every function of the code that returns a Result returns a record whose  *)
(* err is NoError, or the name of the error variant and no change.          *)
EXTENDS Matching

CONSTANTS
    BaseAsset, QuoteAsset,  \* the market's two assets
    MaxAmount   \* the largest BalanceAmount (u64::MAX in the code)

ASSUME MaxAmountAssumption == MaxAmount \in Nat
ASSUME AssetsAssumption == BaseAsset # QuoteAsset

Assets == {BaseAsset, QuoteAsset}
Accounts == Traders \X Assets
Amounts == 0 .. MaxAmount

NoError == "None"
Failed(err) == [err |-> err]

\* BalanceSheet: a balance the map has no entry for is Balance::default().
NewApp ==
    [available |-> [a \in Accounts |-> 0],
     reserved  |-> [a \in Accounts |-> 0],
     engine    |-> NewEngine,
     events    |-> <<>>,
     seen      |-> {}]

\* Reservation::for_order: a bid reserves its quote cost, which is computed in
\* u128 and must fit a BalanceAmount; an ask reserves its base quantity.
\* Mutant: a bid reserves its quantity, not its cost.
ReserveQuantity(order) == order.quantity

ReservationAmount(order) ==
    IF order.side = "Bid" THEN order.price * order.quantity ELSE order.quantity

ReservationAccount(order) ==
    <<order.trader, IF order.side = "Bid" THEN QuoteAsset ELSE BaseAsset>>

\* Reservation::for_order, then Balance::reserve on a copy of the sheet.
ReserveError(app, order) ==
    LET amount  == ReservationAmount(order)
        account == ReservationAccount(order)
    IN  CASE amount > MaxAmount -> "AmountConversionOverflow"
          [] amount <= MaxAmount /\ app.available[account] < amount ->
                 "InsufficientAvailableBalance"
          [] amount <= MaxAmount /\ app.available[account] >= amount
                 /\ app.reserved[account] + amount > MaxAmount ->
                 "ArithmeticOverflow"
          [] OTHER -> NoError

PlaceOrderInDomain(app, order) ==
    LET amount  == ReservationAmount(order)
        account == ReservationAccount(order)
        placed  == PlaceInEngine(app.engine, order)
    IN  IF IsTerminal(order) THEN Failed("OrderAlreadyTerminal")
        ELSE IF ReserveError(app, order) # NoError
             THEN Failed(ReserveError(app, order))
        ELSE [err   |-> NoError,
              fills |-> placed.fills,
              app   |-> [app EXCEPT !.available[account] = @ - amount,
                                    !.reserved[account]  = @ + amount,
                                    !.engine             = placed.engine]]

-----------------------------------------------------------------------------
(* Commands to events. A command is a record with its kind and command id.  *)

DepositEvent(cmd, trader, asset, amount) ==
    [type |-> "DepositCredited", cmd |-> cmd,
     account |-> <<trader, asset>>, amount |-> amount]

\* Mutant of OrderEvent: the event forgets the fills.
OrderEventWithoutFills(cmd, order, fills) ==
    [type |-> "OrderPlaced", cmd |-> cmd, order |-> order, fills |-> <<>>]

OrderEvent(cmd, order, fills) ==
    [type |-> "OrderPlaced", cmd |-> cmd, order |-> order, fills |-> fills]

CreditDepositEvent(app, cmd, trader, asset, amount) ==
    IF cmd \in app.seen
    THEN Failed("DuplicateCommand")
    ELSE [err |-> NoError, event |-> DepositEvent(cmd, trader, asset, amount)]

PlaceOrderEvent(app, cmd, order) ==
    IF cmd \in app.seen
    THEN Failed("DuplicateCommand")
    ELSE LET simulated == PlaceOrderInDomain(app, order)
         IN  IF simulated.err # NoError
             THEN Failed(simulated.err)
             ELSE [err |-> NoError, event |-> OrderEvent(cmd, order, simulated.fills)]

-----------------------------------------------------------------------------
(* Events to state: apply_event, the only writer of the application state,  *)
(* of live commands and of replay alike.                                    *)

\* Mutant of RecordAppliedEvent: the command id is not remembered.
RecordEventOnly(app, event) == [app EXCEPT !.events = Append(@, event)]

RecordAppliedEvent(app, event) ==
    [app EXCEPT !.events = Append(@, event), !.seen = @ \cup {event.cmd}]

\* Mutant of ApplyDeposit: a saturating addition.
ApplyDepositSaturating(app, event) ==
    [err |-> NoError,
     app |-> RecordAppliedEvent(
                 [app EXCEPT !.available[event.account] =
                     IF @ + event.amount > MaxAmount THEN MaxAmount
                     ELSE @ + event.amount], event)]

\* credit_available adds with checked_add.
ApplyDeposit(app, event) ==
    IF app.available[event.account] + event.amount > MaxAmount
    THEN [err |-> "ArithmeticOverflow", app |-> app]
    ELSE [err |-> NoError,
          app |-> RecordAppliedEvent(
                      [app EXCEPT !.available[event.account] = @ + event.amount],
                      event)]

\* The order is executed again and must fill as the event says; on a mismatch
\* the balances and the book are already changed.
ApplyOrder(app, event) ==
    LET placed == PlaceOrderInDomain(app, event.order)
    IN  IF placed.err # NoError THEN [err |-> placed.err, app |-> app]
        ELSE IF placed.fills # event.fills
             THEN [err |-> "ReplayMismatch", app |-> placed.app]
        ELSE [err |-> NoError, app |-> RecordAppliedEvent(placed.app, event)]

ApplyEvent(app, event) ==
    IF event.cmd \in app.seen THEN [err |-> "DuplicateCommand", app |-> app]
    ELSE IF event.type = "DepositCredited" THEN ApplyDeposit(app, event)
    ELSE ApplyOrder(app, event)

-----------------------------------------------------------------------------
(* What the properties of the modules above this one say of an app value.   *)

\* ExchangeApplication::replay, which stops at the first error.
ReplayOf(events) ==
    LET State[n \in 0 .. Len(events)] ==
            IF n = 0 THEN [err |-> NoError, app |-> NewApp]
            ELSE IF State[n - 1].err # NoError THEN State[n - 1]
            ELSE ApplyEvent(State[n - 1].app, events[n])
    IN  State[Len(events)]

EventsOfType(events, type) == {n \in DOMAIN events : events[n].type = type}

Deposited(app, account) ==
    LET deposits == {n \in EventsOfType(app.events, "DepositCredited") :
                        app.events[n].account = account}
    IN  SumFunction([n \in deposits |-> app.events[n].amount])

\* The reservation the part of a resting order that can still trade needs.
Backing(order) ==
    IF order.side = "Bid" THEN order.price * order.remaining ELSE order.remaining

BackingNeeded(app, account) ==
    LET resting == RestingOrders(app.engine["Bid"]) \cup RestingOrders(app.engine["Ask"])
    IN  SumFunction([o \in {r \in resting : ReservationAccount(r) = account} |-> Backing(o)])
=============================================================================
