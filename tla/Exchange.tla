------------------------------ MODULE Exchange ------------------------------
(* The application service driven by arbitrary deposits and orders: the     *)
(* methods credit_deposit and place_order of ExchangeApplication.           *)
EXTENDS ExchangeApp

CONSTANTS
    DepositAmounts, \* amounts a deposit may have
    MaxEvents       \* bound: events recorded in a behaviour

ASSUME DepositAmountsAssumption == DepositAmounts \subseteq Amounts
ASSUME MaxEventsAssumption == MaxEvents \in Nat

VARIABLES
    app,    \* ExchangeApplication
    reply   \* what the last call returned

vars == <<app, reply>>

Init ==
    /\ app = NewApp
    /\ reply = NoError

\* Both methods derive the event and apply it.
ApplyDerived(derived) ==
    IF derived.err # NoError
    THEN reply' = derived.err /\ UNCHANGED app
    ELSE LET applied == ApplyEvent(app, derived.event)
         IN  reply' = applied.err /\ app' = applied.app

CreditDeposit(cmd, trader, asset, amount) ==
    ApplyDerived(CreditDepositEvent(app, cmd, trader, asset, amount))

PlaceOrder(cmd, order) ==
    ApplyDerived(PlaceOrderEvent(app, cmd, order))

\* A caller picks a fresh command id, or repeats one.
CommandIds == 1 .. Len(app.events) + 1

Next ==
    /\ Len(app.events) < MaxEvents
    /\ \E cmd \in CommandIds :
        \/ \E t \in Traders, a \in Assets, amount \in DepositAmounts :
              CreditDeposit(cmd, t, a, amount)
        \/ \E t \in Traders, s \in Sides, p \in Prices, q \in Quantities :
              PlaceOrder(cmd, NewOrder(Len(app.events) + 1, t, s, p, q))

Spec == Init /\ [][Next]_vars

-----------------------------------------------------------------------------

\* Nothing a command does creates or destroys funds: what a trader holds,
\* available and reserved, is what was deposited. Fills leave the off-chain
\* balances alone (they settle on chain), and no failing command keeps a part
\* of its effect.
BalancesConserved ==
    \A a \in Accounts :
        app.available[a] + app.reserved[a] = Deposited(app, a)

\* The book is always fully funded: the sum of what the resting orders of a
\* trader can still be asked to pay never exceeds the reserved balance, across
\* partial fills, price improvement and several orders on one account.
RestingOrdersBacked ==
    \A a \in Accounts : BackingNeeded(app, a) <= app.reserved[a]

\* The event log is a complete description of the state: replay of the events
\* recorded so far succeeds and rebuilds balances, book, log and seen commands
\* (replay_rebuilds_balances_book_and_events), whatever commands failed in
\* between.
ReplayRebuildsState ==
    ReplayOf(app.events) = [err |-> NoError, app |-> app]

\* A command id takes effect at most once, and a call that returns an error
\* leaves the whole application as it was.
ErrorsAndDuplicatesChangeNothing ==
    [][ /\ app' # app =>
              /\ reply' = NoError
              /\ Len(app'.events) = Len(app.events) + 1
              /\ \A n \in DOMAIN app.events :
                    app.events[n].cmd # app'.events[Len(app'.events)].cmd
        /\ Len(app'.events) >= Len(app.events) ]_vars
=============================================================================
