--------------------------- MODULE ExchangeProofs ---------------------------
(* Theorems about the exchange service and its matching engine, for every   *)
(* finite set of prices, every set of quantities and of traders, and        *)
(* histories of any length.                                                 *)
EXTENDS Exchange, MatchingEngine, Sums, SequenceTheorems

-----------------------------------------------------------------------------
(* The application: what a call does to it.                                 *)

\* The log is a sequence, and what it says of a deposit is a deposit.
IsEventLog(events) ==
    /\ events \in Seq({events[i] : i \in DOMAIN events})
    /\ \A n \in DOMAIN events : events[n].type = "DepositCredited" =>
           events[n].account \in Accounts /\ events[n].amount \in Nat

AppType(a) ==
    /\ a = [available |-> a.available, reserved |-> a.reserved, engine |-> a.engine,
            events |-> a.events, seen |-> a.seen]
    /\ a.available \in [Accounts -> Amounts]
    /\ a.reserved \in [Accounts -> Amounts]
    /\ IsEventLog(a.events)
    /\ a.seen = {a.events[n].cmd : n \in DOMAIN a.events}

\* A deposit and an order taken.
Credited(a, b, cmd, account, amount) ==
    /\ cmd \notin a.seen
    /\ a.available[account] + amount <= MaxAmount
    /\ b.available = [a.available EXCEPT ![account] = @ + amount]
    /\ b.reserved = a.reserved
    /\ b.engine = a.engine
    /\ b.events = Append(a.events, [type |-> "DepositCredited", cmd |-> cmd,
                                    account |-> account, amount |-> amount])
    /\ b.seen = a.seen \cup {cmd}

Funded(a, order) ==
    /\ ReservationAmount(order) <= a.available[ReservationAccount(order)]
    /\ a.reserved[ReservationAccount(order)] + ReservationAmount(order) <= MaxAmount

Taken(a, b, cmd, order) ==
    /\ cmd \notin a.seen
    /\ Funded(a, order)
    /\ b.available = [a.available EXCEPT
                         ![ReservationAccount(order)] = @ - ReservationAmount(order)]
    /\ b.reserved = [a.reserved EXCEPT
                         ![ReservationAccount(order)] = @ + ReservationAmount(order)]
    /\ b.engine = PlaceInEngine(a.engine, order).engine
    /\ b.events = Append(a.events, OrderEvent(cmd, order, PlaceInEngine(a.engine, order).fills))
    /\ b.seen = a.seen \cup {cmd}

\* What applying one more event of the log did.
Recorded(a, b) ==
    \E event : /\ event.cmd \notin a.seen
               /\ b.events = Append(a.events, event)
               /\ ApplyEvent(a, event) = [err |-> NoError, app |-> b]

LEMMA OrderAmounts ==
    ASSUME NEW id, NEW t \in Traders, NEW s \in Sides, NEW p \in Prices, NEW q \in Quantities
    PROVE  /\ ReservationAmount(NewOrder(id, t, s, p, q)) \in Nat
           /\ ReservationAccount(NewOrder(id, t, s, p, q)) \in Accounts
           /\ ~IsTerminal(NewOrder(id, t, s, p, q))
<1> DEFINE order == NewOrder(id, t, s, p, q)
<1>1. /\ order.side = s /\ order.price = p /\ order.quantity = q
      /\ order.remaining = q /\ order.trader = t
  BY DEF NewOrder
<1> HIDE DEF order
<1>2. p \in Nat /\ q \in Nat /\ p * q \in Nat /\ q # 0
  BY PricesAssumption, QuantitiesAssumption
<1>3. ReservationAmount(order) \in Nat
  BY <1>1, <1>2 DEF ReservationAmount
<1>4. ReservationAccount(order) \in Accounts
  BY <1>1 DEF ReservationAccount, Accounts, Assets
<1>5. ~IsTerminal(order)
  BY <1>1, <1>2 DEF IsTerminal
<1> QED BY <1>3, <1>4, <1>5 DEF order

LEMMA ReservedFunds ==
    ASSUME NEW a, AppType(a), NEW order, ReservationAmount(order) \in Nat,
           ReservationAccount(order) \in Accounts, ReserveError(a, order) = NoError
    PROVE  Funded(a, order)
<1> DEFINE amount == ReservationAmount(order)
           free == a.available[ReservationAccount(order)]
           held == a.reserved[ReservationAccount(order)]
<1>1. amount \in Int /\ free \in Int /\ held \in Int /\ MaxAmount \in Int
  BY MaxAmountAssumption DEF AppType, Amounts
<1>2. ~(amount > MaxAmount)
  BY <1>1 DEF ReserveError, NoError
<1>3. ~(amount <= MaxAmount /\ free < amount)
  BY <1>1, <1>2 DEF ReserveError, NoError
<1>4. ~(amount <= MaxAmount /\ free >= amount /\ held + amount > MaxAmount)
  BY <1>1, <1>2, <1>3 DEF ReserveError, NoError
<1> QED BY <1>1, <1>2, <1>3, <1>4 DEF Funded

\* Recording a change of the balances and the book.
Changed(a, x, y, z, event) ==
    RecordAppliedEvent([a EXCEPT !.available = x, !.reserved = y, !.engine = z], event)

HasFields(b, x, y, z, log, ids) ==
    b = [available |-> x, reserved |-> y, engine |-> z, events |-> log, seen |-> ids]

LEMMA RecordedFields ==
    ASSUME NEW a, AppType(a), NEW x, NEW y, NEW z, NEW event
    PROVE  HasFields(Changed(a, x, y, z, event), x, y, z,
                     Append(a.events, event), a.seen \cup {event.cmd})
<1> DEFINE b1 == [available |-> x, reserved |-> a.reserved, engine |-> a.engine,
                  events |-> a.events, seen |-> a.seen]
           b2 == [available |-> x, reserved |-> y, engine |-> a.engine,
                  events |-> a.events, seen |-> a.seen]
           b3 == [available |-> x, reserved |-> y, engine |-> z,
                  events |-> a.events, seen |-> a.seen]
           log == Append(a.events, event)
           b4 == [available |-> x, reserved |-> y, engine |-> z,
                  events |-> log, seen |-> a.seen]
           ids == a.seen \cup {event.cmd}
<1> HIDE DEF log, ids
<1>1. [a EXCEPT !.available = x] = b1
  <2>1. a = [available |-> a.available, reserved |-> a.reserved, engine |-> a.engine,
             events |-> a.events, seen |-> a.seen]
    BY DEF AppType
  <2> QED BY <2>1
<1>2. [b1 EXCEPT !.reserved = y] = b2
  OBVIOUS
<1>3. [b2 EXCEPT !.engine = z] = b3
  OBVIOUS
<1>4. [b3 EXCEPT !.events = log] = b4
  OBVIOUS
<1>5. [b4 EXCEPT !.seen = ids]
        = [available |-> x, reserved |-> y, engine |-> z, events |-> log, seen |-> ids]
  OBVIOUS
<1>6. b3.events = a.events /\ b3.seen = a.seen
  OBVIOUS
<1> HIDE DEF b1, b2, b3, b4
<1>7. [a EXCEPT !.available = x, !.reserved = y, !.engine = z] = b3
  BY <1>1, <1>2, <1>3
<1>8. RecordAppliedEvent(b3, event) = [b3 EXCEPT !.events = log, !.seen = ids]
  BY <1>6 DEF RecordAppliedEvent, log, ids
<1> QED BY <1>4, <1>5, <1>7, <1>8 DEF Changed, HasFields, log, ids

LEMMA CreditSteps ==
    ASSUME NEW a, AppType(a), NEW cmd, NEW t \in Traders, NEW asset \in Assets,
           NEW amount \in Nat,
           CreditDepositEvent(a, cmd, t, asset, amount).err = NoError,
           NEW r, r = ApplyEvent(a, CreditDepositEvent(a, cmd, t, asset, amount).event)
    PROVE  \/ r.err # NoError /\ r.app = a
           \/ /\ r.err = NoError
              /\ Credited(a, r.app, cmd, <<t, asset>>, amount)
              /\ r.app = [available |-> r.app.available, reserved |-> r.app.reserved,
                          engine |-> r.app.engine, events |-> r.app.events,
                          seen |-> r.app.seen]
              /\ Recorded(a, r.app)
<1> DEFINE event == [type |-> "DepositCredited", cmd |-> cmd,
                     account |-> <<t, asset>>, amount |-> amount]
<1>1. /\ cmd \notin a.seen
      /\ CreditDepositEvent(a, cmd, t, asset, amount).event = event
  BY DEF CreditDepositEvent, DepositEvent, Failed, NoError
<1>2. event.type = "DepositCredited" /\ event.cmd = cmd
      /\ event.account = <<t, asset>> /\ event.amount = amount
  OBVIOUS
<1> HIDE DEF event
<1>3. r = ApplyDeposit(a, event) /\ r = ApplyEvent(a, event)
  BY <1>1, <1>2 DEF ApplyEvent
<1>4. CASE a.available[<<t, asset>>] + amount > MaxAmount
  BY <1>2, <1>3, <1>4 DEF ApplyDeposit, NoError
<1>5. CASE ~(a.available[<<t, asset>>] + amount > MaxAmount)
  <2> DEFINE x == [a.available EXCEPT ![<<t, asset>>] = @ + amount]
  <2>1. r = [err |-> NoError,
             app |-> RecordAppliedEvent([a EXCEPT !.available = x], event)]
    BY <1>2, <1>3, <1>5 DEF ApplyDeposit
  <2> HIDE DEF x
  <2>2. [a EXCEPT !.available = x]
          = [a EXCEPT !.available = x, !.reserved = a.reserved, !.engine = a.engine]
    BY DEF AppType
  <2>3. r.app = [available |-> x, reserved |-> a.reserved, engine |-> a.engine,
                 events |-> Append(a.events, event), seen |-> a.seen \cup {event.cmd}]
    <3>1. r.app = Changed(a, x, a.reserved, a.engine, event)
      BY <2>1, <2>2 DEF Changed
    <3>2. HasFields(r.app, x, a.reserved, a.engine, Append(a.events, event),
                    a.seen \cup {event.cmd})
      BY <3>1, RecordedFields
    <3> QED BY <3>2 DEF HasFields
  <2>4. a.available[<<t, asset>>] + amount <= MaxAmount
    <3>1. <<t, asset>> \in Accounts BY DEF Accounts
    <3> QED BY <1>5, <3>1, MaxAmountAssumption DEF AppType, Amounts
  <2>5. Credited(a, r.app, cmd, <<t, asset>>, amount)
    <3>1. event = [type |-> "DepositCredited", cmd |-> cmd,
                   account |-> <<t, asset>>, amount |-> amount]
      BY DEF event
    <3>2. /\ r.app.available = x /\ r.app.reserved = a.reserved /\ r.app.engine = a.engine
          /\ r.app.events = Append(a.events, event) /\ r.app.seen = a.seen \cup {cmd}
      BY <1>2, <2>3
    <3> QED BY <1>1, <2>4, <3>1, <3>2 DEF Credited, x
  <2>6. Recorded(a, r.app)
    <3>1. ApplyEvent(a, event) = [err |-> NoError, app |-> r.app]
      BY <1>3, <2>1
    <3>2. event.cmd \notin a.seen /\ r.app.events = Append(a.events, event)
      BY <1>1, <1>2, <2>3
    <3> QED BY <3>1, <3>2 DEF Recorded
  <2> QED BY <2>1, <2>3, <2>5, <2>6
<1> QED BY <1>4, <1>5

LEMMA PlaceSteps ==
    ASSUME NEW a, AppType(a), NEW cmd, NEW order, ReservationAmount(order) \in Nat,
           ReservationAccount(order) \in Accounts, ~IsTerminal(order),
           PlaceOrderEvent(a, cmd, order).err = NoError,
           NEW r, r = ApplyEvent(a, PlaceOrderEvent(a, cmd, order).event)
    PROVE  /\ r.err = NoError
           /\ Taken(a, r.app, cmd, order)
           /\ r.app = [available |-> r.app.available, reserved |-> r.app.reserved,
                       engine |-> r.app.engine, events |-> r.app.events,
                       seen |-> r.app.seen]
           /\ Recorded(a, r.app)
<1> DEFINE placed == PlaceInEngine(a.engine, order)
           amount == ReservationAmount(order)
           account == ReservationAccount(order)
           x == [a.available EXCEPT ![account] = @ - amount]
           y == [a.reserved EXCEPT ![account] = @ + amount]
           event == [type |-> "OrderPlaced", cmd |-> cmd, order |-> order,
                     fills |-> placed.fills]
<1> HIDE DEF placed
<1>1. cmd \notin a.seen
  BY DEF PlaceOrderEvent, Failed, NoError
<1>2. PlaceOrderInDomain(a, order).err = NoError
  BY <1>1 DEF PlaceOrderEvent, Failed
<1>3. ReserveError(a, order) = NoError
  BY <1>2 DEF PlaceOrderInDomain, Failed
<1>4. PlaceOrderInDomain(a, order)
        = [err |-> NoError, fills |-> placed.fills,
           app |-> [a EXCEPT !.available[account] = @ - amount,
                             !.reserved[account] = @ + amount,
                             !.engine = placed.engine]]
  BY <1>3 DEF PlaceOrderInDomain, placed
<1>5. [a EXCEPT !.available[account] = @ - amount,
                !.reserved[account] = @ + amount,
                !.engine = placed.engine]
        = [a EXCEPT !.available = x, !.reserved = y, !.engine = placed.engine]
  BY DEF AppType
<1> HIDE DEF x, y, amount, account
<1>6. PlaceOrderEvent(a, cmd, order).event = event
  BY <1>1, <1>4 DEF PlaceOrderEvent, OrderEvent
<1>7. event.type = "OrderPlaced" /\ event.cmd = cmd /\ event.order = order
      /\ event.fills = placed.fills
  OBVIOUS
<1> HIDE DEF event
<1>8. r = ApplyOrder(a, event) /\ r = ApplyEvent(a, event)
  BY <1>1, <1>6, <1>7 DEF ApplyEvent
<1>9. r = [err |-> NoError,
           app |-> RecordAppliedEvent([a EXCEPT !.available = x, !.reserved = y,
                                                !.engine = placed.engine], event)]
  BY <1>4, <1>5, <1>7, <1>8 DEF ApplyOrder
<1>10. r.app = [available |-> x, reserved |-> y, engine |-> placed.engine,
                events |-> Append(a.events, event), seen |-> a.seen \cup {event.cmd}]
  <2>1. r.app = Changed(a, x, y, placed.engine, event)
    BY <1>9 DEF Changed
  <2>2. HasFields(r.app, x, y, placed.engine, Append(a.events, event),
                  a.seen \cup {event.cmd})
    BY <2>1, RecordedFields
  <2> QED BY <2>2 DEF HasFields
<1>11. Funded(a, order)
  BY <1>3, ReservedFunds
<1>12. event = OrderEvent(cmd, order, placed.fills)
  BY DEF event, OrderEvent
<1>13. Taken(a, r.app, cmd, order)
  BY <1>1, <1>7, <1>10, <1>11, <1>12 DEF Taken, x, y, amount, account, placed
<1>14. Recorded(a, r.app)
  <2>1. ApplyEvent(a, event) = [err |-> NoError, app |-> r.app]
    BY <1>8, <1>9
  <2>2. event.cmd \notin a.seen /\ r.app.events = Append(a.events, event)
    BY <1>1, <1>7, <1>10
  <2> QED BY <2>1, <2>2 DEF Recorded
<1> QED BY <1>9, <1>10, <1>13, <1>14

\* Every step either leaves the application alone or takes one command.
Accepted(a, b) ==
    /\ Recorded(a, b)
    /\ HasFields(b, b.available, b.reserved, b.engine, b.events, b.seen)
    /\ \/ \E cmd : \E account \in Accounts, amount \in Nat :
             Credited(a, b, cmd, account, amount)
       \/ \E cmd : \E t \in Traders, s \in Sides, p \in Prices, q \in Quantities :
             Taken(a, b, cmd, NewOrder(Len(a.events) + 1, t, s, p, q))

LEMMA ExchangeSteps ==
    ASSUME AppType(app), [Next]_vars
    PROVE  app' = app \/ (reply' = NoError /\ Accepted(app, app'))
<1>1. ASSUME NEW cmd, NEW t \in Traders, NEW asset \in Assets, NEW amount \in DepositAmounts,
             CreditDeposit(cmd, t, asset, amount)
      PROVE  app' = app \/ (reply' = NoError /\ Accepted(app, app'))
  <2> DEFINE derived == CreditDepositEvent(app, cmd, t, asset, amount)
             r == ApplyEvent(app, derived.event)
  <2>1. CASE derived.err # NoError
    BY <1>1, <2>1 DEF CreditDeposit, ApplyDerived
  <2>2. CASE derived.err = NoError
    <3>1. reply' = r.err /\ app' = r.app
      BY <1>1, <2>2 DEF CreditDeposit, ApplyDerived
    <3>2. amount \in Nat /\ <<t, asset>> \in Accounts
      BY DepositAmountsAssumption DEF Amounts, Accounts
    <3> HIDE DEF r
    <3>3. \/ r.err # NoError /\ r.app = app
          \/ /\ r.err = NoError
             /\ Credited(app, r.app, cmd, <<t, asset>>, amount)
             /\ r.app = [available |-> r.app.available, reserved |-> r.app.reserved,
                         engine |-> r.app.engine, events |-> r.app.events,
                         seen |-> r.app.seen]
             /\ Recorded(app, r.app)
      BY <2>2, <3>2, CreditSteps DEF r
    <3> QED BY <3>1, <3>2, <3>3 DEF Accepted, HasFields
  <2> QED BY <2>1, <2>2
<1>2. ASSUME NEW cmd, NEW t \in Traders, NEW s \in Sides, NEW p \in Prices,
             NEW q \in Quantities,
             PlaceOrder(cmd, NewOrder(Len(app.events) + 1, t, s, p, q))
      PROVE  app' = app \/ (reply' = NoError /\ Accepted(app, app'))
  <2> DEFINE order == NewOrder(Len(app.events) + 1, t, s, p, q)
             derived == PlaceOrderEvent(app, cmd, order)
             r == ApplyEvent(app, derived.event)
  <2>1. CASE derived.err # NoError
    BY <1>2, <2>1 DEF PlaceOrder, ApplyDerived
  <2>2. CASE derived.err = NoError
    <3>1. reply' = r.err /\ app' = r.app
      BY <1>2, <2>2 DEF PlaceOrder, ApplyDerived
    <3>2. /\ ReservationAmount(order) \in Nat
          /\ ReservationAccount(order) \in Accounts
          /\ ~IsTerminal(order)
      BY OrderAmounts
    <3> HIDE DEF r, order
    <3>3. /\ r.err = NoError
          /\ Taken(app, r.app, cmd, order)
          /\ r.app = [available |-> r.app.available, reserved |-> r.app.reserved,
                      engine |-> r.app.engine, events |-> r.app.events,
                      seen |-> r.app.seen]
          /\ Recorded(app, r.app)
      BY <2>2, <3>2, PlaceSteps DEF r
    <3>4. Taken(app, app', cmd, NewOrder(Len(app.events) + 1, t, s, p, q))
      BY <3>1, <3>3 DEF order
    <3> QED BY <3>1, <3>3, <3>4 DEF Accepted, HasFields
  <2> QED BY <2>1, <2>2
<1>3. CASE UNCHANGED vars
  BY <1>3 DEF vars
<1> QED BY <1>1, <1>2, <1>3 DEF Next

\* The log grows by the event.
GrownBy(events, event, log) ==
    /\ Len(events) \in Nat /\ Len(log) = Len(events) + 1
    /\ DOMAIN events = 1 .. Len(events)
    /\ DOMAIN log = DOMAIN events \cup {Len(events) + 1}
    /\ Len(events) + 1 \notin DOMAIN events
    /\ \A i \in DOMAIN events : log[i] = events[i]
    /\ log[Len(events) + 1] = event
    /\ log \in Seq({log[i] : i \in DOMAIN log})

LEMMA LogGrows ==
    ASSUME NEW events, events \in Seq({events[i] : i \in DOMAIN events}), NEW event
    PROVE  GrownBy(events, event, Append(events, event))
<1> DEFINE log == Append(events, event)
<1>1. /\ Len(events) \in Nat /\ Len(log) = Len(events) + 1
      /\ DOMAIN events = 1 .. Len(events) /\ DOMAIN log = 1 .. Len(events) + 1
      /\ \A i \in DOMAIN events : log[i] = events[i]
      /\ log[Len(events) + 1] = event
  OBVIOUS
<1>2. log \in Seq({events[i] : i \in DOMAIN events} \cup {event})
  OBVIOUS
<1>3. log \in Seq({log[i] : i \in DOMAIN log})
  <2>1. {events[i] : i \in DOMAIN events} \cup {event} \subseteq {log[i] : i \in DOMAIN log}
    BY <1>1
  <2> QED BY <1>2, <2>1, SeqMonotonic
<1> HIDE DEF log
<1>4. GrownBy(events, event, log)
  BY <1>1, <1>3 DEF GrownBy
<1> QED BY <1>4 DEF log

LEMMA AcceptedType ==
    ASSUME NEW a, AppType(a), NEW b, Accepted(a, b)
    PROVE  AppType(b)
<1>1. ASSUME NEW cmd, NEW event, b.events = Append(a.events, event), event.cmd = cmd,
             b.seen = a.seen \cup {cmd},
             event.type = "DepositCredited" =>
                 event.account \in Accounts /\ event.amount \in Nat
      PROVE  IsEventLog(b.events) /\ b.seen = {b.events[n].cmd : n \in DOMAIN b.events}
  <2> DEFINE log == b.events
             last == Len(a.events) + 1
  <2>1. a.events \in Seq({a.events[i] : i \in DOMAIN a.events})
    BY DEF AppType, IsEventLog
  <2>2. /\ DOMAIN log = DOMAIN a.events \cup {last}
        /\ \A i \in DOMAIN a.events : log[i] = a.events[i]
        /\ log[last] = event
        /\ log \in Seq({log[i] : i \in DOMAIN log})
    <3>1. GrownBy(a.events, event, log)
      BY <1>1, <2>1, LogGrows
    <3> QED BY <3>1 DEF GrownBy
  <2> HIDE DEF log, last
  <2>3. {log[n].cmd : n \in DOMAIN log} = {a.events[n].cmd : n \in DOMAIN a.events} \cup {cmd}
    BY <1>1, <2>2
  <2>4. IsEventLog(log)
    BY <1>1, <2>2 DEF AppType, IsEventLog
  <2> QED BY <1>1, <2>3, <2>4 DEF AppType, log
<1>2. ASSUME NEW cmd, NEW account \in Accounts, NEW amount \in Nat,
             Credited(a, b, cmd, account, amount)
      PROVE  AppType(b)
  <2>1. b.available \in [Accounts -> Amounts]
    BY <1>2, MaxAmountAssumption DEF Credited, AppType, Amounts
  <2>2. b.reserved \in [Accounts -> Amounts]
    BY <1>2 DEF Credited, AppType
  <2> DEFINE event == [type |-> "DepositCredited", cmd |-> cmd,
                       account |-> account, amount |-> amount]
  <2>3. event.cmd = cmd /\ event.account = account /\ event.amount = amount
    OBVIOUS
  <2>4. b.events = Append(a.events, event) /\ b.seen = a.seen \cup {cmd}
    BY <1>2 DEF Credited
  <2> HIDE DEF event
  <2>5. IsEventLog(b.events) /\ b.seen = {b.events[n].cmd : n \in DOMAIN b.events}
    BY <1>1, <2>3, <2>4
  <2> QED BY <2>1, <2>2, <2>5 DEF AppType, Accepted, HasFields
<1>3. ASSUME NEW cmd, NEW t \in Traders, NEW s \in Sides, NEW p \in Prices,
             NEW q \in Quantities,
             Taken(a, b, cmd, NewOrder(Len(a.events) + 1, t, s, p, q))
      PROVE  AppType(b)
  <2> DEFINE order == NewOrder(Len(a.events) + 1, t, s, p, q)
             account == ReservationAccount(order)
             amount == ReservationAmount(order)
  <2>1. amount \in Nat /\ account \in Accounts
    BY OrderAmounts
  <2>2. Taken(a, b, cmd, order)
    BY <1>3
  <2> HIDE DEF order
  <2>3. /\ amount <= a.available[account] /\ a.reserved[account] + amount <= MaxAmount
        /\ b.available = [a.available EXCEPT ![account] = @ - amount]
        /\ b.reserved = [a.reserved EXCEPT ![account] = @ + amount]
    BY <2>2 DEF Taken, Funded
  <2> HIDE DEF account, amount
  <2>4. b.available \in [Accounts -> Amounts]
    BY <2>1, <2>3, MaxAmountAssumption DEF AppType, Amounts
  <2>5. b.reserved \in [Accounts -> Amounts]
    BY <2>1, <2>3, MaxAmountAssumption DEF AppType, Amounts
  <2> DEFINE event == OrderEvent(cmd, order, PlaceInEngine(a.engine, order).fills)
  <2>6. event.cmd = cmd /\ event.type # "DepositCredited"
    BY DEF OrderEvent
  <2>7. b.events = Append(a.events, event) /\ b.seen = a.seen \cup {cmd}
    BY <2>2 DEF Taken
  <2> HIDE DEF event
  <2>8. IsEventLog(b.events) /\ b.seen = {b.events[n].cmd : n \in DOMAIN b.events}
    BY <1>1, <2>6, <2>7
  <2> QED BY <2>4, <2>5, <2>8 DEF AppType, Accepted, HasFields
<1> QED BY <1>2, <1>3 DEF Accepted

LEMMA NewAppType == AppType(NewApp)
<1> DEFINE zero == [x \in Accounts |-> 0]
           none == {}
<1>1. zero \in [Accounts -> Amounts]
  BY MaxAmountAssumption DEF Amounts
<1>2. IsEventLog(<<>>) /\ {} = {(<<>>)[n].cmd : n \in DOMAIN <<>>}
  BY DEF IsEventLog
<1> HIDE DEF zero
<1>3. NewApp = [available |-> zero, reserved |-> zero, engine |-> NewEngine,
                events |-> <<>>, seen |-> {}]
  BY DEF NewApp, zero
<1> QED BY <1>1, <1>2, <1>3 DEF AppType

LEMMA AppTypeHolds == Spec => []AppType(app)
<1>1. Init => AppType(app)
  BY NewAppType DEF Init
<1>2. AppType(app) /\ [Next]_vars => AppType(app)'
  <2> SUFFICES ASSUME AppType(app), [Next]_vars PROVE AppType(app)'
    OBVIOUS
  <2>1. app' = app \/ Accepted(app, app')
    BY ExchangeSteps
  <2>2. CASE app' = app
    BY <2>2
  <2>3. CASE Accepted(app, app')
    BY <2>3, AcceptedType
  <2> QED BY <2>1, <2>2, <2>3
<1> QED BY <1>1, <1>2, PTL DEF Spec

-----------------------------------------------------------------------------
(* Replay. It is a recursive function on the prefixes of the log, and its   *)
(* recursion is justified the way Sums justifies the fold's.                *)

\* The states st of a replay of the first N events.
ReplayStates(events, N, st) ==
    st = [n \in 0 .. N |->
             IF n = 0 THEN [err |-> NoError, app |-> NewApp]
             ELSE IF st[n - 1].err # NoError THEN st[n - 1]
             ELSE ApplyEvent(st[n - 1].app, events[n])]

LEMMA ReplayStep ==
    ASSUME NEW events, NEW N \in Nat, NEW st, ReplayStates(events, N, st)
    PROVE  /\ st[0] = [err |-> NoError, app |-> NewApp]
           /\ \A n \in 1 .. N : st[n] = IF st[n - 1].err # NoError THEN st[n - 1]
                                        ELSE ApplyEvent(st[n - 1].app, events[n])
<1> DEFINE F(n) == IF n = 0 THEN [err |-> NoError, app |-> NewApp]
                   ELSE IF st[n - 1].err # NoError THEN st[n - 1]
                   ELSE ApplyEvent(st[n - 1].app, events[n])
<1>1. st = [n \in 0 .. N |-> F(n)]
  BY DEF ReplayStates
<1> HIDE DEF F
<1>2. \A n \in 0 .. N : st[n] = F(n)
  BY <1>1
<1>3. st[0] = F(0) /\ \A n \in 1 .. N : st[n] = F(n) /\ n # 0
  BY <1>2
<1> QED BY <1>3 DEF F

LEMMA ReplayExists ==
    ASSUME NEW events, NEW N \in Nat
    PROVE  \E st : ReplayStates(events, N, st)
<1> DEFINE T == {n \in Nat : \E st : ReplayStates(events, n, st)}
<1>1. 0 \in T
  <2> DEFINE first == [err |-> NoError, app |-> NewApp]
             st == [n \in 0 .. 0 |-> first]
  <2> HIDE DEF first
  <2>1. st = [n \in 0 .. 0 |->
             IF n = 0 THEN first
             ELSE IF st[n - 1].err # NoError THEN st[n - 1]
             ELSE ApplyEvent(st[n - 1].app, events[n])]
    OBVIOUS
  <2>2. ReplayStates(events, 0, st)
    BY <2>1 DEF ReplayStates, first
  <2> QED BY <2>2
<1>2. ASSUME NEW n \in 0 .. N - 1, n \in T PROVE n + 1 \in T
  <2>1. PICK st : ReplayStates(events, n, st)
    BY <1>2
  <2> DEFINE last == IF st[n].err # NoError THEN st[n] ELSE ApplyEvent(st[n].app, events[n + 1])
             next == [m \in 0 .. n + 1 |-> IF m = n + 1 THEN last ELSE st[m]]
             F(m) == IF m = 0 THEN [err |-> NoError, app |-> NewApp]
                     ELSE IF next[m - 1].err # NoError THEN next[m - 1]
                     ELSE ApplyEvent(next[m - 1].app, events[m])
  <2>2. next[n + 1] = last /\ \A m \in 0 .. n : next[m] = st[m]
    OBVIOUS
  <2> HIDE DEF last
  <2>3. ASSUME NEW m \in 0 .. n + 1 PROVE next[m] = F(m)
    <3> HIDE DEF next
    <3>1. CASE m = n + 1
      <4>1. m - 1 = n /\ m # 0 /\ n \in 0 .. n
        BY <3>1
      <4>2. F(m) = IF st[n].err # NoError THEN st[n] ELSE ApplyEvent(st[n].app, events[m])
        BY <2>2, <4>1
      <4> HIDE DEF F
      <4> QED BY <2>2, <3>1, <4>2 DEF last
    <3>2. CASE m = 0
      BY <2>1, <2>2, <3>2, ReplayStep
    <3>3. CASE m # 0 /\ m # n + 1
      <4>1. m \in 1 .. n /\ m - 1 \in 0 .. n
        BY <3>3
      <4>2. next[m] = st[m] /\ next[m - 1] = st[m - 1]
        BY <2>2, <4>1
      <4>3. st[m] = IF st[m - 1].err # NoError THEN st[m - 1]
                    ELSE ApplyEvent(st[m - 1].app, events[m])
        BY <2>1, <4>1, ReplayStep
      <4> QED BY <3>3, <4>2, <4>3
    <3> QED BY <3>1, <3>2, <3>3
  <2>4. next = [m \in 0 .. n + 1 |-> F(m)]
    <3>1. next = [m \in 0 .. n + 1 |-> next[m]]
      OBVIOUS
    <3> HIDE DEF next, F
    <3> QED BY <2>3, <3>1
  <2>5. ReplayStates(events, n + 1, next)
    BY <2>4 DEF ReplayStates
  <2> QED BY <2>5
<1> HIDE DEF T
<1>3. N \in T
  BY <1>1, <1>2, Upward
<1> QED BY <1>3 DEF T

\* Replays that read the same events pass through the same states.
LEMMA ReplayUnique ==
    ASSUME NEW events, NEW N \in Nat, NEW st, ReplayStates(events, N, st),
           NEW log, NEW M \in Nat, NEW tt, ReplayStates(log, M, tt),
           N <= M, \A n \in 1 .. N : log[n] = events[n]
    PROVE  tt[N] = st[N]
<1> DEFINE T == {n \in Nat : tt[n] = st[n]}
<1>1. 0 \in T
  BY ReplayStep
<1>2. ASSUME NEW n \in 0 .. N - 1, n \in T PROVE n + 1 \in T
  <2>1. n + 1 \in 1 .. N /\ n + 1 \in 1 .. M /\ (n + 1) - 1 = n
    OBVIOUS
  <2>2. st[n + 1] = IF st[n].err # NoError THEN st[n]
                    ELSE ApplyEvent(st[n].app, events[n + 1])
    BY <2>1, ReplayStep
  <2>3. tt[n + 1] = IF tt[n].err # NoError THEN tt[n]
                    ELSE ApplyEvent(tt[n].app, log[n + 1])
    <3>1. \A m \in 1 .. M : tt[m] = IF tt[m - 1].err # NoError THEN tt[m - 1]
                                     ELSE ApplyEvent(tt[m - 1].app, log[m])
      BY ReplayStep
    <3> QED BY <2>1, <3>1
  <2>4. log[n + 1] = events[n + 1] /\ tt[n] = st[n]
    BY <1>2, <2>1
  <2> QED BY <2>1, <2>2, <2>3, <2>4
<1> HIDE DEF T
<1>3. N \in T
  BY <1>1, <1>2, Upward
<1> QED BY <1>3 DEF T

LEMMA ReplayIs ==
    ASSUME NEW events, Len(events) \in Nat
    PROVE  \E st : ReplayStates(events, Len(events), st) /\ ReplayOf(events) = st[Len(events)]
<1>1. ReplayOf(events)
        = (CHOOSE st : ReplayStates(events, Len(events), st))[Len(events)]
  BY DEF ReplayOf, ReplayStates
<1> QED BY <1>1, ReplayExists

\* Replay of a log that one event was added to.
LEMMA ReplayAppend ==
    ASSUME NEW events, NEW event, NEW log, GrownBy(events, event, log),
           ReplayOf(events).err = NoError
    PROVE  ReplayOf(log) = ApplyEvent(ReplayOf(events).app, event)
<1> DEFINE N == Len(events)
<1>1. /\ N \in Nat /\ Len(log) = N + 1
      /\ \A n \in 1 .. N : log[n] = events[n]
      /\ log[N + 1] = event
  BY DEF GrownBy
<1>2. PICK st : ReplayStates(events, N, st) /\ ReplayOf(events) = st[N]
  BY <1>1, ReplayIs
<1>3. PICK tt : ReplayStates(log, N + 1, tt) /\ ReplayOf(log) = tt[N + 1]
  BY <1>1, ReplayIs
<1> HIDE DEF N
<1>4. tt[N] = st[N]
  BY <1>1, <1>2, <1>3, ReplayUnique
<1>5. tt[N + 1] = IF tt[N].err # NoError THEN tt[N] ELSE ApplyEvent(tt[N].app, log[N + 1])
  BY <1>1, <1>3, ReplayStep
<1> QED BY <1>1, <1>2, <1>3, <1>4, <1>5

LEMMA ReplayOfNothing == ReplayOf(<<>>) = [err |-> NoError, app |-> NewApp]
<1>1. Len(<<>>) = 0
  OBVIOUS
<1>2. PICK st : ReplayStates(<<>>, 0, st) /\ ReplayOf(<<>>) = st[0]
  BY <1>1, ReplayIs
<1> QED BY <1>2, ReplayStep

\* Replaying the log of the service rebuilds its state, because a command is
\* accepted exactly when its event can be applied, and applied once.
THEOREM ReplayRebuildsStateHolds == Spec => []ReplayRebuildsState
<1>1. Init => ReplayRebuildsState
  <2> SUFFICES ASSUME Init PROVE ReplayRebuildsState
    OBVIOUS
  <2>1. app = NewApp /\ app.events = <<>>
    BY DEF Init, NewApp
  <2> QED BY <2>1, ReplayOfNothing DEF ReplayRebuildsState
<1>2. AppType(app) /\ ReplayRebuildsState /\ [Next]_vars => ReplayRebuildsState'
  <2> SUFFICES ASSUME AppType(app), ReplayRebuildsState, [Next]_vars
               PROVE  ReplayOf(app'.events) = [err |-> NoError, app |-> app']
    BY DEF ReplayRebuildsState
  <2>1. CASE app' = app
    BY <2>1 DEF ReplayRebuildsState
  <2>2. CASE Accepted(app, app')
    <3>1. PICK event : /\ app'.events = Append(app.events, event)
                       /\ ApplyEvent(app, event) = [err |-> NoError, app |-> app']
      BY <2>2 DEF Accepted, Recorded
    <3>2. GrownBy(app.events, event, app'.events)
      BY <3>1, LogGrows DEF AppType, IsEventLog
    <3>3. ReplayOf(app.events).err = NoError /\ ReplayOf(app.events).app = app
      BY DEF ReplayRebuildsState
    <3>4. ReplayOf(app'.events) = ApplyEvent(app, event)
      BY <3>2, <3>3, ReplayAppend
    <3> QED BY <3>1, <3>4
  <2> QED BY <2>1, <2>2, ExchangeSteps
<1> QED BY <1>1, <1>2, AppTypeHolds, PTL DEF Spec

\* A command changes the state at most once, and a call that fails changes
\* nothing: the ids of the log are the ids apply_event refuses.
THEOREM ErrorsAndDuplicatesChangeNothingHolds == Spec => ErrorsAndDuplicatesChangeNothing
<1> DEFINE Once ==
      /\ app' # app =>
            /\ reply' = NoError
            /\ Len(app'.events) = Len(app.events) + 1
            /\ \A n \in DOMAIN app.events :
                  app.events[n].cmd # app'.events[Len(app'.events)].cmd
      /\ Len(app'.events) >= Len(app.events)
<1>1. AppType(app) /\ [Next]_vars => Once
  <2> SUFFICES ASSUME AppType(app), [Next]_vars PROVE Once
    OBVIOUS
  <2>1. Len(app.events) \in Nat
    BY DEF AppType, IsEventLog
  <2>2. CASE app' = app
    BY <2>1, <2>2
  <2>3. CASE reply' = NoError /\ Accepted(app, app')
    <3>1. PICK event : event.cmd \notin app.seen /\ app'.events = Append(app.events, event)
      BY <2>3 DEF Accepted, Recorded
    <3>2. GrownBy(app.events, event, app'.events)
      BY <3>1, LogGrows DEF AppType, IsEventLog
    <3>3. /\ Len(app'.events) = Len(app.events) + 1
          /\ app'.events[Len(app'.events)] = event
      BY <3>2 DEF GrownBy
    <3>4. \A n \in DOMAIN app.events : app.events[n].cmd # event.cmd
      BY <3>1 DEF AppType
    <3> QED BY <2>1, <2>3, <3>3, <3>4
  <2> QED BY <2>2, <2>3, ExchangeSteps
<1>2. AppType(app) /\ [Next]_vars => [Once]_vars
  BY <1>1
<1> QED BY <1>2, AppTypeHolds, PTL DEF Spec, ErrorsAndDuplicatesChangeNothing

-----------------------------------------------------------------------------
(* Conservation of the balances.                                            *)

\* The deposits on an account, and their amounts.
DepositsOn(events, account) ==
    {n \in EventsOfType(events, "DepositCredited") : events[n].account = account}
DepositAmountsOf(events, account) == [n \in DepositsOn(events, account) |-> events[n].amount]
DepositSum(events, account) ==
    SumFunctionOnSet(DepositAmountsOf(events, account), DepositsOn(events, account))

LEMMA DepositedIsSum ==
    ASSUME NEW a, NEW account
    PROVE  Deposited(a, account) = DepositSum(a.events, account)
<1>1. DOMAIN DepositAmountsOf(a.events, account) = DepositsOn(a.events, account)
  BY DEF DepositAmountsOf
<1>2. Deposited(a, account) = SumFunction(DepositAmountsOf(a.events, account))
  BY DEF Deposited, DepositAmountsOf, DepositsOn
<1> QED BY <1>1, <1>2 DEF SumFunction, DepositSum

LEMMA DepositsFinite ==
    ASSUME NEW events, IsEventLog(events), Len(events) \in Nat, NEW account
    PROVE  /\ IsFiniteSet(DepositsOn(events, account))
           /\ DepositsOn(events, account) \subseteq DOMAIN events
           /\ \A n \in DepositsOn(events, account) :
                 DepositAmountsOf(events, account)[n] \in Nat
<1>1. DepositsOn(events, account) \subseteq DOMAIN events /\ DOMAIN events = 1 .. Len(events)
  BY DEF DepositsOn, EventsOfType, IsEventLog
<1>2. IsFiniteSet(1 .. Len(events))
  BY FS_Interval
<1>3. \A n \in DepositsOn(events, account) : events[n].amount \in Nat
  BY DEF DepositsOn, EventsOfType, IsEventLog
<1> QED BY <1>1, <1>2, <1>3, FS_Subset DEF DepositAmountsOf

\* One event more: a deposit adds its amount to its account, and only that.
LEMMA DepositSumGrows ==
    ASSUME NEW events, IsEventLog(events), NEW event, NEW log,
           GrownBy(events, event, log), IsEventLog(log), NEW account
    PROVE  /\ DepositSum(events, account) \in Nat
           /\ event.type = "DepositCredited" /\ event.account = account =>
                 DepositSum(log, account) = DepositSum(events, account) + event.amount
           /\ event.type # "DepositCredited" \/ event.account # account =>
                 DepositSum(log, account) = DepositSum(events, account)
<1> DEFINE D == DepositsOn(events, account)
           f == DepositAmountsOf(events, account)
           E == DepositsOn(log, account)
           g == DepositAmountsOf(log, account)
           last == Len(events) + 1
<1>1. /\ Len(events) \in Nat /\ Len(log) \in Nat
      /\ DOMAIN log = DOMAIN events \cup {last} /\ last \notin DOMAIN events
      /\ \A i \in DOMAIN events : log[i] = events[i]
      /\ log[last] = event
  BY DEF GrownBy
<1>2. IsFiniteSet(D) /\ D \subseteq DOMAIN events /\ \A n \in D : f[n] \in Nat
  BY <1>1, DepositsFinite
<1>3. IsFiniteSet(E) /\ \A n \in E : g[n] \in Nat
  BY <1>1, DepositsFinite
<1>4. \A n \in D : n \in E /\ g[n] = f[n]
  BY <1>1, <1>2 DEF DepositsOn, EventsOfType, DepositAmountsOf
<1>5. \A n \in E : n \in D \/ n = last
  BY <1>1 DEF DepositsOn, EventsOfType
<1>6. last \in E <=> event.type = "DepositCredited" /\ event.account = account
  BY <1>1 DEF DepositsOn, EventsOfType
<1>7. last \in E => g[last] = event.amount
  BY <1>1 DEF DepositAmountsOf
<1>8. last \notin D
  BY <1>1, <1>2
<1>9. DepositSum(events, account) = SumFunctionOnSet(f, D)
      /\ DepositSum(log, account) = SumFunctionOnSet(g, E)
  BY DEF DepositSum
<1> HIDE DEF D, E, f, g, last
<1>10. SumFunctionOnSet(f, D) = SumFunctionOnSet(g, D)
  BY <1>2, <1>4, SumCongruent
<1>11. SumFunctionOnSet(f, D) \in Nat
  BY <1>2, SumIsNat
<1>12. CASE last \in E
  <2>1. E = D \cup {last}
    BY <1>4, <1>5, <1>12
  <2>2. \A n \in D \cup {last} : g[n] \in Int
    BY <1>3, <2>1
  <2>3. SumFunctionOnSet(g, E) = g[last] + SumFunctionOnSet(g, D)
    BY <1>2, <1>8, <2>1, <2>2, SumAdd
  <2>4. g[last] \in Int
    BY <1>12, <1>3
  <2> QED BY <1>6, <1>7, <1>9, <1>10, <1>11, <1>12, <2>3, <2>4
<1>13. CASE last \notin E
  <2>1. E = D
    BY <1>4, <1>5, <1>13
  <2> QED BY <1>6, <1>9, <1>10, <1>11, <1>13, <2>1
<1> QED BY <1>12, <1>13

LEMMA BalancesAccepted ==
    ASSUME NEW a, AppType(a), NEW b, AppType(b), Accepted(a, b), NEW x \in Accounts,
           a.available[x] + a.reserved[x] = Deposited(a, x)
    PROVE  b.available[x] + b.reserved[x] = Deposited(b, x)
<1>1. /\ IsEventLog(a.events) /\ IsEventLog(b.events)
      /\ a.available[x] \in Int /\ a.reserved[x] \in Int
  BY MaxAmountAssumption DEF AppType, Amounts
<1>2. ASSUME NEW event, b.events = Append(a.events, event)
      PROVE  GrownBy(a.events, event, b.events)
  BY <1>1, <1>2, LogGrows DEF IsEventLog
<1>3. /\ Deposited(a, x) = DepositSum(a.events, x)
      /\ Deposited(b, x) = DepositSum(b.events, x)
  BY DepositedIsSum
<1>4. ASSUME NEW cmd, NEW account \in Accounts, NEW amount \in Nat,
             Credited(a, b, cmd, account, amount)
      PROVE  b.available[x] + b.reserved[x] = Deposited(b, x)
  <2> DEFINE event == [type |-> "DepositCredited", cmd |-> cmd,
                       account |-> account, amount |-> amount]
  <2>1. event.type = "DepositCredited" /\ event.account = account /\ event.amount = amount
    OBVIOUS
  <2>2. /\ b.events = Append(a.events, event) /\ b.reserved = a.reserved
        /\ b.available = [a.available EXCEPT ![account] = @ + amount]
    BY <1>4 DEF Credited
  <2> HIDE DEF event
  <2>3. GrownBy(a.events, event, b.events)
    BY <1>2, <2>2
  <2>4. /\ account = x => DepositSum(b.events, x) = DepositSum(a.events, x) + amount
        /\ account # x => DepositSum(b.events, x) = DepositSum(a.events, x)
    BY <1>1, <2>1, <2>3, DepositSumGrows
  <2>5. /\ account = x => b.available[x] = a.available[x] + amount
        /\ account # x => b.available[x] = a.available[x]
    BY <2>2 DEF AppType
  <2> QED BY <1>1, <1>3, <2>2, <2>4, <2>5
<1>5. ASSUME NEW cmd, NEW t \in Traders, NEW s \in Sides, NEW p \in Prices,
             NEW q \in Quantities,
             Taken(a, b, cmd, NewOrder(Len(a.events) + 1, t, s, p, q))
      PROVE  b.available[x] + b.reserved[x] = Deposited(b, x)
  <2> DEFINE order == NewOrder(Len(a.events) + 1, t, s, p, q)
             account == ReservationAccount(order)
             amount == ReservationAmount(order)
             event == OrderEvent(cmd, order, PlaceInEngine(a.engine, order).fills)
  <2>1. amount \in Nat
    BY OrderAmounts
  <2> HIDE DEF order
  <2>2. /\ b.available = [a.available EXCEPT ![account] = @ - amount]
        /\ b.reserved = [a.reserved EXCEPT ![account] = @ + amount]
        /\ b.events = Append(a.events, event)
    BY <1>5 DEF Taken, order
  <2>3. event.type # "DepositCredited"
    BY DEF OrderEvent
  <2> HIDE DEF account, amount, event
  <2>4. DepositSum(b.events, x) = DepositSum(a.events, x)
    BY <1>1, <1>2, <2>2, <2>3, DepositSumGrows
  <2>5. /\ account = x => /\ b.available[x] = a.available[x] - amount
                          /\ b.reserved[x] = a.reserved[x] + amount
        /\ account # x => b.available[x] = a.available[x] /\ b.reserved[x] = a.reserved[x]
    BY <2>2 DEF AppType
  <2> QED BY <1>1, <1>3, <2>1, <2>4, <2>5
<1> QED BY <1>4, <1>5 DEF Accepted

LEMMA BalancesOfNewApp ==
    ASSUME NEW x \in Accounts
    PROVE  NewApp.available[x] + NewApp.reserved[x] = Deposited(NewApp, x)
<1>1. /\ NewApp.available[x] = 0 /\ NewApp.reserved[x] = 0 /\ NewApp.events = <<>>
  BY DEF NewApp
<1>2. DepositsOn(<<>>, x) = {}
  BY DEF DepositsOn, EventsOfType
<1>3. DepositSum(<<>>, x) = 0
  BY <1>2, SumEmpty DEF DepositSum
<1> QED BY <1>1, <1>3, DepositedIsSum

\* What a trader holds, available and reserved, is what was deposited.
THEOREM BalancesConservedHolds == Spec => []BalancesConserved
<1>1. Init => BalancesConserved
  <2> SUFFICES ASSUME Init PROVE BalancesConserved
    OBVIOUS
  <2>1. app = NewApp
    BY DEF Init
  <2> QED BY <2>1, BalancesOfNewApp DEF BalancesConserved
<1>2. AppType(app) /\ AppType(app)' /\ BalancesConserved /\ [Next]_vars => BalancesConserved'
  <2> SUFFICES ASSUME AppType(app), AppType(app'), BalancesConserved, [Next]_vars
               PROVE  \A x \in Accounts :
                          app'.available[x] + app'.reserved[x] = Deposited(app', x)
    BY DEF BalancesConserved
  <2>1. CASE app' = app
    BY <2>1 DEF BalancesConserved
  <2>2. CASE Accepted(app, app')
    BY <2>2, BalancesAccepted DEF BalancesConserved
  <2> QED BY <2>1, <2>2, ExchangeSteps
<1> QED BY <1>1, <1>2, AppTypeHolds, PTL DEF Spec

-----------------------------------------------------------------------------
(* One side of the book: queues of orders, best price first, oldest first.  *)

RestingSet(side) ==
    {o \in [id : Nat, trader : Traders, side : {side}, price : Prices,
            quantity : Quantities, remaining : Nat \ {0}] : o.remaining <= o.quantity}

Queued(q) == {q[i] : i \in DOMAIN q}

\* The queue of a price holds orders of that price, by increasing id.
IsQueue(q, p, side) ==
    /\ q \in Seq(RestingSet(side))
    /\ \A i \in DOMAIN q : q[i].price = p
    /\ \A i, j \in DOMAIN q : i < j => q[i].id < q[j].id

\* An order rests once.
IsBook(L, side) ==
    /\ L \in [Prices -> Seq(RestingSet(side))]
    /\ \A p \in Prices : IsQueue(L[p], p, side)
    /\ \A o, r \in RestingOrders(L) : o.id = r.id => o = r

LEMMA QueueTail ==
    ASSUME NEW p, NEW side, NEW q, IsQueue(q, p, side), q # <<>>
    PROVE  /\ IsQueue(Tail(q), p, side)
           /\ Head(q) \in Queued(q) /\ Head(q) \in RestingSet(side) /\ Head(q).price = p
           /\ \A r \in Queued(q) : r # Head(q) => Head(q).id < r.id
           /\ Queued(Tail(q)) = Queued(q) \ {Head(q)}
           /\ Len(Tail(q)) = Len(q) - 1 /\ Len(q) \in Nat
<1> DEFINE t == Tail(q)
<1>1. /\ q \in Seq(RestingSet(side)) /\ Len(q) \in Nat /\ Len(q) > 0
      /\ DOMAIN q = 1 .. Len(q)
  BY DEF IsQueue
<1>2. /\ t \in Seq(RestingSet(side)) /\ Len(t) = Len(q) - 1
      /\ DOMAIN t = 1 .. Len(q) - 1
      /\ \A i \in DOMAIN t : t[i] = q[i + 1]
  BY <1>1
<1>3. Head(q) = q[1] /\ 1 \in DOMAIN q
  BY <1>1
<1>4. \A i \in DOMAIN t : i + 1 \in DOMAIN q
  BY <1>1, <1>2
<1> HIDE DEF t
<1>5. IsQueue(t, p, side)
  <2>1. \A i \in DOMAIN t : t[i].price = p
    BY <1>2, <1>4 DEF IsQueue
  <2>2. \A i, j \in DOMAIN t : i < j => t[i].id < t[j].id
    <3> SUFFICES ASSUME NEW i \in DOMAIN t, NEW j \in DOMAIN t, i < j
                 PROVE  t[i].id < t[j].id
      OBVIOUS
    <3>1. i + 1 < j + 1 /\ i + 1 \in DOMAIN q /\ j + 1 \in DOMAIN q
      BY <1>2, <1>4
    <3> QED BY <1>2, <3>1 DEF IsQueue
  <2> QED BY <1>2, <2>1, <2>2 DEF IsQueue
<1>6. \A i \in DOMAIN q : i = 1 \/ q[1].id < q[i].id
  BY <1>1, <1>3 DEF IsQueue
<1>7. q[1] \in RestingSet(side)
  BY <1>1, <1>3
<1>8. Queued(t) = Queued(q) \ {q[1]}
  <2>1. ASSUME NEW r \in Queued(t) PROVE r \in Queued(q) /\ r # q[1]
    <3>1. PICK i \in DOMAIN t : r = t[i]
      BY DEF Queued
    <3>2. r = q[i + 1] /\ i + 1 \in DOMAIN q /\ i + 1 # 1
      BY <1>2, <1>4, <3>1
    <3>3. q[1].id < q[i + 1].id
      BY <1>6, <3>2
    <3>4. q[1].id \in Nat
      BY <1>7 DEF RestingSet
    <3> QED BY <3>2, <3>3, <3>4 DEF Queued
  <2>2. ASSUME NEW r \in Queued(q), r # q[1] PROVE r \in Queued(t)
    <3>1. PICK i \in DOMAIN q : r = q[i]
      BY DEF Queued
    <3>2. i # 1 /\ i - 1 \in DOMAIN t /\ (i - 1) + 1 = i
      BY <1>1, <1>2, <2>2, <3>1
    <3> QED BY <1>2, <3>1, <3>2 DEF Queued
  <2> QED BY <2>1, <2>2
<1> QED BY <1>1, <1>2, <1>3, <1>5, <1>6, <1>7, <1>8 DEF Queued, IsQueue, t

LEMMA QueueFront ==
    ASSUME NEW p, NEW side, NEW q, IsQueue(q, p, side), NEW o \in RestingSet(side),
           o.price = p, \A r \in Queued(q) : o.id < r.id
    PROVE  /\ IsQueue(<<o>> \o q, p, side)
           /\ Queued(<<o>> \o q) = Queued(q) \cup {o}
           /\ Len(<<o>> \o q) = Len(q) + 1 /\ Len(q) \in Nat
<1> DEFINE t == <<o>> \o q
<1>1. q \in Seq(RestingSet(side)) /\ Len(q) \in Nat /\ DOMAIN q = 1 .. Len(q)
  BY DEF IsQueue
<1>2. /\ t \in Seq(RestingSet(side)) /\ Len(t) = Len(q) + 1
      /\ DOMAIN t = 1 .. Len(q) + 1
      /\ t[1] = o
      /\ \A i \in DOMAIN q : t[i + 1] = q[i] /\ i + 1 \in DOMAIN t
  BY <1>1
<1> HIDE DEF t
<1>3. \A i \in DOMAIN t : i = 1 \/ (i - 1 \in DOMAIN q /\ t[i] = q[i - 1])
  <2> SUFFICES ASSUME NEW i \in DOMAIN t, i # 1
               PROVE  i - 1 \in DOMAIN q /\ t[i] = q[i - 1]
    OBVIOUS
  <2>1. i - 1 \in DOMAIN q /\ (i - 1) + 1 = i
    BY <1>1, <1>2
  <2> QED BY <1>2, <2>1
<1>4. IsQueue(t, p, side)
  <2>1. \A i \in DOMAIN t : t[i].price = p
    BY <1>2, <1>3 DEF IsQueue
  <2>2. \A i, j \in DOMAIN t : i < j => t[i].id < t[j].id
    <3> SUFFICES ASSUME NEW i \in DOMAIN t, NEW j \in DOMAIN t, i < j
                 PROVE  t[i].id < t[j].id
      OBVIOUS
    <3>1. j # 1 /\ j - 1 \in DOMAIN q /\ t[j] = q[j - 1]
      BY <1>2, <1>3
    <3>2. CASE i = 1
      BY <1>2, <3>1, <3>2 DEF Queued
    <3>3. CASE i # 1
      <4>1. i - 1 \in DOMAIN q /\ t[i] = q[i - 1] /\ i - 1 < j - 1
        BY <1>2, <1>3, <3>3
      <4> QED BY <3>1, <4>1 DEF IsQueue
    <3> QED BY <3>2, <3>3
  <2> QED BY <1>2, <2>1, <2>2 DEF IsQueue
<1>5. Queued(t) = Queued(q) \cup {o}
  <2>1. \A r \in Queued(t) : r \in Queued(q) \cup {o}
    BY <1>2, <1>3 DEF Queued
  <2>2. \A r \in Queued(q) : r \in Queued(t)
    BY <1>2 DEF Queued
  <2>3. o \in Queued(t)
    BY <1>2 DEF Queued
  <2> QED BY <2>1, <2>2, <2>3
<1> QED BY <1>1, <1>2, <1>4, <1>5 DEF t

LEMMA QueueBack ==
    ASSUME NEW p, NEW side, NEW q, IsQueue(q, p, side), NEW o \in RestingSet(side),
           o.price = p, \A r \in Queued(q) : r.id < o.id
    PROVE  /\ IsQueue(Append(q, o), p, side)
           /\ Queued(Append(q, o)) = Queued(q) \cup {o}
<1> DEFINE t == Append(q, o)
<1>1. q \in Seq(RestingSet(side)) /\ Len(q) \in Nat /\ DOMAIN q = 1 .. Len(q)
  BY DEF IsQueue
<1>2. /\ t \in Seq(RestingSet(side)) /\ Len(t) = Len(q) + 1
      /\ DOMAIN t = 1 .. Len(q) + 1
      /\ t[Len(q) + 1] = o
      /\ \A i \in DOMAIN q : t[i] = q[i] /\ i \in DOMAIN t
  BY <1>1
<1> HIDE DEF t
<1>3. \A i \in DOMAIN t : i = Len(q) + 1 \/ i \in DOMAIN q
  BY <1>1, <1>2
<1>4. IsQueue(t, p, side)
  <2>1. \A i \in DOMAIN t : t[i].price = p
    BY <1>2, <1>3 DEF IsQueue
  <2>2. \A i, j \in DOMAIN t : i < j => t[i].id < t[j].id
    <3> SUFFICES ASSUME NEW i \in DOMAIN t, NEW j \in DOMAIN t, i < j
                 PROVE  t[i].id < t[j].id
      OBVIOUS
    <3>1. i \in DOMAIN q /\ t[i] = q[i]
      BY <1>1, <1>2, <1>3
    <3>2. CASE j \in DOMAIN q
      BY <1>2, <3>1, <3>2 DEF IsQueue
    <3>3. CASE j = Len(q) + 1
      BY <1>2, <3>1, <3>3 DEF Queued
    <3> QED BY <1>3, <3>2, <3>3
  <2> QED BY <1>2, <2>1, <2>2 DEF IsQueue
<1>5. Queued(t) = Queued(q) \cup {o}
  <2>1. \A r \in Queued(t) : r \in Queued(q) \cup {o}
    BY <1>2, <1>3 DEF Queued
  <2>2. \A r \in Queued(q) : r \in Queued(t)
    BY <1>2 DEF Queued
  <2>3. o \in Queued(t)
    BY <1>1, <1>2 DEF Queued
  <2> QED BY <2>1, <2>2, <2>3
<1> QED BY <1>4, <1>5 DEF t

\* An order rests at its price.
LEMMA RestingIs ==
    ASSUME NEW side, NEW L, IsBook(L, side)
    PROVE  /\ \A r \in RestingOrders(L) : r \in RestingSet(side) /\ r \in Queued(L[r.price])
           /\ \A p \in Prices : \A r \in Queued(L[p]) : r \in RestingOrders(L) /\ r.price = p
<1>1. ASSUME NEW r \in RestingOrders(L)
      PROVE  r \in RestingSet(side) /\ r \in Queued(L[r.price])
  <2>1. PICK p \in Prices : r \in {L[p][i] : i \in DOMAIN L[p]}
    BY DEF RestingOrders
  <2>2. PICK i \in DOMAIN L[p] : r = L[p][i]
    BY <2>1
  <2>3. IsQueue(L[p], p, side)
    BY DEF IsBook
  <2>4. r.price = p /\ r \in RestingSet(side)
    BY <2>2, <2>3 DEF IsQueue
  <2> QED BY <2>1, <2>4 DEF Queued
<1>2. ASSUME NEW p \in Prices, NEW r \in Queued(L[p])
      PROVE  r \in RestingOrders(L) /\ r.price = p
  <2>1. IsQueue(L[p], p, side)
    BY DEF IsBook
  <2>2. r.price = p
    BY <2>1 DEF IsQueue, Queued
  <2>3. r \in RestingOrders(L)
    BY DEF RestingOrders, Queued
  <2> QED BY <2>2, <2>3
<1> QED BY <1>1, <1>2

\* One queue replaced.
LEMMA LevelChange ==
    ASSUME NEW side, NEW L, IsBook(L, side), NEW p \in Prices, NEW q, IsQueue(q, p, side),
           NEW R, R = {r \in RestingOrders(L) : r.price # p} \cup Queued(q),
           \A o, r \in R : o.id = r.id => o = r
    PROVE  /\ RestingOrders([L EXCEPT ![p] = q]) = R
           /\ IsBook([L EXCEPT ![p] = q], side)
<1> DEFINE M == [L EXCEPT ![p] = q]
<1>1. /\ M \in [Prices -> Seq(RestingSet(side))]
      /\ M[p] = q /\ \A x \in Prices \ {p} : M[x] = L[x]
  BY DEF IsBook, IsQueue
<1> HIDE DEF M
<1>2. \A x \in Prices : IsQueue(M[x], x, side)
  BY <1>1 DEF IsBook
<1>3. ASSUME NEW r \in RestingOrders(M) PROVE r \in R
  <2>1. PICK x \in Prices : r \in {M[x][i] : i \in DOMAIN M[x]}
    BY DEF RestingOrders
  <2>2. CASE x = p
    BY <1>1, <2>1, <2>2 DEF Queued
  <2>3. CASE x # p
    <3>1. r \in Queued(L[x])
      BY <1>1, <2>1, <2>3 DEF Queued
    <3>2. r \in RestingOrders(L) /\ r.price = x
      BY <3>1, RestingIs
    <3> QED BY <2>3, <3>2
  <2> QED BY <2>2, <2>3
<1>4. ASSUME NEW r \in R PROVE r \in RestingOrders(M)
  <2>1. CASE r \in Queued(q)
    BY <1>1, <2>1 DEF Queued, RestingOrders
  <2>2. CASE r \in RestingOrders(L) /\ r.price # p
    <3>1. r \in Queued(L[r.price]) /\ r \in RestingSet(side)
      BY <2>2, RestingIs
    <3>2. r.price \in Prices \ {p}
      BY <2>2, <3>1 DEF RestingSet
    <3>3. r \in Queued(M[r.price])
      BY <1>1, <3>1, <3>2
    <3> QED BY <3>2, <3>3 DEF Queued, RestingOrders
  <2> QED BY <2>1, <2>2
<1>5. RestingOrders(M) = R
  BY <1>3, <1>4
<1>6. IsBook(M, side)
  BY <1>1, <1>2, <1>5 DEF IsBook
<1> QED BY <1>5, <1>6 DEF M

LEMMA InsertBook ==
    ASSUME NEW side, NEW L, IsBook(L, side), NEW o \in RestingSet(side),
           \A r \in RestingOrders(L) : r.id < o.id
    PROVE  /\ RestingOrders(Insert(L, o)) = RestingOrders(L) \cup {o}
           /\ IsBook(Insert(L, o), side)
<1> DEFINE p == o.price
           q == Append(L[p], o)
           R == {r \in RestingOrders(L) : r.price # p} \cup Queued(q)
<1>1. p \in Prices /\ o.price = p /\ o.id \in Nat
  BY DEF RestingSet
<1>2. IsQueue(L[p], p, side)
  BY <1>1 DEF IsBook
<1>3. \A r \in Queued(L[p]) : r \in RestingOrders(L) /\ r.price = p
  BY <1>1, RestingIs
<1>4. \A r \in RestingOrders(L) : r \in RestingSet(side) /\ r \in Queued(L[r.price])
  BY RestingIs
<1>5. IsQueue(q, p, side) /\ Queued(q) = Queued(L[p]) \cup {o}
  BY <1>1, <1>2, <1>3, QueueBack
<1>6. Insert(L, o) = [L EXCEPT ![p] = q]
  BY DEF Insert
<1>7. R = RestingOrders(L) \cup {o}
  <2> HIDE DEF p, q
  <2> QED BY <1>3, <1>4, <1>5
<1>8. \A x, r \in R : x.id = r.id => x = r
  <2>1. \A r \in RestingOrders(L) : r.id \in Nat
    BY <1>4 DEF RestingSet
  <2> HIDE DEF R, p, q
  <2> QED BY <1>1, <1>7, <2>1 DEF IsBook
<1> HIDE DEF p, q
<1>9. R = {r \in RestingOrders(L) : r.price # p} \cup Queued(q)
  OBVIOUS
<1> HIDE DEF R
<1>10. /\ RestingOrders([L EXCEPT ![p] = q]) = R
       /\ IsBook([L EXCEPT ![p] = q], side)
  BY <1>1, <1>5, <1>8, <1>9, LevelChange
<1> QED BY <1>6, <1>7, <1>10

-----------------------------------------------------------------------------
(* The best price.                                                          *)

\* The best price of a side that has orders, and what "best" means.
LEMMA BestPriceIs ==
    ASSUME NEW side, NEW L, LevelPrices(L) # {}
    PROVE  /\ BestPrice(side, L) \in Prices
           /\ L[BestPrice(side, L)] # <<>>
           /\ \A q \in LevelPrices(L) : AtLeastAsGood(side, BestPrice(side, L), q)
<1>1. LevelPrices(L) \subseteq Prices /\ LevelPrices(L) \subseteq Nat
      /\ IsFiniteSet(LevelPrices(L))
  BY PricesAssumption, FS_Subset DEF LevelPrices
<1>2. \E p \in LevelPrices(L) : \A q \in LevelPrices(L) : AtLeastAsGood(side, p, q)
  <2>1. CASE side = "Bid"
    BY <1>1, <2>1, HighestExists DEF AtLeastAsGood
  <2>2. CASE side # "Bid"
    <3>1. PICK p \in LevelPrices(L) : \A q \in LevelPrices(L) : ~(q < p)
      BY <1>1, LeastNatural
    <3>2. \A q \in LevelPrices(L) : p <= q
      BY <1>1, <3>1
    <3> QED BY <2>2, <3>2 DEF AtLeastAsGood
  <2> QED BY <2>1, <2>2
<1>3. /\ BestPrice(side, L) \in LevelPrices(L)
      /\ \A q \in LevelPrices(L) : AtLeastAsGood(side, BestPrice(side, L), q)
  BY <1>2 DEF BestPrice
<1> QED BY <1>3 DEF LevelPrices

\* The number of orders of a side, and an empty side.
LEMMA CountIsNat ==
    ASSUME NEW side, NEW L, IsBook(L, side)
    PROVE  /\ RestingCount(L) \in Nat
           /\ RestingCount(L) = 0 => LevelPrices(L) = {}
<1> DEFINE f == [p \in Prices |-> Len(L[p])]
<1>1. \A p \in Prices : f[p] \in Nat /\ (f[p] = 0 => L[p] = <<>>)
  BY DEF IsBook
<1>2. RestingCount(L) = SumFunctionOnSet(f, Prices)
  BY DEF RestingCount, SumFunction
<1> HIDE DEF f
<1>3. SumFunctionOnSet(f, Prices) \in Nat
  BY <1>1, PricesAssumption, SumIsNat
<1>4. \A p \in Prices : f[p] <= SumFunctionOnSet(f, Prices)
  BY <1>1, PricesAssumption, SumAtLeast
<1>5. ASSUME RestingCount(L) = 0 PROVE LevelPrices(L) = {}
  BY <1>1, <1>2, <1>4, <1>5 DEF LevelPrices
<1> QED BY <1>2, <1>3, <1>5

LEMMA CountAfterPop ==
    ASSUME NEW side, NEW L, IsBook(L, side), NEW p \in Prices, L[p] # <<>>
    PROVE  RestingCount([L EXCEPT ![p] = Tail(@)]) = RestingCount(L) - 1
<1> DEFINE M == [L EXCEPT ![p] = Tail(@)]
           f == [x \in Prices |-> Len(L[x])]
           g == [x \in Prices |-> Len(M[x])]
<1>1. M[p] = Tail(L[p]) /\ \A x \in Prices \ {p} : M[x] = L[x]
  BY DEF IsBook
<1>2. Len(Tail(L[p])) = Len(L[p]) - 1 /\ Len(L[p]) \in Nat /\ Len(L[p]) # 0
  BY DEF IsBook
<1>3. \A x \in Prices : Len(L[x]) \in Nat
  BY DEF IsBook
<1>4. /\ RestingCount(L) = SumFunctionOnSet(f, Prices)
      /\ RestingCount(M) = SumFunctionOnSet(g, Prices)
  BY DEF RestingCount, SumFunction
<1> HIDE DEF M
<1>5. /\ \A x \in Prices : f[x] \in Int /\ g[x] \in Int
      /\ \A x \in Prices \ {p} : g[x] = f[x]
      /\ g[p] - f[p] = -1
  <2>1. \A x \in Prices : f[x] = Len(L[x]) /\ g[x] = Len(M[x])
    OBVIOUS
  <2>2. Len(M[p]) = Len(L[p]) - 1 /\ \A x \in Prices \ {p} : Len(M[x]) = Len(L[x])
    BY <1>1, <1>2
  <2>3. \A x \in Prices : Len(M[x]) \in Int
    BY <1>3, <2>2
  <2> HIDE DEF f, g
  <2> QED BY <1>3, <2>1, <2>2, <2>3
<1> HIDE DEF f, g
<1>6. /\ SumFunctionOnSet(g, Prices) = SumFunctionOnSet(f, Prices) + (g[p] - f[p])
      /\ SumFunctionOnSet(f, Prices) \in Int
  BY <1>5, PricesAssumption, SumUpdate
<1> QED BY <1>4, <1>5, <1>6 DEF M

\* Taking the best order off the book, and putting what is left of it back.
LEMMA PopBook ==
    ASSUME NEW side \in Sides, NEW L, IsBook(L, side), LevelPrices(L) # {},
           NEW maker, maker = BestOrder(side, L), NEW rest, rest = PopBestOrder(side, L)
    PROVE  /\ maker \in RestingOrders(L) /\ maker \in RestingSet(side)
           /\ maker.price = BestPrice(side, L)
           /\ RestingOrders(rest) = RestingOrders(L) \ {maker}
           /\ IsBook(rest, side)
           /\ RestingCount(rest) = RestingCount(L) - 1
           /\ \A r \in RestingOrders(L) \ {maker} : ~HasPriority(side, r, maker)
<1> DEFINE p == BestPrice(side, L)
           q == Tail(L[p])
           R == RestingOrders(L) \ {maker}
<1>1. /\ p \in Prices /\ L[p] # <<>>
      /\ \A x \in LevelPrices(L) : AtLeastAsGood(side, p, x)
  BY BestPriceIs
<1>2. IsQueue(L[p], p, side)
  BY <1>1 DEF IsBook
<1>3. maker = Head(L[p]) /\ rest = [L EXCEPT ![p] = q]
  BY DEF BestOrder, PopBestOrder
<1> HIDE DEF p
<1>4. /\ IsQueue(q, p, side)
      /\ maker \in Queued(L[p]) /\ maker \in RestingSet(side) /\ maker.price = p
      /\ \A r \in Queued(L[p]) : r # maker => maker.id < r.id
      /\ Queued(q) = Queued(L[p]) \ {maker}
  <2> DEFINE top == L[p]
  <2>1. IsQueue(top, p, side) /\ top # <<>>
    BY <1>1, <1>2
  <2> HIDE DEF top
  <2>2. /\ IsQueue(Tail(top), p, side)
        /\ Head(top) \in Queued(top) /\ Head(top) \in RestingSet(side) /\ Head(top).price = p
        /\ \A r \in Queued(top) : r # Head(top) => Head(top).id < r.id
        /\ Queued(Tail(top)) = Queued(top) \ {Head(top)}
    BY <2>1, QueueTail
  <2>3. maker = Head(top) /\ q = Tail(top)
    BY <1>3 DEF top
  <2> HIDE DEF q
  <2> QED BY <2>2, <2>3 DEF top
<1>5. \A r \in Queued(L[p]) : r \in RestingOrders(L) /\ r.price = p
  BY <1>1, RestingIs
<1>6. \A r \in RestingOrders(L) : r \in RestingSet(side) /\ r \in Queued(L[r.price])
  BY RestingIs
<1> HIDE DEF q
<1>7. R = {r \in RestingOrders(L) : r.price # p} \cup Queued(q)
  BY <1>4, <1>5, <1>6
<1>8. \A x, r \in R : x.id = r.id => x = r
  BY DEF IsBook
<1> HIDE DEF R
<1>9. RestingOrders([L EXCEPT ![p] = q]) = R /\ IsBook([L EXCEPT ![p] = q], side)
  BY <1>1, <1>4, <1>7, <1>8, LevelChange
<1>10. RestingCount(rest) = RestingCount(L) - 1
  BY <1>1, <1>3, CountAfterPop DEF q
<1>11. ASSUME NEW r \in RestingOrders(L), r # maker PROVE ~HasPriority(side, r, maker)
  <2>1. r \in RestingSet(side) /\ r \in Queued(L[r.price])
    BY <1>6
  <2>2. r.price \in Prices /\ r.id \in Nat /\ maker.id \in Nat
    BY <1>4, <2>1 DEF RestingSet
  <2>3. r.price \in LevelPrices(L)
    BY <2>1, <2>2 DEF LevelPrices, Queued
  <2>4. AtLeastAsGood(side, p, r.price)
    BY <1>1, <2>3
  <2>5. CASE r.price = p
    <3>1. maker.id < r.id
      BY <1>4, <1>11, <2>1, <2>5
    <3> QED BY <1>4, <2>2, <2>5, <3>1 DEF HasPriority
  <2>6. CASE r.price # p
    <3>1. r.price \in Nat /\ p \in Nat
      BY <1>1, <2>2, PricesAssumption
    <3>2. ~AtLeastAsGood(side, r.price, p)
      BY <2>4, <2>6, <3>1 DEF AtLeastAsGood
    <3> QED BY <1>4, <2>6, <3>2 DEF HasPriority
  <2> QED BY <2>5, <2>6
<1> QED BY <1>3, <1>4, <1>5, <1>9, <1>10, <1>11 DEF R, p

LEMMA ReinsertBook ==
    ASSUME NEW side \in Sides, NEW L, IsBook(L, side), LevelPrices(L) # {},
           NEW maker, maker = BestOrder(side, L), NEW rest, rest = PopBestOrder(side, L),
           NEW o \in RestingSet(side), o.id = maker.id, o.price = maker.price
    PROVE  /\ RestingOrders(ReinsertFront(rest, o)) = (RestingOrders(L) \ {maker}) \cup {o}
           /\ IsBook(ReinsertFront(rest, o), side)
<1> DEFINE p == BestPrice(side, L)
           q == <<o>> \o rest[p]
           R == (RestingOrders(L) \ {maker}) \cup {o}
<1>1. p \in Prices /\ L[p] # <<>>
  BY BestPriceIs
<1>2. IsQueue(L[p], p, side)
  BY <1>1 DEF IsBook
<1>3. maker = Head(L[p]) /\ rest[p] = Tail(L[p])
  BY <1>1 DEF BestOrder, PopBestOrder, IsBook
<1>4. /\ maker \in RestingOrders(L) /\ maker \in RestingSet(side) /\ maker.price = p
      /\ RestingOrders(rest) = RestingOrders(L) \ {maker}
      /\ IsBook(rest, side)
  BY PopBook
<1>5. ReinsertFront(rest, o) = [rest EXCEPT ![p] = q]
  BY <1>4 DEF ReinsertFront
<1> HIDE DEF p
<1>6. /\ IsQueue(rest[p], p, side)
      /\ Queued(rest[p]) = Queued(L[p]) \ {maker}
      /\ \A r \in Queued(L[p]) : r # maker => maker.id < r.id
  <2> DEFINE top == L[p]
  <2>1. IsQueue(top, p, side) /\ top # <<>>
    BY <1>1, <1>2
  <2>2. maker = Head(top) /\ rest[p] = Tail(top)
    BY <1>3
  <2> HIDE DEF top
  <2>3. /\ IsQueue(Tail(top), p, side)
        /\ \A r \in Queued(top) : r # Head(top) => Head(top).id < r.id
        /\ Queued(Tail(top)) = Queued(top) \ {Head(top)}
    BY <2>1, QueueTail
  <2> QED BY <2>2, <2>3 DEF top
<1>7. \A r \in Queued(rest[p]) : o.id < r.id
  BY <1>6
<1>8. IsQueue(q, p, side) /\ Queued(q) = Queued(rest[p]) \cup {o}
  BY <1>4, <1>6, <1>7, QueueFront
<1>9. \A r \in RestingOrders(rest) : r \in RestingSet(side) /\ r \in Queued(rest[r.price])
  BY <1>4, RestingIs
<1>10. \A r \in Queued(rest[p]) : r \in RestingOrders(rest) /\ r.price = p
  BY <1>1, <1>4, RestingIs
<1> HIDE DEF q
<1>11. R = {r \in RestingOrders(rest) : r.price # p} \cup Queued(q)
  BY <1>4, <1>8, <1>9, <1>10
<1>12. \A x, r \in R : x.id = r.id => x = r
  BY <1>4 DEF IsBook
<1> HIDE DEF R
<1>13. RestingOrders([rest EXCEPT ![p] = q]) = R /\ IsBook([rest EXCEPT ![p] = q], side)
  <2>1. IsBook(rest, side) /\ IsQueue(q, p, side)
    BY <1>4, <1>8
  <2> QED BY <1>1, <1>11, <1>12, <2>1, LevelChange
<1> QED BY <1>5, <1>13 DEF R

-----------------------------------------------------------------------------
(* One round of the matching loop.                                          *)

TakerSet(side) ==
    {o \in [id : Nat, trader : Traders, side : {side}, price : Prices,
            quantity : Quantities, remaining : Nat] : o.remaining <= o.quantity}

FillSet == [maker : Nat, taker : Nat, makerTrader : Traders, takerTrader : Traders,
            price : Prices, quantity : Nat \ {0}]

LoopType(m, side) ==
    /\ m.taker \in TakerSet(side)
    /\ IsBook(m.makers, Opposite(side))
    /\ m.fills \in Seq(FillSet)

LEMMA FillLeaves ==
    ASSUME NEW side, NEW o, NEW q \in Nat, q <= o.remaining
    PROVE  /\ o \in TakerSet(side) => /\ ApplyFill(o, q) \in TakerSet(side)
                                      /\ o.remaining \in Nat
           /\ o \in RestingSet(side) /\ q < o.remaining => ApplyFill(o, q) \in RestingSet(side)
           /\ o \in RestingSet(side) => o.remaining \in Nat \ {0}
<1>1. ASSUME o \in TakerSet(side)
      PROVE  ApplyFill(o, q) \in TakerSet(side) /\ o.remaining \in Nat
  <2>1. o = [id |-> o.id, trader |-> o.trader, side |-> o.side, price |-> o.price,
             quantity |-> o.quantity, remaining |-> o.remaining]
    BY <1>1 DEF TakerSet
  <2>2. ApplyFill(o, q) = [id |-> o.id, trader |-> o.trader, side |-> o.side,
             price |-> o.price, quantity |-> o.quantity, remaining |-> o.remaining - q]
    BY <2>1 DEF ApplyFill
  <2>3. /\ o.id \in Nat /\ o.trader \in Traders /\ o.side = side /\ o.price \in Prices
        /\ o.quantity \in Quantities /\ o.remaining \in Nat /\ o.remaining <= o.quantity
        /\ o.quantity \in Nat
    BY <1>1, QuantitiesAssumption DEF TakerSet
  <2>4. o.remaining - q \in Nat /\ o.remaining - q <= o.quantity
    BY <2>3
  <2> QED BY <2>2, <2>3, <2>4 DEF TakerSet
<1>2. ASSUME o \in RestingSet(side)
      PROVE  /\ q < o.remaining => ApplyFill(o, q) \in RestingSet(side)
             /\ o.remaining \in Nat \ {0}
  <2>1. o = [id |-> o.id, trader |-> o.trader, side |-> o.side, price |-> o.price,
             quantity |-> o.quantity, remaining |-> o.remaining]
    BY <1>2 DEF RestingSet
  <2>2. ApplyFill(o, q) = [id |-> o.id, trader |-> o.trader, side |-> o.side,
             price |-> o.price, quantity |-> o.quantity, remaining |-> o.remaining - q]
    BY <2>1 DEF ApplyFill
  <2>3. /\ o.id \in Nat /\ o.trader \in Traders /\ o.side = side /\ o.price \in Prices
        /\ o.quantity \in Quantities /\ o.remaining \in Nat \ {0}
        /\ o.remaining <= o.quantity /\ o.quantity \in Nat
    BY <1>2, QuantitiesAssumption DEF RestingSet
  <2>4. q < o.remaining => /\ o.remaining - q \in Nat \ {0}
                           /\ o.remaining - q <= o.quantity
    BY <2>3
  <2> QED BY <2>2, <2>3, <2>4 DEF RestingSet
<1> QED BY <1>1, <1>2

LEMMA FillFields ==
    ASSUME NEW side, NEW o, o \in TakerSet(side) \/ o \in RestingSet(side), NEW q
    PROVE  /\ ApplyFill(o, q).id = o.id /\ ApplyFill(o, q).trader = o.trader
           /\ ApplyFill(o, q).side = o.side /\ ApplyFill(o, q).price = o.price
           /\ ApplyFill(o, q).quantity = o.quantity
           /\ ApplyFill(o, q).remaining = o.remaining - q
BY DEF ApplyFill, TakerSet, RestingSet

\* What a round does, of the maker it took and the quantity it traded.
RoundEffect(m, next, side, maker, q) ==
    /\ maker \in RestingOrders(m.makers) /\ maker \in RestingSet(Opposite(side))
    /\ q \in Nat \ {0} /\ q <= maker.remaining /\ q <= m.taker.remaining
    /\ next.taker = ApplyFill(m.taker, q)
    /\ next.fills = Append(m.fills, Fill(maker, m.taker, maker.price, q))
    /\ RestingOrders(next.makers) =
          (RestingOrders(m.makers) \ {maker})
             \cup (IF q = maker.remaining THEN {} ELSE {ApplyFill(maker, q)})
    /\ \A r \in RestingOrders(m.makers) \ {maker} : ~HasPriority(Opposite(side), r, maker)
    /\ q = m.taker.remaining \/ RestingCount(next.makers) = RestingCount(m.makers) - 1
    /\ LoopType(next, side)

LEMMA RoundIs ==
    ASSUME NEW side \in Sides, NEW m, LoopType(m, side), ~IsTerminal(m.taker),
           LevelPrices(m.makers) # {}
    PROVE  \E maker, q : RoundEffect(m, MatchRound(m), side, maker, q)
<1> DEFINE opp == Opposite(side)
           maker == BestOrder(opp, m.makers)
           rest == PopBestOrder(opp, m.makers)
           q == IF m.taker.remaining < maker.remaining THEN m.taker.remaining
                ELSE maker.remaining
           filled == ApplyFill(maker, q)
           next == MatchRound(m)
<1>1. opp \in Sides /\ m.taker.side = side /\ IsBook(m.makers, opp)
      /\ m.taker \in TakerSet(side) /\ m.fills \in Seq(FillSet)
  BY DEF LoopType, TakerSet, Opposite, Sides
<1>2. next = [taker |-> ApplyFill(m.taker, q),
              makers |-> IF IsTerminal(filled) THEN rest ELSE ReinsertFront(rest, filled),
              fills |-> Append(m.fills, Fill(maker, m.taker, maker.price, q))]
  BY <1>1 DEF MatchRound
<1> HIDE DEF opp
<1>3. /\ maker \in RestingOrders(m.makers) /\ maker \in RestingSet(opp)
      /\ RestingOrders(rest) = RestingOrders(m.makers) \ {maker}
      /\ IsBook(rest, opp)
      /\ RestingCount(rest) = RestingCount(m.makers) - 1
      /\ \A r \in RestingOrders(m.makers) \ {maker} : ~HasPriority(opp, r, maker)
  BY <1>1, PopBook
<1>4. /\ m.taker.remaining \in Nat \ {0} /\ maker.remaining \in Nat \ {0}
  BY <1>1, <1>3 DEF TakerSet, RestingSet, IsTerminal
<1>5. /\ q \in Nat \ {0} /\ q <= maker.remaining /\ q <= m.taker.remaining
      /\ q = m.taker.remaining \/ q = maker.remaining
  <2> HIDE DEF maker
  <2> QED BY <1>4
<1>6. /\ filled.id = maker.id /\ filled.price = maker.price
      /\ filled.remaining = maker.remaining - q
      /\ q < maker.remaining => filled \in RestingSet(opp)
      /\ ApplyFill(m.taker, q) \in TakerSet(side)
  <2> HIDE DEF maker, q
  <2> QED BY <1>1, <1>3, <1>5, FillFields, FillLeaves
<1>7. /\ next.taker = ApplyFill(m.taker, q)
      /\ next.makers = IF IsTerminal(filled) THEN rest ELSE ReinsertFront(rest, filled)
      /\ next.fills = Append(m.fills, Fill(maker, m.taker, maker.price, q))
  <2> HIDE DEF maker, rest, q, filled, next
  <2> QED BY <1>2
<1>8. IsTerminal(filled) <=> q = maker.remaining
  <2> HIDE DEF maker, q, filled
  <2> QED BY <1>4, <1>5, <1>6 DEF IsTerminal
<1>9. Fill(maker, m.taker, maker.price, q) \in FillSet
  <2> HIDE DEF maker, q
  <2> QED BY <1>1, <1>3, <1>5 DEF Fill, FillSet, TakerSet, RestingSet
<1>10. next.fills \in Seq(FillSet)
  <2> HIDE DEF next, maker, q
  <2> QED BY <1>1, <1>7, <1>9
<1>11. /\ RestingOrders(next.makers) =
              (RestingOrders(m.makers) \ {maker})
                 \cup (IF q = maker.remaining THEN {} ELSE {filled})
       /\ IsBook(next.makers, opp)
       /\ q = m.taker.remaining \/ RestingCount(next.makers) = RestingCount(m.makers) - 1
  <2> HIDE DEF next, q, filled
  <2>1. CASE q = maker.remaining
    <3> HIDE DEF maker, rest
    <3>1. next.makers = rest
      BY <1>7, <1>8, <2>1
    <3> QED BY <1>3, <2>1, <3>1
  <2>2. CASE q # maker.remaining
    <3>1. next.makers = ReinsertFront(rest, filled) /\ filled \in RestingSet(opp)
      <4> HIDE DEF maker, rest
      <4> QED BY <1>4, <1>5, <1>6, <1>7, <1>8, <2>2
    <3>2. /\ RestingOrders(next.makers) = (RestingOrders(m.makers) \ {maker}) \cup {filled}
          /\ IsBook(next.makers, opp)
      BY <1>1, <1>6, <3>1, ReinsertBook
    <3> HIDE DEF maker, rest
    <3> QED BY <1>5, <2>2, <3>2
  <2> QED BY <2>1, <2>2
<1> HIDE DEF maker, rest, q, next
<1>12. LoopType(next, side)
  BY <1>6, <1>7, <1>10, <1>11 DEF LoopType, opp
<1>13. RoundEffect(m, next, side, maker, q)
  BY <1>3, <1>5, <1>7, <1>11, <1>12 DEF RoundEffect, opp
<1> QED BY <1>13 DEF next

-----------------------------------------------------------------------------
(* What a set of resting orders adds up to.                                 *)

RemainingIn(R, id) == SumFunction([o \in {r \in R : r.id = id} |-> o.remaining])

HeldFor(R, account) ==
    SumFunction([o \in {r \in R : ReservationAccount(r) = account} |-> Backing(o)])

LEMMA SumSingle ==
    ASSUME NEW f, NEW x, f[x] \in Int
    PROVE  SumFunctionOnSet(f, {x}) = f[x]
<1>1. SumFunctionOnSet(f, {} \cup {x}) = f[x] + SumFunctionOnSet(f, {})
  BY FS_EmptySet, SumAdd
<1>2. {} \cup {x} = {x}
  OBVIOUS
<1> QED BY <1>1, <1>2, SumEmpty

\* An order that rests once counts once, and one that does not, not at all.
LEMMA RemainingIs ==
    ASSUME NEW R, NEW id
    PROVE  /\ (\A r \in R : r.id # id) => RemainingIn(R, id) = 0
           /\ \A o \in R : (o.id = id /\ o.remaining \in Nat /\ \A r \in R : r.id = id => r = o)
                              => RemainingIn(R, id) = o.remaining
<1> DEFINE S == {r \in R : r.id = id}
           f == [o \in S |-> o.remaining]
<1>1. RemainingIn(R, id) = SumFunctionOnSet(f, S)
  BY DEF RemainingIn, SumFunction
<1>2. ASSUME \A r \in R : r.id # id PROVE RemainingIn(R, id) = 0
  <2>1. S = {}
    BY <1>2
  <2> HIDE DEF f
  <2> QED BY <1>1, <2>1, SumEmpty
<1>3. ASSUME NEW o \in R, o.id = id, o.remaining \in Nat, \A r \in R : r.id = id => r = o
      PROVE  RemainingIn(R, id) = o.remaining
  <2>1. S = {o}
    BY <1>3
  <2>2. f[o] = o.remaining
    BY <1>3
  <2> HIDE DEF f, S
  <2>3. f[o] \in Int
    BY <1>3, <2>2
  <2>4. SumFunctionOnSet(f, {o}) = f[o]
    BY <2>3, SumSingle
  <2> QED BY <1>1, <2>1, <2>2, <2>4
<1> QED BY <1>2, <1>3

LEMMA RemainingCongruent ==
    ASSUME NEW R, NEW Q, NEW id, {r \in R : r.id = id} = {r \in Q : r.id = id}
    PROVE  RemainingIn(R, id) = RemainingIn(Q, id)
BY DEF RemainingIn

LEMMA HeldCongruent ==
    ASSUME NEW R, NEW Q, NEW account,
           {r \in R : ReservationAccount(r) = account}
             = {r \in Q : ReservationAccount(r) = account}
    PROVE  HeldFor(R, account) = HeldFor(Q, account)
BY DEF HeldFor

LEMMA BackingIsNat ==
    ASSUME NEW side, NEW o \in RestingSet(side)
    PROVE  Backing(o) \in Nat
<1>1. o.price \in Nat /\ o.remaining \in Nat
  BY PricesAssumption DEF RestingSet
<1>2. o.price * o.remaining \in Nat
  BY <1>1
<1> QED BY <1>1, <1>2 DEF Backing

\* One order more on an account, or one less.
LEMMA HeldAdd ==
    ASSUME NEW R, IsFiniteSet(R), NEW side, R \subseteq RestingSet(side),
           NEW o \in RestingSet(side), o \notin R, NEW account
    PROVE  /\ HeldFor(R, account) \in Nat
           /\ HeldFor(R \cup {o}, account)
                = HeldFor(R, account) + (IF ReservationAccount(o) = account THEN Backing(o) ELSE 0)
<1> DEFINE S == {r \in R : ReservationAccount(r) = account}
           f == [r \in S |-> Backing(r)]
           T == {r \in R \cup {o} : ReservationAccount(r) = account}
           g == [r \in T |-> Backing(r)]
<1>1. HeldFor(R, account) = SumFunctionOnSet(f, S)
      /\ HeldFor(R \cup {o}, account) = SumFunctionOnSet(g, T)
  BY DEF HeldFor, SumFunction
<1>2. /\ IsFiniteSet(S) /\ o \notin S
      /\ \A r \in S : f[r] \in Nat
      /\ \A r \in T : g[r] \in Nat
  BY BackingIsNat, FS_Subset
<1>3. \A r \in S : g[r] = f[r]
  OBVIOUS
<1>4. ReservationAccount(o) = account => T = S \cup {o} /\ g[o] = Backing(o)
  OBVIOUS
<1>5. ReservationAccount(o) # account => T = S
  OBVIOUS
<1> HIDE DEF S, f, T, g
<1>6. SumFunctionOnSet(f, S) \in Nat
  BY <1>2, SumIsNat
<1>7. CASE ReservationAccount(o) = account
  <2>1. \A r \in S \cup {o} : g[r] \in Int
    BY <1>2, <1>4, <1>7
  <2>2. SumFunctionOnSet(g, S \cup {o}) = g[o] + SumFunctionOnSet(g, S)
    BY <1>2, <2>1, SumAdd
  <2>3. SumFunctionOnSet(f, S) = SumFunctionOnSet(g, S)
    BY <1>2, <1>3, SumCongruent
  <2>4. g[o] \in Int
    BY <2>1
  <2>5. HeldFor(R \cup {o}, account) = g[o] + HeldFor(R, account)
    BY <1>1, <1>4, <1>7, <2>2, <2>3
  <2>6. HeldFor(R, account) \in Nat /\ g[o] = Backing(o)
    BY <1>1, <1>4, <1>6, <1>7
  <2> QED BY <1>7, <2>4, <2>5, <2>6
<1>8. CASE ReservationAccount(o) # account
  <2>1. SumFunctionOnSet(f, S) = SumFunctionOnSet(g, S)
    BY <1>2, <1>3, SumCongruent
  <2> QED BY <1>1, <1>5, <1>6, <1>8, <2>1
<1> QED BY <1>7, <1>8, <1>6, <1>1

\* The orders of a side are finitely many.
LEMMA RestingFinite ==
    ASSUME NEW side, NEW L, IsBook(L, side)
    PROVE  IsFiniteSet(RestingOrders(L)) /\ RestingOrders(L) \subseteq RestingSet(side)
<1>1. ASSUME NEW p \in Prices PROVE IsFiniteSet(Queued(L[p]))
  <2>1. Len(L[p]) \in Nat /\ DOMAIN L[p] = 1 .. Len(L[p])
    BY DEF IsBook
  <2>2. IsFiniteSet(DOMAIN L[p])
    BY <2>1, FS_Interval
  <2>3. L[p] \in Surjection(DOMAIN L[p], Queued(L[p]))
    BY <2>1 DEF Queued, Surjection, IsBook
  <2> QED BY <2>2, <2>3, FS_Surjection
<1> DEFINE F == {Queued(L[p]) : p \in Prices}
<1>2. IsFiniteSet(F)
  <2> DEFINE f == [p \in Prices |-> Queued(L[p])]
  <2>1. f \in Surjection(Prices, F)
    BY DEF Surjection
  <2> HIDE DEF f, F
  <2> QED BY <2>1, PricesAssumption, FS_Surjection
<1>3. \A q \in F : IsFiniteSet(q)
  BY <1>1
<1>4. RestingOrders(L) = UNION F
  BY DEF RestingOrders, Queued
<1>5. IsFiniteSet(UNION F)
  BY <1>2, <1>3, FS_UNION
<1>6. RestingOrders(L) \subseteq RestingSet(side)
  BY RestingIs
<1> QED BY <1>4, <1>5, <1>6

-----------------------------------------------------------------------------
(* What the fills of a placement add up to.                                 *)

TradeOf(f, id) == IF id \in {f.maker, f.taker} THEN f.quantity ELSE 0

LEMMA TradedNothing ==
    ASSUME NEW id
    PROVE  TradedIn(<<>>, id) = 0
<1> DEFINE f == [i \in {} |-> 0]
<1>1. DOMAIN <<>> = {}
  OBVIOUS
<1>2. TradedIn(<<>>, id) = SumFunctionOnSet([i \in DOMAIN <<>> |->
          IF id \in {(<<>>)[i].maker, (<<>>)[i].taker} THEN (<<>>)[i].quantity ELSE 0],
          DOMAIN <<>>)
  BY DEF TradedIn, SumFunction
<1> QED BY <1>1, <1>2, SumEmpty

LEMMA TradedIsNat ==
    ASSUME NEW fills \in Seq(FillSet), NEW id
    PROVE  TradedIn(fills, id) \in Nat
<1> DEFINE f == [i \in DOMAIN fills |-> TradeOf(fills[i], id)]
<1>1. TradedIn(fills, id) = SumFunctionOnSet(f, DOMAIN fills)
  BY DEF TradedIn, SumFunction, TradeOf
<1>2. \A i \in DOMAIN fills : fills[i] \in FillSet
  OBVIOUS
<1>3. \A i \in DOMAIN fills : f[i] \in Nat
  BY <1>2 DEF TradeOf, FillSet
<1>4. IsFiniteSet(DOMAIN fills)
  <2>1. DOMAIN fills = 1 .. Len(fills) /\ Len(fills) \in Nat
    OBVIOUS
  <2> QED BY <2>1, FS_Interval
<1> HIDE DEF f
<1> QED BY <1>1, <1>3, <1>4, SumIsNat

LEMMA TradedAppend ==
    ASSUME NEW fills \in Seq(FillSet), NEW f \in FillSet, NEW id
    PROVE  /\ TradedIn(fills, id) \in Nat
           /\ TradedIn(Append(fills, f), id) = TradedIn(fills, id) + TradeOf(f, id)
<1> DEFINE t == Append(fills, f)
           last == Len(fills) + 1
           D == DOMAIN fills
           x == [i \in D |-> TradeOf(fills[i], id)]
           y == [i \in DOMAIN t |-> TradeOf(t[i], id)]
<1>1. /\ Len(fills) \in Nat /\ D = 1 .. Len(fills)
      /\ DOMAIN t = D \cup {last} /\ last \notin D
      /\ t[last] = f /\ \A i \in D : t[i] = fills[i] /\ fills[i] \in FillSet
  OBVIOUS
<1>2. TradedIn(fills, id) = SumFunctionOnSet(x, D)
  BY DEF TradedIn, SumFunction, TradeOf
<1>3. TradedIn(t, id) = SumFunctionOnSet(y, DOMAIN t)
  BY DEF TradedIn, SumFunction, TradeOf
<1>4. ASSUME NEW g \in FillSet PROVE TradeOf(g, id) \in Nat
  BY DEF TradeOf, FillSet
<1>5. IsFiniteSet(D)
  BY <1>1, FS_Interval
<1> HIDE DEF t, D, last
<1>6. /\ \A i \in D : x[i] \in Nat /\ y[i] = x[i]
      /\ y[last] = TradeOf(f, id)
      /\ \A i \in D \cup {last} : y[i] \in Int
  BY <1>1, <1>4
<1> HIDE DEF x, y
<1>7. SumFunctionOnSet(x, D) \in Nat
  BY <1>5, <1>6, SumIsNat
<1>8. SumFunctionOnSet(x, D) = SumFunctionOnSet(y, D)
  BY <1>5, <1>6, SumCongruent
<1>9. SumFunctionOnSet(y, D \cup {last}) = y[last] + SumFunctionOnSet(y, D)
  BY <1>1, <1>5, <1>6, SumAdd
<1>10. TradeOf(f, id) \in Nat
  BY <1>4
<1>11. TradedIn(t, id) = TradeOf(f, id) + TradedIn(fills, id) /\ TradedIn(fills, id) \in Nat
  BY <1>1, <1>2, <1>3, <1>6, <1>7, <1>8, <1>9
<1> QED BY <1>10, <1>11 DEF t

-----------------------------------------------------------------------------
(* The matching loop: what its rounds keep.                                 *)

\* The order comes after the orders of the side it is matched against.
Incoming(order, makers) ==
    /\ order.side \in Sides
    /\ order \in TakerSet(order.side)
    /\ IsBook(makers, Opposite(order.side))
    /\ \A r \in RestingOrders(makers) : r.id < order.id

\* The makers left are makers of the start, with no more to trade.
SameOrder(r, o) ==
    /\ r.id = o.id /\ r.trader = o.trader /\ r.side = o.side
    /\ r.price = o.price /\ r.quantity = o.quantity

LoopOrders(m, order, makers) ==
    /\ LoopType(m, order.side)
    /\ SameOrder(m.taker, order)
    /\ \A r \in RestingOrders(m.makers) : \E o \in RestingOrders(makers) : SameOrder(r, o)
    /\ \A i \in DOMAIN m.fills :
          /\ m.fills[i].taker = order.id
          /\ \E o \in RestingOrders(makers) :
                o.id = m.fills[i].maker /\ o.price = m.fills[i].price

\* No maker was passed over.
MakerOf(fill) == [id |-> fill.maker, price |-> fill.price]

LoopPriority(m, side) ==
    \A i \in DOMAIN m.fills : \A r \in RestingOrders(m.makers) :
        r.id # m.fills[i].maker => ~HasPriority(Opposite(side), r, MakerOf(m.fills[i]))

\* What was traded is gone from the taker and from the makers.
LoopQuantities(m, order, makers) ==
    /\ TradedIn(m.fills, order.id) + m.taker.remaining = order.remaining
    /\ \A id \in Nat : id # order.id =>
          RemainingIn(RestingOrders(m.makers), id) + TradedIn(m.fills, id)
             = RemainingIn(RestingOrders(makers), id)

LoopHeld(m, makers) ==
    \A account : HeldFor(RestingOrders(m.makers), account)
                     <= HeldFor(RestingOrders(makers), account)

\* The loop has ended, or every round took a maker off the book.
LoopEnded(m) == IsTerminal(m.taker) \/ ~Crosses(m.taker, m.makers)
LoopShrinks(m, makers, n) ==
    LoopEnded(m) \/ RestingCount(m.makers) + n <= RestingCount(makers)

LEMMA RoundOrders ==
    ASSUME NEW order, NEW makers, Incoming(order, makers), NEW m, LoopOrders(m, order, makers),
           NEW next, NEW maker, NEW q, RoundEffect(m, next, order.side, maker, q)
    PROVE  LoopOrders(next, order, makers)
<1>1. /\ maker \in RestingSet(Opposite(order.side)) /\ m.taker \in TakerSet(order.side)
      /\ next.taker = ApplyFill(m.taker, q)
      /\ LoopType(next, order.side)
  BY DEF RoundEffect, LoopOrders, LoopType
<1>2. SameOrder(next.taker, order)
  BY <1>1, FillFields DEF LoopOrders, SameOrder
<1>3. SameOrder(ApplyFill(maker, q), maker)
  BY <1>1, FillFields DEF SameOrder
<1>4. PICK o \in RestingOrders(makers) : SameOrder(maker, o)
  BY DEF LoopOrders, RoundEffect
<1>5. SameOrder(ApplyFill(maker, q), o)
  BY <1>3, <1>4 DEF SameOrder
<1>6. \A r \in RestingOrders(next.makers) : r \in RestingOrders(m.makers) \/ r = ApplyFill(maker, q)
  BY DEF RoundEffect
<1>7. \A r \in RestingOrders(next.makers) : \E x \in RestingOrders(makers) : SameOrder(r, x)
  BY <1>5, <1>6 DEF LoopOrders
<1> DEFINE fill == Fill(maker, m.taker, maker.price, q)
<1>8. fill.taker = order.id /\ fill.maker = o.id /\ fill.price = o.price
  BY <1>4 DEF Fill, LoopOrders, SameOrder
<1> HIDE DEF fill
<1>9. /\ m.fills \in Seq(FillSet) /\ next.fills = Append(m.fills, fill)
  BY DEF RoundEffect, LoopOrders, LoopType, fill
<1>10. \A i \in DOMAIN next.fills :
          (i \in DOMAIN m.fills /\ next.fills[i] = m.fills[i]) \/ next.fills[i] = fill
  BY <1>9
<1>11. \A i \in DOMAIN next.fills :
          /\ next.fills[i].taker = order.id
          /\ \E x \in RestingOrders(makers) :
                x.id = next.fills[i].maker /\ x.price = next.fills[i].price
  BY <1>8, <1>10 DEF LoopOrders
<1> QED BY <1>1, <1>2, <1>7, <1>11 DEF LoopOrders

LEMMA RoundPriority ==
    ASSUME NEW side, NEW m, LoopType(m, side), LoopPriority(m, side),
           NEW next, NEW maker, NEW q, RoundEffect(m, next, side, maker, q)
    PROVE  LoopPriority(next, side)
<1> DEFINE fill == Fill(maker, m.taker, maker.price, q)
           opp == Opposite(side)
<1>1. /\ maker \in RestingOrders(m.makers) /\ maker \in RestingSet(opp)
      /\ \A r \in RestingOrders(m.makers) \ {maker} : ~HasPriority(opp, r, maker)
      /\ \A r \in RestingOrders(next.makers) :
            r \in RestingOrders(m.makers) \ {maker} \/ r = ApplyFill(maker, q)
  BY DEF RoundEffect
<1>2. ApplyFill(maker, q).id = maker.id /\ ApplyFill(maker, q).price = maker.price
  BY <1>1, FillFields
<1>3. MakerOf(fill).id = maker.id /\ MakerOf(fill).price = maker.price
      /\ fill.maker = maker.id
  BY DEF Fill, MakerOf
<1> HIDE DEF fill
<1>4. /\ m.fills \in Seq(FillSet) /\ next.fills = Append(m.fills, fill)
  BY DEF RoundEffect, LoopType, fill
<1>5. \A i \in DOMAIN next.fills :
          (i \in DOMAIN m.fills /\ next.fills[i] = m.fills[i]) \/ next.fills[i] = fill
  BY <1>4
<1> HIDE DEF opp
<1>6. ASSUME NEW i \in DOMAIN m.fills, NEW r \in RestingOrders(next.makers),
             r.id # m.fills[i].maker
      PROVE  ~HasPriority(opp, r, MakerOf(m.fills[i]))
  <2>1. CASE r \in RestingOrders(m.makers)
    BY <1>6, <2>1 DEF LoopPriority, opp
  <2>2. CASE r = ApplyFill(maker, q)
    <3>1. ~HasPriority(opp, maker, MakerOf(m.fills[i]))
      BY <1>1, <1>2, <1>6, <2>2 DEF LoopPriority, opp
    <3> QED BY <1>2, <2>2, <3>1 DEF HasPriority
  <2> QED BY <1>1, <2>1, <2>2
<1>7. ASSUME NEW r \in RestingOrders(next.makers), r.id # fill.maker
      PROVE  ~HasPriority(opp, r, MakerOf(fill))
  <2>1. ~HasPriority(opp, r, maker)
    BY <1>1, <1>2, <1>3, <1>7
  <2> QED BY <1>3, <2>1 DEF HasPriority
<1>8. ASSUME NEW i \in DOMAIN next.fills, NEW r \in RestingOrders(next.makers),
             r.id # next.fills[i].maker
      PROVE  ~HasPriority(opp, r, MakerOf(next.fills[i]))
  BY <1>5, <1>6, <1>7, <1>8
<1> QED BY <1>8 DEF LoopPriority, opp

LEMMA RoundQuantities ==
    ASSUME NEW order, NEW makers, Incoming(order, makers), NEW m, LoopOrders(m, order, makers),
           LoopQuantities(m, order, makers),
           NEW next, NEW maker, NEW q, RoundEffect(m, next, order.side, maker, q)
    PROVE  LoopQuantities(next, order, makers)
<1> DEFINE fill == Fill(maker, m.taker, maker.price, q)
           R == RestingOrders(m.makers)
           Q == RestingOrders(next.makers)
           S == RestingOrders(makers)
           opp == Opposite(order.side)
<1>1. /\ maker \in R /\ maker \in RestingSet(opp)
      /\ Q = (R \ {maker}) \cup (IF q = maker.remaining THEN {} ELSE {ApplyFill(maker, q)})
      /\ q \in Nat \ {0} /\ q <= maker.remaining /\ q <= m.taker.remaining
      /\ next.taker = ApplyFill(m.taker, q)
  BY DEF RoundEffect
<1>2. /\ m.taker \in TakerSet(order.side) /\ m.fills \in Seq(FillSet)
      /\ next.fills = Append(m.fills, fill)
      /\ IsBook(m.makers, opp) /\ next.fills \in Seq(FillSet)
  BY DEF RoundEffect, LoopOrders, LoopType
<1>3. /\ maker.id \in Nat /\ maker.remaining \in Nat /\ m.taker.remaining \in Nat
      /\ m.taker.id = order.id
  BY <1>1, <1>2 DEF RestingSet, TakerSet, LoopOrders, SameOrder
<1>4. maker.id # order.id
  <2>1. PICK o \in S : SameOrder(maker, o)
    BY <1>1 DEF LoopOrders
  <2>2. o.id < order.id
    BY DEF Incoming
  <2> QED BY <1>3, <2>1, <2>2 DEF SameOrder
<1>5. /\ fill.maker = maker.id /\ fill.taker = order.id /\ fill.quantity = q
      /\ fill \in FillSet
  <2>1. fill \in FillSet
    BY <1>1, <1>2 DEF Fill, FillSet, TakerSet, RestingSet
  <2> QED BY <1>3, <2>1 DEF Fill
<1>6. /\ ApplyFill(maker, q).id = maker.id
      /\ ApplyFill(maker, q).remaining = maker.remaining - q
      /\ next.taker.remaining = m.taker.remaining - q
  BY <1>1, <1>2, FillFields
<1> HIDE DEF fill, R, Q, S, opp
<1>7. \A id : /\ TradedIn(m.fills, id) \in Nat
              /\ TradedIn(next.fills, id) = TradedIn(m.fills, id) + TradeOf(fill, id)
  BY <1>2, <1>5, TradedAppend
<1>8. TradedIn(next.fills, order.id) + next.taker.remaining = order.remaining
  <2>1. TradeOf(fill, order.id) = q
    BY <1>5 DEF TradeOf
  <2>2. TradedIn(m.fills, order.id) + m.taker.remaining = order.remaining
    BY DEF LoopQuantities
  <2> QED BY <1>1, <1>3, <1>6, <1>7, <2>1, <2>2
<1>9. ASSUME NEW id \in Nat, id # order.id
      PROVE  RemainingIn(Q, id) + TradedIn(next.fills, id) = RemainingIn(S, id)
  <2>1. RemainingIn(R, id) + TradedIn(m.fills, id) = RemainingIn(S, id)
    BY <1>9 DEF LoopQuantities, R, S
  <2>2. CASE id # maker.id
    <3>1. TradeOf(fill, id) = 0
      BY <1>5, <1>9, <2>2 DEF TradeOf
    <3>2. {r \in Q : r.id = id} = {r \in R : r.id = id}
      BY <1>1, <1>6, <2>2
    <3>3. RemainingIn(Q, id) = RemainingIn(R, id)
      BY <3>2, RemainingCongruent
    <3> QED BY <1>7, <2>1, <3>1, <3>3
  <2>3. CASE id = maker.id
    <3>1. TradeOf(fill, id) = q
      BY <1>5, <2>3 DEF TradeOf
    <3>2. \A r \in R : r.id = id => r = maker
      BY <1>1, <1>2, <2>3 DEF IsBook, R
    <3>3. RemainingIn(R, id) = maker.remaining
      BY <1>1, <1>3, <2>3, <3>2, RemainingIs
    <3>4. RemainingIn(Q, id) = maker.remaining - q
      <4>1. CASE q = maker.remaining
        <5>1. \A r \in Q : r.id # id
          BY <1>1, <3>2, <4>1
        <5>2. RemainingIn(Q, id) = 0
          BY <5>1, RemainingIs
        <5> QED BY <1>1, <4>1, <5>2
      <4>2. CASE q # maker.remaining
        <5> DEFINE left == ApplyFill(maker, q)
        <5>1. left \in Q /\ left.id = id /\ left.remaining = maker.remaining - q
          BY <1>1, <1>6, <2>3, <4>2
        <5>2. \A r \in Q : r.id = id => r = left
          BY <1>1, <3>2, <4>2
        <5>3. left.remaining \in Nat
          BY <1>1, <1>3, <5>1
        <5> HIDE DEF left
        <5> QED BY <5>1, <5>2, <5>3, RemainingIs
      <4> QED BY <4>1, <4>2
    <3> QED BY <1>1, <1>3, <1>7, <2>1, <3>1, <3>3, <3>4
  <2> QED BY <2>2, <2>3
<1> QED BY <1>8, <1>9 DEF LoopQuantities, Q, S

LEMMA RoundHeld ==
    ASSUME NEW makers, NEW side, IsBook(makers, Opposite(side)), NEW m, LoopType(m, side),
           LoopHeld(m, makers),
           NEW next, NEW maker, NEW q, RoundEffect(m, next, side, maker, q)
    PROVE  LoopHeld(next, makers)
<1> DEFINE opp == Opposite(side)
           R == RestingOrders(m.makers)
           Q == RestingOrders(next.makers)
           S == RestingOrders(makers)
           rest == R \ {maker}
           left == ApplyFill(maker, q)
<1>1. /\ maker \in R /\ maker \in RestingSet(opp)
      /\ Q = rest \cup (IF q = maker.remaining THEN {} ELSE {left})
      /\ q \in Nat \ {0} /\ q <= maker.remaining
  BY DEF RoundEffect
<1>2. IsFiniteSet(R) /\ R \subseteq RestingSet(opp)
  BY RestingFinite DEF LoopType
<1>3. IsFiniteSet(S) /\ S \subseteq RestingSet(opp)
  BY RestingFinite
<1>4. IsFiniteSet(rest) /\ rest \subseteq RestingSet(opp) /\ maker \notin rest
      /\ R = rest \cup {maker}
  BY <1>1, <1>2, FS_RemoveElement
<1>5. maker.remaining \in Nat /\ maker.price \in Nat
  BY <1>1, PricesAssumption DEF RestingSet
<1>6. /\ left.id = maker.id /\ left.trader = maker.trader /\ left.side = maker.side
      /\ left.price = maker.price /\ left.remaining = maker.remaining - q
      /\ q # maker.remaining => left \in RestingSet(opp)
  BY <1>1, <1>5, FillFields, FillLeaves
<1>7. q # maker.remaining => left \notin rest
  <2>1. \A r \in R : r.id = maker.id => r = maker
    BY <1>1 DEF LoopType, IsBook
  <2> QED BY <1>4, <1>6, <2>1
<1>8. Backing(left) <= Backing(maker) /\ ReservationAccount(left) = ReservationAccount(maker)
  <2>1. ReservationAccount(left) = ReservationAccount(maker)
    <3> HIDE DEF left
    <3> QED BY <1>6 DEF ReservationAccount
  <2>2. left.remaining <= maker.remaining /\ left.remaining \in Nat
    <3> HIDE DEF left
    <3> QED BY <1>1, <1>5, <1>6
  <2>3. \A x, y, z \in Nat : x <= y => z * x <= z * y
    OBVIOUS
  <2>4. left.price * left.remaining <= maker.price * maker.remaining
    <3> HIDE DEF left
    <3> QED BY <1>5, <1>6, <2>2, <2>3
  <2> HIDE DEF left
  <2> QED BY <1>6, <2>1, <2>2, <2>4 DEF Backing
<1> HIDE DEF R, Q, S, rest, left, opp
<1>9. ASSUME NEW account
      PROVE  HeldFor(Q, account) <= HeldFor(S, account)
  <2> DEFINE Part(o) == IF ReservationAccount(o) = account THEN Backing(o) ELSE 0
  <2>1. HeldFor(R, account) <= HeldFor(S, account)
    BY DEF LoopHeld, R, S
  <2>2. /\ HeldFor(rest, account) \in Nat
        /\ HeldFor(R, account) = HeldFor(rest, account) + Part(maker)
    BY <1>1, <1>4, HeldAdd
  <2>3. Part(maker) \in Nat
    BY <1>1, BackingIsNat
  <2>4. HeldFor(Q, account) = HeldFor(rest, account)
        \/ (left \in RestingSet(opp) /\ HeldFor(Q, account) = HeldFor(rest, account) + Part(left))
    <3>1. CASE q = maker.remaining
      <4>1. Q = rest
        BY <1>1, <3>1
      <4> QED BY <4>1
    <3>2. CASE q # maker.remaining
      <4>1. Q = rest \cup {left} /\ left \in RestingSet(opp) /\ left \notin rest
        BY <1>1, <1>6, <1>7, <3>2
      <4> QED BY <1>4, <4>1, HeldAdd
    <3> QED BY <3>1, <3>2
  <2>5. left \in RestingSet(opp) => Part(left) \in Nat /\ Part(left) <= Part(maker)
    BY <1>8, BackingIsNat
  <2>6. HeldFor(Q, account) \in Nat /\ HeldFor(Q, account) <= HeldFor(R, account)
    <3> HIDE DEF Part
    <3> QED BY <2>2, <2>3, <2>4, <2>5
  <2>7. HeldFor(R, account) \in Nat
    <3> HIDE DEF Part
    <3> QED BY <2>2, <2>3
  <2>8. HeldFor(S, account) \in Int
    <3>1. ASSUME NEW o \in S PROVE Backing(o) \in Int
      BY <1>3, BackingIsNat
    <3> DEFINE D == {r \in S : ReservationAccount(r) = account}
               f == [o \in D |-> Backing(o)]
    <3>2. IsFiniteSet(D) /\ \A o \in D : f[o] \in Int
      BY <1>3, <3>1, FS_Subset
    <3>3. HeldFor(S, account) = SumFunctionOnSet(f, D)
      BY DEF HeldFor, SumFunction
    <3> HIDE DEF f, D
    <3> QED BY <3>2, <3>3, SumIsInt
  <2> QED BY <2>1, <2>6, <2>7, <2>8
<1> QED BY <1>9 DEF LoopHeld, Q, S

LEMMA RoundShrinks ==
    ASSUME NEW side, NEW makers, NEW m, LoopType(m, side),
           NEW next, NEW maker, NEW q, RoundEffect(m, next, side, maker, q),
           NEW n \in Nat, ~LoopEnded(m), LoopShrinks(m, makers, n),
           RestingCount(makers) \in Nat
    PROVE  LoopShrinks(next, makers, n + 1)
<1>1. RestingCount(m.makers) + n <= RestingCount(makers) /\ RestingCount(m.makers) \in Nat
  BY CountIsNat DEF LoopShrinks, LoopType
<1>2. CASE q = m.taker.remaining
  <2>1. m.taker \in TakerSet(side) /\ next.taker = ApplyFill(m.taker, q)
    BY DEF RoundEffect, LoopType
  <2>2. next.taker.remaining = m.taker.remaining - q /\ m.taker.remaining \in Nat
    BY <2>1, FillFields DEF TakerSet
  <2>3. next.taker.remaining = 0
    BY <1>2, <2>2
  <2> QED BY <2>3 DEF LoopShrinks, LoopEnded, IsTerminal
<1>3. CASE RestingCount(next.makers) = RestingCount(m.makers) - 1
  BY <1>1, <1>3 DEF LoopShrinks
<1> QED BY <1>2, <1>3 DEF RoundEffect

\* The loop is a recursive function too: its states st over the first N rounds.
FirstRound(order, makers) == [taker |-> order, makers |-> makers, fills |-> <<>>]
NextRound(m) == IF ~IsTerminal(m.taker) /\ Crosses(m.taker, m.makers) THEN MatchRound(m) ELSE m

RoundStates(order, makers, N, st) ==
    st = [n \in 0 .. N |-> IF n = 0 THEN FirstRound(order, makers) ELSE NextRound(st[n - 1])]

LEMMA RoundStep ==
    ASSUME NEW order, NEW makers, NEW N \in Nat, NEW st, RoundStates(order, makers, N, st)
    PROVE  /\ st[0] = FirstRound(order, makers)
           /\ \A n \in 1 .. N : st[n] = NextRound(st[n - 1])
<1> DEFINE F(n) == IF n = 0 THEN FirstRound(order, makers) ELSE NextRound(st[n - 1])
<1>1. st = [n \in 0 .. N |-> F(n)]
  BY DEF RoundStates
<1> HIDE DEF F
<1>2. \A n \in 0 .. N : st[n] = F(n)
  BY <1>1
<1>3. st[0] = F(0) /\ \A n \in 1 .. N : st[n] = F(n) /\ n # 0
  BY <1>2
<1> QED BY <1>3 DEF F

LEMMA RoundStepAt ==
    ASSUME NEW order, NEW makers, NEW N \in Nat, NEW st, RoundStates(order, makers, N, st),
           NEW n \in 1 .. N
    PROVE  st[n] = NextRound(st[n - 1])
BY RoundStep

LEMMA RoundsExist ==
    ASSUME NEW order, NEW makers, NEW N \in Nat
    PROVE  \E st : RoundStates(order, makers, N, st)
<1> DEFINE T == {n \in Nat : \E st : RoundStates(order, makers, n, st)}
<1>1. 0 \in T
  <2> DEFINE st == [n \in 0 .. 0 |-> FirstRound(order, makers)]
  <2>1. st = [n \in 0 .. 0 |->
             IF n = 0 THEN FirstRound(order, makers) ELSE NextRound(st[n - 1])]
    OBVIOUS
  <2>2. RoundStates(order, makers, 0, st)
    BY <2>1 DEF RoundStates
  <2> QED BY <2>2
<1>2. ASSUME NEW n \in 0 .. N - 1, n \in T PROVE n + 1 \in T
  <2>1. PICK st : RoundStates(order, makers, n, st)
    BY <1>2
  <2> DEFINE next == [m \in 0 .. n + 1 |-> IF m = n + 1 THEN NextRound(st[n]) ELSE st[m]]
             F(m) == IF m = 0 THEN FirstRound(order, makers) ELSE NextRound(next[m - 1])
  <2>2. next[n + 1] = NextRound(st[n]) /\ \A m \in 0 .. n : next[m] = st[m]
    OBVIOUS
  <2>3. ASSUME NEW m \in 0 .. n + 1 PROVE next[m] = F(m)
    <3> HIDE DEF next
    <3>1. CASE m = n + 1
      <4>1. m - 1 = n /\ m # 0 /\ n \in 0 .. n
        BY <3>1
      <4> QED BY <2>2, <3>1, <4>1
    <3>2. CASE m = 0
      BY <2>1, <2>2, <3>2, RoundStep
    <3>3. CASE m # 0 /\ m # n + 1
      <4>1. m \in 1 .. n /\ m - 1 \in 0 .. n
        BY <3>3
      <4>2. next[m] = st[m] /\ next[m - 1] = st[m - 1]
        BY <2>2, <4>1
      <4>3. st[m] = NextRound(st[m - 1])
        BY <2>1, <4>1, RoundStepAt
      <4> QED BY <3>3, <4>2, <4>3
    <3> QED BY <3>1, <3>2, <3>3
  <2>4. next = [m \in 0 .. n + 1 |-> F(m)]
    <3>1. next = [m \in 0 .. n + 1 |-> next[m]]
      OBVIOUS
    <3> HIDE DEF next, F
    <3> QED BY <2>3, <3>1
  <2>5. RoundStates(order, makers, n + 1, next)
    BY <2>4 DEF RoundStates
  <2> QED BY <2>5
<1> HIDE DEF T
<1>3. N \in T
  BY <1>1, <1>2, Upward
<1> QED BY <1>3 DEF T

LEMMA MatchRoundsIs ==
    ASSUME NEW order, NEW makers, RestingCount(makers) \in Nat
    PROVE  \E st : /\ RoundStates(order, makers, RestingCount(makers), st)
                   /\ MatchRounds(order, makers) = st[RestingCount(makers)]
<1>1. MatchRounds(order, makers)
        = (CHOOSE st : RoundStates(order, makers, RestingCount(makers), st))[RestingCount(makers)]
  BY DEF MatchRounds, RoundStates, FirstRound, NextRound
<1> QED BY <1>1, RoundsExist

LoopInv(m, order, makers, n) ==
    /\ LoopOrders(m, order, makers)
    /\ LoopPriority(m, order.side)
    /\ LoopQuantities(m, order, makers)
    /\ LoopHeld(m, makers)
    /\ LoopShrinks(m, makers, n)

LEMMA FirstRoundInv ==
    ASSUME NEW order, NEW makers, Incoming(order, makers)
    PROVE  LoopInv(FirstRound(order, makers), order, makers, 0)
<1> DEFINE m == FirstRound(order, makers)
           S == RestingOrders(makers)
           opp == Opposite(order.side)
<1>1. m.taker = order /\ m.makers = makers /\ m.fills = <<>>
  BY DEF FirstRound
<1> HIDE DEF m
<1>2. m.fills \in Seq(FillSet) /\ DOMAIN m.fills = {}
  BY <1>1
<1>3. LoopOrders(m, order, makers)
  BY <1>1, <1>2 DEF LoopOrders, LoopType, SameOrder, Incoming
<1>4. LoopPriority(m, order.side)
  BY <1>2 DEF LoopPriority
<1>5. \A id : TradedIn(m.fills, id) = 0
  BY <1>1, TradedNothing
<1>6. LoopQuantities(m, order, makers)
  <2>1. order.remaining \in Nat
    BY DEF Incoming, TakerSet
  <2>2. ASSUME NEW id \in Nat
        PROVE  RemainingIn(S, id) \in Int
    <3>1. CASE \A r \in S : r.id # id
      BY <3>1, RemainingIs
    <3>2. CASE ~ \A r \in S : r.id # id
      <4>1. PICK o \in S : o.id = id
        BY <3>2
      <4>2. o.remaining \in Nat
        BY RestingIs DEF Incoming, RestingSet
      <4>3. \A r \in S : r.id = id => r = o
        BY <4>1 DEF Incoming, IsBook
      <4>4. RemainingIn(S, id) = o.remaining
        BY <4>1, <4>2, <4>3, RemainingIs
      <4> QED BY <4>2, <4>4
    <3> QED BY <3>1, <3>2
  <2> QED BY <1>1, <1>5, <2>1, <2>2 DEF LoopQuantities
<1>7. LoopHeld(m, makers)
  <2>1. IsFiniteSet(S) /\ S \subseteq RestingSet(opp)
    BY RestingFinite DEF Incoming
  <2> SUFFICES ASSUME NEW account PROVE HeldFor(S, account) <= HeldFor(S, account)
    BY <1>1 DEF LoopHeld
  <2> DEFINE D == {r \in S : ReservationAccount(r) = account}
             f == [o \in D |-> Backing(o)]
  <2>2. IsFiniteSet(D) /\ \A o \in D : f[o] \in Int
    <3>1. \A o \in D : Backing(o) \in Nat
      BY <2>1, BackingIsNat
    <3>2. IsFiniteSet(D)
      BY <2>1, FS_Subset
    <3> QED BY <3>1, <3>2
  <2>3. HeldFor(S, account) = SumFunctionOnSet(f, D)
    BY DEF HeldFor, SumFunction
  <2> HIDE DEF f, D, S
  <2>4. HeldFor(S, account) \in Int
    BY <2>2, <2>3, SumIsInt
  <2> QED BY <2>4
<1>8. LoopShrinks(m, makers, 0)
  <2>1. RestingCount(makers) \in Nat
    BY CountIsNat DEF Incoming
  <2> QED BY <1>1, <2>1 DEF LoopShrinks
<1> QED BY <1>3, <1>4, <1>6, <1>7, <1>8 DEF LoopInv, m

LEMMA NextRoundInv ==
    ASSUME NEW order, NEW makers, Incoming(order, makers), NEW m, NEW n \in Nat,
           LoopInv(m, order, makers, n)
    PROVE  LoopInv(NextRound(m), order, makers, n + 1)
<1>1. /\ order.side \in Sides /\ LoopType(m, order.side) /\ LoopOrders(m, order, makers)
      /\ IsBook(makers, Opposite(order.side)) /\ LoopPriority(m, order.side)
      /\ LoopQuantities(m, order, makers) /\ LoopHeld(m, makers) /\ LoopShrinks(m, makers, n)
  BY DEF Incoming, LoopInv, LoopOrders
<1>2. RestingCount(makers) \in Nat
  BY <1>1, CountIsNat
<1>3. CASE LoopEnded(m)
  <2>1. NextRound(m) = m
    BY <1>3 DEF NextRound, LoopEnded
  <2>2. LoopShrinks(m, makers, n + 1)
    BY <1>3 DEF LoopShrinks
  <2> QED BY <1>1, <2>1, <2>2 DEF LoopInv
<1>4. CASE ~LoopEnded(m)
  <2> DEFINE next == MatchRound(m)
  <2>1. NextRound(m) = next
    BY <1>4 DEF NextRound, LoopEnded
  <2>2. ~IsTerminal(m.taker) /\ LevelPrices(m.makers) # {}
    BY <1>4 DEF LoopEnded, Crosses
  <2>3. PICK maker, q : RoundEffect(m, next, order.side, maker, q)
    BY <1>1, <2>2, RoundIs
  <2> HIDE DEF next
  <2>4. LoopOrders(next, order, makers)
    BY <1>1, <2>3, RoundOrders
  <2>5. LoopPriority(next, order.side)
    BY <1>1, <2>3, RoundPriority
  <2>6. LoopQuantities(next, order, makers)
    BY <1>1, <2>3, RoundQuantities
  <2>7. LoopHeld(next, makers)
    BY <1>1, <2>3, RoundHeld
  <2>8. LoopShrinks(next, makers, n + 1)
    BY <1>1, <1>2, <1>4, <2>3, RoundShrinks
  <2> QED BY <2>1, <2>4, <2>5, <2>6, <2>7, <2>8 DEF LoopInv
<1> QED BY <1>3, <1>4

\* The loop runs to its end, and keeps all of this.
LEMMA Matched ==
    ASSUME NEW order, NEW makers, Incoming(order, makers)
    PROVE  /\ LoopOrders(MatchRounds(order, makers), order, makers)
           /\ LoopPriority(MatchRounds(order, makers), order.side)
           /\ LoopQuantities(MatchRounds(order, makers), order, makers)
           /\ LoopHeld(MatchRounds(order, makers), makers)
           /\ LoopEnded(MatchRounds(order, makers))
<1> DEFINE N == RestingCount(makers)
           last == MatchRounds(order, makers)
<1>1. N \in Nat
  BY CountIsNat DEF Incoming
<1>2. PICK st : RoundStates(order, makers, N, st) /\ last = st[N]
  BY <1>1, MatchRoundsIs
<1> HIDE DEF last, N
<1>3. st[0] = FirstRound(order, makers) /\ \A n \in 1 .. N : st[n] = NextRound(st[n - 1])
  BY <1>1, <1>2, RoundStep
<1> DEFINE T == {n \in Nat : LoopInv(st[n], order, makers, n)}
<1>4. 0 \in T
  BY <1>3, FirstRoundInv
<1>5. ASSUME NEW n \in 0 .. N - 1, n \in T PROVE n + 1 \in T
  <2>1. n + 1 \in 1 .. N /\ (n + 1) - 1 = n /\ n \in Nat /\ n + 1 \in Nat
    BY <1>1
  <2>2. st[n + 1] = NextRound(st[n])
    BY <1>3, <2>1
  <2>3. LoopInv(st[n + 1], order, makers, n + 1)
    BY <1>5, <2>1, <2>2, NextRoundInv
  <2> QED BY <2>1, <2>3
<1> HIDE DEF T
<1>6. N \in T
  BY <1>1, <1>4, <1>5, Upward
<1>7. LoopInv(last, order, makers, N)
  BY <1>2, <1>6 DEF T
<1>8. LoopEnded(last)
  <2>1. LoopShrinks(last, makers, N) /\ IsBook(last.makers, Opposite(order.side))
    BY <1>7 DEF LoopInv, LoopOrders, LoopType
  <2>2. CASE RestingCount(last.makers) + N <= N
    <3>1. RestingCount(last.makers) = 0
      BY <1>1, <2>1, <2>2, CountIsNat
    <3>2. LevelPrices(last.makers) = {}
      BY <2>1, <3>1, CountIsNat
    <3> QED BY <3>2 DEF LoopEnded, Crosses
  <2> QED BY <2>1, <2>2 DEF LoopShrinks, N
<1> QED BY <1>7, <1>8 DEF LoopInv, last

-----------------------------------------------------------------------------
(* place_order: both sides of the book.                                     *)

\* Both sides are books, of orders placed before order n.
EngineOK(e, n) ==
    /\ e = [x \in Sides |-> e[x]]
    /\ \A x \in Sides : IsBook(e[x], x)
    /\ \A x \in Sides : \A r \in RestingOrders(e[x]) : r.id < n
    /\ \A x \in Sides : \A r \in RestingOrders(e[x]), o \in RestingOrders(e[Opposite(x)]) :
          r.id # o.id

\* What a placement leaves on the two sides.
Placement(e, order, m, next) ==
    /\ Incoming(order, e[Opposite(order.side)])
    /\ LoopOrders(m, order, e[Opposite(order.side)])
    /\ LoopPriority(m, order.side)
    /\ LoopQuantities(m, order, e[Opposite(order.side)])
    /\ LoopHeld(m, e[Opposite(order.side)])
    /\ LoopEnded(m)
    /\ RestingOrders(next[Opposite(order.side)]) = RestingOrders(m.makers)
    /\ RestingOrders(next[order.side]) = RestingOrders(e[order.side])
          \cup (IF IsTerminal(m.taker) THEN {} ELSE {m.taker})
    /\ ~IsTerminal(m.taker) => m.taker \in RestingSet(order.side)

Everything(e) == RestingOrders(e["Bid"]) \cup RestingOrders(e["Ask"])

LEMMA SideFacts ==
    /\ \A s \in Sides : /\ Opposite(s) \in Sides /\ Opposite(s) # s
                        /\ Opposite(Opposite(s)) = s
                        /\ \A x \in Sides : x = s \/ x = Opposite(s)
    /\ \A e : \A s \in Sides :
          Everything(e) = RestingOrders(e[s]) \cup RestingOrders(e[Opposite(s)])
<1>1. \A s \in Sides : /\ Opposite(s) \in Sides /\ Opposite(s) # s
                       /\ Opposite(Opposite(s)) = s
                       /\ \A x \in Sides : x = s \/ x = Opposite(s)
  BY DEF Sides, Opposite
<1>2. ASSUME NEW e, NEW s \in Sides
      PROVE  Everything(e) = RestingOrders(e[s]) \cup RestingOrders(e[Opposite(s)])
  <2>1. CASE s = "Bid"
    BY <2>1 DEF Everything, Opposite
  <2>2. CASE s = "Ask"
    BY <2>2 DEF Everything, Opposite
  <2> QED BY <2>1, <2>2 DEF Sides
<1> QED BY <1>1, <1>2

LEMMA PlaceIs ==
    ASSUME NEW n \in Nat, NEW e, EngineOK(e, n), NEW t \in Traders, NEW s \in Sides,
           NEW p \in Prices, NEW q \in Quantities, NEW order, order = NewOrder(n, t, s, p, q)
    PROVE  \E m : /\ Placement(e, order, m, PlaceInEngine(e, order).engine)
                  /\ PlaceInEngine(e, order).fills = m.fills
                  /\ EngineOK(PlaceInEngine(e, order).engine, n + 1)
<1> DEFINE opp == Opposite(s)
           m == MatchRounds(order, e[opp])
           own == IF IsTerminal(m.taker) THEN e[s] ELSE Insert(e[s], m.taker)
           next == PlaceInEngine(e, order).engine
<1>1. /\ order.id = n /\ order.trader = t /\ order.side = s /\ order.price = p
      /\ order.quantity = q /\ order.remaining = q
      /\ order \in TakerSet(s)
  <2>1. q \in Nat /\ q <= q
    BY QuantitiesAssumption
  <2> QED BY <2>1 DEF NewOrder, TakerSet
<1>2. /\ opp \in Sides /\ opp # s /\ \A x \in Sides : x = s \/ x = opp
      /\ Opposite(opp) = s
  BY SideFacts
<1>3. Incoming(order, e[opp])
  BY <1>1, <1>2 DEF Incoming, EngineOK
<1>4. /\ LoopOrders(m, order, e[opp]) /\ LoopPriority(m, s)
      /\ LoopQuantities(m, order, e[opp]) /\ LoopHeld(m, e[opp]) /\ LoopEnded(m)
  <2> HIDE DEF opp
  <2> QED BY <1>1, <1>3, Matched
<1>5. PlaceInEngine(e, order)
        = [engine |-> [e EXCEPT ![opp] = m.makers,
                                ![s] = IF IsTerminal(m.taker) THEN @ ELSE Insert(@, m.taker)],
           fills |-> m.fills]
  BY <1>1 DEF PlaceInEngine
<1>6. e = [x \in Sides |-> e[x]]
  BY DEF EngineOK
<1> HIDE DEF opp, m
<1>7. /\ PlaceInEngine(e, order).fills = m.fills
      /\ next = [x \in Sides |-> next[x]]
      /\ next[opp] = m.makers /\ next[s] = own
  <2> HIDE DEF next
  <2>1. next = [e EXCEPT ![opp] = m.makers,
                         ![s] = IF IsTerminal(m.taker) THEN @ ELSE Insert(@, m.taker)]
        /\ PlaceInEngine(e, order).fills = m.fills
    BY <1>1, <1>5 DEF next
  <2>2. s \in Sides /\ opp \in Sides /\ opp # s
    BY <1>1, <1>2
  <2>3. next[opp] = m.makers
    BY <1>6, <2>1, <2>2
  <2>4. next[s] = IF IsTerminal(m.taker) THEN e[s] ELSE Insert(e[s], m.taker)
    BY <1>6, <2>1, <2>2
  <2>5. next = [x \in Sides |-> next[x]]
    BY <1>6, <2>1, <2>2
  <2> QED BY <2>1, <2>3, <2>4, <2>5
<1> HIDE DEF next, own
<1>8. /\ m.taker \in TakerSet(s) /\ IsBook(m.makers, opp) /\ SameOrder(m.taker, order)
      /\ \A r \in RestingOrders(m.makers) : \E o \in RestingOrders(e[opp]) : SameOrder(r, o)
  BY <1>1, <1>4 DEF LoopOrders, LoopType, opp
<1>9. m.taker.id = n /\ (~IsTerminal(m.taker) => m.taker \in RestingSet(s))
  BY <1>1, <1>8 DEF TakerSet, RestingSet, SameOrder, IsTerminal
<1>10. IsBook(e[s], s) /\ \A r \in RestingOrders(e[s]) : r.id < n
  BY DEF EngineOK
<1>11. /\ RestingOrders(own) = RestingOrders(e[s])
             \cup (IF IsTerminal(m.taker) THEN {} ELSE {m.taker})
       /\ IsBook(own, s)
  <2>1. CASE IsTerminal(m.taker)
    BY <1>10, <2>1 DEF own
  <2>2. CASE ~IsTerminal(m.taker)
    BY <1>9, <1>10, <2>2, InsertBook DEF own
  <2> QED BY <2>1, <2>2
<1>12. \A r \in RestingOrders(m.makers) : r.id < n /\ r.id \in Nat
  <2>1. \A o \in RestingOrders(e[opp]) : o.id < n /\ o.id \in Nat
    <3>1. IsBook(e[opp], opp)
      BY <1>2 DEF EngineOK
    <3>2. \A o \in RestingOrders(e[opp]) : o \in RestingSet(opp)
      BY <3>1, RestingIs
    <3> QED BY <1>2, <3>2 DEF EngineOK, RestingSet
  <2> QED BY <1>8, <2>1 DEF SameOrder
<1>13. \A r \in RestingOrders(own) : r.id < n + 1 /\ r.id \in Nat
  <2>1. \A r \in RestingOrders(e[s]) : r.id \in Nat
    BY <1>10, RestingIs DEF RestingSet
  <2> QED BY <1>9, <1>10, <1>11, <2>1
<1>14. \A r \in RestingOrders(own), o \in RestingOrders(m.makers) : r.id # o.id
  <2>1. \A r \in RestingOrders(e[s]), o \in RestingOrders(e[opp]) : r.id # o.id
    BY <1>2 DEF EngineOK, opp
  <2>2. \A r \in RestingOrders(e[s]), o \in RestingOrders(m.makers) : r.id # o.id
    BY <1>8, <2>1 DEF SameOrder
  <2> QED BY <1>9, <1>11, <1>12, <2>2
<1>15. EngineOK(next, n + 1)
  <2>1. \A x \in Sides : IsBook(next[x], x)
    BY <1>2, <1>7, <1>8, <1>11
  <2>2. \A x \in Sides : \A r \in RestingOrders(next[x]) : r.id < n + 1
    BY <1>2, <1>7, <1>12, <1>13
  <2>3. \A x \in Sides : \A r \in RestingOrders(next[x]),
                            o \in RestingOrders(next[Opposite(x)]) : r.id # o.id
    <3>1. ASSUME NEW r \in RestingOrders(next[s]), NEW o \in RestingOrders(next[Opposite(s)])
          PROVE  r.id # o.id
      BY <1>7, <1>14, <3>1 DEF opp
    <3>2. ASSUME NEW r \in RestingOrders(next[opp]), NEW o \in RestingOrders(next[Opposite(opp)])
          PROVE  r.id # o.id
      BY <1>2, <1>7, <1>14, <3>2
    <3> QED BY <1>2, <3>1, <3>2
  <2> QED BY <1>7, <2>1, <2>2, <2>3 DEF EngineOK
<1>16. Placement(e, order, m, next)
  BY <1>1, <1>3, <1>4, <1>7, <1>9, <1>11 DEF Placement, opp
<1> QED BY <1>7, <1>15, <1>16 DEF next

\* After a placement the two sides do not trade with each other.
Uncrossed(e) ==
    \A b \in RestingOrders(e["Bid"]), a \in RestingOrders(e["Ask"]) : b.price < a.price

LEMMA PlacementUncrossed ==
    ASSUME NEW e, NEW order, NEW m, NEW next, Placement(e, order, m, next), Uncrossed(e)
    PROVE  Uncrossed(next)
<1> DEFINE s == order.side
           opp == Opposite(s)
<1>1. /\ s \in Sides /\ LoopEnded(m) /\ IsBook(m.makers, opp)
      /\ m.taker \in TakerSet(s)
      /\ \A r \in RestingOrders(m.makers) : \E o \in RestingOrders(e[opp]) : r.price = o.price
      /\ RestingOrders(next[opp]) = RestingOrders(m.makers)
      /\ RestingOrders(next[s]) = RestingOrders(e[s])
            \cup (IF IsTerminal(m.taker) THEN {} ELSE {m.taker})
  BY DEF Placement, Incoming, LoopOrders, LoopType, SameOrder
<1> HIDE DEF opp
<1>2. ASSUME NEW r \in RestingOrders(m.makers), ~IsTerminal(m.taker)
      PROVE  IF s = "Bid" THEN m.taker.price < r.price ELSE r.price < m.taker.price
  <2>1. /\ r \in RestingSet(opp) /\ r \in Queued(m.makers[r.price])
    BY <1>1, RestingIs
  <2>2. r.price \in Prices /\ m.taker.price \in Prices /\ m.taker.side = s
    BY <1>1, <2>1 DEF RestingSet, TakerSet
  <2>3. r.price \in LevelPrices(m.makers)
    BY <2>1, <2>2 DEF LevelPrices, Queued
  <2> DEFINE best == BestPrice(opp, m.makers)
  <2>4. best \in Prices /\ AtLeastAsGood(opp, best, r.price)
    BY <2>3, BestPriceIs
  <2>5. ~(IF s = "Bid" THEN m.taker.price >= best ELSE m.taker.price <= best)
    BY <1>1, <1>2, <2>2, <2>3 DEF LoopEnded, Crosses, opp
  <2> HIDE DEF best
  <2>6. r.price \in Nat /\ m.taker.price \in Nat /\ best \in Nat
    BY <2>2, <2>4, PricesAssumption
  <2>7. CASE s = "Bid"
    <3>1. best <= r.price
      BY <2>4, <2>7 DEF AtLeastAsGood, opp, Opposite
    <3> QED BY <2>5, <2>6, <2>7, <3>1
  <2>8. CASE s = "Ask"
    <3>1. best >= r.price
      BY <2>4, <2>8 DEF AtLeastAsGood, opp, Opposite
    <3> QED BY <2>5, <2>6, <2>8, <3>1
  <2> QED BY <1>1, <2>7, <2>8 DEF Sides
<1>3. CASE s = "Bid"
  <2>1. opp = "Ask"
    BY <1>3 DEF opp, Opposite
  <2> QED BY <1>1, <1>2, <1>3, <2>1 DEF Uncrossed
<1>4. CASE s = "Ask"
  <2>1. opp = "Bid"
    BY <1>4 DEF opp, Opposite
  <2> QED BY <1>1, <1>2, <1>4, <2>1 DEF Uncrossed
<1> QED BY <1>1, <1>3, <1>4 DEF Sides

-----------------------------------------------------------------------------
(* The engine and the history h of its placements.                          *)

Entry == [order : TakerSet("Bid") \cup TakerSet("Ask"), fills : Seq(FillSet)]

\* An order that rests is an order of the history, and its fills name two.
HistoryOK(h, e) ==
    /\ h \in Seq(Entry)
    /\ EngineOK(e, Len(h) + 1)
    /\ \A i \in DOMAIN h : h[i].order.id = i
    /\ \A r \in Everything(e) : r.id \in DOMAIN h /\ SameOrder(r, h[r.id].order)
    /\ \A n \in DOMAIN h : \A i \in DOMAIN h[n].fills :
          /\ h[n].fills[i].taker = n
          /\ h[n].fills[i].maker \in DOMAIN h /\ h[n].fills[i].maker < n

FilledIn(h, id) == SumFunction([n \in 1 .. Len(h) |-> TradedIn(h[n].fills, id)])

QuantitiesKept(h, e) ==
    \A id \in DOMAIN h :
        FilledIn(h, id) + RemainingIn(Everything(e), id) = h[id].order.quantity

PriorityKept(h, e) ==
    \A n \in DOMAIN h : \A i \in DOMAIN h[n].fills : \A r \in Everything(e) :
        LET maker == h[h[n].fills[i].maker].order
        IN  (r.side = maker.side /\ r.id < n /\ r.id # maker.id)
                => ~HasPriority(maker.side, r, maker)

\* One more placement, of order n.
Placed(h, e, g, next) ==
    \E t \in Traders, s \in Sides, p \in Prices, q \in Quantities :
        LET order == NewOrder(Len(h) + 1, t, s, p, q)
        IN  /\ next = PlaceInEngine(e, order).engine
            /\ g = Append(h, [order |-> order, fills |-> PlaceInEngine(e, order).fills])

\* The same, read through the facts the lemmas above give.
PlacedAs(h, e, g, next, order, m) ==
    /\ Placement(e, order, m, next)
    /\ EngineOK(next, Len(h) + 2)
    /\ order.id = Len(h) + 1 /\ order.quantity = order.remaining
    /\ g \in Seq(Entry) /\ Len(h) \in Nat /\ Len(g) = Len(h) + 1
    /\ DOMAIN h = 1 .. Len(h) /\ DOMAIN g = 1 .. Len(g)
    /\ \A i \in DOMAIN h : i \in DOMAIN g /\ g[i] = h[i]
    /\ g[Len(g)].order = order /\ g[Len(g)].fills = m.fills
    /\ Len(g) \in DOMAIN g
    /\ \A i \in DOMAIN g : i \in DOMAIN h \/ i = Len(g)
    /\ \A i \in DOMAIN h : i < Len(g)

LEMMA PlacedFacts ==
    ASSUME NEW h, NEW e, HistoryOK(h, e), NEW g, NEW next, Placed(h, e, g, next)
    PROVE  \E order, m : PlacedAs(h, e, g, next, order, m)
<1>1. PICK t \in Traders, s \in Sides, p \in Prices, q \in Quantities :
          /\ next = PlaceInEngine(e, NewOrder(Len(h) + 1, t, s, p, q)).engine
          /\ g = Append(h, [order |-> NewOrder(Len(h) + 1, t, s, p, q),
                            fills |-> PlaceInEngine(e, NewOrder(Len(h) + 1, t, s, p, q)).fills])
  BY DEF Placed
<1> DEFINE order == NewOrder(Len(h) + 1, t, s, p, q)
<1>2. h \in Seq(Entry) /\ Len(h) \in Nat /\ DOMAIN h = 1 .. Len(h) /\ EngineOK(e, Len(h) + 1)
  BY DEF HistoryOK
<1>3. /\ order.id = Len(h) + 1 /\ order.quantity = order.remaining
      /\ order \in TakerSet("Bid") \cup TakerSet("Ask")
  <2>1. q \in Nat /\ q <= q /\ Len(h) + 1 \in Nat
    BY <1>2, QuantitiesAssumption
  <2> QED BY <2>1 DEF NewOrder, TakerSet, Sides
<1>4. PICK m : /\ Placement(e, order, m, PlaceInEngine(e, order).engine)
               /\ PlaceInEngine(e, order).fills = m.fills
               /\ EngineOK(PlaceInEngine(e, order).engine, (Len(h) + 1) + 1)
  <2>1. Len(h) + 1 \in Nat
    BY <1>2
  <2> QED BY <1>2, <2>1, PlaceIs
<1> HIDE DEF order
<1>5. next = PlaceInEngine(e, order).engine
      /\ g = Append(h, [order |-> order, fills |-> m.fills])
  BY <1>1, <1>4 DEF order
<1>6. Placement(e, order, m, next) /\ EngineOK(next, Len(h) + 2)
  <2>1. (Len(h) + 1) + 1 = Len(h) + 2
    BY <1>2
  <2> QED BY <1>4, <1>5, <2>1
<1>7. m.fills \in Seq(FillSet)
  BY <1>6 DEF Placement, LoopOrders, LoopType
<1> DEFINE entry == [order |-> order, fills |-> m.fills]
<1>8. entry \in Entry /\ entry.order = order /\ entry.fills = m.fills
  BY <1>3, <1>7 DEF Entry
<1> HIDE DEF entry
<1>9. /\ g \in Seq(Entry) /\ Len(g) = Len(h) + 1
      /\ DOMAIN g = 1 .. Len(g)
      /\ \A i \in DOMAIN h : i \in DOMAIN g /\ g[i] = h[i]
      /\ g[Len(g)] = entry
  <2>1. g = Append(h, entry)
    BY <1>5 DEF entry
  <2> QED BY <1>2, <1>8, <2>1
<1>10. /\ Len(g) \in DOMAIN g
       /\ \A i \in DOMAIN g : i \in DOMAIN h \/ i = Len(g)
       /\ \A i \in DOMAIN h : i < Len(g)
  BY <1>2, <1>9
<1>11. PlacedAs(h, e, g, next, order, m)
  BY <1>2, <1>3, <1>6, <1>8, <1>9, <1>10 DEF PlacedAs
<1> QED BY <1>11

\* The orders of both sides after a placement.
LEMMA PlacedOrders ==
    ASSUME NEW h, NEW e, HistoryOK(h, e), NEW g, NEW next, NEW order, NEW m,
           PlacedAs(h, e, g, next, order, m)
    PROVE  /\ \A r \in Everything(next) :
                 \/ r \in Everything(e) /\ r.side = order.side
                 \/ r \in RestingOrders(m.makers) /\ r.side = Opposite(order.side)
                 \/ r = m.taker /\ r.side = order.side
           /\ m.taker.id = Len(g) /\ SameOrder(m.taker, order)
           /\ \A r \in RestingOrders(m.makers) : \E o \in Everything(e) : SameOrder(r, o)
<1> DEFINE s == order.side
           opp == Opposite(s)
<1>1. /\ s \in Sides /\ SameOrder(m.taker, order)
      /\ IsBook(m.makers, opp) /\ m.taker \in TakerSet(s)
      /\ \A r \in RestingOrders(m.makers) : \E o \in RestingOrders(e[opp]) : SameOrder(r, o)
      /\ RestingOrders(next[opp]) = RestingOrders(m.makers)
      /\ RestingOrders(next[s]) = RestingOrders(e[s])
            \cup (IF IsTerminal(m.taker) THEN {} ELSE {m.taker})
  BY DEF PlacedAs, Placement, Incoming, LoopOrders, LoopType
<1>2. /\ opp \in Sides
      /\ Everything(e) = RestingOrders(e[s]) \cup RestingOrders(e[opp])
      /\ Everything(next) = RestingOrders(next[s]) \cup RestingOrders(next[opp])
  BY <1>1, SideFacts
<1>3. IsBook(e[s], s)
  BY <1>1 DEF HistoryOK, EngineOK
<1> HIDE DEF s, opp
<1>4. /\ \A r \in RestingOrders(e[s]) : r.side = s
      /\ \A r \in RestingOrders(m.makers) : r.side = opp
      /\ m.taker.side = s
  BY <1>1, <1>3, RestingIs DEF RestingSet, TakerSet
<1>5. m.taker.id = Len(g)
  BY <1>1 DEF PlacedAs, SameOrder
<1> QED BY <1>1, <1>2, <1>4, <1>5 DEF s, opp

LEMMA PlacedHistoryOK ==
    ASSUME NEW h, NEW e, HistoryOK(h, e), NEW g, NEW next, NEW order, NEW m,
           PlacedAs(h, e, g, next, order, m)
    PROVE  HistoryOK(g, next)
<1>1. /\ g \in Seq(Entry) /\ Len(h) \in Nat /\ Len(g) = Len(h) + 1
      /\ Len(g) \in DOMAIN g
      /\ \A i \in DOMAIN h : i \in DOMAIN g /\ g[i] = h[i] /\ i < Len(g)
      /\ \A i \in DOMAIN g : i \in DOMAIN h \/ i = Len(g)
      /\ g[Len(g)].order = order /\ g[Len(g)].fills = m.fills
      /\ order.id = Len(g)
  BY DEF PlacedAs
<1>2. EngineOK(next, Len(g) + 1)
  <2>1. Len(g) + 1 = Len(h) + 2
    BY <1>1
  <2> QED BY <2>1 DEF PlacedAs
<1>3. \A i \in DOMAIN g : g[i].order.id = i
  BY <1>1 DEF HistoryOK
<1>4. \A r \in Everything(e) : r.id \in DOMAIN g /\ SameOrder(r, g[r.id].order)
  BY <1>1 DEF HistoryOK
<1>5. ASSUME NEW r \in Everything(next)
      PROVE  r.id \in DOMAIN g /\ SameOrder(r, g[r.id].order)
  <2>1. /\ r \in Everything(e) \/ r \in RestingOrders(m.makers) \/ r = m.taker
        /\ m.taker.id = Len(g) /\ SameOrder(m.taker, order)
        /\ \A x \in RestingOrders(m.makers) : \E o \in Everything(e) : SameOrder(x, o)
    BY PlacedOrders
  <2>2. CASE r \in Everything(e)
    BY <1>4, <2>2
  <2>3. CASE r \in RestingOrders(m.makers)
    <3>1. PICK o \in Everything(e) : SameOrder(r, o)
      BY <2>1, <2>3
    <3>2. o.id \in DOMAIN g /\ SameOrder(o, g[o.id].order) /\ r.id = o.id
      BY <1>4, <3>1 DEF SameOrder
    <3> QED BY <3>1, <3>2 DEF SameOrder
  <2>4. CASE r = m.taker
    BY <1>1, <2>1, <2>4
  <2> QED BY <2>1, <2>2, <2>3, <2>4
<1>6. ASSUME NEW n \in DOMAIN g, NEW i \in DOMAIN g[n].fills
      PROVE  /\ g[n].fills[i].taker = n
             /\ g[n].fills[i].maker \in DOMAIN g /\ g[n].fills[i].maker < n
  <2>1. CASE n \in DOMAIN h
    BY <1>1, <2>1 DEF HistoryOK
  <2>2. CASE n = Len(g)
    <3>1. i \in DOMAIN m.fills /\ g[n].fills[i] = m.fills[i]
      BY <1>1, <2>2
    <3>2. PICK o \in RestingOrders(e[Opposite(order.side)]) : o.id = m.fills[i].maker
      BY <3>1 DEF PlacedAs, Placement, LoopOrders
    <3>3. m.fills[i].taker = order.id
      BY <3>1 DEF PlacedAs, Placement, LoopOrders
    <3>4. o \in Everything(e)
      BY <3>2, SideFacts DEF PlacedAs, Placement, Incoming
    <3>5. o.id \in DOMAIN h
      BY <3>4 DEF HistoryOK
    <3> QED BY <1>1, <2>2, <3>1, <3>2, <3>3, <3>5
  <2> QED BY <1>1, <2>1, <2>2
<1> QED BY <1>1, <1>2, <1>3, <1>5, <1>6 DEF HistoryOK

LEMMA PlacedPriority ==
    ASSUME NEW h, NEW e, HistoryOK(h, e), PriorityKept(h, e), NEW g, NEW next, NEW order, NEW m,
           PlacedAs(h, e, g, next, order, m)
    PROVE  PriorityKept(g, next)
<1>1. /\ Len(h) \in Nat /\ Len(g) = Len(h) + 1
      /\ \A i \in DOMAIN h : i \in DOMAIN g /\ g[i] = h[i] /\ i < Len(g) /\ i \in Nat
      /\ \A i \in DOMAIN g : i \in DOMAIN h \/ i = Len(g)
      /\ g[Len(g)].order = order /\ g[Len(g)].fills = m.fills
  BY DEF PlacedAs
<1>2. /\ \A r \in Everything(next) :
            \/ r \in Everything(e) /\ r.side = order.side
            \/ r \in RestingOrders(m.makers) /\ r.side = Opposite(order.side)
            \/ r = m.taker /\ r.side = order.side
      /\ m.taker.id = Len(g)
      /\ \A r \in RestingOrders(m.makers) : \E o \in Everything(e) : SameOrder(r, o)
  BY PlacedOrders
<1> DEFINE Kept(r, n, maker) == (r.side = maker.side /\ r.id < n /\ r.id # maker.id)
                                   => ~HasPriority(maker.side, r, maker)
<1>3. ASSUME NEW n \in DOMAIN h, NEW i \in DOMAIN h[n].fills, NEW r \in Everything(next)
      PROVE  Kept(r, n, h[h[n].fills[i].maker].order)
  <2> DEFINE maker == h[h[n].fills[i].maker].order
  <2>1. \A o \in Everything(e) : Kept(o, n, maker)
    BY DEF PriorityKept
  <2> HIDE DEF maker
  <2>2. CASE r \in Everything(e)
    BY <2>1, <2>2 DEF maker
  <2>3. CASE r \in RestingOrders(m.makers)
    <3>1. PICK o \in Everything(e) : SameOrder(r, o)
      BY <1>2, <2>3
    <3>2. Kept(o, n, maker)
      BY <2>1
    <3> QED BY <3>1, <3>2 DEF SameOrder, HasPriority, maker
  <2>4. CASE r = m.taker
    BY <1>1, <1>2, <2>4
  <2> QED BY <1>2, <2>2, <2>3, <2>4
<1>4. ASSUME NEW i \in DOMAIN m.fills, NEW r \in Everything(next)
      PROVE  /\ m.fills[i].maker \in DOMAIN h
             /\ Kept(r, Len(g), h[m.fills[i].maker].order)
  <2> DEFINE opp == Opposite(order.side)
  <2>1. PICK o \in RestingOrders(e[opp]) : o.id = m.fills[i].maker /\ o.price = m.fills[i].price
    BY DEF PlacedAs, Placement, LoopOrders
  <2>2. order.side \in Sides /\ opp \in Sides /\ opp # order.side
    BY SideFacts DEF PlacedAs, Placement, Incoming
  <2>3. o \in Everything(e) /\ o.side = opp
    <3>1. IsBook(e[opp], opp)
      BY <2>2 DEF HistoryOK, EngineOK
    <3>2. o.side = opp
      BY <3>1, RestingIs DEF RestingSet
    <3> QED BY <2>2, <3>2, SideFacts
  <2> DEFINE maker == h[m.fills[i].maker].order
  <2>4. /\ m.fills[i].maker \in DOMAIN h /\ SameOrder(o, maker)
    BY <2>1, <2>3 DEF HistoryOK
  <2>5. maker.side = opp /\ maker.id = m.fills[i].maker /\ maker.price = m.fills[i].price
    BY <2>1, <2>3, <2>4 DEF SameOrder
  <2> HIDE DEF maker, opp
  <2>6. ASSUME r.side = opp, r.id # maker.id PROVE ~HasPriority(opp, r, maker)
    <3>1. r \in RestingOrders(m.makers)
      BY <1>2, <2>2, <2>6
    <3>2. ~HasPriority(opp, r, MakerOf(m.fills[i]))
      BY <2>5, <2>6, <3>1 DEF PlacedAs, Placement, LoopPriority, opp
    <3>3. MakerOf(m.fills[i]).id = maker.id /\ MakerOf(m.fills[i]).price = maker.price
      BY <2>5 DEF MakerOf
    <3> QED BY <3>2, <3>3 DEF HasPriority
  <2> QED BY <2>4, <2>5, <2>6 DEF maker
<1>5. ASSUME NEW n \in DOMAIN g, NEW i \in DOMAIN g[n].fills, NEW r \in Everything(next)
      PROVE  Kept(r, n, g[g[n].fills[i].maker].order)
  <2> HIDE DEF Kept
  <2>1. CASE n \in DOMAIN h
    <3>1. g[n] = h[n] /\ i \in DOMAIN h[n].fills
      BY <1>1, <2>1
    <3>2. h[n].fills[i].maker \in DOMAIN h
      BY <2>1, <3>1 DEF HistoryOK
    <3> QED BY <1>1, <1>3, <2>1, <3>1, <3>2
  <2>2. CASE n = Len(g)
    <3>1. g[n].fills = m.fills /\ i \in DOMAIN m.fills
      BY <1>1, <2>2
    <3> QED BY <1>1, <1>4, <2>2, <3>1
  <2> QED BY <1>1, <2>1, <2>2
<1> QED BY <1>5 DEF PriorityKept

\* What an order traded before it was placed: nothing.
LEMMA TradedByStranger ==
    ASSUME NEW fills \in Seq(FillSet), NEW id,
           \A i \in DOMAIN fills : id \notin {fills[i].maker, fills[i].taker}
    PROVE  TradedIn(fills, id) = 0
<1> DEFINE f == [i \in DOMAIN fills |-> TradeOf(fills[i], id)]
<1>1. TradedIn(fills, id) = SumFunctionOnSet(f, DOMAIN fills)
  BY DEF TradedIn, SumFunction, TradeOf
<1>2. \A i \in DOMAIN fills : f[i] = 0
  BY DEF TradeOf
<1>3. IsFiniteSet(DOMAIN fills)
  <2>1. DOMAIN fills = 1 .. Len(fills) /\ Len(fills) \in Nat
    OBVIOUS
  <2> QED BY <2>1, FS_Interval
<1> HIDE DEF f
<1> QED BY <1>1, <1>2, <1>3, SumOfZeros

\* A longer history adds what the last placement traded.
LEMMA FilledGrows ==
    ASSUME NEW h, NEW g, h \in Seq(Entry), g \in Seq(Entry), Len(g) = Len(h) + 1,
           \A i \in DOMAIN h : g[i] = h[i], NEW id
    PROVE  /\ FilledIn(g, id) = FilledIn(h, id) + TradedIn(g[Len(g)].fills, id)
           /\ FilledIn(h, id) \in Nat /\ TradedIn(g[Len(g)].fills, id) \in Nat
           /\ (\A n \in DOMAIN h : TradedIn(h[n].fills, id) = 0) => FilledIn(h, id) = 0
<1> DEFINE D == 1 .. Len(h)
           last == Len(g)
           x == [n \in D |-> TradedIn(h[n].fills, id)]
           y == [n \in 1 .. Len(g) |-> TradedIn(g[n].fills, id)]
<1>1. /\ Len(h) \in Nat /\ DOMAIN h = D /\ 1 .. Len(g) = D \cup {last} /\ last \notin D
      /\ IsFiniteSet(D) /\ last \in 1 .. Len(g) /\ DOMAIN g = 1 .. Len(g)
  <2>1. Len(h) \in Nat /\ DOMAIN h = D /\ DOMAIN g = 1 .. Len(g)
    OBVIOUS
  <2>2. IsFiniteSet(D)
    BY <2>1, FS_Interval
  <2>3. 1 .. Len(g) = D \cup {last} /\ last \notin D /\ last \in 1 .. Len(g)
    BY <2>1
  <2> QED BY <2>1, <2>2, <2>3
<1>2. FilledIn(h, id) = SumFunctionOnSet(x, D)
      /\ FilledIn(g, id) = SumFunctionOnSet(y, 1 .. Len(g))
  BY DEF FilledIn, SumFunction
<1>3. \A n \in DOMAIN g : g[n].fills \in Seq(FillSet)
  <2>1. \A n \in DOMAIN g : g[n] \in Entry
    OBVIOUS
  <2> QED BY <2>1 DEF Entry
<1>4. ASSUME NEW fills \in Seq(FillSet) PROVE TradedIn(fills, id) \in Nat
  BY TradedIsNat
<1>5. /\ \A n \in D \cup {last} : y[n] = TradedIn(g[n].fills, id) /\ y[n] \in Nat
      /\ \A n \in D : x[n] = y[n] /\ x[n] = TradedIn(h[n].fills, id)
  BY <1>1, <1>3, <1>4
<1> HIDE DEF D, last, x, y
<1>6. SumFunctionOnSet(x, D) = SumFunctionOnSet(y, D)
  BY <1>1, <1>5, SumCongruent
<1>7. SumFunctionOnSet(y, D \cup {last}) = y[last] + SumFunctionOnSet(y, D)
  BY <1>1, <1>5, SumAdd
<1>8. SumFunctionOnSet(y, D) \in Nat
  BY <1>1, <1>5, SumIsNat
<1>9. ASSUME \A n \in DOMAIN h : TradedIn(h[n].fills, id) = 0 PROVE FilledIn(h, id) = 0
  <2>1. \A n \in D : x[n] = 0
    BY <1>1, <1>5, <1>9
  <2> QED BY <1>1, <1>2, <2>1, SumOfZeros
<1>10. y[last] \in Nat /\ y[last] = TradedIn(g[last].fills, id)
  BY <1>5
<1>11. FilledIn(g, id) = y[last] + FilledIn(h, id) /\ FilledIn(h, id) \in Nat
  BY <1>1, <1>2, <1>6, <1>7, <1>8
<1> QED BY <1>9, <1>10, <1>11 DEF last

LEMMA PlacedQuantities ==
    ASSUME NEW h, NEW e, HistoryOK(h, e), QuantitiesKept(h, e),
           NEW g, NEW next, NEW order, NEW m, PlacedAs(h, e, g, next, order, m)
    PROVE  QuantitiesKept(g, next)
<1> DEFINE s == order.side
           opp == Opposite(s)
           Own == RestingOrders(e[s])
           Old == RestingOrders(e[opp])
           New == RestingOrders(m.makers)
           N == Len(g)
<1>1. /\ s \in Sides /\ SameOrder(m.taker, order) /\ m.taker \in TakerSet(s)
      /\ m.fills \in Seq(FillSet)
      /\ \A r \in New : \E o \in Old : SameOrder(r, o)
      /\ RestingOrders(next[opp]) = New
      /\ RestingOrders(next[s]) = Own \cup (IF IsTerminal(m.taker) THEN {} ELSE {m.taker})
      /\ LoopQuantities(m, order, e[opp])
  BY DEF PlacedAs, Placement, Incoming, LoopOrders, LoopType
<1>2. /\ opp \in Sides
      /\ Everything(e) = Own \cup Old
      /\ Everything(next) = RestingOrders(next[s]) \cup New
  BY <1>1, SideFacts
<1>3. /\ h \in Seq(Entry) /\ g \in Seq(Entry) /\ Len(h) \in Nat /\ N = Len(h) + 1
      /\ \A i \in DOMAIN h : i \in DOMAIN g /\ g[i] = h[i] /\ i # N /\ i \in Nat
      /\ \A i \in DOMAIN g : i \in DOMAIN h \/ i = N
      /\ g[N].order = order /\ g[N].fills = m.fills
      /\ order.id = N /\ order.quantity = order.remaining
  BY DEF PlacedAs, HistoryOK
<1>4. /\ \A r \in Own, o \in Old : r.id # o.id
      /\ \A r \in Own : r.id # N
      /\ \A r \in Old : r.id # N
  <2>1. \A r \in Everything(e) : r.id \in DOMAIN h
    BY DEF HistoryOK
  <2>2. \A r \in Own, o \in Old : r.id # o.id
    BY <1>1 DEF HistoryOK, EngineOK
  <2> QED BY <1>2, <1>3, <2>1, <2>2
<1>5. m.taker.id = N /\ m.taker.remaining \in Nat
  BY <1>1, <1>3 DEF SameOrder, TakerSet
<1>6. \A r \in New : \E o \in Old : r.id = o.id
  BY <1>1 DEF SameOrder
<1>7. \A id : /\ FilledIn(g, id) = FilledIn(h, id) + TradedIn(m.fills, id)
              /\ FilledIn(h, id) \in Nat /\ TradedIn(m.fills, id) \in Nat
              /\ (\A n \in DOMAIN h : TradedIn(h[n].fills, id) = 0) => FilledIn(h, id) = 0
  BY <1>3, FilledGrows
<1>8. \A n \in DOMAIN h : h[n].fills \in Seq(FillSet)
  <2>1. \A n \in DOMAIN h : h[n] \in Entry
    BY <1>3
  <2> QED BY <2>1 DEF Entry
<1>9. ASSUME NEW R, NEW side \in Sides, NEW L, IsBook(L, side), R = RestingOrders(L),
             NEW id
      PROVE  RemainingIn(R, id) \in Nat
  <2>1. CASE \A r \in R : r.id # id
    BY <2>1, RemainingIs
  <2>2. CASE ~ \A r \in R : r.id # id
    <3>1. PICK o \in R : o.id = id
      BY <2>2
    <3>2. o.remaining \in Nat
      <4>1. o \in RestingSet(side)
        BY <1>9, <3>1, RestingIs
      <4> QED BY <4>1 DEF RestingSet
    <3>3. \A r \in R : r.id = id => r = o
      BY <1>9, <3>1 DEF IsBook
    <3>4. RemainingIn(R, id) = o.remaining
      BY <3>1, <3>2, <3>3, RemainingIs
    <3> QED BY <3>2, <3>4
  <2> QED BY <2>1, <2>2
<1>10. /\ IsBook(e[s], s) /\ IsBook(e[opp], opp) /\ IsBook(m.makers, opp)
  BY <1>1, <1>2 DEF HistoryOK, EngineOK, PlacedAs, Placement, LoopOrders, LoopType
<1>11. \A id : /\ RemainingIn(Own, id) \in Nat /\ RemainingIn(Old, id) \in Nat
               /\ RemainingIn(New, id) \in Nat
  BY <1>1, <1>2, <1>9, <1>10
<1> HIDE DEF s, opp, Own, Old, New, N
\* An order of the history: either it rests on the taker's side, untouched, or
\* what it traded is gone from its side.
<1>12. ASSUME NEW id \in DOMAIN h
       PROVE  FilledIn(g, id) + RemainingIn(Everything(next), id) = g[id].order.quantity
  <2>1. FilledIn(h, id) + RemainingIn(Everything(e), id) = h[id].order.quantity
    BY DEF QuantitiesKept
  <2>2. id \in Nat /\ id # order.id /\ id # N
    BY <1>3
  <2>3. RemainingIn(New, id) + TradedIn(m.fills, id) = RemainingIn(Old, id)
    BY <1>1, <2>2 DEF LoopQuantities, New, Old
  <2>4. CASE \E r \in Own : r.id = id
    <3>1. (\A o \in Old : o.id # id) /\ (\A o \in New : o.id # id)
      BY <1>4, <1>6, <2>4
    <3>2. RemainingIn(Old, id) = 0 /\ RemainingIn(New, id) = 0
      BY <3>1, RemainingIs
    <3>3. TradedIn(m.fills, id) = 0
      BY <1>7, <2>3, <3>2
    <3>4. {r \in Everything(next) : r.id = id} = {r \in Everything(e) : r.id = id}
      BY <1>1, <1>2, <1>5, <2>2, <3>1
    <3>5. RemainingIn(Everything(next), id) = RemainingIn(Everything(e), id)
      BY <3>4, RemainingCongruent
    <3>6. FilledIn(g, id) = FilledIn(h, id)
      <4>1. FilledIn(g, id) = FilledIn(h, id) + 0 /\ FilledIn(h, id) \in Nat
        BY <1>7, <3>3
      <4> QED BY <4>1
    <3> QED BY <1>3, <2>1, <3>5, <3>6
  <2>5. CASE \A r \in Own : r.id # id
    <3>1. {r \in Everything(next) : r.id = id} = {r \in New : r.id = id}
      BY <1>1, <1>2, <1>5, <2>2, <2>5
    <3>2. {r \in Everything(e) : r.id = id} = {r \in Old : r.id = id}
      BY <1>2, <2>5
    <3>3. /\ RemainingIn(Everything(next), id) = RemainingIn(New, id)
          /\ RemainingIn(Everything(e), id) = RemainingIn(Old, id)
      BY <3>1, <3>2, RemainingCongruent
    <3>4. FilledIn(g, id) = FilledIn(h, id) + TradedIn(m.fills, id)
          /\ FilledIn(h, id) \in Nat /\ TradedIn(m.fills, id) \in Nat
      BY <1>7
    <3>5. RemainingIn(Old, id) \in Nat /\ RemainingIn(New, id) \in Nat
      BY <1>11
    <3>6. h[id] = g[id]
      BY <1>3
    <3> QED BY <2>1, <2>3, <3>3, <3>4, <3>5, <3>6
  <2> QED BY <2>4, <2>5
<1>13. FilledIn(g, N) + RemainingIn(Everything(next), N) = g[N].order.quantity
  <2>1. \A n \in DOMAIN h : TradedIn(h[n].fills, N) = 0
    <3> SUFFICES ASSUME NEW n \in DOMAIN h PROVE TradedIn(h[n].fills, N) = 0
      OBVIOUS
    <3>1. \A i \in DOMAIN h[n].fills : N \notin {h[n].fills[i].maker, h[n].fills[i].taker}
      BY <1>3 DEF HistoryOK
    <3> QED BY <1>8, <3>1, TradedByStranger
  <2>2. TradedIn(m.fills, N) + m.taker.remaining = order.remaining
    BY <1>1, <1>3 DEF LoopQuantities
  <2>3. RemainingIn(Everything(next), N) = m.taker.remaining
    <3>1. \A r \in Everything(next) : r.id = N => r = m.taker /\ ~IsTerminal(m.taker)
      BY <1>1, <1>2, <1>4, <1>6
    <3>2. CASE IsTerminal(m.taker)
      <4>1. \A r \in Everything(next) : r.id # N
        BY <3>1, <3>2
      <4>2. RemainingIn(Everything(next), N) = 0
        BY <4>1, RemainingIs
      <4> QED BY <3>2, <4>2 DEF IsTerminal
    <3>3. CASE ~IsTerminal(m.taker)
      <4>1. m.taker \in Everything(next)
        BY <1>1, <1>2, <3>3
      <4> QED BY <1>5, <3>1, <4>1, RemainingIs
    <3> QED BY <3>2, <3>3
  <2>4. /\ FilledIn(g, N) = FilledIn(h, N) + TradedIn(m.fills, N)
        /\ FilledIn(h, N) = 0 /\ TradedIn(m.fills, N) \in Nat
    BY <1>7, <2>1
  <2> QED BY <1>3, <1>5, <2>2, <2>3, <2>4
<1> QED BY <1>3, <1>12, <1>13 DEF QuantitiesKept

LEMMA NewEngineIs ==
    /\ EngineOK(NewEngine, 1) /\ Everything(NewEngine) = {}
    /\ \A x \in Sides : RestingOrders(NewEngine[x]) = {}
<1>1. /\ RestingOrders(EmptyBookSide) = {}
      /\ \A x \in Sides : NewEngine[x] = EmptyBookSide
      /\ NewEngine = [x \in Sides |-> NewEngine[x]]
  BY DEF RestingOrders, EmptyBookSide, NewEngine
<1>2. ASSUME NEW x \in Sides PROVE IsBook(EmptyBookSide, x)
  <2>1. EmptyBookSide \in [Prices -> Seq(RestingSet(x))]
    BY DEF EmptyBookSide
  <2>2. \A p \in Prices : IsQueue(EmptyBookSide[p], p, x)
    BY DEF EmptyBookSide, IsQueue
  <2> QED BY <1>1, <2>1, <2>2 DEF IsBook
<1>3. \A x \in Sides : RestingOrders(NewEngine[x]) = {} /\ IsBook(NewEngine[x], x)
  BY <1>1, <1>2
<1>4. "Bid" \in Sides /\ "Ask" \in Sides
  BY DEF Sides
<1> QED BY <1>1, <1>3, <1>4 DEF EngineOK, Everything

\* The invariant: the book and the history agree, and the three properties.
EngineInv ==
    /\ HistoryOK(history, engine)
    /\ QuantitiesKept(history, engine)
    /\ PriorityKept(history, engine)
    /\ Uncrossed(engine)

LEMMA EngineInvHolds == EngineSpec => []EngineInv
<1>1. EngineInit => EngineInv
  <2> SUFFICES ASSUME EngineInit PROVE EngineInv
    OBVIOUS
  <2>1. engine = NewEngine /\ history = <<>>
    BY DEF EngineInit
  <2>2. /\ Len(history) = 0 /\ DOMAIN history = {} /\ history \in Seq(Entry)
        /\ Len(history) + 1 = 1
    BY <2>1
  <2>3. /\ EngineOK(engine, 1) /\ Everything(engine) = {}
        /\ RestingOrders(engine["Bid"]) = {}
    BY <2>1, NewEngineIs DEF Sides
  <2> QED BY <2>2, <2>3 DEF EngineInv, HistoryOK, QuantitiesKept, PriorityKept, Uncrossed
<1>2. EngineInv /\ [EngineNext]_engineVars => EngineInv'
  <2> SUFFICES ASSUME EngineInv, [EngineNext]_engineVars
               PROVE  /\ HistoryOK(history', engine')
                      /\ QuantitiesKept(history', engine')
                      /\ PriorityKept(history', engine')
                      /\ Uncrossed(engine')
    BY DEF EngineInv
  <2>1. CASE UNCHANGED engineVars
    BY <2>1 DEF EngineInv, engineVars
  <2>2. CASE EngineNext
    <3>1. Placed(history, engine, history', engine')
      BY <2>2 DEF EngineNext, PlaceInBook, Placed
    <3>2. PICK order, m : PlacedAs(history, engine, history', engine', order, m)
      BY <3>1, PlacedFacts DEF EngineInv
    <3>3. HistoryOK(history', engine')
      BY <3>2, PlacedHistoryOK DEF EngineInv
    <3>4. QuantitiesKept(history', engine')
      BY <3>2, PlacedQuantities DEF EngineInv
    <3>5. PriorityKept(history', engine')
      BY <3>2, PlacedPriority DEF EngineInv
    <3>6. Uncrossed(engine')
      BY <3>2, PlacementUncrossed DEF EngineInv, PlacedAs
    <3> QED BY <3>3, <3>4, <3>5, <3>6
  <2> QED BY <2>1, <2>2
<1> QED BY <1>1, <1>2, PTL DEF EngineSpec

\* The loops of match_bid and match_ask run until the book no longer crosses.
THEOREM BookNotCrossedHolds == EngineSpec => []BookNotCrossed
<1>1. EngineInv => BookNotCrossed
  BY DEF EngineInv, Uncrossed, BookNotCrossed
<1> QED BY <1>1, EngineInvHolds, PTL

\* What an order traded, as taker and as maker, plus what rests in the book is
\* what was ordered.
THEOREM QuantityConservedHolds == EngineSpec => []QuantityConserved
<1>1. EngineInv => QuantityConserved
  <2> SUFFICES ASSUME EngineInv, NEW id \in OrderIds
               PROVE  FilledQuantity(id) + RemainingOf(id) = OrderOf(id).quantity
    BY DEF QuantityConserved
  <2>1. id \in DOMAIN history
    BY DEF OrderIds, EngineInv, HistoryOK
  <2>2. FilledQuantity(id) = FilledIn(history, id)
    BY DEF FilledQuantity, FilledIn, OrderIds
  <2>3. RemainingOf(id) = RemainingIn(Everything(engine), id)
    BY DEF RemainingOf, RemainingIn, Everything, Resting
  <2> QED BY <2>1, <2>2, <2>3 DEF EngineInv, QuantitiesKept, OrderOf
<1> QED BY <1>1, EngineInvHolds, PTL

\* When a maker trades, no order that had priority over it is left behind.
THEOREM PriceTimePriorityHolds == EngineSpec => []PriceTimePriority
<1>1. EngineInv => PriceTimePriority
  <2> SUFFICES ASSUME EngineInv, NEW x \in FillIndexes, NEW r \in Resting
               PROVE  LET maker == OrderOf(FillAt(x).maker)
                      IN  (r.side = maker.side /\ r.id < x[1] /\ r.id # maker.id)
                              => ~HasPriority(maker.side, r, maker)
    BY DEF PriceTimePriority
  <2>1. PICK n \in OrderIds : x \in {n} \X DOMAIN history[n].fills
    BY DEF FillIndexes
  <2>2. /\ x[1] = n /\ x[2] \in DOMAIN history[n].fills /\ n \in DOMAIN history
    BY <2>1 DEF OrderIds, EngineInv, HistoryOK
  <2>3. r \in Everything(engine)
    BY DEF Everything, Resting
  <2> QED BY <2>2, <2>3 DEF EngineInv, PriorityKept, FillAt, OrderOf
<1> QED BY <1>1, EngineInvHolds, PTL

-----------------------------------------------------------------------------
(* The application keeps every resting order funded.                        *)

Backed(a) ==
    /\ EngineOK(a.engine, Len(a.events) + 1)
    /\ \A x \in Accounts : HeldFor(Everything(a.engine), x) <= a.reserved[x]

\* Bids are funded in the quote asset, asks in the base asset.
AssetOf(side) == IF side = "Bid" THEN QuoteAsset ELSE BaseAsset

LEMMA AccountOfSide ==
    /\ \A o : ReservationAccount(o) = <<o.trader, AssetOf(o.side)>>
    /\ \A s \in Sides : AssetOf(s) # AssetOf(Opposite(s))
    /\ \A s \in Sides : \A x \in Accounts : x[2] = AssetOf(s) \/ x[2] = AssetOf(Opposite(s))
<1>1. \A o : ReservationAccount(o) = <<o.trader, AssetOf(o.side)>>
  BY DEF ReservationAccount, AssetOf
<1>2. \A s \in Sides : AssetOf(s) # AssetOf(Opposite(s))
  BY AssetsAssumption DEF AssetOf, Opposite, Sides
<1>3. \A x \in Accounts : x[2] \in {BaseAsset, QuoteAsset}
  BY DEF Accounts, Assets
<1>4. \A s \in Sides : \A x \in Accounts : x[2] = AssetOf(s) \/ x[2] = AssetOf(Opposite(s))
  BY <1>3 DEF AssetOf, Opposite, Sides
<1> QED BY <1>1, <1>2, <1>4

LEMMA HeldOnSide ==
    ASSUME NEW n, NEW e, EngineOK(e, n), NEW s \in Sides, NEW x \in Accounts,
           x[2] = AssetOf(s)
    PROVE  HeldFor(Everything(e), x) = HeldFor(RestingOrders(e[s]), x)
<1> DEFINE opp == Opposite(s)
<1>1. /\ opp \in Sides
      /\ Everything(e) = RestingOrders(e[s]) \cup RestingOrders(e[opp])
  BY SideFacts
<1>2. IsBook(e[opp], opp)
  BY <1>1 DEF EngineOK
<1>3. \A r \in RestingOrders(e[opp]) : ReservationAccount(r) # x
  <2> SUFFICES ASSUME NEW r \in RestingOrders(e[opp]), ReservationAccount(r) = x
               PROVE  FALSE
    OBVIOUS
  <2>1. r.side = opp
    BY <1>2, RestingIs DEF RestingSet
  <2>2. x = <<r.trader, AssetOf(opp)>>
    BY <2>1, AccountOfSide
  <2>3. x[2] = AssetOf(opp)
    BY <2>2
  <2> QED BY <2>3, AccountOfSide
<1> HIDE DEF opp
<1>4. {r \in Everything(e) : ReservationAccount(r) = x}
        = {r \in RestingOrders(e[s]) : ReservationAccount(r) = x}
  BY <1>1, <1>3
<1> QED BY <1>4, HeldCongruent

\* A placement asks at most the reservation of its order, of its account only.
LEMMA PlacementHeld ==
    ASSUME NEW n \in Nat, NEW e, EngineOK(e, n), NEW order, NEW m, NEW next,
           Placement(e, order, m, next), EngineOK(next, n + 1), order.id = n,
           order.remaining = order.quantity, NEW x \in Accounts
    PROVE  /\ HeldFor(Everything(next), x) \in Int /\ HeldFor(Everything(e), x) \in Int
           /\ HeldFor(Everything(next), x)
                <= HeldFor(Everything(e), x)
                     + (IF ReservationAccount(order) = x THEN ReservationAmount(order) ELSE 0)
<1> DEFINE s == order.side
           opp == Opposite(s)
           Own == RestingOrders(e[s])
           Old == RestingOrders(e[opp])
           New == RestingOrders(m.makers)
<1>1. /\ s \in Sides /\ SameOrder(m.taker, order) /\ m.taker \in TakerSet(s)
      /\ LoopHeld(m, e[opp]) /\ IsBook(m.makers, opp) /\ order \in TakerSet(s)
      /\ RestingOrders(next[opp]) = New
      /\ RestingOrders(next[s]) = Own \cup (IF IsTerminal(m.taker) THEN {} ELSE {m.taker})
      /\ ~IsTerminal(m.taker) => m.taker \in RestingSet(s)
  BY DEF Placement, Incoming, LoopOrders, LoopType
<1>2. /\ opp \in Sides /\ IsBook(e[s], s) /\ IsBook(e[opp], opp)
      /\ \A r \in Own : r.id < n /\ r.id \in Nat
  <2>1. opp \in Sides
    BY <1>1, SideFacts
  <2>2. IsBook(e[s], s) /\ IsBook(e[opp], opp) /\ \A r \in Own : r.id < n
    BY <1>1, <2>1 DEF EngineOK
  <2>3. \A r \in Own : r.id \in Nat
    BY <2>2, RestingIs DEF RestingSet
  <2> QED BY <2>1, <2>2, <2>3
<1>4. /\ IsFiniteSet(Own) /\ Own \subseteq RestingSet(s)
      /\ IsFiniteSet(Old) /\ Old \subseteq RestingSet(opp)
      /\ IsFiniteSet(New) /\ New \subseteq RestingSet(opp)
  BY <1>1, <1>2, RestingFinite
<1>5. ASSUME NEW R, NEW y, IsFiniteSet(R), R \subseteq RestingSet(y)
      PROVE  HeldFor(R, x) \in Nat
  <2> DEFINE D == {r \in R : ReservationAccount(r) = x}
             f == [o \in D |-> Backing(o)]
  <2>1. \A o \in D : Backing(o) \in Nat
    BY <1>5, BackingIsNat
  <2>2. IsFiniteSet(D) /\ \A o \in D : f[o] \in Nat
    BY <1>5, <2>1, FS_Subset
  <2>3. HeldFor(R, x) = SumFunctionOnSet(f, D)
    BY DEF HeldFor, SumFunction
  <2> HIDE DEF f, D
  <2> QED BY <2>2, <2>3, SumIsNat
<1>6. /\ HeldFor(Own, x) \in Nat /\ HeldFor(Old, x) \in Nat /\ HeldFor(New, x) \in Nat
  BY <1>4, <1>5
<1>7. ReservationAmount(order) \in Nat
  <2>1. order.price \in Nat /\ order.quantity \in Nat
    BY <1>1, PricesAssumption, QuantitiesAssumption DEF TakerSet
  <2>2. order.price * order.quantity \in Nat
    BY <2>1
  <2> QED BY <2>1, <2>2 DEF ReservationAmount
<1> HIDE DEF Own, Old, New, opp
<1>8. CASE x[2] = AssetOf(s)
  <2>1. HeldFor(Everything(e), x) = HeldFor(Own, x)
    <3>1. HeldFor(Everything(e), x) = HeldFor(RestingOrders(e[s]), x)
      BY <1>1, <1>8, HeldOnSide
    <3> QED BY <3>1 DEF Own
  <2>4. HeldFor(Everything(next), x) = HeldFor(RestingOrders(next[s]), x)
    <3>1. EngineOK(next, n + 1)
      OBVIOUS
    <3> DEFINE later == n + 1
    <3> HIDE DEF later
    <3>2. EngineOK(next, later)
      BY <3>1 DEF later
    <3> QED BY <1>1, <1>8, <3>2, HeldOnSide
  <2>2. CASE IsTerminal(m.taker)
    <3>1. RestingOrders(next[s]) = Own
      BY <1>1, <2>2
    <3> QED BY <1>6, <1>7, <2>1, <2>4, <3>1
  <2>3. CASE ~IsTerminal(m.taker)
    <3> DEFINE taker == m.taker
               Part == IF ReservationAccount(taker) = x THEN Backing(taker) ELSE 0
    <3>1. RestingOrders(next[s]) = Own \cup {taker} /\ taker \in RestingSet(s)
      BY <1>1, <2>3
    <3>2. taker \notin Own
      BY <1>1, <1>2 DEF SameOrder, Own
    <3>3. HeldFor(Own \cup {taker}, x) = HeldFor(Own, x) + Part
      BY <1>4, <3>1, <3>2, HeldAdd
    <3>4. Backing(taker) \in Nat
      BY <3>1, BackingIsNat
    <3>5. ReservationAccount(taker) = ReservationAccount(order)
      BY <1>1 DEF SameOrder, ReservationAccount
    <3>6. Backing(taker) <= ReservationAmount(order)
      <4>1. /\ taker.remaining \in Nat /\ taker.remaining <= order.quantity
            /\ order.quantity \in Nat /\ taker.price = order.price /\ order.price \in Nat
            /\ taker.side = order.side
        BY <1>1, <3>1, PricesAssumption, QuantitiesAssumption
           DEF SameOrder, RestingSet, TakerSet
      <4>2. \A u, v, w \in Nat : u <= v => w * u <= w * v
        OBVIOUS
      <4>3. order.price * taker.remaining <= order.price * order.quantity
        BY <4>1, <4>2
      <4> QED BY <4>1, <4>3 DEF Backing, ReservationAmount
    <3> HIDE DEF taker
    <3> QED BY <1>6, <1>7, <2>1, <2>4, <3>1, <3>3, <3>4, <3>5, <3>6
  <2> QED BY <2>2, <2>3
<1>9. CASE x[2] = AssetOf(opp)
  <2>1. /\ HeldFor(Everything(e), x) = HeldFor(Old, x)
        /\ HeldFor(Everything(next), x) = HeldFor(New, x)
    BY <1>1, <1>2, <1>9, HeldOnSide DEF Old
  <2>2. HeldFor(New, x) <= HeldFor(Old, x)
    BY <1>1 DEF LoopHeld, New, Old
  <2> QED BY <1>6, <1>7, <2>1, <2>2
<1> QED BY <1>1, <1>8, <1>9, AccountOfSide DEF opp

LEMMA BackedAccepted ==
    ASSUME NEW a, AppType(a), Backed(a), NEW b, AppType(b), Accepted(a, b)
    PROVE  Backed(b)
<1>1. /\ Len(a.events) \in Nat /\ Len(b.events) = Len(a.events) + 1
  <2>1. PICK event : b.events = Append(a.events, event)
    BY DEF Accepted, Recorded
  <2>3. a.events \in Seq({a.events[i] : i \in DOMAIN a.events})
    BY DEF AppType, IsEventLog
  <2>2. GrownBy(a.events, event, b.events)
    BY <2>1, <2>3, LogGrows
  <2> QED BY <2>2 DEF GrownBy
<1>2. \A x \in Accounts : a.reserved[x] \in Int
  BY MaxAmountAssumption DEF AppType, Amounts
<1>3. ASSUME NEW cmd, NEW account \in Accounts, NEW amount \in Nat,
             Credited(a, b, cmd, account, amount)
      PROVE  Backed(b)
  <2>1. b.engine = a.engine /\ b.reserved = a.reserved
    BY <1>3 DEF Credited
  <2>2. EngineOK(a.engine, Len(b.events) + 1)
    <3>1. \A x \in Sides : \A r \in RestingOrders(a.engine[x]) : r.id < Len(b.events) + 1
      <4> SUFFICES ASSUME NEW x \in Sides, NEW r \in RestingOrders(a.engine[x])
                   PROVE  r.id < Len(b.events) + 1
        OBVIOUS
      <4>1. IsBook(a.engine[x], x) /\ r.id < Len(a.events) + 1
        BY DEF Backed, EngineOK
      <4>2. r.id \in Nat
        BY <4>1, RestingIs DEF RestingSet
      <4> QED BY <1>1, <4>1, <4>2
    <3> QED BY <3>1 DEF Backed, EngineOK
  <2> QED BY <2>1, <2>2 DEF Backed
<1>4. ASSUME NEW cmd, NEW t \in Traders, NEW s \in Sides, NEW p \in Prices,
             NEW q \in Quantities,
             Taken(a, b, cmd, NewOrder(Len(a.events) + 1, t, s, p, q))
      PROVE  Backed(b)
  <2> DEFINE n == Len(a.events) + 1
             order == NewOrder(n, t, s, p, q)
             account == ReservationAccount(order)
             amount == ReservationAmount(order)
             e == a.engine
             next == b.engine
  <2>1. n \in Nat /\ EngineOK(e, n) /\ Len(b.events) + 1 = n + 1
    BY <1>1 DEF Backed
  <2>2. amount \in Nat /\ account \in Accounts
    BY OrderAmounts
  <2>3. order.id = n /\ order.remaining = order.quantity
    BY DEF NewOrder
  <2>4. /\ next = PlaceInEngine(e, order).engine
        /\ b.reserved = [a.reserved EXCEPT ![account] = @ + amount]
    BY <1>4 DEF Taken
  <2> HIDE DEF n, e, next, account, amount
  <2>5. PICK m : Placement(e, order, m, next) /\ EngineOK(next, n + 1)
    <3>1. \E m : /\ Placement(e, order, m, PlaceInEngine(e, order).engine)
                 /\ EngineOK(PlaceInEngine(e, order).engine, n + 1)
      BY <2>1, PlaceIs
    <3> QED BY <2>4, <3>1
  <2> HIDE DEF order
  <2>6. ASSUME NEW x \in Accounts
        PROVE  HeldFor(Everything(next), x) <= b.reserved[x]
    <3>1. /\ HeldFor(Everything(next), x) \in Int /\ HeldFor(Everything(e), x) \in Int
          /\ HeldFor(Everything(next), x)
               <= HeldFor(Everything(e), x) + (IF account = x THEN amount ELSE 0)
      BY <2>1, <2>3, <2>5, PlacementHeld DEF account, amount
    <3>2. HeldFor(Everything(e), x) <= a.reserved[x]
      BY DEF Backed, e
    <3>3. b.reserved[x] = a.reserved[x] + (IF account = x THEN amount ELSE 0)
      BY <1>2, <2>4 DEF AppType
    <3> QED BY <1>2, <2>2, <3>1, <3>2, <3>3
  <2> QED BY <2>1, <2>5, <2>6 DEF Backed, next
<1> QED BY <1>3, <1>4 DEF Accepted

LEMMA BackedNewApp == Backed(NewApp)
<1>1. NewApp.engine = NewEngine /\ NewApp.events = <<>>
  BY DEF NewApp
<1>2. EngineOK(NewApp.engine, Len(NewApp.events) + 1)
  BY <1>1, NewEngineIs
<1>3. ASSUME NEW x \in Accounts
      PROVE  HeldFor(Everything(NewApp.engine), x) <= NewApp.reserved[x]
  <2>1. {r \in Everything(NewApp.engine) : ReservationAccount(r) = x} = {}
    BY <1>1, NewEngineIs
  <2>2. NewApp.reserved[x] = 0
    BY DEF NewApp
  <2>3. HeldFor(Everything(NewApp.engine), x) = 0
    BY <2>1, SumEmpty DEF HeldFor, SumFunction
  <2> QED BY <2>2, <2>3
<1> QED BY <1>2, <1>3 DEF Backed

\* No resting order is left without the funds that answer for it: what the book
\* could still ask of an account never exceeds what the account has reserved,
\* because a placement adds at most its own reservation to what rests.
THEOREM RestingOrdersBackedHolds == Spec => []RestingOrdersBacked
<1>1. Init => Backed(app)
  BY BackedNewApp DEF Init
<1>2. AppType(app) /\ AppType(app)' /\ Backed(app) /\ [Next]_vars => Backed(app)'
  <2> SUFFICES ASSUME AppType(app), AppType(app'), Backed(app), [Next]_vars
               PROVE  Backed(app')
    OBVIOUS
  <2>1. app' = app \/ Accepted(app, app')
    BY ExchangeSteps
  <2>2. CASE app' = app
    BY <2>2
  <2>3. CASE Accepted(app, app')
    BY <2>3, BackedAccepted
  <2> QED BY <2>1, <2>2, <2>3
<1>3. Backed(app) => RestingOrdersBacked
  <2> SUFFICES ASSUME Backed(app), NEW x \in Accounts
               PROVE  BackingNeeded(app, x) <= app.reserved[x]
    BY DEF RestingOrdersBacked
  <2>1. BackingNeeded(app, x) = HeldFor(Everything(app.engine), x)
    BY DEF BackingNeeded, HeldFor, Everything
  <2> QED BY <2>1 DEF Backed
<1> QED BY <1>1, <1>2, <1>3, AppTypeHolds, PTL DEF Spec
=============================================================================
