# A verification project for solana-lab

The repository is a series of Solana labs. Lab 13, the spot exchange
(`13-solana-spot-exchange-lab`), is its largest program and the only one with
concurrency, persistence and retries. Labs 02 to 12 are on-chain programs of
one transaction at a time. All four programs of lab 12 are modelled, and with
them labs 06, 07, 08 and 11, whose code is the same line by line; so are the
PDA vault (02) and the reference models of lab 10.
Paths below are relative to lab 13 unless they say otherwise.

## 1. Inventory

| Part | State | Operations | Talks to |
|---|---|---|---|
| Order book, matching engine (`crates/domain`) | two maps from price to a queue of orders | `place_order` | called by the application |
| Balances, reservations (`crates/domain`) | available and reserved amount per trader and asset | `credit_available`, `reserve` | called by the application |
| Exchange application (`crates/application`) | balances, engine, event log, seen command ids | derive an event, apply an event, replay | called by the actor |
| Market actor (`crates/runtime`) | mailbox, the application, counters | credit deposit, place order, snapshot, shutdown | journal; callers through channels |
| Event journal (`crates/persistence`) | `event_journal`, one row per command id | append, read all | Postgres |
| Settlement edge (`services/exchange-service`) | signed orders, next settlement id (both in memory) | register signed order, queue settlement requests | actor, outbox |
| Settlement outbox (`crates/persistence`) | `settlement_outbox`: request, status, attempts | enqueue, claim, keep pending, mark submitted, mark failed | edge, worker |
| Relayer (`crates/relayer`, worker task in the service) | items in hand | blockhash, sign, send, confirm, retry | RPC node, outbox |
| spot-settlement program (`programs/spot-settlement`) | config, trader balances, vaults, receipts, fill states | initialize, deposit, withdraw, settle, settle signed, cancel | token program |
| Settlement client (`crates/settlement_client`) | none | build the settlement transaction | relayer, program |
| Signed orders (`crates/domain/src/signed_order.rs`) | none | `validate_signed_fill`, hashes and signed messages | nothing: the service stores and compares `SignedOrderPayload`s |

A request takes this way: HTTP handler -> actor mailbox -> derive an event ->
append it to the journal -> apply it -> reply -> (orders with fills) allocate
settlement ids, bridge the fills to signed requests, insert them into the
outbox -> worker claims, submits, confirms, records -> the program moves the
balances and writes a receipt.

What is hard here, and which property is about it:

* steps with an await between them: an event is derived, journalled and applied
  in three steps (`MemoryFollowsJournal`, `ImplementsCommandLog`,
  `ReplayRebuildsState`);
* an order journalled on top of an event that memory never saw need not come out
  the same at the next boot (`OrdersReplayUnlessAppendLost`);
* an append that commits and still returns an error, a crash after a commit,
  a retry of either (`AckedIsJournalled`, `AckedOnce`, `JournalAppendOnly`,
  `SnapshotSeesAcknowledged`);
* a full mailbox and a stopped actor (`CallsEnd`);
* partial fills, reinsertion, price levels (`PriceTimePriority`,
  `QuantityConserved`, `BookNotCrossed`, `RestingOrdersBacked`);
* uncertain confirmations, lost answers, late transactions, ids that restart
  at zero, batches inserted row by row (`FillSettlesOnce`,
  `SubmittedHasSettled`, `IdsCollideOnlyAcrossRestarts`,
  `OutboxHoldsPrefixOfBatch`, `RowsConclude`);
* cumulative partial settlements, cancellations and expiries racing them, u64
  limits (`NeverOverfilled`, `FilledIsSumOfReceipts`, `CancelIsFinal`,
  `ReceiptsAreForever`, `VaultBacksBalances`);
* signed orders replaced, expired, cancelled or left without funds between the
  match and the settlement, order ids used twice, and a service that forgets
  payloads and ids at a restart (`ChainWithinBook`, `GoodRequestsNeedOnlyFunds`);
* a rule for a fill that is written twice, in the domain crate and in the
  program (`DomainRuleAgrees`).

`PROJECT.json` lists every hazard at its line, with what the properties leave
open of it.

The other programs do not call each other; each keeps a few accounts (those of
lab 12 are in `12-token-2022-stablecoin-protocol/programs`):

| Program | State | Operations | Hard part |
|---|---|---|---|
| `stablecoin_issuer` (06, 12) | cap, supply statistics, per issuer a limit and what it has outstanding | initialize, create mint, register, pause, rotate, mint, burn | rotation copies an issuer's share; any issuer burns from any account; owners burn unseen (`SupplyAccounted`, `TokensCovered`, `RetiredNeverIssues`, `ImplementsReference`) |
| `stablecoin_redemption` (08, 12) | requests, vault counters, admin log, admin and pending admin | request, cancel, complete, reject, pause, begin and accept a transfer of the role | three kinds of decision race on one request; the role changes hands between them (`VaultMatchesRequests`, `LogTellsDecisions`, `LogTellsAdmins`, `RedemptionImplementsReference`) |
| `stablecoin_compliance_hook` (07, 12) | limits, profiles with a day and a sum | initialize, meta list, set profile, set limits, pause, execute | a day's sum across midnight and across rewritten profiles, and calls by anyone when nothing is transferred (`TodayCountsCalls`, `DailyLimitHeld`) |
| `stablecoin_bridge_receiver` and `MockBridgeReceiver.sol` (11, 12) | config, one account per consumed message; a map of consumed ids | initialize, consume; deploy, consume | a message delivered again, to the other chain, or under another amount (`OncePerMessage`) |
| `vault_authority` (02) | limit and total per vault, lamports | initialize, set limit, deposit, withdraw, close | lamports that move past the record (`DepositsClaimable`) |
| reference models (10) | supply and cap; a request; admin and nominee | pure transitions | what the programs above implement |

Without a model: reward token (03), Token-2022 factory (04), CPI counter (05),
scripts (09), see section 6.

## 2. Modules

| Module | Models | Kind |
|---|---|---|
| `OrderBook` | `OrderBookSide`, `Order` | operators |
| `Matching` | `MatchingEngine::place_order` | operators |
| `MatchingEngine` | the engine driven by any orders, with its history | state machine |
| `ExchangeApp` | `ExchangeApplication`, `BalanceSheet`, `Reservation` | operators |
| `Exchange` | the application driven by any commands | state machine |
| `CommandLog` | what the actor promises: a durable log, each command at most once, acknowledgements only of what is logged | abstract specification |
| `MarketActor` | callers, mailbox, actor, journal, boot, crash | state machine |
| `SettlementRelay` | handlers, outbox, worker, RPC node, restart | state machine |
| `SpotSettlement` | the on-chain program | state machine |
| `Venue` | book, signed-order store, bridge, outbox and chain composed: `Matching` and `SpotSettlement` in one state space | state machine |
| `StablecoinIssuer` | the issuer, with Token-2022 as an external ledger | state machine |
| `StablecoinRedemption` | the redemption program | state machine |
| `ComplianceHook` | the transfer hook, for one mint, called by Token-2022 or by anyone | state machine |
| `BridgeReceiver` | both receivers of mint messages, under any delivery | state machine |
| `VaultAuthority` | the vault, with lamports sent past it | state machine |
| `IssuanceModel` | lab 10's `IssuanceModel` | abstract specification |
| `RedemptionModel` | lab 10's `RedemptionModel`, one per request, and `AdminTransferModel` | abstract specification |
| `Stablecoin` | issuer and redemption program on one cluster | composition |
| `Programs` | hook, bridge receivers and vault on one cluster | composition |
| `Sums` | lemmas on sums over finite sets | lemmas |
| `*Proofs` | theorems on `Exchange` and `MatchingEngine` (`ExchangeProofs`), `MarketActor`, `SettlementRelay`, `SpotSettlement`, `Venue`, `Stablecoin` and `Programs` | proofs |
| `MC*` | values of the constants for TLC | |

`OrderBook` < `Matching` < `ExchangeApp` < `MarketActor`: the actor runs the
whole application, matching included, not a stand-in. `Venue` uses `Matching` and
an instance of `SpotSettlement`. What it leaves to the other modules: the crash
of the actor (`MarketActor`) and the worker's steps (`SettlementRelay`); a row of
the outbox may be submitted at any time, any number of times, or never.

Three abstract specifications are refined. `MarketActor` implements
`CommandLog`; the log is the journal. `StablecoinIssuer` implements
`IssuanceModel`: its totals stand for the model's one issuer.
`StablecoinRedemption` implements `RedemptionModel`: each request is one of its
models, and the config's admin and pending admin are its role.

`Stablecoin` composes two programs and `Programs` three. They share no account,
so an instruction of one leaves the state of the others alone, and no step of
one enables or disables one of another. The theorems are about the composition;
for TLC, `MCStablecoin` and `MCPrograms` let the initial state pick the program
that runs (`which`), and the others rest at their initial states.

Correspondence, where it is not a matter of names:

* A map without an entry is a function with the default value: no price level
  is `<<>>`, no balance is 0, no receipt account is `NoReceipt`.
* An order carries id, trader, side, price, quantity, remaining. Its status is
  left out: in the engine an order is filled exactly when nothing remains, and
  nothing on these paths cancels one.
* The `while` loop of `match_bid` and `match_ask` is a recursive function of
  the number of rounds; each round but the last removes a maker, so as many
  rounds as there are resting orders reach the exit.
* A function that returns `Result` returns a record with `err`.
* An on-chain transaction is atomic, so every check of a handler is a guard of
  its action, including the checks after the first assignment. In `SpotSettlement`
  an order stands for its own hash: the ed25519 and sha256 checks let nothing else
  through, and `Venue` has these checks.
  `DistinctAccounts` is Anchor's refusal (1.0) of one writable account passed
  twice. Token accounts move as the token program moves them, without fees.
* In `SettlementRelay` the chain is reduced to what the relayer can see of it:
  a transaction writes the receipt of its settlement id or is refused, for that
  receipt or for a reason of its own. `strays` are transactions in flight that
  the worker no longer polls; several of one row act like one, because the
  first to land makes the others fail.
* In `Venue` the handler of an order is a process of its own (`handlers`): it
  allocates ids, takes the lock once for each signed order it reads, and inserts
  row by row. A payload has what `register_signed_order` stores: a trader id
  beside the order's key, the order's u64 fields (zero and the nonce included),
  a hash that need not be the order's, and whether its signature verifies.
  Registration checks none of it, and the bridge compares only ids, sides, prices
  and quantities with the fill. `SignaturesVerify` compares the
  hashes and then finds the two signatures by their distance from the program's
  own instruction in the transaction.
* `ValidateSignedFill` is `validate_signed_fill` of
  `crates/domain/src/signed_order.rs`, over trader ids; its types hold no zero,
  and nothing outside its tests calls it. `SignedFillAllowed` is the program's
  rule, over keys; `WellFormed` is what the program asks of the fields of a
  payload.
* In `ComplianceHook`, `Execute` is what `execute_transfer_hook` does to a
  profile. `Transfer` is Token-2022 calling it, `CallDirectly` anyone else: the
  handler looks neither at its caller nor at the `transferring` flag.
* In the stablecoin modules accounts that are created together and name each
  other for ever are one record (an issuer's config and statistics; the protocol
  and its mint). Request and log ids are places in a sequence: the program
  derives each account's address from a counter it then raises by one. A
  failing instruction changes nothing, so it is a disabled action.
* `burnedByRetired`, `sent`, `called` and the `log` of
  `BridgeReceiver` are history variables: no guard reads them but for the bounds.
* Mutants (`LoseMaker`, `SpawnEarly`, ...) are variants of the
  definition after them with a plausible bug. No specification uses them; each
  shows that the property named in `PROJECT.json` would see that bug.

## 3. Runs

| Run | Bounds | Shows |
|---|---|---|
| `matching` | 5 orders, 3 prices, quantities 1 and 2 | three price levels, two makers at one price, partial fills of maker and taker, a taker walking levels |
| `exchange` | 5 events, 2 traders, amounts up to 4 | deposits that overflow, orders that cannot be reserved, a bid whose cost exceeds the width, fills at a better price, repeated command ids |
| `actor` | 6 calls (one a retry), capacity 2, 1 crash, 1 failing append | every interleaving of callers, actor, failing append and crash, with a crossing pair of orders |
| `actor_live` | 5 calls with shutdown, capacity 1 | senders blocked on a full mailbox when the actor stops or the process dies |
| `actor_replay` | 4 calls, 1 crash | expected violation, finding 1 |
| `settlement` | 3 orders, 3 ids, amounts up to 4, slots 0 to 2 | a bid filled in parts by two asks with different limits and expiries |
| `relay` | 2 placements (1 and 2 fills), 1 crash, 1 failing statement, 2 claims per row | id collisions between runs, resubmission of settled rows, late transactions |
| `relay_live` | 1 placement with 2 fills, claims of one row (`BatchLimit = 1`), 2 submits in each of 2 claims | retries inside a claim and across claims end, and an older row that stays pending does not keep a younger one waiting |
| `relay_failed` | as `relay_live`, with a replaced signed order | expected violation, finding 2 |
| `venue` | 3 placements of 2 orders, 1 cancellation, slots 1 and 2; payloads good, short or dear on the side opposite to the one placed, unsigned, with another order's hash, with nonce 0, and with another trader's key | an order id placed twice, payloads replaced between the reads of one batch, every resubmission, withdrawal, cancellation and expiry between match and settlement |
| `stablecoin` | issuer: 3 keys, 2 token accounts, cap 3, limits 0, 1 and 3, totals up to 4; redemption: 3 keys, 2 requests of 0, 2 or 3, 5 log entries, totals up to 4 | limits that add up to more than the cap, rotation of a rotated key, retired keys unpaused again; a nomination redirected, a role that returns, a second request that overflows |
| `programs` | hook: 2 accounts, 3 days, daily limits 0, 1 and 3; bridge: 2 keys, 2 mints, 2 chains, 3 messages consumed; vault: 2 users, 5 lamports each | limits lowered below what was sent, profiles rewritten in mid-day, direct calls between transfers; one nonce for two mints, amounts and chains; a closed vault opened again on donated lamports |

Why the bounds are enough: a time-priority error needs two makers at a price
and a third order that tells them apart; every durable-step hazard needs one
crash or one failing append between two steps of one command and a second call
with the same id; a settlement hazard needs one resubmission and one other row
with the same id; a stale payload needs one replacement and an order id used
twice. An issuer's share is misplaced by one rotation and shows at
the next mint or burn; a request has three final states and the role of admin
needs three changes to return; a day's sum needs one midnight and one rewrite;
a row can be starved by one other when a claim takes one. Five orders, six calls and three rows hold
these with room for a bystander. `MaxAmount` is small so that the boundaries of u64 are met;
nothing else depends on the width. In `relay` the inner retry is off
(`MaxSubmits = 1`) and the retry across claims does its work; `relay_live` has
both. Deadlock is not checked: the bounds end every behaviour, and the system
may rest when nobody calls.

Fairness. `MarketActor`: weak fairness of replay, spawn, each caller's send,
the actor's receive, the database's answer and the apply; the tokio runtime
polls a task that can go on, and sqlx returns an answer or an error. Calls,
boots, crashes and failures owe nothing. `SettlementRelay`: weak fairness of
the worker as a whole; which answer the RPC node gives, and what becomes of a
transaction, is never assumed. Liveness holds for finitely many crashes and
database errors (`MaxCrashes`, `MaxDbFailures`, `MaxAppendFailures`): with a
database that fails for ever, nothing is recorded.

## 4. Findings

1. `ReplayNeverFails` is violated. `credit_deposit_event`
   (`crates/application/src/lib.rs:84`) checks only for a duplicate. A deposit
   that overflows the balance is journalled, its apply fails, the actor stops,
   and `replay(market, events)?` fails at every boot after that. With u64
   amounts it takes deposits that sum to more than 2^64 - 1 of one asset for one
   trader, which nothing on the HTTP side rules out.
2. `FailedHasNotSettled` is violated. A lost answer of `send_transaction` is a
   `Rejected`, and so is a retry that meets its own receipt; the row ends as
   `failed` although the fill settled. `FillSettlesOnce` still holds: funds do
   not move twice.

Two gaps are visible in the model and contradict no statement of the code: a
crash between the reply to an order and its outbox rows loses the settlement of
its fills, and a restart forgets the signed orders and the id counter, so new
rows reuse settled ids and fail. `ChainWithinBook` says what remains true of the
chain in both cases. A third is the premise of `GoodRequestsNeedOnlyFunds`: a
payload with a zero, a wrong hash or a signature that does not verify is
registered, bridged and submitted, and always refused. A fourth is the exception
in `OrdersReplayUnlessAppendLost`: after an append that committed and was reported
as failed, an order may be journalled that no replay accepts
(`ReplayMismatch`, or funds another order has reserved), and the next boot fails on
it.

## 5. Proofs

Every theorem is proved for all values of the constants that satisfy the
assumptions of the module it is about; an assumption says no more than what the
types of the code give (an amount is a natural number within a width, a key is
an array of bytes and so one of finitely many, no signer is the absent key).
The two tools share the definitions: the theorem `XHolds` is about the `X` that
a run checks.

### Induction

The prover has no induction rule it can apply to sums or to recursive functions.
`Sums` derives what is needed from well-foundedness of the natural numbers
(`LeastNatural`: a non-empty set of them has a least element).

* `SubsetInduction` is induction over the subsets of a finite set. With it the
  fold behind `SumFunction` is shown to have a solution on every finite set
  (`IterateExists`) that does not depend on the set it is computed for
  (`IterateUnique`), nor on the order (`SumRemove`). The rest of `Sums` is what
  the proofs cite: an element more (`SumAdd`), one changed (`SumUpdate`), two
  (`SumTransfer`), zeros left out (`SumRestrict`), two disjoint sets (`SumUnion`),
  and a sum bounded by another through an injection of the terms
  (`SumInjection`, `SumBijection`).
* `Upward` is induction from 0 to N. With it the recursive functions `replay`
  and the matching loop are shown to exist (`ReplayExists`, `RoundsExist`), and
  what holds of the first round and survives a round holds of the last.

### `ExchangeProofs`

The application. `AppType` is its type invariant; `ExchangeSteps` reads every
step as "nothing changed" or as `Accepted`: one event, a deposit or an order,
applied in full. All other lemmas speak of `Accepted`.

* `BalancesConservedHolds`: a deposit adds its amount to one account and to that
  account's sum of deposits; a reservation moves an amount within an account.
* `ReplayRebuildsStateHolds`: replay of a log is one `ApplyEvent` after another,
  so replay of the longer log is `ApplyEvent` on the replay of the shorter one
  (`ReplayAppend`, from the uniqueness of the recursion on each prefix), and the
  event was accepted because just that `ApplyEvent` succeeded.
* `ErrorsAndDuplicatesChangeNothingHolds`, from the part of `AppType` that says
  the seen ids are the ids of the log.

The engine. One side of the book is a function from prices to queues (`IsBook`:
each order rests at its price, with a remaining quantity above zero, once, in
the order of ids). `Insert`, `PopBestOrder` and `ReinsertFront` keep that, and what
they do to the set of resting orders is all that is used of them later
(`InsertBook`, `PopBook`, `ReinsertBook`). The loop of `match_bid` and `match_ask`
has the invariant `LoopInv`: shapes and identity of the orders (`LoopOrders`),
no maker was passed over (`LoopPriority`), what was
filled and what remains is what was there (`LoopQuantities`), no account is
asked for more than before (`LoopHeld`), and a round either ends the loop or
leaves one resting order less (`LoopShrinks`), so that after as many rounds as
there were resting orders the loop has ended by its own condition (`Matched`).
`EngineInv` carries that over histories of placements:

* `BookNotCrossedHolds`, because the loop ended by its own condition and an
  order is inserted only after it;
* `QuantityConservedHolds`, `PriceTimePriorityHolds`: `HistoryOK` (the order at
  place n of the history has id n, and a resting order is one of those, with
  less remaining), `QuantitiesKept` and `PriorityKept` (a maker that once had no
  better order behind it never gets one, because what rests later rested then
  with the same price and id, or came later).

Both together: `RestingOrdersBackedHolds`. `Backed` says that an account has
reserved at least what its resting orders may still ask for and that the book is
sound; a placement raises the second by its own reservation at most
(`PlacementHeld`), since the side it takes from only shrinks and what rests of
the order costs price times remaining.

### `MarketActorProofs`

For any calls and commands, any market, mailbox capacity and number of crashes
and failing appends:

* `AckedIsJournalledHolds`, `AckedOnceHolds`, `JournalAppendOnlyHolds`. Neither
  of the first two is inductive alone: nothing in them says what the actor knows
  while it is between `journal.append` and the reply. `JournalInv` adds exactly
  that (`ApplyingIsJournalled`): while an event is being applied it is in the
  journal, and no other caller has been told Ok for its command id. That second
  half holds at the commit because an acknowledged command is journalled and the
  UNIQUE constraint refuses a journalled id, and it survives until the reply
  because the actor answers nobody else meanwhile. The rest of `JournalInv` is
  shape: the callers' records, the journal as a sequence, and the command under
  way as an event derived from that command (`DerivedFacts`).
* `MemoryFollowsJournalHolds`: `MemoryInv` adds that the event being applied is
  the newest of the journal, that the events in memory follow the journal's
  order (`Follows`), and that a boot has replayed a prefix of it.
* `SnapshotSeesAcknowledgedHolds`: `MailInv` says that a call waits in the
  mailbox, is under way, or neither, and never two of them; `SnapInv` that what
  was acknowledged in this run of the process is in memory, so that a snapshot
  counts at least what its caller had seen.
* `MarketActorImplementsCommandLog`: the refinement of `CommandLog`, one step
  per action. With the invariants above, the append is the log's record, the
  reply its acknowledgement, and everything else, boot and crash included, a
  stutter.
* The steps are read through four lemmas: `JournalSteps` and `JournalGrows`
  (only the append writes the journal), `CurrentSteps` (how a command gets under
  way) and `AckSteps` (the only new Ok to a command is the reply of
  `ApplyJournalled`; no error of the application is spelled Ok).

### `SettlementRelayProofs`

All four safety properties of the relay, for any placements, signed orders and
limits and any number of crashes and database errors, from
`PlacementsAssumption` (the fills of a batch are a sequence of fills between
orders). `RelayInv` has three parts:

* `EdgeInv`: the rows of a batch are its first k fills (`FiledUpTo`), the requests
  that wait in its handler are the rest, and every row comes after those of the
  fills before it (`FiledInOrder`). The failing INSERT that may have committed
  is the case the "first k" is for. `OutboxHoldsPrefixOfBatch` reads off it.
* `IdsInv`: of the requests waiting or filed, those of this run have ids below
  `nextId`, and two fills of one run have two ids. Handlers interleave between
  allocating and inserting, so the waiting requests belong to it.
  `IdsCollideOnlyAcrossRestarts` follows.
* `WorkerInv`: what the worker holds and what flies as a stray are rows; every
  receipt is of a filed request; the worker knows of a settlement only with the
  receipt there. `SubmittedHasSettled` is part of it, `FillSettlesOnce` follows
  with `EdgeInv`: two receipts of one fill are of one row.

### `SpotSettlementProofs`

* `TypeCorrect`: `TypeOK` is inductive, one lemma per instruction that changes
  balances. `ExchangedType` is the arithmetic: the four checked operations keep
  both accounts within u64, because buyer and seller are different accounts.
* `NeverOverfilledHolds`, `CancelIsFinalHolds`, `NoFillAfterExpiryHolds`: all
  three read a step through one lemma, `FillStateSteps`: only the settlement of
  an open, unexpired order with room left changes its filled quantity, and
  cancellations only accumulate. `NeverOverfilled` is inductive with `TypeOK`.
* `ReceiptsAreForeverHolds`: both settlements write a receipt only where there
  is none.
* `VaultBacksBalancesHolds`: a deposit and a withdrawal change one balance of the
  sum and the vault by the same amount; a settlement changes two balances of
  each mint, by opposite amounts.
* `FilledIsSumOfReceiptsHolds`: a settlement adds one receipt, which names the
  two orders whose filled quantities it raises; all other sums stay.

### `VenueProofs`

Book, service and chain in one induction, for any prices, quantities, placements,
payloads and funds. `VenueInv` has three parts:

* `BookInv`: of an order id, what all fills traded and what still rests is within
  what was placed (`TradedIn`, `InBook`, `PlacedIn`). An id may be placed any
  number of times, so the engine's invariants of `ExchangeProofs`, which tell
  orders apart by id, do not apply here; what is used of the engine is what it
  adds up to for an id (`PlacementSound`, from the loop invariant `LoopKeeps`),
  as an inequality, since a fill of an id with itself takes twice what it trades.
* `ServiceInv`: each request of the outbox comes from a fill of its own (`Sources`),
  at the fill's price and quantity, with payloads registered under the fill's
  two ids that cover it (`BridgeSound`). `HandlerFits` says how far a handler is:
  the requests it has made are of the first fills of its placement, in order,
  and the maker it has read was registered under the maker's id, whatever is
  registered there by now. Two requests keep apart because a handler inserts a
  row once and is then past it (`Behind`, `InsertRowStep`); nothing is said of
  settlement ids, which a restart issues again.
* `ChainInv`: each receipt records a request of the outbox, and what an order has
  filled is the sum of the receipts that name it.

`ChainWithinBookHolds`: receipts are sent to the fills of their requests, one to
one, and to fills between the same two ids (`ReceiptsWithinFills`).
`GoodRequestsNeedOnlyFundsHolds`: the request at hand and the receipts of its
order are sent to different fills of the order's id, so together they are within
what was placed (`RequestFits`), and a payload that is still good covers that; the
signatures are where the program looks for them (`SignaturesGood`), and the rest
is that the bridge compares what the program compares (`RequestWithin`).
`DomainRuleAgreesHolds` (`RulesAgree`): on well-formed payloads both rules come down
to the same comparisons of naturals, once ids and keys differ alike. The bounds of
the model
(`MaxPlacements`, `MaxCancels`, `AllSettlementIds`, `MaxSlot`) are any numbers.

### `StablecoinProofs`, on `StablecoinSpec`

* `RetiredNeverIssuesHolds` needs one invariant, `IssuerTypes`: what an issuer
  has outstanding is never negative, so a limit of zero leaves room for no amount
  but zero. `OneIssuerKept` is the argument for the steps that rewrite one
  issuer, `RotateKeeps` the one for the step that rewrites two.
* `IssuerImplementsReference`, the refinement of `IssuanceModel`: with `SupplyInv`
  (typed totals, and none before the mint exists) each mint and burn is the
  model's, and every other step leaves the totals alone.
* `SupplyAccountedHolds`: `SharesInv` adds that an issuer with a limit has
  outstanding what it minted less what it burned; rotation moves a share from
  one key to the other, and what is burned against a retired key is counted in
  `burnedByRetired`. `TokensCoveredHolds` (`TokensInv`): the tokens held are a
  sum over accounts that changes with the counters, except for an owner's burn,
  which only lowers it.
* `VaultMatchesRequestsHolds` (`VaultInv`): each counter of the vault is the sum
  of the amounts of the requests with a given status, a request in one of them
  only.
* `LogTellsDecisionsHolds`: `LogInv` adds that a decision in the log names an
  existing request, so that a new request starts without one.
* `LogTellsAdminsHolds`: `AdminsInv` reads the log from its end (`InOffice`): the
  admin wrote the last entry, and the pending admin is the target of the one
  nomination that no other nomination and no acceptance follows, if there is one.
* `RedemptionImplementsModels`, the refinement of `RedemptionModel`, one step per
  instruction.

### `ProgramsProofs`, on `ProgramsSpec`

* `TodayCountsCallsHolds`, `DailyLimitHeldHolds`. The first is the invariant and
  the second reads off it: `Execute` compares the limit with the profile's own
  sum, and that bounds what was sent because it is what was sent and what direct
  calls added to it. `SetUserComplianceKeeps` is the step where a rewritten
  profile could break that, `MidnightForgets` the change of day.
* `OncePerMessageHolds`: `BridgeInv` ties the history to what each receiver stores
  (`Recorded`): a message once consumed finds its account, or its id in the map,
  whatever amount and recipient it comes with.
* `DepositsClaimableHolds` is inductive with the types of vaults and lamports.

### What is only model-checked

The prover has no rule for liveness under fairness, so `CallsEnd` and
`RowsConclude` stay with TLC. So does `OrdersReplayUnlessAppendLost`: it compares
what the matching engine makes of one journal in two runs of the process.
All other safety properties and refinements the runs check are proved as well, but
for the two that the code violates (section 4).
`JournalAppendOnly` and `NoFillAfterExpiry` are proved and no run checks
them: the refinement of `CommandLog` and the guards of `SettleSignedFill` say the
same to TLC.

## 6. Not modelled

* HTTP parsing, authentication, request ids, metrics and the read-only views of
  the service: nothing else depends on them.
* The JSON codec of journal and outbox (`record.rs`): an event is its own record.
* The in-memory settlement queue used without a database, as far as its draining
  goes; `Venue` has it as a set of requests. Two service processes on one
  database.
* `OrderBookSide::cancel`, `release` and `debit_reserved`, which nothing outside
  tests calls; cancel plans of the relayer, which the service never submits.
* ed25519, sha256 and the derivation of accounts: an order stands for its own
  hash and only signers sign. Tokens sent to a vault of lab 13 past the program:
  they would lie there on top of what `VaultBacksBalances` counts, and the vault
  would hold at least the sum of the balances, not exactly it. Mints with a transfer fee in lab 13, for which
  `deposit` would credit more than the vault receives.
* The Token-2022 factory (04): its handlers forward one call each to Token-2022,
  and fees, withheld amounts and their schedule are Token-2022's.
* Labs 03 and 05: instructions of one call into another program and no state of
  their own beyond a counter; lab 09: measurement scripts.
* `TransferHookAccounts::validate` of lab 10: a comparison of addresses.
* In the stablecoin modules: metadata, rent, timestamps nothing
  reads, a second mint beside the hook's, and Token-2022's own resolution of the
  hook's extra accounts.
