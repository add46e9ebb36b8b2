--------------------------- MODULE SettlementRelay ---------------------------
(* How the fills of an acknowledged order reach the chain: the HTTP handler *)
(* that turns them into settlement requests, the outbox table, and the      *)
(* worker that submits requests through an unreliable RPC node              *)
(* (services/exchange-service, crates/relayer, crates/persistence).         *)
(*                                                                          *)
(* The chain is external: SpotSettlement in full. Here a transaction that   *)
(* executes writes the receipt of its settlement id, or is refused: because *)
(* that receipt exists, or for a reason of its own (funds, expiry, cancel). *)
(* One service process with a DATABASE_URL; a crash takes its memory.       *)
EXTENDS Integers, Sequences, FiniteSets, FiniteSetsExt

CONSTANTS
    Market,         \* market_config of the one market the service serves
    Placements,     \* orders the actor accepts: [order, fills] by batch
    Payloads,       \* signed orders a trader may register
    MaxAttempts,    \* settlement_outbox.max_attempts
    MaxSubmits,     \* RetryPolicy.max_attempts
    BatchLimit,     \* SETTLEMENT_WORKER_BATCH_LIMIT
    MaxCrashes,     \* bound: crashes of the process
    MaxDbFailures   \* bound: statements on the outbox that return an error

ASSUME LimitsAssumption ==
    {MaxAttempts, MaxSubmits, BatchLimit} \subseteq Nat \ {0}
ASSUME BoundsAssumption == {MaxCrashes, MaxDbFailures} \subseteq Nat

Batches == DOMAIN Placements
OrderIds == {p.order : p \in Payloads}

ASSUME PlacementsAssumption ==
    \A b \in Batches :
        LET fills == Placements[b].fills
        IN  /\ Len(fills) \in Nat /\ DOMAIN fills = 1 .. Len(fills)
            /\ \A i \in DOMAIN fills : {fills[i].maker, fills[i].taker} \subseteq OrderIds

Unsigned == [order |-> "None"]
Flying == "Flying"      \* sent, not yet executed
Landed == "Landed"      \* executed
Refused == "Refused"    \* executed with an error

VARIABLES
    handler,        \* place_order handler of each batch: step and requests to insert
    signedOrders,   \* SettlementEdgeState.signed_orders, in memory
    nextId,         \* SettlementEdgeState.next_settlement_id, in memory
    outbox,         \* settlement_outbox by outbox_id: <<[request, status, attempts]>>
    worker,         \* the settlement worker task
    strays,         \* rows with a transaction the worker no longer watches
    receipts,       \* the chain: the requests whose settlement has executed
    crashes, dbFailures

edge == <<handler, signedOrders, nextId>>
bounds == <<crashes, dbFailures>>
vars == <<handler, signedOrders, nextId, outbox, worker, strays, receipts,
          crashes, dbFailures>>

Rows == DOMAIN outbox
PendingRows == {r \in Rows : outbox[r].status = "pending"}

IdleWorker == [step |-> "Idle", work |-> {}, row |-> 0, round |-> 0,
               tx |-> Refused, outcome |-> "None"]

Init ==
    /\ handler = [b \in Batches |-> [step |-> "Unplaced", requests |-> <<>>]]
    /\ signedOrders = [o \in OrderIds |-> Unsigned]
    /\ nextId = 0
    /\ outbox = <<>>
    /\ worker = IdleWorker
    /\ strays = {}
    /\ receipts = {}
    /\ crashes = 0
    /\ dbFailures = 0

-----------------------------------------------------------------------------
(* From fills to requests: SettlementIntent::from_fill and the bridge.      *)

IntentFromFill(order, fill) ==
    LET makerSells == order.side = "Bid"
    IN  [market |-> order.market,
         buyer  |-> IF makerSells THEN fill.takerTrader ELSE fill.makerTrader,
         seller |-> IF makerSells THEN fill.makerTrader ELSE fill.takerTrader,
         maker  |-> fill.maker, taker |-> fill.taker,
         price  |-> fill.price, quantity |-> fill.quantity]

IntentsOf(b) ==
    [i \in DOMAIN Placements[b].fills |->
        IntentFromFill(Placements[b].order, Placements[b].fills[i])]

\* validate_order and validate_fill. A payload is stored under its own order
\* id, so only its market can be another one.
FitsIntent(intent, buy, sell) ==
    /\ buy.market = Market /\ sell.market = Market
    /\ buy.trader = intent.buyer /\ sell.trader = intent.seller
    /\ intent.price <= buy.price /\ intent.price >= sell.price
    /\ intent.quantity <= buy.quantity /\ intent.quantity <= sell.quantity

CanBridge(intent) ==
    LET maker == signedOrders[intent.maker]
        taker == signedOrders[intent.taker]
    IN  /\ intent.market = Market
        /\ maker # Unsigned /\ taker # Unsigned
        /\ \/ maker.side = "Bid" /\ taker.side = "Ask" /\ FitsIntent(intent, maker, taker)
           \/ maker.side = "Ask" /\ taker.side = "Bid" /\ FitsIntent(intent, taker, maker)

\* fill and run are history: which fill of which placement, in which run of
\* the process the id was allocated.
Request(b, i) ==
    [id |-> nextId + i - 1, fill |-> <<b, i>>, run |-> crashes,
     orders |-> {signedOrders[IntentsOf(b)[i].maker], signedOrders[IntentsOf(b)[i].taker]}]

RequestsFromBatch(b) == [i \in DOMAIN IntentsOf(b) |-> Request(b, i)]

\* Mutant of AllocateSettlementIds: one id whatever the number of fills.
AllocateOneId(count) == nextId' = nextId + (IF count = 0 THEN 0 ELSE 1)

AllocateSettlementIds(count) == nextId' = nextId + count

-----------------------------------------------------------------------------
(* The HTTP edge.                                                           *)

RegisterSignedOrder(payload) ==
    /\ signedOrders[payload.order] # payload
    /\ signedOrders' = [signedOrders EXCEPT ![payload.order] = payload]
    /\ UNCHANGED <<handler, nextId, outbox, worker, strays, receipts, bounds>>

\* The actor has journalled and applied the order and replied with its fills.
OrderReplied(b) ==
    /\ handler[b].step = "Unplaced"
    /\ handler' = [handler EXCEPT ![b].step = "Replied"]
    /\ UNCHANGED <<signedOrders, nextId, outbox, worker, strays, receipts, bounds>>

\* Ids are allocated before the bridge looks at the fills; one fill the bridge
\* does not take ends the whole batch.
QueueSettlementRequests(b) ==
    /\ handler[b].step = "Replied"
    /\ IF Placements[b].fills = <<>> THEN UNCHANGED nextId
       ELSE AllocateSettlementIds(Len(Placements[b].fills))
    /\ handler' =
         [handler EXCEPT ![b] =
            IF /\ Placements[b].fills # <<>>
               /\ \A i \in DOMAIN IntentsOf(b) : CanBridge(IntentsOf(b)[i])
            THEN [step |-> "Enqueueing", requests |-> RequestsFromBatch(b)]
            ELSE [step |-> "Done", requests |-> <<>>]]
    /\ UNCHANGED <<signedOrders, outbox, worker, strays, receipts, bounds>>

NewRow(request) == [request |-> request, status |-> "pending", attempts |-> 0]

\* One INSERT for each request, without a transaction around them.
EnqueueRequest(b) ==
    /\ handler[b].step = "Enqueueing"
    /\ outbox' = Append(outbox, NewRow(Head(handler[b].requests)))
    /\ handler' = [handler EXCEPT
                      ![b].requests = Tail(@),
                      ![b].step = IF Len(handler[b].requests) = 1 THEN "Done" ELSE @]
    /\ UNCHANGED <<signedOrders, nextId, worker, strays, receipts, bounds>>

\* Mutants of EnqueueFails: the handler starts over with fresh ids, or skips
\* the request and inserts the next.
EnqueueFailsAndRestarts(b) ==
    /\ handler[b].step = "Enqueueing"
    /\ dbFailures < MaxDbFailures
    /\ dbFailures' = dbFailures + 1
    /\ outbox' \in {outbox, Append(outbox, NewRow(Head(handler[b].requests)))}
    /\ handler' = [handler EXCEPT ![b] = [step |-> "Replied", requests |-> <<>>]]
    /\ UNCHANGED <<signedOrders, nextId, worker, strays, receipts, crashes>>
EnqueueFailsAndSkips(b) ==
    /\ handler[b].step = "Enqueueing"
    /\ dbFailures < MaxDbFailures
    /\ dbFailures' = dbFailures + 1
    /\ handler' = [handler EXCEPT
                      ![b].requests = Tail(@),
                      ![b].step = IF Len(handler[b].requests) = 1 THEN "Done" ELSE @]
    /\ UNCHANGED <<signedOrders, nextId, outbox, worker, strays, receipts, crashes>>

\* The first error ends the loop; the failing INSERT may have committed.
EnqueueFails(b) ==
    /\ handler[b].step = "Enqueueing"
    /\ dbFailures < MaxDbFailures
    /\ dbFailures' = dbFailures + 1
    /\ outbox' \in {outbox, Append(outbox, NewRow(Head(handler[b].requests)))}
    /\ handler' = [handler EXCEPT ![b] = [step |-> "Done", requests |-> <<>>]]
    /\ UNCHANGED <<signedOrders, nextId, worker, strays, receipts, crashes>>

-----------------------------------------------------------------------------
(* The worker: claim, submit with confirmation and retries, record.         *)

\* Mutant of ClaimableRows: the claim leaves out rows without attempts left.
RowsWithAttemptsLeft ==
    {r \in PendingRows :
        /\ outbox[r].attempts < MaxAttempts
        /\ Cardinality({q \in PendingRows : q < r}) < BatchLimit}

\* The claim takes the oldest pending rows, counts the attempt and leaves
\* them pending. Only one worker runs, so an item's attempts stay the row's.
ClaimableRows ==
    {r \in PendingRows :
        Cardinality({q \in PendingRows : q < r}) < BatchLimit}

CountAttempts(claimed) ==
    [r \in Rows |-> IF r \in claimed
                    THEN [outbox[r] EXCEPT !.attempts = @ + 1] ELSE outbox[r]]

ClaimPendingSettlements ==
    /\ worker.step = "Idle"
    /\ ClaimableRows # {}
    /\ outbox' = CountAttempts(ClaimableRows)
    /\ worker' = [worker EXCEPT !.step = "Next", !.work = ClaimableRows]
    /\ UNCHANGED <<edge, strays, receipts, bounds>>

\* The claim commits and its answer is lost: the attempt is counted, no work.
ClaimFails ==
    /\ worker.step = "Idle"
    /\ ClaimableRows # {}
    /\ dbFailures < MaxDbFailures
    /\ dbFailures' = dbFailures + 1
    /\ outbox' = CountAttempts(ClaimableRows)
    /\ UNCHANGED <<edge, worker, strays, receipts, crashes>>

\* The rows come back in the order of the UPDATE's plan, whatever that is.
SubmitRequest ==
    /\ worker.step = "Next"
    /\ \E r \in worker.work :
          worker' = [worker EXCEPT !.step = "Submit", !.row = r, !.round = 1,
                                   !.work = @ \ {r}]
    /\ UNCHANGED <<edge, outbox, strays, receipts, bounds>>

Concluded(outcome) == [worker EXCEPT !.step = "Record", !.outcome = outcome]

\* RetryingSubmitter after a retryable error: another round, or the error.
RetryOrGiveUp ==
    IF worker.round < MaxSubmits
    THEN [worker EXCEPT !.step = "Submit", !.round = @ + 1]
    ELSE Concluded("Retryable")

BlockhashUnavailable ==
    /\ worker.step = "Submit"
    /\ worker' = RetryOrGiveUp
    /\ UNCHANGED <<edge, outbox, strays, receipts, bounds>>

\* Every error of send_transaction is Rejected, a lost answer included: then
\* the transaction is on its way and nobody watches it.
SendRejected ==
    /\ worker.step = "Submit"
    /\ worker' = Concluded("Rejected")
    /\ strays' \in {strays, strays \cup {worker.row}}
    /\ UNCHANGED <<edge, outbox, receipts, bounds>>

SendAccepted ==
    /\ worker.step = "Submit"
    /\ worker' = [worker EXCEPT !.step = "Confirm", !.tx = Flying]
    /\ UNCHANGED <<edge, outbox, strays, receipts, bounds>>

\* Mutant of Confirmed: a transaction the node accepted counts as confirmed.
ConfirmedOnceSent ==
    /\ worker.step = "Confirm" /\ worker.tx # Refused
    /\ worker' = Concluded("Submitted")
    /\ UNCHANGED <<edge, outbox, strays, receipts, bounds>>

Confirmed ==
    /\ worker.step = "Confirm" /\ worker.tx = Landed
    /\ worker' = Concluded("Submitted")
    /\ UNCHANGED <<edge, outbox, strays, receipts, bounds>>

ConfirmedFailed ==
    /\ worker.step = "Confirm" /\ worker.tx = Refused
    /\ worker' = Concluded("Rejected")
    /\ UNCHANGED <<edge, outbox, strays, receipts, bounds>>

\* Polls are exhausted or the RPC node fails: possible whatever became of the
\* transaction, which may still execute later.
ConfirmationUncertain ==
    /\ worker.step = "Confirm"
    /\ worker' = RetryOrGiveUp
    /\ strays' = IF worker.tx = Flying THEN strays \cup {worker.row} ELSE strays
    /\ UNCHANGED <<edge, outbox, receipts, bounds>>

\* failure.error.is_retryable() && item.attempts < item.max_attempts
NewStatus ==
    IF worker.outcome = "Submitted" THEN "submitted"
    ELSE IF /\ worker.outcome = "Retryable"
            /\ outbox[worker.row].attempts < MaxAttempts
         THEN "pending"
    ELSE "failed"

NextItem ==
    worker' = IF worker.work = {} THEN IdleWorker
              ELSE [IdleWorker EXCEPT !.step = "Next", !.work = worker.work]

RecordOutcome ==
    /\ worker.step = "Record"
    /\ outbox' = [outbox EXCEPT ![worker.row].status = NewStatus]
    /\ NextItem
    /\ UNCHANGED <<edge, strays, receipts, bounds>>

\* The UPDATE fails: the worker logs a warning and goes on.
RecordFails ==
    /\ worker.step = "Record"
    /\ dbFailures < MaxDbFailures
    /\ dbFailures' = dbFailures + 1
    /\ NextItem
    /\ UNCHANGED <<edge, outbox, strays, receipts, crashes>>

-----------------------------------------------------------------------------
(* The chain (external) and the process.                                    *)

HasReceipt(id) == \E receipt \in receipts : receipt.id = id

\* SettleSignedFill of SpotSettlement creates the receipt of a fresh id.
Settle(request) ==
    /\ ~HasReceipt(request.id)
    /\ receipts' = receipts \cup {request}

WatchedLands ==
    /\ worker.step = "Confirm" /\ worker.tx = Flying
    /\ Settle(outbox[worker.row].request)
    /\ worker' = [worker EXCEPT !.tx = Landed]
    /\ UNCHANGED <<edge, outbox, strays, bounds>>

WatchedRefused ==
    /\ worker.step = "Confirm" /\ worker.tx = Flying
    /\ worker' = [worker EXCEPT !.tx = Refused]
    /\ UNCHANGED <<edge, outbox, strays, receipts, bounds>>

\* A stray transaction executes, or its blockhash expires.
StrayLands ==
    /\ \E r \in strays : Settle(outbox[r].request) /\ strays' = strays \ {r}
    /\ UNCHANGED <<edge, outbox, worker, bounds>>

StrayDies ==
    /\ \E r \in strays : strays' = strays \ {r}
    /\ UNCHANGED <<edge, outbox, worker, receipts, bounds>>

\* Crash and restart: the edge state and the worker's items are in memory.
\* The requests of an unfinished handler are gone.
Restart ==
    /\ crashes < MaxCrashes
    /\ crashes' = crashes + 1
    /\ handler' = [b \in Batches |->
                      IF handler[b].step = "Unplaced" THEN handler[b]
                      ELSE [step |-> "Done", requests |-> <<>>]]
    /\ signedOrders' = [o \in OrderIds |-> Unsigned]
    /\ nextId' = 0
    /\ worker' = IdleWorker
    /\ strays' = IF worker.step = "Confirm" /\ worker.tx = Flying
                 THEN strays \cup {worker.row} ELSE strays
    /\ UNCHANGED <<outbox, receipts, dbFailures>>

EdgeStep ==
    \/ \E p \in Payloads : RegisterSignedOrder(p)
    \/ \E b \in Batches :
          \/ OrderReplied(b) \/ QueueSettlementRequests(b)
          \/ EnqueueRequest(b) \/ EnqueueFails(b)

WorkerStep ==
    \/ ClaimPendingSettlements \/ ClaimFails \/ SubmitRequest
    \/ BlockhashUnavailable \/ SendRejected \/ SendAccepted
    \/ Confirmed \/ ConfirmedFailed \/ ConfirmationUncertain
    \/ RecordOutcome \/ RecordFails

ChainStep == WatchedLands \/ WatchedRefused \/ StrayLands \/ StrayDies

Next == EdgeStep \/ WorkerStep \/ ChainStep \/ Restart

\* The runtime polls the worker task, and every RPC or database call returns,
\* with an answer or an error. The chain owes nothing.
Fairness == WF_vars(WorkerStep)

Spec == Init /\ [][Next]_vars
FairSpec == Spec /\ Fairness

-----------------------------------------------------------------------------
(* Properties.                                                              *)

FillCount == MapThenSumSet(LAMBDA b : Len(Placements[b].fills), Batches)

\* A fill moves funds at most once, however often its request is claimed,
\* resubmitted or left behind by a crash, and whichever transactions arrive
\* late: its attempts share the settlement id its row was created with.
FillSettlesOnce ==
    \A s, t \in receipts : s.fill = t.fill => s = t

\* A row the outbox shows as submitted has settled, and the receipt of its
\* settlement id is its own, also when rows of an earlier run of the service
\* carry the same id.
SubmittedHasSettled ==
    \A r \in Rows : outbox[r].status = "submitted" => outbox[r].request \in receipts

\* Handlers of one run of the service never give two fills one settlement id
\* (settlement_edge_allocates_contiguous_ids_and_stores_signed_orders); ids
\* collide only across a restart, which resets the counter.
IdsCollideOnlyAcrossRestarts ==
    \A q, r \in Rows :
        (q # r /\ outbox[q].request.id = outbox[r].request.id) =>
            outbox[q].request.run # outbox[r].request.run

\* A fill gets one outbox row at most, and the rows of a batch are its first
\* fills in order, whichever insert failed.
OutboxHoldsPrefixOfBatch ==
    \A q, r \in Rows :
        /\ outbox[q].request.fill = outbox[r].request.fill => q = r
        /\ \A i \in 1 .. outbox[r].request.fill[2] - 1 :
              \E p \in 1 .. r - 1 :
                  outbox[p].request.fill = <<outbox[r].request.fill[1], i>>

\* Every row is decided: the worker ends it as submitted or failed after
\* finitely many attempts, when crashes and database errors are finitely many,
\* and no older row keeps it waiting for ever.
RowsConclude ==
    \A r \in 1 .. FillCount : r \in PendingRows ~> r \notin PendingRows

\* What the outbox and exchange_settlement_requests_failed_total report as
\* failed has not settled: "Total settlement requests failed by the relayer
\* worker."
FailedHasNotSettled ==
    \A r \in Rows : outbox[r].status = "failed" => outbox[r].request \notin receipts
=============================================================================
