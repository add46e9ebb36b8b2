----------------------------- MODULE MarketActor -----------------------------
(* The market actor of crates/runtime/src/lib.rs with its mailbox, the      *)
(* durable event journal of crates/persistence/src/postgres.rs, and the     *)
(* boot of services/exchange-service that rebuilds the application from     *)
(* that journal. Callers issue calls; the process may crash between any two *)
(* steps, and an append may fail before or after the INSERT commits.        *)
EXTENDS ExchangeApp

CONSTANTS
    Calls,              \* calls of MarketActorHandle methods
    CommandOf,          \* the MarketCommand each call sends
    MailboxCapacity,    \* mpsc::channel(mailbox_capacity)
    MaxAppendFailures,  \* bound: appends that fail for no fault of the caller
    MaxCrashes          \* bound: crashes of the process

ASSUME CapacityAssumption == MailboxCapacity \in Nat \ {0}
ASSUME BoundsAssumption == MaxAppendFailures \in Nat /\ MaxCrashes \in Nat
ASSUME CommandOfAssumption ==
    \A c \in Calls :
        CommandOf[c].kind \in {"CreditDeposit", "PlaceOrder", "Snapshot", "Shutdown"}

VARIABLES
    journal,    \* event_journal, by event_id
    app,        \* ExchangeApplication, in memory
    proc,       \* the service process and its actor task
    mailbox,    \* calls sent and not yet received
    current,    \* the command whose append or apply is under way
    calls,      \* what each caller sees of its call
    metrics,    \* RuntimeMetrics, in memory
    failures,   \* appends that have failed spontaneously
    crashes

memory == <<app, proc, mailbox, current, metrics>>
bounds == <<failures, crashes>>
vars == <<journal, app, proc, mailbox, current, calls, metrics, failures, crashes>>

Idle == [step |-> "Idle"]
NewMetrics == [received |-> 0, accepted |-> 0, rejected |-> 0,
               appendFailures |-> 0, applyFailures |-> 0]

Unsent == [status |-> "Unsent", fills |-> <<>>, count |-> 0, floor |-> 0]
Outstanding(c) == calls[c].status \in {"Sending", "Queued"}

\* A command changes the exchange; a snapshot or a shutdown does not.
IsCommand(c) == CommandOf[c].kind \in {"CreditDeposit", "PlaceOrder"}
Acked(c) == IsCommand(c) /\ calls[c].status = "Ok"

JournalledIds == {journal[i].cmd : i \in DOMAIN journal}

Init ==
    /\ journal = <<>>
    /\ app = NewApp
    /\ proc = "Down"
    /\ mailbox = <<>>
    /\ current = Idle
    /\ calls = [c \in Calls |-> Unsent]
    /\ metrics = NewMetrics
    /\ failures = 0
    /\ crashes = 0

-----------------------------------------------------------------------------
(* Boot: read_all, replay, spawn_from_app.                                  *)

Boot ==
    /\ proc = "Down"
    /\ proc' = "Booting"
    /\ UNCHANGED <<journal, app, mailbox, current, calls, metrics, bounds>>

\* One turn of the loop of ExchangeApplication::replay. An error makes the
\* boot fail; a further boot would read the same journal and fail again.
ReplayEvent ==
    /\ proc = "Booting"
    /\ Len(app.events) < Len(journal)
    /\ LET applied == ApplyEvent(app, journal[Len(app.events) + 1])
       IN  IF applied.err = NoError
           THEN app' = applied.app /\ UNCHANGED proc
           ELSE app' = NewApp /\ proc' = "BootFailed"
    /\ UNCHANGED <<journal, mailbox, current, calls, metrics, bounds>>

\* Mutant of Spawn: the actor starts before the replay is complete.
SpawnEarly ==
    /\ proc = "Booting"
    /\ proc' = "Running"
    /\ metrics' = NewMetrics
    /\ UNCHANGED <<journal, app, mailbox, current, calls, bounds>>

Spawn ==
    /\ proc = "Booting"
    /\ Len(app.events) = Len(journal)
    /\ proc' = "Running"
    /\ metrics' = NewMetrics
    /\ UNCHANGED <<journal, app, mailbox, current, calls, bounds>>

\* The process dies: memory and every open connection are gone.
Crash ==
    /\ proc \in {"Booting", "Running", "Stopped"}
    /\ crashes < MaxCrashes
    /\ proc' = "Down"
    /\ app' = NewApp
    /\ mailbox' = <<>>
    /\ current' = Idle
    /\ metrics' = NewMetrics
    /\ calls' = [c \in Calls |->
                    IF Outstanding(c) THEN [calls[c] EXCEPT !.status = "Lost"]
                                      ELSE calls[c]]
    /\ crashes' = crashes + 1
    /\ UNCHANGED <<journal, failures>>

-----------------------------------------------------------------------------
(* The caller's side: send(command).await, then reply_rx.await.             *)

\* floor is history: the commands acknowledged when a snapshot call began.
Call(c) ==
    /\ calls[c].status = "Unsent"
    /\ proc \in {"Running", "Stopped"}
    /\ calls' = [calls EXCEPT
                    ![c].status = "Sending",
                    ![c].floor  = IF IsCommand(c) THEN 0
                                  ELSE Cardinality({d \in Calls : Acked(d)})]
    /\ UNCHANGED <<journal, memory, bounds>>

\* send waits while the mailbox is full.
Send(c) ==
    /\ calls[c].status = "Sending"
    /\ proc = "Running"
    /\ Len(mailbox) < MailboxCapacity
    /\ mailbox' = Append(mailbox, c)
    /\ calls' = [calls EXCEPT ![c].status = "Queued"]
    /\ UNCHANGED <<journal, app, proc, current, metrics, bounds>>

\* send fails once the actor has dropped its receiver.
SendClosed(c) ==
    /\ calls[c].status = "Sending"
    /\ proc = "Stopped"
    /\ calls' = [calls EXCEPT ![c].status = "ActorClosed"]
    /\ UNCHANGED <<journal, memory, bounds>>

-----------------------------------------------------------------------------
(* The actor's side: run_market_actor and handle_command.                   *)

\* Mutant of Replied: a duplicate command is answered like its original.
RepliedIdempotently(c, status, fills, count) ==
    [calls EXCEPT ![c].status = IF status = "DuplicateCommand" THEN "Ok" ELSE status,
                  ![c].fills = fills, ![c].count = count]

Replied(c, status, fills, count) ==
    [calls EXCEPT ![c].status = status, ![c].fills = fills, ![c].count = count]

\* Mutant of Closed: the callers of queued messages are never woken.
ClosedSilently(replied, queue) == replied

\* The actor leaves its loop: the queued messages are dropped with the
\* receiver, and with them the reply channels of their callers.
Closed(replied, queue) ==
    [c \in Calls |->
        IF \E i \in DOMAIN queue : queue[i] = c
        THEN [replied[c] EXCEPT !.status = "ActorClosed"]
        ELSE replied[c]]

Counted(m, field) == [m EXCEPT ![field] = @ + 1]

Derived(command) ==
    IF command.kind = "CreditDeposit"
    THEN CreditDepositEvent(app, command.cmd, command.trader, command.asset,
                            command.amount)
    ELSE PlaceOrderEvent(app, command.cmd, command.order)

FillsOf(event) == IF event.type = "OrderPlaced" THEN event.fills ELSE <<>>

CanReceive == proc = "Running" /\ current = Idle /\ mailbox # <<>>

\* A command that derives no event is rejected on the spot; one that does is
\* under way until it is journalled and applied.
ReceiveCommand ==
    /\ CanReceive
    /\ IsCommand(Head(mailbox))
    /\ mailbox' = Tail(mailbox)
    /\ LET c == Head(mailbox)
           derived == Derived(CommandOf[c])
       IN  IF derived.err # NoError
           THEN /\ calls' = Replied(c, derived.err, <<>>, 0)
                /\ metrics' = Counted(Counted(metrics, "received"), "rejected")
                /\ UNCHANGED current
           ELSE /\ current' = [step |-> "Append", call |-> c, event |-> derived.event]
                /\ metrics' = Counted(metrics, "received")
                /\ UNCHANGED calls
    /\ UNCHANGED <<journal, app, proc, bounds>>

ReceiveSnapshot ==
    /\ CanReceive
    /\ CommandOf[Head(mailbox)].kind = "Snapshot"
    /\ mailbox' = Tail(mailbox)
    /\ calls' = Replied(Head(mailbox), "Ok", <<>>, Len(app.events))
    /\ metrics' = Counted(Counted(metrics, "received"), "accepted")
    /\ UNCHANGED <<journal, app, proc, current, bounds>>

ReceiveShutdown ==
    /\ CanReceive
    /\ CommandOf[Head(mailbox)].kind = "Shutdown"
    /\ mailbox' = <<>>
    /\ calls' = Closed(Replied(Head(mailbox), "Ok", <<>>, 0), Tail(mailbox))
    /\ proc' = "Stopped"
    /\ metrics' = Counted(Counted(metrics, "received"), "accepted")
    /\ UNCHANGED <<journal, app, current, bounds>>

\* journal.append returned an error: the caller is told, nothing is applied.
RejectUnjournalled ==
    /\ calls' = Replied(current.call, "JournalAppendFailed", <<>>, 0)
    /\ metrics' = Counted(Counted(metrics, "appendFailures"), "rejected")
    /\ current' = Idle

AppendCommits ==
    /\ current.step = "Append"
    /\ current.event.cmd \notin JournalledIds
    /\ journal' = Append(journal, current.event)
    /\ current' = [current EXCEPT !.step = "Apply"]
    /\ UNCHANGED <<app, proc, mailbox, calls, metrics, bounds>>

\* The UNIQUE constraint on command_id refuses the row.
AppendRefused ==
    /\ current.step = "Append"
    /\ current.event.cmd \in JournalledIds
    /\ RejectUnjournalled
    /\ UNCHANGED <<journal, app, proc, mailbox, bounds>>

\* Mutant of AppendFails: the error is logged, and the event applied.
AppendFailsAndApplies ==
    /\ current.step = "Append"
    /\ current.event.cmd \notin JournalledIds
    /\ failures < MaxAppendFailures
    /\ failures' = failures + 1
    /\ journal' \in {journal, Append(journal, current.event)}
    /\ current' = [current EXCEPT !.step = "Apply"]
    /\ UNCHANGED <<app, proc, mailbox, calls, metrics, crashes>>

\* The INSERT fails, or it commits and the connection fails before the
\* answer arrives: the actor cannot tell.
AppendFails ==
    /\ current.step = "Append"
    /\ current.event.cmd \notin JournalledIds
    /\ failures < MaxAppendFailures
    /\ failures' = failures + 1
    /\ journal' \in {journal, Append(journal, current.event)}
    /\ RejectUnjournalled
    /\ UNCHANGED <<app, proc, mailbox, crashes>>

\* apply_event of a journalled event; an error stops the actor.
ApplyJournalled ==
    /\ current.step = "Apply"
    /\ LET applied == ApplyEvent(app, current.event)
       IN  /\ app' = applied.app
           /\ IF applied.err = NoError
              THEN /\ calls' = Replied(current.call, "Ok", FillsOf(current.event), 0)
                   /\ metrics' = Counted(metrics, "accepted")
                   /\ UNCHANGED <<proc, mailbox>>
              ELSE /\ calls' = Closed(Replied(current.call, applied.err, <<>>, 0), mailbox)
                   /\ metrics' = Counted(Counted(metrics, "applyFailures"), "rejected")
                   /\ proc' = "Stopped"
                   /\ mailbox' = <<>>
    /\ current' = Idle
    /\ UNCHANGED <<journal, bounds>>

Next ==
    \/ Boot \/ ReplayEvent \/ Spawn \/ Crash
    \/ \E c \in Calls : Call(c) \/ Send(c) \/ SendClosed(c)
    \/ ReceiveCommand \/ ReceiveSnapshot \/ ReceiveShutdown
    \/ AppendCommits \/ AppendRefused \/ AppendFails \/ ApplyJournalled

\* The runtime polls a task that can go on, and the database answers: the
\* actor's steps, the callers' sends and the boot. Nobody has to call, and
\* nothing has to fail.
Fairness ==
    /\ WF_vars(ReplayEvent) /\ WF_vars(Spawn)
    /\ \A c \in Calls : WF_vars(Send(c)) /\ WF_vars(SendClosed(c))
    /\ WF_vars(ReceiveCommand \/ ReceiveSnapshot \/ ReceiveShutdown)
    /\ WF_vars(AppendCommits \/ AppendRefused \/ AppendFails)
    /\ WF_vars(ApplyJournalled)

Spec == Init /\ [][Next]_vars
FairSpec == Spec /\ Fairness

-----------------------------------------------------------------------------
(* Properties.                                                              *)

\* A caller that was told Ok finds its command in the journal, with exactly
\* the fills it was told (successful_commands_are_persisted_before_reply):
\* after any crash and replay, and with appends that fail in any way.
AckedIsJournalled ==
    \A c \in Calls : Acked(c) =>
        \E i \in DOMAIN journal : /\ journal[i].cmd = CommandOf[c].cmd
                                  /\ FillsOf(journal[i]) = calls[c].fills

\* Two calls with one command id, a retry for instance, are never both told
\* Ok, whatever crashed or failed between them.
AckedOnce ==
    \A c, d \in Calls :
        Acked(c) /\ Acked(d) /\ CommandOf[c].cmd = CommandOf[d].cmd => c = d

\* What is in memory is in the journal, in the journal's order: the actor
\* never applies what it has not made durable, and boot replays in order.
MemoryFollowsJournal ==
    \A n \in DOMAIN app.events :
        \E i \in DOMAIN journal :
            /\ journal[i] = app.events[n]
            /\ \A m \in 1 .. n - 1 :
                  \E j \in 1 .. i - 1 : journal[j] = app.events[m]

\* A call whose append was reported failed although its row is in the journal.
LostAppend(i) ==
    \E c \in Calls : /\ IsCommand(c) /\ CommandOf[c].cmd = journal[i].cmd
                     /\ calls[c].status = "JournalAppendFailed"

\* A boot replays every order of the journal, with the fills it was journalled
\* with, whatever crashed or was retried before. It fails on one only after an
\* append that committed though it was reported failed: memory went on without
\* that event, and the orders after it were derived from a state no replay
\* comes through. (Deposits are ReplayNeverFails.)
OrdersReplayUnlessAppendLost ==
    [][ LET next == Len(app.events) + 1
        IN  (proc' = "BootFailed" /\ proc' # proc) =>
                \/ journal[next].type = "DepositCredited"
                \/ \E i \in 1 .. next - 1 : LostAppend(i) ]_vars

\* A snapshot that began after n commands had been acknowledged counts at
\* least those n events, also when the process crashed in between, and never
\* one that is not durable.
SnapshotSeesAcknowledged ==
    \A c \in Calls :
        (CommandOf[c].kind = "Snapshot" /\ calls[c].status = "Ok") =>
            calls[c].count \in calls[c].floor .. Len(journal)

\* The actor is the only way memory and journal change together: the journal
\* grows by one event of a command new to it, or stays as it is.
JournalAppendOnly ==
    [][ journal' # journal =>
            /\ Len(journal') = Len(journal) + 1
            /\ SubSeq(journal', 1, Len(journal)) = journal
            /\ journal'[Len(journal')].cmd \notin JournalledIds ]_vars

\* Every call ends: an answer, ActorClosed, or the loss of the connection.
\* A caller is never left waiting on a full mailbox or a stopped actor.
CallsEnd == \A c \in Calls : Outstanding(c) ~> ~Outstanding(c)

\* The journal and the acknowledgements are a CommandLog.
Entry(event) == [cmd |-> event.cmd, outcome |-> FillsOf(event)]
AckedEntries ==
    {[cmd |-> CommandOf[c].cmd, outcome |-> calls[c].fills] :
        c \in {d \in Calls : Acked(d)}}

Log == INSTANCE CommandLog WITH
    log <- [i \in DOMAIN journal |-> Entry(journal[i])],
    acked <- AckedEntries

ImplementsCommandLog == Log!Spec

\* No journal the service writes makes a later boot fail: the test
\* replay_rebuilds_balances_book_and_events replays what the application
\* recorded and expects the application back.
ReplayNeverFails == proc # "BootFailed"
=============================================================================
