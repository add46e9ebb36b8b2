-------------------------- MODULE MarketActorProofs --------------------------
(* Theorems about MarketActor: the journal and the acknowledgements, for    *)
(* every set of calls and commands, every mailbox capacity, every market,   *)
(* and any number of crashes and failing appends.                           *)
EXTENDS MarketActor, SequenceTheorems, FiniteSetTheorems, TLAPS

\* Every caller's record keeps its four fields.
IsCalls(table) ==
    /\ DOMAIN table = Calls
    /\ table = [c \in Calls |-> table[c]]
    /\ \A c \in Calls :
          table[c] = [status |-> table[c].status, fills |-> table[c].fills,
                      count |-> table[c].count, floor |-> table[c].floor]
CallsShape == IsCalls(calls)

JournalledEvents == {journal[i] : i \in DOMAIN journal}
JournalShape == journal \in Seq(JournalledEvents)

\* The event under way is the one derived from the command of a caller.
CurrentShape ==
    \/ current = Idle
    \/ /\ current = [step |-> current.step, call |-> current.call,
                     event |-> current.event]
       /\ current.step \in {"Append", "Apply"}
       /\ IsCommand(current.call)
       /\ current.event.cmd = CommandOf[current.call].cmd

\* Between the commit and the reply the event is durable, and nobody else
\* has been told Ok for its command id.
ApplyingIsJournalled ==
    current.step = "Apply" =>
        /\ current.event \in JournalledEvents
        /\ \A c \in Calls :
              Acked(c) => CommandOf[c].cmd # current.event.cmd

\* The invariant the theorems rest on.
JournalInv ==
    /\ CallsShape /\ JournalShape /\ CurrentShape
    /\ ApplyingIsJournalled
    /\ AckedIsJournalled /\ AckedOnce

-----------------------------------------------------------------------------
(* No error of the application is spelled like a success.                   *)

LEMMA ReserveErrorNotOk ==
    ASSUME NEW a, NEW order PROVE ReserveError(a, order) # "Ok"
BY DEF ReserveError, NoError

LEMMA PlaceErrorNotOk ==
    ASSUME NEW a, NEW order PROVE PlaceOrderInDomain(a, order).err # "Ok"
BY ReserveErrorNotOk DEF PlaceOrderInDomain, Failed, NoError

LEMMA DerivedFacts ==
    ASSUME NEW c
    PROVE  /\ Derived(CommandOf[c]).err # "Ok"
           /\ Derived(CommandOf[c]).err = NoError =>
                 Derived(CommandOf[c]).event.cmd = CommandOf[c].cmd
BY PlaceErrorNotOk DEF Derived, CreditDepositEvent, PlaceOrderEvent, Failed, NoError,
   DepositEvent, OrderEvent

LEMMA ApplyErrorNotOk ==
    ASSUME NEW a, NEW event PROVE ApplyEvent(a, event).err # "Ok"
BY PlaceErrorNotOk DEF ApplyEvent, ApplyDeposit, ApplyOrder, NoError

LEMMA RepliedFacts ==
    ASSUME CallsShape, NEW h, NEW status, NEW fills, NEW count,
           NEW r, r = Replied(h, status, fills, count)
    PROVE  /\ IsCalls(r)
           /\ \A c \in Calls : c # h => r[c] = calls[c]
           /\ \A c \in Calls : c = h => r[c].status = status /\ r[c].fills = fills
           /\ \A c \in Calls : c = h => r[c].count = count /\ r[c].floor = calls[c].floor
<1>1. DOMAIN r = Calls /\ r = [c \in Calls |-> r[c]]
  BY DEF CallsShape, IsCalls, Replied
<1>2. ASSUME NEW c \in Calls, c # h PROVE r[c] = calls[c]
  BY <1>2 DEF CallsShape, IsCalls, Replied
<1>3. ASSUME NEW c \in Calls
      PROVE  calls[c] = [status |-> calls[c].status, fills |-> calls[c].fills,
                         count |-> calls[c].count, floor |-> calls[c].floor]
  BY DEF CallsShape, IsCalls
<1>4. ASSUME NEW c \in Calls, c = h
      PROVE  r[c] = [status |-> status, fills |-> fills,
                     count |-> count, floor |-> calls[c].floor]
  <2>1. r[c] = [calls[c] EXCEPT !.status = status, !.fills = fills, !.count = count]
    BY <1>4 DEF CallsShape, IsCalls, Replied
  <2>2. QED
    BY <2>1, <1>3
<1>5. ASSUME NEW c \in Calls
      PROVE  r[c] = [status |-> r[c].status, fills |-> r[c].fills,
                     count |-> r[c].count, floor |-> r[c].floor]
  <2>1. CASE c = h
    BY <2>1, <1>4
  <2>2. CASE c # h
    <3>1. r[c] = calls[c]
      BY <2>2, <1>2
    <3>2. QED
      BY <3>1, <1>3
  <2>3. QED
    BY <2>1, <2>2
<1>6. IsCalls(r)
  BY <1>1, <1>5 DEF IsCalls
<1>7. ASSUME NEW c \in Calls, c = h
      PROVE  /\ r[c].status = status /\ r[c].fills = fills
             /\ r[c].count = count /\ r[c].floor = calls[c].floor
  <2>1. r[c] = [status |-> status, fills |-> fills, count |-> count, floor |-> calls[c].floor]
    BY <1>4, <1>7
  <2>2. QED
    BY <2>1
<1>8. QED
  BY <1>2, <1>6, <1>7

LEMMA ClosedFacts ==
    ASSUME NEW replied, IsCalls(replied), NEW queue, NEW r, r = Closed(replied, queue)
    PROVE  /\ IsCalls(r)
           /\ \A c \in Calls : r[c].fills = replied[c].fills
           /\ \A c \in Calls : r[c].status = replied[c].status \/ r[c].status = "ActorClosed"
           /\ \A c \in Calls : (\A i \in DOMAIN queue : queue[i] # c) => r[c] = replied[c]
           /\ \A i \in DOMAIN queue : queue[i] \in Calls => r[queue[i]].status = "ActorClosed"
<1>1. DOMAIN r = Calls /\ r = [c \in Calls |-> r[c]]
  BY DEF Closed
<1>2. ASSUME NEW c \in Calls
      PROVE  \/ r[c] = replied[c]
             \/ r[c] = [status |-> "ActorClosed", fills |-> replied[c].fills,
                        count |-> replied[c].count, floor |-> replied[c].floor]
  <2>1. replied[c] = [status |-> replied[c].status, fills |-> replied[c].fills,
                      count |-> replied[c].count, floor |-> replied[c].floor]
    BY DEF IsCalls
  <2>2. r[c] = replied[c] \/ r[c] = [replied[c] EXCEPT !.status = "ActorClosed"]
    BY DEF Closed
  <2>3. QED
    BY <2>1, <2>2
<1>3. ASSUME NEW c \in Calls
      PROVE  /\ r[c].fills = replied[c].fills
             /\ r[c].status = replied[c].status \/ r[c].status = "ActorClosed"
             /\ r[c] = [status |-> r[c].status, fills |-> r[c].fills,
                        count |-> r[c].count, floor |-> r[c].floor]
  <2>1. CASE r[c] = replied[c]
    BY <2>1 DEF IsCalls
  <2>2. CASE r[c] = [status |-> "ActorClosed", fills |-> replied[c].fills,
                     count |-> replied[c].count, floor |-> replied[c].floor]
    BY <2>2
  <2>3. QED
    BY <1>2, <2>1, <2>2
<1>4. IsCalls(r)
  BY <1>1, <1>3 DEF IsCalls
<1>5. ASSUME NEW c \in Calls, \A i \in DOMAIN queue : queue[i] # c
      PROVE  r[c] = replied[c]
  BY <1>5 DEF Closed
<1>6. ASSUME NEW i \in DOMAIN queue, queue[i] \in Calls
      PROVE  r[queue[i]].status = "ActorClosed"
  <2> DEFINE c == queue[i]
  <2>1. replied[c] = [status |-> replied[c].status, fills |-> replied[c].fills,
                      count |-> replied[c].count, floor |-> replied[c].floor]
    BY <1>6 DEF IsCalls
  <2>2. r[c] = [replied[c] EXCEPT !.status = "ActorClosed"]
    BY <1>6 DEF Closed
  <2> HIDE DEF c
  <2>3. r[c].status = "ActorClosed"
    BY <2>1, <2>2
  <2> QED BY <2>3 DEF c
<1>7. QED
  BY <1>3, <1>4, <1>5, <1>6

LEMMA AppendFacts ==
    ASSUME JournalShape, NEW event
    PROVE  LET grown == Append(journal, event)
           IN  /\ grown \in Seq({grown[i] : i \in DOMAIN grown})
               /\ Len(journal) \in Nat /\ DOMAIN journal = 1 .. Len(journal)
               /\ Len(grown) = Len(journal) + 1 /\ DOMAIN grown = 1 .. Len(journal) + 1
               /\ grown[Len(journal) + 1] = event
               /\ \A i \in DOMAIN journal : grown[i] = journal[i]
<1> DEFINE grown == Append(journal, event)
           S == JournalledEvents \cup {event}
<1>1. journal \in Seq(S) /\ event \in S
  BY SeqMonotonic DEF JournalShape
<1>2. /\ grown \in Seq(S)
      /\ Len(grown) = Len(journal) + 1
      /\ \A i \in 1 .. Len(journal) : grown[i] = journal[i]
      /\ grown[Len(journal) + 1] = event
  BY <1>1, AppendProperties
<1>3. Len(journal) \in Nat /\ DOMAIN journal = 1 .. Len(journal)
  BY <1>1, LenProperties
<1>4. DOMAIN grown = 1 .. Len(journal) + 1
  BY <1>2, LenProperties
<1>5. S \subseteq {grown[i] : i \in DOMAIN grown}
  BY <1>2, <1>3, <1>4 DEF JournalledEvents
<1>6. grown \in Seq({grown[i] : i \in DOMAIN grown})
  BY <1>2, <1>5, SeqMonotonic
<1>7. QED
  BY <1>2, <1>3, <1>4, <1>6

-----------------------------------------------------------------------------
(* What one step does to the journal, the command under way and the         *)
(* acknowledgements. The theorems read every step through these lemmas.     *)

\* The append that makes a command durable.
Commits ==
    /\ current.step = "Append"
    /\ current.event.cmd \notin JournalledIds
    /\ journal' = Append(journal, current.event)

\* The reply that acknowledges a command.
Acknowledges(c) ==
    /\ current.step = "Apply" /\ current' = Idle
    /\ c = current.call
    /\ calls'[c].fills = FillsOf(current.event)

\* No call is newly told Ok, and those that were keep their fills.
NoNewAck ==
    \A c \in Calls : calls'[c].status = "Ok" /\ IsCommand(c) =>
        calls[c].status = "Ok" /\ calls'[c].fills = calls[c].fills

LEMMA JournalSteps ==
    ASSUME [Next]_vars PROVE journal' = journal \/ Commits
BY DEF Next, vars, bounds, memory, Boot, ReplayEvent, Spawn, Crash, Call, Send,
   SendClosed, ReceiveCommand, ReceiveSnapshot, ReceiveShutdown, AppendCommits,
   AppendRefused, AppendFails, ApplyJournalled, Commits

LEMMA CurrentSteps ==
    ASSUME CurrentShape, [Next]_vars
    PROVE  /\ CurrentShape'
           /\ current'.step = "Apply" =>
                \/ current' = current
                \/ /\ Commits /\ calls' = calls
                   /\ current'.event = current.event
<1>1. CASE ReceiveCommand
  <2> DEFINE c == Head(mailbox)
             derived == Derived(CommandOf[c])
  <2>1. CASE derived.err # NoError
    BY <1>1, <2>1 DEF ReceiveCommand, CurrentShape
  <2>2. CASE derived.err = NoError
    <3>1. current' = [step |-> "Append", call |-> c, event |-> derived.event]
      BY <1>1, <2>2 DEF ReceiveCommand
    <3>2. IsCommand(c) /\ derived.event.cmd = CommandOf[c].cmd
      BY <1>1, <2>2, DerivedFacts DEF ReceiveCommand
    <3> HIDE DEF c, derived
    <3>3. QED
      BY <3>1, <3>2 DEF CurrentShape, IsCommand
  <2>3. QED
    BY <2>1, <2>2
<1>2. CASE AppendCommits
  <2>1. current = [step |-> "Append", call |-> current.call, event |-> current.event]
    BY <1>2 DEF AppendCommits, CurrentShape, Idle
  <2>2. current' = [step |-> "Apply", call |-> current.call, event |-> current.event]
    BY <1>2, <2>1 DEF AppendCommits
  <2>3. IsCommand(current.call) /\ current.event.cmd = CommandOf[current.call].cmd
    BY <1>2 DEF AppendCommits, CurrentShape, Idle
  <2>4. Commits /\ calls' = calls
    BY <1>2 DEF AppendCommits, Commits
  <2>5. QED
    BY <2>2, <2>3, <2>4 DEF CurrentShape, IsCommand
<1>3. CASE AppendRefused \/ AppendFails \/ ApplyJournalled
  <2>1. current' = Idle
    BY <1>3 DEF AppendRefused, AppendFails, ApplyJournalled, RejectUnjournalled
  <2>2. QED
    BY <2>1 DEF CurrentShape, Idle
<1>4. CASE Crash
  BY <1>4 DEF Crash, CurrentShape, Idle
<1>5. CASE \/ Boot \/ ReplayEvent \/ Spawn \/ ReceiveSnapshot \/ ReceiveShutdown
           \/ \E c \in Calls : Call(c) \/ Send(c) \/ SendClosed(c)
           \/ UNCHANGED vars
  <2>1. current' = current
    BY <1>5 DEF Boot, ReplayEvent, Spawn, ReceiveSnapshot, ReceiveShutdown, Call, Send,
       SendClosed, vars, memory
  <2>2. QED
    BY <2>1 DEF CurrentShape, IsCommand
<1>6. QED
  BY <1>1, <1>2, <1>3, <1>4, <1>5 DEF Next

\* A reply that is not Ok to a command, or any reply to a snapshot or a
\* shutdown, acknowledges nothing.
LEMMA ReplyWithoutAck ==
    ASSUME CallsShape, NEW h, NEW status, NEW fills, NEW count, NEW r,
           r = Replied(h, status, fills, count),
           status # "Ok" \/ ~IsCommand(h)
    PROVE  /\ IsCalls(r)
           /\ \A c \in Calls : r[c].status = "Ok" /\ IsCommand(c) =>
                 calls[c].status = "Ok" /\ r[c].fills = calls[c].fills
<1>1. IsCalls(r)
  BY RepliedFacts
<1>2. \A c \in Calls : c # h => r[c] = calls[c]
  BY RepliedFacts
<1>3. \A c \in Calls : c = h => r[c].status = status
  BY RepliedFacts
<1>4. QED
  BY <1>1, <1>2, <1>3

LEMMA AckSteps ==
    ASSUME CallsShape, CurrentShape, [Next]_vars
    PROVE  /\ CallsShape'
           /\ \A c \in Calls : calls'[c].status = "Ok" /\ IsCommand(c) =>
                 \/ calls[c].status = "Ok" /\ calls'[c].fills = calls[c].fills
                 \/ Acknowledges(c)
<1> DEFINE Goal == CallsShape' /\ NoNewAck
<1>1. CASE UNCHANGED calls
  BY <1>1 DEF CallsShape, IsCalls, NoNewAck
<1>2. CASE Crash
  <2>1. ASSUME NEW c \in Calls
        PROVE  \/ calls'[c] = calls[c]
               \/ calls'[c] = [status |-> "Lost", fills |-> calls[c].fills,
                               count |-> calls[c].count, floor |-> calls[c].floor]
    <3>1. calls[c] = [status |-> calls[c].status, fills |-> calls[c].fills,
                      count |-> calls[c].count, floor |-> calls[c].floor]
      BY DEF CallsShape, IsCalls
    <3>2. calls'[c] = calls[c] \/ calls'[c] = [calls[c] EXCEPT !.status = "Lost"]
      BY <1>2 DEF Crash
    <3>3. QED
      BY <3>1, <3>2
  <2>2. DOMAIN calls' = Calls /\ calls' = [c \in Calls |-> calls'[c]]
    BY <1>2 DEF Crash
  <2>3. ASSUME NEW c \in Calls
        PROVE  calls'[c] = [status |-> calls'[c].status, fills |-> calls'[c].fills,
                            count |-> calls'[c].count, floor |-> calls'[c].floor]
    <3>1. CASE calls'[c] = calls[c]
      BY <3>1 DEF CallsShape, IsCalls
    <3>2. CASE calls'[c] = [status |-> "Lost", fills |-> calls[c].fills,
                            count |-> calls[c].count, floor |-> calls[c].floor]
      BY <3>2
    <3>3. QED
      BY <2>1, <3>1, <3>2
  <2>4. CallsShape'
    BY <2>2, <2>3 DEF CallsShape, IsCalls
  <2>5. ASSUME NEW c \in Calls, calls'[c].status = "Ok" PROVE calls'[c] = calls[c]
    <3>1. [status |-> "Lost", fills |-> calls[c].fills,
           count |-> calls[c].count, floor |-> calls[c].floor].status # "Ok"
      OBVIOUS
    <3>2. QED
      BY <2>1, <2>5, <3>1
  <2>6. QED
    BY <2>4, <2>5
<1>3. ASSUME NEW c \in Calls, Call(c) \/ Send(c) \/ SendClosed(c)
      PROVE  Goal
  <2>1. PICK status, floor :
          /\ status # "Ok"
          /\ calls' = [calls EXCEPT ![c].status = status, ![c].floor = floor]
    <3>1. CASE Call(c)
      BY <3>1 DEF Call
    <3>2. CASE Send(c)
      <4>1. calls' = [calls EXCEPT ![c].status = "Queued", ![c].floor = calls[c].floor]
        BY <3>2 DEF Send, CallsShape, IsCalls
      <4>2. QED
        BY <4>1
    <3>3. CASE SendClosed(c)
      <4>1. calls' = [calls EXCEPT ![c].status = "ActorClosed", ![c].floor = calls[c].floor]
        BY <3>3 DEF SendClosed, CallsShape, IsCalls
      <4>2. QED
        BY <4>1
    <3>4. QED
      BY <1>3, <3>1, <3>2, <3>3
  <2>2. calls[c] = [status |-> calls[c].status, fills |-> calls[c].fills,
                    count |-> calls[c].count, floor |-> calls[c].floor]
    BY DEF CallsShape, IsCalls
  <2>3. calls'[c] = [calls[c] EXCEPT !.status = status, !.floor = floor]
    BY <2>1 DEF CallsShape, IsCalls
  <2>4. calls'[c] = [status |-> status, fills |-> calls[c].fills,
                     count |-> calls[c].count, floor |-> floor]
    BY <2>2, <2>3
  <2>5. \A d \in Calls : d # c => calls'[d] = calls[d]
    BY <2>1 DEF CallsShape, IsCalls
  <2>6. DOMAIN calls' = Calls /\ calls' = [d \in Calls |-> calls'[d]]
    BY <2>1 DEF CallsShape, IsCalls
  <2>7. CallsShape'
    BY <2>4, <2>5, <2>6 DEF CallsShape, IsCalls
  <2>8. calls'[c].status # "Ok"
    BY <2>1, <2>4
  <2>9. QED
    BY <2>5, <2>7, <2>8 DEF NoNewAck
<1>4. CASE ReceiveCommand
  <2> DEFINE c == Head(mailbox)
             derived == Derived(CommandOf[c])
  <2>1. CASE derived.err # NoError
    <3>1. calls' = Replied(c, derived.err, <<>>, 0)
      BY <1>4, <2>1 DEF ReceiveCommand
    <3>2. derived.err # "Ok"
      BY DerivedFacts
    <3>3. QED
      BY <3>1, <3>2, ReplyWithoutAck DEF CallsShape, IsCalls, NoNewAck
  <2>2. CASE derived.err = NoError
    BY <1>1, <1>4, <2>2 DEF ReceiveCommand
  <2>3. QED
    BY <2>1, <2>2
<1>5. CASE ReceiveSnapshot
  <2>1. calls' = Replied(Head(mailbox), "Ok", <<>>, Len(app.events))
        /\ ~IsCommand(Head(mailbox))
    BY <1>5 DEF ReceiveSnapshot, IsCommand
  <2>2. QED
    BY <2>1, ReplyWithoutAck DEF CallsShape, IsCalls, NoNewAck
<1>6. CASE ReceiveShutdown
  <2> DEFINE replied == Replied(Head(mailbox), "Ok", <<>>, 0)
  <2>1. calls' = Closed(replied, Tail(mailbox)) /\ ~IsCommand(Head(mailbox))
    BY <1>6 DEF ReceiveShutdown, IsCommand
  <2>2. /\ IsCalls(replied)
        /\ \A c \in Calls : replied[c].status = "Ok" /\ IsCommand(c) =>
              calls[c].status = "Ok" /\ replied[c].fills = calls[c].fills
    BY <2>1, ReplyWithoutAck
  <2> HIDE DEF replied
  <2>3. /\ IsCalls(calls')
        /\ \A c \in Calls : calls'[c].fills = replied[c].fills
        /\ \A c \in Calls : calls'[c].status = replied[c].status
                             \/ calls'[c].status = "ActorClosed"
    BY <2>1, <2>2, ClosedFacts
  <2>4. QED
    BY <2>2, <2>3 DEF CallsShape, IsCalls
<1>7. CASE AppendRefused \/ AppendFails
  <2>1. calls' = Replied(current.call, "JournalAppendFailed", <<>>, 0)
    BY <1>7 DEF AppendRefused, AppendFails, RejectUnjournalled
  <2>2. QED
    BY <2>1, ReplyWithoutAck DEF CallsShape, IsCalls, NoNewAck
<1>8. CASE ApplyJournalled
  <2> DEFINE applied == ApplyEvent(app, current.event)
             h == current.call
  <2>1. current.step = "Apply" /\ current' = Idle
    BY <1>8 DEF ApplyJournalled
  <2>2. CASE applied.err = NoError
    <3>1. calls' = Replied(h, "Ok", FillsOf(current.event), 0)
      BY <1>8, <2>2 DEF ApplyJournalled
    <3>2. /\ IsCalls(calls')
          /\ \A c \in Calls : c # h => calls'[c] = calls[c]
          /\ \A c \in Calls : c = h => calls'[c].fills = FillsOf(current.event)
      BY <3>1, RepliedFacts
    <3>3. QED
      BY <2>1, <3>2 DEF CallsShape, IsCalls, Acknowledges
  <2>3. CASE applied.err # NoError
    <3> DEFINE replied == Replied(h, applied.err, <<>>, 0)
    <3>1. calls' = Closed(replied, mailbox)
      BY <1>8, <2>3 DEF ApplyJournalled
    <3>2. /\ IsCalls(replied)
          /\ \A c \in Calls : replied[c].status = "Ok" /\ IsCommand(c) =>
                calls[c].status = "Ok" /\ replied[c].fills = calls[c].fills
      BY ApplyErrorNotOk, ReplyWithoutAck
    <3> HIDE DEF replied
    <3>3. /\ IsCalls(calls')
          /\ \A c \in Calls : calls'[c].fills = replied[c].fills
          /\ \A c \in Calls : calls'[c].status = replied[c].status
                               \/ calls'[c].status = "ActorClosed"
      BY <3>1, <3>2, ClosedFacts
    <3>4. QED
      BY <3>2, <3>3 DEF CallsShape, IsCalls
  <2>4. QED
    BY <2>2, <2>3
<1>9. UNCHANGED calls
      \/ Crash \/ (\E c \in Calls : Call(c) \/ Send(c) \/ SendClosed(c))
      \/ ReceiveCommand \/ ReceiveSnapshot \/ ReceiveShutdown
      \/ AppendRefused \/ AppendFails \/ ApplyJournalled
  BY DEF Next, vars, Boot, ReplayEvent, Spawn, AppendCommits
<1>10. QED
  BY <1>1, <1>2, <1>3, <1>4, <1>5, <1>6, <1>7, <1>8, <1>9 DEF NoNewAck

-----------------------------------------------------------------------------

LEMMA InitJournalInv == Init => JournalInv
<1> SUFFICES ASSUME Init PROVE JournalInv
  OBVIOUS
<1>1. \A c \in Calls : calls[c] = Unsent
  BY DEF Init
<1>2. CallsShape
  BY <1>1 DEF Init, CallsShape, IsCalls, Unsent
<1>3. JournalShape
  BY EmptySeq DEF Init, JournalShape
<1>4. CurrentShape /\ ApplyingIsJournalled
  BY DEF Init, CurrentShape, ApplyingIsJournalled, Idle
<1>5. \A c \in Calls : ~Acked(c)
  BY <1>1 DEF Acked, Unsent
<1>6. QED
  BY <1>2, <1>3, <1>4, <1>5 DEF JournalInv, AckedIsJournalled, AckedOnce

\* An entry of the journal stays where it is.
LEMMA JournalGrows ==
    ASSUME JournalShape, [Next]_vars
    PROVE  /\ JournalShape'
           /\ \A i \in DOMAIN journal : i \in DOMAIN journal' /\ journal'[i] = journal[i]
           /\ journal' # journal => Commits
<1>1. CASE journal' = journal
  BY <1>1 DEF JournalShape, JournalledEvents
<1>2. CASE Commits
  BY <1>2, AppendFacts DEF Commits, JournalShape, JournalledEvents
<1>3. QED
  BY <1>1, <1>2, JournalSteps

LEMMA NextJournalInv == JournalInv /\ [Next]_vars => JournalInv'
<1> SUFFICES ASSUME JournalInv, [Next]_vars PROVE JournalInv'
  OBVIOUS
<1> USE DEF JournalInv
<1>1. CallsShape' /\ CurrentShape' /\ JournalShape'
  BY AckSteps, CurrentSteps, JournalGrows
\* A reply of Ok to a command is an old one, or the reply to the command
\* that was being applied.
<1>2. ASSUME NEW c \in Calls, Acked(c)'
      PROVE  \/ Acked(c) /\ calls'[c].fills = calls[c].fills
             \/ IsCommand(c) /\ Acknowledges(c)
  BY <1>2, AckSteps DEF Acked, IsCommand
<1>3. ASSUME NEW c \in Calls, Acknowledges(c)
      PROVE  /\ CommandOf[c].cmd = current.event.cmd
             /\ current.event \in JournalledEvents
             /\ \A d \in Calls : Acked(d) => CommandOf[d].cmd # current.event.cmd
  BY <1>3 DEF Acknowledges, CurrentShape, ApplyingIsJournalled, Idle
<1>4. AckedIsJournalled'
  <2> SUFFICES ASSUME NEW c \in Calls, Acked(c)'
               PROVE  \E i \in DOMAIN journal' : /\ journal'[i].cmd = CommandOf[c].cmd
                                                 /\ FillsOf(journal'[i]) = calls'[c].fills
    BY DEF AckedIsJournalled, FillsOf
  <2>1. \E i \in DOMAIN journal : /\ journal[i].cmd = CommandOf[c].cmd
                                  /\ FillsOf(journal[i]) = calls'[c].fills
    <3>1. CASE Acked(c) /\ calls'[c].fills = calls[c].fills
      BY <3>1 DEF AckedIsJournalled
    <3>2. CASE Acknowledges(c)
      <4>1. PICK i \in DOMAIN journal : journal[i] = current.event
        BY <1>3, <3>2 DEF JournalledEvents
      <4>2. QED
        BY <1>3, <3>2, <4>1 DEF Acknowledges
    <3>3. QED
      BY <1>2, <3>1, <3>2
  <2>2. QED
    BY <2>1, JournalGrows
<1>5. AckedOnce'
  <2> SUFFICES ASSUME NEW c \in Calls, NEW d \in Calls, Acked(c)', Acked(d)',
                      CommandOf[c].cmd = CommandOf[d].cmd
               PROVE  c = d
    BY DEF AckedOnce
  <2>1. CASE Acked(c) /\ Acked(d)
    BY <2>1 DEF AckedOnce
  <2>2. CASE Acknowledges(c) /\ Acknowledges(d)
    BY <2>2 DEF Acknowledges
  <2>3. CASE Acked(c) /\ Acknowledges(d)
    BY <1>3, <2>3
  <2>4. CASE Acknowledges(c) /\ Acked(d)
    BY <1>3, <2>4
  <2>5. QED
    BY <1>2, <2>1, <2>2, <2>3, <2>4
\* While an event is being applied nobody is answered Ok, and when its append
\* committed the UNIQUE constraint had found no row of its command id.
<1>6. ApplyingIsJournalled'
  <2> SUFFICES ASSUME current'.step = "Apply"
               PROVE  /\ current'.event \in JournalledEvents'
                      /\ \A c \in Calls :
                            Acked(c)' => CommandOf[c].cmd # current'.event.cmd
    BY DEF ApplyingIsJournalled
  <2>1. ASSUME NEW c \in Calls, Acked(c)' PROVE Acked(c)
    BY <1>2, <2>1 DEF Acknowledges, Idle
  <2>2. CASE current' = current
    <3>1. current.event \in JournalledEvents'
      BY <2>2, JournalGrows DEF ApplyingIsJournalled, JournalledEvents
    <3>2. QED
      BY <2>1, <2>2, <3>1 DEF ApplyingIsJournalled
  <2>3. CASE Commits /\ current'.event = current.event
    <3>1. current.event \in JournalledEvents'
      BY <2>3, AppendFacts DEF Commits, JournalledEvents
    <3>2. ASSUME NEW c \in Calls, Acked(c) PROVE CommandOf[c].cmd # current.event.cmd
      BY <2>3, <3>2 DEF Commits, AckedIsJournalled, JournalledIds
    <3>3. QED
      BY <2>1, <2>3, <3>1, <3>2
  <2>4. QED
    BY <2>2, <2>3, CurrentSteps
<1>7. QED
  BY <1>1, <1>4, <1>5, <1>6

LEMMA JournalInvHolds == Spec => []JournalInv
<1>1. QED
  BY InitJournalInv, NextJournalInv, PTL DEF Spec

-----------------------------------------------------------------------------
(* Memory and journal.                                                      *)

\* The events of a sequence are in another one, in its order; they are among
\* its first k.
Follows(events, j) ==
    \A n \in DOMAIN events :
        \E i \in DOMAIN j :
            /\ j[i] = events[n]
            /\ \A m \in 1 .. n - 1 : \E h \in 1 .. i - 1 : j[h] = events[m]

Within(events, j, k) == \A n \in DOMAIN events : \E i \in 1 .. k : j[i] = events[n]

AppShape(a) == {"events", "seen"} \subseteq DOMAIN a

\* From the commit to the reply, the event under way is the last of the
\* journal and the only one that is not in memory in its place.
ApplyingIsLast ==
    current.step = "Apply" =>
        /\ journal # <<>> /\ current.event = journal[Len(journal)]
        /\ Len(app.events) < Len(journal)
        /\ Within(app.events, journal, Len(journal) - 1)

Backed(a, j) ==
    /\ AppShape(a)
    /\ a.events \in Seq({j[i] : i \in DOMAIN j})
    /\ Len(a.events) <= Len(j)
    /\ Follows(a.events, j)

MemoryInv ==
    /\ Backed(app, journal)
    /\ proc \in {"Down", "BootFailed"} => app = NewApp
    /\ proc = "Booting" => \A n \in DOMAIN app.events : journal[n] = app.events[n]
    /\ proc # "Running" => current = Idle
    /\ ApplyingIsLast

\* An order placed in the domain model changes balances and book, no events.
LEMMA PlacedKeepsEvents ==
    ASSUME NEW a, AppShape(a), NEW order, PlaceOrderInDomain(a, order).err = NoError
    PROVE  /\ AppShape(PlaceOrderInDomain(a, order).app)
           /\ PlaceOrderInDomain(a, order).app.events = a.events
<1>1. /\ ~IsTerminal(order)
      /\ ReserveError(a, order) = NoError
  BY DEF PlaceOrderInDomain, Failed, NoError
<1> DEFINE amount == ReservationAmount(order)
           account == ReservationAccount(order)
           x == [a.available EXCEPT ![account] = @ - amount]
           y == [a.reserved EXCEPT ![account] = @ + amount]
           z == PlaceInEngine(a.engine, order).engine
           b == [a EXCEPT !.available = x, !.reserved = y, !.engine = z]
<1>2. PlaceOrderInDomain(a, order).app = b
  BY <1>1 DEF PlaceOrderInDomain
<1> HIDE DEF x, y, z
<1>3. AppShape(b) /\ b.events = a.events
  BY DEF AppShape
<1> QED BY <1>2, <1>3

\* apply_event records the event it applied; one it refused it does not.
LEMMA RecordsApplied ==
    ASSUME NEW a, AppShape(a), NEW event
    PROVE  /\ AppShape(ApplyEvent(a, event).app)
           /\ ApplyEvent(a, event).err = NoError =>
                 ApplyEvent(a, event).app.events = Append(a.events, event)
           /\ ApplyEvent(a, event).err # NoError =>
                 ApplyEvent(a, event).app.events = a.events
<1> DEFINE Goal(r) == /\ AppShape(r.app)
                      /\ r.err = NoError => r.app.events = Append(a.events, event)
                      /\ r.err # NoError => r.app.events = a.events
<1>1. ASSUME NEW b, AppShape(b), b.events = a.events
      PROVE  /\ AppShape(RecordAppliedEvent(b, event))
             /\ RecordAppliedEvent(b, event).events = Append(a.events, event)
  BY <1>1 DEF RecordAppliedEvent, AppShape
<1>2. ASSUME NEW r, r.app = a, r.err # NoError
      PROVE  Goal(r)
  BY <1>2
<1>3. Goal(ApplyDeposit(a, event))
  <2>1. CASE a.available[event.account] + event.amount > MaxAmount
    BY <1>2, <2>1 DEF ApplyDeposit, NoError
  <2>2. CASE ~(a.available[event.account] + event.amount > MaxAmount)
    <3> DEFINE x == [a.available EXCEPT ![event.account] = @ + event.amount]
               b == [a EXCEPT !.available = x]
    <3>1. ApplyDeposit(a, event) = [err |-> NoError, app |-> RecordAppliedEvent(b, event)]
      BY <2>2 DEF ApplyDeposit
    <3> HIDE DEF x
    <3>2. AppShape(b) /\ b.events = a.events
      BY DEF AppShape
    <3> HIDE DEF b
    <3>3. /\ AppShape(RecordAppliedEvent(b, event))
          /\ RecordAppliedEvent(b, event).events = Append(a.events, event)
      BY <1>1, <3>2
    <3> QED BY <3>1, <3>3
  <2> QED BY <2>1, <2>2
<1>4. Goal(ApplyOrder(a, event))
  <2> DEFINE placed == PlaceOrderInDomain(a, event.order)
  <2>1. CASE placed.err # NoError
    BY <1>2, <2>1 DEF ApplyOrder
  <2>2. CASE placed.err = NoError
    <3>1. AppShape(placed.app) /\ placed.app.events = a.events
      BY <2>2, PlacedKeepsEvents
    <3>2. /\ AppShape(RecordAppliedEvent(placed.app, event))
          /\ RecordAppliedEvent(placed.app, event).events = Append(a.events, event)
      BY <1>1, <3>1
    <3>3. ApplyOrder(a, event) =
             IF placed.fills # event.fills
             THEN [err |-> "ReplayMismatch", app |-> placed.app]
             ELSE [err |-> NoError, app |-> RecordAppliedEvent(placed.app, event)]
      BY <2>2 DEF ApplyOrder
    <3> HIDE DEF placed
    <3> QED BY <3>1, <3>2, <3>3 DEF NoError
  <2> QED BY <2>1, <2>2
<1>5. CASE event.cmd \in a.seen
  BY <1>2, <1>5 DEF ApplyEvent, NoError
<1>6. CASE event.cmd \notin a.seen
  BY <1>3, <1>4, <1>6 DEF ApplyEvent
<1> QED BY <1>5, <1>6

\* One more entry in the journal disturbs nothing in memory.
LEMMA FollowsGrown ==
    ASSUME NEW S, NEW j \in Seq(S), NEW k, NEW events, Follows(events, j),
           \A i \in DOMAIN j : i \in DOMAIN k /\ k[i] = j[i]
    PROVE  Follows(events, k) /\ Within(events, k, Len(j))
<1>1. DOMAIN j = 1 .. Len(j) /\ Len(j) \in Nat
  OBVIOUS
<1>2. ASSUME NEW n \in DOMAIN events
      PROVE  \E i \in DOMAIN k : /\ k[i] = events[n] /\ i \in 1 .. Len(j)
                /\ \A m \in 1 .. n - 1 : \E h \in 1 .. i - 1 : k[h] = events[m]
  <2>1. PICK i \in DOMAIN j :
           /\ j[i] = events[n]
           /\ \A m \in 1 .. n - 1 : \E h \in 1 .. i - 1 : j[h] = events[m]
    BY DEF Follows
  <2>2. \A h \in 1 .. i - 1 : k[h] = j[h]
    BY <1>1, <2>1
  <2> QED BY <1>1, <2>1, <2>2
<1> QED BY <1>2 DEF Follows, Within

\* The journal's last event, applied after all that are before it.
LEMMA FollowsAppended ==
    ASSUME NEW S, NEW j \in Seq(S), NEW events \in Seq(S), j # <<>>,
           Follows(events, j), Within(events, j, Len(j) - 1)
    PROVE  LET grown == Append(events, j[Len(j)])
           IN  grown \in Seq(S) /\ Len(grown) = Len(events) + 1 /\ Follows(grown, j)
<1> DEFINE grown == Append(events, j[Len(j)])
           last == Len(events) + 1
<1>1. Len(j) \in DOMAIN j /\ j[Len(j)] \in S
  OBVIOUS
<1>2. /\ grown \in Seq(S) /\ Len(grown) = last /\ grown[last] = j[Len(j)]
      /\ DOMAIN grown = 1 .. last /\ last \in Nat
      /\ \A n \in 1 .. last - 1 : n \in DOMAIN events /\ grown[n] = events[n]
  BY <1>1
<1> HIDE DEF grown, last
<1>3. ASSUME NEW n \in DOMAIN grown
      PROVE  \E i \in DOMAIN j :
                /\ j[i] = grown[n]
                /\ \A m \in 1 .. n - 1 : \E h \in 1 .. i - 1 : j[h] = grown[m]
  <2>1. CASE n = last
    <3>1. \A m \in 1 .. last - 1 : \E h \in 1 .. Len(j) - 1 : j[h] = grown[m]
      BY <1>2 DEF Within
    <3> QED BY <1>1, <1>2, <2>1, <3>1
  <2>2. CASE n # last
    <3>1. n \in DOMAIN events /\ grown[n] = events[n] /\ n \in 1 .. last - 1
      BY <1>2, <2>2
    <3>2. PICK i \in DOMAIN j :
             /\ j[i] = events[n]
             /\ \A m \in 1 .. n - 1 : \E h \in 1 .. i - 1 : j[h] = events[m]
      BY <3>1 DEF Follows
    <3>3. \A m \in 1 .. n - 1 : grown[m] = events[m]
      BY <1>2, <3>1
    <3> QED BY <3>1, <3>2, <3>3
  <2> QED BY <2>1, <2>2
<1> QED BY <1>2, <1>3 DEF grown, last, Follows

\* A prefix of the journal follows it.
LEMMA PrefixFollows ==
    ASSUME NEW S, NEW j \in Seq(S), NEW events \in Seq(S), Len(events) <= Len(j),
           \A n \in DOMAIN events : j[n] = events[n]
    PROVE  Follows(events, j)
<1>1. /\ DOMAIN events = 1 .. Len(events) /\ DOMAIN j = 1 .. Len(j)
      /\ Len(events) \in Nat /\ Len(j) \in Nat
  OBVIOUS
<1>2. ASSUME NEW n \in DOMAIN events
      PROVE  \E i \in DOMAIN j :
                /\ j[i] = events[n]
                /\ \A m \in 1 .. n - 1 : \E h \in 1 .. i - 1 : j[h] = events[m]
  <2>1. n \in DOMAIN j /\ n \in Nat /\ \A m \in 1 .. n - 1 : j[m] = events[m]
    BY <1>1
  <2> QED BY <2>1
<1> QED BY <1>2 DEF Follows

LEMMA NewAppBacked ==
    ASSUME NEW S, NEW j \in Seq(S) PROVE Backed(NewApp, j) /\ NewApp.events = <<>>
<1>1. NewApp.events = <<>> /\ AppShape(NewApp)
  BY DEF NewApp, AppShape
<1>2. /\ <<>> \in Seq({j[i] : i \in DOMAIN j})
      /\ Len(<<>>) = 0 /\ Len(j) \in Nat /\ DOMAIN <<>> = {}
  OBVIOUS
<1> QED BY <1>1, <1>2 DEF Backed, Follows

\* Memory that stays is still backed by a journal that has grown.
LEMMA BackedGrown ==
    ASSUME NEW S, NEW j \in Seq(S), NEW T, NEW k \in Seq(T),
           \A i \in DOMAIN j : i \in DOMAIN k /\ k[i] = j[i],
           NEW a, Backed(a, j)
    PROVE  Backed(a, k) /\ Len(j) <= Len(k) /\ Within(a.events, k, Len(j))
<1>1. Follows(a.events, k) /\ Within(a.events, k, Len(j))
  BY FollowsGrown DEF Backed
<1>2. Len(j) <= Len(k)
  <2>1. /\ DOMAIN j = 1 .. Len(j) /\ DOMAIN k = 1 .. Len(k)
        /\ Len(j) \in Nat /\ Len(k) \in Nat
    OBVIOUS
  <2> QED BY <2>1
<1>3. {j[i] : i \in DOMAIN j} \subseteq {k[i] : i \in DOMAIN k}
  OBVIOUS
<1>4. a.events \in Seq({k[i] : i \in DOMAIN k})
  BY <1>3, SeqMonotonic DEF Backed
<1>5. Len(a.events) \in Nat /\ Len(j) \in Nat /\ Len(k) \in Nat
  BY DEF Backed
<1> QED BY <1>1, <1>2, <1>4, <1>5 DEF Backed

\* What the boot has replayed is a prefix of the journal; one more event of
\* it, applied in its place, keeps it one.
LEMMA BackedReplayed ==
    ASSUME NEW S, NEW j \in Seq(S), NEW a, Backed(a, j), Len(a.events) < Len(j),
           \A n \in DOMAIN a.events : j[n] = a.events[n],
           NEW b, AppShape(b), b.events = Append(a.events, j[Len(a.events) + 1])
    PROVE  Backed(b, j) /\ \A n \in DOMAIN b.events : j[n] = b.events[n]
<1> DEFINE T == {j[i] : i \in DOMAIN j}
           last == Len(a.events) + 1
<1>1. /\ DOMAIN j = 1 .. Len(j) /\ Len(j) \in Nat /\ Len(a.events) \in Nat
      /\ a.events \in Seq(T)
  BY DEF Backed
<1>2. last \in DOMAIN j /\ j[last] \in T
  BY <1>1
<1>3. /\ b.events \in Seq(T) /\ Len(b.events) = last /\ b.events[last] = j[last]
      /\ DOMAIN b.events = 1 .. last /\ DOMAIN a.events = 1 .. Len(a.events)
      /\ \A n \in 1 .. Len(a.events) : b.events[n] = a.events[n]
  <2> HIDE DEF T
  <2> QED BY <1>1, <1>2
<1>4. \A n \in DOMAIN b.events : j[n] = b.events[n]
  BY <1>1, <1>3
<1>5. j \in Seq(T)
  BY <1>1
<1>6. Follows(b.events, j)
  <2>1. Len(b.events) <= Len(j)
    BY <1>1, <1>2, <1>3
  <2> HIDE DEF T, last
  <2> QED BY <1>3, <1>4, <1>5, <2>1, PrefixFollows
<1> QED BY <1>1, <1>2, <1>3, <1>4, <1>6 DEF Backed

\* The event under way is applied after every event that is before it in the
\* journal and in memory.
LEMMA BackedApplied ==
    ASSUME NEW S, NEW j \in Seq(S), j # <<>>, NEW a, Backed(a, j),
           Len(a.events) < Len(j), Within(a.events, j, Len(j) - 1),
           NEW b, AppShape(b), b.events = Append(a.events, j[Len(j)])
    PROVE  Backed(b, j)
<1> DEFINE T == {j[i] : i \in DOMAIN j}
<1>1. /\ DOMAIN j = 1 .. Len(j) /\ Len(j) \in Nat /\ Len(a.events) \in Nat
      /\ a.events \in Seq(T) /\ Follows(a.events, j)
  BY DEF Backed
<1>2. j \in Seq(T)
  BY <1>1
<1>3. b.events \in Seq(T) /\ Len(b.events) = Len(a.events) + 1 /\ Follows(b.events, j)
  <2> HIDE DEF T
  <2> QED BY <1>1, <1>2, FollowsAppended
<1> QED BY <1>1, <1>3 DEF Backed

LEMMA InitMemoryInv == Init => MemoryInv
<1> SUFFICES ASSUME Init PROVE MemoryInv
  OBVIOUS
<1>1. journal \in Seq({}) /\ app = NewApp /\ proc = "Down" /\ current = Idle
  BY DEF Init
<1>2. current.step # "Apply"
  BY <1>1 DEF Idle
<1> QED BY <1>1, <1>2, NewAppBacked DEF MemoryInv, ApplyingIsLast

\* Nothing is received, appended or applied but by a running actor, so the
\* memory a crash empties is rebuilt by the boot alone.
LEMMA NextMemoryInv == JournalInv /\ MemoryInv /\ [Next]_vars => MemoryInv'
<1> SUFFICES ASSUME JournalInv, MemoryInv, [Next]_vars PROVE MemoryInv'
  OBVIOUS
<1>1. /\ journal \in Seq(JournalledEvents) /\ journal' \in Seq(JournalledEvents')
      /\ \A i \in DOMAIN journal : i \in DOMAIN journal' /\ journal'[i] = journal[i]
      /\ DOMAIN journal = 1 .. Len(journal) /\ Len(journal) \in Nat
  BY JournalGrows DEF JournalInv, JournalShape
<1>2. Backed(app, journal)
  BY DEF MemoryInv
<1>3. Backed(app, journal') /\ Within(app.events, journal', Len(journal))
  BY <1>1, <1>2, BackedGrown
<1>4. DOMAIN app.events \subseteq DOMAIN journal
  BY <1>1, <1>2 DEF Backed
<1>5. CurrentShape
  BY DEF JournalInv
<1>6. ASSUME UNCHANGED <<journal, app, proc, current>>
      PROVE  MemoryInv'
  BY <1>6 DEF MemoryInv, ApplyingIsLast
<1>7. CASE Boot
  <2>1. app = NewApp /\ DOMAIN app.events = {} /\ UNCHANGED <<journal, app, current>>
        /\ proc' = "Booting" /\ current = Idle
    BY <1>1, <1>7, NewAppBacked DEF Boot, MemoryInv
  <2> QED BY <1>2, <2>1 DEF MemoryInv, ApplyingIsLast, Idle
<1>8. CASE ReplayEvent
  <2> DEFINE event == journal[Len(app.events) + 1]
             applied == ApplyEvent(app, event)
  <2>1. /\ Len(app.events) < Len(journal) /\ UNCHANGED <<journal, current>>
        /\ current = Idle
        /\ \A n \in DOMAIN app.events : journal[n] = app.events[n]
    BY <1>8 DEF ReplayEvent, MemoryInv
  <2>2. CASE applied.err = NoError
    <3>1. app' = applied.app /\ proc' = "Booting"
      BY <1>8, <2>2 DEF ReplayEvent
    <3>2. AppShape(app') /\ app'.events = Append(app.events, event)
      BY <1>2, <2>2, <3>1, RecordsApplied DEF Backed
    <3>3. Backed(app', journal) /\ \A n \in DOMAIN app'.events : journal[n] = app'.events[n]
      BY <1>1, <1>2, <2>1, <3>2, BackedReplayed
    <3> QED BY <2>1, <3>1, <3>3 DEF MemoryInv, ApplyingIsLast, Idle
  <2>3. CASE applied.err # NoError
    <3>1. app' = NewApp /\ proc' = "BootFailed"
      BY <1>8, <2>3 DEF ReplayEvent
    <3>2. Backed(NewApp, journal)
      BY <1>1, NewAppBacked
    <3> QED BY <2>1, <3>1, <3>2 DEF MemoryInv, ApplyingIsLast, Idle
  <2> QED BY <2>2, <2>3
<1>9. CASE Spawn
  <2>1. proc' = "Running" /\ UNCHANGED <<journal, app, current>>
    BY <1>9 DEF Spawn
  <2> QED BY <2>1 DEF MemoryInv, ApplyingIsLast
<1>10. CASE Crash
  <2>1. proc' = "Down" /\ app' = NewApp /\ current' = Idle /\ journal' = journal
    BY <1>10 DEF Crash
  <2>2. Backed(NewApp, journal)
    BY <1>1, NewAppBacked
  <2> QED BY <2>1, <2>2 DEF MemoryInv, ApplyingIsLast, Idle
<1>11. CASE \E c \in Calls : Call(c) \/ Send(c) \/ SendClosed(c)
  <2>1. UNCHANGED <<journal, app, proc, current>>
    BY <1>11 DEF Call, Send, SendClosed, memory
  <2> QED BY <1>6, <2>1
<1>12. CASE ReceiveCommand
  <2>1. /\ proc = "Running" /\ UNCHANGED <<journal, app, proc>>
        /\ current' = current \/ current'.step = "Append"
    BY <1>12 DEF ReceiveCommand, CanReceive
  <2> QED BY <2>1 DEF MemoryInv, ApplyingIsLast
<1>13. CASE ReceiveSnapshot
  BY <1>6, <1>13 DEF ReceiveSnapshot
<1>14. CASE ReceiveShutdown
  <2>1. /\ proc' = "Stopped" /\ current = Idle /\ UNCHANGED <<journal, app, current>>
    BY <1>14 DEF ReceiveShutdown, CanReceive
  <2> QED BY <2>1 DEF MemoryInv, ApplyingIsLast, Idle
<1>15. CASE AppendCommits
  <2>1. /\ journal' = Append(journal, current.event)
        /\ current' = [current EXCEPT !.step = "Apply"]
        /\ current.step = "Append" /\ UNCHANGED <<app, proc>>
    BY <1>15 DEF AppendCommits
  <2>2. proc = "Running"
    BY <2>1 DEF MemoryInv, Idle
  <2>3. current' = [step |-> "Apply", call |-> current.call, event |-> current.event]
    BY <1>5, <2>1 DEF CurrentShape, Idle
  <2>4. current'.event = current.event
    BY <2>3
  <2>5. /\ Len(journal') = Len(journal) + 1 /\ journal'[Len(journal) + 1] = current.event
        /\ DOMAIN journal' = 1 .. Len(journal) + 1
    BY <2>1, AppendFacts DEF JournalInv
  <2>6. journal' # <<>> /\ Len(app.events) < Len(journal') /\ Len(journal') - 1 = Len(journal)
    BY <1>1, <1>2, <2>5 DEF Backed
  <2>7. ApplyingIsLast'
    BY <1>3, <2>1, <2>4, <2>5, <2>6 DEF ApplyingIsLast
  <2> QED BY <1>3, <2>1, <2>2, <2>7 DEF MemoryInv
<1>16. CASE AppendRefused \/ AppendFails
  <2>1. current' = Idle /\ current.step = "Append" /\ UNCHANGED <<app, proc>>
    BY <1>16 DEF AppendRefused, AppendFails, RejectUnjournalled
  <2>2. proc = "Running"
    BY <2>1 DEF MemoryInv, Idle
  <2> QED BY <1>3, <2>1, <2>2 DEF MemoryInv, ApplyingIsLast, Idle
<1>17. CASE ApplyJournalled
  <2> DEFINE applied == ApplyEvent(app, current.event)
  <2>1. /\ current.step = "Apply" /\ current' = Idle /\ app' = applied.app
        /\ journal' = journal /\ proc' \in {proc, "Stopped"}
    BY <1>17 DEF ApplyJournalled
  <2>2. /\ proc = "Running" /\ journal # <<>>
        /\ current.event = journal[Len(journal)] /\ Len(app.events) < Len(journal)
        /\ Within(app.events, journal, Len(journal) - 1)
    BY <2>1 DEF MemoryInv, ApplyingIsLast, Idle
  <2>3. Backed(app', journal)
    <3>1. CASE applied.err = NoError
      <4>1. AppShape(app') /\ app'.events = Append(app.events, journal[Len(journal)])
        BY <1>2, <2>1, <2>2, <3>1, RecordsApplied DEF Backed
      <4> QED BY <1>1, <1>2, <2>2, <4>1, BackedApplied
    <3>2. CASE applied.err # NoError
      <4>1. AppShape(app') /\ app'.events = app.events
        BY <1>2, <2>1, <3>2, RecordsApplied DEF Backed
      <4> QED BY <1>2, <4>1 DEF Backed
    <3> QED BY <3>1, <3>2
  <2>4. proc' \in {"Running", "Stopped"}
    BY <2>1, <2>2
  <2> QED BY <2>1, <2>3, <2>4 DEF MemoryInv, ApplyingIsLast, Idle
<1>18. CASE UNCHANGED vars
  BY <1>6, <1>18 DEF vars
<1> QED BY <1>7, <1>8, <1>9, <1>10, <1>11, <1>12, <1>13, <1>14, <1>15, <1>16, <1>17, <1>18
        DEF Next

LEMMA MemoryInvHolds == Spec => []MemoryInv
<1> QED BY InitMemoryInv, NextMemoryInv, JournalInvHolds, PTL DEF Spec

-----------------------------------------------------------------------------
(* The mailbox: who waits for what.                                         *)

\* Each entry of a mailbox is a call that waits there, once.
QueuedIn(box, table) ==
    /\ box \in Seq(Calls)
    /\ \A i \in DOMAIN box : table[box[i]].status = "Queued"
    /\ \A i, j \in DOMAIN box : box[i] = box[j] => i = j

Absent(c, box) == \A i \in DOMAIN box : box[i] # c

Waiting(record) == record.status \in {"Sending", "Queued"}

\* A call is in one place only: in the mailbox, or under way, or neither; and
\* nobody waits for a process that is not there.
MailInv ==
    /\ QueuedIn(mailbox, calls)
    /\ current # Idle =>
          /\ current.call \in Calls /\ calls[current.call].status = "Queued"
          /\ Absent(current.call, mailbox)
    /\ proc \notin {"Running", "Stopped"} =>
          mailbox = <<>> /\ \A c \in Calls : ~Waiting(calls[c])

\* A call that has its answer keeps it.
Settled(record) == record.status \notin {"Unsent", "Sending", "Queued"}
AnswersStay == \A c \in Calls : Settled(calls[c]) => calls'[c] = calls[c]

LEMMA QueuedKept ==
    ASSUME NEW box, NEW t, NEW u, QueuedIn(box, t),
           \A c \in Calls : u[c] = t[c] \/ Absent(c, box)
    PROVE  QueuedIn(box, u)
<1>1. ASSUME NEW i \in DOMAIN box PROVE u[box[i]].status = "Queued"
  BY DEF QueuedIn, Absent
<1> QED BY <1>1 DEF QueuedIn

LEMMA QueuedTail ==
    ASSUME NEW box, NEW t, QueuedIn(box, t), box # <<>>
    PROVE  /\ Head(box) \in Calls /\ t[Head(box)].status = "Queued"
           /\ QueuedIn(Tail(box), t)
           /\ Absent(Head(box), Tail(box))
           /\ \A c : Absent(c, box) => Absent(c, Tail(box)) /\ c # Head(box)
           /\ \A c : t[c].status # "Queued" => Absent(c, box)
<1>1. /\ Head(box) = box[1] /\ box[1] \in Calls /\ 1 \in DOMAIN box
      /\ Tail(box) \in Seq(Calls) /\ Len(Tail(box)) = Len(box) - 1
      /\ \A i \in 1 .. Len(Tail(box)) : Tail(box)[i] = box[i + 1]
      /\ DOMAIN box = 1 .. Len(box) /\ DOMAIN Tail(box) = 1 .. Len(Tail(box))
      /\ Len(box) \in Nat
  BY DEF QueuedIn
<1> DEFINE rest == Tail(box)
<1> HIDE DEF rest
<1>2. ASSUME NEW i \in DOMAIN rest
      PROVE  i + 1 \in DOMAIN box /\ rest[i] = box[i + 1] /\ i + 1 # 1 /\ i \in Nat
  BY <1>1 DEF rest
<1>3. QueuedIn(rest, t)
  <2>1. \A i \in DOMAIN rest : t[rest[i]].status = "Queued"
    BY <1>2 DEF QueuedIn
  <2>2. ASSUME NEW i \in DOMAIN rest, NEW j \in DOMAIN rest, rest[i] = rest[j]
        PROVE  i = j
    <3>1. i + 1 = j + 1
      BY <1>2, <2>2 DEF QueuedIn
    <3> QED BY <1>2, <3>1
  <2> QED BY <1>1, <2>1, <2>2 DEF QueuedIn, rest
<1>4. Absent(box[1], rest)
  BY <1>1, <1>2 DEF QueuedIn, Absent
<1>5. ASSUME NEW c, Absent(c, box) PROVE Absent(c, rest) /\ c # box[1]
  BY <1>1, <1>2, <1>5 DEF Absent
<1>6. ASSUME NEW c, t[c].status # "Queued" PROVE Absent(c, box)
  BY <1>6 DEF Absent, QueuedIn
<1>7. t[box[1]].status = "Queued"
  BY <1>1 DEF QueuedIn
<1> QED BY <1>1, <1>3, <1>4, <1>5, <1>6, <1>7 DEF rest

LEMMA QueuedAppended ==
    ASSUME NEW box, NEW t, NEW u, QueuedIn(box, t), NEW h \in Calls,
           t[h].status # "Queued", u[h].status = "Queued",
           \A c \in Calls : c # h => u[c] = t[c]
    PROVE  /\ QueuedIn(Append(box, h), u)
           /\ \A c : Absent(c, box) /\ c # h => Absent(c, Append(box, h))
<1> DEFINE grown == Append(box, h)
<1>1. /\ grown \in Seq(Calls) /\ Len(grown) = Len(box) + 1 /\ Len(box) \in Nat
      /\ DOMAIN grown = 1 .. Len(box) + 1 /\ DOMAIN box = 1 .. Len(box)
      /\ grown[Len(box) + 1] = h
      /\ \A i \in 1 .. Len(box) : grown[i] = box[i]
  BY DEF QueuedIn
<1> HIDE DEF grown
<1>2. \A i \in DOMAIN box : box[i] # h /\ box[i] \in Calls
  BY DEF QueuedIn
<1>3. ASSUME NEW i \in DOMAIN grown
      PROVE  \/ i \in DOMAIN box /\ grown[i] = box[i]
             \/ i = Len(box) + 1 /\ grown[i] = h
  BY <1>1
<1>4. \A i \in DOMAIN grown : u[grown[i]].status = "Queued"
  BY <1>2, <1>3 DEF QueuedIn
<1>5. \A i, j \in DOMAIN grown : grown[i] = grown[j] => i = j
  BY <1>2, <1>3 DEF QueuedIn
<1>6. ASSUME NEW c, Absent(c, box), c # h PROVE Absent(c, grown)
  BY <1>3, <1>6 DEF Absent
<1> QED BY <1>1, <1>4, <1>5, <1>6 DEF QueuedIn, grown

LEMMA InitMailInv == Init => MailInv
<1> SUFFICES ASSUME Init PROVE MailInv
  OBVIOUS
<1>1. /\ mailbox \in Seq(Calls) /\ DOMAIN mailbox = {} /\ mailbox = <<>> /\ current = Idle
      /\ \A c \in Calls : calls[c] = Unsent
  BY DEF Init
<1> QED BY <1>1 DEF MailInv, QueuedIn, Waiting, Unsent

\* A call is answered where it is received or applied, or when the mailbox
\* is closed or lost; no step reaches a call that has its answer.
LEMMA MailSteps == JournalInv /\ MailInv /\ [Next]_vars => MailInv' /\ AnswersStay
<1> SUFFICES ASSUME JournalInv, MailInv, [Next]_vars PROVE MailInv' /\ AnswersStay
  OBVIOUS
<1>1. CallsShape /\ IsCalls(calls) /\ CurrentShape /\ QueuedIn(mailbox, calls)
  BY DEF JournalInv, MailInv, CallsShape
<1>2. ASSUME NEW h \in Calls, calls[h].status = "Queued", NEW r,
             \A c \in Calls : c # h => r[c] = calls[c]
      PROVE  \A c \in Calls : Settled(calls[c]) => r[c] = calls[c]
  BY <1>2 DEF Settled
<1>3. ASSUME UNCHANGED <<mailbox, current, calls>>, proc \in {"Running", "Stopped"}
             => proc' \in {"Running", "Stopped"}
      PROVE  MailInv' /\ AnswersStay
  BY <1>3 DEF MailInv, AnswersStay
<1>4. CASE \/ Boot \/ ReplayEvent \/ Spawn \/ UNCHANGED vars
  BY <1>3, <1>4 DEF Boot, ReplayEvent, Spawn, vars
<1>5. CASE Crash
  <2>1. ASSUME NEW c \in Calls
        PROVE  ~Waiting(calls'[c]) /\ (Settled(calls[c]) => calls'[c] = calls[c])
    <3>1. CASE Outstanding(c)
      <4>1. calls[c] = [status |-> calls[c].status, fills |-> calls[c].fills,
                        count |-> calls[c].count, floor |-> calls[c].floor]
        BY <1>1 DEF IsCalls
      <4>2. calls'[c] = [calls[c] EXCEPT !.status = "Lost"]
        BY <1>5, <3>1 DEF Crash
      <4>3. calls'[c].status = "Lost"
        BY <4>1, <4>2
      <4> QED BY <3>1, <4>3 DEF Waiting, Settled, Outstanding
    <3>2. CASE ~Outstanding(c)
      BY <1>5, <3>2 DEF Crash, Outstanding, Waiting
    <3> QED BY <3>1, <3>2
  <2>2. mailbox' = <<>> /\ current' = Idle /\ <<>> \in Seq(Calls) /\ DOMAIN <<>> = {}
    BY <1>5 DEF Crash
  <2> QED BY <2>1, <2>2 DEF MailInv, AnswersStay, QueuedIn
<1>6. ASSUME NEW c \in Calls, Call(c) \/ Send(c) \/ SendClosed(c)
      PROVE  MailInv' /\ AnswersStay
  <2>1. /\ calls[c].status \in {"Unsent", "Sending"}
        /\ \A d \in Calls : d # c => calls'[d] = calls[d]
        /\ proc \in {"Running", "Stopped"} /\ UNCHANGED <<proc, current>>
    BY <1>1, <1>6 DEF Call, Send, SendClosed, memory, IsCalls
  <2>2. AnswersStay
    BY <2>1 DEF AnswersStay, Settled
  <2>3. Absent(c, mailbox) /\ (current # Idle => c # current.call)
    BY <2>1 DEF MailInv, QueuedIn, Absent
  <2>4. QueuedIn(mailbox', calls') /\ (current # Idle => Absent(current.call, mailbox'))
    <3>1. CASE Call(c) \/ SendClosed(c)
      <4>1. mailbox' = mailbox
        BY <3>1 DEF Call, SendClosed, memory
      <4>2. QueuedIn(mailbox, calls')
        BY <1>1, <2>1, <2>3, QueuedKept
      <4> QED BY <4>1, <4>2 DEF MailInv
    <3>2. CASE Send(c)
      <4>1. mailbox' = Append(mailbox, c) /\ calls'[c].status = "Queued"
        <5>1. /\ mailbox' = Append(mailbox, c)
              /\ calls'[c] = [calls[c] EXCEPT !.status = "Queued"]
          BY <1>1, <3>2 DEF Send, IsCalls
        <5>2. calls[c] = [status |-> calls[c].status, fills |-> calls[c].fills,
                          count |-> calls[c].count, floor |-> calls[c].floor]
          BY <1>1 DEF IsCalls
        <5> QED BY <5>1, <5>2
      <4>2. calls[c].status # "Queued"
        BY <2>1
      <4> QED BY <1>1, <2>1, <2>3, <4>1, <4>2, QueuedAppended DEF MailInv
    <3> QED BY <1>6, <3>1, <3>2
  <2> QED BY <2>1, <2>2, <2>3, <2>4 DEF MailInv
<1>7. ASSUME CanReceive
      PROVE  /\ Head(mailbox) \in Calls /\ calls[Head(mailbox)].status = "Queued"
             /\ QueuedIn(Tail(mailbox), calls)
             /\ Absent(Head(mailbox), Tail(mailbox))
             /\ \A c \in Calls : Settled(calls[c]) =>
                   Absent(c, Tail(mailbox)) /\ c # Head(mailbox)
             /\ proc = "Running" /\ current = Idle
  <2>1. mailbox # <<>> /\ proc = "Running" /\ current = Idle
    BY <1>7 DEF CanReceive
  <2>2. \A c \in Calls : Settled(calls[c]) => calls[c].status # "Queued"
    BY DEF Settled
  <2> QED BY <1>1, <2>1, <2>2, QueuedTail
\* The answer to the call that was received.
<1>8. ASSUME CanReceive, NEW status, NEW fills, NEW count, UNCHANGED <<proc, current>>,
             calls' = Replied(Head(mailbox), status, fills, count), mailbox' = Tail(mailbox)
      PROVE  MailInv' /\ AnswersStay
  <2> DEFINE h == Head(mailbox)
  <2>1. \A c \in Calls : c # h => calls'[c] = calls[c]
    BY <1>1, <1>8, RepliedFacts
  <2>2. AnswersStay
    BY <1>7, <1>8, <2>1 DEF AnswersStay
  <2>3. QueuedIn(mailbox', calls')
    <3>1. \A c \in Calls : calls'[c] = calls[c] \/ Absent(c, Tail(mailbox))
      BY <1>7, <1>8, <2>1
    <3> QED BY <1>7, <1>8, <3>1, QueuedKept
  <2> QED BY <1>7, <1>8, <2>2, <2>3 DEF MailInv
<1>9. CASE ReceiveCommand
  <2> DEFINE h == Head(mailbox)
             derived == Derived(CommandOf[h])
  <2>1. CASE derived.err # NoError
    BY <1>8, <1>9, <2>1 DEF ReceiveCommand
  <2>2. CASE derived.err = NoError
    <3>1. /\ CanReceive /\ mailbox' = Tail(mailbox) /\ UNCHANGED <<calls, proc>>
          /\ current' = [step |-> "Append", call |-> h, event |-> derived.event]
      BY <1>9, <2>2 DEF ReceiveCommand
    <3>2. current'.call = h
      BY <3>1
    <3> QED BY <1>7, <3>1, <3>2 DEF MailInv, AnswersStay
  <2> QED BY <2>1, <2>2
<1>10. CASE ReceiveSnapshot
  BY <1>8, <1>10 DEF ReceiveSnapshot
\* The calls dropped with the mailbox, after the answer to h.
<1>11. ASSUME NEW h \in Calls, calls[h].status = "Queued", NEW status, NEW fills, NEW count,
              NEW box, \A c \in Calls : Settled(calls[c]) => Absent(c, box),
              calls' = Closed(Replied(h, status, fills, count), box),
              mailbox' = <<>>, current' = Idle, proc' = "Stopped"
       PROVE  MailInv' /\ AnswersStay
  <2> DEFINE replied == Replied(h, status, fills, count)
  <2>1. IsCalls(replied) /\ \A c \in Calls : c # h => replied[c] = calls[c]
    BY <1>1, RepliedFacts
  <2> HIDE DEF replied
  <2>2. \A c \in Calls : Absent(c, box) => calls'[c] = replied[c]
    BY <1>11, <2>1, ClosedFacts DEF Absent, replied
  <2>3. AnswersStay
    BY <1>2, <1>11, <2>1, <2>2 DEF AnswersStay
  <2>4. QueuedIn(mailbox', calls')
    BY <1>11 DEF QueuedIn
  <2> QED BY <1>11, <2>3, <2>4 DEF MailInv
<1>12. CASE ReceiveShutdown
  <2>1. /\ CanReceive /\ mailbox' = <<>> /\ current' = current /\ proc' = "Stopped"
        /\ calls' = Closed(Replied(Head(mailbox), "Ok", <<>>, 0), Tail(mailbox))
    BY <1>12 DEF ReceiveShutdown
  <2> QED BY <1>7, <1>11, <2>1
<1>13. ASSUME current.step \in {"Append", "Apply"}
       PROVE  /\ current.call \in Calls /\ calls[current.call].status = "Queued"
              /\ Absent(current.call, mailbox) /\ current # Idle
              /\ \A c \in Calls : Settled(calls[c]) => Absent(c, mailbox)
  <2>1. current # Idle
    BY <1>13 DEF Idle
  <2>2. \A c \in Calls : Settled(calls[c]) => Absent(c, mailbox)
    BY <1>1 DEF Settled, QueuedIn, Absent
  <2> QED BY <2>1, <2>2 DEF MailInv
<1>14. CASE AppendCommits
  <2>1. /\ current' = [current EXCEPT !.step = "Apply"] /\ current.step = "Append"
        /\ UNCHANGED <<proc, mailbox, calls>>
    BY <1>14 DEF AppendCommits
  <2>2. current' = [step |-> "Apply", call |-> current.call, event |-> current.event]
    BY <1>1, <2>1 DEF CurrentShape, Idle
  <2>3. current'.call = current.call
    BY <2>2
  <2> QED BY <1>13, <2>1, <2>3 DEF MailInv, AnswersStay
\* The answer to the call under way.
<1>15. ASSUME current.step \in {"Append", "Apply"}, NEW status, NEW fills, NEW count,
              calls' = Replied(current.call, status, fills, count),
              current' = Idle, UNCHANGED <<proc, mailbox>>
       PROVE  MailInv' /\ AnswersStay
  <2>1. \A c \in Calls : c # current.call => calls'[c] = calls[c]
    BY <1>1, <1>15, RepliedFacts
  <2>2. AnswersStay
    BY <1>2, <1>13, <1>15, <2>1 DEF AnswersStay
  <2>3. QueuedIn(mailbox', calls')
    <3>1. \A c \in Calls : calls'[c] = calls[c] \/ Absent(c, mailbox)
      BY <1>13, <1>15, <2>1
    <3> QED BY <1>1, <1>15, <3>1, QueuedKept
  <2>4. proc \in {"Running", "Stopped"}
    BY <1>13, <1>15 DEF MailInv, Waiting
  <2> QED BY <1>15, <2>2, <2>3, <2>4 DEF MailInv
<1>16. CASE AppendRefused \/ AppendFails
  <2>1. /\ current.step = "Append" /\ current' = Idle /\ UNCHANGED <<proc, mailbox>>
        /\ calls' = Replied(current.call, "JournalAppendFailed", <<>>, 0)
    BY <1>16 DEF AppendRefused, AppendFails, RejectUnjournalled
  <2> QED BY <1>15, <2>1
<1>17. CASE ApplyJournalled
  <2> DEFINE applied == ApplyEvent(app, current.event)
  <2>1. CASE applied.err = NoError
    <3>1. /\ current.step = "Apply" /\ current' = Idle /\ UNCHANGED <<proc, mailbox>>
          /\ calls' = Replied(current.call, "Ok", FillsOf(current.event), 0)
      BY <1>17, <2>1 DEF ApplyJournalled
    <3> QED BY <1>15, <3>1
  <2>2. CASE applied.err # NoError
    <3>1. /\ current.step = "Apply" /\ current' = Idle /\ proc' = "Stopped" /\ mailbox' = <<>>
          /\ calls' = Closed(Replied(current.call, applied.err, <<>>, 0), mailbox)
      BY <1>17, <2>2 DEF ApplyJournalled
    <3> QED BY <1>11, <1>13, <3>1
  <2> QED BY <2>1, <2>2
<1> QED BY <1>4, <1>5, <1>6, <1>9, <1>10, <1>12, <1>14, <1>16, <1>17 DEF Next

LEMMA MailInvHolds == Spec => []MailInv
<1> QED BY InitMailInv, MailSteps, JournalInvHolds, PTL DEF Spec

-----------------------------------------------------------------------------
(* Snapshots.                                                               *)

IsSnapshot(c) == CommandOf[c].kind = "Snapshot"

\* A running process has every acknowledged command in memory.
AckedInMemory ==
    proc \in {"Running", "Stopped"} =>
        \A c \in Calls : Acked(c) =>
            \E n \in DOMAIN app.events : app.events[n].cmd = CommandOf[c].cmd

\* What had been acknowledged when a snapshot call began is in memory for as
\* long as the call waits.
FloorInMemory ==
    \A c \in Calls : IsSnapshot(c) /\ Waiting(calls[c]) =>
        calls[c].floor \in Nat /\ calls[c].floor <= Len(app.events)

SnapInv == AckedInMemory /\ FloorInMemory /\ SnapshotSeesAcknowledged

\* As many commands are acknowledged as there are events in memory, or fewer:
\* no two of them share an event.
LEMMA AckedAreCounted ==
    ASSUME JournalInv, MemoryInv, AckedInMemory, proc \in {"Running", "Stopped"}
    PROVE  LET n == Cardinality({c \in Calls : Acked(c)})
           IN  n \in Nat /\ n <= Len(app.events)
<1> DEFINE acked == {c \in Calls : Acked(c)}
           at == [c \in acked |->
                    CHOOSE n \in DOMAIN app.events : app.events[n].cmd = CommandOf[c].cmd]
<1>1. Len(app.events) \in Nat /\ DOMAIN app.events = 1 .. Len(app.events)
  BY DEF MemoryInv, Backed
<1>2. ASSUME NEW c \in acked
      PROVE  at[c] \in 1 .. Len(app.events) /\ app.events[at[c]].cmd = CommandOf[c].cmd
  <2>1. \E n \in DOMAIN app.events : app.events[n].cmd = CommandOf[c].cmd
    BY DEF AckedInMemory
  <2> QED BY <1>1, <2>1
<1>3. at \in Injection(acked, 1 .. Len(app.events))
  <2>1. at \in [acked -> 1 .. Len(app.events)]
    BY <1>2
  <2>2. ASSUME NEW c \in acked, NEW d \in acked, at[c] = at[d] PROVE c = d
    <3>1. CommandOf[c].cmd = CommandOf[d].cmd
      BY <1>2, <2>2
    <3> QED BY <3>1 DEF JournalInv, AckedOnce
  <2> HIDE DEF acked, at
  <2> QED BY <2>1, <2>2 DEF Injection, IsInjective
<1>4. IsFiniteSet(1 .. Len(app.events)) /\ Cardinality(1 .. Len(app.events)) = Len(app.events)
  BY <1>1, FS_Interval
<1> HIDE DEF at
<1>5. IsFiniteSet(acked) /\ Cardinality(acked) <= Len(app.events)
  BY <1>3, <1>4, FS_Injection
<1>6. Cardinality(acked) \in Nat
  BY <1>5, FS_CardinalityType
<1> QED BY <1>5, <1>6

LEMMA InitSnapInv == Init => SnapInv
BY DEF Init, SnapInv, AckedInMemory, FloorInMemory, SnapshotSeesAcknowledged, Waiting, Unsent

\* What a step does to the events in memory: nothing, one more, or, where no
\* call waits afterwards, anything.
LEMMA EventsSteps ==
    ASSUME JournalInv, MemoryInv, MailInv, [Next]_vars
    PROVE  \/ app' = app
           \/ /\ current.step = "Apply" /\ proc = "Running"
              /\ app' = ApplyEvent(app, current.event).app
           \/ proc' \notin {"Running", "Stopped"}
<1>1. current.step = "Apply" => proc = "Running"
  BY DEF MemoryInv, Idle
<1> QED BY <1>1 DEF Next, Boot, ReplayEvent, Spawn, Crash, Call, Send, SendClosed,
      ReceiveCommand, ReceiveSnapshot, ReceiveShutdown, AppendCommits, AppendRefused,
      AppendFails, ApplyJournalled, vars, memory

\* What a step does to a snapshot call: it begins, waits on, is answered with
\* the events in memory, or ends without an answer.
Begins(c) ==
    /\ proc \in {"Running", "Stopped"} /\ UNCHANGED app
    /\ calls'[c].status = "Sending"
    /\ calls'[c].floor = Cardinality({d \in Calls : Acked(d)})
WaitsOn(c) ==
    /\ Waiting(calls[c]) /\ calls'[c].status = "Queued"
    /\ calls'[c].floor = calls[c].floor
IsCounted(c) ==
    /\ Waiting(calls[c]) /\ UNCHANGED <<app, journal>>
    /\ calls'[c].status = "Ok"
    /\ calls'[c].count = Len(app.events) /\ calls'[c].floor = calls[c].floor
Ends(c) == calls'[c].status \in {"ActorClosed", "Lost"}

LEMMA SnapshotSteps ==
    ASSUME JournalInv, MailInv, [Next]_vars, NEW c \in Calls, IsSnapshot(c)
    PROVE  calls'[c] = calls[c] \/ Begins(c) \/ WaitsOn(c) \/ IsCounted(c) \/ Ends(c)
<1> DEFINE Goal == calls'[c] = calls[c] \/ Begins(c) \/ WaitsOn(c) \/ IsCounted(c) \/ Ends(c)
<1>1. /\ CallsShape /\ IsCalls(calls) /\ CurrentShape /\ ~IsCommand(c)
      /\ calls[c] = [status |-> calls[c].status, fills |-> calls[c].fills,
                     count |-> calls[c].count, floor |-> calls[c].floor]
  BY DEF JournalInv, CallsShape, IsCalls, IsSnapshot, IsCommand
<1>2. CASE UNCHANGED calls
  BY <1>2
<1>3. CASE Crash
  <2>1. CASE Outstanding(c)
    <3>1. calls'[c] = [calls[c] EXCEPT !.status = "Lost"]
      BY <1>3, <2>1 DEF Crash
    <3>2. calls'[c].status = "Lost"
      BY <1>1, <3>1
    <3> QED BY <3>2 DEF Ends
  <2>2. CASE ~Outstanding(c)
    BY <1>3, <2>2 DEF Crash
  <2> QED BY <2>1, <2>2
<1>4. ASSUME NEW d \in Calls, Call(d) \/ Send(d) \/ SendClosed(d)
      PROVE  Goal
  <2>1. CASE d # c
    BY <1>1, <1>4, <2>1 DEF Call, Send, SendClosed, IsCalls
  <2>2. CASE d = c /\ Call(c)
    <3> DEFINE n == Cardinality({e \in Calls : Acked(e)})
    <3>1. calls'[c] = [calls[c] EXCEPT !.status = "Sending", !.floor = n]
      BY <1>1, <2>2 DEF Call, IsCalls
    <3> HIDE DEF n
    <3>2. calls'[c].status = "Sending" /\ calls'[c].floor = n
      BY <1>1, <3>1
    <3> QED BY <2>2, <3>2 DEF Begins, Call, memory, n
  <2>3. CASE d = c /\ Send(c)
    <3>1. calls'[c] = [calls[c] EXCEPT !.status = "Queued"] /\ Waiting(calls[c])
      BY <1>1, <2>3 DEF Send, IsCalls, Waiting
    <3>2. calls'[c].status = "Queued" /\ calls'[c].floor = calls[c].floor
      BY <1>1, <3>1
    <3> QED BY <3>1, <3>2 DEF WaitsOn
  <2>4. CASE d = c /\ SendClosed(c)
    <3>1. calls'[c] = [calls[c] EXCEPT !.status = "ActorClosed"]
      BY <1>1, <2>4 DEF SendClosed, IsCalls
    <3>2. calls'[c].status = "ActorClosed"
      BY <1>1, <3>1
    <3> QED BY <3>2 DEF Ends
  <2> QED BY <1>4, <2>1, <2>2, <2>3, <2>4
\* An answer to another call.
<1>5. ASSUME NEW h, h # c, NEW status, NEW fills, NEW count,
             calls' = Replied(h, status, fills, count)
      PROVE  Goal
  BY <1>1, <1>5, RepliedFacts
<1>6. ASSUME NEW h, h # c, NEW status, NEW fills, NEW count, NEW box,
             calls' = Closed(Replied(h, status, fills, count), box)
      PROVE  Goal
  <2> DEFINE replied == Replied(h, status, fills, count)
  <2>1. IsCalls(replied) /\ replied[c] = calls[c]
    BY <1>1, <1>6, RepliedFacts
  <2> HIDE DEF replied
  <2>2. CASE \A i \in DOMAIN box : box[i] # c
    BY <1>6, <2>1, <2>2, ClosedFacts DEF replied
  <2>3. CASE \E i \in DOMAIN box : box[i] = c
    <3>1. calls'[c].status = "ActorClosed"
      BY <1>6, <2>1, <2>3, ClosedFacts DEF replied
    <3> QED BY <3>1 DEF Ends
  <2> QED BY <2>2, <2>3
<1>7. CASE ReceiveCommand
  <2> DEFINE h == Head(mailbox)
             derived == Derived(CommandOf[h])
  <2>1. CASE derived.err # NoError
    <3>1. h # c /\ calls' = Replied(h, derived.err, <<>>, 0)
      BY <1>1, <1>7, <2>1 DEF ReceiveCommand
    <3> QED BY <1>5, <3>1
  <2>2. CASE derived.err = NoError
    BY <1>2, <1>7, <2>2 DEF ReceiveCommand
  <2> QED BY <2>1, <2>2
<1>8. CASE ReceiveSnapshot
  <2>1. /\ CanReceive /\ UNCHANGED <<app, journal>>
        /\ calls' = Replied(Head(mailbox), "Ok", <<>>, Len(app.events))
    BY <1>8 DEF ReceiveSnapshot
  <2>2. CASE Head(mailbox) # c
    BY <1>5, <2>1, <2>2
  <2>3. CASE Head(mailbox) = c
    <3>1. Waiting(calls[c])
      BY <2>1, <2>3, QueuedTail DEF MailInv, CanReceive, Waiting
    <3>2. /\ calls'[c].status = "Ok" /\ calls'[c].count = Len(app.events)
          /\ calls'[c].floor = calls[c].floor
      BY <1>1, <2>1, <2>3, RepliedFacts
    <3> QED BY <2>1, <3>1, <3>2 DEF IsCounted
  <2> QED BY <2>2, <2>3
<1>9. CASE ReceiveShutdown
  <2>1. Head(mailbox) # c
        /\ calls' = Closed(Replied(Head(mailbox), "Ok", <<>>, 0), Tail(mailbox))
    BY <1>9 DEF ReceiveShutdown, IsSnapshot
  <2> QED BY <1>6, <2>1
<1>10. CASE AppendRefused \/ AppendFails
  <2>1. /\ current.step = "Append"
        /\ calls' = Replied(current.call, "JournalAppendFailed", <<>>, 0)
    BY <1>10 DEF AppendRefused, AppendFails, RejectUnjournalled
  <2>2. current.call # c
    BY <1>1, <2>1 DEF CurrentShape, Idle
  <2> QED BY <1>5, <2>1, <2>2
<1>11. CASE ApplyJournalled
  <2> DEFINE applied == ApplyEvent(app, current.event)
  <2>1. current.step = "Apply"
    BY <1>11 DEF ApplyJournalled
  <2>2. current.call # c
    BY <1>1, <2>1 DEF CurrentShape, Idle
  <2>3. CASE applied.err = NoError
    <3>1. calls' = Replied(current.call, "Ok", FillsOf(current.event), 0)
      BY <1>11, <2>3 DEF ApplyJournalled
    <3> QED BY <1>5, <2>2, <3>1
  <2>4. CASE applied.err # NoError
    <3>1. calls' = Closed(Replied(current.call, applied.err, <<>>, 0), mailbox)
      BY <1>11, <2>4 DEF ApplyJournalled
    <3> QED BY <1>6, <2>2, <3>1
  <2> QED BY <2>3, <2>4
<1>12. UNCHANGED calls
       \/ Crash \/ (\E d \in Calls : Call(d) \/ Send(d) \/ SendClosed(d))
       \/ ReceiveCommand \/ ReceiveSnapshot \/ ReceiveShutdown
       \/ AppendRefused \/ AppendFails \/ ApplyJournalled
  BY DEF Next, vars, Boot, ReplayEvent, Spawn, AppendCommits
<1> QED BY <1>2, <1>3, <1>4, <1>7, <1>8, <1>9, <1>10, <1>11, <1>12

LEMMA NextSnapInv ==
    JournalInv /\ MemoryInv /\ MailInv /\ SnapInv /\ [Next]_vars => SnapInv'
<1> SUFFICES ASSUME JournalInv, MemoryInv, MailInv, SnapInv, [Next]_vars PROVE SnapInv'
  OBVIOUS
<1>1. JournalInv' /\ MemoryInv' /\ MailInv'
  BY NextJournalInv, NextMemoryInv, MailSteps
<1>2. /\ Len(app.events) \in Nat /\ Len(app.events) <= Len(journal) /\ Len(journal) \in Nat
      /\ Len(app'.events) \in Nat /\ AppShape(app)
      /\ DOMAIN app.events = 1 .. Len(app.events)
      /\ DOMAIN journal = 1 .. Len(journal)
      /\ Len(journal') \in Nat /\ Len(journal) <= Len(journal')
  BY <1>1, JournalGrows, AppendFacts
     DEF MemoryInv, Backed, JournalInv, JournalShape, Commits
\* Memory of a process that runs on only grows.
<1>3. \/ proc' \notin {"Running", "Stopped"}
      \/ /\ Len(app.events) <= Len(app'.events)
         /\ \A n \in DOMAIN app.events :
               n \in DOMAIN app'.events /\ app'.events[n] = app.events[n]
  <2>1. CASE app' = app
    BY <1>2, <2>1
  <2>2. CASE app' = ApplyEvent(app, current.event).app
    <3>1. app'.events = app.events \/ app'.events = Append(app.events, current.event)
      BY <1>2, <2>2, RecordsApplied
    <3>2. app.events \in Seq({journal[i] : i \in DOMAIN journal})
      BY DEF MemoryInv, Backed
    <3> QED BY <1>2, <3>1, <3>2
  <2> QED BY <2>1, <2>2, EventsSteps
<1>4. AckedInMemory'
  <2> SUFFICES ASSUME proc' \in {"Running", "Stopped"}, NEW c \in Calls, Acked(c)'
               PROVE  \E n \in DOMAIN app'.events : app'.events[n].cmd = CommandOf[c].cmd
    BY DEF AckedInMemory
  <2>1. Acked(c) \/ (IsCommand(c) /\ Acknowledges(c))
    BY AckSteps DEF Acked, IsCommand, JournalInv
  <2>2. CASE Acked(c) /\ proc \in {"Running", "Stopped"}
    <3>1. PICK n \in DOMAIN app.events : app.events[n].cmd = CommandOf[c].cmd
      BY <2>2 DEF SnapInv, AckedInMemory
    <3> QED BY <1>3, <3>1
  \* The boot is complete: memory is the whole journal.
  <2>3. CASE Acked(c) /\ proc \notin {"Running", "Stopped"}
    <3>1. Spawn
      <4>1. proc' # proc /\ current.step = "Idle"
        BY <2>3 DEF MemoryInv, Idle
      <4>2. CASE Boot \/ ReplayEvent \/ Spawn \/ Crash
        BY <4>1, <4>2 DEF Boot, ReplayEvent, Crash
      <4>3. CASE \/ \E d \in Calls : Call(d) \/ Send(d) \/ SendClosed(d)
                \/ ReceiveCommand \/ ReceiveSnapshot \/ UNCHANGED vars
        BY <4>1, <4>3 DEF Call, Send, SendClosed, ReceiveCommand, ReceiveSnapshot, vars, memory
      <4>4. CASE ReceiveShutdown
        BY <2>3, <4>4 DEF ReceiveShutdown, CanReceive
      <4>5. CASE AppendCommits \/ AppendRefused \/ AppendFails \/ ApplyJournalled
        BY <4>1, <4>5 DEF AppendCommits, AppendRefused, AppendFails, ApplyJournalled
      <4> QED BY <4>2, <4>3, <4>4, <4>5 DEF Next
    <3>2. /\ Len(app.events) = Len(journal) /\ app' = app
          /\ \A n \in DOMAIN app.events : journal[n] = app.events[n]
      BY <2>3, <3>1 DEF Spawn, MemoryInv
    <3>3. PICK i \in DOMAIN journal : journal[i].cmd = CommandOf[c].cmd
      BY <2>3 DEF JournalInv, AckedIsJournalled
    <3> QED BY <1>2, <3>2, <3>3
  <2>4. CASE Acknowledges(c)
    <3> DEFINE h == current.call
               applied == ApplyEvent(app, current.event)
    <3>1. /\ current.step = "Apply" /\ c = h /\ CallsShape
          /\ current.event.cmd = CommandOf[c].cmd
      BY <2>4 DEF Acknowledges, JournalInv, CurrentShape, Idle
    <3>2. ApplyJournalled
      <4>1. current # Idle /\ current' # current
        BY <2>4 DEF Acknowledges, Idle
      <4>2. CASE Crash
        BY <4>2 DEF Crash
      <4>3. CASE \/ Boot \/ ReplayEvent \/ Spawn \/ UNCHANGED vars
                \/ \E d \in Calls : Call(d) \/ Send(d) \/ SendClosed(d)
        BY <4>1, <4>3 DEF Boot, ReplayEvent, Spawn, Call, Send, SendClosed, vars, memory
      <4>4. CASE ReceiveCommand \/ ReceiveSnapshot \/ ReceiveShutdown
        BY <4>1, <4>4 DEF ReceiveCommand, ReceiveSnapshot, ReceiveShutdown, CanReceive
      <4>5. CASE AppendCommits \/ AppendRefused \/ AppendFails
        BY <3>1, <4>5 DEF AppendCommits, AppendRefused, AppendFails
      <4> QED BY <4>2, <4>3, <4>4, <4>5 DEF Next
    <3>3. applied.err = NoError
      <4> SUFFICES ASSUME applied.err # NoError PROVE FALSE
        OBVIOUS
      <4> DEFINE replied == Replied(h, applied.err, <<>>, 0)
      <4>1. calls' = Closed(replied, mailbox)
        BY <3>2 DEF ApplyJournalled
      <4>2. IsCalls(replied) /\ replied[c].status # "Ok"
        BY <3>1, RepliedFacts, ApplyErrorNotOk
      <4> HIDE DEF replied
      <4>3. calls'[c].status = replied[c].status \/ calls'[c].status = "ActorClosed"
        BY <4>1, <4>2, ClosedFacts
      <4> QED BY <4>2, <4>3 DEF Acked
    <3>4. app'.events = Append(app.events, current.event)
      BY <1>2, <3>2, <3>3, RecordsApplied DEF ApplyJournalled
    <3>5. app.events \in Seq({journal[i] : i \in DOMAIN journal})
      BY DEF MemoryInv, Backed
    <3>6. /\ Len(app.events) + 1 \in DOMAIN app'.events
          /\ app'.events[Len(app.events) + 1] = current.event
      BY <1>2, <3>4, <3>5
    <3> QED BY <3>1, <3>6
  <2> QED BY <2>1, <2>2, <2>3, <2>4
<1>5. FloorInMemory' /\ SnapshotSeesAcknowledged'
  <2> SUFFICES ASSUME NEW c \in Calls, IsSnapshot(c)
               PROVE  /\ Waiting(calls'[c]) =>
                            calls'[c].floor \in Nat /\ calls'[c].floor <= Len(app'.events)
                      /\ calls'[c].status = "Ok" =>
                            calls'[c].count \in calls'[c].floor .. Len(journal')
    BY DEF FloorInMemory, SnapshotSeesAcknowledged, IsSnapshot, Waiting
  <2>1. Waiting(calls'[c]) => proc' \in {"Running", "Stopped"}
    BY <1>1 DEF MailInv
  <2>2. CASE calls'[c] = calls[c]
    <3>1. Waiting(calls[c]) => calls[c].floor \in Nat /\ calls[c].floor <= Len(app.events)
      BY DEF SnapInv, FloorInMemory
    <3>2. calls[c].status = "Ok" => calls[c].count \in calls[c].floor .. Len(journal)
      BY DEF SnapInv, SnapshotSeesAcknowledged, IsSnapshot
    <3> QED BY <1>2, <1>3, <2>1, <2>2, <3>1, <3>2
  <2>3. CASE Begins(c)
    BY <2>3, AckedAreCounted DEF Begins, SnapInv, Waiting
  <2>4. CASE WaitsOn(c)
    <3>1. calls[c].floor \in Nat /\ calls[c].floor <= Len(app.events)
      BY <2>4 DEF SnapInv, FloorInMemory, WaitsOn
    <3> QED BY <1>2, <1>3, <2>1, <2>4, <3>1 DEF WaitsOn
  <2>5. CASE IsCounted(c)
    <3>1. calls[c].floor \in Nat /\ calls[c].floor <= Len(app.events)
      BY <2>5 DEF SnapInv, FloorInMemory, IsCounted
    <3> QED BY <1>2, <2>5, <3>1 DEF IsCounted, Waiting
  <2>6. CASE Ends(c)
    BY <2>6 DEF Ends, Waiting
  <2> QED BY <2>2, <2>3, <2>4, <2>5, <2>6, SnapshotSteps
<1> QED BY <1>4, <1>5 DEF SnapInv

LEMMA SnapInvHolds == Spec => []SnapInv
<1> QED BY InitSnapInv, NextSnapInv, JournalInvHolds, MemoryInvHolds, MailInvHolds, PTL DEF Spec

-----------------------------------------------------------------------------
(* The journal and the acknowledgements as a CommandLog.                    *)

LogOf(j) == [i \in DOMAIN j |-> Entry(j[i])]

LEMMA LogGrows ==
    ASSUME NEW S, NEW j \in Seq(S), NEW event
    PROVE  /\ LogOf(Append(j, event)) = Append(LogOf(j), Entry(event))
           /\ Len(j) + 1 \in DOMAIN LogOf(Append(j, event))
           /\ LogOf(Append(j, event))[Len(j) + 1] = Entry(event)
<1> DEFINE T == S \cup {event}
           E == {Entry(e) : e \in T}
           k == Append(j, event)
<1>1. j \in Seq(T) /\ event \in T
  BY SeqMonotonic
<1>2. /\ k \in Seq(T) /\ Len(k) = Len(j) + 1 /\ k[Len(j) + 1] = event
      /\ \A i \in 1 .. Len(j) : k[i] = j[i]
  BY <1>1, AppendProperties
<1>3. /\ DOMAIN j = 1 .. Len(j) /\ DOMAIN k = 1 .. Len(j) + 1 /\ Len(j) \in Nat
      /\ \A i \in DOMAIN j : j[i] \in T
      /\ \A i \in DOMAIN k : k[i] \in T
  BY <1>1, <1>2
<1> HIDE DEF T, k
<1>4. /\ LogOf(j) \in [1 .. Len(j) -> E] /\ LogOf(k) \in [1 .. Len(j) + 1 -> E]
      /\ \A i \in 1 .. Len(j) : LogOf(j)[i] = Entry(j[i])
      /\ \A i \in 1 .. Len(j) + 1 : LogOf(k)[i] = Entry(k[i])
      /\ Entry(event) \in E
  BY <1>1, <1>3 DEF LogOf
<1> HIDE DEF E
<1>5. LogOf(j) \in Seq(E) /\ Len(LogOf(j)) = Len(j)
  BY <1>3, <1>4
<1>6. LogOf(k) \in Seq(E) /\ Len(LogOf(k)) = Len(j) + 1
  BY <1>3, <1>4
<1>7. /\ Append(LogOf(j), Entry(event)) \in Seq(E)
      /\ Len(Append(LogOf(j), Entry(event))) = Len(j) + 1
      /\ \A i \in 1 .. Len(j) : Append(LogOf(j), Entry(event))[i] = LogOf(j)[i]
      /\ Append(LogOf(j), Entry(event))[Len(j) + 1] = Entry(event)
  BY <1>4, <1>5, AppendProperties
<1>8. \A i \in 1 .. Len(j) + 1 : LogOf(k)[i] = Append(LogOf(j), Entry(event))[i]
  BY <1>2, <1>3, <1>4, <1>7
<1>9. LogOf(k) = Append(LogOf(j), Entry(event))
  BY <1>6, <1>7, <1>8, SeqEqual
<1>10. Len(j) + 1 \in DOMAIN LogOf(k)
  BY <1>3, <1>4
<1>11. LogOf(k)[Len(j) + 1] = Entry(event)
  BY <1>7, <1>9
<1> QED BY <1>9, <1>10, <1>11 DEF k

\* What one step tells callers: nothing new, or the outcome of the event that
\* was being applied, to the one caller whose call it is.
LEMMA AckedChange ==
    ASSUME JournalInv, MailInv, [Next]_vars
    PROVE  \/ AckedEntries' = AckedEntries
           \/ /\ current.step = "Apply"
              /\ AckedEntries' = AckedEntries \cup {Entry(current.event)}
<1> DEFINE Told(c, table) == [cmd |-> CommandOf[c].cmd, outcome |-> table[c].fills]
<1>1. ASSUME NEW c \in Calls, Acked(c)
      PROVE  Acked(c)' /\ calls'[c].fills = calls[c].fills
  <2>1. AnswersStay
    BY MailSteps
  <2>2. calls'[c] = calls[c]
    BY <1>1, <2>1 DEF Acked, AnswersStay, Settled
  <2> QED BY <1>1, <2>2 DEF Acked, IsCommand
<1>2. ASSUME NEW c \in Calls, Acked(c)'
      PROVE  \/ Acked(c) /\ calls'[c].fills = calls[c].fills
             \/ Acknowledges(c) /\ CommandOf[c].cmd = current.event.cmd
  <2>1. \/ Acked(c) /\ calls'[c].fills = calls[c].fills
        \/ Acknowledges(c)
    BY <1>2, AckSteps DEF Acked, IsCommand, JournalInv
  <2> QED BY <2>1 DEF JournalInv, Acknowledges, CurrentShape, Idle
<1>3. /\ \A e : e \in AckedEntries <=> \E c \in Calls : Acked(c) /\ e = Told(c, calls)
      /\ \A e : e \in AckedEntries' <=> \E c \in Calls : Acked(c)' /\ e = Told(c, calls')
  BY DEF AckedEntries
<1>4. AckedEntries \subseteq AckedEntries'
  BY <1>1, <1>3
<1>5. CASE \A c \in Calls : Acked(c)' => Acked(c)
  <2>1. AckedEntries' \subseteq AckedEntries
    BY <1>1, <1>3, <1>5
  <2> QED BY <1>4, <2>1
<1>6. CASE \E c \in Calls : Acked(c)' /\ ~Acked(c)
  <2>1. PICK c \in Calls : Acked(c)' /\ ~Acked(c)
    BY <1>6
  <2>2. /\ current.step = "Apply" /\ c = current.call
        /\ Told(c, calls') = Entry(current.event)
    BY <1>2, <2>1 DEF Acknowledges, Entry
  <2>3. \A d \in Calls : Acked(d)' =>
          (Told(d, calls') = Told(d, calls) /\ Acked(d)) \/ d = c
    BY <1>2, <2>2 DEF Acknowledges
  <2>4. AckedEntries' \subseteq AckedEntries \cup {Entry(current.event)}
    <3>1. ASSUME NEW e \in AckedEntries'
          PROVE  e \in AckedEntries \/ e = Entry(current.event)
      <4>1. PICK d \in Calls : Acked(d)' /\ e = Told(d, calls')
        BY <1>3
      <4>2. CASE d = c
        BY <2>2, <4>1, <4>2
      <4>3. CASE d # c
        BY <1>3, <2>3, <4>1, <4>3
      <4> QED BY <4>2, <4>3
    <3> QED BY <3>1
  <2>5. Entry(current.event) \in AckedEntries'
    BY <1>3, <2>1, <2>2
  <2> QED BY <1>4, <2>2, <2>4, <2>5
<1> QED BY <1>5, <1>6

LEMMA LogSteps ==
    ASSUME JournalInv, MailInv, [Next]_vars
    PROVE  [Log!Next]_<<LogOf(journal), AckedEntries>>
<1>1. /\ JournalShape
      /\ current.step = "Apply" =>
            /\ current.event \in JournalledEvents
            /\ \A c \in Calls : Acked(c) => CommandOf[c].cmd # current.event.cmd
  BY DEF JournalInv, ApplyingIsJournalled
<1>2. CASE journal' = journal
  <2>1. LogOf(journal)' = LogOf(journal)
    BY <1>2 DEF LogOf, Entry, FillsOf
  <2>2. CASE AckedEntries' = AckedEntries
    BY <2>1, <2>2
  <2>3. CASE /\ current.step = "Apply"
             /\ AckedEntries' = AckedEntries \cup {Entry(current.event)}
    <3>1. PICK i \in DOMAIN journal : journal[i] = current.event
      BY <1>1, <2>3 DEF JournalledEvents
    <3>2. i \in DOMAIN LogOf(journal) /\ LogOf(journal)[i] = Entry(current.event)
      BY <3>1 DEF LogOf
    <3>3. Entry(current.event) \notin AckedEntries
      BY <1>1, <2>3 DEF AckedEntries, Entry
    <3>4. Log!Acknowledge
      BY <2>1, <2>3, <3>2, <3>3 DEF Log!Acknowledge, LogOf
    <3> QED BY <3>4 DEF Log!Next
  <2> QED BY <2>2, <2>3, AckedChange
<1>3. CASE journal' # journal
  <2>1. Commits
    BY <1>3, JournalSteps
  <2>2. AckedEntries' = AckedEntries
    BY <2>1, AckedChange DEF Commits
  <2> DEFINE e == Entry(current.event)
             last == Len(journal) + 1
  <2>3. /\ LogOf(journal)' = Append(LogOf(journal), e)
        /\ last \in DOMAIN LogOf(journal)' /\ LogOf(journal)'[last] = e
    <3>1. journal \in Seq(JournalledEvents) /\ journal' = Append(journal, current.event)
      BY <1>1, <2>1 DEF Commits, JournalShape
    <3>2. LogOf(journal)' = LogOf(Append(journal, current.event))
      BY <3>1 DEF LogOf, Entry, FillsOf
    <3> QED BY <3>1, <3>2, LogGrows
  <2>4. e.cmd \notin {LogOf(journal)[i].cmd : i \in DOMAIN LogOf(journal)}
    BY <2>1 DEF LogOf, Entry, Commits, JournalledIds
  <2>5. Log!Record
    BY <2>2, <2>3, <2>4 DEF Log!Record, Log!LoggedIds, LogOf
  <2> QED BY <2>5 DEF Log!Next
<1> QED BY <1>2, <1>3

-----------------------------------------------------------------------------
\* A caller that was told Ok finds its command in the journal with the fills
\* it was told, for every interleaving of callers and actor, every crash and
\* every failure of an append (persist_and_apply journals, then applies, then
\* replies).
THEOREM AckedIsJournalledHolds == Spec => []AckedIsJournalled
<1>1. JournalInv => AckedIsJournalled
  BY DEF JournalInv
<1>2. QED
  BY <1>1, JournalInvHolds, PTL

\* Two calls with one command id are never both told Ok (the check of seen
\* commands in memory, the UNIQUE constraint in the journal).
THEOREM AckedOnceHolds == Spec => []AckedOnce
<1>1. JournalInv => AckedOnce
  BY DEF JournalInv
<1>2. QED
  BY <1>1, JournalInvHolds, PTL

\* The journal only ever grows, by one event of a command id it did not hold:
\* a retry after a lost answer never executes twice.
THEOREM JournalAppendOnlyHolds == Spec => JournalAppendOnly
<1> DEFINE Step == journal' # journal =>
               /\ Len(journal') = Len(journal) + 1
               /\ SubSeq(journal', 1, Len(journal)) = journal
               /\ journal'[Len(journal')].cmd \notin JournalledIds
<1>1. JournalInv /\ [Next]_vars => [Step]_vars
  <2> SUFFICES ASSUME JournalInv, [Next]_vars, journal' # journal
               PROVE  Step
    OBVIOUS
  <2>1. Commits /\ JournalShape
    BY JournalGrows DEF JournalInv
  <2>2. /\ Len(journal) \in Nat /\ DOMAIN journal = 1 .. Len(journal)
        /\ Len(journal') = Len(journal) + 1
        /\ journal'[Len(journal) + 1] = current.event
        /\ \A i \in 1 .. Len(journal) : journal'[i] = journal[i]
    BY <2>1, AppendFacts DEF Commits
  <2>3. SubSeq(journal', 1, Len(journal)) = journal
    <3> DEFINE prefix == SubSeq(journal', 1, Len(journal))
    <3>1. /\ prefix \in Seq(JournalledEvents)
          /\ Len(prefix) = Len(journal)
          /\ \A i \in 1 .. Len(journal) : prefix[i] = journal[i]
      <4>1. \A i \in 1 .. Len(journal) : journal'[i] \in JournalledEvents
        BY <2>2 DEF JournalledEvents
      <4>2. /\ prefix \in Seq(JournalledEvents)
            /\ Len(prefix) = IF 1 <= Len(journal) THEN Len(journal) - 1 + 1 ELSE 0
            /\ \A i \in 1 .. Len(journal) - 1 + 1 : prefix[i] = journal'[1 + i - 1]
        BY <2>2, <4>1, SubSeqProperties
      <4>3. QED
        BY <2>2, <4>2
    <3>2. QED
      BY <2>1, <3>1, SeqEqual DEF JournalShape
  <2>4. QED
    BY <2>1, <2>2, <2>3 DEF Commits
<1>2. QED
  BY <1>1, JournalInvHolds, PTL DEF Spec, JournalAppendOnly

\* What is in memory is in the journal, in its order (persist_and_apply applies
\* what it has made durable; the boot replays it from the first event on),
\* whatever crashes and failing appends leave in the journal.
THEOREM MemoryFollowsJournalHolds == Spec => []MemoryFollowsJournal
<1>1. MemoryInv => MemoryFollowsJournal
  BY DEF MemoryInv, Backed, Follows, MemoryFollowsJournal
<1>2. QED
  BY <1>1, MemoryInvHolds, PTL

\* A snapshot counts every command that had been acknowledged when its call
\* began, also across a crash and a boot, and nothing that is not durable (the
\* actor answers a snapshot from memory, between two commands).
THEOREM SnapshotSeesAcknowledgedHolds == Spec => []SnapshotSeesAcknowledged
<1>1. SnapInv => SnapshotSeesAcknowledged
  BY DEF SnapInv
<1>2. QED
  BY <1>1, SnapInvHolds, PTL

\* Actor, mailbox, memory, boot and crashes together implement a durable log
\* that records a command at most once and acknowledges an outcome it holds,
\* to one caller: each step of the service is a step of CommandLog or changes
\* neither the log nor what callers know.
THEOREM MarketActorImplementsCommandLog == Spec => ImplementsCommandLog
<1>1. Init => Log!Init
  <2> SUFFICES ASSUME Init PROVE Log!Init
    OBVIOUS
  <2>1. journal = <<>> /\ \A c \in Calls : calls[c] = Unsent
    BY DEF Init
  <2>2. [i \in DOMAIN journal |-> Entry(journal[i])] = <<>>
    BY <2>1
  <2>3. AckedEntries = {}
    BY <2>1 DEF AckedEntries, Acked, Unsent
  <2> QED BY <2>2, <2>3 DEF Log!Init
<1>2. JournalInv /\ MailInv /\ [Next]_vars
        => [Log!Next]_<<[i \in DOMAIN journal |-> Entry(journal[i])], AckedEntries>>
  BY LogSteps DEF LogOf
<1>3. QED
  BY <1>1, <1>2, JournalInvHolds, MailInvHolds, PTL DEF Spec, ImplementsCommandLog, Log!Spec
=============================================================================
