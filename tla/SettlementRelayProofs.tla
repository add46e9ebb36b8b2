------------------------ MODULE SettlementRelayProofs ------------------------
(* What reaches the outbox and the chain, proved for any placements, signed *)
(* orders and limits, and any number of crashes and database errors.        *)
EXTENDS SettlementRelay, SequenceTheorems, TLAPS

Req == [id : Nat, fill : Batches \X Nat, run : Nat,
        orders : SUBSET (Payloads \cup {Unsigned})]

Row == [request : Req, status : {"pending", "submitted", "failed"}, attempts : Nat]

\* The requests of the rows, which no statement ever changes.
RequestsOf(box) == [r \in DOMAIN box |-> box[r].request]
Filed == RequestsOf(outbox)

OutboxTypes == outbox \in Seq(Row)

LEMMA RequestsOfRows ==
  ASSUME NEW box \in Seq(Row)
  PROVE  /\ RequestsOf(box) \in Seq(Req)
         /\ DOMAIN RequestsOf(box) = DOMAIN box
         /\ DOMAIN box = 1 .. Len(box) /\ Len(box) \in Nat
         /\ Len(RequestsOf(box)) = Len(box)
         /\ \A r \in DOMAIN box :
               /\ box[r] \in Row /\ RequestsOf(box)[r] = box[r].request
               /\ box[r].request \in Req
<1>1. DOMAIN box = 1 .. Len(box) /\ Len(box) \in Nat
  OBVIOUS
<1>2. \A r \in DOMAIN box : box[r] \in Row
  OBVIOUS
<1>3. \A r \in DOMAIN box : box[r].request \in Req
  BY <1>2 DEF Row
<1>4. RequestsOf(box) \in [1 .. Len(box) -> Req]
  BY <1>1, <1>3 DEF RequestsOf
<1>5. RequestsOf(box) \in Seq(Req)
  BY <1>1, <1>4, SeqDef
<1> QED BY <1>1, <1>2, <1>3, <1>4, <1>5 DEF RequestsOf

LEMMA FiledRequests ==
  ASSUME OutboxTypes
  PROVE  /\ Filed \in Seq(Req) /\ DOMAIN Filed = Rows
         /\ \A r \in Rows : outbox[r] \in Row /\ Filed[r] = outbox[r].request
  BY RequestsOfRows DEF OutboxTypes, Filed, Rows

\* A statement that rewrites status and attempts, whatever rows it touches.
Updates ==
    /\ outbox' \in Seq(Row)
    /\ DOMAIN outbox' = Rows
    /\ \A r \in Rows : outbox'[r].request = outbox[r].request

LEMMA UpdatesKeepFiled ==
  ASSUME Updates
  PROVE  UNCHANGED Filed
  BY DEF Updates, Filed, RequestsOf, Rows

LEMMA InsertFiles ==
  ASSUME OutboxTypes, NEW q \in Req, outbox' = Append(outbox, NewRow(q))
  PROVE  /\ OutboxTypes'
         /\ Rows' = Rows \cup {Len(outbox) + 1} /\ Len(outbox) + 1 \notin Rows
         /\ \A r \in Rows : outbox'[r] = outbox[r]
         /\ outbox'[Len(outbox) + 1] = NewRow(q)
         /\ Filed' = Append(Filed, q)
<1>1. NewRow(q) \in Row /\ NewRow(q).request = q
  BY DEF NewRow, Row
<1> DEFINE row == NewRow(q)
<1> HIDE DEF row
<1>2. /\ outbox' \in Seq(Row)
      /\ Rows' = Rows \cup {Len(outbox) + 1} /\ Len(outbox) + 1 \notin Rows
      /\ \A r \in Rows : outbox'[r] = outbox[r]
      /\ outbox'[Len(outbox) + 1] = row
  <2>1. outbox' = Append(outbox, row)
    BY DEF row
  <2>2. row \in Row
    BY <1>1 DEF row
  <2> QED BY <2>1, <2>2 DEF OutboxTypes, Rows
<1>3. Filed' = Append(Filed, q)
  <2>1. Filed \in Seq(Req) /\ Len(Filed) = Len(outbox) /\ DOMAIN Filed = Rows
    BY RequestsOfRows DEF Filed, OutboxTypes, Rows
  <2>2. /\ Filed' \in Seq(Req) /\ DOMAIN Filed' = Rows'
        /\ Len(Filed') = Len(Filed) + 1
    <3>1. Filed' \in Seq(Req) /\ DOMAIN Filed' = Rows' /\ Len(Filed') = Len(outbox')
      BY <1>2, RequestsOfRows DEF Filed, Rows
    <3>2. Len(outbox') = Len(outbox) + 1
      BY DEF OutboxTypes
    <3> QED BY <2>1, <3>1, <3>2
  <2>3. \A r \in Rows' : Filed'[r] = IF r \in Rows THEN Filed[r] ELSE q
    BY <1>1, <1>2 DEF Filed, RequestsOf, Rows, row
  <2>4. /\ Append(Filed, q) \in Seq(Req) /\ Len(Append(Filed, q)) = Len(Filed) + 1
        /\ \A i \in 1 .. Len(Filed) : Append(Filed, q)[i] = Filed[i]
        /\ Append(Filed, q)[Len(Filed) + 1] = q
    BY <2>1, AppendProperties
  <2>5. \A i \in 1 .. Len(Filed') : Filed'[i] = Append(Filed, q)[i]
    BY <1>2, <2>1, <2>2, <2>3, <2>4
  <2> QED BY <2>2, <2>4, <2>5, SeqEqual
<1> QED BY <1>2, <1>3 DEF OutboxTypes, row

-----------------------------------------------------------------------------
(* The edge. A batch's requests are inserted in the order of its fills, so  *)
(* the rows of a batch are its first k fills for some k; the requests that  *)
(* wait in the handler are the rest.                                        *)

\* The rows of batch b are its first k fills.
FiledUpTo(b, filed, k) ==
    /\ \A r \in DOMAIN filed : filed[r].fill[1] = b => filed[r].fill[2] \in 1 .. k
    /\ \A i \in 1 .. k : \E r \in DOMAIN filed : filed[r].fill = <<b, i>>

\* No fill has two rows, and every row comes after those of the fills before it.
FiledInOrder(filed) ==
    /\ \A q, r \in DOMAIN filed : filed[q].fill = filed[r].fill => q = r
    /\ \A r \in DOMAIN filed : \A i \in 1 .. filed[r].fill[2] - 1 :
          \E p \in 1 .. r - 1 : filed[p].fill = <<filed[r].fill[1], i>>

LEMMA FileNext ==
  ASSUME NEW filed \in Seq(Req), FiledInOrder(filed), NEW q \in Req,
         NEW b, NEW k \in Nat, q.fill = <<b, k + 1>>, FiledUpTo(b, filed, k)
  PROVE  LET next == Append(filed, q)
         IN  /\ FiledInOrder(next) /\ FiledUpTo(b, next, k + 1)
             /\ \A c, j : c # b /\ FiledUpTo(c, filed, j) => FiledUpTo(c, next, j)
<1> DEFINE next == Append(filed, q)
           n == Len(filed) + 1
<1>1. /\ DOMAIN filed = 1 .. Len(filed) /\ Len(filed) \in Nat
      /\ DOMAIN next = 1 .. n
      /\ \A r \in DOMAIN filed : next[r] = filed[r] /\ r \in DOMAIN next
      /\ next[n] = q /\ n \in DOMAIN next
      /\ \A r \in DOMAIN next : r \in DOMAIN filed \/ r = n
      /\ n \notin DOMAIN filed
  BY AppendProperties
<1>2. q.fill[1] = b /\ q.fill[2] = k + 1
  OBVIOUS
<1> HIDE DEF next
<1>3. \A r \in DOMAIN filed : filed[r].fill # q.fill
  BY <1>2 DEF FiledUpTo
<1>4. FiledUpTo(b, next, k + 1)
  <2>1. ASSUME NEW r \in DOMAIN next, next[r].fill[1] = b
        PROVE  next[r].fill[2] \in 1 .. k + 1
    BY <1>1, <1>2, <2>1 DEF FiledUpTo
  <2>2. ASSUME NEW i \in 1 .. k + 1
        PROVE  \E r \in DOMAIN next : next[r].fill = <<b, i>>
    <3>1. CASE i = k + 1
      BY <1>1, <3>1
    <3>2. CASE i \in 1 .. k
      <4>1. PICK r \in DOMAIN filed : filed[r].fill = <<b, i>>
        BY <3>2 DEF FiledUpTo
      <4> QED BY <1>1, <4>1
    <3> QED BY <3>1, <3>2
  <2> QED BY <2>1, <2>2 DEF FiledUpTo
<1>5. ASSUME NEW c, NEW j, c # b, FiledUpTo(c, filed, j)
      PROVE  FiledUpTo(c, next, j)
  <2>1. ASSUME NEW r \in DOMAIN next, next[r].fill[1] = c
        PROVE  next[r].fill[2] \in 1 .. j
    BY <1>1, <1>2, <1>5, <2>1 DEF FiledUpTo
  <2>2. ASSUME NEW i \in 1 .. j
        PROVE  \E r \in DOMAIN next : next[r].fill = <<c, i>>
    <3>1. PICK r \in DOMAIN filed : filed[r].fill = <<c, i>>
      BY <1>5 DEF FiledUpTo
    <3> QED BY <1>1, <3>1
  <2> QED BY <2>1, <2>2 DEF FiledUpTo
<1>6. FiledInOrder(next)
  <2>1. ASSUME NEW x \in DOMAIN next, NEW y \in DOMAIN next, next[x].fill = next[y].fill
        PROVE  x = y
    BY <1>1, <1>3, <2>1 DEF FiledInOrder
  <2>2. ASSUME NEW r \in DOMAIN next, NEW i \in 1 .. next[r].fill[2] - 1
        PROVE  \E p \in 1 .. r - 1 : next[p].fill = <<next[r].fill[1], i>>
    <3>1. CASE r \in DOMAIN filed
      <4>1. PICK p \in 1 .. r - 1 : filed[p].fill = <<filed[r].fill[1], i>>
        BY <1>1, <2>2, <3>1 DEF FiledInOrder
      <4>2. p \in DOMAIN filed
        BY <1>1, <3>1
      <4> QED BY <1>1, <3>1, <4>1, <4>2
    <3>2. CASE r = n
      <4>1. i \in 1 .. k /\ next[r].fill[1] = b
        BY <1>1, <1>2, <3>2
      <4>2. PICK p \in DOMAIN filed : filed[p].fill = <<b, i>>
        BY <4>1 DEF FiledUpTo
      <4>3. p \in 1 .. r - 1
        BY <1>1, <3>2
      <4> QED BY <1>1, <4>1, <4>2, <4>3
    <3> QED BY <1>1, <3>1, <3>2
  <2> QED BY <2>1, <2>2 DEF FiledInOrder
<1> QED BY <1>4, <1>5, <1>6 DEF next

Handler ==
    [step : {"Unplaced", "Replied", "Enqueueing", "Done"}, requests : Seq(Req)]

Fills(b) == Len(Placements[b].fills)

BatchOK(b, h, filed) ==
    /\ h.step \in {"Unplaced", "Replied"} => FiledUpTo(b, filed, 0)
    /\ h.step = "Enqueueing" =>
          \E k \in Nat :
              /\ Len(h.requests) = Fills(b) - k /\ h.requests # <<>>
              /\ FiledUpTo(b, filed, k)
              /\ \A j \in 1 .. Len(h.requests) : h.requests[j].fill = <<b, k + j>>
    /\ h.step # "Enqueueing" => h.requests = <<>>

EdgeInv ==
    /\ OutboxTypes
    /\ handler \in [Batches -> Handler]
    /\ signedOrders \in [OrderIds -> Payloads \cup {Unsigned}]
    /\ nextId \in Nat /\ crashes \in Nat
    /\ FiledInOrder(Filed)
    /\ \A b \in Batches : BatchOK(b, handler[b], Filed)

\* The requests the bridge makes of a batch.
LEMMA RequestsMade ==
  ASSUME EdgeInv, NEW b \in Batches
  PROVE  /\ RequestsFromBatch(b) \in Seq(Req)
         /\ Len(RequestsFromBatch(b)) = Fills(b) /\ Fills(b) \in Nat
         /\ \A i \in 1 .. Fills(b) :
               /\ RequestsFromBatch(b)[i].fill = <<b, i>>
               /\ RequestsFromBatch(b)[i].id = nextId + i - 1
               /\ RequestsFromBatch(b)[i].run = crashes
<1>1. /\ Fills(b) \in Nat /\ DOMAIN Placements[b].fills = 1 .. Fills(b)
      /\ \A i \in 1 .. Fills(b) :
            /\ Placements[b].fills[i].maker \in OrderIds
            /\ Placements[b].fills[i].taker \in OrderIds
  BY PlacementsAssumption DEF Fills
<1>2. DOMAIN IntentsOf(b) = 1 .. Fills(b)
  BY <1>1 DEF IntentsOf
<1>3. ASSUME NEW i \in 1 .. Fills(b)
      PROVE  Request(b, i) \in Req
  <2>1. /\ IntentsOf(b)[i].maker = Placements[b].fills[i].maker
        /\ IntentsOf(b)[i].taker = Placements[b].fills[i].taker
    BY <1>1 DEF IntentsOf, IntentFromFill
  <2>2. {signedOrders[IntentsOf(b)[i].maker], signedOrders[IntentsOf(b)[i].taker]}
          \in SUBSET (Payloads \cup {Unsigned})
    BY <1>1, <2>1 DEF EdgeInv
  <2>3. nextId + i - 1 \in Nat /\ <<b, i>> \in Batches \X Nat /\ crashes \in Nat
    BY <1>1 DEF EdgeInv
  <2> QED BY <2>2, <2>3 DEF Request, Req
<1>4. RequestsFromBatch(b) \in [1 .. Fills(b) -> Req]
  BY <1>2, <1>3 DEF RequestsFromBatch
<1>5. RequestsFromBatch(b) \in Seq(Req) /\ Len(RequestsFromBatch(b)) = Fills(b)
  <2>1. RequestsFromBatch(b) \in Seq(Req)
    BY <1>1, <1>4, SeqDef
  <2>2. DOMAIN RequestsFromBatch(b) = 1 .. Fills(b)
    BY <1>4
  <2> QED BY <1>1, <2>1, <2>2, LenProperties
<1>6. \A i \in 1 .. Fills(b) : RequestsFromBatch(b)[i] = Request(b, i)
  BY <1>2 DEF RequestsFromBatch
<1> QED BY <1>1, <1>5, <1>6 DEF Request

\* A step that gives one handler another state and files nothing.
LEMMA HandlerMoves ==
  ASSUME EdgeInv, NEW b \in Batches, NEW h \in Handler,
         handler' = [handler EXCEPT ![b] = h], BatchOK(b, h, Filed),
         UNCHANGED <<signedOrders, outbox, crashes>>, nextId' \in Nat
  PROVE  EdgeInv'
<1>1. UNCHANGED Filed
  BY DEF Filed, RequestsOf
<1>2. handler' \in [Batches -> Handler]
  BY DEF EdgeInv
<1>3. \A c \in Batches : BatchOK(c, handler'[c], Filed)
  BY DEF EdgeInv
<1> QED BY <1>1, <1>2, <1>3 DEF EdgeInv, OutboxTypes

LEMMA ReplyKeeps ==
  ASSUME EdgeInv, NEW b \in Batches, OrderReplied(b)
  PROVE  EdgeInv'
<1> DEFINE h == [handler[b] EXCEPT !.step = "Replied"]
<1>1. handler[b] \in Handler /\ handler[b].step = "Unplaced" /\ BatchOK(b, handler[b], Filed)
  BY DEF OrderReplied, EdgeInv
<1>2. h \in Handler /\ h.step = "Replied" /\ h.requests = handler[b].requests
  BY <1>1 DEF Handler
<1>3. /\ handler' = [handler EXCEPT ![b] = h]
      /\ UNCHANGED <<signedOrders, outbox, crashes, nextId>>
  BY DEF OrderReplied, bounds
<1> HIDE DEF h
<1>4. BatchOK(b, h, Filed)
  BY <1>1, <1>2 DEF BatchOK
<1> QED BY <1>2, <1>3, <1>4, HandlerMoves DEF EdgeInv

LEMMA QueueKeeps ==
  ASSUME EdgeInv, NEW b \in Batches, QueueSettlementRequests(b)
  PROVE  EdgeInv'
<1>1. handler[b].step = "Replied" /\ BatchOK(b, handler[b], Filed)
  BY DEF QueueSettlementRequests, EdgeInv
<1>2. FiledUpTo(b, Filed, 0)
  BY <1>1 DEF BatchOK
<1>3. UNCHANGED <<signedOrders, outbox, crashes>> /\ nextId' \in Nat
  BY PlacementsAssumption DEF QueueSettlementRequests, AllocateSettlementIds, EdgeInv, bounds
<1>4. CASE handler' = [handler EXCEPT ![b] = [step |-> "Done", requests |-> <<>>]]
  <2> DEFINE h == [step |-> "Done", requests |-> <<>>]
  <2>1. h \in Handler /\ h.step = "Done" /\ h.requests = <<>>
    BY EmptySeq DEF Handler
  <2> HIDE DEF h
  <2>2. BatchOK(b, h, Filed)
    BY <2>1 DEF BatchOK
  <2>3. handler' = [handler EXCEPT ![b] = h]
    BY <1>4 DEF h
  <2> QED BY <1>3, <2>1, <2>2, <2>3, HandlerMoves
<1>5. CASE /\ Placements[b].fills # <<>>
           /\ handler' = [handler EXCEPT ![b] =
                            [step |-> "Enqueueing", requests |-> RequestsFromBatch(b)]]
  <2> DEFINE h == [step |-> "Enqueueing", requests |-> RequestsFromBatch(b)]
  <2>1. h \in Handler /\ h.step = "Enqueueing" /\ h.requests = RequestsFromBatch(b)
    BY RequestsMade DEF Handler
  <2>2. handler' = [handler EXCEPT ![b] = h]
    BY <1>5
  <2> HIDE DEF h
  <2>3. Fills(b) > 0
    BY <1>5, PlacementsAssumption DEF Fills
  <2>4. h.requests # <<>>
    BY <2>1, <2>3, RequestsMade
  <2>5. BatchOK(b, h, Filed)
    <3>1. /\ Len(h.requests) = Fills(b) - 0 /\ FiledUpTo(b, Filed, 0)
          /\ \A j \in 1 .. Len(h.requests) : h.requests[j].fill = <<b, 0 + j>>
      BY <1>2, <2>1, RequestsMade
    <3> QED BY <2>1, <2>4, <3>1 DEF BatchOK
  <2> QED BY <1>3, <2>1, <2>2, <2>5, HandlerMoves
<1> QED BY <1>4, <1>5 DEF QueueSettlementRequests

\* What an INSERT does to a handler's queue, and to the rows of its batch.
LEMMA NextRequest ==
  ASSUME EdgeInv, NEW b \in Batches, handler[b].step = "Enqueueing"
  PROVE  \E k \in Nat :
            LET rs == handler[b].requests
            IN  /\ rs \in Seq(Req) /\ rs # <<>> /\ Head(rs) \in Req
                /\ Tail(rs) \in Seq(Req) /\ Len(Tail(rs)) = Len(rs) - 1
                /\ Len(rs) = Fills(b) - k /\ FiledUpTo(b, Filed, k)
                /\ Head(rs).fill = <<b, k + 1>>
                /\ \A j \in 1 .. Len(Tail(rs)) :
                      /\ Tail(rs)[j] = rs[j + 1]
                      /\ Tail(rs)[j].fill = <<b, (k + 1) + j>>
<1> DEFINE rs == handler[b].requests
<1>1. rs \in Seq(Req)
  BY DEF EdgeInv, Handler
<1>2. PICK k \in Nat : /\ Len(rs) = Fills(b) - k /\ rs # <<>>
                       /\ FiledUpTo(b, Filed, k)
                       /\ \A j \in 1 .. Len(rs) : rs[j].fill = <<b, k + j>>
  BY DEF EdgeInv, BatchOK
<1> HIDE DEF rs
<1>3. /\ Head(rs) \in Req /\ Tail(rs) \in Seq(Req) /\ Len(Tail(rs)) = Len(rs) - 1
      /\ \A j \in 1 .. Len(Tail(rs)) : Tail(rs)[j] = rs[j + 1]
  BY <1>1, <1>2, HeadTailProperties
<1>4. Len(rs) \in Nat \ {0} /\ Head(rs) = rs[1]
  BY <1>1, <1>2, EmptySeq
<1>5. Head(rs).fill = <<b, k + 1>>
  BY <1>2, <1>4
<1>6. ASSUME NEW j \in 1 .. Len(Tail(rs))
      PROVE  Tail(rs)[j].fill = <<b, (k + 1) + j>>
  <2>1. j + 1 \in 1 .. Len(rs) /\ k + (j + 1) = (k + 1) + j
    BY <1>3, <1>4
  <2> QED BY <1>2, <1>3, <2>1
<1> QED BY <1>1, <1>2, <1>3, <1>5, <1>6 DEF rs

\* The row of the handler's next request is inserted and the handler is left
\* with h.
LEMMA InsertKeeps ==
  ASSUME EdgeInv, NEW b \in Batches, NEW h \in Handler, NEW q \in Req, NEW k \in Nat,
         q.fill = <<b, k + 1>>, FiledUpTo(b, Filed, k),
         outbox' = Append(outbox, NewRow(q)), handler' = [handler EXCEPT ![b] = h],
         UNCHANGED <<signedOrders, nextId, crashes>>,
         \/ h.step = "Done" /\ h.requests = <<>>
         \/ /\ h.step = "Enqueueing" /\ h.requests # <<>>
            /\ Len(h.requests) = Fills(b) - (k + 1)
            /\ \A j \in 1 .. Len(h.requests) : h.requests[j].fill = <<b, (k + 1) + j>>
  PROVE  EdgeInv'
<1>1. /\ Filed \in Seq(Req) /\ OutboxTypes' /\ Filed' = Append(Filed, q)
      /\ FiledInOrder(Filed)
  BY FiledRequests, InsertFiles DEF EdgeInv
<1>2. /\ FiledInOrder(Filed') /\ FiledUpTo(b, Filed', k + 1)
      /\ \A c, j : c # b /\ FiledUpTo(c, Filed, j) => FiledUpTo(c, Filed', j)
  BY <1>1, FileNext
<1>3. handler' \in [Batches -> Handler]
  BY DEF EdgeInv
<1>4. BatchOK(b, h, Filed')
  <2>1. k + 1 \in Nat
    OBVIOUS
  <2> QED BY <1>2, <2>1 DEF BatchOK
<1>5. ASSUME NEW c \in Batches, c # b
      PROVE  BatchOK(c, handler[c], Filed')
  <2>1. BatchOK(c, handler[c], Filed)
    BY DEF EdgeInv
  <2> QED BY <1>2, <1>5, <2>1 DEF BatchOK
<1>6. \A c \in Batches : BatchOK(c, handler'[c], Filed')
  BY <1>4, <1>5 DEF EdgeInv
<1> QED BY <1>1, <1>2, <1>3, <1>6 DEF EdgeInv

LEMMA EnqueueKeeps ==
  ASSUME EdgeInv, NEW b \in Batches, EnqueueRequest(b)
  PROVE  EdgeInv'
<1> DEFINE rs == handler[b].requests
           rest == Tail(rs)
           step == IF Len(rs) = 1 THEN "Done" ELSE "Enqueueing"
           h == [handler[b] EXCEPT !.requests = rest, !.step = step]
<1>1. handler[b] \in Handler /\ handler[b].step = "Enqueueing"
  BY DEF EnqueueRequest, EdgeInv
<1>2. PICK k \in Nat :
         /\ rs \in Seq(Req) /\ rs # <<>> /\ Head(rs) \in Req
         /\ rest \in Seq(Req) /\ Len(rest) = Len(rs) - 1
         /\ Len(rs) = Fills(b) - k /\ FiledUpTo(b, Filed, k)
         /\ Head(rs).fill = <<b, k + 1>>
         /\ \A j \in 1 .. Len(rest) : rest[j].fill = <<b, (k + 1) + j>>
  BY <1>1, NextRequest
<1>3. /\ outbox' = Append(outbox, NewRow(Head(rs)))
      /\ handler' = [handler EXCEPT ![b] = h]
      /\ UNCHANGED <<signedOrders, nextId, crashes>>
  BY <1>1 DEF EnqueueRequest, EdgeInv, bounds
<1>4. step = IF Len(rs) = 1 THEN "Done" ELSE "Enqueueing"
  OBVIOUS
<1> HIDE DEF rs, rest, step
<1>5. h \in Handler /\ h.requests = rest /\ h.step = step
  <2>1. step \in {"Done", "Enqueueing"} /\ rest \in Seq(Req)
    BY <1>2, <1>4
  <2> QED BY <1>1, <2>1 DEF Handler
<1> HIDE DEF h
<1>6. \/ h.step = "Done" /\ h.requests = <<>>
      \/ /\ h.step = "Enqueueing" /\ h.requests # <<>>
         /\ Len(h.requests) = Fills(b) - (k + 1)
         /\ \A j \in 1 .. Len(h.requests) : h.requests[j].fill = <<b, (k + 1) + j>>
  <2>1. Fills(b) \in Nat /\ Len(rs) \in Nat
    BY <1>2, RequestsMade
  <2>2. CASE Len(rs) = 1
    <3>1. Len(rest) = 0
      BY <1>2, <2>2
    <3> QED BY <1>2, <1>4, <1>5, <2>2, <3>1, EmptySeq
  <2>3. CASE Len(rs) # 1
    <3>1. Len(rest) # 0 /\ Len(rest) = Fills(b) - (k + 1)
      BY <1>2, <2>1, <2>3
    <3> QED BY <1>2, <1>4, <1>5, <2>3, <3>1, EmptySeq
  <2> QED BY <2>2, <2>3
<1> QED BY <1>2, <1>3, <1>5, <1>6, InsertKeeps

\* The failing INSERT may have committed; the rest of the batch is dropped.
LEMMA EnqueueFailsKeeps ==
  ASSUME EdgeInv, NEW b \in Batches, EnqueueFails(b)
  PROVE  EdgeInv'
<1> DEFINE rs == handler[b].requests
           h == [step |-> "Done", requests |-> <<>>]
<1>1. h \in Handler /\ h.step = "Done" /\ h.requests = <<>>
  BY EmptySeq DEF Handler
<1>2. /\ handler[b].step = "Enqueueing"
      /\ handler' = [handler EXCEPT ![b] = h]
      /\ UNCHANGED <<signedOrders, nextId, crashes>>
      /\ outbox' = outbox \/ outbox' = Append(outbox, NewRow(Head(rs)))
  BY DEF EnqueueFails
<1>3. PICK k \in Nat : /\ Head(rs) \in Req /\ FiledUpTo(b, Filed, k)
                       /\ Head(rs).fill = <<b, k + 1>>
  BY <1>2, NextRequest
<1> HIDE DEF h, rs
<1>4. CASE outbox' = outbox
  <2>1. BatchOK(b, h, Filed)
    BY <1>1 DEF BatchOK
  <2> QED BY <1>1, <1>2, <1>4, <2>1, HandlerMoves DEF EdgeInv
<1>5. CASE outbox' = Append(outbox, NewRow(Head(rs)))
  BY <1>1, <1>2, <1>3, <1>5, InsertKeeps
<1> QED BY <1>2, <1>4, <1>5

LEMMA RegisterKeeps ==
  ASSUME EdgeInv, NEW p \in Payloads, RegisterSignedOrder(p)
  PROVE  EdgeInv'
<1>1. UNCHANGED <<handler, nextId, outbox, crashes>> /\ UNCHANGED Filed
  BY DEF RegisterSignedOrder, bounds, Filed, RequestsOf
<1>2. signedOrders' \in [OrderIds -> Payloads \cup {Unsigned}]
  BY DEF RegisterSignedOrder, EdgeInv, OrderIds
<1> QED BY <1>1, <1>2 DEF EdgeInv, OutboxTypes

\* A crash drops the queues: what is filed stays a prefix of each batch.
LEMMA RestartKeeps ==
  ASSUME EdgeInv, Restart
  PROVE  EdgeInv'
<1>1. /\ UNCHANGED outbox /\ UNCHANGED Filed
      /\ nextId' = 0 /\ crashes' = crashes + 1
      /\ signedOrders' = [o \in OrderIds |-> Unsigned]
  BY DEF Restart, Filed, RequestsOf
<1>2. ASSUME NEW b \in Batches
      PROVE  handler'[b] \in Handler /\ BatchOK(b, handler'[b], Filed)
  <2>1. handler[b] \in Handler /\ BatchOK(b, handler[b], Filed)
    BY DEF EdgeInv
  <2>2. CASE handler[b].step = "Unplaced"
    BY <2>1, <2>2 DEF Restart
  <2>3. CASE handler[b].step # "Unplaced"
    <3> DEFINE h == [step |-> "Done", requests |-> <<>>]
    <3>1. handler'[b] = h
      BY <2>3 DEF Restart
    <3>2. h \in Handler /\ h.step = "Done" /\ h.requests = <<>>
      BY EmptySeq DEF Handler
    <3> HIDE DEF h
    <3> QED BY <3>1, <3>2 DEF BatchOK
  <2> QED BY <2>2, <2>3
<1>3. handler' \in [Batches -> Handler]
  BY <1>2 DEF Restart
<1> QED BY <1>1, <1>2, <1>3 DEF EdgeInv, OutboxTypes

\* The worker's statements and the chain leave the edge and what is filed alone.
LEMMA UpdateKeeps ==
  ASSUME EdgeInv, UNCHANGED <<edge, crashes>>, Updates
  PROVE  EdgeInv'
  BY UpdatesKeepFiled DEF EdgeInv, Updates, OutboxTypes, edge

\* No fill is filed twice, and rows of a batch are in order of its fills.
LEMMA EdgeInvImplies ==
  ASSUME EdgeInv
  PROVE  OutboxHoldsPrefixOfBatch
<1>1. /\ DOMAIN Filed = Rows /\ FiledInOrder(Filed)
      /\ \A r \in Rows : Filed[r] = outbox[r].request
      /\ Rows = 1 .. Len(outbox) /\ Len(outbox) \in Nat
  BY FiledRequests, RequestsOfRows DEF EdgeInv, OutboxTypes, Rows
<1>2. ASSUME NEW q \in Rows, NEW r \in Rows, outbox[q].request.fill = outbox[r].request.fill
      PROVE  q = r
  BY <1>1, <1>2 DEF FiledInOrder
<1>3. ASSUME NEW r \in Rows, NEW i \in 1 .. outbox[r].request.fill[2] - 1
      PROVE  \E p \in 1 .. r - 1 :
                outbox[p].request.fill = <<outbox[r].request.fill[1], i>>
  <2>1. PICK p \in 1 .. r - 1 : Filed[p].fill = <<Filed[r].fill[1], i>>
    BY <1>1 DEF FiledInOrder
  <2>2. p \in Rows
    BY <1>1
  <2> QED BY <1>1, <2>1, <2>2
<1> QED BY <1>2, <1>3 DEF OutboxHoldsPrefixOfBatch

-----------------------------------------------------------------------------
(* Settlement ids. A counter hands them out, so within one run of the       *)
(* process no two fills whose requests wait or are filed share one.         *)

Waiting(b) == {handler[b].requests[j] : j \in 1 .. Len(handler[b].requests)}
InSight == {Filed[r] : r \in Rows} \cup UNION {Waiting(b) : b \in Batches}

IdsOf(sight, next, run) ==
    /\ \A q \in sight : q.run <= run /\ (q.run = run => q.id < next)
    /\ \A p, q \in sight : p.fill # q.fill /\ p.run = q.run => p.id # q.id

IdsInv == InSight \subseteq Req /\ IdsOf(InSight, nextId, crashes)

\* Requests only come into sight when the bridge makes them.
LEMMA FewerInSight ==
  ASSUME EdgeInv, IdsInv, InSight' \subseteq InSight,
         \/ nextId' = nextId /\ crashes' = crashes
         \/ nextId' \in Nat /\ nextId <= nextId' /\ crashes' = crashes
         \/ crashes' = crashes + 1
  PROVE  IdsInv'
<1>1. nextId \in Nat /\ crashes \in Nat
  BY DEF EdgeInv
<1>2. \A q \in InSight : q.run \in Nat /\ q.id \in Nat
  BY DEF IdsInv, Req
<1> QED BY <1>1, <1>2 DEF IdsInv, IdsOf

LEMMA QueueKeepsIds ==
  ASSUME EdgeInv, IdsInv, NEW b \in Batches, QueueSettlementRequests(b)
  PROVE  IdsInv'
<1> DEFINE made == {RequestsFromBatch(b)[i] : i \in 1 .. Fills(b)}
<1>1. /\ nextId \in Nat /\ crashes \in Nat /\ Fills(b) \in Nat
      /\ UNCHANGED <<Filed, Rows>> /\ crashes' = crashes
      /\ nextId' = nextId + Fills(b)
  <2>1. /\ UNCHANGED <<Filed, Rows>> /\ crashes' = crashes
        /\ nextId' = IF Placements[b].fills = <<>> THEN nextId ELSE nextId + Fills(b)
    BY DEF QueueSettlementRequests, AllocateSettlementIds, Fills, Filed, RequestsOf, Rows, bounds
  <2>2. nextId \in Nat /\ crashes \in Nat /\ Fills(b) \in Nat
    BY RequestsMade DEF EdgeInv
  <2>3. Placements[b].fills = <<>> => Fills(b) = 0
    BY DEF Fills
  <2> QED BY <2>1, <2>2, <2>3
<1>2. InSight' \subseteq InSight \cup made
  <2>1. ASSUME NEW c \in Batches, NEW q \in Waiting(c)'
        PROVE  q \in InSight \cup made
    <3>1. CASE c # b
      BY <2>1, <3>1 DEF QueueSettlementRequests, Waiting, InSight, EdgeInv
    <3>2. CASE c = b
      <4>1. \/ handler'[b].requests = <<>>
            \/ handler'[b].requests = RequestsFromBatch(b)
        BY DEF QueueSettlementRequests, EdgeInv
      <4> QED BY <2>1, <3>2, <4>1, RequestsMade DEF Waiting
    <3> QED BY <3>1, <3>2
  <2> QED BY <1>1, <2>1 DEF InSight
<1>3. \A q \in made : /\ q \in Req /\ q.run = crashes
                       /\ q.id \in nextId .. nextId + Fills(b) - 1
  BY <1>1, RequestsMade
<1>4. ASSUME NEW p \in made, NEW q \in made, p.fill # q.fill
      PROVE  p.id # q.id
  <2>1. PICK i \in 1 .. Fills(b) : p = RequestsFromBatch(b)[i]
    OBVIOUS
  <2>2. PICK j \in 1 .. Fills(b) : q = RequestsFromBatch(b)[j]
    OBVIOUS
  <2>3. p.id = nextId + i - 1 /\ q.id = nextId + j - 1 /\ i # j
    BY <1>4, <2>1, <2>2, RequestsMade
  <2> QED BY <1>1, <2>3
<1> HIDE DEF made
<1>5. \A q \in InSight :
         /\ q \in Req /\ q.run \in Nat /\ q.id \in Nat /\ q.run <= crashes
         /\ (q.run = crashes => q.id < nextId)
  BY DEF IdsInv, IdsOf, Req
<1>6. ASSUME NEW p \in InSight \cup made, NEW q \in InSight \cup made,
             p.fill # q.fill, p.run = q.run
      PROVE  p.id # q.id
  <2>1. CASE p \in InSight /\ q \in InSight
    BY <1>6, <2>1 DEF IdsInv, IdsOf
  <2>2. CASE p \in made /\ q \in made
    BY <1>4, <1>6, <2>2
  <2>3. CASE p \in InSight /\ q \in made
    BY <1>1, <1>3, <1>5, <1>6, <2>3
  <2>4. CASE p \in made /\ q \in InSight
    BY <1>1, <1>3, <1>5, <1>6, <2>4
  <2> QED BY <2>1, <2>2, <2>3, <2>4
<1>7. \A q \in InSight \cup made :
         /\ q \in Req /\ q.run <= crashes
         /\ (q.run = crashes => q.id < nextId + Fills(b))
  BY <1>1, <1>3, <1>5
<1> QED BY <1>1, <1>2, <1>6, <1>7 DEF IdsInv, IdsOf

\* A queue that only shrinks and rows that hold requests already in sight.
LEMMA SightShrinks ==
  ASSUME \A c \in Batches : Waiting(c)' \subseteq Waiting(c),
         \A r \in Rows' : Filed'[r] \in InSight
  PROVE  InSight' \subseteq InSight
  BY DEF InSight

LEMMA InsertInSight ==
  ASSUME EdgeInv, NEW q \in Req, q \in InSight, outbox' = Append(outbox, NewRow(q))
  PROVE  \A r \in Rows' : Filed'[r] \in InSight
<1>1. /\ Rows' = Rows \cup {Len(outbox) + 1} /\ Filed' = Append(Filed, q)
      /\ Rows = 1 .. Len(outbox) /\ Len(outbox) \in Nat
      /\ Filed \in Seq(Req) /\ Len(Filed) = Len(outbox)
  BY InsertFiles, RequestsOfRows DEF EdgeInv, OutboxTypes, Rows, Filed
<1>2. \A r \in Rows : Filed'[r] = Filed[r]
  BY <1>1, AppendProperties
<1>3. Filed'[Len(outbox) + 1] = q
  BY <1>1, AppendProperties
<1> QED BY <1>1, <1>2, <1>3 DEF InSight

\* Steps that move a batch on without making requests.
LEMMA HandlersKeepIds ==
  ASSUME EdgeInv, IdsInv, NEW b \in Batches,
         OrderReplied(b) \/ EnqueueRequest(b) \/ EnqueueFails(b)
  PROVE  IdsInv'
<1> DEFINE rs == handler[b].requests
<1>1. nextId' = nextId /\ crashes' = crashes
  BY DEF OrderReplied, EnqueueRequest, EnqueueFails, bounds
<1>2. CASE OrderReplied(b)
  <2>1. UNCHANGED Filed /\ UNCHANGED Rows
    BY <1>2 DEF OrderReplied, Filed, RequestsOf, Rows
  <2>2. \A c \in Batches : handler'[c].requests = handler[c].requests
    BY <1>2 DEF OrderReplied, EdgeInv, Handler
  <2>3. InSight' \subseteq InSight
    BY <2>1, <2>2 DEF InSight, Waiting
  <2> QED BY <1>1, <2>3, FewerInSight
<1>3. CASE EnqueueRequest(b) \/ EnqueueFails(b)
  <2>1. handler[b].step = "Enqueueing"
    BY <1>3 DEF EnqueueRequest, EnqueueFails
  <2>2. /\ rs \in Seq(Req) /\ rs # <<>> /\ Head(rs) \in Req
        /\ Tail(rs) \in Seq(Req) /\ Len(Tail(rs)) = Len(rs) - 1
        /\ \A j \in 1 .. Len(Tail(rs)) : Tail(rs)[j] = rs[j + 1]
    BY <2>1, NextRequest
  <2>3. handler'[b].requests \in {Tail(rs), <<>>}
    BY <1>3 DEF EnqueueRequest, EnqueueFails, EdgeInv, Handler
  <2>4. \A c \in Batches : c # b => handler'[c] = handler[c]
    BY <1>3 DEF EnqueueRequest, EnqueueFails, EdgeInv
  <2>5. outbox' = outbox \/ outbox' = Append(outbox, NewRow(Head(rs)))
    BY <1>3 DEF EnqueueRequest, EnqueueFails
  <2> HIDE DEF rs
  <2>6. Len(rs) \in Nat \ {0} /\ Head(rs) = rs[1]
    BY <2>2, EmptySeq
  <2>7. \A c \in Batches : Waiting(c)' \subseteq Waiting(c)
    <3>1. \A j \in 1 .. Len(Tail(rs)) : Tail(rs)[j] = rs[j + 1] /\ j + 1 \in 1 .. Len(rs)
      BY <2>2, <2>6
    <3>2. Waiting(b) = {rs[j] : j \in 1 .. Len(rs)}
      BY DEF Waiting, rs
    <3>3. CASE handler'[b].requests = Tail(rs)
      <4>1. Waiting(b)' = {Tail(rs)[j] : j \in 1 .. Len(Tail(rs))}
        BY <3>3 DEF Waiting
      <4>2. Waiting(b)' \subseteq Waiting(b)
        BY <3>1, <3>2, <4>1
      <4>3. \A c \in Batches : c # b => Waiting(c)' = Waiting(c)
        BY <2>4 DEF Waiting
      <4> QED BY <4>2, <4>3
    <3>4. CASE handler'[b].requests = <<>>
      <4>1. Waiting(b)' = {}
        BY <3>4 DEF Waiting
      <4> QED BY <2>4, <4>1 DEF Waiting
    <3> QED BY <2>3, <3>3, <3>4
  <2>8. Head(rs) \in InSight
    <3>1. Head(rs) \in Waiting(b)
      BY <2>6 DEF Waiting, rs
    <3> QED BY <3>1 DEF InSight
  <2>9. \A r \in Rows' : Filed'[r] \in InSight
    <3>1. CASE outbox' = outbox
      BY <3>1 DEF Filed, RequestsOf, Rows, InSight
    <3>2. CASE outbox' = Append(outbox, NewRow(Head(rs)))
      BY <2>2, <2>8, <3>2, InsertInSight
    <3> QED BY <2>5, <3>1, <3>2
  <2>10. InSight' \subseteq InSight
    BY <2>7, <2>9, SightShrinks
  <2> QED BY <1>1, <2>10, FewerInSight
<1> QED BY <1>2, <1>3

\* A restart: the counter starts again, under another run.
LEMMA RestartKeepsIds ==
  ASSUME EdgeInv, IdsInv, Restart
  PROVE  IdsInv'
<1>1. UNCHANGED Filed /\ UNCHANGED Rows /\ crashes' = crashes + 1
  BY DEF Restart, Filed, RequestsOf, Rows
<1>2. \A c \in Batches : handler'[c].requests \in {handler[c].requests, <<>>}
  BY DEF Restart
<1>3. \A c \in Batches : Waiting(c)' \subseteq Waiting(c)
  BY <1>2 DEF Waiting
<1>4. InSight' \subseteq InSight
  BY <1>1, <1>3, SightShrinks DEF InSight
<1> QED BY <1>1, <1>4, FewerInSight

LEMMA OthersKeepIds ==
  ASSUME EdgeInv, IdsInv, UNCHANGED <<Filed, Rows, handler, nextId, crashes>>
  PROVE  IdsInv'
<1>1. InSight' \subseteq InSight
  BY DEF InSight, Waiting
<1> QED BY <1>1, FewerInSight

-----------------------------------------------------------------------------
(* The worker and the chain. Whatever the worker holds is a row, whatever   *)
(* has a receipt is filed, and a row is recorded as submitted only after    *)
(* its own receipt exists.                                                  *)

Worker == [step : {"Idle", "Next", "Submit", "Confirm", "Record"}, work : SUBSET Nat,
           row : Nat, round : Nat, tx : {Flying, Landed, Refused},
           outcome : {"None", "Retryable", "Rejected", "Submitted"}]

Busy(w) == w.step \in {"Submit", "Confirm", "Record"}

\* The worker knows that its row has settled.
Knows(w) == \/ w.step = "Confirm" /\ w.tx = Landed
            \/ w.step = "Record" /\ w.outcome = "Submitted"

WorkerOK(w) ==
    /\ w \in Worker
    /\ w.work \subseteq Rows
    /\ Busy(w) => w.row \in Rows
    /\ Knows(w) => Filed[w.row] \in receipts

RowsOK ==
    /\ strays \subseteq Rows
    /\ \A receipt \in receipts : \E r \in Rows : receipt = Filed[r]
    /\ \A r \in Rows : outbox[r].status = "submitted" => Filed[r] \in receipts

WorkerInv == WorkerOK(worker) /\ RowsOK

\* Steps of the edge and the crash only add pending rows.
LEMMA InsertKeepsWorker ==
  ASSUME EdgeInv, WorkerInv, UNCHANGED receipts,
         worker' = worker \/ worker' = IdleWorker, strays' \subseteq Rows,
         \/ outbox' = outbox
         \/ \E q \in Req : outbox' = Append(outbox, NewRow(q))
  PROVE  WorkerInv'
<1>1. /\ Rows \subseteq Rows' /\ \A r \in Rows : Filed'[r] = Filed[r]
      /\ \A r \in Rows : outbox'[r] = outbox[r]
      /\ \A r \in Rows' : r \notin Rows => outbox'[r].status = "pending"
  <2>1. CASE outbox' = outbox
    BY <2>1 DEF Filed, RequestsOf, Rows
  <2>2. CASE outbox' # outbox
    <3>1. PICK q \in Req : outbox' = Append(outbox, NewRow(q))
      BY <2>2
    <3>2. /\ Rows' = Rows \cup {Len(outbox) + 1} /\ Len(outbox) + 1 \notin Rows
          /\ \A r \in Rows : outbox'[r] = outbox[r]
          /\ outbox'[Len(outbox) + 1] = NewRow(q)
      BY <3>1, InsertFiles DEF EdgeInv
    <3>3. \A r \in Rows : Filed'[r] = Filed[r]
      BY <3>2 DEF Filed, RequestsOf, Rows
    <3> QED BY <3>2, <3>3 DEF NewRow
  <2> QED BY <2>1, <2>2
<1>2. WorkerOK(worker)'
  <2>1. CASE worker' = worker
    BY <1>1, <2>1 DEF WorkerInv, WorkerOK, Busy, Knows
  <2>2. CASE worker' = IdleWorker
    BY <2>2 DEF WorkerOK, IdleWorker, Worker, Busy, Knows
  <2> QED BY <2>1, <2>2
<1>3. RowsOK'
  <2>1. strays' \subseteq Rows'
    BY <1>1
  <2>2. ASSUME NEW receipt \in receipts
        PROVE  \E r \in Rows' : receipt = Filed'[r]
    BY <1>1 DEF WorkerInv, RowsOK
  <2>3. ASSUME NEW r \in Rows', outbox'[r].status = "submitted"
        PROVE  Filed'[r] \in receipts
    <3>1. r \in Rows
      BY <1>1, <2>3
    <3> QED BY <1>1, <2>3, <3>1 DEF WorkerInv, RowsOK
  <2> QED BY <2>1, <2>2, <2>3 DEF RowsOK
<1> QED BY <1>2, <1>3 DEF WorkerInv

LEMMA EdgeKeepsWorker ==
  ASSUME EdgeInv, WorkerInv, EdgeStep \/ Restart
  PROVE  WorkerInv'
<1>1. CASE Restart
  <2>1. strays' \subseteq Rows
    BY <1>1 DEF Restart, WorkerInv, WorkerOK, RowsOK, Busy
  <2> QED BY <1>1, <2>1, InsertKeepsWorker DEF Restart
<1>2. CASE EdgeStep
  <2>1. UNCHANGED <<receipts, worker, strays>> /\ strays \subseteq Rows
    BY <1>2 DEF EdgeStep, RegisterSignedOrder, OrderReplied, QueueSettlementRequests,
                EnqueueRequest, EnqueueFails, WorkerInv, RowsOK
  <2>2. \/ outbox' = outbox
        \/ \E q \in Req : outbox' = Append(outbox, NewRow(q))
    <3>1. CASE \E p \in Payloads : RegisterSignedOrder(p)
      BY <3>1 DEF RegisterSignedOrder
    <3>2. CASE \E b \in Batches : OrderReplied(b) \/ QueueSettlementRequests(b)
      BY <3>2 DEF OrderReplied, QueueSettlementRequests
    <3>3. ASSUME NEW b \in Batches, EnqueueRequest(b) \/ EnqueueFails(b)
          PROVE  \/ outbox' = outbox
                 \/ \E q \in Req : outbox' = Append(outbox, NewRow(q))
      <4>1. handler[b].step = "Enqueueing"
        BY <3>3 DEF EnqueueRequest, EnqueueFails
      <4>2. Head(handler[b].requests) \in Req
        BY <4>1, NextRequest
      <4> QED BY <3>3, <4>2 DEF EnqueueRequest, EnqueueFails
    <3> QED BY <1>2, <3>1, <3>2, <3>3 DEF EdgeStep
  <2> QED BY <2>1, <2>2, InsertKeepsWorker
<1> QED BY <1>1, <1>2

\* A worker or chain step that leaves the requests of the rows alone.
LEMMA UpdateKeepsWorker ==
  ASSUME EdgeInv, WorkerInv, Updates, receipts \subseteq receipts',
         worker' \in Worker, worker'.work \subseteq Rows,
         Busy(worker') => worker'.row \in Rows,
         Knows(worker') => Filed[worker'.row] \in receipts',
         strays' \subseteq Rows,
         \A receipt \in receipts' : receipt \in receipts \/ \E r \in Rows : receipt = Filed[r],
         \A r \in Rows : outbox'[r].status = "submitted" =>
             outbox[r].status = "submitted" \/ Filed[r] \in receipts
  PROVE  WorkerInv'
<1>1. UNCHANGED Filed /\ UNCHANGED Rows
  BY UpdatesKeepFiled DEF Updates, Rows
<1>2. WorkerOK(worker)'
  BY <1>1 DEF WorkerOK
<1>3. RowsOK'
  BY <1>1 DEF WorkerInv, RowsOK
<1> QED BY <1>2, <1>3 DEF WorkerInv

\* Steps that leave the outbox alone.
LEMMA UnchangedUpdates ==
  ASSUME EdgeInv, UNCHANGED outbox
  PROVE  Updates
  BY DEF Updates, EdgeInv, OutboxTypes, Rows

LEMMA ClaimUpdates ==
  ASSUME EdgeInv, outbox' = CountAttempts(ClaimableRows)
  PROVE  Updates /\ \A r \in Rows : outbox'[r].status = outbox[r].status
<1>1. /\ Rows = 1 .. Len(outbox) /\ Len(outbox) \in Nat
      /\ \A r \in Rows : outbox[r] \in Row
  BY RequestsOfRows DEF EdgeInv, OutboxTypes, Rows
<1>2. /\ DOMAIN outbox' = Rows
      /\ \A r \in Rows : /\ outbox'[r] \in Row
                         /\ outbox'[r].request = outbox[r].request
                         /\ outbox'[r].status = outbox[r].status
  BY <1>1 DEF CountAttempts, Row
<1>3. outbox' \in [1 .. Len(outbox) -> Row]
  BY <1>1, <1>2 DEF CountAttempts
<1> QED BY <1>1, <1>2, <1>3, SeqDef DEF Updates

LEMMA RecordUpdates ==
  ASSUME EdgeInv, WorkerInv, RecordOutcome
  PROVE  /\ Updates
         /\ \A r \in Rows : outbox'[r].status = "submitted" =>
               outbox[r].status = "submitted" \/ Filed[r] \in receipts
<1>1. /\ Rows = 1 .. Len(outbox) /\ Len(outbox) \in Nat
      /\ \A r \in Rows : outbox[r] \in Row
  BY RequestsOfRows DEF EdgeInv, OutboxTypes, Rows
<1>2. worker.row \in Rows
  BY DEF RecordOutcome, WorkerInv, WorkerOK, Busy
<1>3. NewStatus \in {"pending", "submitted", "failed"}
  BY DEF NewStatus
<1>4. outbox' = [outbox EXCEPT ![worker.row].status = NewStatus]
  BY DEF RecordOutcome
<1>5. NewStatus = "submitted" => Filed[worker.row] \in receipts
  BY DEF NewStatus, RecordOutcome, WorkerInv, WorkerOK, Knows
<1> DEFINE s == NewStatus
<1> HIDE DEF s
<1>6. outbox' = [outbox EXCEPT ![worker.row].status = s] /\ s \in {"pending", "submitted", "failed"}
  BY <1>3, <1>4 DEF s
<1>7. /\ DOMAIN outbox' = Rows
      /\ \A r \in Rows : /\ outbox'[r] \in Row
                         /\ outbox'[r].request = outbox[r].request
                         /\ outbox'[r].status = IF r = worker.row THEN s ELSE outbox[r].status
  BY <1>1, <1>2, <1>6 DEF Row, Rows
<1>8. outbox' \in Seq(Row)
  <2>1. outbox' \in [1 .. Len(outbox) -> Row]
    BY <1>1, <1>6, <1>7
  <2> QED BY <1>1, <2>1, SeqDef
<1>9. Updates
  BY <1>7, <1>8 DEF Updates
<1> QED BY <1>5, <1>7, <1>9 DEF s

\* What the worker's next state owes, whatever the step did to the outbox.
MovesTo(w) ==
    /\ w \in Worker /\ w.work \subseteq Rows
    /\ Busy(w) => w.row \in Rows
    /\ Knows(w) => Filed[w.row] \in receipts'

LEMMA NextItemMoves ==
  ASSUME WorkerInv, NextItem, UNCHANGED receipts
  PROVE  MovesTo(worker')
  BY DEF NextItem, IdleWorker, WorkerInv, WorkerOK, MovesTo, Worker, Busy, Knows

\* Records of the worker's type: the fields a step sets, and those it keeps.
LEMMA RetryFields ==
  ASSUME NEW w \in Worker, NEW n \in Nat
  PROVE  LET v == [w EXCEPT !.step = "Submit", !.round = n]
         IN  v \in Worker /\ v.step = "Submit" /\ v.work = w.work /\ v.row = w.row
  BY DEF Worker

LEMMA ConcludeFields ==
  ASSUME NEW w \in Worker, NEW o \in {"Retryable", "Rejected", "Submitted"}
  PROVE  LET v == [w EXCEPT !.step = "Record", !.outcome = o]
         IN  /\ v \in Worker /\ v.step = "Record" /\ v.outcome = o
             /\ v.work = w.work /\ v.row = w.row
  BY DEF Worker

LEMMA SendFields ==
  ASSUME NEW w \in Worker
  PROVE  LET v == [w EXCEPT !.step = "Confirm", !.tx = Flying]
         IN  /\ v \in Worker /\ v.step = "Confirm" /\ v.tx = Flying
             /\ v.work = w.work /\ v.row = w.row
  BY DEF Worker

LEMMA OutcomeFields ==
  ASSUME NEW w \in Worker, NEW t \in {Landed, Refused}
  PROVE  LET v == [w EXCEPT !.tx = t]
         IN  v \in Worker /\ v.step = w.step /\ v.tx = t /\ v.work = w.work /\ v.row = w.row
  BY DEF Worker

LEMMA SubmitFields ==
  ASSUME NEW w \in Worker, NEW r \in Nat
  PROVE  LET v == [w EXCEPT !.step = "Submit", !.row = r, !.round = 1, !.work = @ \ {r}]
         IN  v \in Worker /\ v.step = "Submit" /\ v.work \subseteq w.work /\ v.row = r
  BY DEF Worker

LEMMA ClaimFields ==
  ASSUME NEW w \in Worker, NEW work \in SUBSET Nat
  PROVE  LET v == [w EXCEPT !.step = "Next", !.work = work]
         IN  v \in Worker /\ v.step = "Next" /\ v.work = work
  BY DEF Worker

LEMMA ConcludeMoves ==
  ASSUME WorkerInv, Busy(worker), NEW o \in {"Retryable", "Rejected", "Submitted"},
         worker' = Concluded(o), o = "Submitted" => Filed[worker.row] \in receipts,
         UNCHANGED receipts
  PROVE  MovesTo(worker')
<1>1. worker \in Worker /\ worker.work \subseteq Rows /\ worker.row \in Rows
  BY DEF WorkerInv, WorkerOK
<1>2. /\ worker' \in Worker /\ worker'.step = "Record" /\ worker'.outcome = o
      /\ worker'.work = worker.work /\ worker'.row = worker.row
  BY <1>1, ConcludeFields DEF Concluded
<1> QED BY <1>1, <1>2 DEF MovesTo, Busy, Knows

LEMMA RetryMoves ==
  ASSUME WorkerInv, Busy(worker), worker' = RetryOrGiveUp, UNCHANGED receipts
  PROVE  MovesTo(worker')
<1>1. CASE worker' = Concluded("Retryable")
  BY <1>1, ConcludeMoves
<1>2. CASE worker' = [worker EXCEPT !.step = "Submit", !.round = @ + 1]
  <2>1. worker \in Worker /\ worker.work \subseteq Rows /\ worker.row \in Rows
    BY DEF WorkerInv, WorkerOK
  <2>2. /\ worker' \in Worker /\ worker'.step = "Submit"
        /\ worker'.work = worker.work /\ worker'.row = worker.row
    <3>1. worker.round + 1 \in Nat /\ worker' = [worker EXCEPT !.step = "Submit", !.round = worker.round + 1]
      BY <1>2, <2>1 DEF Worker
    <3> QED BY <2>1, <3>1, RetryFields
  <2> QED BY <2>1, <2>2 DEF MovesTo, Busy, Knows
<1> QED BY <1>1, <1>2 DEF RetryOrGiveUp

LEMMA WorkerMoves ==
  ASSUME EdgeInv, WorkerInv, WorkerStep
  PROVE  MovesTo(worker') /\ strays' \subseteq Rows /\ UNCHANGED <<receipts, edge, crashes>>
<1>1. UNCHANGED <<receipts, edge, crashes>>
  BY DEF WorkerStep, ClaimPendingSettlements, ClaimFails, SubmitRequest,
         BlockhashUnavailable, SendRejected, SendAccepted, Confirmed, ConfirmedFailed,
         ConfirmationUncertain, RecordOutcome, RecordFails, bounds
<1>2. /\ worker \in Worker /\ worker.work \subseteq Rows /\ Rows \subseteq Nat
      /\ Busy(worker) => worker.row \in Rows
      /\ Knows(worker) => Filed[worker.row] \in receipts
  BY RequestsOfRows DEF WorkerInv, WorkerOK, EdgeInv, OutboxTypes, Rows
<1>3. strays' \subseteq Rows
  BY DEF WorkerStep, ClaimPendingSettlements, ClaimFails, SubmitRequest,
         BlockhashUnavailable, SendRejected, SendAccepted, Confirmed, ConfirmedFailed,
         ConfirmationUncertain, RecordOutcome, RecordFails, WorkerInv, WorkerOK, RowsOK, Busy
<1> SUFFICES MovesTo(worker')
  BY <1>1, <1>3
<1>4. CASE ClaimPendingSettlements
  <2>1. ClaimableRows \subseteq Rows
    BY DEF ClaimableRows, PendingRows
  <2>2. worker' \in Worker /\ worker'.step = "Next" /\ worker'.work = ClaimableRows
    BY <1>2, <1>4, <2>1, ClaimFields DEF ClaimPendingSettlements
  <2> QED BY <2>1, <2>2 DEF MovesTo, Busy, Knows
<1>5. CASE ClaimFails
  BY <1>1, <1>2, <1>5 DEF ClaimFails, MovesTo
<1>6. CASE SubmitRequest
  <2>1. PICK r \in worker.work :
           worker' = [worker EXCEPT !.step = "Submit", !.row = r, !.round = 1, !.work = @ \ {r}]
    BY <1>6 DEF SubmitRequest
  <2>2. r \in Rows /\ r \in Nat
    BY <1>2
  <2>3. /\ worker' \in Worker /\ worker'.step = "Submit"
        /\ worker'.work \subseteq worker.work /\ worker'.row = r
    BY <1>2, <2>1, <2>2, SubmitFields
  <2> QED BY <1>2, <2>2, <2>3 DEF MovesTo, Busy, Knows
<1>7. CASE BlockhashUnavailable
  BY <1>1, <1>7, RetryMoves DEF BlockhashUnavailable, Busy
<1>8. CASE SendRejected \/ ConfirmedFailed
  BY <1>1, <1>8, ConcludeMoves DEF SendRejected, ConfirmedFailed, Busy
<1>9. CASE SendAccepted
  <2>1. /\ worker' \in Worker /\ worker'.step = "Confirm" /\ worker'.tx = Flying
        /\ worker'.work = worker.work /\ worker'.row = worker.row
    BY <1>2, <1>9, SendFields DEF SendAccepted
  <2> QED BY <1>2, <1>9, <2>1 DEF SendAccepted, MovesTo, Busy, Knows, Flying, Landed
<1>10. CASE Confirmed
  <2>1. Filed[worker.row] \in receipts
    BY <1>2, <1>10 DEF Confirmed, Knows
  <2> QED BY <1>1, <1>10, <2>1, ConcludeMoves DEF Confirmed, Busy
<1>11. CASE ConfirmationUncertain
  BY <1>1, <1>11, RetryMoves DEF ConfirmationUncertain, Busy
<1>12. CASE RecordOutcome \/ RecordFails
  BY <1>1, <1>12, NextItemMoves DEF RecordOutcome, RecordFails
<1> QED BY <1>1, <1>3, <1>4, <1>5, <1>6, <1>7, <1>8, <1>9, <1>10, <1>11, <1>12 DEF WorkerStep

LEMMA WorkerStepUpdates ==
  ASSUME EdgeInv, WorkerInv, WorkerStep
  PROVE  /\ Updates
         /\ \A r \in Rows : outbox'[r].status = "submitted" =>
               outbox[r].status = "submitted" \/ Filed[r] \in receipts
<1>1. \/ outbox' = outbox
      \/ outbox' = CountAttempts(ClaimableRows)
      \/ RecordOutcome
  BY DEF WorkerStep, ClaimPendingSettlements, ClaimFails, SubmitRequest,
         BlockhashUnavailable, SendRejected, SendAccepted, Confirmed, ConfirmedFailed,
         ConfirmationUncertain, RecordFails
<1> QED BY <1>1, UnchangedUpdates, ClaimUpdates, RecordUpdates

LEMMA ChainMoves ==
  ASSUME EdgeInv, WorkerInv, ChainStep
  PROVE  /\ MovesTo(worker') /\ strays' \subseteq Rows
         /\ UNCHANGED <<outbox, edge, crashes>> /\ receipts \subseteq receipts'
         /\ \A receipt \in receipts' : receipt \in receipts \/ \E r \in Rows : receipt = Filed[r]
<1>1. UNCHANGED <<outbox, edge, crashes>> /\ receipts \subseteq receipts' /\ strays' \subseteq Rows
  BY DEF ChainStep, WatchedLands, WatchedRefused, StrayLands, StrayDies, Settle, bounds,
         WorkerInv, RowsOK
<1>2. \A r \in Rows : Filed[r] = outbox[r].request
  BY FiledRequests DEF EdgeInv
<1>3. worker \in Worker /\ worker.work \subseteq Rows /\ WorkerOK(worker)
  BY DEF WorkerInv, WorkerOK
<1>4. CASE WatchedLands
  <2>1. worker.row \in Rows
    BY <1>3, <1>4 DEF WatchedLands, WorkerOK, Busy
  <2>2. receipts' = receipts \cup {Filed[worker.row]}
    BY <1>2, <1>4, <2>1 DEF WatchedLands, Settle
  <2>3. /\ worker' \in Worker /\ worker'.step = worker.step
        /\ worker'.work = worker.work /\ worker'.row = worker.row
    BY <1>3, <1>4, OutcomeFields DEF WatchedLands
  <2>4. MovesTo(worker')
    BY <1>3, <2>1, <2>2, <2>3 DEF MovesTo
  <2> QED BY <1>1, <2>1, <2>2, <2>4
<1>5. CASE WatchedRefused
  <2>1. worker.row \in Rows
    BY <1>3, <1>5 DEF WatchedRefused, WorkerOK, Busy
  <2>2. /\ worker' \in Worker /\ worker'.step = worker.step /\ worker'.tx = Refused
        /\ worker'.work = worker.work /\ worker'.row = worker.row
    BY <1>3, <1>5, OutcomeFields DEF WatchedRefused
  <2>3. worker'.step = "Confirm"
    BY <1>5, <2>2 DEF WatchedRefused
  <2>4. MovesTo(worker')
    BY <1>3, <2>1, <2>2, <2>3 DEF MovesTo, Knows, Refused, Landed
  <2> QED BY <1>1, <1>5, <2>4 DEF WatchedRefused
<1>6. CASE StrayLands
  <2>1. PICK r \in strays : Settle(outbox[r].request)
    BY <1>6 DEF StrayLands
  <2>2. r \in Rows
    BY DEF WorkerInv, RowsOK
  <2>3. receipts' = receipts \cup {Filed[r]}
    BY <1>2, <2>1, <2>2 DEF Settle
  <2>4. MovesTo(worker')
    BY <1>1, <1>3, <1>6 DEF StrayLands, MovesTo, WorkerOK
  <2> QED BY <1>1, <2>2, <2>3, <2>4
<1>7. CASE StrayDies
  BY <1>1, <1>3, <1>7 DEF StrayDies, MovesTo, WorkerOK
<1> QED BY <1>1, <1>4, <1>5, <1>6, <1>7 DEF ChainStep

-----------------------------------------------------------------------------
(* The theorems.                                                            *)

RelayInv == EdgeInv /\ IdsInv /\ WorkerInv

LEMMA RelayInvHoldsInitially == Init => RelayInv
<1> SUFFICES ASSUME Init PROVE RelayInv
  OBVIOUS
<1> DEFINE h == [step |-> "Unplaced", requests |-> <<>>]
<1>1. /\ outbox = <<>> /\ Rows = {} /\ Filed = <<>> /\ DOMAIN Filed = {}
      /\ Filed \in Seq(Req) /\ OutboxTypes
  BY EmptySeq DEF Init, Rows, Filed, RequestsOf, OutboxTypes
<1>2. h \in Handler /\ h.step = "Unplaced" /\ h.requests = <<>>
  BY EmptySeq DEF Handler
<1>3. handler = [b \in Batches |-> h]
  BY DEF Init
<1> HIDE DEF h
<1>4. \A b \in Batches : BatchOK(b, handler[b], Filed)
  BY <1>1, <1>2, <1>3 DEF BatchOK, FiledUpTo
<1>5. EdgeInv
  BY <1>1, <1>2, <1>3, <1>4 DEF EdgeInv, Init, FiledInOrder
<1>6. IdsInv
  <2>1. \A b \in Batches : Waiting(b) = {}
    BY <1>2, <1>3 DEF Waiting
  <2>2. InSight = {}
    BY <1>1, <2>1 DEF InSight
  <2> QED BY <2>2 DEF IdsInv, IdsOf
<1>7. WorkerInv
  BY <1>1 DEF Init, WorkerInv, WorkerOK, RowsOK, IdleWorker, Worker, Busy, Knows
<1> QED BY <1>5, <1>6, <1>7 DEF RelayInv

LEMMA RelayInvIsInductive == RelayInv /\ [Next]_vars => RelayInv'
<1> SUFFICES ASSUME RelayInv, [Next]_vars PROVE RelayInv'
  OBVIOUS
<1>1. EdgeInv /\ IdsInv /\ WorkerInv
  BY DEF RelayInv
<1>2. CASE EdgeStep
  <2>1. WorkerInv'
    BY <1>1, <1>2, EdgeKeepsWorker
  <2>2. ASSUME NEW p \in Payloads, RegisterSignedOrder(p)
        PROVE  EdgeInv' /\ IdsInv'
    <3>1. UNCHANGED <<Filed, Rows, handler, nextId, crashes>>
      BY <2>2 DEF RegisterSignedOrder, Filed, RequestsOf, Rows, bounds
    <3> QED BY <1>1, <2>2, <3>1, RegisterKeeps, OthersKeepIds
  <2>3. ASSUME NEW b \in Batches, OrderReplied(b)
        PROVE  EdgeInv' /\ IdsInv'
    BY <1>1, <2>3, ReplyKeeps, HandlersKeepIds
  <2>4. ASSUME NEW b \in Batches, QueueSettlementRequests(b)
        PROVE  EdgeInv' /\ IdsInv'
    BY <1>1, <2>4, QueueKeeps, QueueKeepsIds
  <2>5. ASSUME NEW b \in Batches, EnqueueRequest(b)
        PROVE  EdgeInv' /\ IdsInv'
    BY <1>1, <2>5, EnqueueKeeps, HandlersKeepIds
  <2>6. ASSUME NEW b \in Batches, EnqueueFails(b)
        PROVE  EdgeInv' /\ IdsInv'
    BY <1>1, <2>6, EnqueueFailsKeeps, HandlersKeepIds
  <2> QED BY <1>2, <2>1, <2>2, <2>3, <2>4, <2>5, <2>6 DEF EdgeStep, RelayInv
<1>3. CASE WorkerStep
  <2>1. /\ MovesTo(worker') /\ strays' \subseteq Rows
        /\ UNCHANGED <<receipts, edge, crashes>> /\ Updates
        /\ \A r \in Rows : outbox'[r].status = "submitted" =>
              outbox[r].status = "submitted" \/ Filed[r] \in receipts
    BY <1>1, <1>3, WorkerMoves, WorkerStepUpdates
  <2>2. WorkerInv'
    BY <1>1, <2>1, UpdateKeepsWorker DEF MovesTo
  <2>3. UNCHANGED <<Filed, Rows, handler, nextId, crashes>>
    BY <2>1, UpdatesKeepFiled DEF Updates, Rows, edge
  <2> QED BY <1>1, <2>1, <2>2, <2>3, UpdateKeeps, OthersKeepIds DEF RelayInv
<1>4. CASE ChainStep
  <2>1. /\ MovesTo(worker') /\ strays' \subseteq Rows
        /\ UNCHANGED <<outbox, edge, crashes>> /\ receipts \subseteq receipts'
        /\ \A receipt \in receipts' : receipt \in receipts \/ \E r \in Rows : receipt = Filed[r]
    BY <1>1, <1>4, ChainMoves
  <2>2. Updates
    BY <1>1, <2>1, UnchangedUpdates
  <2>3. WorkerInv'
    BY <1>1, <2>1, <2>2, UpdateKeepsWorker DEF MovesTo
  <2>4. UNCHANGED <<Filed, Rows, handler, nextId, crashes>>
    BY <2>1 DEF Filed, RequestsOf, Rows, edge
  <2> QED BY <1>1, <2>1, <2>2, <2>3, <2>4, UpdateKeeps, OthersKeepIds DEF RelayInv
<1>5. CASE Restart
  BY <1>1, <1>5, RestartKeeps, RestartKeepsIds, EdgeKeepsWorker DEF RelayInv
<1>6. CASE UNCHANGED vars
  <2>1. UNCHANGED <<edge, crashes, outbox, receipts, worker, strays, handler, nextId>>
    BY <1>6 DEF vars, edge
  <2>2. Updates
    BY <1>1, <2>1, UnchangedUpdates
  <2>3. UNCHANGED <<Filed, Rows>>
    BY <2>1 DEF Filed, RequestsOf, Rows
  <2>4. strays \subseteq Rows
    BY <1>1 DEF WorkerInv, RowsOK
  <2>5. WorkerInv'
    BY <1>1, <2>1, <2>4, InsertKeepsWorker
  <2> QED BY <1>1, <2>1, <2>2, <2>3, <2>5, UpdateKeeps, OthersKeepIds DEF RelayInv
<1> QED BY <1>2, <1>3, <1>4, <1>5, <1>6 DEF Next

LEMMA RelayInvHolds == Spec => []RelayInv
<1> QED BY RelayInvHoldsInitially, RelayInvIsInductive, PTL DEF Spec

\* A fill gets one outbox row at most and the rows of a batch are its first
\* fills in order, whichever INSERT failed and whenever the process crashed.
THEOREM OutboxHoldsPrefixOfBatchHolds == Spec => []OutboxHoldsPrefixOfBatch
<1>1. RelayInv => OutboxHoldsPrefixOfBatch
  BY EdgeInvImplies DEF RelayInv
<1> QED BY <1>1, RelayInvHolds, PTL

\* However often its row is claimed, its transaction resent or left behind, a
\* fill has one receipt at most: every receipt is of a filed request, and no
\* two filed requests are of one fill.
THEOREM FillSettlesOnceHolds == Spec => []FillSettlesOnce
<1>1. RelayInv => FillSettlesOnce
  <2> SUFFICES ASSUME RelayInv, NEW s \in receipts, NEW t \in receipts, s.fill = t.fill
               PROVE  s = t
    BY DEF FillSettlesOnce
  <2>1. PICK q \in Rows : s = Filed[q]
    BY DEF RelayInv, WorkerInv, RowsOK
  <2>2. PICK r \in Rows : t = Filed[r]
    BY DEF RelayInv, WorkerInv, RowsOK
  <2>3. DOMAIN Filed = Rows /\ FiledInOrder(Filed)
    BY FiledRequests DEF RelayInv, EdgeInv
  <2>4. q = r
    BY <2>1, <2>2, <2>3 DEF FiledInOrder
  <2> QED BY <2>1, <2>2, <2>4
<1> QED BY <1>1, RelayInvHolds, PTL

\* A row shown as submitted has a receipt of its own request.
THEOREM SubmittedHasSettledHolds == Spec => []SubmittedHasSettled
<1>1. RelayInv => SubmittedHasSettled
  BY FiledRequests DEF RelayInv, EdgeInv, WorkerInv, RowsOK, SubmittedHasSettled
<1> QED BY <1>1, RelayInvHolds, PTL

\* Two rows with one settlement id come from two runs of the process.
THEOREM IdsCollideOnlyAcrossRestartsHolds == Spec => []IdsCollideOnlyAcrossRestarts
<1>1. RelayInv => IdsCollideOnlyAcrossRestarts
  <2> SUFFICES ASSUME RelayInv, NEW q \in Rows, NEW r \in Rows, q # r,
                      outbox[q].request.id = outbox[r].request.id
               PROVE  outbox[q].request.run # outbox[r].request.run
    BY DEF IdsCollideOnlyAcrossRestarts
  <2>1. /\ DOMAIN Filed = Rows /\ FiledInOrder(Filed)
        /\ Filed[q] = outbox[q].request /\ Filed[r] = outbox[r].request
    BY FiledRequests DEF RelayInv, EdgeInv
  <2>2. Filed[q].fill # Filed[r].fill
    BY <2>1 DEF FiledInOrder
  <2>3. Filed[q] \in InSight /\ Filed[r] \in InSight
    BY DEF InSight
  <2> QED BY <2>1, <2>2, <2>3 DEF RelayInv, IdsInv, IdsOf
<1> QED BY <1>1, RelayInvHolds, PTL
=============================================================================
