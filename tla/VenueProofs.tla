----------------------------- MODULE VenueProofs -----------------------------
(* Book and chain together: the chain moves no more than the book matched,  *)
(* requests with good payloads need only funds, for any prices, quantities, *)
(* payloads, placements and funds. An order id may be placed any number of  *)
(* times here, so orders of one id are told apart by where they wait, and   *)
(* all that is used of the engine is what it adds up to for an id.          *)
EXTENDS Venue, Sums

\* An order of the venue, with something left to trade when it waits.
VenueOrder ==
    [id : OrderIds, trader : Traders, side : Sides, price : Prices,
     quantity : Quantities, remaining : Nat]
Waiting == {o \in VenueOrder : o.remaining # 0}
Levels == [Prices -> Seq(Waiting)]
VenueFill ==
    [maker : OrderIds, taker : OrderIds, makerTrader : Traders, takerTrader : Traders,
     price : Prices, quantity : Nat]

\* What one order, a queue and one side of the book hold for an id.
Own(o, id) == IF o.id = id THEN o.remaining ELSE 0
Owns(q, id) == [i \in DOMAIN q |-> Own(q[i], id)]
InQueue(q, id) == SumFunctionOnSet(Owns(q, id), DOMAIN q)
InLevels(L, id) == [p \in Prices |-> InQueue(L[p], id)]
InSide(L, id) == SumFunctionOnSet(InLevels(L, id), Prices)

-----------------------------------------------------------------------------
(* Queues.                                                                  *)

LEMMA OwnIsNat ==
    ASSUME NEW id
    PROVE  \A o \in VenueOrder : Own(o, id) \in Nat
BY DEF Own, VenueOrder

LEMMA QueueIsNat ==
    ASSUME NEW id, NEW q \in Seq(Waiting)
    PROVE  /\ IsFiniteSet(DOMAIN q)
           /\ \A i \in DOMAIN q : Owns(q, id)[i] \in Nat /\ Owns(q, id)[i] = Own(q[i], id)
           /\ InQueue(q, id) \in Nat
<1>1. DOMAIN q = 1 .. Len(q) /\ Len(q) \in Nat /\ \A i \in DOMAIN q : q[i] \in Waiting
  OBVIOUS
<1>2. IsFiniteSet(DOMAIN q)
  BY <1>1, FS_Interval
<1>3. \A i \in DOMAIN q : Owns(q, id)[i] \in Nat /\ Owns(q, id)[i] = Own(q[i], id)
  BY <1>1, OwnIsNat DEF Owns, Waiting
<1> QED BY <1>2, <1>3, SumIsNat DEF InQueue

LEMMA QueueAppend ==
    ASSUME NEW id, NEW q \in Seq(Waiting), NEW o \in Waiting
    PROVE  /\ Append(q, o) \in Seq(Waiting)
           /\ InQueue(Append(q, o), id) = InQueue(q, id) + Own(o, id)
<1> DEFINE r == Append(q, o)
           n == Len(q) + 1
<1>1. /\ r \in Seq(Waiting) /\ DOMAIN r = DOMAIN q \cup {n} /\ n \notin DOMAIN q
      /\ r[n] = o /\ \A i \in DOMAIN q : r[i] = q[i]
  OBVIOUS
<1> HIDE DEF r, n
<1>2. /\ IsFiniteSet(DOMAIN q) /\ IsFiniteSet(DOMAIN r)
      /\ \A i \in DOMAIN r : Owns(r, id)[i] \in Nat /\ Owns(r, id)[i] = Own(r[i], id)
      /\ \A i \in DOMAIN q : Owns(q, id)[i] \in Nat /\ Owns(q, id)[i] = Own(q[i], id)
      /\ InQueue(q, id) \in Nat
  BY <1>1, QueueIsNat
<1>3. InQueue(r, id) = Owns(r, id)[n] + SumFunctionOnSet(Owns(r, id), DOMAIN q)
  <2>1. \A i \in DOMAIN q \cup {n} : Owns(r, id)[i] \in Int
    BY <1>1, <1>2
  <2> QED BY <1>1, <1>2, <2>1, SumAdd DEF InQueue
<1>4. SumFunctionOnSet(Owns(r, id), DOMAIN q) = InQueue(q, id)
  <2>1. \A i \in DOMAIN q : Owns(r, id)[i] = Owns(q, id)[i]
    BY <1>1, <1>2
  <2> QED BY <1>2, <2>1, SumCongruent DEF InQueue
<1>5. Owns(r, id)[n] = Own(o, id) /\ Own(o, id) \in Nat
  BY <1>1, <1>2
<1> QED BY <1>1, <1>2, <1>3, <1>4, <1>5 DEF r

\* The first order of a queue, and the rest moved up by one.
LEMMA QueuePush ==
    ASSUME NEW id, NEW q \in Seq(Waiting), NEW o \in Waiting
    PROVE  /\ <<o>> \o q \in Seq(Waiting)
           /\ InQueue(<<o>> \o q, id) = Own(o, id) + InQueue(q, id)
<1> DEFINE r == <<o>> \o q
           T == 2 .. Len(q) + 1
           h == [i \in DOMAIN q |-> i + 1]
           k == [j \in T |-> j - 1]
<1>1. /\ r \in Seq(Waiting) /\ DOMAIN r = T \cup {1} /\ 1 \notin T
      /\ r[1] = o /\ Len(q) \in Nat
      /\ \A i \in DOMAIN q : /\ h[i] \in T /\ r[h[i]] = q[i] /\ k[h[i]] = i
      /\ \A j \in T : k[j] \in DOMAIN q /\ r[j] = q[k[j]] /\ h[k[j]] = j
  <2>1. <<o>> \in Seq(Waiting) /\ Len(<<o>>) = 1 /\ Len(q) \in Nat
    OBVIOUS
  <2>2. r \in Seq(Waiting) /\ Len(r) = Len(q) + 1
    OBVIOUS
  <2>3. DOMAIN r = T \cup {1} /\ 1 \notin T
    BY <2>1, <2>2
  <2>4. r[1] = o
    OBVIOUS
  <2>5. ASSUME NEW i \in DOMAIN q
        PROVE  h[i] \in T /\ r[h[i]] = q[i] /\ k[h[i]] = i
    <3>1. i \in 1 .. Len(q) /\ h[i] = i + 1 /\ i + 1 \in T
      OBVIOUS
    <3>2. r[i + 1] = q[i]
      BY <2>1
    <3> QED BY <3>1, <3>2
  <2>6. ASSUME NEW j \in T
        PROVE  k[j] \in DOMAIN q /\ r[j] = q[k[j]] /\ h[k[j]] = j
    <3>1. j - 1 \in DOMAIN q /\ k[j] = j - 1 /\ h[j - 1] = j
      BY <2>1
    <3>2. r[j] = q[j - 1]
      BY <2>1
    <3> QED BY <3>1, <3>2
  <2> HIDE DEF r, T, h, k
  <2> QED BY <2>1, <2>2, <2>3, <2>4, <2>5, <2>6
<1> HIDE DEF r, h, k
<1>2. /\ IsFiniteSet(DOMAIN q)
      /\ \A i \in DOMAIN r : Owns(r, id)[i] \in Nat /\ Owns(r, id)[i] = Own(r[i], id)
      /\ \A i \in DOMAIN q : Owns(q, id)[i] \in Nat /\ Owns(q, id)[i] = Own(q[i], id)
      /\ InQueue(q, id) \in Nat
  BY <1>1, QueueIsNat
<1>3. IsFiniteSet(T)
  BY <1>1, FS_Interval
<1> HIDE DEF T
<1>4. InQueue(q, id) = SumFunctionOnSet(Owns(r, id), T)
  <2>1. \A i \in DOMAIN q : /\ h[i] \in T /\ Owns(q, id)[i] = Owns(r, id)[h[i]]
                            /\ k[h[i]] = i
    BY <1>1, <1>2
  <2>2. \A j \in T : /\ k[j] \in DOMAIN q /\ Owns(r, id)[j] = Owns(q, id)[k[j]]
                     /\ h[k[j]] = j
    BY <1>1, <1>2
  <2>3. (\A j \in T : Owns(r, id)[j] \in Nat) /\ \A i \in DOMAIN q : Owns(q, id)[i] \in Nat
    BY <1>1, <1>2
  <2> DEFINE f == Owns(q, id)
             g == Owns(r, id)
             D == DOMAIN q
  <2>4. InQueue(q, id) = SumFunctionOnSet(f, D)
    BY DEF InQueue
  <2> HIDE DEF f, g, D
  <2>5. /\ IsFiniteSet(D) /\ \A i \in D : f[i] \in Nat
        /\ \A j \in T : g[j] \in Nat
        /\ \A i \in D : h[i] \in T /\ f[i] = g[h[i]] /\ k[h[i]] = i
        /\ \A j \in T : k[j] \in D /\ g[j] = f[k[j]] /\ h[k[j]] = j
    BY <1>2, <2>1, <2>2, <2>3 DEF f, g, D
  <2>6. SumFunctionOnSet(f, D) = SumFunctionOnSet(g, T)
    BY <1>3, <2>5, SumBijection
  <2> QED BY <2>4, <2>6 DEF g
<1>5. InQueue(r, id) = Owns(r, id)[1] + SumFunctionOnSet(Owns(r, id), T)
  <2>1. \A i \in T \cup {1} : Owns(r, id)[i] \in Int
    BY <1>1, <1>2
  <2> QED BY <1>1, <1>3, <2>1, SumAdd DEF InQueue
<1>6. Owns(r, id)[1] = Own(o, id)
  BY <1>1, <1>2
<1> QED BY <1>1, <1>4, <1>5, <1>6 DEF r

LEMMA QueueTail ==
    ASSUME NEW id, NEW q \in Seq(Waiting), q # <<>>
    PROVE  /\ Head(q) \in Waiting /\ Tail(q) \in Seq(Waiting)
           /\ InQueue(q, id) = Own(Head(q), id) + InQueue(Tail(q), id)
<1>1. Head(q) \in Waiting /\ Tail(q) \in Seq(Waiting) /\ q = <<Head(q)>> \o Tail(q)
  <2>1. Head(q) \in Waiting /\ Tail(q) \in Seq(Waiting)
    OBVIOUS
  <2>2. q = <<Head(q)>> \o Tail(q)
    OBVIOUS
  <2> QED BY <2>1, <2>2
<1> QED BY <1>1, QueuePush

-----------------------------------------------------------------------------
(* One side of the book.                                                    *)

LEMMA SideIsNat ==
    ASSUME NEW id, NEW L \in Levels
    PROVE  /\ \A p \in Prices : /\ InLevels(L, id)[p] = InQueue(L[p], id)
                                /\ InLevels(L, id)[p] \in Nat
           /\ InSide(L, id) \in Nat
<1>1. \A p \in Prices : L[p] \in Seq(Waiting)
  BY DEF Levels
<1>2. \A p \in Prices : /\ InLevels(L, id)[p] = InQueue(L[p], id)
                        /\ InLevels(L, id)[p] \in Nat
  BY <1>1, QueueIsNat DEF InLevels
<1> QED BY <1>2, PricesAssumption, SumIsNat DEF InSide

\* One queue changes.
QueueSet(L, p, q) == [L EXCEPT ![p] = q]

LEMMA LevelSet ==
    ASSUME NEW L \in Levels, NEW p \in Prices, NEW q \in Seq(Waiting), NEW M,
           M = QueueSet(L, p, q)
    PROVE  /\ M \in Levels
           /\ \A id : InSide(M, id) = InSide(L, id) + (InQueue(q, id) - InQueue(L[p], id))
<1>1. M \in Levels /\ M[p] = q /\ \A x \in Prices \ {p} : M[x] = L[x]
  BY DEF Levels, QueueSet
<1>2. ASSUME NEW id
      PROVE  InSide(M, id) = InSide(L, id) + (InQueue(q, id) - InQueue(L[p], id))
  <2>1. /\ \A x \in Prices : /\ InLevels(L, id)[x] = InQueue(L[x], id)
                             /\ InLevels(L, id)[x] \in Nat
                             /\ InLevels(M, id)[x] = InQueue(M[x], id)
                             /\ InLevels(M, id)[x] \in Nat
    BY <1>1, SideIsNat
  <2> DEFINE f == InLevels(L, id)
             g == InLevels(M, id)
  <2>2. InSide(L, id) = SumFunctionOnSet(f, Prices) /\ InSide(M, id) = SumFunctionOnSet(g, Prices)
    BY DEF InSide
  <2>3. f[p] = InQueue(L[p], id) /\ g[p] = InQueue(q, id)
    BY <1>1, <2>1
  <2>4. \A x \in Prices : f[x] \in Int /\ g[x] \in Int
    <3> TAKE x \in Prices
    <3>1. f[x] \in Nat /\ g[x] \in Nat
      BY <2>1
    <3> QED BY <3>1
  <2>5. \A x \in Prices \ {p} : g[x] = f[x]
    <3> TAKE x \in Prices \ {p}
    <3>1. M[x] = L[x]
      BY <1>1
    <3> QED BY <2>1, <3>1
  <2> HIDE DEF f, g
  <2>6. SumFunctionOnSet(g, Prices) = SumFunctionOnSet(f, Prices) + (g[p] - f[p])
    BY <2>4, <2>5, PricesAssumption, SumUpdate
  <2> QED BY <2>2, <2>3, <2>6
<1> QED BY <1>1, <1>2

LEMMA InsertLevel ==
    ASSUME NEW L \in Levels, NEW o \in Waiting
    PROVE  /\ Insert(L, o) \in Levels
           /\ \A id : InSide(Insert(L, o), id) = InSide(L, id) + Own(o, id)
<1> DEFINE q == Append(L[o.price], o)
<1>1. o.price \in Prices /\ L[o.price] \in Seq(Waiting)
  BY DEF Levels, Waiting, VenueOrder
<1>2. Insert(L, o) = [L EXCEPT ![o.price] = q]
  BY DEF Insert
<1>3. q \in Seq(Waiting)
  BY <1>1
<1> DEFINE M == Insert(L, o)
           p == o.price
<1> HIDE DEF q, M, p
<1>4. /\ M \in Levels
      /\ \A id : InSide(M, id) = InSide(L, id) + (InQueue(q, id) - InQueue(L[p], id))
  <2>1. p \in Prices /\ M = QueueSet(L, p, q)
    BY <1>1, <1>2 DEF M, p, QueueSet
  <2> QED BY <1>3, <2>1, LevelSet
<1>5. ASSUME NEW id PROVE InSide(Insert(L, o), id) = InSide(L, id) + Own(o, id)
  <2>1. InQueue(q, id) = InQueue(L[o.price], id) + Own(o, id)
    BY <1>1, QueueAppend DEF q
  <2>2. InQueue(L[o.price], id) \in Nat /\ InSide(L, id) \in Nat /\ Own(o, id) \in Nat
    BY <1>1, QueueIsNat, SideIsNat, OwnIsNat DEF Waiting
  <2>3. InSide(Insert(L, o), id)
          = InSide(L, id) + (InQueue(q, id) - InQueue(L[o.price], id))
    BY <1>4 DEF M, p
  <2> QED BY <2>1, <2>2, <2>3
<1> QED BY <1>4, <1>5 DEF M

LEMMA ReinsertLevel ==
    ASSUME NEW L \in Levels, NEW o \in Waiting
    PROVE  /\ ReinsertFront(L, o) \in Levels
           /\ \A id : InSide(ReinsertFront(L, o), id) = InSide(L, id) + Own(o, id)
<1> DEFINE q == <<o>> \o L[o.price]
<1>1. o.price \in Prices /\ L[o.price] \in Seq(Waiting)
  BY DEF Levels, Waiting, VenueOrder
<1>2. ReinsertFront(L, o) = [L EXCEPT ![o.price] = q]
  BY DEF ReinsertFront
<1>3. q \in Seq(Waiting)
  BY <1>1, QueuePush
<1> DEFINE M == ReinsertFront(L, o)
           p == o.price
<1> HIDE DEF q, M, p
<1>4. /\ M \in Levels
      /\ \A id : InSide(M, id) = InSide(L, id) + (InQueue(q, id) - InQueue(L[p], id))
  <2>1. p \in Prices /\ M = QueueSet(L, p, q)
    BY <1>1, <1>2 DEF M, p, QueueSet
  <2> QED BY <1>3, <2>1, LevelSet
<1>5. ASSUME NEW id PROVE InSide(ReinsertFront(L, o), id) = InSide(L, id) + Own(o, id)
  <2>1. InQueue(q, id) = Own(o, id) + InQueue(L[o.price], id)
    BY <1>1, QueuePush DEF q
  <2>2. InQueue(L[o.price], id) \in Nat /\ InSide(L, id) \in Nat /\ Own(o, id) \in Nat
    BY <1>1, QueueIsNat, SideIsNat, OwnIsNat DEF Waiting
  <2>3. InSide(ReinsertFront(L, o), id)
          = InSide(L, id) + (InQueue(q, id) - InQueue(L[o.price], id))
    BY <1>4 DEF M, p
  <2> QED BY <2>1, <2>2, <2>3
<1> QED BY <1>4, <1>5 DEF M

\* The best price of a side that has orders is one of its prices.
LEMMA BestPriceIs ==
    ASSUME NEW side, NEW L, LevelPrices(L) # {}
    PROVE  BestPrice(side, L) \in Prices /\ L[BestPrice(side, L)] # <<>>
<1>1. LevelPrices(L) \subseteq Prices /\ LevelPrices(L) \subseteq Nat
      /\ IsFiniteSet(LevelPrices(L))
  BY PricesAssumption, FS_Subset DEF LevelPrices
<1>2. \E p \in LevelPrices(L) : \A q \in LevelPrices(L) : AtLeastAsGood(side, p, q)
  <2>1. CASE side = "Bid"
    BY <1>1, <2>1, HighestExists DEF AtLeastAsGood
  <2>2. CASE side # "Bid"
    <3>1. PICK p \in LevelPrices(L) : \A q \in LevelPrices(L) : ~(q < p)
      BY <1>1, LeastNatural
    <3>2. \A q \in LevelPrices(L) : p <= q
      BY <1>1, <3>1
    <3> QED BY <2>2, <3>2 DEF AtLeastAsGood
  <2> QED BY <2>1, <2>2
<1>3. BestPrice(side, L) \in LevelPrices(L)
  BY <1>2 DEF BestPrice
<1> QED BY <1>3 DEF LevelPrices

LEMMA PopLevel ==
    ASSUME NEW side, NEW L \in Levels, LevelPrices(L) # {}
    PROVE  /\ BestOrder(side, L) \in Waiting
           /\ PopBestOrder(side, L) \in Levels
           /\ \A id : InSide(L, id)
                        = Own(BestOrder(side, L), id) + InSide(PopBestOrder(side, L), id)
<1> DEFINE p == BestPrice(side, L)
           q == Tail(L[p])
           o == BestOrder(side, L)
           M == PopBestOrder(side, L)
<1>1. p \in Prices /\ L[p] \in Seq(Waiting) /\ L[p] # <<>>
  BY BestPriceIs DEF Levels
<1>2. o = Head(L[p]) /\ M = [L EXCEPT ![p] = q]
  BY DEF BestOrder, PopBestOrder
<1> HIDE DEF p, o, M
<1>3. o \in Waiting /\ q \in Seq(Waiting)
  BY <1>1, <1>2
<1>4. \A id : InQueue(L[p], id) = Own(o, id) + InQueue(q, id)
  BY <1>1, <1>2, QueueTail
<1> HIDE DEF q
<1>5. M \in Levels /\ \A id : InSide(M, id) = InSide(L, id) + (InQueue(q, id) - InQueue(L[p], id))
  <2>1. M = QueueSet(L, p, q)
    BY <1>2 DEF QueueSet
  <2> QED BY <1>1, <1>3, <2>1, LevelSet
<1>6. ASSUME NEW id PROVE InSide(L, id) = Own(o, id) + InSide(M, id)
  <2>1. InQueue(q, id) \in Nat /\ InSide(L, id) \in Nat /\ Own(o, id) \in Nat
    BY <1>3, QueueIsNat, SideIsNat, OwnIsNat DEF Waiting
  <2>2. /\ InSide(M, id) = InSide(L, id) + (InQueue(q, id) - InQueue(L[p], id))
        /\ InQueue(L[p], id) = Own(o, id) + InQueue(q, id)
    BY <1>4, <1>5
  <2> QED BY <2>1, <2>2
<1> QED BY <1>3, <1>5, <1>6 DEF o, M

-----------------------------------------------------------------------------
(* One round of the loop.                                                   *)

\* What fills trade of an id: a fill that names it twice counts once.
TradeOf(f, id) == IF id \in {f.maker, f.taker} THEN f.quantity ELSE 0
Trades(fills, id) == [i \in DOMAIN fills |-> TradeOf(fills[i], id)]
Traded(fills, id) == SumFunctionOnSet(Trades(fills, id), DOMAIN fills)

LEMMA TradedIsNat ==
    ASSUME NEW id, NEW fills \in Seq(VenueFill)
    PROVE  /\ IsFiniteSet(DOMAIN fills)
           /\ \A i \in DOMAIN fills : /\ Trades(fills, id)[i] \in Nat
                                      /\ Trades(fills, id)[i] = TradeOf(fills[i], id)
           /\ Traded(fills, id) \in Nat
<1>1. /\ DOMAIN fills = 1 .. Len(fills) /\ Len(fills) \in Nat
      /\ \A i \in DOMAIN fills : fills[i] \in VenueFill
  OBVIOUS
<1>2. IsFiniteSet(DOMAIN fills)
  BY <1>1, FS_Interval
<1>3. \A i \in DOMAIN fills : /\ Trades(fills, id)[i] \in Nat
                              /\ Trades(fills, id)[i] = TradeOf(fills[i], id)
  BY <1>1 DEF Trades, TradeOf, VenueFill
<1> QED BY <1>2, <1>3, SumIsNat DEF Traded

LEMMA TradedAppend ==
    ASSUME NEW id, NEW fills \in Seq(VenueFill), NEW fill \in VenueFill
    PROVE  /\ Append(fills, fill) \in Seq(VenueFill)
           /\ Traded(Append(fills, fill), id) = Traded(fills, id) + TradeOf(fill, id)
<1> DEFINE r == Append(fills, fill)
           n == Len(fills) + 1
<1>1. /\ r \in Seq(VenueFill) /\ DOMAIN r = DOMAIN fills \cup {n} /\ n \notin DOMAIN fills
      /\ r[n] = fill /\ \A i \in DOMAIN fills : r[i] = fills[i]
  OBVIOUS
<1> HIDE DEF r, n
<1>2. /\ IsFiniteSet(DOMAIN fills)
      /\ \A i \in DOMAIN r : Trades(r, id)[i] \in Nat /\ Trades(r, id)[i] = TradeOf(r[i], id)
      /\ \A i \in DOMAIN fills : Trades(fills, id)[i] = TradeOf(fills[i], id)
      /\ Traded(fills, id) \in Nat
  BY <1>1, TradedIsNat
<1>3. Traded(r, id) = Trades(r, id)[n] + SumFunctionOnSet(Trades(r, id), DOMAIN fills)
  <2>1. \A i \in DOMAIN fills \cup {n} : Trades(r, id)[i] \in Int
    BY <1>1, <1>2
  <2> QED BY <1>1, <1>2, <2>1, SumAdd DEF Traded
<1>4. SumFunctionOnSet(Trades(r, id), DOMAIN fills) = Traded(fills, id)
  <2>1. \A i \in DOMAIN fills : Trades(r, id)[i] = Trades(fills, id)[i]
    BY <1>1, <1>2
  <2> QED BY <1>2, <2>1, SumCongruent DEF Traded
<1>5. Trades(r, id)[n] = TradeOf(fill, id) /\ TradeOf(fill, id) \in Nat
  BY <1>1, <1>2
<1> QED BY <1>1, <1>2, <1>3, <1>4, <1>5 DEF r

LEMMA FillLeaves ==
    ASSUME NEW o \in VenueOrder, NEW q \in Nat, q <= o.remaining
    PROVE  /\ ApplyFill(o, q) \in VenueOrder
           /\ ApplyFill(o, q).id = o.id
           /\ ApplyFill(o, q).remaining = o.remaining - q
<1>1. o = [id |-> o.id, trader |-> o.trader, side |-> o.side, price |-> o.price,
           quantity |-> o.quantity, remaining |-> o.remaining]
  BY DEF VenueOrder
<1>2. ApplyFill(o, q) = [id |-> o.id, trader |-> o.trader, side |-> o.side,
           price |-> o.price, quantity |-> o.quantity, remaining |-> o.remaining - q]
  BY <1>1 DEF ApplyFill
<1>3. /\ o.id \in OrderIds /\ o.trader \in Traders /\ o.side \in Sides /\ o.price \in Prices
      /\ o.quantity \in Quantities /\ o.remaining \in Nat
  BY DEF VenueOrder
<1>4. o.remaining - q \in Nat
  BY <1>3
<1> QED BY <1>2, <1>3, <1>4 DEF VenueOrder

LoopType(m) == m.taker \in VenueOrder /\ m.makers \in Levels /\ m.fills \in Seq(VenueFill)

\* What an id traded and still has is no more than what it had.
LoopKeeps(m, order, makers) ==
    \A id : Traded(m.fills, id) + Own(m.taker, id) + InSide(m.makers, id)
              <= Own(order, id) + InSide(makers, id)

LoopInv(m, order, makers) == LoopType(m) /\ LoopKeeps(m, order, makers)

\* The maker taken, the quantity traded, and what each has left.
RoundEffect(m, next, maker, q) ==
    /\ maker \in Waiting /\ q \in Nat /\ q <= maker.remaining /\ q <= m.taker.remaining
    /\ LoopType(next)
    /\ next.taker.id = m.taker.id /\ next.taker.remaining = m.taker.remaining - q
    /\ \A id : InSide(next.makers, id) + (IF maker.id = id THEN q ELSE 0)
                 = InSide(m.makers, id)
    /\ \A id : Traded(next.fills, id)
                 = Traded(m.fills, id) + (IF id \in {maker.id, m.taker.id} THEN q ELSE 0)

LEMMA RoundIs ==
    ASSUME NEW m, LoopType(m), LevelPrices(m.makers) # {}
    PROVE  \E maker, q : RoundEffect(m, MatchRound(m), maker, q)
<1> DEFINE opp == Opposite(m.taker.side)
           maker == BestOrder(opp, m.makers)
           rest == PopBestOrder(opp, m.makers)
           q == IF m.taker.remaining < maker.remaining THEN m.taker.remaining
                ELSE maker.remaining
           left == ApplyFill(maker, q)
           fill == Fill(maker, m.taker, maker.price, q)
           next == MatchRound(m)
<1>1. m.taker \in VenueOrder /\ m.makers \in Levels /\ m.fills \in Seq(VenueFill)
  BY DEF LoopType
<1>2. next = [taker |-> ApplyFill(m.taker, q),
              makers |-> IF IsTerminal(left) THEN rest ELSE ReinsertFront(rest, left),
              fills |-> Append(m.fills, fill)]
  BY DEF MatchRound
<1> HIDE DEF opp
<1>3. /\ maker \in Waiting /\ rest \in Levels
      /\ \A id : InSide(m.makers, id) = Own(maker, id) + InSide(rest, id)
  BY <1>1, PopLevel
<1> HIDE DEF maker, rest
<1>4. m.taker.remaining \in Nat /\ maker.remaining \in Nat /\ maker \in VenueOrder
  BY <1>1, <1>3 DEF Waiting, VenueOrder
<1>5. q \in Nat /\ q <= maker.remaining /\ q <= m.taker.remaining
  BY <1>4
<1> HIDE DEF q
<1>6. /\ left \in VenueOrder /\ left.id = maker.id
      /\ left.remaining = maker.remaining - q
      /\ ApplyFill(m.taker, q) \in VenueOrder
      /\ ApplyFill(m.taker, q).id = m.taker.id
      /\ ApplyFill(m.taker, q).remaining = m.taker.remaining - q
  BY <1>1, <1>4, <1>5, FillLeaves
<1>7. /\ fill \in VenueFill /\ fill.quantity = q /\ fill.maker = maker.id
      /\ fill.taker = m.taker.id
  BY <1>1, <1>4, <1>5 DEF Fill, VenueFill, VenueOrder
<1> HIDE DEF left, fill, next
<1>8. /\ next.taker = ApplyFill(m.taker, q)
      /\ next.makers = IF IsTerminal(left) THEN rest ELSE ReinsertFront(rest, left)
      /\ next.fills = Append(m.fills, fill)
  BY <1>2
<1>9. next.makers \in Levels /\ \A id : InSide(next.makers, id) = InSide(rest, id) + Own(left, id)
  <2>1. CASE IsTerminal(left)
    <3>1. next.makers = rest /\ \A id : Own(left, id) = 0
      BY <1>8, <2>1 DEF IsTerminal, Own
    <3>2. \A id : InSide(rest, id) \in Nat
      BY <1>3, SideIsNat
    <3> QED BY <1>3, <3>1, <3>2
  <2>2. CASE ~IsTerminal(left)
    <3>1. next.makers = ReinsertFront(rest, left) /\ left \in Waiting
      BY <1>6, <1>8, <2>2 DEF IsTerminal, Waiting
    <3> QED BY <1>3, <3>1, ReinsertLevel
  <2> QED BY <2>1, <2>2
<1>10. \A id : InSide(next.makers, id) + (IF maker.id = id THEN q ELSE 0) = InSide(m.makers, id)
  <2> TAKE id
  <2>1. InSide(rest, id) \in Nat
    BY <1>3, SideIsNat
  <2>2. Own(maker, id) = Own(left, id) + (IF maker.id = id THEN q ELSE 0)
        /\ Own(left, id) \in Int
    BY <1>4, <1>5, <1>6 DEF Own
  <2>3. /\ InSide(m.makers, id) = Own(maker, id) + InSide(rest, id)
        /\ InSide(next.makers, id) = InSide(rest, id) + Own(left, id)
    BY <1>3, <1>9
  <2> QED BY <1>5, <2>1, <2>2, <2>3
<1>11. next.fills \in Seq(VenueFill)
  BY <1>1, <1>7, <1>8
<1>12. \A id : Traded(next.fills, id)
                 = Traded(m.fills, id) + (IF id \in {maker.id, m.taker.id} THEN q ELSE 0)
  BY <1>1, <1>7, <1>8, TradedAppend DEF TradeOf
<1>13. RoundEffect(m, next, maker, q)
  BY <1>3, <1>5, <1>6, <1>8, <1>9, <1>10, <1>11, <1>12 DEF RoundEffect, LoopType
<1> QED BY <1>13 DEF next

LEMMA RoundKeeps ==
    ASSUME NEW order, NEW makers, NEW m, LoopInv(m, order, makers),
           LevelPrices(m.makers) # {}, order \in VenueOrder, makers \in Levels
    PROVE  LoopInv(MatchRound(m), order, makers)
<1> DEFINE next == MatchRound(m)
<1>1. LoopType(m)
  BY DEF LoopInv
<1>2. PICK maker, q : RoundEffect(m, next, maker, q)
  BY <1>1, RoundIs
<1> HIDE DEF next
<1>3. LoopType(next)
  BY <1>2 DEF RoundEffect
<1>4. ASSUME NEW id
      PROVE  Traded(next.fills, id) + Own(next.taker, id) + InSide(next.makers, id)
               <= Own(order, id) + InSide(makers, id)
  <2>1. /\ Traded(m.fills, id) \in Nat /\ Own(m.taker, id) \in Nat
        /\ InSide(m.makers, id) \in Nat /\ Own(next.taker, id) \in Nat
        /\ InSide(next.makers, id) \in Nat /\ Traded(next.fills, id) \in Nat
        /\ Own(order, id) \in Nat /\ InSide(makers, id) \in Nat
    BY <1>1, <1>3, TradedIsNat, OwnIsNat, SideIsNat DEF LoopType
  <2>2. Traded(m.fills, id) + Own(m.taker, id) + InSide(m.makers, id)
          <= Own(order, id) + InSide(makers, id)
    BY DEF LoopInv, LoopKeeps
  <2>3. q \in Nat /\ m.taker.remaining \in Nat
    BY <1>1, <1>2 DEF RoundEffect, LoopType, VenueOrder
  <2>4. Own(m.taker, id) = Own(next.taker, id) + (IF m.taker.id = id THEN q ELSE 0)
    BY <1>2, <2>3 DEF RoundEffect, Own
  <2>5. /\ InSide(next.makers, id) + (IF maker.id = id THEN q ELSE 0) = InSide(m.makers, id)
        /\ Traded(next.fills, id)
             = Traded(m.fills, id) + (IF id \in {maker.id, m.taker.id} THEN q ELSE 0)
    BY <1>2 DEF RoundEffect
  <2> QED BY <2>1, <2>2, <2>3, <2>4, <2>5
<1> QED BY <1>3, <1>4 DEF LoopInv, LoopKeeps, next

-----------------------------------------------------------------------------
(* All rounds, and a placement.                                             *)

FirstRound(order, makers) == [taker |-> order, makers |-> makers, fills |-> <<>>]
NextRound(m) == IF ~IsTerminal(m.taker) /\ Crosses(m.taker, m.makers) THEN MatchRound(m) ELSE m

RoundStates(order, makers, N, st) ==
    st = [n \in 0 .. N |-> IF n = 0 THEN FirstRound(order, makers) ELSE NextRound(st[n - 1])]

LEMMA RoundStep ==
    ASSUME NEW order, NEW makers, NEW N \in Nat, NEW st, RoundStates(order, makers, N, st)
    PROVE  /\ st[0] = FirstRound(order, makers)
           /\ \A n \in 1 .. N : st[n] = NextRound(st[n - 1])
<1> DEFINE F(n) == IF n = 0 THEN FirstRound(order, makers) ELSE NextRound(st[n - 1])
<1>1. st = [n \in 0 .. N |-> F(n)]
  BY DEF RoundStates
<1> HIDE DEF F
<1>2. \A n \in 0 .. N : st[n] = F(n)
  BY <1>1
<1>3. st[0] = F(0) /\ \A n \in 1 .. N : st[n] = F(n) /\ n # 0
  BY <1>2
<1> QED BY <1>3 DEF F

LEMMA RoundStepAt ==
    ASSUME NEW order, NEW makers, NEW N \in Nat, NEW st, RoundStates(order, makers, N, st),
           NEW n \in 1 .. N
    PROVE  st[n] = NextRound(st[n - 1])
BY RoundStep

LEMMA RoundsExist ==
    ASSUME NEW order, NEW makers, NEW N \in Nat
    PROVE  \E st : RoundStates(order, makers, N, st)
<1> DEFINE T == {n \in Nat : \E st : RoundStates(order, makers, n, st)}
<1>1. 0 \in T
  <2> DEFINE st == [n \in 0 .. 0 |-> FirstRound(order, makers)]
  <2>1. st = [n \in 0 .. 0 |->
             IF n = 0 THEN FirstRound(order, makers) ELSE NextRound(st[n - 1])]
    OBVIOUS
  <2>2. RoundStates(order, makers, 0, st)
    BY <2>1 DEF RoundStates
  <2> QED BY <2>2
<1>2. ASSUME NEW n \in 0 .. N - 1, n \in T PROVE n + 1 \in T
  <2>1. PICK st : RoundStates(order, makers, n, st)
    BY <1>2
  <2> DEFINE next == [m \in 0 .. n + 1 |-> IF m = n + 1 THEN NextRound(st[n]) ELSE st[m]]
             F(m) == IF m = 0 THEN FirstRound(order, makers) ELSE NextRound(next[m - 1])
  <2>2. next[n + 1] = NextRound(st[n]) /\ \A m \in 0 .. n : next[m] = st[m]
    OBVIOUS
  <2>3. ASSUME NEW m \in 0 .. n + 1 PROVE next[m] = F(m)
    <3> HIDE DEF next
    <3>1. CASE m = n + 1
      <4>1. m - 1 = n /\ m # 0 /\ n \in 0 .. n
        BY <3>1
      <4> QED BY <2>2, <3>1, <4>1
    <3>2. CASE m = 0
      BY <2>1, <2>2, <3>2, RoundStep
    <3>3. CASE m # 0 /\ m # n + 1
      <4>1. m \in 1 .. n /\ m - 1 \in 0 .. n
        BY <3>3
      <4>2. next[m] = st[m] /\ next[m - 1] = st[m - 1]
        BY <2>2, <4>1
      <4>3. st[m] = NextRound(st[m - 1])
        BY <2>1, <4>1, RoundStepAt
      <4> QED BY <3>3, <4>2, <4>3
    <3> QED BY <3>1, <3>2, <3>3
  <2>4. next = [m \in 0 .. n + 1 |-> F(m)]
    <3>1. next = [m \in 0 .. n + 1 |-> next[m]]
      OBVIOUS
    <3> HIDE DEF next, F
    <3> QED BY <2>3, <3>1
  <2>5. RoundStates(order, makers, n + 1, next)
    BY <2>4 DEF RoundStates
  <2> QED BY <2>5
<1> HIDE DEF T
<1>3. N \in T
  BY <1>1, <1>2, Upward
<1> QED BY <1>3 DEF T

LEMMA MatchRoundsIs ==
    ASSUME NEW order, NEW makers, RestingCount(makers) \in Nat
    PROVE  \E st : /\ RoundStates(order, makers, RestingCount(makers), st)
                   /\ MatchRounds(order, makers) = st[RestingCount(makers)]
<1>1. MatchRounds(order, makers)
        = (CHOOSE st : RoundStates(order, makers, RestingCount(makers), st))[RestingCount(makers)]
  BY DEF MatchRounds, RoundStates, FirstRound, NextRound
<1> QED BY <1>1, RoundsExist

LEMMA CountIsNat ==
    ASSUME NEW L \in Levels
    PROVE  RestingCount(L) \in Nat
<1> DEFINE f == [p \in Prices |-> Len(L[p])]
<1>1. \A p \in Prices : f[p] \in Nat
  BY DEF Levels
<1>2. RestingCount(L) = SumFunctionOnSet(f, Prices)
  BY DEF RestingCount, SumFunction
<1> QED BY <1>1, <1>2, PricesAssumption, SumIsNat

LEMMA NothingTraded ==
    ASSUME NEW id
    PROVE  Traded(<<>>, id) = 0
<1>1. DOMAIN << >> = {}
  OBVIOUS
<1> QED BY <1>1, SumEmpty DEF Traded

LEMMA RoundsKeep ==
    ASSUME NEW order \in VenueOrder, NEW makers \in Levels, NEW N \in Nat, NEW st,
           RoundStates(order, makers, N, st)
    PROVE  LoopInv(st[N], order, makers)
<1> DEFINE T == {n \in 0 .. N : LoopInv(st[n], order, makers)}
<1>1. 0 \in T
  <2> DEFINE m == FirstRound(order, makers)
  <2>1. st[0] = m /\ m.taker = order /\ m.makers = makers /\ m.fills = <<>>
    BY RoundStep DEF FirstRound
  <2>2. LoopType(m)
    BY <2>1 DEF LoopType
  <2>3. ASSUME NEW id
        PROVE  Traded(m.fills, id) + Own(m.taker, id) + InSide(m.makers, id)
                 <= Own(order, id) + InSide(makers, id)
    <3>1. Traded(m.fills, id) = 0
      BY <2>1, NothingTraded
    <3>2. Own(order, id) \in Nat /\ InSide(makers, id) \in Nat
      BY OwnIsNat, SideIsNat
    <3> HIDE DEF m
    <3> QED BY <2>1, <3>1, <3>2
  <2> QED BY <2>1, <2>2, <2>3 DEF LoopInv, LoopKeeps
<1>2. ASSUME NEW n \in 0 .. N - 1, n \in T PROVE n + 1 \in T
  <2>1. n + 1 \in 1 .. N /\ (n + 1) - 1 = n /\ n + 1 \in 0 .. N
    OBVIOUS
  <2> DEFINE m == st[n]
  <2>2. LoopInv(m, order, makers)
    BY <1>2
  <2>3. st[n + 1] = NextRound(m)
    BY <2>1, RoundStepAt
  <2> HIDE DEF m
  <2>4. LoopInv(NextRound(m), order, makers)
    <3>1. CASE ~IsTerminal(m.taker) /\ Crosses(m.taker, m.makers)
      <4>1. NextRound(m) = MatchRound(m) /\ LevelPrices(m.makers) # {}
        BY <3>1 DEF NextRound, Crosses
      <4> QED BY <2>2, <4>1, RoundKeeps
    <3>2. CASE ~(~IsTerminal(m.taker) /\ Crosses(m.taker, m.makers))
      BY <2>2, <3>2 DEF NextRound
    <3> QED BY <3>1, <3>2
  <2> QED BY <2>1, <2>3, <2>4
<1> HIDE DEF T
<1>3. \A n \in 0 .. N : n \in T
  BY <1>1, <1>2, Upward
<1> QED BY <1>3 DEF T

Engines == [Sides -> Levels]
InBook(E, id) == InSide(E["Bid"], id) + InSide(E["Ask"], id)

LEMMA BookIsNat ==
    ASSUME NEW id, NEW E \in Engines
    PROVE  InBook(E, id) \in Nat
<1>1. E["Bid"] \in Levels /\ E["Ask"] \in Levels
  BY DEF Engines, Sides
<1>2. InSide(E["Bid"], id) \in Nat /\ InSide(E["Ask"], id) \in Nat
  BY <1>1, SideIsNat
<1> QED BY <1>2 DEF InBook

LEMMA PlacementIs ==
    ASSUME NEW order \in Placements
    PROVE  /\ order \in Waiting /\ order.remaining = order.quantity
           /\ order.quantity \in Nat /\ order.side \in Sides /\ order.id \in OrderIds
<1>1. PICK t \in Traders, s \in Sides, p \in Prices, q \in Quantities :
          order = NewOrder(order.id, t, s, p, q)
  BY PlacementsAssumption
<1>2. order.id \in OrderIds
  BY DEF OrderIds
<1>3. q \in Nat /\ q # 0
  BY QuantitiesAssumption
<1> DEFINE i == order.id
<1> HIDE DEF i
<1>4. order = [id |-> i, trader |-> t, side |-> s, price |-> p, quantity |-> q, remaining |-> q]
  BY <1>1 DEF NewOrder, i
<1>5. i \in OrderIds
  BY <1>2 DEF i
<1> QED BY <1>3, <1>4, <1>5 DEF Waiting, VenueOrder

\* A placement trades and rests no more than it brings.
PlacementKeeps(E, order, result) ==
    /\ result.engine \in Engines
    /\ result.fills \in Seq(VenueFill)
    /\ \A id : Traded(result.fills, id) + InBook(result.engine, id)
                 <= InBook(E, id) + Own(order, id)

LEMMA PlacementSound ==
    ASSUME NEW E \in Engines, NEW order \in Placements
    PROVE  PlacementKeeps(E, order, PlaceInEngine(E, order))
<1> DEFINE opp == Opposite(order.side)
           own == order.side
           makers == E[opp]
           m == MatchRounds(order, makers)
           mine == IF IsTerminal(m.taker) THEN E[own] ELSE Insert(E[own], m.taker)
           result == PlaceInEngine(E, order)
<1>1. order \in VenueOrder /\ own \in Sides /\ opp \in Sides /\ opp # own
  BY PlacementIs DEF Waiting, Opposite, Sides
<1>2. makers \in Levels /\ E[own] \in Levels
  BY <1>1 DEF Engines
<1>3. LoopInv(m, order, makers)
  <2>1. RestingCount(makers) \in Nat
    BY <1>2, CountIsNat
  <2>2. PICK st : /\ RoundStates(order, makers, RestingCount(makers), st)
                  /\ m = st[RestingCount(makers)]
    BY <2>1, MatchRoundsIs
  <2> QED BY <1>1, <1>2, <2>1, <2>2, RoundsKeep
<1>4. result = [engine |-> [E EXCEPT ![opp] = m.makers, ![own] = mine], fills |-> m.fills]
  BY <1>1 DEF PlaceInEngine, Engines
<1> HIDE DEF m
<1>5. LoopType(m) /\ m.taker \in VenueOrder /\ m.makers \in Levels /\ m.fills \in Seq(VenueFill)
  BY <1>3 DEF LoopInv, LoopType
<1>6. mine \in Levels /\ \A id : InSide(mine, id) = InSide(E[own], id) + Own(m.taker, id)
  <2>1. CASE IsTerminal(m.taker)
    <3>1. mine = E[own] /\ \A id : Own(m.taker, id) = 0
      BY <2>1 DEF IsTerminal, Own
    <3>2. \A id : InSide(E[own], id) \in Nat
      BY <1>2, SideIsNat
    <3> HIDE DEF mine
    <3> QED BY <1>2, <3>1, <3>2
  <2>2. CASE ~IsTerminal(m.taker)
    <3>1. mine = Insert(E[own], m.taker) /\ m.taker \in Waiting
      BY <1>5, <2>2 DEF IsTerminal, Waiting
    <3> HIDE DEF mine
    <3> QED BY <1>2, <3>1, InsertLevel
  <2> QED BY <2>1, <2>2
<1> HIDE DEF mine, result
<1> DEFINE G == result.engine
<1>7. G \in Engines /\ G[opp] = m.makers /\ G[own] = mine /\ result.fills = m.fills
  BY <1>1, <1>4, <1>5, <1>6 DEF Engines
<1> HIDE DEF G
<1>8. ASSUME NEW id
      PROVE  Traded(m.fills, id) + InBook(G, id) <= InBook(E, id) + Own(order, id)
  <2>1. /\ InBook(G, id) = InSide(m.makers, id) + InSide(mine, id)
        /\ InBook(E, id) = InSide(makers, id) + InSide(E[own], id)
    <3>0. /\ InSide(m.makers, id) \in Nat /\ InSide(mine, id) \in Nat
          /\ InSide(makers, id) \in Nat /\ InSide(E[own], id) \in Nat
      BY <1>2, <1>5, <1>6, SideIsNat
    <3>1. CASE own = "Bid"
      BY <1>7, <3>0, <3>1 DEF InBook, Opposite
    <3>2. CASE own = "Ask"
      BY <1>7, <3>0, <3>2 DEF InBook, Opposite
    <3> QED BY <1>1, <3>1, <3>2 DEF Sides
  <2>2. /\ Traded(m.fills, id) \in Nat /\ Own(m.taker, id) \in Nat
        /\ InSide(m.makers, id) \in Nat /\ InSide(makers, id) \in Nat
        /\ InSide(E[own], id) \in Nat /\ Own(order, id) \in Nat
    BY <1>1, <1>2, <1>5, TradedIsNat, OwnIsNat, SideIsNat
  <2>3. Traded(m.fills, id) + Own(m.taker, id) + InSide(m.makers, id)
          <= Own(order, id) + InSide(makers, id)
    BY <1>3 DEF LoopInv, LoopKeeps
  <2>4. InSide(mine, id) = InSide(E[own], id) + Own(m.taker, id)
    BY <1>6
  <2> HIDE DEF makers
  <2> QED BY <2>1, <2>2, <2>3, <2>4
<1> QED BY <1>5, <1>7, <1>8 DEF PlacementKeeps, G, result

-----------------------------------------------------------------------------
(* All fills of the book so far, over the placements P.                     *)

PlacedOrder == [order : Placements, fills : Seq(VenueFill)]
FillsIn(P) == UNION {{n} \X DOMAIN P[n].fills : n \in DOMAIN P}
FillIn(P, x) == P[x[1]].fills[x[2]]
TradesIn(P, id) == [x \in FillsIn(P) |-> TradeOf(FillIn(P, x), id)]
TradedIn(P, id) == SumFunctionOnSet(TradesIn(P, id), FillsIn(P))
PlacedUnder(P, id) == {n \in DOMAIN P : P[n].order.id = id}
QuantitiesUnder(P, id) == [n \in PlacedUnder(P, id) |-> P[n].order.quantity]
PlacedIn(P, id) == SumFunctionOnSet(QuantitiesUnder(P, id), PlacedUnder(P, id))

LEMMA FillsAre ==
    ASSUME NEW P \in Seq(PlacedOrder), NEW x \in FillsIn(P)
    PROVE  /\ x[1] \in DOMAIN P /\ x[2] \in DOMAIN P[x[1]].fills /\ x = <<x[1], x[2]>>
           /\ FillIn(P, x) \in VenueFill
<1>1. PICK n \in DOMAIN P : x \in {n} \X DOMAIN P[n].fills
  BY DEF FillsIn
<1>2. P[n] \in PlacedOrder
  OBVIOUS
<1>3. P[n].fills \in Seq(VenueFill)
  BY <1>2 DEF PlacedOrder
<1> DEFINE fs == P[n].fills
<1>4. x[1] = n /\ x[2] \in DOMAIN fs /\ x = <<x[1], x[2]>>
  BY <1>1
<1>5. fs[x[2]] \in VenueFill
  BY <1>3, <1>4
<1> QED BY <1>4, <1>5 DEF FillIn

\* One placement more: its fills join those there were.
NewFills(n, fills) == {n} \X DOMAIN fills
FillsGrown(P, e, Q, n) ==
    /\ Q \in Seq(PlacedOrder) /\ DOMAIN Q = DOMAIN P \cup {n} /\ n \notin DOMAIN P
    /\ FillsIn(Q) = FillsIn(P) \cup NewFills(n, e.fills)
    /\ FillsIn(P) \cap NewFills(n, e.fills) = {}
    /\ \A x \in FillsIn(P) : FillIn(Q, x) = FillIn(P, x) /\ x[1] # n
    /\ \A x \in NewFills(n, e.fills) : FillIn(Q, x) = e.fills[x[2]] /\ x[1] = n

LEMMA FillsGrow ==
    ASSUME NEW P \in Seq(PlacedOrder), NEW e \in PlacedOrder
    PROVE  FillsGrown(P, e, Append(P, e), Len(P) + 1)
<1> DEFINE Q == Append(P, e)
           n == Len(P) + 1
<1>1. /\ Q \in Seq(PlacedOrder) /\ DOMAIN Q = DOMAIN P \cup {n} /\ n \notin DOMAIN P
      /\ Q[n] = e /\ \A m \in DOMAIN P : Q[m] = P[m]
  OBVIOUS
<1> HIDE DEF Q, n
<1>2. \A x \in FillsIn(P) : FillIn(Q, x) = FillIn(P, x) /\ x[1] # n
  BY <1>1, FillsAre DEF FillIn
<1>3. \A x \in NewFills(n, e.fills) : FillIn(Q, x) = e.fills[x[2]] /\ x[1] = n
  BY <1>1 DEF FillIn, NewFills
<1>4. FillsIn(Q) = FillsIn(P) \cup NewFills(n, e.fills)
  <2> DEFINE Of(R, m) == {m} \X DOMAIN R[m].fills
             New == NewFills(n, e.fills)
  <2>1. /\ \A x : x \in FillsIn(Q) <=> \E m \in DOMAIN Q : x \in Of(Q, m)
        /\ \A x : x \in FillsIn(P) <=> \E m \in DOMAIN P : x \in Of(P, m)
    BY DEF FillsIn
  <2>2. Of(Q, n) = New /\ \A m \in DOMAIN P : Of(Q, m) = Of(P, m)
    BY <1>1 DEF NewFills
  <2> HIDE DEF New, Of
  <2>3. \A x : x \in FillsIn(Q) <=> x \in FillsIn(P) \/ x \in New
    <3> TAKE x
    <3>1. (\E m \in DOMAIN Q : x \in Of(Q, m))
            <=> (\E m \in DOMAIN P : x \in Of(P, m)) \/ x \in New
      BY <1>1, <2>2
    <3> QED BY <2>1, <3>1
  <2> QED BY <2>3 DEF New
<1> QED BY <1>1, <1>2, <1>3, <1>4 DEF FillsGrown, Q, n

\* The new fills counted by their position.
Counts(g, n, fills, id) == \A x \in NewFills(n, fills) : g[x] = TradeOf(fills[x[2]], id)
SumsTo(g, S, v) == IsFiniteSet(S) /\ (\A x \in S : g[x] \in Nat) /\ SumFunctionOnSet(g, S) = v

LEMMA NewFillsSum ==
    ASSUME NEW fills \in Seq(VenueFill), NEW n, NEW g, NEW id, Counts(g, n, fills, id)
    PROVE  SumsTo(g, NewFills(n, fills), Traded(fills, id))
<1> DEFINE S == NewFills(n, fills)
           D == DOMAIN fills
           f == Trades(fills, id)
           h == [x \in S |-> x[2]]
           k == [i \in D |-> <<n, i>>]
<1>1. IsFiniteSet(D) /\ \A i \in D : f[i] \in Nat /\ f[i] = TradeOf(fills[i], id)
  BY TradedIsNat
<1>2. IsFiniteSet(S)
  BY <1>1, FS_Product, FS_Singleton DEF NewFills
<1>3. \A x \in S : /\ h[x] \in D /\ g[x] = f[h[x]] /\ k[h[x]] = x /\ g[x] \in Nat
  BY <1>1 DEF NewFills, Counts
<1>4. \A i \in D : /\ k[i] \in S /\ f[i] = g[k[i]] /\ h[k[i]] = i
  <2> TAKE i \in D
  <2>1. k[i] = <<n, i>> /\ <<n, i>> \in S /\ <<n, i>>[2] = i
    BY DEF NewFills
  <2>2. g[<<n, i>>] = TradeOf(fills[i], id) /\ h[<<n, i>>] = i
    BY <2>1 DEF Counts
  <2> QED BY <1>1, <2>1, <2>2
<1> HIDE DEF S, D, f, h, k
<1>5. SumFunctionOnSet(g, S) = SumFunctionOnSet(f, D)
  <2>1. (\A x \in S : g[x] \in Nat) /\ \A i \in D : f[i] \in Nat
    BY <1>1, <1>3
  <2>2. \A x \in S : /\ h[x] \in D /\ g[x] = f[h[x]] /\ k[h[x]] = x
    BY <1>3
  <2> QED BY <1>1, <1>2, <1>4, <2>1, <2>2, SumBijection
<1> QED BY <1>2, <1>3, <1>5 DEF S, D, f, Traded, SumsTo

LEMMA TradedGrows ==
    ASSUME NEW P \in Seq(PlacedOrder), NEW e \in PlacedOrder, NEW id,
           IsFiniteSet(FillsIn(P))
    PROVE  /\ IsFiniteSet(FillsIn(Append(P, e)))
           /\ TradedIn(Append(P, e), id) = TradedIn(P, id) + Traded(e.fills, id)
<1> DEFINE Q == Append(P, e)
           n == Len(P) + 1
           Old == FillsIn(P)
           New == NewFills(n, e.fills)
           g == TradesIn(Q, id)
           f == TradesIn(P, id)
<1>0. FillsGrown(P, e, Q, n)
  BY FillsGrow
<1> HIDE DEF Q, n
<1>1. e.fills \in Seq(VenueFill)
  BY DEF PlacedOrder
<1>2. /\ Q \in Seq(PlacedOrder) /\ FillsIn(Q) = Old \cup New /\ Old \cap New = {}
      /\ \A x \in Old : FillIn(Q, x) = FillIn(P, x)
      /\ \A x \in New : FillIn(Q, x) = e.fills[x[2]]
  BY <1>0 DEF FillsGrown
<1>3. Counts(g, n, e.fills, id)
  BY <1>2 DEF TradesIn, Counts
<1>4. /\ IsFiniteSet(New) /\ \A x \in New : g[x] \in Nat
      /\ SumFunctionOnSet(g, New) = Traded(e.fills, id)
  <2> HIDE DEF g
  <2>1. SumsTo(g, New, Traded(e.fills, id))
    BY <1>1, <1>3, NewFillsSum
  <2> QED BY <2>1 DEF SumsTo
<1>5. \A x \in Old : g[x] = f[x] /\ f[x] \in Nat
  BY <1>2, FillsAre DEF TradesIn, TradeOf, VenueFill
<1>6. TradedIn(Q, id) = SumFunctionOnSet(g, Old \cup New)
      /\ TradedIn(P, id) = SumFunctionOnSet(f, Old)
  BY <1>2 DEF TradedIn
<1> HIDE DEF g, f, Old, New
<1>7. SumFunctionOnSet(g, Old \cup New) = SumFunctionOnSet(g, Old) + SumFunctionOnSet(g, New)
  <2>1. \A x \in Old \cup New : g[x] \in Int
    BY <1>4, <1>5
  <2>2. IsFiniteSet(Old)
    BY DEF Old
  <2> QED BY <1>2, <1>4, <2>1, <2>2, SumUnion
<1>8. SumFunctionOnSet(g, Old) = SumFunctionOnSet(f, Old)
  <2>1. IsFiniteSet(Old)
    BY DEF Old
  <2> QED BY <1>5, <2>1, SumCongruent
<1>9. IsFiniteSet(FillsIn(Q))
  BY <1>2, <1>4, FS_Union DEF Old
<1> QED BY <1>4, <1>6, <1>7, <1>8, <1>9 DEF Q

LEMMA PlacedGrows ==
    ASSUME NEW P \in Seq(PlacedOrder), NEW e \in PlacedOrder, NEW id
    PROVE  /\ PlacedIn(P, id) \in Nat
           /\ PlacedIn(Append(P, e), id)
                = PlacedIn(P, id) + (IF e.order.id = id THEN e.order.quantity ELSE 0)
<1> DEFINE Q == Append(P, e)
           n == Len(P) + 1
           S == PlacedUnder(P, id)
           T == PlacedUnder(Q, id)
           f == QuantitiesUnder(P, id)
           g == QuantitiesUnder(Q, id)
<1>1. /\ Q \in Seq(PlacedOrder) /\ DOMAIN Q = DOMAIN P \cup {n} /\ n \notin DOMAIN P
      /\ Q[n] = e /\ \A m \in DOMAIN P : Q[m] = P[m] /\ P[m] \in PlacedOrder
  OBVIOUS
<1>2. IsFiniteSet(S)
  <2>1. DOMAIN P = 1 .. Len(P) /\ Len(P) \in Nat
    OBVIOUS
  <2>2. S \in SUBSET (1 .. Len(P))
    BY <2>1 DEF PlacedUnder
  <2>3. IsFiniteSet(1 .. Len(P))
    BY <2>1, FS_Interval
  <2> HIDE DEF S
  <2> QED BY <2>2, <2>3, FS_Subset
<1> HIDE DEF Q, n
<1>3. \A m \in S : f[m] \in Nat /\ f[m] = P[m].order.quantity
  BY <1>1, PlacementIs DEF QuantitiesUnder, PlacedUnder, PlacedOrder
<1>4. T = (IF e.order.id = id THEN S \cup {n} ELSE S) /\ n \notin S
  BY <1>1 DEF PlacedUnder
<1>5. \A m \in S : g[m] = f[m]
  BY <1>1, <1>3, <1>4 DEF QuantitiesUnder, PlacedUnder
<1>6. e.order.id = id => (g[n] = e.order.quantity /\ g[n] \in Nat)
  BY <1>1, <1>4, PlacementIs DEF QuantitiesUnder, PlacedOrder
<1>7. PlacedIn(P, id) = SumFunctionOnSet(f, S) /\ PlacedIn(Q, id) = SumFunctionOnSet(g, T)
  BY DEF PlacedIn
<1> HIDE DEF S, T, f, g
<1>8. SumFunctionOnSet(f, S) \in Nat /\ SumFunctionOnSet(g, S) = SumFunctionOnSet(f, S)
  <2>1. SumFunctionOnSet(f, S) \in Nat
    BY <1>2, <1>3, SumIsNat
  <2>2. SumFunctionOnSet(g, S) = SumFunctionOnSet(f, S)
    BY <1>2, <1>5, SumCongruent
  <2> QED BY <2>1, <2>2
<1>9. CASE e.order.id = id
  <2>1. \A m \in S \cup {n} : g[m] \in Int
    BY <1>3, <1>5, <1>6, <1>9
  <2>2. SumFunctionOnSet(g, S \cup {n}) = g[n] + SumFunctionOnSet(g, S)
    BY <1>2, <1>4, <2>1, SumAdd
  <2> QED BY <1>4, <1>6, <1>7, <1>8, <1>9, <2>2 DEF Q
<1>10. CASE e.order.id # id
  BY <1>4, <1>7, <1>8, <1>10 DEF Q
<1> QED BY <1>9, <1>10

-----------------------------------------------------------------------------
(* The inductive invariant.                                                 *)

\* A request says what its fill says, with payloads registered under the two
\* order ids that cover it.
FromFill(r, fill) ==
    /\ r.buy \in Payloads /\ r.sell \in Payloads
    /\ r.buy.order.side = "Bid" /\ r.sell.order.side = "Ask"
    /\ {r.buy.order.id, r.sell.order.id} = {fill.maker, fill.taker}
    /\ r.price = fill.price /\ r.quantity = fill.quantity
    /\ WithinPayloads(fill, r.buy.order, r.sell.order)

\* A handler has inserted the request at position i, if it inserts in order.
Behind(h, i) == h.step = "Done" \/ (h.step = "Insert" /\ i <= h.queued)

\* Every request comes from a fill of its own, which its handler has behind it:
\* that a handler inserts a fill once is what keeps the fills apart.
Sources(src, out, P, H) ==
    /\ \A r \in out : /\ src[r] \in FillsIn(P) /\ Behind(H[src[r][1]], src[r][2])
                      /\ FromFill(r, FillIn(P, src[r]))
    /\ \A r, s \in out : src[r] = src[s] => r = s

\* What a handler holds: requests of the first fills of its order and, between
\* two reads, the maker's payload of the next.
Request ==
    [id : Nat, buy : Payloads, sell : Payloads, price : Prices, quantity : Nat]
HandlerType ==
    [step : {"Done", "Allocate", "Maker", "Taker", "Insert"}, first : Nat,
     maker : Payloads \cup {Unsigned}, requests : Seq(Request), queued : Nat]
HandlerFits(h, fills) ==
    /\ Len(h.requests) <= Len(fills)
    /\ \A i \in 1 .. Len(h.requests) : FromFill(h.requests[i], fills[i])
    /\ h.step = "Allocate" => fills # <<>>
    /\ h.step \in {"Maker", "Taker"} => Len(h.requests) < Len(fills)
    /\ h.step = "Taker" => /\ h.maker \in Payloads
                           /\ h.maker.order.id = fills[Len(h.requests) + 1].maker
    /\ IF h.step = "Insert" THEN h.queued < Len(h.requests) ELSE h.queued = 0

\* Of an id, the book has traded and rests no more than was placed.
BookInv ==
    /\ engine \in Engines
    /\ placed \in Seq(PlacedOrder)
    /\ IsFiniteSet(FillsIn(placed))
    /\ \A id : TradedIn(placed, id) + InBook(engine, id) <= PlacedIn(placed, id)

ServiceInv ==
    /\ handlers \in Seq(HandlerType) /\ Len(handlers) = Len(placed)
    /\ \A n \in DOMAIN placed : HandlerFits(handlers[n], placed[n].fills)
    /\ nextId \in Nat
    /\ signedOrders \in [OrderIds -> Payloads \cup {Unsigned}]
    /\ \A id \in OrderIds : signedOrders[id] # Unsigned => signedOrders[id].order.id = id
    /\ \E src : Sources(src, outbox, placed, handlers)

SettledIn(R) == {id \in AllSettlementIds : R[id] # Chain!NoReceipt}
SettledOf(R, o) == {id \in SettledIn(R) : o \in R[id].orders}
BasesOf(R, o) == [id \in SettledOf(R, o) |-> R[id].base]
FilledBy(R, o) == SumFunctionOnSet(BasesOf(R, o), SettledOf(R, o))

\* What a receipt says is what a request of the outbox asked for.
Recorded(R, id, r) ==
    /\ r.id = id
    /\ R[id].orders = {r.buy.order, r.sell.order}
    /\ R[id].base = r.quantity /\ R[id].quote = r.price * r.quantity

Receipted(R, out) == \A id \in SettledIn(R) : \E r \in out : Recorded(R, id, r)

ChainInv ==
    /\ slot \in Int
    /\ receipts = [id \in AllSettlementIds |-> receipts[id]]
    /\ Receipted(receipts, outbox)
    /\ filled \in [Orders -> Nat]
    /\ \A o \in Orders : filled[o] = FilledBy(receipts, o)

VenueInv == BookInv /\ ServiceInv /\ ChainInv

LEMMA NothingInBook ==
    ASSUME NEW id
    PROVE  NewEngine \in Engines /\ InBook(NewEngine, id) = 0
<1>1. EmptyBookSide \in Levels
  BY DEF EmptyBookSide, Levels
<1>2. NewEngine \in Engines /\ NewEngine["Bid"] = EmptyBookSide /\ NewEngine["Ask"] = EmptyBookSide
  BY <1>1 DEF NewEngine, Engines, Sides
<1>3. InSide(EmptyBookSide, id) = 0
  <2>1. \A p \in Prices : InLevels(EmptyBookSide, id)[p] = 0
    <3> TAKE p \in Prices
    <3>1. EmptyBookSide[p] = <<>> /\ DOMAIN << >> = {}
      BY DEF EmptyBookSide
    <3>2. InQueue(<<>>, id) = 0
      BY <3>1, SumEmpty DEF InQueue
    <3> QED BY <3>1, <3>2 DEF InLevels
  <2> QED BY <2>1, PricesAssumption, SumOfZeros DEF InSide
<1> QED BY <1>2, <1>3 DEF InBook

LEMMA InitVenue == Init => VenueInv
<1> SUFFICES ASSUME Init PROVE VenueInv
  OBVIOUS
<1>1. BookInv
  <2>1. engine \in Engines /\ placed = <<>>
    BY NothingInBook DEF Init
  <2>2. FillsIn(<<>>) = {} /\ \A id : PlacedUnder(<<>>, id) = {}
    BY DEF FillsIn, PlacedUnder
  <2>3. ASSUME NEW id PROVE TradedIn(placed, id) + InBook(engine, id) <= PlacedIn(placed, id)
    <3>1. InBook(engine, id) = 0
      BY NothingInBook DEF Init
    <3>2. TradedIn(<<>>, id) = 0 /\ PlacedIn(<<>>, id) = 0
      BY <2>2, SumEmpty DEF TradedIn, PlacedIn
    <3> QED BY <2>1, <3>1, <3>2
  <2>4. IsFiniteSet(FillsIn(<<>>))
    BY <2>2, FS_EmptySet
  <2> QED BY <2>1, <2>3, <2>4 DEF BookInv
<1>2. ServiceInv
  <2>1. /\ handlers = <<>> /\ placed = <<>> /\ nextId = 0 /\ outbox = {}
        /\ signedOrders = [id \in OrderIds |-> Unsigned]
    BY DEF Init
  <2>2. \A src : Sources(src, outbox, placed, handlers)
    BY <2>1 DEF Sources
  <2> QED BY <2>1, <2>2 DEF ServiceInv
<1>3. ChainInv
  <2>1. receipts = [id \in AllSettlementIds |-> Chain!NoReceipt]
    BY DEF Init
  <2>2. SettledIn(receipts) = {} /\ \A o : SettledOf(receipts, o) = {}
    BY <2>1 DEF SettledIn, SettledOf
  <2>3. \A o \in Orders : filled[o] = FilledBy(receipts, o)
    BY <2>2, SumEmpty DEF FilledBy, Init
  <2>4. slot \in Int /\ filled \in [Orders -> Nat]
    BY LastSlotAssumption DEF Init
  <2> QED BY <2>1, <2>2, <2>3, <2>4 DEF ChainInv, Receipted
<1> QED BY <1>1, <1>2, <1>3 DEF VenueInv

-----------------------------------------------------------------------------
(* The steps of the service.                                                *)

\* A step of the service that leaves the requests leaves the chain's part.
LEMMA ChainKept ==
    ASSUME ChainInv, UNCHANGED <<slot, receipts, filled>>, outbox \subseteq outbox'
    PROVE  ChainInv'
<1>1. Receipted(receipts, outbox')
  BY DEF ChainInv, Receipted
<1>2. slot' = slot /\ receipts' = receipts /\ filled' = filled
  OBVIOUS
<1> QED BY <1>1, <1>2 DEF ChainInv

LEMMA SourcesKept ==
    ASSUME NEW src, NEW out, NEW P \in Seq(PlacedOrder), NEW e \in PlacedOrder,
           NEW H \in Seq(HandlerType), Len(H) = Len(P), NEW h \in HandlerType,
           Sources(src, out, P, H)
    PROVE  Sources(src, out, Append(P, e), Append(H, h))
<1> DEFINE Q == Append(P, e)
           K == Append(H, h)
           n == Len(P) + 1
<1>1. FillsGrown(P, e, Q, n) /\ \A m \in DOMAIN P : K[m] = H[m]
  <2>1. FillsGrown(P, e, Q, n)
    BY FillsGrow
  <2>2. \A m \in DOMAIN P : K[m] = H[m]
    OBVIOUS
  <2> QED BY <2>1, <2>2
<1> HIDE DEF Q, n, K
<1>2. ASSUME NEW r \in out
      PROVE  /\ src[r] \in FillsIn(Q) /\ Behind(K[src[r][1]], src[r][2])
             /\ FromFill(r, FillIn(Q, src[r]))
  <2>1. /\ src[r] \in FillsIn(P) /\ Behind(H[src[r][1]], src[r][2])
        /\ FromFill(r, FillIn(P, src[r]))
    BY DEF Sources
  <2>2. FillIn(Q, src[r]) = FillIn(P, src[r]) /\ src[r] \in FillsIn(Q)
    BY <1>1, <2>1 DEF FillsGrown
  <2>3. K[src[r][1]] = H[src[r][1]]
    BY <1>1, <2>1, FillsAre
  <2> QED BY <2>1, <2>2, <2>3
<1>3. \A r, s \in out : src[r] = src[s] => r = s
  BY DEF Sources
<1> QED BY <1>2, <1>3 DEF Sources, Q, K

\* A handler with nothing in its hands.
LEMMA HandlerIs ==
    ASSUME NEW step \in {"Done", "Allocate", "Maker"}, NEW fills \in Seq(VenueFill),
           step # "Done" => fills # <<>>
    PROVE  Handler(step) \in HandlerType /\ HandlerFits(Handler(step), fills)
<1>1. Handler(step) \in HandlerType
  BY DEF Handler, HandlerType
<1>2. Len(fills) \in Nat /\ (fills # <<>> => Len(fills) > 0)
  OBVIOUS
<1>3. /\ Handler(step).requests = <<>> /\ Handler(step).queued = 0
      /\ Handler(step).step = step
  BY DEF Handler
<1> QED BY <1>1, <1>2, <1>3 DEF HandlerFits

LEMMA PlaceStep ==
    ASSUME VenueInv, NEW order \in Placements, PlaceOrder(order)
    PROVE  VenueInv'
<1> DEFINE result == PlaceInEngine(engine, order)
           e == [order |-> order, fills |-> result.fills]
           h == Handler(IF result.fills = <<>> THEN "Done" ELSE "Allocate")
<1>1. /\ engine' = result.engine /\ placed' = Append(placed, e)
      /\ handlers' = Append(handlers, h)
      /\ UNCHANGED <<signedOrders, nextId, outbox, chain>>
  BY DEF PlaceOrder
<1>2. /\ engine \in Engines /\ placed \in Seq(PlacedOrder) /\ IsFiniteSet(FillsIn(placed))
      /\ \A id : TradedIn(placed, id) + InBook(engine, id) <= PlacedIn(placed, id)
  BY DEF VenueInv, BookInv
<1>3. PlacementKeeps(engine, order, result)
  BY <1>2, PlacementSound
<1> HIDE DEF result
<1>4. e \in PlacedOrder /\ e.order = order /\ e.fills = result.fills
  BY <1>3 DEF PlacementKeeps, PlacedOrder
<1> HIDE DEF e
<1>9. h \in HandlerType /\ HandlerFits(h, e.fills)
  BY <1>4, HandlerIs DEF PlacedOrder
<1> HIDE DEF h
<1>5. BookInv'
  <2>1. ASSUME NEW id
        PROVE  /\ IsFiniteSet(FillsIn(placed'))
               /\ TradedIn(placed', id) + InBook(engine', id) <= PlacedIn(placed', id)
    <3>1. /\ IsFiniteSet(FillsIn(placed'))
          /\ TradedIn(placed', id) = TradedIn(placed, id) + Traded(e.fills, id)
      BY <1>1, <1>2, <1>4, TradedGrows
    <3>2. /\ PlacedIn(placed, id) \in Nat
          /\ PlacedIn(placed', id)
               = PlacedIn(placed, id) + (IF e.order.id = id THEN e.order.quantity ELSE 0)
      BY <1>1, <1>2, <1>4, PlacedGrows
    <3>3. Own(order, id) = IF e.order.id = id THEN e.order.quantity ELSE 0
      BY <1>4, PlacementIs DEF Own
    <3>4. Traded(e.fills, id) + InBook(engine', id) <= InBook(engine, id) + Own(order, id)
      BY <1>1, <1>3, <1>4 DEF PlacementKeeps
    <3>5. /\ InBook(engine, id) \in Nat /\ InBook(engine', id) \in Nat
          /\ Traded(e.fills, id) \in Nat /\ Own(order, id) \in Nat
      <4>1. engine' \in Engines /\ e.fills \in Seq(VenueFill)
        BY <1>1, <1>3, <1>4 DEF PlacementKeeps
      <4>2. Own(order, id) \in Nat
        BY PlacementIs, OwnIsNat DEF Waiting
      <4> QED BY <1>2, <4>1, <4>2, BookIsNat, TradedIsNat
    <3>6. TradedIn(placed, id) \in Nat
      <4>1. \A x \in FillsIn(placed) : TradesIn(placed, id)[x] \in Nat
        BY <1>2, FillsAre DEF TradesIn, TradeOf, VenueFill
      <4> QED BY <1>2, <4>1, SumIsNat DEF TradedIn
    <3>7. TradedIn(placed, id) + InBook(engine, id) <= PlacedIn(placed, id)
      BY <1>2
    <3> QED BY <3>1, <3>2, <3>3, <3>4, <3>5, <3>6, <3>7
  <2>2. engine' \in Engines /\ placed' \in Seq(PlacedOrder)
    BY <1>1, <1>2, <1>3, <1>4 DEF PlacementKeeps
  <2> QED BY <2>1, <2>2 DEF BookInv
<1>6. ServiceInv'
  <2>1. PICK src : Sources(src, outbox, placed, handlers)
    BY DEF VenueInv, ServiceInv
  <2>2. /\ handlers \in Seq(HandlerType) /\ Len(handlers) = Len(placed)
        /\ \A n \in DOMAIN placed : HandlerFits(handlers[n], placed[n].fills)
    BY DEF VenueInv, ServiceInv
  <2>3. Sources(src, outbox', placed', handlers')
    BY <1>1, <1>2, <1>4, <1>9, <2>1, <2>2, SourcesKept
  <2>4. handlers' \in Seq(HandlerType) /\ Len(handlers') = Len(placed')
    BY <1>1, <1>2, <1>4, <1>9, <2>2
  <2>5. \A n \in DOMAIN placed' : HandlerFits(handlers'[n], placed'[n].fills)
    <3> TAKE n \in DOMAIN placed'
    <3>1. DOMAIN placed' = DOMAIN placed \cup {Len(placed) + 1}
      BY <1>1, <1>2, <1>4
    <3>2. CASE n \in DOMAIN placed
      <4>1. placed'[n] = placed[n] /\ handlers'[n] = handlers[n]
        BY <1>1, <1>2, <2>2, <3>2
      <4> QED BY <2>2, <3>2, <4>1
    <3>3. CASE n = Len(placed) + 1
      <4>1. placed'[n] = e /\ handlers'[n] = h
        BY <1>1, <1>2, <2>2, <3>3
      <4> QED BY <1>9, <4>1
    <3> QED BY <3>1, <3>2, <3>3
  <2> QED BY <1>1, <2>3, <2>4, <2>5 DEF VenueInv, ServiceInv
<1>7. ChainInv'
  BY <1>1, ChainKept DEF VenueInv, chain
<1> QED BY <1>5, <1>6, <1>7 DEF VenueInv

LEMMA RegisterStep ==
    ASSUME VenueInv, NEW p \in Payloads, RegisterSignedOrder(p)
    PROVE  VenueInv'
<1>1. /\ signedOrders' = [signedOrders EXCEPT ![p.order.id] = p]
      /\ UNCHANGED <<engine, placed, handlers, nextId, outbox, chain>>
  BY DEF RegisterSignedOrder
<1>2. BookInv'
  BY <1>1 DEF VenueInv, BookInv
<1>3. ServiceInv'
  BY <1>1 DEF VenueInv, ServiceInv
<1>4. ChainInv'
  BY <1>1, ChainKept DEF VenueInv, chain
<1> QED BY <1>2, <1>3, <1>4 DEF VenueInv

LEMMA RestartStep ==
    ASSUME VenueInv, Restart
    PROVE  VenueInv'
<1>1. /\ handlers' = [n \in DOMAIN handlers |-> Handler("Done")]
      /\ signedOrders' = [id \in OrderIds |-> Unsigned] /\ nextId' = 0
      /\ UNCHANGED <<engine, placed, outbox, chain>>
  BY DEF Restart
<1>2. BookInv'
  BY <1>1 DEF VenueInv, BookInv
<1>3. ServiceInv'
  <2>1. /\ handlers \in Seq(HandlerType) /\ Len(handlers) = Len(placed)
        /\ placed \in Seq(PlacedOrder)
    BY DEF VenueInv, ServiceInv, BookInv
  <2>2. ASSUME NEW n \in DOMAIN placed
        PROVE  /\ n \in DOMAIN handlers /\ handlers'[n] = Handler("Done")
               /\ HandlerFits(handlers'[n], placed[n].fills)
    <3>1. placed[n] \in PlacedOrder
      BY <2>1
    <3>2. n \in DOMAIN handlers /\ handlers'[n] = Handler("Done")
      BY <1>1, <2>1
    <3> QED BY <3>1, <3>2, HandlerIs DEF PlacedOrder
  <2>3. handlers' \in Seq(HandlerType) /\ Len(handlers') = Len(handlers)
    <3>1. Handler("Done") \in HandlerType
      BY DEF Handler, HandlerType
    <3>2. DOMAIN handlers = 1 .. Len(handlers) /\ Len(handlers) \in Nat
      BY <2>1
    <3> QED BY <1>1, <3>1, <3>2
  <2>4. PICK src : Sources(src, outbox, placed, handlers)
    BY DEF VenueInv, ServiceInv
  <2>5. Sources(src, outbox', placed', handlers')
    <3>1. ASSUME NEW r \in outbox PROVE Behind(handlers'[src[r][1]], src[r][2])
      <4>1. src[r][1] \in DOMAIN placed
        BY <2>1, <2>4, FillsAre DEF Sources
      <4>2. Handler("Done").step = "Done"
        BY DEF Handler
      <4> QED BY <2>2, <4>1, <4>2 DEF Behind
    <3> QED BY <1>1, <2>4, <3>1 DEF Sources
  <2> QED BY <1>1, <2>1, <2>2, <2>3, <2>5 DEF ServiceInv
<1>4. ChainInv'
  BY <1>1, ChainKept DEF VenueInv, chain
<1> QED BY <1>2, <1>3, <1>4 DEF VenueInv

\* What the bridge lets through comes from its fill.
LEMMA BridgeSound ==
    ASSUME NEW order, NEW fill \in VenueFill, NEW id \in Nat,
           NEW maker \in Payloads, maker.order.id = fill.maker,
           NEW taker \in Payloads \cup {Unsigned},
           taker # Unsigned => taker.order.id = fill.taker,
           CanBridge(order, fill, maker, taker)
    PROVE  /\ FromFill(RequestFrom(order, fill, maker, taker, id), fill)
           /\ RequestFrom(order, fill, maker, taker, id) \in Request
<1> DEFINE buy == PayloadOn("Bid", maker, taker)
           sell == PayloadOn("Ask", maker, taker)
           r == RequestFrom(order, fill, maker, taker, id)
<1>1. /\ taker # Unsigned /\ maker.order.side # taker.order.side
      /\ WithinPayloads(fill, (IF maker.order.side = "Bid" THEN maker ELSE taker).order,
                              (IF maker.order.side = "Bid" THEN taker ELSE maker).order)
  BY DEF CanBridge
<1>2. taker \in Payloads /\ taker.order.id = fill.taker
  BY <1>1
<1>3. maker.order.side \in Sides /\ taker.order.side \in Sides
  BY <1>2, PayloadsAssumption
<1>4. /\ buy = CHOOSE p \in {maker, taker} : p.order.side = "Bid"
      /\ sell = CHOOSE p \in {maker, taker} : p.order.side = "Ask"
  BY DEF PayloadOn
<1>5. /\ r.buy = buy /\ r.sell = sell /\ r.price = fill.price /\ r.quantity = fill.quantity
      /\ r = [id |-> id, buy |-> buy, sell |-> sell, price |-> fill.price,
              quantity |-> fill.quantity]
  BY DEF RequestFrom
<1> HIDE DEF buy, sell, r
<1>6. CASE maker.order.side = "Bid"
  <2>1. taker.order.side = "Ask"
    BY <1>1, <1>3, <1>6 DEF Sides
  <2>2. buy = maker /\ sell = taker
    BY <1>4, <1>6, <2>1
  <2>3. FromFill(r, fill)
    BY <1>1, <1>2, <1>5, <1>6, <2>1, <2>2 DEF FromFill
  <2>4. r \in Request
    BY <1>2, <1>5, <2>2 DEF Request, VenueFill
  <2> QED BY <2>3, <2>4 DEF r
<1>7. CASE maker.order.side # "Bid"
  <2>1. taker.order.side = "Bid" /\ maker.order.side = "Ask"
    BY <1>1, <1>3, <1>7 DEF Sides
  <2>2. buy = taker /\ sell = maker
    BY <1>4, <1>7, <2>1
  <2>3. FromFill(r, fill)
    BY <1>1, <1>2, <1>5, <1>7, <2>1, <2>2 DEF FromFill
  <2>4. r \in Request
    BY <1>2, <1>5, <2>2 DEF Request, VenueFill
  <2> QED BY <2>3, <2>4 DEF r
<1> QED BY <1>6, <1>7

\* What the invariant says of one handler.
LEMMA HandlerAt ==
    ASSUME VenueInv, NEW n \in DOMAIN placed
    PROVE  /\ n \in DOMAIN handlers /\ handlers[n] \in HandlerType
           /\ placed[n].fills \in Seq(VenueFill)
           /\ HandlerFits(handlers[n], placed[n].fills)
<1>1. /\ placed \in Seq(PlacedOrder) /\ handlers \in Seq(HandlerType)
      /\ Len(handlers) = Len(placed)
  BY DEF VenueInv, BookInv, ServiceInv
<1>2. placed[n] \in PlacedOrder /\ n \in DOMAIN handlers /\ handlers[n] \in HandlerType
  BY <1>1
<1> QED BY <1>2 DEF PlacedOrder, VenueInv, ServiceInv

\* A handler goes on to h without a row inserted.
LEMMA HandlerStep ==
    ASSUME VenueInv, NEW n \in DOMAIN placed,
           NEW h \in HandlerType, HandlerFits(h, placed[n].fills),
           handlers' = [handlers EXCEPT ![n] = h],
           h.step = "Done" \/ handlers[n].step \in {"Allocate", "Maker", "Taker"},
           nextId' \in Nat, UNCHANGED <<engine, placed, signedOrders, outbox, chain>>
    PROVE  VenueInv'
<1>1. /\ placed \in Seq(PlacedOrder) /\ handlers \in Seq(HandlerType)
      /\ Len(handlers) = Len(placed)
      /\ \A m \in DOMAIN placed : HandlerFits(handlers[m], placed[m].fills)
  BY DEF VenueInv, BookInv, ServiceInv
<1>2. /\ handlers' \in Seq(HandlerType) /\ Len(handlers') = Len(handlers)
      /\ handlers'[n] = h /\ \A m \in DOMAIN placed : m # n => handlers'[m] = handlers[m]
  BY <1>1
<1>3. \A m \in DOMAIN placed : HandlerFits(handlers'[m], placed[m].fills)
  BY <1>1, <1>2
<1>4. PICK src : Sources(src, outbox, placed, handlers)
  BY DEF VenueInv, ServiceInv
<1>5. ASSUME NEW r \in outbox PROVE Behind(handlers'[src[r][1]], src[r][2])
  <2>1. src[r][1] \in DOMAIN placed /\ Behind(handlers[src[r][1]], src[r][2])
    BY <1>1, <1>4, FillsAre DEF Sources
  <2>2. CASE src[r][1] = n
    BY <1>2, <2>1, <2>2 DEF Behind
  <2>3. CASE src[r][1] # n
    BY <1>2, <2>1, <2>3
  <2> QED BY <2>2, <2>3
<1>6. Sources(src, outbox', placed', handlers')
  BY <1>4, <1>5 DEF Sources
<1>7. BookInv'
  BY DEF VenueInv, BookInv
<1>8. ServiceInv'
  BY <1>1, <1>2, <1>3, <1>6 DEF VenueInv, ServiceInv
<1>9. ChainInv'
  BY ChainKept DEF VenueInv, chain
<1> QED BY <1>7, <1>8, <1>9 DEF VenueInv

LEMMA AllocateStep ==
    ASSUME VenueInv, NEW n \in DOMAIN placed, AllocateIds(n)
    PROVE  VenueInv'
<1> DEFINE h == [Handler("Maker") EXCEPT !.first = nextId]
<1>1. /\ handlers[n].step = "Allocate" /\ nextId' = nextId + Len(placed[n].fills)
      /\ handlers' = [handlers EXCEPT ![n] = h]
      /\ UNCHANGED <<engine, placed, signedOrders, outbox, chain>>
  BY DEF AllocateIds
<1>2. placed[n].fills \in Seq(VenueFill) /\ placed[n].fills # <<>> /\ nextId \in Nat
  BY <1>1, HandlerAt DEF HandlerFits, VenueInv, ServiceInv
<1>3. Handler("Maker") \in HandlerType /\ HandlerFits(Handler("Maker"), placed[n].fills)
  BY <1>2, HandlerIs
<1>4. h \in HandlerType
  BY <1>2, <1>3 DEF HandlerType
<1>5. /\ h.step = Handler("Maker").step /\ h.requests = Handler("Maker").requests
      /\ h.maker = Handler("Maker").maker /\ h.queued = Handler("Maker").queued
  BY DEF Handler
<1> HIDE DEF h
<1>6. HandlerFits(h, placed[n].fills)
  BY <1>3, <1>5 DEF HandlerFits
<1>7. nextId' \in Nat
  BY <1>1, <1>2
<1> QED BY <1>1, <1>4, <1>6, <1>7, HandlerStep

\* The fill that comes next, and whose payloads the store holds for it.
LEMMA NextFill ==
    ASSUME VenueInv, NEW n \in DOMAIN placed, handlers[n].step \in {"Maker", "Taker"}
    PROVE  /\ FillOf(n) \in VenueFill
           /\ FillOf(n) = placed[n].fills[Len(handlers[n].requests) + 1]
           /\ \A id \in {FillOf(n).maker, FillOf(n).taker} :
                 /\ signedOrders[id] \in Payloads \cup {Unsigned}
                 /\ signedOrders[id] # Unsigned => signedOrders[id].order.id = id
<1>1. /\ handlers[n] \in HandlerType /\ placed[n].fills \in Seq(VenueFill)
      /\ Len(handlers[n].requests) < Len(placed[n].fills)
  BY HandlerAt DEF HandlerFits
<1>2. Len(handlers[n].requests) \in Nat
  BY <1>1 DEF HandlerType
<1>3. FillOf(n) \in VenueFill
  BY <1>1, <1>2 DEF FillOf
<1>4. FillOf(n).maker \in OrderIds /\ FillOf(n).taker \in OrderIds
  BY <1>3 DEF VenueFill
<1> QED BY <1>3, <1>4 DEF FillOf, VenueInv, ServiceInv

LEMMA ReadMakerStep ==
    ASSUME VenueInv, NEW n \in DOMAIN placed, ReadMaker(n)
    PROVE  VenueInv'
<1> DEFINE g == handlers[n]
           maker == signedOrders[FillOf(n).maker]
           read == [g EXCEPT !.step = "Taker", !.maker = maker]
           h == IF maker = Unsigned THEN Handler("Done") ELSE read
<1>1. /\ g.step = "Maker" /\ handlers' = [handlers EXCEPT ![n] = h]
      /\ UNCHANGED <<engine, placed, signedOrders, nextId, outbox, chain>>
  BY HandlerAt DEF ReadMaker
<1>2. /\ g \in HandlerType /\ placed[n].fills \in Seq(VenueFill)
      /\ HandlerFits(g, placed[n].fills) /\ nextId \in Nat
  BY HandlerAt DEF VenueInv, ServiceInv
<1>3. /\ FillOf(n) = placed[n].fills[Len(g.requests) + 1]
      /\ maker \in Payloads \cup {Unsigned}
      /\ maker # Unsigned => maker.order.id = FillOf(n).maker
  BY <1>1, NextFill
<1> HIDE DEF maker, g
<1>4. h \in HandlerType /\ HandlerFits(h, placed[n].fills)
  <2>1. CASE maker = Unsigned
    BY <1>2, <2>1, HandlerIs
  <2>2. CASE maker # Unsigned
    <3>1. read \in HandlerType
      BY <1>2, <1>3 DEF HandlerType
    <3>2. /\ read.step = "Taker" /\ read.requests = g.requests
          /\ read.maker = maker /\ read.queued = g.queued
      BY <1>2 DEF HandlerType
    <3> HIDE DEF read
    <3>3. HandlerFits(read, placed[n].fills)
      BY <1>1, <1>2, <1>3, <2>2, <3>2 DEF HandlerFits
    <3> QED BY <2>2, <3>1, <3>3
  <2> QED BY <2>1, <2>2
<1> HIDE DEF h
<1> QED BY <1>1, <1>2, <1>4, HandlerStep DEF g

LEMMA ReadTakerStep ==
    ASSUME VenueInv, NEW n \in DOMAIN placed, ReadTaker(n)
    PROVE  VenueInv'
<1> DEFINE g == handlers[n]
           fills == placed[n].fills
           order == placed[n].order
           taker == signedOrders[FillOf(n).taker]
           k == Len(g.requests)
           request == RequestFrom(order, FillOf(n), g.maker, taker, g.first + k)
           step == IF k + 1 = Len(fills) THEN "Insert" ELSE "Maker"
           read == [g EXCEPT !.step = step, !.maker = Unsigned,
                             !.requests = Append(@, request)]
           bridged == CanBridge(order, FillOf(n), g.maker, taker)
           h == IF bridged THEN read ELSE Handler("Done")
<1>1. /\ g.step = "Taker" /\ handlers' = [handlers EXCEPT ![n] = h]
      /\ UNCHANGED <<engine, placed, signedOrders, nextId, outbox, chain>>
  BY DEF ReadTaker
<1>2. /\ g \in HandlerType /\ fills \in Seq(VenueFill) /\ HandlerFits(g, fills)
      /\ nextId \in Nat
  BY HandlerAt DEF VenueInv, ServiceInv
<1>3. /\ FillOf(n) \in VenueFill /\ FillOf(n) = fills[k + 1]
      /\ taker \in Payloads \cup {Unsigned}
      /\ taker # Unsigned => taker.order.id = FillOf(n).taker
  BY <1>1, NextFill
<1>4. /\ g.requests \in Seq(Request) /\ k \in Nat /\ k < Len(fills) /\ Len(fills) \in Nat
      /\ g.first \in Nat /\ g.maker \in Payloads /\ g.maker.order.id = FillOf(n).maker
      /\ \A i \in 1 .. k : FromFill(g.requests[i], fills[i])
      /\ g.queued = 0
  BY <1>1, <1>2, <1>3 DEF HandlerType, HandlerFits
<1> HIDE DEF g, fills, order, taker
<1>5. CASE bridged
  <2>1. FromFill(request, fills[k + 1]) /\ request \in Request
    <3>1. g.first + k \in Nat
      BY <1>4
    <3> QED BY <1>3, <1>4, <1>5, <3>1, BridgeSound
  <2> HIDE DEF request
  <2> DEFINE all == Append(g.requests, request)
  <2>2. /\ all \in Seq(Request) /\ Len(all) = k + 1 /\ all[k + 1] = request
        /\ \A i \in 1 .. k : all[i] = g.requests[i]
    BY <1>4, <2>1
  <2> HIDE DEF k, all
  <2>3. /\ read \in HandlerType /\ read.step = step /\ read.requests = all
        /\ read.queued = 0
    BY <1>2, <1>4, <2>2 DEF HandlerType, all
  <2> HIDE DEF read
  <2>4. HandlerFits(read, fills)
    <3>1. \A i \in 1 .. Len(all) : FromFill(all[i], fills[i])
      <4> TAKE i \in 1 .. Len(all)
      <4>1. i \in 1 .. k \/ i = k + 1
        BY <1>4, <2>2
      <4> QED BY <1>4, <2>1, <2>2, <4>1
    <3> QED BY <1>4, <2>2, <2>3, <3>1 DEF HandlerFits
  <2> QED BY <1>1, <1>2, <1>5, <2>3, <2>4, HandlerStep DEF g, fills
<1>6. CASE ~bridged
  <2>1. h \in HandlerType /\ HandlerFits(h, fills)
    BY <1>2, <1>6, HandlerIs
  <2> HIDE DEF h
  <2> QED BY <1>1, <1>2, <2>1, HandlerStep DEF g, fills
<1> QED BY <1>5, <1>6

LEMMA InsertFailsStep ==
    ASSUME VenueInv, NEW n \in DOMAIN placed, InsertFails(n)
    PROVE  VenueInv'
<1> DEFINE h == Handler("Done")
<1>1. /\ handlers' = [handlers EXCEPT ![n] = h]
      /\ UNCHANGED <<engine, placed, signedOrders, nextId, outbox, chain>>
  BY DEF InsertFails
<1>2. h \in HandlerType /\ HandlerFits(h, placed[n].fills)
  BY HandlerAt, HandlerIs
<1>3. h.step = "Done" /\ nextId \in Nat
  BY DEF Handler, VenueInv, ServiceInv
<1> HIDE DEF h
<1> QED BY <1>1, <1>2, <1>3, HandlerStep

\* A row is inserted: its fill is the next one of its placement, which no other
\* row comes from.
LEMMA InsertRowStep ==
    ASSUME VenueInv, NEW n \in DOMAIN placed, InsertRow(n)
    PROVE  VenueInv'
<1> DEFINE g == handlers[n]
           fills == placed[n].fills
           i == g.queued + 1
           new == g.requests[i]
           h == Inserted(g, "Done")
<1>1. /\ g.step = "Insert" /\ outbox' = outbox \cup {new}
      /\ handlers' = [handlers EXCEPT ![n] = h]
      /\ UNCHANGED <<engine, placed, signedOrders, nextId, chain>>
  BY DEF InsertRow
<1>2. /\ g \in HandlerType /\ fills \in Seq(VenueFill) /\ HandlerFits(g, fills)
      /\ nextId \in Nat
  BY HandlerAt DEF VenueInv, ServiceInv
<1>3. /\ g.requests \in Seq(Request) /\ g.queued \in Nat
      /\ g.queued < Len(g.requests) /\ Len(g.requests) <= Len(fills)
      /\ Len(g.requests) \in Nat /\ Len(fills) \in Nat
      /\ \A j \in 1 .. Len(g.requests) : FromFill(g.requests[j], fills[j])
  BY <1>1, <1>2 DEF HandlerType, HandlerFits
<1>4. /\ i \in Nat /\ i \in 1 .. Len(g.requests) /\ i \in DOMAIN fills
      /\ FromFill(new, fills[i])
  <2>1. i \in Nat /\ i \in 1 .. Len(g.requests) /\ i \in 1 .. Len(fills)
    BY <1>3
  <2>2. DOMAIN fills = 1 .. Len(fills)
    BY <1>2
  <2> QED BY <1>3, <2>1, <2>2
<1>5. /\ h \in HandlerType /\ HandlerFits(h, fills)
      /\ h.step = "Done" \/ (h.step = "Insert" /\ h.queued = i)
  <2>1. CASE i = Len(g.requests)
    <3>1. h = Handler("Done") /\ Handler("Done").step = "Done"
      BY <2>1 DEF Inserted, Handler
    <3> HIDE DEF h
    <3> QED BY <1>2, <3>1, HandlerIs
  <2>2. CASE i # Len(g.requests)
    <3>1. h = [g EXCEPT !.queued = i]
      BY <2>2 DEF Inserted
    <3> HIDE DEF h
    <3>2. /\ h \in HandlerType /\ h.step = "Insert" /\ h.queued = i
          /\ h.requests = g.requests
      BY <1>1, <1>2, <1>4, <3>1 DEF HandlerType
    <3>3. HandlerFits(h, fills)
      BY <1>1, <1>2, <1>3, <1>4, <2>2, <3>2 DEF HandlerFits
    <3> QED BY <3>2, <3>3
  <2> QED BY <2>1, <2>2
<1> HIDE DEF h, new, i
<1>6. /\ placed \in Seq(PlacedOrder) /\ handlers \in Seq(HandlerType)
      /\ Len(handlers) = Len(placed)
      /\ \A m \in DOMAIN placed : HandlerFits(handlers[m], placed[m].fills)
  BY DEF VenueInv, BookInv, ServiceInv
<1>7. /\ handlers' \in Seq(HandlerType) /\ Len(handlers') = Len(handlers)
      /\ handlers'[n] = h /\ \A m \in DOMAIN placed : m # n => handlers'[m] = handlers[m]
  BY <1>1, <1>5, <1>6
<1>8. PICK src : Sources(src, outbox, placed, handlers)
  BY DEF VenueInv, ServiceInv
<1> DEFINE src2 == [r \in outbox \cup {new} |-> IF r \in outbox THEN src[r] ELSE <<n, i>>]
<1>9. ASSUME NEW r \in outbox
      PROVE  /\ src2[r] = src[r] /\ src[r] \in FillsIn(placed) /\ src[r] # <<n, i>>
             /\ Behind(handlers'[src[r][1]], src[r][2])
             /\ FromFill(r, FillIn(placed, src[r]))
  <2>1. /\ src[r] \in FillsIn(placed) /\ FromFill(r, FillIn(placed, src[r]))
        /\ Behind(handlers[src[r][1]], src[r][2])
    BY <1>8 DEF Sources
  <2>2. src[r][1] \in DOMAIN placed /\ src[r][2] \in DOMAIN placed[src[r][1]].fills
    BY <1>6, <2>1, FillsAre
  <2>3. CASE src[r][1] = n
    <3>1. src[r][2] <= g.queued /\ src[r][2] \in Nat
      <4>1. src[r][2] \in DOMAIN fills /\ DOMAIN fills = 1 .. Len(fills)
        BY <1>2, <2>2, <2>3
      <4> QED BY <1>1, <1>3, <2>1, <2>3, <4>1 DEF Behind
    <3>2. src[r][2] < i /\ src[r][2] <= i
      BY <1>3, <3>1 DEF i
    <3>3. src[r] # <<n, i>>
      BY <1>4, <3>1, <3>2
    <3>4. Behind(handlers'[src[r][1]], src[r][2])
      BY <1>5, <1>7, <2>3, <3>2 DEF Behind
    <3> QED BY <2>1, <3>3, <3>4
  <2>4. CASE src[r][1] # n
    <3>1. src[r] # <<n, i>>
      BY <2>4
    <3> QED BY <1>7, <2>1, <2>2, <2>4, <3>1
  <2> QED BY <2>3, <2>4
<1>10. /\ <<n, i>> \in FillsIn(placed) /\ Behind(handlers'[n], i)
       /\ FromFill(new, FillIn(placed, <<n, i>>))
  <2>1. <<n, i>> \in FillsIn(placed)
    BY <1>4 DEF FillsIn
  <2>2. Behind(handlers'[n], i)
    BY <1>4, <1>5, <1>7 DEF Behind
  <2> QED BY <1>4, <2>1, <2>2 DEF FillIn
<1>11. new \notin outbox => src2[new] = <<n, i>>
  OBVIOUS
<1> HIDE DEF src2
<1>12. Sources(src2, outbox', placed, handlers')
  <2>1. \A r, s \in outbox : src[r] = src[s] => r = s
    BY <1>8 DEF Sources
  <2>2. ASSUME NEW r \in outbox', NEW s \in outbox', src2[r] = src2[s] PROVE r = s
    BY <1>1, <1>9, <1>11, <2>1, <2>2
  <2>3. ASSUME NEW r \in outbox'
        PROVE  /\ src2[r] \in FillsIn(placed) /\ Behind(handlers'[src2[r][1]], src2[r][2])
               /\ FromFill(r, FillIn(placed, src2[r]))
    <3>1. CASE r \in outbox
      BY <1>9, <3>1
    <3>2. CASE r \notin outbox
      <4>1. r = new /\ src2[r] = <<n, i>>
        BY <1>1, <1>11, <3>2
      <4> QED BY <1>10, <4>1
    <3> QED BY <3>1, <3>2
  <2> QED BY <2>2, <2>3 DEF Sources
<1>13. BookInv'
  BY <1>1 DEF VenueInv, BookInv
<1>14. ServiceInv'
  <2>1. \A m \in DOMAIN placed : HandlerFits(handlers'[m], placed[m].fills)
    BY <1>5, <1>6, <1>7
  <2> QED BY <1>1, <1>6, <1>7, <1>12, <2>1 DEF VenueInv, ServiceInv
<1>15. ChainInv'
  BY <1>1, ChainKept DEF VenueInv, chain
<1> QED BY <1>13, <1>14, <1>15 DEF VenueInv

-----------------------------------------------------------------------------
(* The steps of the chain.                                                  *)

LEMMA ChainStep ==
    ASSUME VenueInv, TraderStep \/ ClockStep \/ UNCHANGED vars
    PROVE  VenueInv'
<1>1. UNCHANGED service /\ receipts' = receipts /\ filled' = filled /\ slot' \in Int
  <2>1. slot \in Int
    BY DEF VenueInv, ChainInv
  <2>2. CASE TraderStep
    BY <2>1, <2>2 DEF TraderStep, CancelStep, Chain!CustodyStep, Chain!Deposit, Chain!Withdraw,
                      Chain!CancelSignedOrder, Chain!settlement
  <2>3. CASE ClockStep
    BY <2>1, <2>3 DEF ClockStep, Chain!AdvanceSlot, Chain!settlement
  <2>4. CASE UNCHANGED vars
    BY <2>1, <2>4 DEF vars, chain
  <2> QED BY <2>2, <2>3, <2>4
<1>2. UNCHANGED <<engine, placed, handlers, signedOrders, nextId, outbox>>
  BY <1>1 DEF service
<1>3. BookInv'
  BY <1>2 DEF VenueInv, BookInv
<1>4. ServiceInv'
  BY <1>2 DEF VenueInv, ServiceInv
<1>5. ChainInv'
  <2>1. /\ slot' \in Int /\ receipts' = receipts /\ filled' = filled /\ outbox' = outbox
    BY <1>1, <1>2
  <2> QED BY <2>1 DEF VenueInv, ChainInv
<1> QED BY <1>3, <1>4, <1>5 DEF VenueInv

\* What a fill gives a request.
LEMMA RequestIs ==
    ASSUME VenueInv, NEW src, Sources(src, outbox, placed, handlers), NEW r \in outbox
    PROVE  /\ src[r] \in Fills /\ FillAt(src[r]) \in VenueFill
           /\ FromFill(r, FillAt(src[r]))
           /\ r.buy.order \in Orders /\ r.sell.order \in Orders
           /\ r.quantity \in Nat /\ r.price \in Nat
<1>1. src[r] \in FillsIn(placed) /\ FromFill(r, FillIn(placed, src[r]))
  BY DEF Sources
<1>2. FillIn(placed, src[r]) \in VenueFill
  BY <1>1, FillsAre DEF VenueInv, BookInv
<1>3. Fills = FillsIn(placed) /\ FillAt(src[r]) = FillIn(placed, src[r])
  BY DEF Fills, FillsIn, FillAt, FillIn
<1>4. r.quantity \in Nat /\ r.price \in Nat
  BY <1>1, <1>2, PricesAssumption DEF FromFill, VenueFill
<1>5. r.buy.order \in Orders /\ r.sell.order \in Orders
  BY <1>1, PayloadsAssumption DEF FromFill
<1> QED BY <1>1, <1>2, <1>3, <1>4, <1>5

LEMMA SettledIdsFinite ==
    ASSUME NEW R
    PROVE  IsFiniteSet(SettledIn(R)) /\ \A o : IsFiniteSet(SettledOf(R, o))
<1>1. IsFiniteSet(AllSettlementIds)
  BY BoundsAssumption, FS_Interval DEF AllSettlementIds
<1>2. SettledIn(R) \in SUBSET AllSettlementIds /\ \A o : SettledOf(R, o) \in SUBSET AllSettlementIds
  BY DEF SettledIn, SettledOf
<1> QED BY <1>1, <1>2, FS_Subset

\* A receipt under a fresh id joins the receipts of the orders it names, and
\* of no other.
LEMMA ReceiptJoins ==
    ASSUME NEW R, R = [id \in AllSettlementIds |-> R[id]],
           \A i \in SettledIn(R) : R[i].base \in Nat,
           NEW id \in AllSettlementIds, R[id] = Chain!NoReceipt,
           NEW c, c # Chain!NoReceipt, c.base \in Nat,
           NEW Q, Q = [R EXCEPT ![id] = c]
    PROVE  /\ Q = [i \in AllSettlementIds |-> Q[i]]
           /\ SettledIn(Q) = SettledIn(R) \cup {id} /\ id \notin SettledIn(R)
           /\ Q[id] = c /\ \A i \in SettledIn(R) : Q[i] = R[i]
           /\ \A o : FilledBy(Q, o) = FilledBy(R, o) + (IF o \in c.orders THEN c.base ELSE 0)
<1>1. /\ Q = [i \in AllSettlementIds |-> Q[i]] /\ Q[id] = c
      /\ \A i \in AllSettlementIds : i # id => Q[i] = R[i]
  OBVIOUS
<1>2. /\ SettledIn(Q) = SettledIn(R) \cup {id} /\ id \notin SettledIn(R)
      /\ \A i \in SettledIn(R) : Q[i] = R[i]
  BY <1>1 DEF SettledIn
<1>3. ASSUME NEW o
      PROVE  FilledBy(Q, o) = FilledBy(R, o) + (IF o \in c.orders THEN c.base ELSE 0)
  <2> DEFINE S == SettledOf(R, o)
             T == SettledOf(Q, o)
             f == BasesOf(R, o)
             g == BasesOf(Q, o)
  <2>1. IsFiniteSet(S) /\ id \notin S /\ T = IF o \in c.orders THEN S \cup {id} ELSE S
    BY <1>1, <1>2, SettledIdsFinite DEF SettledOf
  <2>2. \A i \in S : f[i] \in Nat /\ g[i] = f[i]
    BY <1>2, <2>1 DEF BasesOf, SettledOf
  <2>3. o \in c.orders => (g[id] = c.base /\ g[id] \in Nat)
    BY <1>1, <2>1 DEF BasesOf
  <2>4. FilledBy(R, o) = SumFunctionOnSet(f, S) /\ FilledBy(Q, o) = SumFunctionOnSet(g, T)
    BY DEF FilledBy
  <2> HIDE DEF S, T, f, g
  <2>5. SumFunctionOnSet(g, S) = SumFunctionOnSet(f, S) /\ SumFunctionOnSet(f, S) \in Nat
    <3>1. \A i \in S : g[i] = f[i]
      BY <2>2
    <3>2. SumFunctionOnSet(g, S) = SumFunctionOnSet(f, S)
      BY <2>1, <3>1, SumCongruent
    <3>3. SumFunctionOnSet(f, S) \in Nat
      BY <2>1, <2>2, SumIsNat
    <3> QED BY <3>2, <3>3
  <2>6. CASE o \in c.orders
    <3>1. \A i \in S \cup {id} : g[i] \in Int
      BY <2>2, <2>3, <2>6
    <3>2. SumFunctionOnSet(g, S \cup {id}) = g[id] + SumFunctionOnSet(g, S)
      BY <2>1, <3>1, SumAdd
    <3> QED BY <2>1, <2>3, <2>4, <2>5, <2>6, <3>2
  <2>7. CASE o \notin c.orders
    BY <2>1, <2>4, <2>5, <2>7
  <2> QED BY <2>6, <2>7
<1> QED BY <1>1, <1>2, <1>3

\* The amounts of the receipts.
LEMMA BasesAreNat ==
    ASSUME VenueInv
    PROVE  \A id \in SettledIn(receipts) :
              /\ receipts[id].base \in Nat /\ receipts[id].quote \in Nat
              /\ \E r \in outbox : Recorded(receipts, id, r)
<1> SUFFICES ASSUME NEW id \in SettledIn(receipts)
             PROVE  /\ receipts[id].base \in Nat /\ receipts[id].quote \in Nat
                    /\ \E r \in outbox : Recorded(receipts, id, r)
  OBVIOUS
<1>1. PICK r \in outbox : Recorded(receipts, id, r)
  BY DEF VenueInv, ChainInv, Receipted
<1>2. PICK src : Sources(src, outbox, placed, handlers)
  BY DEF VenueInv, ServiceInv
<1>3. r.quantity \in Nat /\ r.price \in Nat
  BY <1>2, RequestIs
<1>4. r.price * r.quantity \in Nat
  BY <1>3
<1> QED BY <1>1, <1>3, <1>4 DEF Recorded

LEMMA SubmitStep ==
    ASSUME VenueInv, NEW r \in outbox, Submit(r)
    PROVE  VenueInv'
<1> DEFINE buy == r.buy.order
           sell == r.sell.order
           c == Chain!Receipt(buy.trader, sell.trader, {buy}, {sell}, r.quantity,
                              r.price * r.quantity)
<1>1. /\ r.id \in AllSettlementIds /\ receipts[r.id] = Chain!NoReceipt
      /\ receipts' = [receipts EXCEPT ![r.id] = c]
      /\ filled' = [filled EXCEPT ![buy] = @ + r.quantity, ![sell] = @ + r.quantity]
      /\ buy.side = "Bid" /\ sell.side = "Ask" /\ slot' = slot
      /\ UNCHANGED service
  BY DEF Submit, Chain!SettleSignedFill, Chain!FreshReceipt, Chain!Filled,
         Chain!SignedFillAllowed
<1>2. UNCHANGED <<engine, placed, handlers, signedOrders, nextId, outbox>>
  BY <1>1 DEF service
<1>3. buy # sell
  BY <1>1
<1>4. PICK src : Sources(src, outbox, placed, handlers)
  BY DEF VenueInv, ServiceInv
<1>5. r.quantity \in Nat /\ buy \in Orders /\ sell \in Orders
  BY <1>4, RequestIs
<1>6. /\ c # Chain!NoReceipt /\ c.base = r.quantity /\ c.orders = {buy, sell}
      /\ c.quote = r.price * r.quantity
  <2>1. DOMAIN c # DOMAIN Chain!NoReceipt
    BY DEF Chain!Receipt, Chain!NoReceipt
  <2>2. /\ c.base = r.quantity /\ c.orders = {buy} \cup {sell} /\ c.quote = r.price * r.quantity
    BY DEF Chain!Receipt
  <2> QED BY <2>1, <2>2
<1> HIDE DEF c, buy, sell
<1>7. /\ receipts' = [i \in AllSettlementIds |-> receipts'[i]]
      /\ SettledIn(receipts') = SettledIn(receipts) \cup {r.id}
      /\ receipts'[r.id] = c /\ \A i \in SettledIn(receipts) : receipts'[i] = receipts[i]
      /\ \A o : FilledBy(receipts', o)
                  = FilledBy(receipts, o) + (IF o \in c.orders THEN c.base ELSE 0)
  <2>1. receipts = [id \in AllSettlementIds |-> receipts[id]]
    BY DEF VenueInv, ChainInv
  <2>2. \A i \in SettledIn(receipts) : receipts[i].base \in Nat
    BY BasesAreNat
  <2>3. c.base \in Nat
    BY <1>5, <1>6
  <2> DEFINE R == receipts
             Q == receipts'
             id == r.id
  <2>4. /\ R = [i \in AllSettlementIds |-> R[i]] /\ (\A i \in SettledIn(R) : R[i].base \in Nat)
        /\ id \in AllSettlementIds /\ R[id] = Chain!NoReceipt /\ Q = [R EXCEPT ![id] = c]
    BY <1>1, <2>1, <2>2
  <2> HIDE DEF R, Q, id
  <2>5. /\ Q = [i \in AllSettlementIds |-> Q[i]]
        /\ SettledIn(Q) = SettledIn(R) \cup {id}
        /\ Q[id] = c /\ \A i \in SettledIn(R) : Q[i] = R[i]
        /\ \A o : FilledBy(Q, o) = FilledBy(R, o) + (IF o \in c.orders THEN c.base ELSE 0)
    BY <1>6, <2>3, <2>4, ReceiptJoins
  <2> QED BY <2>5 DEF R, Q, id
<1>8. BookInv'
  BY <1>2 DEF VenueInv, BookInv
<1>9. ServiceInv'
  BY <1>2 DEF VenueInv, ServiceInv
<1>10. Receipted(receipts', outbox')
  <2> SUFFICES ASSUME NEW i \in SettledIn(receipts')
               PROVE  \E q \in outbox' : Recorded(receipts', i, q)
    BY DEF Receipted
  <2>1. CASE i \in SettledIn(receipts)
    BY <1>2, <1>7, <2>1 DEF VenueInv, ChainInv, Receipted, Recorded
  <2>2. CASE i = r.id
    <3>1. Recorded(receipts', i, r)
      BY <1>6, <1>7, <2>2 DEF Recorded, buy, sell
    <3> QED BY <1>2, <3>1
  <2> QED BY <1>7, <2>1, <2>2
<1>11. filled' \in [Orders -> Nat] /\ \A o \in Orders : filled'[o] = FilledBy(receipts', o)
  <2>1. filled \in [Orders -> Nat] /\ \A o \in Orders : filled[o] = FilledBy(receipts, o)
    BY DEF VenueInv, ChainInv
  <2>2. filled' \in [Orders -> Nat]
    BY <1>1, <1>5, <2>1
  <2>3. \A o \in Orders : filled'[o] = filled[o] + (IF o \in {buy, sell} THEN r.quantity ELSE 0)
    BY <1>1, <1>3, <1>5, <2>1
  <2> QED BY <1>6, <1>7, <2>1, <2>2, <2>3
<1>12. ChainInv'
  <2>1. slot' \in Int
    BY <1>1 DEF VenueInv, ChainInv
  <2> QED BY <1>7, <1>10, <1>11, <2>1 DEF ChainInv
<1> QED BY <1>8, <1>9, <1>12 DEF VenueInv

LEMMA NextVenue == VenueInv /\ [Next]_vars => VenueInv'
<1> SUFFICES ASSUME VenueInv, [Next]_vars PROVE VenueInv'
  OBVIOUS
<1>1. CASE \E order \in Placements : PlaceOrder(order)
  BY <1>1, PlaceStep
<1>2. CASE \E p \in Payloads : RegisterSignedOrder(p)
  BY <1>2, RegisterStep
<1>3. CASE \E n \in DOMAIN placed : QueueSettlementRequests(n)
  BY <1>3, AllocateStep, ReadMakerStep, ReadTakerStep, InsertRowStep, InsertFailsStep
     DEF QueueSettlementRequests
<1>4. CASE Restart
  BY <1>4, RestartStep
<1>5. CASE \E r \in outbox : Submit(r)
  BY <1>5, SubmitStep
<1>6. CASE TraderStep \/ ClockStep \/ UNCHANGED vars
  BY <1>6, ChainStep
<1> QED BY <1>1, <1>2, <1>3, <1>4, <1>5, <1>6 DEF Next

\* What has been traded under an order id, what rests, what the outbox asks
\* for and what the chain has recorded fit together in every reachable state.
LEMMA VenueInvHolds == Spec => []VenueInv
BY InitVenue, NextVenue, PTL DEF Spec

-----------------------------------------------------------------------------
(* The chain within the book.                                               *)

\* The receipts that name some order, each with the request it records, and
\* the fills those requests come from: two receipts never share a fill.
RequestOf(id) == CHOOSE r \in outbox : Recorded(receipts, id, r)

LEMMA ReceiptsFromFills ==
    ASSUME VenueInv, NEW src, Sources(src, outbox, placed, handlers)
    PROVE  /\ \A id \in SettledIn(receipts) :
                 /\ RequestOf(id) \in outbox /\ Recorded(receipts, id, RequestOf(id))
                 /\ src[RequestOf(id)] \in Fills
                 /\ FillAt(src[RequestOf(id)]) \in VenueFill
                 /\ FromFill(RequestOf(id), FillAt(src[RequestOf(id)]))
           /\ \A i, j \in SettledIn(receipts) :
                 src[RequestOf(i)] = src[RequestOf(j)] => i = j
<1>1. ASSUME NEW id \in SettledIn(receipts)
      PROVE  RequestOf(id) \in outbox /\ Recorded(receipts, id, RequestOf(id))
  <2>1. \E r \in outbox : Recorded(receipts, id, r)
    BY BasesAreNat
  <2> QED BY <2>1 DEF RequestOf
<1>2. ASSUME NEW id \in SettledIn(receipts)
      PROVE  /\ src[RequestOf(id)] \in Fills
             /\ FillAt(src[RequestOf(id)]) \in VenueFill
             /\ FromFill(RequestOf(id), FillAt(src[RequestOf(id)]))
  BY <1>1, RequestIs
<1>3. ASSUME NEW i \in SettledIn(receipts), NEW j \in SettledIn(receipts),
             src[RequestOf(i)] = src[RequestOf(j)]
      PROVE  i = j
  <2>1. RequestOf(i) = RequestOf(j)
    BY <1>1, <1>3 DEF Sources
  <2> QED BY <1>1, <2>1 DEF Recorded
<1> QED BY <1>1, <1>2, <1>3

\* Sums over receipts against sums over the fills they come from.
LEMMA ReceiptsWithinFills ==
    ASSUME VenueInv, NEW S, S \subseteq SettledIn(receipts), NEW T, T \subseteq Fills,
           NEW src, Sources(src, outbox, placed, handlers),
           \A id \in S : src[RequestOf(id)] \in T
    PROVE  /\ SumFunctionOnSet([id \in S |-> receipts[id].base], S)
                <= SumFunctionOnSet([x \in T |-> FillAt(x).quantity], T)
           /\ SumFunctionOnSet([id \in S |-> receipts[id].quote], S)
                <= SumFunctionOnSet([x \in T |-> FillAt(x).price * FillAt(x).quantity], T)
<1> DEFINE f == [id \in S |-> receipts[id].base]
           g == [x \in T |-> FillAt(x).quantity]
           fq == [id \in S |-> receipts[id].quote]
           gq == [x \in T |-> FillAt(x).price * FillAt(x).quantity]
           h == [id \in S |-> src[RequestOf(id)]]
<1>1. IsFiniteSet(S) /\ IsFiniteSet(T)
  <2>1. Fills = FillsIn(placed) /\ IsFiniteSet(FillsIn(placed))
    BY DEF Fills, FillsIn, VenueInv, BookInv
  <2> QED BY <2>1, SettledIdsFinite, FS_Subset
<1>2. \A x \in T : FillAt(x) \in VenueFill
  <2>1. \A x \in Fills : FillAt(x) \in VenueFill
    BY FillsAre DEF Fills, FillsIn, FillAt, FillIn, VenueInv, BookInv
  <2> QED BY <2>1
<1>3. \A x \in T : g[x] \in Nat /\ gq[x] \in Nat
  <2> TAKE x \in T
  <2>1. FillAt(x).price \in Nat /\ FillAt(x).quantity \in Nat
    BY <1>2, PricesAssumption DEF VenueFill
  <2>2. FillAt(x).price * FillAt(x).quantity \in Nat
    BY <2>1
  <2> QED BY <2>1, <2>2
<1>4. \A id \in S : f[id] \in Nat /\ fq[id] \in Nat
  BY BasesAreNat
<1>5. ASSUME NEW id \in S
      PROVE  h[id] \in T /\ f[id] = g[h[id]] /\ fq[id] = gq[h[id]]
  <2>1. /\ Recorded(receipts, id, RequestOf(id))
        /\ FromFill(RequestOf(id), FillAt(src[RequestOf(id)]))
    BY ReceiptsFromFills
  <2>2. h[id] = src[RequestOf(id)] /\ h[id] \in T
    OBVIOUS
  <2>3. /\ receipts[id].base = FillAt(h[id]).quantity
        /\ receipts[id].quote = FillAt(h[id]).price * FillAt(h[id]).quantity
    BY <2>1, <2>2 DEF Recorded, FromFill
  <2> HIDE DEF h
  <2> QED BY <2>2, <2>3
<1>6. \A i, j \in S : h[i] = h[j] => i = j
  BY ReceiptsFromFills
<1> HIDE DEF f, g, fq, gq, h
<1>7. SumFunctionOnSet(f, S) <= SumFunctionOnSet(g, T)
  <2>1. /\ \A id \in S : f[id] \in Nat
        /\ \A x \in T : g[x] \in Nat
        /\ \A id \in S : h[id] \in T /\ f[id] <= g[h[id]]
    BY <1>3, <1>4, <1>5
  <2> QED BY <1>1, <1>6, <2>1, SumInjection
<1>8. SumFunctionOnSet(fq, S) <= SumFunctionOnSet(gq, T)
  <2>1. /\ \A id \in S : fq[id] \in Nat
        /\ \A x \in T : gq[x] \in Nat
        /\ \A id \in S : h[id] \in T /\ fq[id] <= gq[h[id]]
    BY <1>3, <1>4, <1>5
  <2> QED BY <1>1, <1>6, <2>1, SumInjection
<1> QED BY <1>7, <1>8 DEF f, g, fq, gq

LEMMA WithinBook == VenueInv => ChainWithinBook
<1> SUFFICES ASSUME VenueInv, NEW a \in OrderIds, NEW b \in OrderIds
             PROVE
        /\ SumFunction([id \in ReceiptsBetween(a, b) |-> receipts[id].base])
           <= SumFunction([x \in FillsBetween(a, b) |-> FillAt(x).quantity])
        /\ SumFunction([id \in ReceiptsBetween(a, b) |-> receipts[id].quote])
           <= SumFunction([x \in FillsBetween(a, b) |-> FillAt(x).price * FillAt(x).quantity])
  BY DEF ChainWithinBook
<1> DEFINE S == ReceiptsBetween(a, b)
           T == FillsBetween(a, b)
<1>1. PICK src : Sources(src, outbox, placed, handlers)
  BY DEF VenueInv, ServiceInv
<1>2. S \subseteq SettledIn(receipts) /\ T \subseteq Fills
  BY DEF ReceiptsBetween, FillsBetween, SettledIn, Chain!Settled
<1>3. ASSUME NEW id \in S PROVE src[RequestOf(id)] \in T
  <2> DEFINE r == RequestOf(id)
             x == src[r]
  <2>1. /\ Recorded(receipts, id, r) /\ x \in Fills /\ FromFill(r, FillAt(x))
    BY <1>1, <1>2, ReceiptsFromFills
  <2> HIDE DEF r, x
  <2>2. {o.id : o \in receipts[id].orders} = {a, b}
    BY DEF ReceiptsBetween
  <2>3. {o.id : o \in receipts[id].orders} = {r.buy.order.id, r.sell.order.id}
    BY <2>1 DEF Recorded
  <2>4. {FillAt(x).maker, FillAt(x).taker} = {a, b}
    BY <2>1, <2>2, <2>3 DEF FromFill
  <2> QED BY <2>1, <2>4 DEF FillsBetween, r, x
<1> HIDE DEF S, T
<1>4. /\ SumFunctionOnSet([id \in S |-> receipts[id].base], S)
           <= SumFunctionOnSet([x \in T |-> FillAt(x).quantity], T)
      /\ SumFunctionOnSet([id \in S |-> receipts[id].quote], S)
           <= SumFunctionOnSet([x \in T |-> FillAt(x).price * FillAt(x).quantity], T)
  BY <1>1, <1>2, <1>3, ReceiptsWithinFills
<1>5. /\ SumFunction([id \in S |-> receipts[id].base])
           = SumFunctionOnSet([id \in S |-> receipts[id].base], S)
      /\ SumFunction([x \in T |-> FillAt(x).quantity])
           = SumFunctionOnSet([x \in T |-> FillAt(x).quantity], T)
      /\ SumFunction([id \in S |-> receipts[id].quote])
           = SumFunctionOnSet([id \in S |-> receipts[id].quote], S)
      /\ SumFunction([x \in T |-> FillAt(x).price * FillAt(x).quantity])
           = SumFunctionOnSet([x \in T |-> FillAt(x).price * FillAt(x).quantity], T)
  BY DEF SumFunction
<1> QED BY <1>4, <1>5 DEF S, T

\* Whatever is resubmitted, registered anew or numbered again after a restart,
\* the settlements between two orders move no more than the fills the engine
\* made between them (place_order, queue_settlement_requests, settle_signed_fill).
THEOREM ChainWithinBookHolds == Spec => []ChainWithinBook
BY VenueInvHolds, WithinBook, PTL

-----------------------------------------------------------------------------
(* Requests with good payloads need only funds.                             *)

LEMMA PlacedIsNat ==
    ASSUME NEW P \in Seq(PlacedOrder), NEW id
    PROVE  PlacedIn(P, id) \in Nat
<1> DEFINE U == PlacedUnder(P, id)
           u == QuantitiesUnder(P, id)
<1>1. DOMAIN P = 1 .. Len(P) /\ Len(P) \in Nat
  OBVIOUS
<1>2. U \in SUBSET (1 .. Len(P))
  BY <1>1 DEF PlacedUnder
<1>3. IsFiniteSet(1 .. Len(P))
  BY <1>1, FS_Interval
<1>4. \A n \in U : u[n] \in Nat
  <2> TAKE n \in U
  <2>1. P[n] \in PlacedOrder
    BY DEF PlacedUnder
  <2>2. P[n].order.quantity \in Nat
    BY <2>1, PlacementIs DEF PlacedOrder
  <2> QED BY <2>2 DEF QuantitiesUnder
<1> HIDE DEF U, u
<1>5. IsFiniteSet(U)
  BY <1>2, <1>3, FS_Subset
<1> QED BY <1>4, <1>5, SumIsNat DEF PlacedIn, U, u

\* What has been settled for an order and a request not settled yet come from
\* different fills of its order id, and these are within what was placed.
LEMMA RequestFits ==
    ASSUME VenueInv, NEW r \in outbox, receipts[r.id] = Chain!NoReceipt,
           NEW o \in {r.buy.order, r.sell.order}
    PROVE  filled[o] + r.quantity <= PlacedQuantity(o.id)
<1> DEFINE S == SettledOf(receipts, o)
           S2 == S \cup {r.id}
           T == FillsIn(placed)
           f == [id \in S2 |-> IF id = r.id THEN r.quantity ELSE receipts[id].base]
           b == BasesOf(receipts, o)
           g == TradesIn(placed, o.id)
<1>1. PICK src : Sources(src, outbox, placed, handlers)
  BY DEF VenueInv, ServiceInv
<1> DEFINE h == [id \in S2 |-> IF id = r.id THEN src[r] ELSE src[RequestOf(id)]]
<1>2. /\ src[r] \in Fills /\ FillAt(src[r]) \in VenueFill /\ FromFill(r, FillAt(src[r]))
      /\ o \in Orders /\ r.quantity \in Nat
  BY <1>1, RequestIs
<1>3. /\ IsFiniteSet(S) /\ S \subseteq SettledIn(receipts) /\ r.id \notin S
  BY SettledIdsFinite DEF SettledOf, SettledIn
<1>4. IsFiniteSet(S2) /\ IsFiniteSet(T)
  BY <1>3, FS_AddElement DEF VenueInv, BookInv
<1>5. Fills = T /\ \A x : FillAt(x) = FillIn(placed, x)
  BY DEF Fills, FillsIn, FillAt, FillIn
<1>6. \A x \in T : FillAt(x) \in VenueFill /\ g[x] = TradeOf(FillAt(x), o.id) /\ g[x] \in Nat
  BY <1>5, FillsAre DEF VenueInv, BookInv, TradesIn, TradeOf, VenueFill
<1>7. \A id \in S : /\ f[id] = receipts[id].base /\ f[id] \in Nat /\ b[id] = f[id]
                    /\ h[id] = src[RequestOf(id)]
  BY <1>3, BasesAreNat DEF BasesOf
<1>8. f[r.id] = r.quantity /\ h[r.id] = src[r]
  OBVIOUS
<1> HIDE DEF f, h
<1>9. ASSUME NEW q, NEW x \in T, FromFill(q, FillAt(x)), o \in {q.buy.order, q.sell.order}
      PROVE  g[x] = q.quantity
  BY <1>6, <1>9 DEF FromFill, TradeOf
<1>10. ASSUME NEW id \in S
       PROVE  h[id] \in T /\ f[id] = g[h[id]] /\ h[id] # src[r]
  <2> DEFINE q == RequestOf(id)
  <2>1. /\ Recorded(receipts, id, q) /\ src[q] \in Fills /\ q \in outbox
        /\ FromFill(q, FillAt(src[q]))
    BY <1>1, <1>3, ReceiptsFromFills
  <2> HIDE DEF q
  <2>2. o \in {q.buy.order, q.sell.order} /\ f[id] = q.quantity
    BY <1>7, <2>1 DEF Recorded, SettledOf
  <2>3. src[q] \in T /\ g[src[q]] = q.quantity
    BY <1>5, <1>9, <2>1, <2>2
  <2>4. q # r
    BY <1>3, <2>1 DEF Recorded
  <2>5. src[q] # src[r]
    BY <1>1, <2>1, <2>4 DEF Sources
  <2> QED BY <1>7, <2>2, <2>3, <2>5 DEF q
<1>11. src[r] \in T /\ g[src[r]] = r.quantity
  BY <1>2, <1>5, <1>9
<1>12. \A i, j \in S2 : h[i] = h[j] => i = j
  <2>1. \A i, j \in S : h[i] = h[j] => i = j
    BY <1>1, <1>3, <1>7, ReceiptsFromFills
  <2> QED BY <1>8, <1>10, <2>1
<1> HIDE DEF S, T, g
<1>13. SumFunctionOnSet(f, S2) <= SumFunctionOnSet(g, T)
  <2>1. /\ \A id \in S2 : f[id] \in Nat
        /\ \A x \in T : g[x] \in Nat
        /\ \A id \in S2 : h[id] \in T /\ f[id] <= g[h[id]]
    <3>1. \A id \in S2 : f[id] \in Nat
      BY <1>2, <1>7, <1>8
    <3>2. \A id \in S2 : h[id] \in T /\ f[id] = g[h[id]]
      BY <1>8, <1>10, <1>11
    <3> QED BY <1>6, <3>1, <3>2
  <2> HIDE DEF S2
  <2> QED BY <1>4, <1>12, <2>1, SumInjection
<1>14. SumFunctionOnSet(f, S2) = r.quantity + SumFunctionOnSet(f, S)
  <2>1. \A id \in S \cup {r.id} : f[id] \in Int
    BY <1>2, <1>7, <1>8
  <2>2. SumFunctionOnSet(f, S \cup {r.id}) = f[r.id] + SumFunctionOnSet(f, S)
    BY <1>3, <2>1, SumAdd
  <2> QED BY <1>8, <2>2
<1>15. SumFunctionOnSet(f, S) = filled[o] /\ filled[o] \in Nat
  <2>1. SumFunctionOnSet(f, S) = SumFunctionOnSet(b, S)
    <3> HIDE DEF b
    <3> QED BY <1>3, <1>7, SumCongruent
  <2>2. filled[o] = FilledBy(receipts, o) /\ filled[o] \in Nat
    BY <1>2 DEF VenueInv, ChainInv
  <2> QED BY <2>1, <2>2 DEF FilledBy, S
<1>16. SumFunctionOnSet(g, T) <= PlacedQuantity(o.id)
  <2>1. SumFunctionOnSet(g, T) = TradedIn(placed, o.id)
    BY DEF TradedIn, g, T
  <2>2. PlacedQuantity(o.id) = PlacedIn(placed, o.id)
    BY DEF PlacedQuantity, PlacedIn, QuantitiesUnder, PlacedUnder, SumFunction
  <2>3. TradedIn(placed, o.id) + InBook(engine, o.id) <= PlacedIn(placed, o.id)
    BY DEF VenueInv, BookInv
  <2>4. InBook(engine, o.id) \in Nat
    BY BookIsNat DEF VenueInv, BookInv
  <2>5. TradedIn(placed, o.id) \in Nat
    BY <1>4, <1>6, <2>1, SumIsNat
  <2>6. PlacedIn(placed, o.id) \in Int
    BY PlacedIsNat DEF VenueInv, BookInv
  <2> QED BY <2>1, <2>2, <2>3, <2>4, <2>5, <2>6
<1>17. /\ SumFunctionOnSet(f, S2) \in Int /\ SumFunctionOnSet(g, T) \in Int
  <2>1. SumFunctionOnSet(f, S2) \in Int
    BY <1>2, <1>14, <1>15
  <2>2. SumFunctionOnSet(g, T) \in Int
    BY <1>4, <1>6, SumIsInt
  <2> QED BY <2>1, <2>2
<1>18. PlacedQuantity(o.id) \in Int
  <2>1. PlacedQuantity(o.id) = PlacedIn(placed, o.id)
    BY DEF PlacedQuantity, PlacedIn, QuantitiesUnder, PlacedUnder, SumFunction
  <2> QED BY <2>1, PlacedIsNat DEF VenueInv, BookInv
<1> QED BY <1>2, <1>13, <1>14, <1>15, <1>16, <1>17, <1>18

LEMMA SignaturesGood ==
    ASSUME NEW r, StillGood(r.buy), StillGood(r.sell)
    PROVE  SignaturesVerify(r)
<1> DEFINE t == TransactionOf(r)
<1>1. Len(t) = 5 /\ t[5 - 2] = Ed25519(r.buy) /\ t[5 - 1] = Ed25519(r.sell)
  BY DEF TransactionOf
<1>2. /\ Ed25519(r.buy).program = "Ed25519" /\ Ed25519(r.buy).order = r.buy.order
      /\ Ed25519(r.buy).signer = r.buy.order.trader /\ Ed25519(r.buy).verifies = r.buy.signed
      /\ Ed25519(r.sell).program = "Ed25519" /\ Ed25519(r.sell).order = r.sell.order
      /\ Ed25519(r.sell).signer = r.sell.order.trader /\ Ed25519(r.sell).verifies = r.sell.signed
  BY DEF Ed25519
<1>3. /\ r.buy.signed /\ r.sell.signed
      /\ r.buy.hash = r.buy.order /\ r.sell.hash = r.sell.order
  BY DEF StillGood
<1> HIDE DEF t
<1>4. SignedAt(t, 2, r.buy.order) /\ SignedAt(t, 1, r.sell.order)
  BY <1>1, <1>2, <1>3 DEF SignedAt
<1> QED BY <1>3, <1>4 DEF SignaturesVerify, t

\* What a request says of its two orders.
LEMMA RequestWithin ==
    ASSUME VenueInv, NEW r \in outbox
    PROVE  /\ r.buy.order \in Orders /\ r.sell.order \in Orders
           /\ r.price \in Nat /\ r.quantity \in Nat /\ slot \in Int
           /\ \A o \in {r.buy.order, r.sell.order} :
                 {o.id, o.price, o.quantity, o.nonce, o.expiry} \subseteq Nat
           /\ r.buy.order.side = "Bid" /\ r.sell.order.side = "Ask"
           /\ r.price <= r.buy.order.price /\ r.price >= r.sell.order.price
           /\ r.quantity <= r.buy.order.quantity /\ r.quantity <= r.sell.order.quantity
<1>1. PICK src : Sources(src, outbox, placed, handlers)
  BY DEF VenueInv, ServiceInv
<1>2. /\ FromFill(r, FillAt(src[r])) /\ r.buy.order \in Orders /\ r.sell.order \in Orders
      /\ r.price \in Nat /\ r.quantity \in Nat
  BY <1>1, RequestIs
<1>3. /\ r.buy.order.side = "Bid" /\ r.sell.order.side = "Ask"
      /\ r.price <= r.buy.order.price /\ r.price >= r.sell.order.price
      /\ r.quantity <= r.buy.order.quantity /\ r.quantity <= r.sell.order.quantity
  BY <1>2 DEF FromFill, WithinPayloads
<1>4. slot \in Int
  BY DEF VenueInv, ChainInv
<1>5. \A o \in {r.buy.order, r.sell.order} :
         {o.id, o.price, o.quantity, o.nonce, o.expiry} \subseteq Nat
  BY <1>2, PayloadsAssumption
<1> QED BY <1>2, <1>3, <1>4, <1>5

LEMMA GoodNeedFunds == VenueInv => GoodRequestsNeedOnlyFunds
<1> SUFFICES ASSUME VenueInv, NEW r \in outbox,
                    Chain!FreshReceipt(r.id), StillGood(r.buy), StillGood(r.sell),
                    r.buy.trader # r.sell.trader
             PROVE  /\ SignaturesVerify(r)
                    /\ Chain!SignedFillAllowed(r.buy.order, r.sell.order, r.price, r.quantity)
                    /\ Chain!CanFill(r.buy.order, r.quantity)
                    /\ Chain!CanFill(r.sell.order, r.quantity)
  BY DEF GoodRequestsNeedOnlyFunds
<1> DEFINE buy == r.buy.order
           sell == r.sell.order
<1>1. SignaturesVerify(r)
  BY SignaturesGood
<1>2. /\ buy.trader # sell.trader /\ slot <= buy.expiry /\ slot <= sell.expiry
      /\ Chain!WellFormed(buy) /\ Chain!WellFormed(sell)
      /\ buy \notin cancelled /\ sell \notin cancelled
      /\ buy.quantity >= PlacedQuantity(buy.id) /\ sell.quantity >= PlacedQuantity(sell.id)
  BY DEF StillGood
<1>3. /\ buy \in Orders /\ sell \in Orders /\ r.price \in Nat /\ r.quantity \in Nat
      /\ buy.side = "Bid" /\ sell.side = "Ask"
      /\ buy.price \in Nat /\ sell.price \in Nat
      /\ buy.quantity \in Nat /\ sell.quantity \in Nat
      /\ r.price <= buy.price /\ r.price >= sell.price
      /\ r.quantity <= buy.quantity /\ r.quantity <= sell.quantity
  BY RequestWithin
<1>4. /\ filled[buy] + r.quantity <= PlacedQuantity(buy.id)
      /\ filled[sell] + r.quantity <= PlacedQuantity(sell.id)
  <2>1. receipts[r.id] = Chain!NoReceipt
    BY DEF Chain!FreshReceipt
  <2> QED BY <2>1, RequestFits
<1>5. /\ filled[buy] \in Nat /\ filled[sell] \in Nat
      /\ PlacedQuantity(buy.id) \in Nat /\ PlacedQuantity(sell.id) \in Nat
  <2>1. \A id : PlacedQuantity(id) = PlacedIn(placed, id)
    BY DEF PlacedQuantity, PlacedIn, QuantitiesUnder, PlacedUnder, SumFunction
  <2>2. filled[buy] \in Nat /\ filled[sell] \in Nat
    BY <1>3 DEF VenueInv, ChainInv
  <2> QED BY <2>1, <2>2, PlacedIsNat DEF VenueInv, BookInv
<1> HIDE DEF buy, sell
<1>6. Chain!SignedFillAllowed(buy, sell, r.price, r.quantity)
  <2>1. buy.price >= sell.price
    BY <1>3
  <2> QED BY <1>2, <1>3, <2>1 DEF Chain!SignedFillAllowed
<1>7. Chain!CanFill(buy, r.quantity) /\ Chain!CanFill(sell, r.quantity)
  BY <1>2, <1>3, <1>4, <1>5 DEF Chain!CanFill
<1> QED BY <1>1, <1>6, <1>7 DEF buy, sell

LEMMA RulesAgree == VenueInv => DomainRuleAgrees
<1> SUFFICES ASSUME VenueInv, NEW r \in outbox,
                    Chain!WellFormed(r.buy.order), Chain!WellFormed(r.sell.order),
                    (r.buy.trader = r.sell.trader)
                       <=> (r.buy.order.trader = r.sell.order.trader)
             PROVE  ValidateSignedFill(r.buy, r.sell, r.price, r.quantity)
                    <=> Chain!SignedFillAllowed(r.buy.order, r.sell.order, r.price, r.quantity)
  BY DEF DomainRuleAgrees
<1> DEFINE buy == r.buy.order
           sell == r.sell.order
<1>1. /\ r.price \in Nat /\ r.quantity \in Nat /\ slot \in Int
      /\ buy.price \in Nat /\ buy.quantity \in Nat /\ buy.expiry \in Nat
      /\ sell.price \in Nat /\ sell.quantity \in Nat /\ sell.expiry \in Nat
  BY RequestWithin
<1>2. /\ Chain!WellFormed(buy) /\ Chain!WellFormed(sell)
      /\ (r.buy.trader = r.sell.trader) <=> (buy.trader = sell.trader)
  OBVIOUS
<1>3. ValidateSignedFill(r.buy, r.sell, r.price, r.quantity)
        <=> /\ buy.side = "Bid" /\ sell.side = "Ask" /\ r.buy.trader # r.sell.trader
            /\ ~(slot > buy.expiry \/ slot > sell.expiry)
            /\ ~(buy.price < sell.price)
            /\ ~(r.price > buy.price \/ r.price < sell.price)
            /\ ~(r.quantity > buy.quantity \/ r.quantity > sell.quantity)
  BY DEF ValidateSignedFill
<1> HIDE DEF buy, sell
<1>4. Chain!SignedFillAllowed(buy, sell, r.price, r.quantity)
        <=> /\ buy.side = "Bid" /\ sell.side = "Ask" /\ buy.trader # sell.trader
            /\ slot <= buy.expiry /\ slot <= sell.expiry
            /\ buy.price >= sell.price
            /\ r.price <= buy.price /\ r.price >= sell.price
            /\ r.quantity <= buy.quantity /\ r.quantity <= sell.quantity
  BY <1>2 DEF Chain!SignedFillAllowed
<1> QED BY <1>1, <1>2, <1>3, <1>4 DEF buy, sell

\* A request with an unused id and payloads still good for all that was placed
\* passes all the program checks but the balances (bid_ask_orders,
\* validate_fill, settle_signed_fill_handler, apply_fill_state).
THEOREM GoodRequestsNeedOnlyFundsHolds == Spec => []GoodRequestsNeedOnlyFunds
BY VenueInvHolds, GoodNeedFunds, PTL

\* validate_signed_fill of the domain crate decides of every such request as
\* validate_signed_fill_rules of the program does.
THEOREM DomainRuleAgreesHolds == Spec => []DomainRuleAgrees
BY VenueInvHolds, RulesAgree, PTL
=============================================================================
