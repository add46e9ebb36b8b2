-------------------------- MODULE StablecoinProofs --------------------------
(* The issuer: rotation is final, the supply is accounted for and covers    *)
(* the tokens. Redemption: the vault counts what the requests say, and the  *)
(* admin log tells every decision and every admin. Both implement lab 10's  *)
(* models. Proved for any keys, accounts, amounts, caps, limits and bounds. *)
EXTENDS Stablecoin, Sums, TLAPS

\* A step of the cluster is a step of each program or leaves it alone.
LEMMA StablecoinSteps ==
  ASSUME [StablecoinNext]_allVars
  PROVE  [Next]_vars /\ [Desk!Next]_redemptionVars
  BY DEF StablecoinNext, IssuerStep, RedemptionStep, allVars, issuerVars, redemptionVars

-----------------------------------------------------------------------------
(* The issuer.                                                              *)

Issuer ==
    [limit : Nat, paused : BOOLEAN, outstanding : Nat, minted : Nat, burned : Nat]

\* What an issuer has outstanding never goes below zero: checked_sub.
IssuerTypes == issuers \in [Authorities -> Issuer \cup {NoIssuer}]

LEMMA AmountsAreNat ==
  /\ \A a \in Amounts : a \in Nat
  /\ \A l \in Limits : l \in Nat
  BY AmountsAssumption

LEMMA IssuersExist ==
  ASSUME NEW i \in Issuer
  PROVE  i # NoIssuer
<1>1. i.limit \in Nat /\ i.limit # -1
  BY DEF Issuer
<1>2. NoIssuer.limit = -1
  BY DEF NoIssuer
<1> QED BY <1>1, <1>2

LEMMA RegisteredIsIssuer ==
  ASSUME IssuerTypes, NEW k \in Authorities
  PROVE  Registered(k) <=> issuers[k] \in Issuer
  BY IssuersExist DEF IssuerTypes, Registered

\* The three ways a record of an issuer is rewritten.
LEMMA RetiredRecord ==
  ASSUME NEW i \in Issuer
  PROVE  LET next == [i EXCEPT !.limit = 0, !.paused = TRUE]
         IN  /\ next \in Issuer /\ next.limit = 0
             /\ next.outstanding = i.outstanding /\ next.minted = i.minted
             /\ next.burned = i.burned
<1>1. ASSUME NEW a \in Nat, NEW b \in BOOLEAN
      PROVE  [i EXCEPT !.limit = a, !.paused = b] \in Issuer
  BY <1>1 DEF Issuer
<1>2. [i EXCEPT !.limit = 0, !.paused = TRUE] \in Issuer
  BY <1>1
<1> QED BY <1>2 DEF Issuer

LEMMA MintedRecord ==
  ASSUME NEW i \in Issuer, NEW amount \in Nat
  PROVE  LET next == [i EXCEPT !.outstanding = @ + amount, !.minted = @ + amount]
         IN  /\ next \in Issuer /\ next.limit = i.limit
             /\ next.outstanding = i.outstanding + amount
             /\ next.minted = i.minted + amount /\ next.burned = i.burned
<1>1. ASSUME NEW a \in Nat, NEW b \in Nat
      PROVE  [i EXCEPT !.outstanding = a, !.minted = b] \in Issuer
  BY <1>1 DEF Issuer
<1>2. i.outstanding + amount \in Nat /\ i.minted + amount \in Nat
  BY DEF Issuer
<1>3. [i EXCEPT !.outstanding = @ + amount, !.minted = @ + amount] \in Issuer
  BY <1>1, <1>2
<1> QED BY <1>3 DEF Issuer

LEMMA BurnedRecord ==
  ASSUME NEW i \in Issuer, NEW amount \in Nat, i.outstanding >= amount
  PROVE  LET next == [i EXCEPT !.outstanding = @ - amount, !.burned = @ + amount]
         IN  /\ next \in Issuer /\ next.limit = i.limit
             /\ next.outstanding = i.outstanding - amount /\ next.minted = i.minted
             /\ next.burned = i.burned + amount
<1>1. ASSUME NEW a \in Nat, NEW b \in Nat
      PROVE  [i EXCEPT !.outstanding = a, !.burned = b] \in Issuer
  BY <1>1 DEF Issuer
<1>2. i.outstanding - amount \in Nat /\ i.burned + amount \in Nat
  BY DEF Issuer
<1>3. [i EXCEPT !.outstanding = @ - amount, !.burned = @ + amount] \in Issuer
  BY <1>1, <1>2
<1> QED BY <1>3 DEF Issuer

\* What an instruction may do to the issuers: create one, pause one, copy one
\* to a new key and retire the old, mint within the limit, or burn.
LEMMA IssuerSteps ==
  ASSUME IssuerTypes, [Next]_vars
  PROVE  \/ UNCHANGED issuers
         \/ \E s \in Admins, k \in Authorities, limit \in Limits : RegisterIssuer(s, k,
               limit)
         \/ \E s \in Admins, k \in Authorities, paused \in BOOLEAN :
               SetIssuerPaused(s, k, paused)
         \/ \E s \in Admins, old, new \in Authorities : RotateIssuerAuthority(s, old, new)
         \/ \E k \in Authorities, t \in TokenAccounts, amount \in Amounts :
               MintToUser(k, t, amount) \/ BurnFromUser(k, t, amount)
  BY DEF Next, vars, ledger, InitializeProtocol, CreateStablecoinMint, OpenTokenAccount,
     CloseTokenAccount, TransferTokens, BurnOwnTokens

\* What one step does to the issuer k, when it is registered.
Kept(k) ==
    /\ issuers'[k] \in Issuer
    /\ (issuers[k] \in Issuer /\ issuers[k].limit = 0) =>
          /\ issuers'[k].limit = 0
          /\ issuers'[k].outstanding <= issuers[k].outstanding
          /\ issuers'[k].minted = issuers[k].minted

LEMMA RegisterKeeps ==
  ASSUME IssuerTypes, NEW s \in Admins, NEW j \in Authorities, NEW limit \in Limits,
         RegisterIssuer(s, j, limit)
  PROVE  IssuerTypes' /\ \A k \in Authorities : Registered(k) => Kept(k)
<1> DEFINE fresh == [limit |-> limit, paused |-> FALSE,
                     outstanding |-> 0, minted |-> 0, burned |-> 0]
<1>1. fresh \in Issuer
  BY AmountsAreNat DEF Issuer
<1>2. issuers' = [issuers EXCEPT ![j] = fresh] /\ ~Registered(j)
  BY DEF RegisterIssuer
<1> HIDE DEF fresh
<1>3. IssuerTypes'
  BY <1>1, <1>2 DEF IssuerTypes
<1>4. ASSUME NEW k \in Authorities, Registered(k)
      PROVE  Kept(k)
  <2>1. issuers'[k] = issuers[k] /\ issuers[k] \in Issuer
    BY <1>2, <1>4, RegisteredIsIssuer DEF IssuerTypes
  <2> QED BY <2>1 DEF Kept, Issuer
<1> QED BY <1>3, <1>4

\* A step that rewrites one registered issuer keeps it if its new record does.
LEMMA OneIssuerKept ==
  ASSUME IssuerTypes, NEW j \in Authorities, issuers[j] \in Issuer,
         NEW next \in Issuer, issuers' = [issuers EXCEPT ![j] = next],
         issuers[j].limit = 0 =>
             /\ next.limit = 0
             /\ next.outstanding <= issuers[j].outstanding
             /\ next.minted = issuers[j].minted
  PROVE  IssuerTypes' /\ \A k \in Authorities : Registered(k) => Kept(k)
<1>1. IssuerTypes'
  BY DEF IssuerTypes
<1>2. ASSUME NEW k \in Authorities, Registered(k)
      PROVE  Kept(k)
  <2>1. issuers[k] \in Issuer
    BY <1>2, RegisteredIsIssuer
  <2>2. CASE k = j
    <3>1. issuers'[k] = next
      BY <2>2 DEF IssuerTypes
    <3> QED BY <2>1, <2>2, <3>1 DEF Kept
  <2>3. CASE k # j
    <3>1. issuers'[k] = issuers[k]
      BY <2>3 DEF IssuerTypes
    <3> QED BY <2>1, <3>1 DEF Kept, Issuer
  <2> QED BY <2>2, <2>3
<1> QED BY <1>1, <1>2

LEMMA PauseKeeps ==
  ASSUME IssuerTypes, NEW s \in Admins, NEW j \in Authorities, NEW paused \in BOOLEAN,
         SetIssuerPaused(s, j, paused)
  PROVE  IssuerTypes' /\ \A k \in Authorities : Registered(k) => Kept(k)
<1> DEFINE next == [issuers[j] EXCEPT !.paused = paused]
<1>1. issuers[j] \in Issuer
  BY RegisteredIsIssuer DEF SetIssuerPaused
<1>2. /\ next \in Issuer /\ next.limit = issuers[j].limit
      /\ next.outstanding = issuers[j].outstanding /\ next.minted = issuers[j].minted
  BY <1>1 DEF Issuer
<1>3. next.outstanding <= issuers[j].outstanding
  BY <1>1, <1>2 DEF Issuer
<1>4. issuers' = [issuers EXCEPT ![j] = next]
  BY DEF SetIssuerPaused
<1> HIDE DEF next
<1> QED BY <1>1, <1>2, <1>3, <1>4, OneIssuerKept

\* An issuer that may mint nothing mints nothing.
LEMMA MintKeeps ==
  ASSUME IssuerTypes, NEW j \in Authorities, NEW t \in TokenAccounts,
         NEW amount \in Amounts, MintToUser(j, t, amount)
  PROVE  IssuerTypes' /\ \A k \in Authorities : Registered(k) => Kept(k)
<1> DEFINE next == [issuers[j] EXCEPT !.outstanding = @ + amount, !.minted = @ + amount]
<1>1. issuers[j] \in Issuer
  BY RegisteredIsIssuer DEF MintToUser, MayOperate
<1>2. amount \in Nat
  BY AmountsAreNat
<1>3. /\ next \in Issuer /\ next.limit = issuers[j].limit
      /\ next.outstanding = issuers[j].outstanding + amount
      /\ next.minted = issuers[j].minted + amount
  BY <1>1, <1>2, MintedRecord
<1>4. /\ issuers[j].limit \in Nat /\ issuers[j].outstanding \in Nat
      /\ issuers[j].minted \in Nat
  BY <1>1 DEF Issuer
<1>5. issuers[j].limit = 0 => amount = 0
  BY <1>2, <1>4 DEF MintToUser, WithinLimits
<1>6. issuers' = [issuers EXCEPT ![j] = next]
  BY DEF MintToUser
<1> HIDE DEF next
<1>7. issuers[j].limit = 0 =>
         /\ next.limit = 0
         /\ next.outstanding <= issuers[j].outstanding
         /\ next.minted = issuers[j].minted
  BY <1>3, <1>4, <1>5
<1> QED BY <1>1, <1>3, <1>6, <1>7, OneIssuerKept

LEMMA BurnKeeps ==
  ASSUME IssuerTypes, NEW j \in Authorities, NEW t \in TokenAccounts,
         NEW amount \in Amounts, BurnFromUser(j, t, amount)
  PROVE  IssuerTypes' /\ \A k \in Authorities : Registered(k) => Kept(k)
<1> DEFINE next == [issuers[j] EXCEPT !.outstanding = @ - amount, !.burned = @ + amount]
<1>1. issuers[j] \in Issuer
  BY RegisteredIsIssuer DEF BurnFromUser, MayOperate
<1>2. amount \in Nat
  BY AmountsAreNat
<1>3. issuers[j].outstanding >= amount
  BY DEF BurnFromUser
<1>4. /\ next \in Issuer /\ next.limit = issuers[j].limit
      /\ next.outstanding = issuers[j].outstanding - amount
      /\ next.minted = issuers[j].minted
  BY <1>1, <1>2, <1>3, BurnedRecord
<1>5. next.outstanding <= issuers[j].outstanding
  BY <1>1, <1>2, <1>4 DEF Issuer
<1>6. issuers' = [issuers EXCEPT ![j] = next]
  BY DEF BurnFromUser
<1> HIDE DEF next
<1> QED BY <1>1, <1>4, <1>5, <1>6, OneIssuerKept

\* The new key was not registered; the old one is retired if it was not yet.
LEMMA RotateKeeps ==
  ASSUME IssuerTypes, NEW s \in Admins, NEW old \in Authorities, NEW new \in Authorities,
         RotateIssuerAuthority(s, old, new)
  PROVE  IssuerTypes' /\ \A k \in Authorities : Registered(k) => Kept(k)
<1> DEFINE retired == [issuers[old] EXCEPT !.limit = 0, !.paused = TRUE]
<1>1. issuers[old] \in Issuer /\ old # new /\ ~Registered(new)
  BY RegisteredIsIssuer DEF RotateIssuerAuthority
<1>2. /\ retired \in Issuer /\ retired.limit = 0
      /\ retired.outstanding = issuers[old].outstanding
      /\ retired.minted = issuers[old].minted
      /\ retired.outstanding <= issuers[old].outstanding
  <2>1. /\ retired \in Issuer /\ retired.limit = 0
        /\ retired.outstanding = issuers[old].outstanding
        /\ retired.minted = issuers[old].minted
    BY <1>1, RetiredRecord
  <2>2. issuers[old].outstanding \in Nat
    BY <1>1 DEF Issuer
  <2> QED BY <2>1, <2>2
<1>3. /\ issuers'[old] = retired
      /\ issuers'[new] = issuers[old]
      /\ \A k \in Authorities \ {old, new} : issuers'[k] = issuers[k]
      /\ issuers' = [k \in Authorities |-> issuers'[k]]
  BY <1>1 DEF RotateIssuerAuthority, IssuerTypes
<1> HIDE DEF retired
<1>4. IssuerTypes'
  <2>1. \A k \in Authorities : issuers'[k] \in Issuer \cup {NoIssuer}
    BY <1>1, <1>2, <1>3 DEF IssuerTypes
  <2> QED BY <1>3, <2>1 DEF IssuerTypes
<1>5. ASSUME NEW k \in Authorities, Registered(k)
      PROVE  Kept(k)
  <2>1. issuers[k] \in Issuer /\ k # new
    BY <1>1, <1>5, RegisteredIsIssuer
  <2>2. CASE k = old
    BY <1>2, <1>3, <2>2 DEF Kept
  <2>3. CASE k # old
    <3>1. issuers'[k] = issuers[k]
      BY <1>3, <2>1, <2>3
    <3> QED BY <2>1, <3>1 DEF Kept, Issuer
  <2> QED BY <2>2, <2>3
<1> QED BY <1>4, <1>5

LEMMA IssuersKept ==
  ASSUME IssuerTypes, [Next]_vars
  PROVE  IssuerTypes' /\ \A k \in Authorities : Registered(k) => Kept(k)
<1>1. CASE UNCHANGED issuers
  <2>1. IssuerTypes'
    BY <1>1 DEF IssuerTypes
  <2>2. ASSUME NEW k \in Authorities, Registered(k)
        PROVE  Kept(k)
    <3>1. issuers'[k] = issuers[k] /\ issuers[k] \in Issuer
      BY <1>1, <2>2, RegisteredIsIssuer
    <3> QED BY <3>1 DEF Kept, Issuer
  <2> QED BY <2>1, <2>2
<1>2. CASE \E s \in Admins, k \in Authorities, limit \in Limits : RegisterIssuer(s, k,
         limit)
  BY <1>2, RegisterKeeps
<1>3. CASE \E s \in Admins, k \in Authorities, paused \in BOOLEAN :
              SetIssuerPaused(s, k, paused)
  BY <1>3, PauseKeeps
<1>4. CASE \E s \in Admins, old, new \in Authorities : RotateIssuerAuthority(s, old, new)
  BY <1>4, RotateKeeps
<1>5. CASE \E k \in Authorities, t \in TokenAccounts, amount \in Amounts :
              MintToUser(k, t, amount) \/ BurnFromUser(k, t, amount)
  BY <1>5, MintKeeps, BurnKeeps
<1> QED BY <1>1, <1>2, <1>3, <1>4, <1>5, IssuerSteps

-----------------------------------------------------------------------------
(* The supply implements lab 10's model of issuance. Before the mint is     *)
(* created nothing is minted, so creating it, which writes the statistics   *)
(* anew, is no step of the model.                                           *)

Protocol == [admin : Admins, cap : 0 .. MaxAmount, paused : BOOLEAN, mint : BOOLEAN]
Supply == [current : Nat, minted : Nat, burned : Nat]

SupplyInv ==
    /\ IssuerTypes
    /\ protocol \in Protocol \cup {NoProtocol}
    /\ supply \in Supply
    /\ (protocol = NoProtocol \/ ~protocol.mint) => supply = NoSupply

LEMMA ProtocolsExist ==
  ASSUME NEW p \in Protocol
  PROVE  p # NoProtocol
<1>1. "cap" \in DOMAIN p
  BY DEF Protocol
<1>2. "cap" \notin DOMAIN NoProtocol
  BY DEF NoProtocol
<1> QED BY <1>1, <1>2

\* What the model sees of the statistics, once there is a protocol.
Seen(cap, s) ==
    [cap |-> cap, limit |-> cap, supply |-> s.current, outstanding |-> s.current,
     minted |-> s.minted, burned |-> s.burned]

LEMMA TotalsSeen ==
  ASSUME protocol # NoProtocol
  PROVE  Totals = Seen(protocol.cap, supply)
  BY DEF Totals, Seen

LEMMA SupplyStays ==
  ASSUME SupplyInv, UNCHANGED <<protocol, supply>>
  PROVE  UNCHANGED Totals
  BY DEF Totals

LEMMA InitializeImplements ==
  ASSUME SupplyInv, NEW s \in Admins, NEW cap \in Caps, InitializeProtocol(s, cap)
  PROVE  Reference!Next /\ (protocol' \in Protocol) /\ supply' = NoSupply /\ ~protocol'.mint
<1> DEFINE p == [admin |-> s, cap |-> cap, paused |-> FALSE, mint |-> FALSE]
<1>1. cap \in 0 .. MaxAmount
  BY AmountsAssumption
<1>2. p \in Protocol
  BY <1>1 DEF Protocol
<1>3. protocol' = p /\ protocol = NoProtocol
  BY DEF InitializeProtocol
<1>4. p.cap = cap /\ ~p.mint
  OBVIOUS
<1>5. supply = NoSupply /\ supply' = supply
  BY <1>3 DEF InitializeProtocol, ledger, SupplyInv
<1> HIDE DEF p
<1>6. p # NoProtocol
  BY <1>2, ProtocolsExist
<1>7. Totals = [cap |-> -1]
  BY <1>3 DEF Totals
<1>8. Totals' = [cap |-> cap, limit |-> cap, supply |-> 0, outstanding |-> 0,
                 minted |-> 0, burned |-> 0]
  BY <1>3, <1>4, <1>5, <1>6 DEF Totals, NoSupply
<1>9. Reference!New(cap, cap)
  BY <1>7, <1>8 DEF Reference!New, Reference!NoModel
<1> QED BY <1>1, <1>2, <1>3, <1>4, <1>5, <1>9 DEF Reference!Next

\* The mint is created once, before anything is minted.
LEMMA CreateImplements ==
  ASSUME SupplyInv, NEW s \in Admins, CreateStablecoinMint(s)
  PROVE  /\ UNCHANGED Totals
         /\ protocol' \in Protocol /\ supply' = NoSupply
<1>1. protocol \in Protocol /\ protocol # NoProtocol /\ ~protocol.mint
  BY DEF CreateStablecoinMint, IsAdmin, SupplyInv
<1>2. protocol' = [protocol EXCEPT !.mint = TRUE]
  BY DEF CreateStablecoinMint
<1>3. protocol' \in Protocol /\ protocol'.cap = protocol.cap
  BY <1>1, <1>2 DEF Protocol
<1>4. supply = NoSupply /\ supply' = NoSupply
  BY <1>1 DEF CreateStablecoinMint, SupplyInv
<1>5. protocol' # NoProtocol
  BY <1>3, ProtocolsExist
<1> QED BY <1>1, <1>3, <1>4, <1>5 DEF Totals

\* Once there is a protocol the totals show its cap, so they are a model.
LEMMA TotalsAreModel ==
  ASSUME SupplyInv, protocol # NoProtocol
  PROVE  /\ protocol \in Protocol /\ protocol.cap \in 0 .. MaxAmount
         /\ Totals = Seen(protocol.cap, supply)
         /\ Totals # Reference!NoModel
<1>1. protocol \in Protocol /\ protocol.cap \in 0 .. MaxAmount
  BY DEF SupplyInv, Protocol
<1>2. Totals = Seen(protocol.cap, supply)
  BY TotalsSeen
<1>3. protocol.cap # -1
  BY <1>1, AmountsAssumption
<1>4. Totals.cap = protocol.cap /\ Reference!NoModel.cap = -1
  BY <1>2 DEF Seen, Reference!NoModel
<1> QED BY <1>1, <1>2, <1>3, <1>4

Model == [cap : Int, limit : Int, supply : Int, outstanding : Int, minted : Int,
    burned : Int]

LEMMA SeenIsModel ==
  ASSUME NEW cap \in Int, NEW s \in Supply
  PROVE  Seen(cap, s) \in Model
  BY DEF Seen, Supply, Model

LEMMA ModelAfterMint ==
  ASSUME NEW m \in Model, NEW next \in Model, NEW current \in Int, NEW minted \in Int,
         next.cap = m.cap, next.limit = m.limit, next.supply = current,
         next.outstanding = current, next.minted = minted, next.burned = m.burned
  PROVE  next = [m EXCEPT !.supply = current, !.outstanding = current, !.minted = minted]
  BY DEF Model

LEMMA ModelAfterBurn ==
  ASSUME NEW m \in Model, NEW next \in Model, NEW current \in Int, NEW burned \in Int,
         next.cap = m.cap, next.limit = m.limit, next.supply = current,
         next.outstanding = current, next.minted = m.minted, next.burned = burned
  PROVE  next = [m EXCEPT !.supply = current, !.outstanding = current, !.burned = burned]
  BY DEF Model

LEMMA MintImplements ==
  ASSUME SupplyInv, NEW k \in Authorities, NEW t \in TokenAccounts, NEW amount \in Amounts,
         MintToUser(k, t, amount)
  PROVE  Reference!Next /\ UNCHANGED protocol /\ supply' \in Supply /\ protocol.mint
<1>1. /\ protocol # NoProtocol /\ protocol.mint /\ UNCHANGED protocol
      /\ supply.current + amount <= protocol.cap /\ supply.minted + amount <= MaxAmount
  BY DEF MintToUser, MayOperate, WithinLimits
<1>2. amount \in 0 .. MaxAmount
  BY AmountsAssumption
<1>3. /\ supply.current \in Nat /\ supply.minted \in Nat /\ supply.burned \in Nat
      /\ supply \in Supply
  BY DEF SupplyInv, Supply
<1>4. supply' = [supply EXCEPT !.current = supply.current + amount,
                               !.minted = supply.minted + amount]
  BY DEF MintToUser
<1>5. /\ supply' \in Supply
      /\ supply'.current = supply.current + amount
      /\ supply'.minted = supply.minted + amount
      /\ supply'.burned = supply.burned
  <2>1. ASSUME NEW a \in Nat, NEW b \in Nat
        PROVE  LET next == [supply EXCEPT !.current = a, !.minted = b]
               IN  /\ next \in Supply /\ next.current = a
                   /\ next.minted = b /\ next.burned = supply.burned
    BY <1>3 DEF Supply
  <2>2. supply.current + amount \in Nat /\ supply.minted + amount \in Nat
    BY <1>2, <1>3, AmountsAssumption
  <2> QED BY <1>4, <2>1, <2>2
<1>6. /\ Totals = Seen(protocol.cap, supply) /\ Totals # Reference!NoModel
      /\ Totals' = Seen(protocol.cap, supply')
  <2>1. protocol' # NoProtocol
    BY <1>1
  <2> QED BY <1>1, <2>1, TotalsAreModel DEF Totals, Seen
<1>7. Reference!Mint(amount)
  <2>1. /\ Totals.minted = supply.minted /\ Totals.supply = supply.current
        /\ Totals.outstanding = supply.current
        /\ Totals.cap = protocol.cap /\ Totals.limit = protocol.cap
    BY <1>6 DEF Seen
  <2>2. Totals' = [Totals EXCEPT !.supply = supply.current + amount,
                                 !.outstanding = supply.current + amount,
                                 !.minted = supply.minted + amount]
    <3>1. Totals \in Model /\ Totals' \in Model
      <4>1. protocol.cap \in Int
        BY <1>1, TotalsAreModel, AmountsAssumption
      <4> QED BY <1>3, <1>5, <1>6, <4>1, SeenIsModel
    <3>2. /\ Totals'.cap = Totals.cap /\ Totals'.limit = Totals.limit
          /\ Totals'.supply = supply.current + amount
          /\ Totals'.outstanding = supply.current + amount
          /\ Totals'.minted = supply.minted + amount /\ Totals'.burned = Totals.burned
      BY <1>5, <1>6 DEF Seen
    <3>3. supply.current + amount \in Int /\ supply.minted + amount \in Int
      BY <1>2, <1>3, AmountsAssumption
    <3> QED BY <3>1, <3>2, <3>3, ModelAfterMint, Zenon
  <2>3. Totals' = [Totals EXCEPT !.supply = @ + amount, !.outstanding = @ + amount,
                                 !.minted = @ + amount]
    BY <2>1, <2>2
  <2> QED BY <1>1, <1>6, <2>1, <2>3 DEF Reference!Mint
<1> QED BY <1>1, <1>2, <1>5, <1>7 DEF Reference!Next

LEMMA BurnImplements ==
  ASSUME SupplyInv, NEW k \in Authorities, NEW t \in TokenAccounts, NEW amount \in Amounts,
         BurnFromUser(k, t, amount)
  PROVE  Reference!Next /\ UNCHANGED protocol /\ supply' \in Supply /\ protocol.mint
<1>1. /\ protocol # NoProtocol /\ protocol.mint /\ UNCHANGED protocol
      /\ supply.current >= amount /\ supply.burned + amount <= MaxAmount
  BY DEF BurnFromUser, MayOperate
<1>2. amount \in 0 .. MaxAmount
  BY AmountsAssumption
<1>3. /\ supply.current \in Nat /\ supply.minted \in Nat /\ supply.burned \in Nat
      /\ supply \in Supply
  BY DEF SupplyInv, Supply
<1>4. supply' = [supply EXCEPT !.current = supply.current - amount,
                               !.burned = supply.burned + amount]
  BY DEF BurnFromUser
<1>5. /\ supply' \in Supply
      /\ supply'.current = supply.current - amount
      /\ supply'.minted = supply.minted
      /\ supply'.burned = supply.burned + amount
  <2>1. ASSUME NEW a \in Nat, NEW b \in Nat
        PROVE  LET next == [supply EXCEPT !.current = a, !.burned = b]
               IN  /\ next \in Supply /\ next.current = a
                   /\ next.minted = supply.minted /\ next.burned = b
    BY <1>3 DEF Supply
  <2>2. supply.current - amount \in Nat /\ supply.burned + amount \in Nat
    BY <1>1, <1>2, <1>3, AmountsAssumption
  <2> QED BY <1>4, <2>1, <2>2
<1>6. /\ Totals = Seen(protocol.cap, supply) /\ Totals # Reference!NoModel
      /\ Totals' = Seen(protocol.cap, supply')
  <2>1. protocol' # NoProtocol
    BY <1>1
  <2> QED BY <1>1, <2>1, TotalsAreModel DEF Totals, Seen
<1>7. Reference!Burn(amount)
  <2>1. /\ Totals.burned = supply.burned /\ Totals.supply = supply.current
        /\ Totals.outstanding = supply.current
    BY <1>6 DEF Seen
  <2>2. Totals' = [Totals EXCEPT !.supply = supply.current - amount,
                                 !.outstanding = supply.current - amount,
                                 !.burned = supply.burned + amount]
    <3>1. Totals \in Model /\ Totals' \in Model
      <4>1. protocol.cap \in Int
        BY <1>1, TotalsAreModel, AmountsAssumption
      <4> QED BY <1>3, <1>5, <1>6, <4>1, SeenIsModel
    <3>2. /\ Totals'.cap = Totals.cap /\ Totals'.limit = Totals.limit
          /\ Totals'.supply = supply.current - amount
          /\ Totals'.outstanding = supply.current - amount
          /\ Totals'.minted = Totals.minted /\ Totals'.burned = supply.burned + amount
      BY <1>5, <1>6 DEF Seen
    <3>3. supply.current - amount \in Int /\ supply.burned + amount \in Int
      BY <1>2, <1>3, AmountsAssumption
    <3> QED BY <3>1, <3>2, <3>3, ModelAfterBurn, Zenon
  <2>3. Totals' = [Totals EXCEPT !.supply = @ - amount, !.outstanding = @ - amount,
                                 !.burned = @ + amount]
    BY <2>1, <2>2
  <2>4. amount <= supply.current
    BY <1>1, <1>2, <1>3
  <2> QED BY <1>1, <1>6, <2>1, <2>3, <2>4 DEF Reference!Burn
<1> QED BY <1>1, <1>2, <1>5, <1>7 DEF Reference!Next

LEMMA SupplySteps ==
  ASSUME [Next]_vars
  PROVE  \/ UNCHANGED <<protocol, supply>>
         \/ \E s \in Admins, cap \in Caps : InitializeProtocol(s, cap)
         \/ \E s \in Admins : CreateStablecoinMint(s)
         \/ \E k \in Authorities, t \in TokenAccounts, amount \in Amounts :
               MintToUser(k, t, amount) \/ BurnFromUser(k, t, amount)
  BY DEF Next, vars, ledger, RegisterIssuer, SetIssuerPaused, RotateIssuerAuthority,
     OpenTokenAccount, CloseTokenAccount, TransferTokens, BurnOwnTokens

LEMMA SupplyImplements ==
  ASSUME SupplyInv, [Next]_vars
  PROVE  SupplyInv' /\ [Reference!Next]_Totals
<1>0. IssuerTypes'
  BY IssuersKept DEF SupplyInv
<1>1. CASE UNCHANGED <<protocol, supply>>
  BY <1>0, <1>1, SupplyStays DEF SupplyInv
<1>2. CASE \E s \in Admins, cap \in Caps : InitializeProtocol(s, cap)
  BY <1>0, <1>2, InitializeImplements DEF SupplyInv, NoSupply, Supply
<1>3. CASE \E s \in Admins : CreateStablecoinMint(s)
  BY <1>0, <1>3, CreateImplements DEF SupplyInv, NoSupply, Supply
<1>4. CASE \E k \in Authorities, t \in TokenAccounts, amount \in Amounts :
              MintToUser(k, t, amount) \/ BurnFromUser(k, t, amount)
  <2>1. Reference!Next /\ UNCHANGED protocol /\ supply' \in Supply /\ protocol.mint
    BY <1>4, MintImplements, BurnImplements
  <2>2. protocol # NoProtocol
    BY <1>4 DEF MintToUser, BurnFromUser, MayOperate
  <2> QED BY <1>0, <2>1, <2>2 DEF SupplyInv
<1> QED BY <1>1, <1>2, <1>3, <1>4, SupplySteps

-----------------------------------------------------------------------------
(* The issuers' shares. An issuer that may not mint has none, so the sum    *)
(* over the live issuers is the sum of the shares of all keys.              *)

ShareOf(i) == IF i # NoIssuer /\ i.limit > 0 THEN i.outstanding ELSE 0
Shares == [k \in Authorities |-> ShareOf(issuers[k])]

\* What an issuer that may mint has outstanding.
Consistent(i) ==
    i.limit > 0 => /\ i.outstanding = i.minted - i.burned
                   /\ i.outstanding <= i.limit

SharesInv ==
    /\ SumFunctionOnSet(Shares, Authorities) = supply.current + burnedByRetired
    /\ burnedByRetired \in Nat
    /\ \A k \in Authorities : Registered(k) => Consistent(issuers[k])

LEMMA ShareIsInt ==
  ASSUME NEW i \in Issuer \cup {NoIssuer}
  PROVE  ShareOf(i) \in Int
  BY DEF ShareOf, Issuer

LEMMA SumOfLive ==
  ASSUME IssuerTypes
  PROVE  SumFunction([k \in Live |-> issuers[k].outstanding])
           = SumFunctionOnSet(Shares, Authorities)
<1> DEFINE f == [k \in Live |-> issuers[k].outstanding]
<1>1. Live \in SUBSET Authorities
  BY DEF Live
<1>2. ASSUME NEW k \in Live
      PROVE  f[k] \in Int /\ Shares[k] = f[k]
  <2>1. issuers[k] \in Issuer /\ issuers[k] # NoIssuer /\ issuers[k].limit > 0
    BY RegisteredIsIssuer DEF Live, Registered
  <2> QED BY <1>1, <2>1 DEF Shares, ShareOf, Issuer
<1>3. \A k \in Authorities \ Live : Shares[k] = 0
  BY DEF Shares, ShareOf, Live, Registered
<1>4. SumFunction(f) = SumFunctionOnSet(f, Live)
  BY DEF SumFunction
<1> HIDE DEF f
<1>5. SumFunctionOnSet(Shares, Authorities) = SumFunctionOnSet(f, Live)
  BY <1>1, <1>2, <1>3, FiniteAssumption, SumRestrict
<1> QED BY <1>4, <1>5 DEF f

\* A step that rewrites one issuer moves the sum by the change of its share.
LEMMA OneShareMoves ==
  ASSUME IssuerTypes, NEW j \in Authorities, NEW next \in Issuer,
         issuers' = [issuers EXCEPT ![j] = next]
  PROVE  /\ SumFunctionOnSet(Shares', Authorities)
              = SumFunctionOnSet(Shares,
                  Authorities) + (ShareOf(next) - ShareOf(issuers[j]))
         /\ SumFunctionOnSet(Shares, Authorities) \in Int
<1>1. /\ \A k \in Authorities : Shares[k] = ShareOf(issuers[k])
      /\ \A k \in Authorities : Shares'[k] = ShareOf(issuers'[k])
  BY DEF Shares
<1>2. \A k \in Authorities : issuers'[k] = IF k = j THEN next ELSE issuers[k]
  BY DEF IssuerTypes
<1>3. /\ \A k \in Authorities : Shares[k] \in Int /\ Shares'[k] \in Int
      /\ \A k \in Authorities \ {j} : Shares'[k] = Shares[k]
      /\ Shares'[j] = ShareOf(next) /\ Shares[j] = ShareOf(issuers[j])
  <2>1. \A k \in Authorities : /\ issuers[k] \in Issuer \cup {NoIssuer}
                              /\ issuers'[k] \in Issuer \cup {NoIssuer}
    BY <1>2 DEF IssuerTypes
  <2> QED BY <1>1, <1>2, <2>1, ShareIsInt
<1>4. /\ SumFunctionOnSet(Shares', Authorities)
            = SumFunctionOnSet(Shares, Authorities) + (Shares'[j] - Shares[j])
      /\ SumFunctionOnSet(Shares, Authorities) \in Int
  BY <1>3, FiniteAssumption, SumUpdate
<1> QED BY <1>3, <1>4

\* Such a step keeps the shares if the supply moves with them.
LEMMA OneIssuerShared ==
  ASSUME SupplyInv, SharesInv, SupplyInv', NEW j \in Authorities, NEW next \in Issuer,
         issuers' = [issuers EXCEPT ![j] = next], Consistent(next),
             burnedByRetired' \in Nat,
         supply'.current + burnedByRetired' - (supply.current + burnedByRetired)
            = ShareOf(next) - ShareOf(issuers[j])
  PROVE  SharesInv'
<1>1. /\ supply.current \in Nat /\ supply'.current \in Nat /\ burnedByRetired \in Nat
  BY DEF SupplyInv, Supply, SharesInv
<1>2. ShareOf(next) \in Int /\ ShareOf(issuers[j]) \in Int
  BY ShareIsInt DEF SupplyInv, IssuerTypes
<1>3. SumFunctionOnSet(Shares', Authorities)
        = SumFunctionOnSet(Shares, Authorities) + (ShareOf(next) - ShareOf(issuers[j]))
  BY OneShareMoves DEF SupplyInv
<1>4. SumFunctionOnSet(Shares', Authorities) = supply'.current + burnedByRetired'
  BY <1>1, <1>2, <1>3 DEF SharesInv
<1>5. ASSUME NEW k \in Authorities, issuers'[k] # NoIssuer
      PROVE  Consistent(issuers'[k])
  <2>1. issuers'[k] = IF k = j THEN next ELSE issuers[k]
    BY DEF SupplyInv, IssuerTypes
  <2> QED BY <1>5, <2>1 DEF SharesInv, Registered
<1> QED BY <1>4, <1>5 DEF SharesInv, Registered

LEMMA RegisterShares ==
  ASSUME SupplyInv, SharesInv, SupplyInv', NEW s \in Admins, NEW j \in Authorities,
         NEW limit \in Limits, RegisterIssuer(s, j, limit)
  PROVE  SharesInv'
<1> DEFINE fresh == [limit |-> limit, paused |-> FALSE,
                     outstanding |-> 0, minted |-> 0, burned |-> 0]
<1>1. fresh \in Issuer /\ Consistent(fresh) /\ ShareOf(fresh) = 0
  BY AmountsAreNat DEF Issuer, Consistent, ShareOf
<1>2. /\ issuers' = [issuers EXCEPT ![j] = fresh] /\ issuers[j] = NoIssuer
      /\ supply' = supply /\ burnedByRetired' = burnedByRetired
  BY DEF RegisterIssuer, Registered, ledger
<1>3. ShareOf(issuers[j]) = 0
  BY <1>2 DEF ShareOf
<1>4. supply.current \in Nat /\ burnedByRetired \in Nat
  BY DEF SupplyInv, Supply, SharesInv
<1> HIDE DEF fresh
<1>5. /\ burnedByRetired' \in Nat
      /\ supply'.current + burnedByRetired' - (supply.current + burnedByRetired)
            = ShareOf(fresh) - ShareOf(issuers[j])
  BY <1>1, <1>2, <1>3, <1>4
<1> QED BY <1>1, <1>2, <1>5, OneIssuerShared

LEMMA PauseShares ==
  ASSUME SupplyInv, SharesInv, SupplyInv', NEW s \in Admins, NEW j \in Authorities,
         NEW paused \in BOOLEAN, SetIssuerPaused(s, j, paused)
  PROVE  SharesInv'
<1> DEFINE next == [issuers[j] EXCEPT !.paused = paused]
<1>1. issuers[j] \in Issuer /\ Consistent(issuers[j])
  BY RegisteredIsIssuer DEF SetIssuerPaused, SupplyInv, SharesInv
<1>2. /\ next \in Issuer /\ next.limit = issuers[j].limit
      /\ next.outstanding = issuers[j].outstanding /\ next.minted = issuers[j].minted
      /\ next.burned = issuers[j].burned
  BY <1>1 DEF Issuer
<1>3. /\ issuers' = [issuers EXCEPT ![j] = next]
      /\ supply' = supply /\ burnedByRetired' = burnedByRetired
  BY DEF SetIssuerPaused, ledger
<1>4. supply.current \in Nat /\ burnedByRetired \in Nat
  BY DEF SupplyInv, Supply, SharesInv
<1> HIDE DEF next
<1>5. Consistent(next)
  BY <1>1, <1>2 DEF Consistent
<1>6. ShareOf(next) = ShareOf(issuers[j]) /\ ShareOf(next) \in Int
  BY <1>1, <1>2, IssuersExist, ShareIsInt DEF ShareOf
<1>7. /\ burnedByRetired' \in Nat
      /\ supply'.current + burnedByRetired' - (supply.current + burnedByRetired)
            = ShareOf(next) - ShareOf(issuers[j])
  BY <1>3, <1>4, <1>6
<1> QED BY <1>2, <1>3, <1>5, <1>7, OneIssuerShared

\* Mint and burn move the supply and the issuer's share together; an issuer
\* without a share mints nothing, and what it burns is counted apart.
LEMMA MintShares ==
  ASSUME SupplyInv, SharesInv, SupplyInv', NEW j \in Authorities, NEW t \in TokenAccounts,
         NEW amount \in Amounts, MintToUser(j, t, amount)
  PROVE  SharesInv'
<1> DEFINE i == issuers[j]
           next == [issuers[j] EXCEPT !.outstanding = @ + amount, !.minted = @ + amount]
<1>1. i \in Issuer /\ Consistent(i)
  BY RegisteredIsIssuer DEF MintToUser, MayOperate, SupplyInv, SharesInv
<1>2. amount \in Nat /\ supply.current \in Nat /\ supply.minted \in Nat
      /\ burnedByRetired \in Nat
  BY AmountsAreNat DEF SupplyInv, Supply, SharesInv
<1>3. /\ next \in Issuer /\ next.limit = i.limit
      /\ next.outstanding = i.outstanding + amount
      /\ next.minted = i.minted + amount /\ next.burned = i.burned
  BY <1>1, <1>2, MintedRecord
<1>4. /\ issuers' = [issuers EXCEPT ![j] = next]
      /\ burnedByRetired' = burnedByRetired
      /\ i.outstanding + amount <= i.limit
      /\ supply' = [supply EXCEPT !.current = supply.current + amount,
                                  !.minted = supply.minted + amount]
  BY DEF MintToUser, WithinLimits
<1>5. supply'.current = supply.current + amount
  BY <1>2, <1>4 DEF SupplyInv, Supply
<1>6. i.limit \in Nat /\ i.outstanding \in Nat /\ i.minted \in Nat /\ i.burned \in Nat
  BY <1>1 DEF Issuer
<1> HIDE DEF next, i
<1>7. Consistent(next)
  BY <1>1, <1>2, <1>3, <1>4, <1>6 DEF Consistent
<1>8. ShareOf(next) = ShareOf(i) + amount /\ ShareOf(i) \in Int
  <2>1. next # NoIssuer /\ i # NoIssuer
    BY <1>1, <1>3, IssuersExist
  <2>2. i.limit = 0 => amount = 0
    BY <1>2, <1>4, <1>6
  <2> QED BY <1>2, <1>3, <1>6, <2>1, <2>2 DEF ShareOf
<1>9. /\ burnedByRetired' \in Nat
      /\ supply'.current + burnedByRetired' - (supply.current + burnedByRetired)
            = ShareOf(next) - ShareOf(i)
  BY <1>2, <1>4, <1>5, <1>8
<1> QED BY <1>3, <1>4, <1>7, <1>9, OneIssuerShared DEF i

LEMMA BurnShares ==
  ASSUME SupplyInv, SharesInv, SupplyInv', NEW j \in Authorities, NEW t \in TokenAccounts,
         NEW amount \in Amounts, BurnFromUser(j, t, amount)
  PROVE  SharesInv'
<1> DEFINE i == issuers[j]
           next == [issuers[j] EXCEPT !.outstanding = @ - amount, !.burned = @ + amount]
<1>1. i \in Issuer /\ Consistent(i)
  BY RegisteredIsIssuer DEF BurnFromUser, MayOperate, SupplyInv, SharesInv
<1>2. amount \in Nat /\ supply.current \in Nat /\ supply.burned \in Nat
      /\ burnedByRetired \in Nat
  BY AmountsAreNat DEF SupplyInv, Supply, SharesInv
<1>3. i.outstanding >= amount /\ supply.current >= amount
  BY DEF BurnFromUser
<1>4. /\ next \in Issuer /\ next.limit = i.limit
      /\ next.outstanding = i.outstanding - amount
      /\ next.minted = i.minted /\ next.burned = i.burned + amount
  BY <1>1, <1>2, <1>3, BurnedRecord
<1>5. /\ issuers' = [issuers EXCEPT ![j] = next]
      /\ burnedByRetired' = IF i.limit = 0 THEN burnedByRetired + amount
            ELSE burnedByRetired
      /\ supply' = [supply EXCEPT !.current = supply.current - amount,
                                  !.burned = supply.burned + amount]
  BY DEF BurnFromUser
<1>6. supply'.current = supply.current - amount
  BY <1>2, <1>5 DEF SupplyInv, Supply
<1>7. i.limit \in Nat /\ i.outstanding \in Nat /\ i.minted \in Nat /\ i.burned \in Nat
  BY <1>1 DEF Issuer
<1> HIDE DEF next, i
<1>8. Consistent(next)
  BY <1>1, <1>2, <1>4, <1>7 DEF Consistent
<1>9. /\ ShareOf(next) = IF i.limit = 0 THEN ShareOf(i) ELSE ShareOf(i) - amount
      /\ ShareOf(i) \in Int
  <2>1. next # NoIssuer /\ i # NoIssuer
    BY <1>1, <1>4, IssuersExist
  <2> QED BY <1>2, <1>4, <1>7, <2>1 DEF ShareOf
<1>10. /\ burnedByRetired' \in Nat
       /\ supply'.current + burnedByRetired' - (supply.current + burnedByRetired)
            = ShareOf(next) - ShareOf(i)
  BY <1>2, <1>5, <1>6, <1>9
<1> QED BY <1>4, <1>5, <1>8, <1>10, OneIssuerShared DEF i

\* The share moves from the old key to the new one.
LEMMA RotateShares ==
  ASSUME SupplyInv, SharesInv, NEW s \in Admins, NEW old \in Authorities,
         NEW new \in Authorities, RotateIssuerAuthority(s, old, new)
  PROVE  SharesInv'
<1> DEFINE retired == [issuers[old] EXCEPT !.limit = 0, !.paused = TRUE]
<1>1. /\ issuers[old] \in Issuer /\ Consistent(issuers[old])
      /\ old # new /\ issuers[new] = NoIssuer
  BY RegisteredIsIssuer DEF RotateIssuerAuthority, SupplyInv, SharesInv, Registered
<1>2. retired \in Issuer /\ retired.limit = 0
  BY <1>1, RetiredRecord
<1>3. /\ issuers'[old] = retired
      /\ issuers'[new] = issuers[old]
      /\ \A k \in Authorities \ {old, new} : issuers'[k] = issuers[k]
      /\ supply' = supply /\ burnedByRetired' = burnedByRetired
  BY <1>1 DEF RotateIssuerAuthority, SupplyInv, IssuerTypes, ledger
<1> HIDE DEF retired
<1>4. ShareOf(retired) = 0 /\ ShareOf(NoIssuer) = 0
  BY <1>2 DEF ShareOf
<1>5. /\ \A k \in Authorities : Shares[k] = ShareOf(issuers[k])
      /\ \A k \in Authorities : Shares'[k] = ShareOf(issuers'[k])
  BY DEF Shares
<1>6. \A k \in Authorities : issuers[k] \in Issuer \cup {NoIssuer}
  BY DEF SupplyInv, IssuerTypes
<1>7. /\ \A k \in Authorities : Shares[k] \in Int /\ Shares'[k] \in Int
      /\ \A k \in Authorities \ {old, new} : Shares'[k] = Shares[k]
  <2>1. \A k \in Authorities : issuers'[k] \in Issuer \cup {NoIssuer}
    BY <1>1, <1>2, <1>3, <1>6
  <2> QED BY <1>3, <1>5, <1>6, <2>1, ShareIsInt
<1>8. SumFunctionOnSet(Shares', Authorities)
        = SumFunctionOnSet(Shares, Authorities) + (Shares'[old] - Shares[old])
            + (Shares'[new] - Shares[new])
  BY <1>1, <1>7, FiniteAssumption, SumTransfer
<1>9. /\ Shares'[old] = 0 /\ Shares[new] = 0 /\ Shares'[new] = Shares[old]
      /\ Shares[old] \in Int
  BY <1>1, <1>3, <1>4, <1>5, <1>7
<1>10. SumFunctionOnSet(Shares, Authorities) \in Int
  BY <1>7, FiniteAssumption, SumIsInt
<1>11. SumFunctionOnSet(Shares', Authorities) = SumFunctionOnSet(Shares, Authorities)
  BY <1>8, <1>9, <1>10
<1>12. ASSUME NEW k \in Authorities, issuers'[k] # NoIssuer
       PROVE  Consistent(issuers'[k])
  <2>1. Consistent(retired)
    BY <1>2 DEF Consistent
  <2> QED BY <1>1, <1>3, <1>12, <2>1 DEF SharesInv, Registered
<1> QED BY <1>3, <1>11, <1>12 DEF SharesInv, Registered

LEMMA SharesKept ==
  ASSUME SupplyInv, SharesInv, [Next]_vars
  PROVE  SharesInv'
<1>1. SupplyInv'
  BY SupplyImplements
<1>2. ASSUME UNCHANGED <<issuers, supply, burnedByRetired>>
      PROVE  SharesInv'
  BY <1>2 DEF SharesInv, Shares, Registered
<1>3. ASSUME NEW s \in Admins, NEW cap \in Caps, InitializeProtocol(s, cap)
      PROVE  SharesInv'
  BY <1>2, <1>3 DEF InitializeProtocol, ledger
<1>4. ASSUME NEW s \in Admins, CreateStablecoinMint(s)
      PROVE  SharesInv'
  <2>1. supply = NoSupply
    BY <1>4 DEF CreateStablecoinMint, IsAdmin, SupplyInv
  <2> QED BY <1>2, <1>4, <2>1 DEF CreateStablecoinMint
<1>5. ASSUME NEW t \in TokenAccounts, NEW u \in TokenAccounts, NEW amount \in Amounts,
             \/ TransferTokens(t, u, amount) \/ BurnOwnTokens(t, amount)
             \/ OpenTokenAccount(t) \/ CloseTokenAccount(t)
      PROVE  SharesInv'
  BY <1>2, <1>5 DEF TransferTokens, BurnOwnTokens, OpenTokenAccount, CloseTokenAccount
<1>6. CASE UNCHANGED vars
  BY <1>2, <1>6 DEF vars
<1>7. CASE \E t \in TokenAccounts : OpenTokenAccount(t) \/ CloseTokenAccount(t)
  BY <1>2, <1>7 DEF OpenTokenAccount, CloseTokenAccount
<1> QED BY <1>1, <1>3, <1>4, <1>5, <1>6, <1>7, RegisterShares, PauseShares, MintShares,
           BurnShares, RotateShares DEF Next

LEMMA InitShares == Init => SupplyInv /\ SharesInv
<1> SUFFICES ASSUME Init
             PROVE  SupplyInv /\ SharesInv
  OBVIOUS
<1>1. SupplyInv
  BY DEF Init, SupplyInv, IssuerTypes, NoSupply, Supply
<1>2. \A k \in Authorities : Shares[k] = 0
  BY DEF Init, Shares, ShareOf
<1>3. SumFunctionOnSet(Shares, Authorities) = 0
  BY <1>2, FiniteAssumption, SumOfZeros
<1> QED BY <1>1, <1>3 DEF Init, SharesInv, NoSupply, Registered

-----------------------------------------------------------------------------
(* The tokens. An address without an account holds none, so the sum over    *)
(* the open accounts is the sum of what all addresses hold.                 *)

HeldBy(balance) == IF balance = NoAccount THEN 0 ELSE balance
Held == [t \in TokenAccounts |-> HeldBy(tokens[t])]

TokenTypes == tokens \in [TokenAccounts -> Nat \cup {NoAccount}]

TokensInv ==
    /\ TokenTypes
    /\ SumFunctionOnSet(Held, TokenAccounts) <= supply.current
    /\ supply.current = supply.minted - supply.burned
    /\ protocol # NoProtocol => supply.current <= protocol.cap

LEMMA HeldType ==
  ASSUME TokenTypes
  PROVE  /\ \A t \in TokenAccounts : Held[t] \in Nat /\ Held[t] = HeldBy(tokens[t])
         /\ SumFunctionOnSet(Held, TokenAccounts) \in Nat
<1>1. \A t \in TokenAccounts : Held[t] \in Nat /\ Held[t] = HeldBy(tokens[t])
  BY DEF TokenTypes, Held, HeldBy
<1> QED BY <1>1, FiniteAssumption, SumIsNat

LEMMA SumOfOpen ==
  ASSUME TokenTypes
  PROVE  SumFunction([t \in OpenAccounts |-> tokens[t]])
           = SumFunctionOnSet(Held, TokenAccounts)
<1> DEFINE f == [t \in OpenAccounts |-> tokens[t]]
<1>1. OpenAccounts \in SUBSET TokenAccounts
  BY DEF OpenAccounts
<1>2. \A t \in OpenAccounts : f[t] \in Int /\ Held[t] = f[t]
  BY DEF OpenAccounts, TokenTypes, Held, HeldBy
<1>3. \A t \in TokenAccounts \ OpenAccounts : Held[t] = 0
  BY DEF OpenAccounts, Held, HeldBy
<1>4. SumFunction(f) = SumFunctionOnSet(f, OpenAccounts)
  BY DEF SumFunction
<1> HIDE DEF f
<1>5. SumFunctionOnSet(Held, TokenAccounts) = SumFunctionOnSet(f, OpenAccounts)
  BY <1>1, <1>2, <1>3, FiniteAssumption, SumRestrict
<1> QED BY <1>4, <1>5 DEF f

\* A step that rewrites one account's balance moves what is held by the change.
LEMMA OneAccountMoves ==
  ASSUME TokenTypes, NEW t \in TokenAccounts, NEW balance \in Nat \cup {NoAccount},
         tokens' = [tokens EXCEPT ![t] = balance]
  PROVE  /\ TokenTypes'
         /\ SumFunctionOnSet(Held', TokenAccounts)
              = SumFunctionOnSet(Held,
                  TokenAccounts) + (HeldBy(balance) - HeldBy(tokens[t]))
<1>1. TokenTypes'
  BY DEF TokenTypes
<1>2. /\ \A u \in TokenAccounts : Held[u] = HeldBy(tokens[u])
      /\ \A u \in TokenAccounts : Held'[u] = HeldBy(tokens'[u])
      /\ \A u \in TokenAccounts : tokens'[u] = IF u = t THEN balance ELSE tokens[u]
  BY DEF Held, TokenTypes
<1>3. /\ \A u \in TokenAccounts : Held[u] \in Int /\ Held'[u] \in Int
      /\ \A u \in TokenAccounts \ {t} : Held'[u] = Held[u]
      /\ Held'[t] = HeldBy(balance) /\ Held[t] = HeldBy(tokens[t])
  <2>1. \A u \in TokenAccounts : Held'[u] \in Int
    BY <1>1 DEF TokenTypes, Held, HeldBy
  <2> QED BY <1>2, <2>1, HeldType
<1>4. SumFunctionOnSet(Held', TokenAccounts)
        = SumFunctionOnSet(Held, TokenAccounts) + (Held'[t] - Held[t])
  BY <1>3, FiniteAssumption, SumUpdate
<1> QED BY <1>1, <1>3, <1>4

\* Such a step keeps the tokens covered if the supply rises at least as much.
LEMMA OneAccountCovered ==
  ASSUME SupplyInv, TokensInv, SupplyInv', NEW t \in TokenAccounts,
         NEW balance \in Nat \cup {NoAccount}, tokens' = [tokens EXCEPT ![t] = balance],
         HeldBy(balance) - HeldBy(tokens[t]) <= supply'.current - supply.current
  PROVE  TokenTypes' /\ SumFunctionOnSet(Held', TokenAccounts) <= supply'.current
<1>1. supply.current \in Nat /\ supply'.current \in Nat
  BY DEF SupplyInv, Supply
<1>2. HeldBy(balance) \in Nat /\ HeldBy(tokens[t]) \in Nat
  BY DEF HeldBy, TokensInv, TokenTypes
<1>3. SumFunctionOnSet(Held, TokenAccounts) \in Nat
      /\ SumFunctionOnSet(Held, TokenAccounts) <= supply.current
  BY HeldType DEF TokensInv
<1>4. /\ TokenTypes'
      /\ SumFunctionOnSet(Held', TokenAccounts)
            = SumFunctionOnSet(Held, TokenAccounts) + (HeldBy(balance) - HeldBy(tokens[t]))
  BY OneAccountMoves DEF TokensInv
<1> QED BY <1>1, <1>2, <1>3, <1>4

LEMMA MintCovered ==
  ASSUME SupplyInv, TokensInv, SupplyInv', NEW k \in Authorities, NEW t \in TokenAccounts,
         NEW amount \in Amounts, MintToUser(k, t, amount)
  PROVE  TokensInv'
<1>1. amount \in Nat /\ supply \in Supply
  BY AmountsAreNat DEF SupplyInv
<1>2. /\ supply' = [supply EXCEPT !.current = supply.current + amount,
                                  !.minted = supply.minted + amount]
      /\ tokens' = [tokens EXCEPT ![t] = amount] /\ tokens[t] = NoAccount
      /\ protocol' = protocol /\ supply.current + amount <= protocol.cap
  BY DEF MintToUser, WithinLimits
<1>3. /\ supply.current \in Nat /\ supply.minted \in Nat /\ supply.burned \in Nat
      /\ supply'.current = supply.current + amount
      /\ supply'.minted = supply.minted + amount
      /\ supply'.burned = supply.burned
  BY <1>1, <1>2 DEF Supply
<1>4. HeldBy(amount) = amount /\ HeldBy(tokens[t]) = 0
  BY <1>1, <1>2 DEF HeldBy, NoAccount
<1>5. HeldBy(amount) - HeldBy(tokens[t]) <= supply'.current - supply.current
  BY <1>1, <1>3, <1>4
<1>6. TokenTypes' /\ SumFunctionOnSet(Held', TokenAccounts) <= supply'.current
  BY <1>1, <1>2, <1>5, OneAccountCovered
<1> QED BY <1>1, <1>2, <1>3, <1>6 DEF TokensInv

LEMMA BurnCovered ==
  ASSUME SupplyInv, TokensInv, SupplyInv', NEW k \in Authorities, NEW t \in TokenAccounts,
         NEW amount \in Amounts, BurnFromUser(k, t, amount)
  PROVE  TokensInv'
<1>1. amount \in Nat /\ supply \in Supply
  BY AmountsAreNat DEF SupplyInv
<1>2. /\ supply' = [supply EXCEPT !.current = supply.current - amount,
                                  !.burned = supply.burned + amount]
      /\ tokens' = [tokens EXCEPT ![t] = tokens[t] - amount] /\ tokens[t] >= amount
      /\ protocol' = protocol
  BY DEF BurnFromUser
<1>3. /\ supply.current \in Nat /\ supply.minted \in Nat /\ supply.burned \in Nat
      /\ supply'.current = supply.current - amount
      /\ supply'.minted = supply.minted
      /\ supply'.burned = supply.burned + amount
  BY <1>1, <1>2 DEF Supply
<1>4. tokens[t] \in Nat /\ tokens[t] - amount \in Nat
  BY <1>1, <1>2 DEF TokensInv, TokenTypes, NoAccount
<1>5. HeldBy(tokens[t] - amount) = tokens[t] - amount /\ HeldBy(tokens[t]) = tokens[t]
  BY <1>4 DEF HeldBy, NoAccount
<1>6. HeldBy(tokens[t] - amount) - HeldBy(tokens[t]) <= supply'.current - supply.current
  BY <1>1, <1>3, <1>4, <1>5
<1>7. TokenTypes' /\ SumFunctionOnSet(Held', TokenAccounts) <= supply'.current
  BY <1>2, <1>4, <1>6, OneAccountCovered
<1>8. protocol # NoProtocol => protocol.cap \in Nat
  BY AmountsAssumption DEF SupplyInv, Protocol
<1>9. protocol' # NoProtocol => supply'.current <= protocol'.cap
  BY <1>1, <1>2, <1>3, <1>8 DEF TokensInv
<1>10. supply'.current = supply'.minted - supply'.burned
  BY <1>1, <1>3 DEF TokensInv
<1> QED BY <1>7, <1>9, <1>10 DEF TokensInv

\* The owners' own steps never raise what is held: opening and closing an empty
\* account, a transfer, and a burn the program is not told of.
LEMMA OwnersCovered ==
  ASSUME SupplyInv, TokensInv, SupplyInv', NEW t \in TokenAccounts, NEW u \in TokenAccounts,
         NEW amount \in Amounts \cup {0},
         \/ TransferTokens(t, u, amount) \/ BurnOwnTokens(t, amount)
         \/ OpenTokenAccount(t) \/ CloseTokenAccount(t)
  PROVE  TokensInv'
<1>1. amount \in Nat /\ supply.current \in Nat
  BY AmountsAreNat DEF SupplyInv, Supply
<1>2. supply' = supply /\ protocol' = protocol
  BY DEF TransferTokens, BurnOwnTokens, OpenTokenAccount, CloseTokenAccount
<1> SUFFICES TokenTypes' /\ SumFunctionOnSet(Held', TokenAccounts) <= supply'.current
  BY <1>2 DEF TokensInv
<1>3. CASE BurnOwnTokens(t, amount)
  <2>1. tokens' = [tokens EXCEPT ![t] = tokens[t] - amount] /\ tokens[t] >= amount
    BY <1>3 DEF BurnOwnTokens
  <2>2. tokens[t] \in Nat /\ tokens[t] - amount \in Nat
    BY <1>1, <2>1 DEF TokensInv, TokenTypes, NoAccount
  <2>3. HeldBy(tokens[t] - amount) - HeldBy(tokens[t]) <= supply'.current - supply.current
    BY <1>1, <1>2, <2>2 DEF HeldBy, NoAccount
  <2> QED BY <2>1, <2>2, <2>3, OneAccountCovered
<1>4. CASE OpenTokenAccount(t)
  <2>1. tokens' = [tokens EXCEPT ![t] = 0] /\ tokens[t] = NoAccount
    BY <1>4 DEF OpenTokenAccount
  <2>2. HeldBy(0) - HeldBy(tokens[t]) <= supply'.current - supply.current
    BY <1>1, <1>2, <2>1 DEF HeldBy, NoAccount
  <2> QED BY <2>1, <2>2, OneAccountCovered
<1>5. CASE CloseTokenAccount(t)
  <2>1. tokens' = [tokens EXCEPT ![t] = NoAccount] /\ tokens[t] = 0
    BY <1>5 DEF CloseTokenAccount
  <2>2. HeldBy(NoAccount) - HeldBy(tokens[t]) <= supply'.current - supply.current
    BY <1>1, <1>2, <2>1 DEF HeldBy, NoAccount
  <2> QED BY <2>1, <2>2, OneAccountCovered
<1>6. CASE TransferTokens(t, u, amount)
  <2>1. /\ tokens' = [tokens EXCEPT ![t] = tokens[t] - amount, ![u] = tokens[u] + amount]
        /\ t # u /\ tokens[u] # NoAccount /\ tokens[t] >= amount
    BY <1>6 DEF TransferTokens, TokensInv, TokenTypes
  <2>2. /\ tokens[t] \in Nat /\ tokens[t] - amount \in Nat
        /\ tokens[u] \in Nat /\ tokens[u] + amount \in Nat
    BY <1>1, <2>1 DEF TokensInv, TokenTypes, NoAccount
  <2>3. TokenTypes'
    BY <2>1, <2>2 DEF TokensInv, TokenTypes
  <2>4. /\ \A v \in TokenAccounts : Held[v] \in Int /\ Held'[v] \in Int
        /\ \A v \in TokenAccounts \ {t, u} : Held'[v] = Held[v]
        /\ Held'[t] = tokens[t] - amount /\ Held[t] = tokens[t]
        /\ Held'[u] = tokens[u] + amount /\ Held[u] = tokens[u]
    BY <2>1, <2>2, <2>3 DEF TokensInv, TokenTypes, Held, HeldBy, NoAccount
  <2>5. SumFunctionOnSet(Held', TokenAccounts)
          = SumFunctionOnSet(Held,
              TokenAccounts) + (Held'[t] - Held[t]) + (Held'[u] - Held[u])
    BY <2>1, <2>4, FiniteAssumption, SumTransfer
  <2>6. SumFunctionOnSet(Held, TokenAccounts) \in Int
    BY <2>4, FiniteAssumption, SumIsInt
  <2>7. SumFunctionOnSet(Held', TokenAccounts) = SumFunctionOnSet(Held, TokenAccounts)
    BY <1>1, <2>2, <2>4, <2>5, <2>6
  <2> QED BY <1>2, <2>3, <2>7 DEF TokensInv
<1> QED BY <1>3, <1>4, <1>5, <1>6

LEMMA TokensKept ==
  ASSUME SupplyInv, TokensInv, [Next]_vars
  PROVE  TokensInv'
<1>1. SupplyInv'
  BY SupplyImplements
<1>2. ASSUME UNCHANGED <<protocol, supply, tokens>>
      PROVE  TokensInv'
  BY <1>2 DEF TokensInv, TokenTypes, Held
<1>3. ASSUME NEW s \in Admins, NEW cap \in Caps, InitializeProtocol(s, cap)
      PROVE  TokensInv'
  <2>1. supply = NoSupply /\ UNCHANGED <<supply, tokens>>
    BY <1>3 DEF InitializeProtocol, SupplyInv, ledger
  <2>2. protocol' # NoProtocol => supply'.current <= protocol'.cap
    <3>1. cap \in Nat /\ cap > 0 /\ protocol'.cap = cap
      BY <1>3, AmountsAssumption DEF InitializeProtocol
    <3>2. supply'.current = 0
      BY <2>1 DEF NoSupply
    <3> QED BY <3>1, <3>2
  <2>3. UNCHANGED Held
    BY <2>1 DEF Held
  <2> QED BY <2>1, <2>2, <2>3 DEF TokensInv, TokenTypes
<1>4. ASSUME NEW s \in Admins, CreateStablecoinMint(s)
      PROVE  TokensInv'
  <2>1. supply = NoSupply /\ supply' = supply /\ UNCHANGED tokens
    BY <1>4 DEF CreateStablecoinMint, IsAdmin, SupplyInv
  <2>2. /\ protocol \in Protocol /\ protocol # NoProtocol
        /\ protocol' = [protocol EXCEPT !.mint = TRUE]
    BY <1>4 DEF CreateStablecoinMint, IsAdmin, SupplyInv
  <2>3. protocol'.cap = protocol.cap
    BY <2>2 DEF Protocol
  <2>4. UNCHANGED Held
    BY <2>1 DEF Held
  <2> QED BY <2>1, <2>2, <2>3, <2>4 DEF TokensInv, TokenTypes
<1>5. ASSUME NEW s \in Admins, NEW k \in Authorities, NEW new \in Authorities,
             \/ \E limit \in Limits : RegisterIssuer(s, k, limit)
             \/ \E paused \in BOOLEAN : SetIssuerPaused(s, k, paused)
             \/ RotateIssuerAuthority(s, k, new)
      PROVE  TokensInv'
  BY <1>2, <1>5 DEF RegisterIssuer, SetIssuerPaused, RotateIssuerAuthority, ledger
<1>6. ASSUME NEW t \in TokenAccounts, NEW u \in TokenAccounts, NEW amount \in Amounts,
             TransferTokens(t, u, amount) \/ BurnOwnTokens(t, amount)
      PROVE  TokensInv'
  BY <1>1, <1>6, OwnersCovered
<1>7. ASSUME NEW t \in TokenAccounts, OpenTokenAccount(t) \/ CloseTokenAccount(t)
      PROVE  TokensInv'
  <2>1. 0 \in Amounts \cup {0}
    OBVIOUS
  <2> QED BY <1>1, <1>7, <2>1, OwnersCovered
<1>8. CASE UNCHANGED vars
  BY <1>2, <1>8 DEF vars
<1> QED BY <1>1, <1>3, <1>4, <1>5, <1>6, <1>7, <1>8, MintCovered, BurnCovered DEF Next

-----------------------------------------------------------------------------
(* Redemption.                                                              *)


Ended == {"Completed", "Cancelled", "Rejected"}
Request == [owner : Keys, amount : Nat, status : Ended \cup {"Pending"}]
Config == [admin : Keys, pending : Keys \cup {Desk!NoKey}, paused : BOOLEAN]

RedemptionTypes ==
    /\ config \in Config \cup {Desk!NoConfig}
    /\ requests \in Seq(Request)

LEMMA ConfigsExist ==
  ASSUME NEW c \in Config
  PROVE  c # Desk!NoConfig
<1>1. "paused" \in DOMAIN c
  BY DEF Config
<1>2. "paused" \notin DOMAIN Desk!NoConfig
  BY DEF Desk!NoConfig
<1> QED BY <1>1, <1>2

\* Filing appends a pending request.
LEMMA Filed ==
  ASSUME RedemptionTypes, NEW o \in Keys, NEW amount \in AskedAmounts,
         Desk!RequestRedemption(o, amount)
  PROVE  LET q == [owner |-> o, amount |-> amount, status |-> "Pending"]
         IN  /\ q \in Request
             /\ requests' = Append(requests, q) /\ requests' \in Seq(Request)
             /\ Len(requests') = Len(requests) + 1
             /\ DOMAIN requests' = DOMAIN requests \cup {Len(requests) + 1}
             /\ Len(requests) + 1 \in 1 .. MaxRequests
             /\ Len(requests) + 1 \notin DOMAIN requests
             /\ requests'[Len(requests) + 1] = q
             /\ \A r \in DOMAIN requests : requests'[r] = requests[r]
<1> DEFINE q == [owner |-> o, amount |-> amount, status |-> "Pending"]
<1>1. q \in Request
  BY RedemptionAssumption DEF Request
<1>2. requests' = Append(requests, q) /\ Len(requests) < MaxRequests
         /\ requests \in Seq(Request)
  BY DEF Desk!RequestRedemption, RedemptionTypes
<1> HIDE DEF q
<1>3. /\ requests' \in Seq(Request)
      /\ Len(requests') = Len(requests) + 1
      /\ DOMAIN requests' = DOMAIN requests \cup {Len(requests) + 1}
      /\ Len(requests) + 1 \notin DOMAIN requests
      /\ requests'[Len(requests) + 1] = q
      /\ \A r \in DOMAIN requests : requests'[r] = requests[r]
  BY <1>1, <1>2
<1>4. Len(requests) + 1 \in 1 .. MaxRequests
  BY <1>2, RedemptionAssumption
<1> QED BY <1>1, <1>2, <1>3, <1>4 DEF q

\* Cancelling, completing and rejecting give one pending request its final
\* status and change nothing else of the requests.
EndsRequest(r, status) ==
    /\ r \in DOMAIN requests /\ requests[r].status = "Pending"
    /\ requests' \in Seq(Request)
    /\ DOMAIN requests' = DOMAIN requests
    /\ requests'[r].amount = requests[r].amount
    /\ requests'[r].status = status
    /\ \A s \in DOMAIN requests : s # r => requests'[s] = requests[s]

LEMMA Ends ==
  ASSUME RedemptionTypes, NEW r, NEW status \in Ended, Desk!Pending(r),
         requests' = [requests EXCEPT ![r].status = status]
  PROVE  EndsRequest(r, status)
<1> DEFINE next == [requests[r] EXCEPT !.status = status]
<1>1. r \in DOMAIN requests /\ requests \in Seq(Request) /\ requests[r].status = "Pending"
  BY DEF Desk!Pending, RedemptionTypes
<1>2. requests[r] \in Request
  BY <1>1
<1>3. next \in Request /\ next.amount = requests[r].amount /\ next.status = status
  BY <1>2 DEF Request, Ended
<1>4. requests' = [requests EXCEPT ![r] = next]
  OBVIOUS
<1> HIDE DEF next
<1>5. requests' \in Seq(Request) /\ requests'[r] = next
  BY <1>1, <1>3, <1>4
<1> QED BY <1>1, <1>3, <1>4, <1>5 DEF EndsRequest

\* What one step does to the requests and to the configuration.
LEMMA RedemptionSteps ==
  ASSUME RedemptionTypes, [Desk!Next]_redemptionVars
  PROVE  \/ UNCHANGED <<config, requests, log>>
         \/ \E s \in Keys : Desk!InitializeProtocol(s)
         \/ \E s \in Keys, amount \in AskedAmounts : Desk!RequestRedemption(s, amount)
         \/ \E s \in Keys, r \in DOMAIN requests :
               Desk!CancelRedemption(s, r) \/ Desk!CompleteRedemption(s, r)
                   \/ Desk!RejectRedemption(s, r)
         \/ \E s \in Keys, paused \in BOOLEAN : Desk!SetRedemptionsPaused(s, paused)
         \/ \E s \in Keys, new \in Keys \cup {Desk!NoKey} : Desk!BeginAdminTransfer(s, new)
         \/ \E s \in Keys : Desk!AcceptAdminTransfer(s)
  BY DEF Desk!Next, redemptionVars

LEMMA CancelEnds ==
  ASSUME RedemptionTypes, NEW s \in Keys, NEW r \in DOMAIN requests,
         Desk!CancelRedemption(s, r)
  PROVE  EndsRequest(r, "Cancelled") /\ UNCHANGED <<config, log>>
  BY Ends DEF Desk!CancelRedemption, Ended

LEMMA CompleteEnds ==
  ASSUME RedemptionTypes, NEW s \in Keys, NEW r \in DOMAIN requests,
         Desk!CompleteRedemption(s, r)
  PROVE  /\ EndsRequest(r, "Completed") /\ UNCHANGED config /\ Desk!IsAdmin(s)
         /\ Desk!WriteAdminLog(s, "CompleteRedemption", r, requests[r].amount)
  BY Ends DEF Desk!CompleteRedemption, Desk!SettleRequest, Ended

LEMMA RejectEnds ==
  ASSUME RedemptionTypes, NEW s \in Keys, NEW r \in DOMAIN requests,
         Desk!RejectRedemption(s, r)
  PROVE  /\ EndsRequest(r, "Rejected") /\ UNCHANGED config /\ Desk!IsAdmin(s)
         /\ Desk!WriteAdminLog(s, "RejectRedemption", r, requests[r].amount)
  BY Ends DEF Desk!RejectRedemption, Desk!SettleRequest, Ended

LEMMA TypesKept ==
  ASSUME RedemptionTypes, [Desk!Next]_redemptionVars
  PROVE  RedemptionTypes'
<1>1. CASE UNCHANGED <<config, requests, log>>
  BY <1>1 DEF RedemptionTypes
<1>2. ASSUME NEW s \in Keys, Desk!InitializeProtocol(s)
      PROVE  RedemptionTypes'
  BY <1>2 DEF Desk!InitializeProtocol, RedemptionTypes, Config
<1>3. ASSUME NEW s \in Keys, NEW amount \in AskedAmounts, Desk!RequestRedemption(s, amount)
      PROVE  RedemptionTypes'
  BY <1>3, Filed DEF Desk!RequestRedemption, RedemptionTypes
<1>4. ASSUME NEW s \in Keys, NEW r \in DOMAIN requests,
             Desk!CancelRedemption(s, r) \/ Desk!CompleteRedemption(s, r)
                 \/ Desk!RejectRedemption(s, r)
      PROVE  RedemptionTypes'
  BY <1>4, CancelEnds, CompleteEnds, RejectEnds DEF EndsRequest, RedemptionTypes
<1>5. ASSUME NEW s \in Keys, NEW paused \in BOOLEAN, Desk!SetRedemptionsPaused(s, paused)
      PROVE  RedemptionTypes'
  BY <1>5 DEF Desk!SetRedemptionsPaused, Desk!IsAdmin, Desk!Initialized, RedemptionTypes,
     Config
<1>6. ASSUME NEW s \in Keys, NEW new \in Keys \cup {Desk!NoKey},
             Desk!BeginAdminTransfer(s, new)
      PROVE  RedemptionTypes'
  BY <1>6 DEF Desk!BeginAdminTransfer, Desk!IsAdmin, Desk!Initialized, RedemptionTypes,
     Config
<1>7. ASSUME NEW s \in Keys, Desk!AcceptAdminTransfer(s)
      PROVE  RedemptionTypes'
  BY <1>7 DEF Desk!AcceptAdminTransfer, Desk!Initialized, RedemptionTypes, Config
<1> QED BY <1>1, <1>2, <1>3, <1>4, <1>5, <1>6, <1>7, RedemptionSteps

-----------------------------------------------------------------------------
(* The refinement.                                                          *)

RequestModel == [amount : Int, status : Ended \cup {"Pending"}, outstanding : Int,
          completed : Int, cancelled : Int, rejected : Int]

LEMMA ModelOfRequest ==
  ASSUME NEW q \in Request
  PROVE  /\ Desk!ModelOf(q) \in RequestModel
         /\ Desk!ModelOf(q).amount = q.amount /\ Desk!ModelOf(q).status = q.status
         /\ Desk!ModelOf(q).outstanding = IF q.status = "Pending" THEN q.amount ELSE 0
         /\ Desk!ModelOf(q).completed = IF q.status = "Completed" THEN q.amount ELSE 0
         /\ Desk!ModelOf(q).cancelled = IF q.status = "Cancelled" THEN q.amount ELSE 0
         /\ Desk!ModelOf(q).rejected = IF q.status = "Rejected" THEN q.amount ELSE 0
  BY DEF Desk!ModelOf, Request, RequestModel, Ended

\* Two models are equal when their fields are.
LEMMA CompletedModel ==
  ASSUME NEW m \in RequestModel, NEW n \in RequestModel, n.status = "Completed",
         n.amount = m.amount, n.outstanding = m.outstanding - m.amount,
         n.completed = m.amount, n.cancelled = m.cancelled, n.rejected = m.rejected
  PROVE  n = [m EXCEPT !.status = "Completed", !.completed = m.amount,
                       !.outstanding = m.outstanding - m.amount]
  BY DEF RequestModel

LEMMA CancelledModel ==
  ASSUME NEW m \in RequestModel, NEW n \in RequestModel, n.status = "Cancelled",
         n.amount = m.amount, n.outstanding = m.outstanding - m.amount,
         n.cancelled = m.amount, n.completed = m.completed, n.rejected = m.rejected
  PROVE  n = [m EXCEPT !.status = "Cancelled", !.cancelled = m.amount,
                       !.outstanding = m.outstanding - m.amount]
  BY DEF RequestModel

LEMMA RejectedModel ==
  ASSUME NEW m \in RequestModel, NEW n \in RequestModel, n.status = "Rejected",
         n.amount = m.amount, n.outstanding = m.outstanding - m.amount,
         n.rejected = m.amount, n.completed = m.completed, n.cancelled = m.cancelled
  PROVE  n = [m EXCEPT !.status = "Rejected", !.rejected = m.amount,
                       !.outstanding = m.outstanding - m.amount]
  BY DEF RequestModel

\* What the models of a state hold.
LEMMA ModelsHold ==
  ASSUME NEW r \in 1 .. MaxRequests
  PROVE  /\ r \in DOMAIN requests => Desk!Models[r] = Desk!ModelOf(requests[r])
         /\ r \notin DOMAIN requests => Desk!Models[r] = [status |-> "None"]
  BY DEF Desk!Models

LEMMA FilingImplements ==
  ASSUME RedemptionTypes, NEW o \in Keys, NEW amount \in AskedAmounts,
         Desk!RequestRedemption(o, amount)
  PROVE  Desk!Reference!Next
<1> DEFINE n == Len(requests) + 1
           q == [owner |-> o, amount |-> amount, status |-> "Pending"]
           m == [amount |-> amount, status |-> "Pending", outstanding |-> amount,
                 completed |-> 0, cancelled |-> 0, rejected |-> 0]
<1>1. /\ n \in 1 .. MaxRequests /\ n \notin DOMAIN requests
      /\ DOMAIN requests' = DOMAIN requests \cup {n}
      /\ requests'[n] = q
      /\ \A r \in DOMAIN requests : requests'[r] = requests[r]
  BY Filed
<1>2. Desk!ModelOf(q) = m
  BY DEF Desk!ModelOf
<1> HIDE DEF n, q, m
<1>3. Desk!Models[n] = Desk!Reference!NoRequest
  BY <1>1, ModelsHold DEF Desk!Reference!NoRequest
<1>4. Desk!Models' = [Desk!Models EXCEPT ![n] = m]
  <2>1. ASSUME NEW r \in 1 .. MaxRequests
        PROVE  Desk!Models'[r] = IF r = n THEN m ELSE Desk!Models[r]
    BY <1>1, <1>2 DEF Desk!Models
  <2> QED BY <2>1 DEF Desk!Models
<1>5. UNCHANGED <<config.admin, Desk!Nominee>>
  BY DEF Desk!RequestRedemption, Desk!Nominee, Desk!Initialized
<1>6. Desk!Reference!NewRequest(n, amount)
  BY <1>3, <1>4, <1>5 DEF Desk!Reference!NewRequest, Desk!Reference!role, m
<1> QED BY <1>1, <1>6 DEF Desk!Reference!Next

\* The models after a request has ended: its own alone is another.
LEMMA EndedModels ==
  ASSUME RedemptionTypes, NEW r, NEW status \in Ended, EndsRequest(r, status),
         r \in 1 .. MaxRequests
  PROVE  /\ Desk!Models[r] = Desk!ModelOf(requests[r]) /\ Desk!Models[r].status = "Pending"
         /\ Desk!Models' = [Desk!Models EXCEPT ![r] = Desk!ModelOf(requests'[r])]
<1>1. r \in DOMAIN requests /\ requests[r] \in Request /\ requests[r].status = "Pending"
  BY DEF EndsRequest, RedemptionTypes
<1>2. Desk!Models[r] = Desk!ModelOf(requests[r]) /\ Desk!Models[r].status = "Pending"
  BY <1>1, ModelsHold, ModelOfRequest
<1>3. ASSUME NEW s \in 1 .. MaxRequests
      PROVE  Desk!Models'[s] = IF s = r THEN Desk!ModelOf(requests'[r]) ELSE Desk!Models[s]
  BY <1>1 DEF EndsRequest, Desk!Models
<1> QED BY <1>2, <1>3 DEF Desk!Models

\* One of the three totals of the model takes the request's amount.
LEMMA EndingSettles ==
  ASSUME RedemptionTypes, NEW r, NEW status \in Ended, EndsRequest(r, status),
         r \in 1 .. MaxRequests, UNCHANGED <<config.admin, Desk!Nominee>>
  PROVE  /\ status = "Completed" => Desk!Reference!Settle(r, "Completed", "completed")
         /\ status = "Cancelled" => Desk!Reference!Settle(r, "Cancelled", "cancelled")
         /\ status = "Rejected" => Desk!Reference!Settle(r, "Rejected", "rejected")
<1> DEFINE m == Desk!ModelOf(requests[r])
           n == Desk!ModelOf(requests'[r])
<1>1. /\ r \in DOMAIN requests /\ r \in DOMAIN requests'
      /\ requests[r] \in Request /\ requests'[r] \in Request
      /\ requests[r].status = "Pending" /\ requests'[r].status = status
      /\ requests'[r].amount = requests[r].amount
  BY DEF EndsRequest, RedemptionTypes
<1>2. /\ m \in RequestModel /\ n \in RequestModel /\ n.status = status /\ n.amount
            = m.amount
      /\ m.outstanding = m.amount /\ m.completed = 0 /\ m.cancelled = 0 /\ m.rejected = 0
      /\ n.outstanding = 0
      /\ n.completed = IF status = "Completed" THEN m.amount ELSE 0
      /\ n.cancelled = IF status = "Cancelled" THEN m.amount ELSE 0
      /\ n.rejected = IF status = "Rejected" THEN m.amount ELSE 0
  BY <1>1, ModelOfRequest DEF Ended
<1>3. /\ Desk!Models[r] = m /\ Desk!Models[r].status = "Pending"
      /\ Desk!Models' = [Desk!Models EXCEPT ![r] = n]
  BY EndedModels
<1> HIDE DEF m, n
<1>4. n.outstanding = m.outstanding - m.amount
  BY <1>2 DEF RequestModel
<1>5. CASE status = "Completed"
  <2>1. n = [m EXCEPT !.status = "Completed", !.completed = m.amount,
                      !.outstanding = m.outstanding - m.amount]
    <3>1. /\ n.completed = m.amount /\ n.cancelled = m.cancelled
          /\ n.rejected = m.rejected /\ n.status = "Completed"
      BY <1>2, <1>5
    <3> QED BY <1>2, <1>4, <3>1, CompletedModel, Zenon
  <2> QED BY <1>3, <1>5, <2>1 DEF Desk!Reference!Settle, Desk!Reference!role
<1>6. CASE status = "Cancelled"
  <2>1. n = [m EXCEPT !.status = "Cancelled", !.cancelled = m.amount,
                      !.outstanding = m.outstanding - m.amount]
    <3>1. /\ n.cancelled = m.amount /\ n.completed = m.completed
          /\ n.rejected = m.rejected /\ n.status = "Cancelled"
      BY <1>2, <1>6
    <3> QED BY <1>2, <1>4, <3>1, CancelledModel, Zenon
  <2> QED BY <1>3, <1>6, <2>1 DEF Desk!Reference!Settle, Desk!Reference!role
<1>7. CASE status = "Rejected"
  <2>1. n = [m EXCEPT !.status = "Rejected", !.rejected = m.amount,
                      !.outstanding = m.outstanding - m.amount]
    <3>1. /\ n.rejected = m.amount /\ n.completed = m.completed
          /\ n.cancelled = m.cancelled /\ n.status = "Rejected"
      BY <1>2, <1>7
    <3> QED BY <1>2, <1>4, <3>1, RejectedModel, Zenon
  <2> QED BY <1>3, <1>7, <2>1 DEF Desk!Reference!Settle, Desk!Reference!role
<1> QED BY <1>5, <1>6, <1>7 DEF Ended

LEMMA DecidingImplements ==
  ASSUME RedemptionTypes, Len(requests) <= MaxRequests,
         NEW s \in Keys, NEW r \in DOMAIN requests,
         Desk!CancelRedemption(s, r) \/ Desk!CompleteRedemption(s, r)
             \/ Desk!RejectRedemption(s, r)
  PROVE  Desk!Reference!Next
<1>1. r \in 1 .. MaxRequests
  BY RedemptionAssumption DEF RedemptionTypes
<1>2. UNCHANGED config => UNCHANGED <<config.admin, Desk!Nominee>>
  BY DEF Desk!Nominee, Desk!Initialized
<1>3. CASE Desk!CancelRedemption(s, r)
  <2>1. Desk!Reference!Settle(r, "Cancelled", "cancelled")
    BY <1>1, <1>2, <1>3, CancelEnds, EndingSettles DEF Ended
  <2> QED BY <1>1, <2>1 DEF Desk!Reference!Next
<1>4. CASE Desk!CompleteRedemption(s, r)
  <2>1. Desk!Reference!Settle(r, "Completed", "completed")
    BY <1>1, <1>2, <1>4, CompleteEnds, EndingSettles DEF Ended
  <2> QED BY <1>1, <2>1 DEF Desk!Reference!Next
<1>5. CASE Desk!RejectRedemption(s, r)
  <2>1. Desk!Reference!Settle(r, "Rejected", "rejected")
    BY <1>1, <1>2, <1>5, RejectEnds, EndingSettles DEF Ended
  <2> QED BY <1>1, <2>1 DEF Desk!Reference!Next
<1> QED BY <1>3, <1>4, <1>5

\* The role of admin: taken once, offered by its holder, accepted by the key it
\* was last offered to.
LEMMA RoleImplements ==
  ASSUME RedemptionTypes, UNCHANGED Desk!Models
  PROVE  /\ \A s \in Keys : Desk!InitializeProtocol(s) => Desk!Reference!NewAdmin(s)
         /\ \A s \in Keys, paused \in BOOLEAN :
               Desk!SetRedemptionsPaused(s, paused) => UNCHANGED <<config.admin,
                   Desk!Nominee>>
         /\ \A s \in Keys, new \in Keys \cup {Desk!NoKey} :
               Desk!BeginAdminTransfer(s, new) =>
                  new \in Keys /\ Desk!Reference!Begin(s, new)
         /\ \A s \in Keys : Desk!AcceptAdminTransfer(s) => Desk!Reference!Accept(s)
<1>1. Desk!Initialized => config \in Config
  BY DEF Desk!Initialized, RedemptionTypes
<1>2. config' \in Config => Desk!Initialized'
  BY ConfigsExist DEF Desk!Initialized
<1>3. ASSUME NEW s \in Keys, Desk!InitializeProtocol(s)
      PROVE  Desk!Reference!NewAdmin(s)
  <2>1. config' \in Config /\ config'.admin = s /\ config'.pending = Desk!NoKey
    BY <1>3 DEF Desk!InitializeProtocol, Config
  <2>2. config = Desk!NoConfig /\ config.admin = Desk!NoKey /\ Desk!Nominee = Desk!NoKey
    BY <1>3 DEF Desk!InitializeProtocol, Desk!Initialized, Desk!NoConfig, Desk!Nominee
  <2> QED BY <1>2, <2>1, <2>2 DEF Desk!Reference!NewAdmin, Desk!Nominee
<1>4. ASSUME NEW s \in Keys, NEW paused \in BOOLEAN, Desk!SetRedemptionsPaused(s, paused)
      PROVE  UNCHANGED <<config.admin, Desk!Nominee>>
  <2>1. Desk!Initialized /\ config' = [config EXCEPT !.paused = paused]
    BY <1>4 DEF Desk!SetRedemptionsPaused, Desk!IsAdmin
  <2>2. /\ config' \in Config /\ config'.admin = config.admin
        /\ config'.pending = config.pending
    BY <1>1, <2>1 DEF Config
  <2> QED BY <1>2, <2>1, <2>2 DEF Desk!Nominee
<1>5. ASSUME NEW s \in Keys, NEW new \in Keys \cup {Desk!NoKey},
             Desk!BeginAdminTransfer(s, new)
      PROVE  new \in Keys /\ Desk!Reference!Begin(s, new)
  <2>1. /\ Desk!Initialized /\ s = config.admin /\ new # Desk!NoKey
        /\ config' = [config EXCEPT !.pending = new]
    BY <1>5 DEF Desk!BeginAdminTransfer, Desk!IsAdmin
  <2>2. config' \in Config /\ config'.admin = config.admin /\ config'.pending = new
    BY <1>1, <2>1 DEF Config
  <2> QED BY <1>2, <2>1, <2>2 DEF Desk!Reference!Begin, Desk!Nominee
<1>6. ASSUME NEW s \in Keys, Desk!AcceptAdminTransfer(s)
      PROVE  Desk!Reference!Accept(s)
  <2>1. /\ Desk!Initialized /\ s = config.pending
        /\ config' = [config EXCEPT !.admin = s, !.pending = Desk!NoKey]
    BY <1>6 DEF Desk!AcceptAdminTransfer
  <2>2. config' \in Config /\ config'.admin = s /\ config'.pending = Desk!NoKey
    BY <1>1, <2>1 DEF Config
  <2>3. Desk!Nominee = s /\ s # Desk!NoKey
    BY <2>1, RedemptionAssumption DEF Desk!Nominee
  <2> QED BY <1>2, <2>2, <2>3 DEF Desk!Reference!Accept, Desk!Nominee
<1> QED BY <1>3, <1>4, <1>5, <1>6

RedemptionInv == RedemptionTypes /\ Len(requests) <= MaxRequests

LEMMA RedemptionImplements ==
  ASSUME RedemptionInv, [Desk!Next]_redemptionVars
  PROVE  RedemptionInv' /\ [Desk!Reference!Next]_<<Desk!Models, config.admin, Desk!Nominee>>
<1>0. RedemptionTypes'
  BY TypesKept DEF RedemptionInv
<1>1. UNCHANGED requests => UNCHANGED Desk!Models /\ Len(requests') <= MaxRequests
  BY DEF Desk!Models, RedemptionInv
<1>2. CASE UNCHANGED <<config, requests, log>>
  BY <1>0, <1>1, <1>2 DEF RedemptionInv, Desk!Nominee, Desk!Initialized
<1>3. ASSUME NEW s \in Keys, Desk!InitializeProtocol(s)
      PROVE  UNCHANGED requests /\ Desk!Reference!Next
  BY <1>1, <1>3, RoleImplements DEF Desk!InitializeProtocol, RedemptionInv,
     Desk!Reference!Next
<1>4. ASSUME NEW s \in Keys, NEW amount \in AskedAmounts, Desk!RequestRedemption(s, amount)
      PROVE  Len(requests') <= MaxRequests /\ Desk!Reference!Next
  <2>1. Desk!Reference!Next
    BY <1>4, FilingImplements DEF RedemptionInv
  <2>2. Len(requests') = Len(requests) + 1 /\ Len(requests) + 1 \in 1 .. MaxRequests
    BY <1>4, Filed DEF RedemptionInv
  <2> QED BY <2>1, <2>2, RedemptionAssumption
<1>5. ASSUME NEW s \in Keys, NEW r \in DOMAIN requests,
             Desk!CancelRedemption(s, r) \/ Desk!CompleteRedemption(s, r)
                 \/ Desk!RejectRedemption(s, r)
      PROVE  Len(requests') <= MaxRequests /\ Desk!Reference!Next
  <2>1. Desk!Reference!Next
    BY <1>5, DecidingImplements DEF RedemptionInv
  <2>2. DOMAIN requests' = DOMAIN requests /\ requests' \in Seq(Request)
    BY <1>5, CancelEnds, CompleteEnds, RejectEnds DEF EndsRequest, RedemptionInv
  <2>3. Len(requests') = Len(requests)
    BY <2>2 DEF RedemptionInv, RedemptionTypes
  <2> QED BY <2>1, <2>3 DEF RedemptionInv
<1>6. ASSUME NEW s \in Keys, NEW paused \in BOOLEAN, Desk!SetRedemptionsPaused(s, paused)
      PROVE  UNCHANGED requests /\ UNCHANGED <<config.admin, Desk!Nominee>>
  BY <1>1, <1>6, RoleImplements DEF Desk!SetRedemptionsPaused, RedemptionInv
<1>7. ASSUME NEW s \in Keys, NEW new \in Keys \cup {Desk!NoKey},
             Desk!BeginAdminTransfer(s, new)
      PROVE  UNCHANGED requests /\ Desk!Reference!Next
  BY <1>1, <1>7, RoleImplements DEF Desk!BeginAdminTransfer, RedemptionInv,
     Desk!Reference!Next
<1>8. ASSUME NEW s \in Keys, Desk!AcceptAdminTransfer(s)
      PROVE  UNCHANGED requests /\ Desk!Reference!Next
  BY <1>1, <1>8, RoleImplements DEF Desk!AcceptAdminTransfer, RedemptionInv,
     Desk!Reference!Next
<1> QED BY <1>0, <1>1, <1>2, <1>3, <1>4, <1>5, <1>6, <1>7, <1>8, RedemptionSteps
        DEF RedemptionInv

-----------------------------------------------------------------------------
(* The vault. Its totals are sums over the requests; a request moves from   *)
(* one sum to another when its status does.                                 *)

VaultTotals == [outstanding : Nat, requested : Nat, completed : Nat, cancelled : Nat,
    rejected : Nat]

\* What one request, and all of a sequence, count for a set of statuses.
Share(q, statuses) == IF q.status \in statuses THEN q.amount ELSE 0

Sharing(qs, statuses) == [r \in DOMAIN qs |-> Share(qs[r], statuses)]

Total(qs, statuses) == SumFunctionOnSet(Sharing(qs, statuses), DOMAIN qs)

VaultInv ==
    /\ RedemptionTypes
    /\ config = Desk!NoConfig => requests = <<>>
    /\ vault \in VaultTotals
    /\ vault.outstanding = Total(requests, {"Pending"})
    /\ vault.completed = Total(requests, {"Completed"})
    /\ vault.cancelled = Total(requests, {"Cancelled"})
    /\ vault.rejected = Total(requests, {"Rejected"})
    /\ vault.requested = Total(requests, {"Pending", "Completed", "Cancelled", "Rejected"})
    /\ vault.requested <= MaxAmount

LEMMA RequestsFinite ==
  ASSUME NEW qs \in Seq(Request)
  PROVE  IsFiniteSet(DOMAIN qs)
<1>1. DOMAIN qs = 1 .. Len(qs) /\ Len(qs) \in Nat
  OBVIOUS
<1> QED BY <1>1, FS_Interval

LEMMA SharesAreNat ==
  ASSUME NEW qs \in Seq(Request), NEW statuses
  PROVE  /\ \A r \in DOMAIN qs : Share(qs[r], statuses) \in Nat
         /\ \A r \in DOMAIN qs : Sharing(qs, statuses)[r] = Share(qs[r], statuses)
         /\ Total(qs, statuses) \in Nat
<1>1. ASSUME NEW r \in DOMAIN qs
      PROVE  Share(qs[r], statuses) \in Nat
  <2>1. qs[r] \in Request
    OBVIOUS
  <2> QED BY <2>1 DEF Share, Request
<1>2. \A r \in DOMAIN qs : Sharing(qs, statuses)[r] = Share(qs[r], statuses)
  BY DEF Sharing
<1> QED BY <1>1, <1>2, SumIsNat, RequestsFinite DEF Total

\* Filing a request adds its amount to the sums of its status.
LEMMA FilingAdds ==
  ASSUME NEW qs \in Seq(Request), NEW next \in Seq(Request), NEW n, n \notin DOMAIN qs,
         DOMAIN next = DOMAIN qs \cup {n}, \A r \in DOMAIN qs : next[r] = qs[r],
             NEW statuses
  PROVE  Total(next, statuses) = Total(qs, statuses) + Share(next[n], statuses)
<1> DEFINE f == Sharing(qs, statuses)
           g == Sharing(next, statuses)
<1>1. \A r \in DOMAIN qs : g[r] = f[r]
  BY DEF Sharing
<1>2. /\ \A r \in DOMAIN qs \cup {n} : g[r] \in Int
      /\ g[n] = Share(next[n], statuses) /\ g[n] \in Int
  <2>1. /\ \A r \in DOMAIN next : g[r] = Share(next[r], statuses)
        /\ \A r \in DOMAIN next : Share(next[r], statuses) \in Nat
    BY SharesAreNat
  <2> QED BY <2>1
<1>3. IsFiniteSet(DOMAIN qs)
  BY RequestsFinite
<1>4. Total(qs, statuses) \in Int
  BY SharesAreNat
<1> HIDE DEF f, g
<1>5. SumFunctionOnSet(g, DOMAIN qs \cup {n}) = g[n] + SumFunctionOnSet(g, DOMAIN qs)
  BY <1>2, <1>3, SumAdd
<1>6. SumFunctionOnSet(g, DOMAIN qs) = SumFunctionOnSet(f, DOMAIN qs)
  BY <1>1, <1>3, SumCongruent
<1>7. /\ Total(next, statuses) = SumFunctionOnSet(g, DOMAIN qs \cup {n})
      /\ Total(qs, statuses) = SumFunctionOnSet(f, DOMAIN qs)
  BY DEF Total, f, g
<1> QED BY <1>2, <1>4, <1>5, <1>6, <1>7

\* Ending a request moves its amount.
LEMMA EndingMoves ==
  ASSUME NEW qs \in Seq(Request), NEW next \in Seq(Request), NEW r \in DOMAIN qs,
         DOMAIN next = DOMAIN qs, \A s \in DOMAIN qs : s # r => next[s] = qs[s],
             NEW statuses
  PROVE  Total(next, statuses)
           = Total(qs, statuses) + (Share(next[r], statuses) - Share(qs[r], statuses))
<1> DEFINE f == Sharing(qs, statuses)
           g == Sharing(next, statuses)
<1>1. /\ \A s \in DOMAIN qs : f[s] = Share(qs[s], statuses) /\ f[s] \in Int
      /\ \A s \in DOMAIN qs : g[s] = Share(next[s], statuses) /\ g[s] \in Int
  <2>1. /\ \A s \in DOMAIN qs : f[s] = Share(qs[s], statuses)
        /\ \A s \in DOMAIN qs : Share(qs[s], statuses) \in Nat
        /\ \A s \in DOMAIN next : g[s] = Share(next[s], statuses)
        /\ \A s \in DOMAIN next : Share(next[s], statuses) \in Nat
    BY SharesAreNat
  <2> QED BY <2>1
<1>2. IsFiniteSet(DOMAIN qs)
  BY RequestsFinite
<1>3. /\ Total(next, statuses) = SumFunctionOnSet(g, DOMAIN qs)
      /\ Total(qs, statuses) = SumFunctionOnSet(f, DOMAIN qs)
  BY DEF Total
<1> HIDE DEF f, g
<1>4. \A s \in DOMAIN qs \ {r} : g[s] = f[s]
  BY <1>1
<1>5. SumFunctionOnSet(g, DOMAIN qs) = SumFunctionOnSet(f, DOMAIN qs) + (g[r] - f[r])
  BY <1>1, <1>2, <1>4, SumUpdate
<1> QED BY <1>1, <1>3, <1>5

LEMMA TotalsFields ==
  ASSUME NEW v \in VaultTotals
  PROVE  /\ v.outstanding \in Nat /\ v.requested \in Nat /\ v.completed \in Nat
         /\ v.cancelled \in Nat /\ v.rejected \in Nat
  BY DEF VaultTotals

\* request_redemption: the sums of all and of the pending requests grow.
LEMMA FilingKeepsVault ==
  ASSUME VaultInv, RedemptionTypes', NEW o \in Keys, NEW amount \in AskedAmounts,
         Desk!RequestRedemption(o, amount)
  PROVE  VaultInv'
<1> DEFINE n == Len(requests) + 1
           q == [owner |-> o, amount |-> amount, status |-> "Pending"]
<1>1. /\ requests \in Seq(Request) /\ requests' \in Seq(Request)
      /\ DOMAIN requests' = DOMAIN requests \cup {n} /\ n \notin DOMAIN requests
      /\ requests'[n] = q
      /\ \A r \in DOMAIN requests : requests'[r] = requests[r]
  BY Filed DEF VaultInv, RedemptionTypes
<1>2. q.status = "Pending" /\ q.amount = amount /\ amount \in Nat
  BY RedemptionAssumption
<1>3. /\ vault \in VaultTotals /\ config' = config /\ config # Desk!NoConfig
      /\ vault.requested + amount <= MaxAmount
      /\ vault' = [vault EXCEPT !.outstanding = vault.outstanding + amount,
                                !.requested = vault.requested + amount]
  BY DEF Desk!RequestRedemption, Desk!Initialized, VaultInv
<1>4. /\ vault' \in VaultTotals
      /\ vault'.outstanding = vault.outstanding + amount
      /\ vault'.requested = vault.requested + amount
      /\ vault'.completed = vault.completed
      /\ vault'.cancelled = vault.cancelled
      /\ vault'.rejected = vault.rejected
  <2>1. vault.outstanding + amount \in Nat /\ vault.requested + amount \in Nat
    BY <1>2, <1>3, TotalsFields
  <2> QED BY <1>3, <2>1 DEF VaultTotals
<1> HIDE DEF n, q
<1>5. \A statuses : Total(requests', statuses) = Total(requests, statuses) + Share(q,
         statuses)
  BY <1>1, FilingAdds
<1>6. /\ Share(q, {"Pending"}) = amount
      /\ Share(q, {"Pending", "Completed", "Cancelled", "Rejected"}) = amount
      /\ Share(q, {"Completed"}) = 0 /\ Share(q, {"Cancelled"}) = 0
      /\ Share(q, {"Rejected"}) = 0
  BY <1>2 DEF Share
<1>7. \A statuses : Total(requests, statuses) \in Nat
  BY <1>1, SharesAreNat
<1> QED BY <1>3, <1>4, <1>5, <1>6, <1>7 DEF VaultInv

\* What a request counts for before and after it ends.
LEMMA EndedShares ==
  ASSUME RedemptionTypes, RedemptionTypes', NEW r, NEW status \in Ended, EndsRequest(r,
         status)
  PROVE  /\ requests[r].amount \in Nat
         /\ \A statuses : /\ Total(requests, statuses) \in Nat
                          /\ Total(requests', statuses) = Total(requests, statuses)
                               + ((IF status \in statuses THEN requests[r].amount ELSE 0)
                                  - (IF "Pending" \in statuses THEN requests[r].amount
                                      ELSE 0))
<1>1. /\ requests \in Seq(Request) /\ requests' \in Seq(Request)
      /\ r \in DOMAIN requests /\ DOMAIN requests' = DOMAIN requests
      /\ requests[r].status = "Pending" /\ requests'[r].status = status
      /\ requests'[r].amount = requests[r].amount
      /\ \A s \in DOMAIN requests : s # r => requests'[s] = requests[s]
  BY DEF RedemptionTypes, EndsRequest
<1>2. requests[r].amount \in Nat
  <2>1. requests[r] \in Request
    BY <1>1
  <2> QED BY <2>1 DEF Request
<1>3. ASSUME NEW statuses
      PROVE  /\ Total(requests, statuses) \in Nat
             /\ Total(requests', statuses) = Total(requests, statuses)
                  + (Share(requests'[r], statuses) - Share(requests[r], statuses))
  BY <1>1, EndingMoves, SharesAreNat
<1>4. ASSUME NEW statuses
      PROVE  /\ Share(requests'[r], statuses)
                  = IF status \in statuses THEN requests[r].amount ELSE 0
             /\ Share(requests[r], statuses)
                  = IF "Pending" \in statuses THEN requests[r].amount ELSE 0
  BY <1>1 DEF Share
<1> QED BY <1>2, <1>3, <1>4

LEMMA CancellingKeepsVault ==
  ASSUME VaultInv, RedemptionTypes', NEW s \in Keys, NEW r \in DOMAIN requests,
         Desk!CancelRedemption(s, r)
  PROVE  VaultInv'
<1> DEFINE amount == requests[r].amount
<1>0. config # Desk!NoConfig
  BY DEF VaultInv
<1>1. /\ EndsRequest(r, "Cancelled") /\ config' = config
      /\ vault.outstanding >= amount
      /\ vault' = [vault EXCEPT !.outstanding = vault.outstanding - amount,
                                !.cancelled = vault.cancelled + amount]
  BY CancelEnds DEF Desk!CancelRedemption, VaultInv
<1>2. /\ amount \in Nat
      /\ \A statuses : /\ Total(requests, statuses) \in Nat
                       /\ Total(requests', statuses) = Total(requests, statuses)
                            + ((IF "Cancelled" \in statuses THEN amount ELSE 0)
                               - (IF "Pending" \in statuses THEN amount ELSE 0))
  BY <1>1, EndedShares DEF VaultInv, Ended
<1> HIDE DEF amount
<1>3. vault \in VaultTotals /\ vault.outstanding \in Nat /\ vault.cancelled \in Nat
  BY TotalsFields DEF VaultInv
<1>4. /\ vault' \in VaultTotals
      /\ vault'.outstanding = vault.outstanding - amount
      /\ vault'.cancelled = vault.cancelled + amount
      /\ vault'.requested = vault.requested
      /\ vault'.completed = vault.completed
      /\ vault'.rejected = vault.rejected
  <2>1. vault.outstanding - amount \in Nat /\ vault.cancelled + amount \in Nat
    BY <1>1, <1>2, <1>3
  <2> QED BY <1>1, <1>3, <2>1 DEF VaultTotals
<1>5. /\ Total(requests', {"Pending"}) = Total(requests, {"Pending"}) - amount
      /\ Total(requests', {"Cancelled"}) = Total(requests, {"Cancelled"}) + amount
      /\ Total(requests', {"Completed"}) = Total(requests, {"Completed"})
      /\ Total(requests', {"Rejected"}) = Total(requests, {"Rejected"})
      /\ Total(requests', {"Pending", "Completed", "Cancelled", "Rejected"})
           = Total(requests, {"Pending", "Completed", "Cancelled", "Rejected"})
  BY <1>2
<1>6. config' = Desk!NoConfig => requests' = <<>>
  BY <1>0, <1>1
<1> QED BY <1>4, <1>5, <1>6 DEF VaultInv

LEMMA CompletingKeepsVault ==
  ASSUME VaultInv, RedemptionTypes', NEW s \in Keys, NEW r \in DOMAIN requests,
         Desk!CompleteRedemption(s, r)
  PROVE  VaultInv'
<1> DEFINE amount == requests[r].amount
<1>0. config # Desk!NoConfig
  BY DEF Desk!CompleteRedemption, Desk!SettleRequest, Desk!IsAdmin, Desk!Initialized
<1>1. /\ EndsRequest(r, "Completed") /\ config' = config
      /\ vault.outstanding >= amount
      /\ vault' = [vault EXCEPT !.outstanding = vault.outstanding - amount,
                                !.completed = vault.completed + amount]
  <2>1. EndsRequest(r, "Completed") /\ config' = config
    BY CompleteEnds DEF VaultInv
  <2> QED BY <2>1 DEF Desk!CompleteRedemption, Desk!SettleRequest
<1>2. /\ amount \in Nat
      /\ \A statuses : /\ Total(requests, statuses) \in Nat
                       /\ Total(requests', statuses) = Total(requests, statuses)
                            + ((IF "Completed" \in statuses THEN amount ELSE 0)
                               - (IF "Pending" \in statuses THEN amount ELSE 0))
  BY <1>1, EndedShares DEF VaultInv, Ended
<1> HIDE DEF amount
<1>3. vault \in VaultTotals /\ vault.outstanding \in Nat /\ vault.completed \in Nat
  BY TotalsFields DEF VaultInv
<1>4. /\ vault' \in VaultTotals
      /\ vault'.outstanding = vault.outstanding - amount
      /\ vault'.completed = vault.completed + amount
      /\ vault'.requested = vault.requested
      /\ vault'.cancelled = vault.cancelled
      /\ vault'.rejected = vault.rejected
  <2>1. vault.outstanding - amount \in Nat /\ vault.completed + amount \in Nat
    BY <1>1, <1>2, <1>3
  <2> QED BY <1>1, <1>3, <2>1 DEF VaultTotals
<1>5. /\ Total(requests', {"Pending"}) = Total(requests, {"Pending"}) - amount
      /\ Total(requests', {"Completed"}) = Total(requests, {"Completed"}) + amount
      /\ Total(requests', {"Cancelled"}) = Total(requests, {"Cancelled"})
      /\ Total(requests', {"Rejected"}) = Total(requests, {"Rejected"})
      /\ Total(requests', {"Pending", "Completed", "Cancelled", "Rejected"})
           = Total(requests, {"Pending", "Completed", "Cancelled", "Rejected"})
  BY <1>2
<1>6. config' = Desk!NoConfig => requests' = <<>>
  BY <1>0, <1>1
<1> QED BY <1>4, <1>5, <1>6 DEF VaultInv

LEMMA RejectingKeepsVault ==
  ASSUME VaultInv, RedemptionTypes', NEW s \in Keys, NEW r \in DOMAIN requests,
         Desk!RejectRedemption(s, r)
  PROVE  VaultInv'
<1> DEFINE amount == requests[r].amount
<1>0. config # Desk!NoConfig
  BY DEF Desk!RejectRedemption, Desk!SettleRequest, Desk!IsAdmin, Desk!Initialized
<1>1. /\ EndsRequest(r, "Rejected") /\ config' = config
      /\ vault.outstanding >= amount
      /\ vault' = [vault EXCEPT !.outstanding = vault.outstanding - amount,
                                !.rejected = vault.rejected + amount]
  <2>1. EndsRequest(r, "Rejected") /\ config' = config
    BY RejectEnds DEF VaultInv
  <2> QED BY <2>1 DEF Desk!RejectRedemption, Desk!SettleRequest
<1>2. /\ amount \in Nat
      /\ \A statuses : /\ Total(requests, statuses) \in Nat
                       /\ Total(requests', statuses) = Total(requests, statuses)
                            + ((IF "Rejected" \in statuses THEN amount ELSE 0)
                               - (IF "Pending" \in statuses THEN amount ELSE 0))
  BY <1>1, EndedShares DEF VaultInv, Ended
<1> HIDE DEF amount
<1>3. vault \in VaultTotals /\ vault.outstanding \in Nat /\ vault.rejected \in Nat
  BY TotalsFields DEF VaultInv
<1>4. /\ vault' \in VaultTotals
      /\ vault'.outstanding = vault.outstanding - amount
      /\ vault'.rejected = vault.rejected + amount
      /\ vault'.requested = vault.requested
      /\ vault'.completed = vault.completed
      /\ vault'.cancelled = vault.cancelled
  <2>1. vault.outstanding - amount \in Nat /\ vault.rejected + amount \in Nat
    BY <1>1, <1>2, <1>3
  <2> QED BY <1>1, <1>3, <2>1 DEF VaultTotals
<1>5. /\ Total(requests', {"Pending"}) = Total(requests, {"Pending"}) - amount
      /\ Total(requests', {"Rejected"}) = Total(requests, {"Rejected"}) + amount
      /\ Total(requests', {"Completed"}) = Total(requests, {"Completed"})
      /\ Total(requests', {"Cancelled"}) = Total(requests, {"Cancelled"})
      /\ Total(requests', {"Pending", "Completed", "Cancelled", "Rejected"})
           = Total(requests, {"Pending", "Completed", "Cancelled", "Rejected"})
  BY <1>2
<1>6. config' = Desk!NoConfig => requests' = <<>>
  BY <1>0, <1>1
<1> QED BY <1>4, <1>5, <1>6 DEF VaultInv

\* The other instructions leave the requests and the vault alone, except that
\* initialize_protocol opens an empty vault when there is no request.
LEMMA SameRequestsKeepVault ==
  ASSUME VaultInv, RedemptionTypes', UNCHANGED <<requests, vault>>,
         config' = Desk!NoConfig => config = Desk!NoConfig
  PROVE  VaultInv'
BY DEF VaultInv

LEMMA EmptyTotals ==
  /\ Desk!EmptyVault \in VaultTotals
  /\ \A statuses : Total(<<>>, statuses) = 0
<1>1. Desk!EmptyVault \in VaultTotals
  BY DEF Desk!EmptyVault, VaultTotals
<1>2. DOMAIN <<>> = {}
  OBVIOUS
<1> QED BY <1>1, <1>2, SumEmpty DEF Total

LEMMA InitializingKeepsVault ==
  ASSUME VaultInv, RedemptionTypes', NEW s \in Keys, Desk!InitializeProtocol(s)
  PROVE  VaultInv'
<1>1. requests' = <<>> /\ vault' = Desk!EmptyVault
  BY DEF Desk!InitializeProtocol, Desk!Initialized, VaultInv
<1>2. 0 <= MaxAmount
  BY AmountsAssumption
<1>3. Desk!EmptyVault.requested = 0
  BY DEF Desk!EmptyVault
<1>4. /\ Desk!EmptyVault.outstanding = 0 /\ Desk!EmptyVault.completed = 0
      /\ Desk!EmptyVault.cancelled = 0 /\ Desk!EmptyVault.rejected = 0
  BY DEF Desk!EmptyVault
<1> QED BY <1>1, <1>2, <1>3, <1>4, EmptyTotals DEF VaultInv

LEMMA VaultInvKept ==
  ASSUME VaultInv, [Desk!Next]_redemptionVars
  PROVE  VaultInv'
<1>0. RedemptionTypes /\ RedemptionTypes'
  BY TypesKept DEF VaultInv
<1>1. CASE UNCHANGED redemptionVars
  BY <1>0, <1>1, SameRequestsKeepVault DEF redemptionVars
<1>2. ASSUME NEW s \in Keys, Desk!InitializeProtocol(s)
      PROVE  VaultInv'
  BY <1>0, <1>2, InitializingKeepsVault
<1>3. ASSUME NEW s \in Keys, NEW amount \in AskedAmounts, Desk!RequestRedemption(s, amount)
      PROVE  VaultInv'
  BY <1>0, <1>3, FilingKeepsVault
<1>4. ASSUME NEW s \in Keys, NEW r \in DOMAIN requests,
             Desk!CancelRedemption(s, r) \/ Desk!CompleteRedemption(s, r)
                 \/ Desk!RejectRedemption(s, r)
      PROVE  VaultInv'
  BY <1>0, <1>4, CancellingKeepsVault, CompletingKeepsVault, RejectingKeepsVault
<1>5. ASSUME NEW s \in Keys, NEW paused \in BOOLEAN, Desk!SetRedemptionsPaused(s, paused)
      PROVE  VaultInv'
  <2>1. config # Desk!NoConfig /\ UNCHANGED <<vault, requests>>
    BY <1>5 DEF Desk!SetRedemptionsPaused, Desk!IsAdmin, Desk!Initialized
  <2>2. config' # Desk!NoConfig
    <3>1. config' \in Config
      BY <1>0, <1>5, <2>1 DEF Desk!SetRedemptionsPaused, RedemptionTypes, Config
    <3> QED BY <3>1, ConfigsExist
  <2> QED BY <1>0, <2>1, <2>2, SameRequestsKeepVault
<1>6. ASSUME NEW s \in Keys, NEW new \in Keys \cup {Desk!NoKey},
             Desk!BeginAdminTransfer(s, new)
      PROVE  VaultInv'
  <2>1. config # Desk!NoConfig /\ UNCHANGED <<vault, requests>>
    BY <1>6 DEF Desk!BeginAdminTransfer, Desk!IsAdmin, Desk!Initialized
  <2>2. config' # Desk!NoConfig
    <3>1. config' \in Config
      BY <1>0, <1>6, <2>1 DEF Desk!BeginAdminTransfer, RedemptionTypes, Config
    <3> QED BY <3>1, ConfigsExist
  <2> QED BY <1>0, <2>1, <2>2, SameRequestsKeepVault
<1>7. ASSUME NEW s \in Keys, Desk!AcceptAdminTransfer(s)
      PROVE  VaultInv'
  <2>1. config # Desk!NoConfig /\ UNCHANGED <<vault, requests>>
    BY <1>7 DEF Desk!AcceptAdminTransfer, Desk!Initialized
  <2>2. config' # Desk!NoConfig
    <3>1. config' \in Config
      BY <1>0, <1>7, <2>1 DEF Desk!AcceptAdminTransfer, RedemptionTypes, Config
    <3> QED BY <3>1, ConfigsExist
  <2> QED BY <1>0, <2>1, <2>2, SameRequestsKeepVault
<1> QED BY <1>1, <1>2, <1>3, <1>4, <1>5, <1>6, <1>7 DEF Desk!Next

LEMMA TotalIsAmountWith ==
  ASSUME NEW statuses
  PROVE  Desk!AmountWith(statuses) = Total(requests, statuses)
BY DEF Desk!AmountWith, Total, Sharing, Share, Desk!SumFunction, SumFunctionOnSet,
   Desk!SumFunctionOnSet, Desk!FoldFunctionOnSet, Desk!MapThenFoldSet,
   FoldFunctionOnSet, MapThenFoldSet

-----------------------------------------------------------------------------
(* The log. Every decision in it names a request that exists, so a request  *)
(* is filed without decisions, and a pending one has none.                  *)

Targets == Nat \cup Keys \cup {Desk!NoKey}
Actions == DOMAIN Desk!Decisions \cup
    {"SetRedemptionsPaused", "BeginAdminTransfer", "AcceptAdminTransfer"}
Entry == [admin : Keys, action : Actions, target : Targets, amount : Nat]

IsDecisionOn(entry, r) == entry.action \in DOMAIN Desk!Decisions /\ entry.target = r

LogInv ==
    /\ RedemptionTypes
    /\ log \in Seq(Entry)
    /\ \A i \in DOMAIN log :
          log[i].action \in DOMAIN Desk!Decisions => log[i].target \in DOMAIN requests
    /\ Desk!LogTellsDecisions

LEMMA DecisionActions ==
  /\ DOMAIN Desk!Decisions = {"CompleteRedemption", "RejectRedemption"}
  /\ Desk!Decisions["CompleteRedemption"] = "Completed"
  /\ Desk!Decisions["RejectRedemption"] = "Rejected"
  /\ \A action \in {"SetRedemptionsPaused", "BeginAdminTransfer", "AcceptAdminTransfer"} :
        action \in Actions \ DOMAIN Desk!Decisions
  BY DEF Desk!Decisions, Actions

LEMMA Logged ==
  ASSUME log \in Seq(Entry), NEW s \in Keys, NEW action \in Actions, NEW target \in Targets,
         NEW amount \in Nat, Desk!WriteAdminLog(s, action, target, amount)
  PROVE  LET entry == [admin |-> s, action |-> action, target |-> target, amount |-> amount]
             n == Len(log) + 1
         IN  /\ log' \in Seq(Entry)
             /\ DOMAIN log' = DOMAIN log \cup {n} /\ n \notin DOMAIN log
             /\ log'[n] = entry
             /\ \A i \in DOMAIN log : log'[i] = log[i]
             /\ \A r : Desk!DecisionsOn(r)' =
                   IF IsDecisionOn(entry, r) THEN Desk!DecisionsOn(r) \cup {n}
                       ELSE Desk!DecisionsOn(r)
<1> DEFINE entry == [admin |-> s, action |-> action, target |-> target, amount |-> amount]
           n == Len(log) + 1
<1>1. entry \in Entry /\ log' = Append(log, entry)
  BY DEF Entry, Desk!WriteAdminLog
<1> HIDE DEF entry
<1>2. /\ log' \in Seq(Entry)
      /\ DOMAIN log' = DOMAIN log \cup {n} /\ n \notin DOMAIN log
      /\ log'[n] = entry
      /\ \A i \in DOMAIN log : log'[i] = log[i]
  BY <1>1
<1> HIDE DEF n
<1>3. ASSUME NEW r
      PROVE  Desk!DecisionsOn(r)' =
                IF IsDecisionOn(entry, r) THEN Desk!DecisionsOn(r) \cup {n}
                    ELSE Desk!DecisionsOn(r)
  BY <1>2 DEF Desk!DecisionsOn, IsDecisionOn
<1> QED BY <1>2, <1>3 DEF entry, n

\* An entry that decides nothing leaves what the log tells of requests alone.
LEMMA OtherEntryKeeps ==
  ASSUME LogInv, RedemptionTypes', UNCHANGED requests,
         NEW s \in Keys, NEW action \in Actions \ DOMAIN Desk!Decisions,
             NEW target \in Targets,
         NEW amount \in Nat, Desk!WriteAdminLog(s, action, target, amount)
  PROVE  LogInv'
<1> DEFINE entry == [admin |-> s, action |-> action, target |-> target, amount |-> amount]
<1>1. /\ log' \in Seq(Entry)
      /\ DOMAIN log' = DOMAIN log \cup {Len(log) + 1} /\ log'[Len(log) + 1] = entry
      /\ \A i \in DOMAIN log : log'[i] = log[i]
      /\ \A r : Desk!DecisionsOn(r)' =
            IF IsDecisionOn(entry, r) THEN Desk!DecisionsOn(r) \cup {Len(log) + 1}
                ELSE Desk!DecisionsOn(r)
  BY Logged DEF LogInv
<1>2. entry.action \notin DOMAIN Desk!Decisions
  OBVIOUS
<1> HIDE DEF entry
<1>3. \A r : Desk!DecisionsOn(r)' = Desk!DecisionsOn(r)
  BY <1>1, <1>2 DEF IsDecisionOn
<1>4. \A i \in DOMAIN log' :
         log'[i].action \in DOMAIN Desk!Decisions => log'[i].target \in DOMAIN requests'
  BY <1>1, <1>2 DEF LogInv
<1>5. Desk!LogTellsDecisions'
  <2> SUFFICES ASSUME NEW r \in DOMAIN requests
               PROVE  IF requests[r].status \in {"Completed", "Rejected"}
                        THEN \E i \in DOMAIN log' :
                                /\ Desk!DecisionsOn(r)' = {i}
                                /\ Desk!Decisions[log'[i].action] = requests[r].status
                                /\ log'[i].amount = requests[r].amount
                        ELSE Desk!DecisionsOn(r)' = {}
    BY DEF Desk!LogTellsDecisions
  <2>1. CASE requests[r].status \in {"Completed", "Rejected"}
    BY <1>1, <1>3, <2>1 DEF LogInv, Desk!LogTellsDecisions
  <2>2. CASE requests[r].status \notin {"Completed", "Rejected"}
    BY <1>3, <2>2 DEF LogInv, Desk!LogTellsDecisions
  <2> QED BY <2>1, <2>2
<1> QED BY <1>1, <1>4, <1>5 DEF LogInv

LEMMA FilingKeepsLog ==
  ASSUME LogInv, RedemptionTypes', NEW o \in Keys, NEW amount \in AskedAmounts,
         Desk!RequestRedemption(o, amount)
  PROVE  LogInv'
<1> DEFINE n == Len(requests) + 1
<1>1. /\ DOMAIN requests' = DOMAIN requests \cup {n} /\ n \notin DOMAIN requests
      /\ requests'[n].status = "Pending"
      /\ \A r \in DOMAIN requests : requests'[r] = requests[r]
  <2>1. requests'[n] = [owner |-> o, amount |-> amount, status |-> "Pending"]
    BY Filed DEF LogInv
  <2>2. requests'[n].status = "Pending"
    BY <2>1
  <2>3. /\ DOMAIN requests' = DOMAIN requests \cup {n} /\ n \notin DOMAIN requests
        /\ \A r \in DOMAIN requests : requests'[r] = requests[r]
    BY Filed DEF LogInv
  <2> QED BY <2>2, <2>3
<1>2. UNCHANGED log
  BY DEF Desk!RequestRedemption
<1> HIDE DEF n
<1>3. \A r : Desk!DecisionsOn(r)' = Desk!DecisionsOn(r)
  BY <1>2 DEF Desk!DecisionsOn
<1>4. Desk!DecisionsOn(n) = {}
  BY <1>1 DEF LogInv, Desk!DecisionsOn
<1>5. Desk!LogTellsDecisions'
  <2> SUFFICES ASSUME NEW r \in DOMAIN requests'
               PROVE  IF requests'[r].status \in {"Completed", "Rejected"}
                        THEN \E i \in DOMAIN log :
                                /\ Desk!DecisionsOn(r)' = {i}
                                /\ Desk!Decisions[log[i].action] = requests'[r].status
                                /\ log[i].amount = requests'[r].amount
                        ELSE Desk!DecisionsOn(r)' = {}
    BY <1>2 DEF Desk!LogTellsDecisions
  <2>1. CASE r = n
    BY <1>1, <1>3, <1>4, <2>1
  <2>2. CASE r \in DOMAIN requests
    BY <1>1, <1>3, <2>2 DEF LogInv, Desk!LogTellsDecisions
  <2> QED BY <1>1, <2>1, <2>2
<1>6. \A i \in DOMAIN log' :
         log'[i].action \in DOMAIN Desk!Decisions => log'[i].target \in DOMAIN requests'
  BY <1>1, <1>2 DEF LogInv
<1> QED BY <1>2, <1>5, <1>6 DEF LogInv

LEMMA CancellingKeepsLog ==
  ASSUME LogInv, RedemptionTypes', NEW r \in DOMAIN requests,
         EndsRequest(r, "Cancelled"), UNCHANGED log
  PROVE  LogInv'
<1>1. \A q : Desk!DecisionsOn(q)' = Desk!DecisionsOn(q)
  BY DEF Desk!DecisionsOn
<1>2. Desk!DecisionsOn(r) = {}
  BY DEF LogInv, Desk!LogTellsDecisions, EndsRequest
<1>3. Desk!LogTellsDecisions'
  <2> SUFFICES ASSUME NEW q \in DOMAIN requests
               PROVE  IF requests'[q].status \in {"Completed", "Rejected"}
                        THEN \E i \in DOMAIN log :
                                /\ Desk!DecisionsOn(q)' = {i}
                                /\ Desk!Decisions[log[i].action] = requests'[q].status
                                /\ log[i].amount = requests'[q].amount
                        ELSE Desk!DecisionsOn(q)' = {}
    BY DEF Desk!LogTellsDecisions, EndsRequest
  <2>1. CASE q = r
    BY <1>1, <1>2, <2>1 DEF EndsRequest
  <2>2. CASE q # r
    BY <1>1, <2>2 DEF EndsRequest, LogInv, Desk!LogTellsDecisions
  <2> QED BY <2>1, <2>2
<1> QED BY <1>3 DEF LogInv, EndsRequest

\* A decision writes its one entry as it gives the request its final status.
LEMMA DecidingKeepsLog ==
  ASSUME LogInv, RedemptionTypes', NEW s \in Keys, NEW r \in DOMAIN requests,
         NEW action \in DOMAIN Desk!Decisions, EndsRequest(r, Desk!Decisions[action]),
         Desk!WriteAdminLog(s, action, r, requests[r].amount)
  PROVE  LogInv'
<1> DEFINE entry == [admin |-> s, action |-> action, target |-> r,
                     amount |-> requests[r].amount]
           n == Len(log) + 1
<1>1. r \in Targets /\ requests[r].amount \in Nat /\ action \in Actions
  <2>1. requests[r] \in Request /\ r \in Nat
    BY DEF LogInv, RedemptionTypes
  <2> QED BY <2>1 DEF Targets, Request, Actions
<1>2. /\ log' \in Seq(Entry)
      /\ DOMAIN log' = DOMAIN log \cup {n} /\ n \notin DOMAIN log /\ log'[n] = entry
      /\ \A i \in DOMAIN log : log'[i] = log[i]
      /\ \A q : Desk!DecisionsOn(q)' =
            IF IsDecisionOn(entry, q) THEN Desk!DecisionsOn(q) \cup {n}
                ELSE Desk!DecisionsOn(q)
  BY <1>1, Logged DEF LogInv
<1>3. /\ entry.action = action /\ entry.target = r /\ entry.amount = requests[r].amount
      /\ \A q : IsDecisionOn(entry, q) <=> q = r
  BY DEF IsDecisionOn
<1> HIDE DEF entry, n
<1>4. Desk!DecisionsOn(r) = {}
  BY DEF LogInv, Desk!LogTellsDecisions, EndsRequest
<1>5. Desk!LogTellsDecisions'
  <2> SUFFICES ASSUME NEW q \in DOMAIN requests
               PROVE  IF requests'[q].status \in {"Completed", "Rejected"}
                        THEN \E i \in DOMAIN log' :
                                /\ Desk!DecisionsOn(q)' = {i}
                                /\ Desk!Decisions[log'[i].action] = requests'[q].status
                                /\ log'[i].amount = requests'[q].amount
                        ELSE Desk!DecisionsOn(q)' = {}
    BY DEF Desk!LogTellsDecisions, EndsRequest
  <2>1. CASE q = r
    <3>1. Desk!DecisionsOn(q)' = {n} /\ n \in DOMAIN log'
      BY <1>2, <1>3, <1>4, <2>1
    <3>2. Desk!Decisions[log'[n].action] = requests'[q].status
      BY <1>2, <1>3, <2>1 DEF EndsRequest
    <3>3. log'[n].amount = requests'[q].amount
      BY <1>2, <1>3, <2>1 DEF EndsRequest
    <3>4. requests'[q].status \in {"Completed", "Rejected"}
      BY <2>1, DecisionActions DEF EndsRequest
    <3> QED BY <3>1, <3>2, <3>3, <3>4
  <2>2. CASE q # r
    <3>1. Desk!DecisionsOn(q)' = Desk!DecisionsOn(q) /\ requests'[q] = requests[q]
      BY <1>2, <1>3, <2>2 DEF EndsRequest
    <3>2. CASE requests[q].status \in {"Completed", "Rejected"}
      BY <1>2, <3>1, <3>2 DEF LogInv, Desk!LogTellsDecisions
    <3>3. CASE requests[q].status \notin {"Completed", "Rejected"}
      BY <3>1, <3>3 DEF LogInv, Desk!LogTellsDecisions
    <3> QED BY <3>2, <3>3
  <2> QED BY <2>1, <2>2
<1>6. \A i \in DOMAIN log' :
         log'[i].action \in DOMAIN Desk!Decisions => log'[i].target \in DOMAIN requests'
  BY <1>2, <1>3 DEF LogInv, EndsRequest
<1> QED BY <1>2, <1>5, <1>6 DEF LogInv

LEMMA LogInvKept ==
  ASSUME LogInv, [Desk!Next]_redemptionVars
  PROVE  LogInv'
<1>0. RedemptionTypes /\ RedemptionTypes'
  BY TypesKept DEF LogInv
<1>1. CASE UNCHANGED <<config, requests, log>>
  BY <1>0, <1>1 DEF LogInv, Desk!LogTellsDecisions, Desk!DecisionsOn
<1>2. ASSUME NEW s \in Keys, Desk!InitializeProtocol(s)
      PROVE  LogInv'
  BY <1>0, <1>2 DEF Desk!InitializeProtocol, LogInv, Desk!LogTellsDecisions,
     Desk!DecisionsOn
<1>3. ASSUME NEW s \in Keys, NEW amount \in AskedAmounts, Desk!RequestRedemption(s, amount)
      PROVE  LogInv'
  BY <1>0, <1>3, FilingKeepsLog
<1>4. ASSUME NEW s \in Keys, NEW r \in DOMAIN requests, Desk!CancelRedemption(s, r)
      PROVE  LogInv'
  BY <1>0, <1>4, CancelEnds, CancellingKeepsLog
<1>5. ASSUME NEW s \in Keys, NEW r \in DOMAIN requests, Desk!CompleteRedemption(s, r)
      PROVE  LogInv'
  BY <1>0, <1>5, CompleteEnds, DecisionActions, DecidingKeepsLog
<1>6. ASSUME NEW s \in Keys, NEW r \in DOMAIN requests, Desk!RejectRedemption(s, r)
      PROVE  LogInv'
  BY <1>0, <1>6, RejectEnds, DecisionActions, DecidingKeepsLog
<1>7. ASSUME NEW s \in Keys, NEW paused \in BOOLEAN, Desk!SetRedemptionsPaused(s, paused)
      PROVE  LogInv'
  <2>1. /\ UNCHANGED requests
        /\ Desk!WriteAdminLog(s, "SetRedemptionsPaused", Desk!NoKey, IF paused THEN 1
              ELSE 0)
    BY <1>7 DEF Desk!SetRedemptionsPaused
  <2>2. (IF paused THEN 1 ELSE 0) \in Nat /\ Desk!NoKey \in Targets
    BY DEF Targets
  <2> QED BY <1>0, <2>1, <2>2, DecisionActions, OtherEntryKeeps
<1>8. ASSUME NEW s \in Keys, NEW new \in Keys \cup {Desk!NoKey},
             Desk!BeginAdminTransfer(s, new)
      PROVE  LogInv'
  <2>1. UNCHANGED requests /\ Desk!WriteAdminLog(s, "BeginAdminTransfer", new, 0)
    BY <1>8 DEF Desk!BeginAdminTransfer
  <2>2. new \in Targets
    BY DEF Targets
  <2> QED BY <1>0, <2>1, <2>2, DecisionActions, OtherEntryKeeps
<1>9. ASSUME NEW s \in Keys, Desk!AcceptAdminTransfer(s)
      PROVE  LogInv'
  <2>1. UNCHANGED requests /\ Desk!WriteAdminLog(s, "AcceptAdminTransfer", config.admin, 0)
    BY <1>9 DEF Desk!AcceptAdminTransfer
  <2>2. config.admin \in Targets
    BY <1>0, <1>9 DEF Desk!AcceptAdminTransfer, Desk!Initialized, RedemptionTypes, Config,
       Targets
  <2> QED BY <1>0, <2>1, <2>2, DecisionActions, OtherEntryKeeps
<1> QED BY <1>0, <1>1, <1>2, <1>3, <1>4, <1>5, <1>6, <1>7, <1>8, <1>9, RedemptionSteps

-----------------------------------------------------------------------------
(* The role of admin in the log.                                            *)

\* OpenNominations and the first part of LogTellsAdmins, of any log.
OpenIn(l, n) ==
    {i \in 1 .. n :
        /\ l[i].action = "BeginAdminTransfer"
        /\ \A j \in i + 1 .. n :
              l[j].action \notin {"BeginAdminTransfer", "AcceptAdminTransfer"}}

Told(l, i) ==
    IF l[i].action = "AcceptAdminTransfer"
      THEN /\ i > 1 /\ l[i].target = l[i - 1].admin
           /\ \E b \in OpenIn(l, i - 1) : l[b].target = l[i].admin
      ELSE i > 1 => l[i].admin = l[i - 1].admin

\* The configuration agrees with the end of the log: the admin wrote the last
\* entry, and the pending admin is the target of the one open nomination.
InOffice(l, admin, pending) ==
    /\ l # <<>> => l[Len(l)].admin = admin
    /\ \/ OpenIn(l, Len(l)) = {} /\ pending = Desk!NoKey
       \/ \E b \in 1 .. Len(l) : OpenIn(l, Len(l)) = {b} /\ l[b].target = pending

AdminsInv ==
    /\ LogInv
    /\ config = Desk!NoConfig => log = <<>>
    /\ config # Desk!NoConfig => InOffice(log, config.admin, config.pending)
    /\ \A i \in DOMAIN log : Told(log, i)

\* One more entry leaves the nominations open earlier as they were, and closes
\* or replaces the open one.
OneMore(l, e, k) ==
    /\ k \in Seq(Entry) /\ Len(k) = Len(l) + 1 /\ k # <<>> /\ Len(l) \in Nat
    /\ DOMAIN l = 1 .. Len(l) /\ DOMAIN k = DOMAIN l \cup {Len(k)}
    /\ k[Len(k)] = e
    /\ \A i \in DOMAIN l : k[i] = l[i]
    /\ \A m \in 0 .. Len(l) : OpenIn(k, m) = OpenIn(l, m)
    /\ e.action = "BeginAdminTransfer" => OpenIn(k, Len(k)) = {Len(k)}
    /\ e.action = "AcceptAdminTransfer" => OpenIn(k, Len(k)) = {}
    /\ e.action \notin {"BeginAdminTransfer", "AcceptAdminTransfer"} =>
          OpenIn(k, Len(k)) = OpenIn(l, Len(l))

LEMMA OpenAfter ==
  ASSUME NEW l \in Seq(Entry), NEW e \in Entry, NEW k, k = Append(l, e)
  PROVE  OneMore(l, e, k)
<1>1. /\ k \in Seq(Entry) /\ Len(k) = Len(l) + 1 /\ k # <<>> /\ Len(l) \in Nat
      /\ DOMAIN k = DOMAIN l \cup {Len(k)}
      /\ DOMAIN l = 1 .. Len(l)
      /\ k[Len(k)] = e
      /\ \A i \in DOMAIN l : k[i] = l[i]
  OBVIOUS
<1> DEFINE n == Len(l)
<1>2. n \in Nat /\ Len(k) = n + 1 /\ k[n + 1] = e /\ \A i \in 1 .. n : k[i] = l[i]
  BY <1>1
<1> HIDE DEF n
<1>3. ASSUME NEW m \in 0 .. n
      PROVE  OpenIn(k, m) = OpenIn(l, m)
  BY <1>2 DEF OpenIn
<1>4. e.action = "BeginAdminTransfer" => OpenIn(k, n + 1) = {n + 1}
  BY <1>2 DEF OpenIn
<1>5. e.action = "AcceptAdminTransfer" => OpenIn(k, n + 1) = {}
  BY <1>2 DEF OpenIn
<1>6. ASSUME e.action \notin {"BeginAdminTransfer", "AcceptAdminTransfer"}
      PROVE  OpenIn(k, n + 1) = OpenIn(l, n)
  BY <1>2, <1>6 DEF OpenIn
<1> QED BY <1>1, <1>2, <1>3, <1>4, <1>5, <1>6 DEF n, OneMore

LEMMA ToldAfter ==
  ASSUME NEW l \in Seq(Entry), NEW e \in Entry, NEW k, k = Append(l, e),
         \A i \in DOMAIN l : Told(l, i), Told(k, Len(k))
  PROVE  \A i \in DOMAIN k : Told(k, i)
<1>0. OneMore(l, e, k)
  BY OpenAfter
<1>1. ASSUME NEW i \in DOMAIN l
      PROVE  Told(k, i)
  <2>1. /\ i \in Nat /\ i >= 1 /\ i - 1 \in 0 .. Len(l) /\ k[i] = l[i]
        /\ i > 1 => i - 1 \in DOMAIN l
    BY <1>0 DEF OneMore
  <2>2. (i > 1 => k[i - 1] = l[i - 1]) /\ OpenIn(k, i - 1) = OpenIn(l, i - 1)
    BY <1>0, <2>1 DEF OneMore
  <2>3. \A b \in OpenIn(l, i - 1) : k[b] = l[b]
    <3>1. \A b \in OpenIn(l, i - 1) : b \in DOMAIN l
      BY <2>1 DEF OpenIn
    <3> QED BY <1>0, <3>1 DEF OneMore
  <2>4. Told(l, i)
    OBVIOUS
  <2> QED BY <2>1, <2>2, <2>3, <2>4 DEF Told
<1> QED BY <1>0, <1>1 DEF OneMore

\* An entry of the admin that is neither a nomination nor an acceptance, a
\* nomination, and an acceptance.
LEMMA EntryTells ==
  ASSUME NEW l \in Seq(Entry), NEW e \in Entry, NEW k, k = Append(l, e),
         NEW admin, NEW pending, InOffice(l, admin, pending), e.admin = admin,
         e.action # "AcceptAdminTransfer"
  PROVE  /\ Told(k, Len(k))
         /\ e.action = "BeginAdminTransfer" => InOffice(k, admin, e.target)
         /\ e.action # "BeginAdminTransfer" => InOffice(k, admin, pending)
<1>1. /\ Len(k) = Len(l) + 1 /\ k # <<>> /\ Len(l) \in Nat /\ k[Len(k)] = e
      /\ DOMAIN l = 1 .. Len(l)
      /\ \A i \in DOMAIN l : k[i] = l[i]
      /\ e.action = "BeginAdminTransfer" => OpenIn(k, Len(k)) = {Len(k)}
      /\ e.action # "BeginAdminTransfer" => OpenIn(k, Len(k)) = OpenIn(l, Len(l))
  <2>1. OneMore(l, e, k)
    BY OpenAfter
  <2> QED BY <2>1 DEF OneMore
<1>2. Told(k, Len(k))
  <2>1. ASSUME Len(k) > 1
        PROVE  l # <<>> /\ k[Len(k) - 1] = l[Len(l)]
    <3>1. Len(l) \in DOMAIN l /\ Len(k) - 1 = Len(l)
      BY <1>1, <2>1
    <3> QED BY <1>1, <3>1
  <2> QED BY <1>1, <2>1 DEF Told, InOffice
<1>3. e.action = "BeginAdminTransfer" => InOffice(k, admin, e.target)
  BY <1>1 DEF InOffice
<1>4. ASSUME e.action # "BeginAdminTransfer"
      PROVE  InOffice(k, admin, pending)
  <2>1. CASE OpenIn(l, Len(l)) = {} /\ pending = Desk!NoKey
    BY <1>1, <1>4, <2>1 DEF InOffice
  <2>2. ASSUME NEW b \in 1 .. Len(l), OpenIn(l, Len(l)) = {b} /\ l[b].target = pending
        PROVE  InOffice(k, admin, pending)
    BY <1>1, <1>4, <2>2 DEF InOffice
  <2> QED BY <2>1, <2>2 DEF InOffice
<1> QED BY <1>2, <1>3, <1>4

LEMMA AcceptanceTells ==
  ASSUME NEW l \in Seq(Entry), NEW e \in Entry, NEW k, k = Append(l, e),
         NEW admin, NEW pending, InOffice(l, admin, pending), pending # Desk!NoKey,
         e.admin = pending, e.target = admin, e.action = "AcceptAdminTransfer"
  PROVE  Told(k, Len(k)) /\ InOffice(k, pending, Desk!NoKey)
<1>1. /\ Len(k) = Len(l) + 1 /\ k # <<>> /\ Len(l) \in Nat /\ k[Len(k)] = e
      /\ DOMAIN l = 1 .. Len(l)
      /\ \A i \in DOMAIN l : k[i] = l[i]
      /\ OpenIn(k, Len(l)) = OpenIn(l, Len(l))
      /\ OpenIn(k, Len(k)) = {}
  <2>1. OneMore(l, e, k)
    BY OpenAfter
  <2> QED BY <2>1 DEF OneMore
<1>2. PICK b \in 1 .. Len(l) : OpenIn(l, Len(l)) = {b} /\ l[b].target = pending
  BY DEF InOffice
<1>3. l # <<>> /\ l[Len(l)].admin = admin /\ Len(k) > 1 /\ Len(k) - 1 = Len(l)
  BY <1>1, <1>2 DEF InOffice
<1>4. k[Len(l)] = l[Len(l)] /\ k[b] = l[b]
  <2>1. Len(l) \in DOMAIN l /\ b \in DOMAIN l
    BY <1>1, <1>2
  <2> QED BY <1>1, <2>1
<1> QED BY <1>1, <1>2, <1>3, <1>4 DEF Told, InOffice

\* What the admin's instructions append.
LEMMA EntryWritten ==
  ASSUME LogInv, NEW s \in Keys, NEW action \in Actions, NEW target \in Targets,
         NEW amount \in Nat, Desk!WriteAdminLog(s, action, target, amount)
  PROVE  \E e \in Entry : /\ log' = Append(log, e) /\ e.admin = s
                          /\ e.action = action /\ e.target = target
<1> DEFINE e == [admin |-> s, action |-> action, target |-> target, amount |-> amount]
<1>1. /\ e \in Entry /\ log' = Append(log, e)
      /\ e.admin = s /\ e.action = action /\ e.target = target
  BY DEF Entry, Desk!WriteAdminLog
<1> HIDE DEF e
<1> QED BY <1>1

\* An admin's instruction that does not touch the role.
LEMMA OtherEntryTells ==
  ASSUME AdminsInv, LogInv', NEW s \in Keys, Desk!IsAdmin(s), NEW target \in Targets,
         NEW action \in Actions \ {"BeginAdminTransfer", "AcceptAdminTransfer"},
         NEW amount \in Nat, Desk!WriteAdminLog(s, action, target, amount),
         config' # Desk!NoConfig, config'.admin = config.admin, config'.pending
             = config.pending
  PROVE  AdminsInv'
<1>1. PICK e \in Entry : log' = Append(log, e) /\ e.admin = s /\ e.action = action
  BY EntryWritten DEF AdminsInv
<1>2. /\ log \in Seq(Entry) /\ s = config.admin
      /\ InOffice(log, config.admin, config.pending)
      /\ \A i \in DOMAIN log : Told(log, i)
  BY DEF AdminsInv, LogInv, Desk!IsAdmin, Desk!Initialized
<1>3. Told(log', Len(log')) /\ InOffice(log', config.admin, config.pending)
  BY <1>1, <1>2, EntryTells
<1>4. \A i \in DOMAIN log' : Told(log', i)
  BY <1>1, <1>2, <1>3, ToldAfter
<1> QED BY <1>3, <1>4 DEF AdminsInv

LEMMA SameLogTells ==
  ASSUME AdminsInv, LogInv', UNCHANGED <<config, log>>
  PROVE  AdminsInv'
BY DEF AdminsInv

LEMMA InitializingTells ==
  ASSUME AdminsInv, LogInv', NEW s \in Keys, Desk!InitializeProtocol(s)
  PROVE  AdminsInv'
<1>1. config = Desk!NoConfig /\ UNCHANGED log /\ log = <<>>
  BY DEF Desk!InitializeProtocol, Desk!Initialized, AdminsInv
<1>2. config' = [admin |-> s, pending |-> Desk!NoKey, paused |-> FALSE]
  BY DEF Desk!InitializeProtocol
<1>3. OpenIn(<<>>, Len(<<>>)) = {}
  BY DEF OpenIn
<1>4. InOffice(<<>>, s, Desk!NoKey)
  BY <1>3 DEF InOffice
<1> QED BY <1>1, <1>2, <1>4 DEF AdminsInv

LEMMA PausingTells ==
  ASSUME AdminsInv, LogInv', NEW s \in Keys, NEW paused \in BOOLEAN,
         Desk!SetRedemptionsPaused(s, paused)
  PROVE  AdminsInv'
<1>1. /\ Desk!IsAdmin(s) /\ config' = [config EXCEPT !.paused = paused]
      /\ Desk!WriteAdminLog(s, "SetRedemptionsPaused", Desk!NoKey, IF paused THEN 1 ELSE 0)
  BY DEF Desk!SetRedemptionsPaused
<1>2. config \in Config
  BY <1>1 DEF Desk!IsAdmin, Desk!Initialized, AdminsInv, LogInv, RedemptionTypes
<1>3. config' \in Config /\ config'.admin = config.admin /\ config'.pending = config.pending
  BY <1>1, <1>2 DEF Config
<1>4. config' # Desk!NoConfig
  BY <1>3, ConfigsExist
<1>5. Desk!NoKey \in Targets /\ (IF paused THEN 1 ELSE 0) \in Nat
      /\ "SetRedemptionsPaused" \in Actions \ {"BeginAdminTransfer", "AcceptAdminTransfer"}
  BY DEF Targets, Actions
<1> QED BY <1>1, <1>3, <1>4, <1>5, OtherEntryTells

LEMMA DecidingTells ==
  ASSUME AdminsInv, LogInv', NEW s \in Keys, NEW r \in DOMAIN requests,
         Desk!CompleteRedemption(s, r) \/ Desk!RejectRedemption(s, r)
  PROVE  AdminsInv'
<1>1. PICK action \in DOMAIN Desk!Decisions :
         Desk!WriteAdminLog(s, action, r, requests[r].amount)
  BY DecisionActions DEF Desk!CompleteRedemption, Desk!RejectRedemption, Desk!SettleRequest
<1>2. Desk!IsAdmin(s) /\ UNCHANGED config /\ config # Desk!NoConfig
  BY DEF Desk!CompleteRedemption, Desk!RejectRedemption, Desk!SettleRequest, Desk!IsAdmin,
     Desk!Initialized
<1>3. r \in Targets /\ requests[r].amount \in Nat
  <2>1. requests[r] \in Request /\ r \in Nat
    BY DEF AdminsInv, LogInv, RedemptionTypes
  <2> QED BY <2>1 DEF Targets, Request
<1>4. action \in Actions \ {"BeginAdminTransfer", "AcceptAdminTransfer"}
  BY DecisionActions DEF Actions
<1> QED BY <1>1, <1>2, <1>3, <1>4, OtherEntryTells

LEMMA NominatingTells ==
  ASSUME AdminsInv, LogInv', NEW s \in Keys, NEW new \in Keys \cup {Desk!NoKey},
         Desk!BeginAdminTransfer(s, new)
  PROVE  AdminsInv'
<1>1. /\ Desk!IsAdmin(s) /\ config' = [config EXCEPT !.pending = new]
      /\ Desk!WriteAdminLog(s, "BeginAdminTransfer", new, 0)
  BY DEF Desk!BeginAdminTransfer
<1>2. config \in Config
  BY <1>1 DEF Desk!IsAdmin, Desk!Initialized, AdminsInv, LogInv, RedemptionTypes
<1>3. config' \in Config /\ config'.admin = config.admin /\ config'.pending = new
  BY <1>1, <1>2 DEF Config
<1>4. config' # Desk!NoConfig
  BY <1>3, ConfigsExist
<1>5. new \in Targets /\ "BeginAdminTransfer" \in Actions
  BY DEF Targets, Actions
<1>6. PICK e \in Entry : /\ log' = Append(log, e) /\ e.admin = s
                         /\ e.action = "BeginAdminTransfer" /\ e.target = new
  BY <1>1, <1>5, EntryWritten DEF AdminsInv
<1>7. /\ log \in Seq(Entry) /\ s = config.admin
      /\ InOffice(log, config.admin, config.pending)
      /\ \A i \in DOMAIN log : Told(log, i)
  BY <1>1 DEF AdminsInv, LogInv, Desk!IsAdmin, Desk!Initialized
<1>8. Told(log', Len(log')) /\ InOffice(log', config.admin, new)
  BY <1>6, <1>7, EntryTells
<1>9. \A i \in DOMAIN log' : Told(log', i)
  BY <1>6, <1>7, <1>8, ToldAfter
<1> QED BY <1>3, <1>4, <1>8, <1>9 DEF AdminsInv

LEMMA AcceptingTells ==
  ASSUME AdminsInv, LogInv', NEW s \in Keys, Desk!AcceptAdminTransfer(s)
  PROVE  AdminsInv'
<1>1. /\ config # Desk!NoConfig /\ config.pending = s
      /\ config' = [config EXCEPT !.admin = s, !.pending = Desk!NoKey]
      /\ Desk!WriteAdminLog(s, "AcceptAdminTransfer", config.admin, 0)
  BY DEF Desk!AcceptAdminTransfer, Desk!Initialized
<1>2. config \in Config
  BY <1>1 DEF AdminsInv, LogInv, RedemptionTypes
<1>3. config' \in Config /\ config'.admin = s /\ config'.pending = Desk!NoKey
  BY <1>1, <1>2 DEF Config
<1>4. config' # Desk!NoConfig
  BY <1>3, ConfigsExist
<1>5. config.admin \in Targets /\ "AcceptAdminTransfer" \in Actions /\ s # Desk!NoKey
  BY <1>2, RedemptionAssumption DEF Config, Targets, Actions
<1>6. PICK e \in Entry : /\ log' = Append(log, e) /\ e.admin = s
                         /\ e.action = "AcceptAdminTransfer" /\ e.target = config.admin
  BY <1>1, <1>5, EntryWritten DEF AdminsInv
<1>7. /\ log \in Seq(Entry)
      /\ InOffice(log, config.admin, s)
      /\ \A i \in DOMAIN log : Told(log, i)
  BY <1>1 DEF AdminsInv, LogInv
<1>8. Told(log', Len(log')) /\ InOffice(log', s, Desk!NoKey)
  BY <1>5, <1>6, <1>7, AcceptanceTells
<1>9. \A i \in DOMAIN log' : Told(log', i)
  BY <1>6, <1>7, <1>8, ToldAfter
<1> QED BY <1>3, <1>4, <1>8, <1>9 DEF AdminsInv

LEMMA AdminsInvKept ==
  ASSUME AdminsInv, [Desk!Next]_redemptionVars
  PROVE  AdminsInv'
<1>0. LogInv /\ LogInv'
  BY LogInvKept DEF AdminsInv
<1>1. CASE UNCHANGED <<config, requests, log>>
  BY <1>0, <1>1, SameLogTells
<1>2. ASSUME NEW s \in Keys, Desk!InitializeProtocol(s)
      PROVE  AdminsInv'
  BY <1>0, <1>2, InitializingTells
<1>3. ASSUME NEW s \in Keys, NEW amount \in AskedAmounts, Desk!RequestRedemption(s, amount)
      PROVE  AdminsInv'
  BY <1>0, <1>3, SameLogTells DEF Desk!RequestRedemption
<1>4. ASSUME NEW s \in Keys, NEW r \in DOMAIN requests, Desk!CancelRedemption(s, r)
      PROVE  AdminsInv'
  BY <1>0, <1>4, SameLogTells DEF Desk!CancelRedemption
<1>5. ASSUME NEW s \in Keys, NEW r \in DOMAIN requests,
             Desk!CompleteRedemption(s, r) \/ Desk!RejectRedemption(s, r)
      PROVE  AdminsInv'
  BY <1>0, <1>5, DecidingTells
<1>6. ASSUME NEW s \in Keys, NEW paused \in BOOLEAN, Desk!SetRedemptionsPaused(s, paused)
      PROVE  AdminsInv'
  BY <1>0, <1>6, PausingTells
<1>7. ASSUME NEW s \in Keys, NEW new \in Keys \cup {Desk!NoKey},
             Desk!BeginAdminTransfer(s, new)
      PROVE  AdminsInv'
  BY <1>0, <1>7, NominatingTells
<1>8. ASSUME NEW s \in Keys, Desk!AcceptAdminTransfer(s)
      PROVE  AdminsInv'
  BY <1>0, <1>8, AcceptingTells
<1>9. RedemptionTypes
  BY <1>0 DEF LogInv
<1> QED BY <1>1, <1>2, <1>3, <1>4, <1>5, <1>6, <1>7, <1>8, <1>9, RedemptionSteps

-----------------------------------------------------------------------------
(* The theorems.                                                            *)

\* A key that rotate_issuer_authority has retired issues nothing ever again,
\* also if set_issuer_paused unpauses it.
THEOREM RetiredNeverIssuesHolds == StablecoinSpec => RetiredNeverIssues
<1>1. StablecoinInit => IssuerTypes
  BY DEF StablecoinInit, Init, IssuerTypes
<1>2. IssuerTypes /\ [StablecoinNext]_allVars => IssuerTypes'
  BY IssuersKept, StablecoinSteps
<1>3. IssuerTypes /\ [StablecoinNext]_allVars =>
        [ \A k \in Authorities :
            (Registered(k) /\ k \notin Live) =>
                /\ issuers'[k].limit = 0
                /\ issuers'[k].outstanding <= issuers[k].outstanding
                /\ issuers'[k].minted = issuers[k].minted ]_vars
  <2> SUFFICES ASSUME IssuerTypes, [StablecoinNext]_allVars, NEW k \in Authorities,
                      Registered(k), k \notin Live
               PROVE  /\ issuers'[k].limit = 0
                      /\ issuers'[k].outstanding <= issuers[k].outstanding
                      /\ issuers'[k].minted = issuers[k].minted
    OBVIOUS
  <2>1. issuers[k] \in Issuer
    BY RegisteredIsIssuer
  <2>2. issuers[k].limit \in Nat /\ issuers[k].limit = 0
    BY <2>1 DEF Live, Issuer
  <2> QED BY <2>1, <2>2, IssuersKept, StablecoinSteps DEF Kept
<1> QED BY <1>1, <1>2, <1>3, PTL DEF StablecoinSpec, RetiredNeverIssues

\* initialize_protocol, mint_to_user and burn_from_user are steps of lab 10's
\* IssuanceModel and every other instruction leaves its totals alone, with any
\* number of issuers, paused and rotated in any order.
THEOREM IssuerImplementsReference == StablecoinSpec => ImplementsReference
<1>1. StablecoinInit => SupplyInv
  BY DEF StablecoinInit, Init, SupplyInv, IssuerTypes, NoSupply, Supply
<1>2. StablecoinInit => Reference!Init
  BY DEF StablecoinInit, Init, Totals, Reference!Init, Reference!NoModel
<1>3. SupplyInv /\ [StablecoinNext]_allVars => SupplyInv' /\ [Reference!Next]_Totals
  BY SupplyImplements, StablecoinSteps
<1> QED BY <1>1, <1>2, <1>3, PTL DEF StablecoinSpec, ImplementsReference, Reference!Spec

\* register_issuer, rotate_issuer_authority, mint_to_user and burn_from_user
\* keep the issuers' shares and the supply in step, with any number of issuers.
THEOREM SupplyAccountedHolds == StablecoinSpec => []SupplyAccounted
<1>1. SupplyInv /\ SharesInv /\ [StablecoinNext]_allVars => SupplyInv' /\ SharesInv'
  BY SupplyImplements, SharesKept, StablecoinSteps
<1>2. SupplyInv /\ SharesInv => SupplyAccounted
  <2> SUFFICES ASSUME SupplyInv, SharesInv
               PROVE  SupplyAccounted
    OBVIOUS
  <2>1. IssuerTypes
    BY DEF SupplyInv
  <2>2. SumFunction([k \in Live |-> issuers[k].outstanding])
          = supply.current + burnedByRetired
    BY <2>1, SumOfLive DEF SharesInv
  <2>3. ASSUME NEW k \in Live
        PROVE  /\ issuers[k].outstanding = issuers[k].minted - issuers[k].burned
               /\ issuers[k].outstanding \in 0 .. issuers[k].limit
    <3>1. issuers[k] \in Issuer /\ Consistent(issuers[k]) /\ issuers[k].limit > 0
      BY <2>1, RegisteredIsIssuer DEF Live, SharesInv
    <3> QED BY <3>1 DEF Consistent, Issuer
  <2> QED BY <2>2, <2>3 DEF SupplyAccounted
<1>3. StablecoinInit => SupplyInv /\ SharesInv
  BY InitShares DEF StablecoinInit
<1> QED BY <1>1, <1>2, <1>3, PTL DEF StablecoinSpec

\* No mint, burn or transfer, by whichever issuer and from whichever account,
\* brings more tokens into existence than the protocol counts, or counts more
\* than its cap.
THEOREM TokensCoveredHolds == StablecoinSpec => []TokensCovered
<1>1. StablecoinInit => SupplyInv /\ TokensInv
  <2> SUFFICES ASSUME Init
               PROVE  TokensInv
    BY InitShares DEF StablecoinInit
  <2>1. TokenTypes /\ \A t \in TokenAccounts : Held[t] = 0
    BY DEF Init, TokenTypes, Held, HeldBy
  <2>2. SumFunctionOnSet(Held, TokenAccounts) = 0
    BY <2>1, FiniteAssumption, SumOfZeros
  <2> QED BY <2>1, <2>2 DEF Init, TokensInv, NoSupply
<1>2. SupplyInv /\ TokensInv /\ [StablecoinNext]_allVars => SupplyInv' /\ TokensInv'
  BY SupplyImplements, TokensKept, StablecoinSteps
<1>3. TokensInv => TokensCovered
  <2> SUFFICES ASSUME TokensInv
               PROVE  SumFunction([t \in OpenAccounts |-> tokens[t]]) <= supply.current
    BY DEF TokensInv, TokensCovered
  <2> QED BY SumOfOpen DEF TokensInv
<1> QED BY <1>1, <1>2, <1>3, PTL DEF StablecoinSpec

\* The counters of RedemptionVault, which four instructions move in pairs, are
\* the sums of the amounts of the requests in each status, and no sum leaves u64.
THEOREM VaultMatchesRequestsHolds == StablecoinSpec => []VaultMatchesRequests
<1>1. StablecoinInit => VaultInv
  BY EmptyTotals, AmountsAssumption DEF StablecoinInit, Desk!Init, VaultInv, RedemptionTypes,
     Desk!EmptyVault
<1>2. VaultInv /\ [StablecoinNext]_allVars => VaultInv'
  <2> SUFFICES ASSUME VaultInv, [StablecoinNext]_allVars
               PROVE  VaultInv'
    OBVIOUS
  <2>1. [Desk!Next]_redemptionVars
    BY StablecoinSteps
  <2> QED BY <2>1, VaultInvKept
<1>3. VaultInv => VaultMatchesRequests
  BY TotalIsAmountWith DEF VaultInv, VaultMatchesRequests, Desk!VaultMatchesRequests
<1> QED BY <1>1, <1>2, <1>3, PTL DEF StablecoinSpec

\* complete_redemption and reject_redemption leave exactly one entry in the
\* admin log for every request they decide, and nothing decides it again.
THEOREM LogTellsDecisionsHolds == StablecoinSpec => []LogTellsDecisions
<1>1. StablecoinInit => LogInv
  BY DEF StablecoinInit, Desk!Init, LogInv, RedemptionTypes, Desk!LogTellsDecisions
<1>2. LogInv /\ [StablecoinNext]_allVars => LogInv'
  <2> SUFFICES ASSUME LogInv, [StablecoinNext]_allVars
               PROVE  LogInv'
    OBVIOUS
  <2>1. [Desk!Next]_redemptionVars
    BY StablecoinSteps
  <2> QED BY <2>1, LogInvKept
<1>3. LogInv => LogTellsDecisions
  BY DEF LogInv, LogTellsDecisions
<1> QED BY <1>1, <1>2, <1>3, PTL DEF StablecoinSpec

\* begin_admin_transfer and accept_admin_transfer hand the role over in two
\* steps, and every instruction of an admin leaves an entry: the log alone
\* tells who held the role when, and the configuration agrees with its end.
THEOREM LogTellsAdminsHolds == StablecoinSpec => []LogTellsAdmins
<1>1. StablecoinInit => AdminsInv
  BY DEF StablecoinInit, Desk!Init, AdminsInv, LogInv, RedemptionTypes,
     Desk!LogTellsDecisions
<1>2. AdminsInv /\ [StablecoinNext]_allVars => AdminsInv'
  <2> SUFFICES ASSUME AdminsInv, [StablecoinNext]_allVars
               PROVE  AdminsInv'
    OBVIOUS
  <2>1. [Desk!Next]_redemptionVars
    BY StablecoinSteps
  <2> QED BY <2>1, AdminsInvKept
<1>3. AdminsInv => LogTellsAdmins
  <2> SUFFICES ASSUME AdminsInv PROVE LogTellsAdmins
    OBVIOUS
  <2>1. \A n : Desk!OpenNominations(n) = OpenIn(log, n)
    BY DEF Desk!OpenNominations, OpenIn
  <2>2. log # <<>> => InOffice(log, config.admin, config.pending)
    BY DEF AdminsInv
  <2>3. log # <<>> =>
          /\ config.admin = Desk!Last(log).admin
          /\ config.pending = IF OpenIn(log, Len(log)) = {} THEN Desk!NoKey
                              ELSE log[CHOOSE b \in OpenIn(log, Len(log)) : TRUE].target
    BY <2>2 DEF InOffice, Desk!Last
  <2>4. \A i \in DOMAIN log : Told(log, i)
    BY DEF AdminsInv
  <2> QED BY <2>1, <2>3, <2>4 DEF LogTellsAdmins, Desk!LogTellsAdmins, Told
<1> QED BY <1>1, <1>2, <1>3, PTL DEF StablecoinSpec

\* Whatever the owners and admins do, each request goes through lab 10's
\* RedemptionModel once, and the role of admin through AdminTransferModel.
THEOREM RedemptionImplementsModels == StablecoinSpec => RedemptionImplementsReference
<1>1. StablecoinInit => RedemptionInv
  BY RedemptionAssumption DEF StablecoinInit, Desk!Init, RedemptionInv, RedemptionTypes
<1>2. StablecoinInit => Desk!Reference!Init
  BY DEF StablecoinInit, Desk!Init, Desk!Reference!Init, Desk!Reference!NoRequest,
     Desk!Models, Desk!Nominee, Desk!Initialized, Desk!NoConfig
<1>3. RedemptionInv /\ [StablecoinNext]_allVars =>
         /\ RedemptionInv'
         /\ [Desk!Reference!Next]_<<Desk!Models, config.admin, Desk!Nominee>>
  <2> SUFFICES ASSUME RedemptionInv, [StablecoinNext]_allVars
               PROVE  /\ RedemptionInv'
                      /\ [Desk!Reference!Next]_<<Desk!Models, config.admin, Desk!Nominee>>
    OBVIOUS
  <2>1. [Desk!Next]_redemptionVars
    BY StablecoinSteps
  <2> QED BY <2>1, RedemptionImplements
<1> QED BY <1>1, <1>2, <1>3, PTL
        DEF StablecoinSpec, RedemptionImplementsReference,
            Desk!RedemptionImplementsReference, Desk!Reference!Spec, Desk!Reference!vars
=============================================================================
