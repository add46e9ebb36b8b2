--------------------------- MODULE ProgramsProofs ---------------------------
(* What the three programs promise while all of them run, proved for any     *)
(* keys, accounts, limits, amounts and messages. Each has an inductive      *)
(* invariant of its own, which the others' instructions leave alone.        *)
EXTENDS Programs, Sequences, Sums, TLAPS

\* An instruction of one program stutters for the others.
LEMMA ProgramsSteps ==
  ASSUME [ProgramsNext]_allVars
  PROVE  /\ [Next]_vars
         /\ [Bridge!Next]_bridgeVars
         /\ [Vault!Next]_vaultVars
  BY DEF ProgramsNext, allVars, Hook, HookStep, BridgeStep, VaultStep,
     hookVars, bridgeVars, vaultVars

-----------------------------------------------------------------------------
(* The compliance hook.                                                     *)

Profile ==
    [allowlisted : BOOLEAN, blocked : BOOLEAN, issuer_active : BOOLEAN,
     transferred_today : Nat, current_day : Nat]

HookConfigs == [admin : Admins, max : Nat, daily : Nat, paused : BOOLEAN]

\* The shape of the state, as far as the two properties depend on it.
HookTypes ==
    /\ day \in Nat /\ day > 0
    /\ sent \in [Users -> Nat] /\ called \in [Users -> Nat]
    /\ profiles \in [Users -> Profile \cup {NoProfile}]
    /\ config \in HookConfigs \cup {NoConfig}

\* Inductive: a limit is compared with the profile's sum, and that sum covers
\* what the account sent only because no step lets the two drift apart.
HookInv == HookTypes /\ TodayCountsCalls

\* The day of a missing profile is no day.
LEMMA ProfilesExist ==
  ASSUME NEW p \in Profile
  PROVE  p # NoProfile
<1>1. p.current_day \in Nat
  BY DEF Profile
<1>2. NoProfile.current_day = -1
  BY DEF NoProfile
<1>3. p.current_day # -1
  BY <1>1
<1> QED BY <1>2, <1>3

LEMMA HookInit == Init => HookInv
  BY DEF Init, HookInv, HookTypes, TodayCountsCalls, NoProfile

\* A profile written by the admin keeps its day and its sum.
LEMMA SetUserComplianceKeeps ==
  ASSUME HookInv, NEW s \in Admins, NEW v \in Users,
         NEW flags \in BOOLEAN \X BOOLEAN \X BOOLEAN, SetUserCompliance(s, v, flags)
  PROVE  HookInv'
<1> DEFINE old == IF profiles[v] = NoProfile THEN NewProfile ELSE profiles[v]
           new == [old EXCEPT !.allowlisted = flags[1],
                              !.blocked = flags[2], !.issuer_active = flags[3]]
<1>1. old \in Profile
  BY DEF HookInv, HookTypes, Profile, NewProfile
<1>2. flags[1] \in BOOLEAN /\ flags[2] \in BOOLEAN /\ flags[3] \in BOOLEAN
  OBVIOUS
<1>3. /\ new \in Profile
      /\ new.current_day = old.current_day
      /\ new.transferred_today = old.transferred_today
  BY <1>1, <1>2 DEF Profile
<1>4. /\ profiles' = [profiles EXCEPT ![v] = new]
      /\ day' = day /\ sent' = sent /\ called' = called
  BY DEF SetUserCompliance, history
<1>5. HookTypes'
  BY <1>3, <1>4 DEF HookInv, HookTypes, SetUserCompliance
<1>6. profiles[v] = NoProfile => old.current_day = 0 /\ sent[v] + called[v] = 0
  BY DEF NewProfile, HookInv, TodayCountsCalls
<1>7. new # NoProfile /\ (profiles[v] # NoProfile => old = profiles[v])
  BY <1>3, ProfilesExist
<1>8. ASSUME NEW u \in Users
      PROVE  IF profiles'[u] = NoProfile \/ profiles'[u].current_day # day'
               THEN sent'[u] + called'[u] = 0 /\ profiles'[u].current_day < day'
               ELSE profiles'[u].transferred_today = sent'[u] + called'[u]
  <2> HIDE DEF new, old
  <2>1. CASE u # v
    BY <2>1, <1>4 DEF HookInv, HookTypes, TodayCountsCalls
  <2>2. CASE u = v
    <3>1. profiles'[u] = new
      BY <2>2, <1>4 DEF HookInv, HookTypes
    <3>2. CASE profiles[v] = NoProfile
      BY <3>1, <3>2, <2>2, <1>3, <1>4, <1>6, <1>7 DEF HookInv, HookTypes
    <3>3. CASE profiles[v] # NoProfile
      BY <3>1, <3>3, <2>2, <1>3, <1>4, <1>7 DEF HookInv, HookTypes, TodayCountsCalls
    <3> QED BY <3>2, <3>3
  <2> QED BY <2>1, <2>2
<1> QED BY <1>5, <1>8 DEF HookInv, TodayCountsCalls

\* What a call of the hook does to its source: the profile's sum grows with
\* what the source has sent or what was counted without a transfer.
LEMMA ExecuteCounts ==
  ASSUME HookInv, NEW v \in Users, NEW w \in Users, NEW amount \in Amounts,
         Transfer(v, w, amount) \/ CallDirectly(v, w, amount)
  PROVE  /\ HookInv'
         /\ \A u \in Users : sent'[u] # sent[u] => sent'[u] <= config.daily
<1> DEFINE sum == TransferredToday(profiles[v]) + amount
           new == [profiles[v] EXCEPT !.current_day = day, !.transferred_today = sum]
<1>1. Execute(v, w, amount)
  BY DEF Transfer, CallDirectly
<1>2. /\ profiles[v] \in Profile /\ amount \in Nat
      /\ sent[v] \in Nat /\ called[v] \in Nat
      /\ TransferredToday(profiles[v]) = sent[v] + called[v]
  BY <1>1, LimitsAssumption DEF Execute, MayTransfer, HookInv, HookTypes,
     TodayCountsCalls, TransferredToday, Profile
<1>3. sum \in Nat /\ sum = sent[v] + called[v] + amount /\ sum <= config.daily
  BY <1>1, <1>2 DEF Execute
<1>4. profiles' = [profiles EXCEPT ![v] = new] /\ day' = day /\ config' = config
  BY <1>1 DEF Execute
<1>5. /\ new \in Profile /\ new.current_day = day
      /\ new.transferred_today = sum /\ new # NoProfile
  <2>1. /\ new \in Profile /\ new.current_day = day
        /\ new.transferred_today = sum
    BY <1>2, <1>3 DEF Profile, HookInv, HookTypes
  <2> QED BY <2>1, ProfilesExist
<1> HIDE DEF sum, new
<1>6. /\ sent' \in [Users -> Nat] /\ called' \in [Users -> Nat]
      /\ sent'[v] + called'[v] = sum /\ sent'[v] <= sum
      /\ \A u \in Users \ {v} : sent'[u] = sent[u] /\ called'[u] = called[u]
  <2>1. CASE /\ sent' = [sent EXCEPT ![v] = @ + amount]
             /\ called' = called
    <3>1. sent'[v] = sent[v] + amount /\ sent' \in [Users -> Nat]
      BY <1>2, <2>1 DEF HookInv, HookTypes
    <3> QED BY <1>2, <1>3, <2>1, <3>1 DEF HookInv, HookTypes
  <2>2. CASE /\ called' = [called EXCEPT ![v] = @ + amount]
             /\ sent' = sent
    <3>1. called'[v] = called[v] + amount /\ called' \in [Users -> Nat]
      BY <1>2, <2>2 DEF HookInv, HookTypes
    <3> QED BY <1>2, <1>3, <2>2, <3>1 DEF HookInv, HookTypes
  <2> QED BY <2>1, <2>2 DEF Transfer, CallDirectly
<1>7. profiles' \in [Users -> Profile \cup {NoProfile}] /\ profiles'[v] = new
  BY <1>4, <1>5 DEF HookInv, HookTypes
<1>8. ASSUME NEW u \in Users, u # v
      PROVE  profiles'[u] = profiles[u]
  BY <1>4, <1>8 DEF HookInv, HookTypes
<1>9. HookTypes'
  BY <1>4, <1>6, <1>7 DEF HookInv, HookTypes
<1>10. TodayCountsCalls'
  BY <1>4, <1>5, <1>6, <1>7, <1>8 DEF HookInv, TodayCountsCalls
<1>11. \A u \in Users : sent'[u] # sent[u] => sent'[u] <= config.daily
  <2>1. sent'[v] <= config.daily
    <3>1. sent'[v] \in Nat
      BY <1>6
    <3>2. config.daily \in Nat
      BY <1>1 DEF Execute, HookInv, HookTypes, HookConfigs
    <3> QED BY <1>3, <1>6, <3>1, <3>2
  <2> QED BY <1>6, <2>1
<1> QED BY <1>9, <1>10, <1>11 DEF HookInv

\* Midnight makes every sum one of an earlier day.
LEMMA MidnightForgets ==
  ASSUME HookInv, Midnight
  PROVE  HookInv'
<1>1. /\ day \in Nat /\ day' = day + 1 /\ profiles' = profiles
      /\ sent' = [u \in Users |-> 0] /\ called' = [u \in Users |-> 0]
  BY DEF Midnight, HookInv, HookTypes
<1>2. \A u \in Users : profiles[u].current_day < day'
  <2> TAKE u \in Users
  <2>1. NoProfile.current_day = -1
    BY DEF NoProfile
  <2>2. CASE profiles[u] = NoProfile
    BY <1>1, <2>1, <2>2
  <2>3. CASE profiles[u] \in Profile /\ profiles[u].current_day = day
    BY <1>1, <2>3
  <2>4. CASE profiles[u] \in Profile /\ profiles[u].current_day # day
    BY <1>1, <2>4 DEF HookInv, TodayCountsCalls, Profile
  <2> QED BY <2>2, <2>3, <2>4 DEF HookInv, HookTypes
<1>3. HookTypes'
  BY <1>1 DEF HookInv, HookTypes, Midnight
<1>4. ASSUME NEW u \in Users
      PROVE  sent'[u] + called'[u] = 0 /\ profiles'[u].current_day < day'
             /\ profiles'[u].current_day # day'
  <2>1. profiles[u].current_day \in Int
    BY DEF HookInv, HookTypes, Profile, NoProfile
  <2> QED BY <1>1, <1>2, <2>1
<1> QED BY <1>3, <1>4 DEF HookInv, TodayCountsCalls

\* The config that the admin's instructions write.
LEMMA ConfigTyped ==
  ASSUME HookInv, [Next]_vars
  PROVE  config' \in HookConfigs \cup {NoConfig}
<1>1. CASE config' = config
  BY <1>1 DEF HookInv, HookTypes
<1>2. ASSUME NEW s \in Admins, NEW max \in MaxLimits, NEW daily \in DailyLimits,
             \/ InitializeComplianceConfig(s, max, daily)
             \/ SetTransferLimits(s, max, daily)
      PROVE  config' \in HookConfigs
  <2>1. max \in Nat /\ daily \in Nat
    BY LimitsAssumption
  <2>2. CASE InitializeComplianceConfig(s, max, daily)
    BY <2>1, <2>2 DEF InitializeComplianceConfig, HookConfigs
  <2>3. CASE SetTransferLimits(s, max, daily)
    <3>1. config \in HookConfigs
      BY <2>3 DEF SetTransferLimits, IsAdmin, HookInv, HookTypes
    <3> QED BY <2>1, <2>3, <3>1 DEF SetTransferLimits, HookConfigs
  <2> QED BY <1>2, <2>2, <2>3
<1>3. ASSUME NEW s \in Admins, NEW paused \in BOOLEAN, SetProtocolPaused(s, paused)
      PROVE  config' \in HookConfigs
  <2>1. config \in HookConfigs
    BY <1>3 DEF SetProtocolPaused, IsAdmin, HookInv, HookTypes
  <2> QED BY <1>3, <2>1 DEF SetProtocolPaused, HookConfigs
<1> QED BY <1>1, <1>2, <1>3 DEF Next, vars, InitializeExtraAccountMetaList,
        SetUserCompliance, Transfer, CallDirectly, Execute, Midnight

\* Nothing but these three touches profiles, sums or the day.
LEMMA HookSteps ==
  ASSUME HookInv, [Next]_vars
  PROVE  \/ UNCHANGED <<profiles, day, sent, called>>
         \/ \E s \in Admins, u \in Users, flags \in BOOLEAN \X BOOLEAN \X BOOLEAN :
               SetUserCompliance(s, u, flags)
         \/ \E u, v \in Users, amount \in Amounts :
               Transfer(u, v, amount) \/ CallDirectly(u, v, amount)
         \/ Midnight
  BY DEF Next, vars, InitializeComplianceConfig, SetTransferLimits,
     history, InitializeExtraAccountMetaList, SetProtocolPaused

LEMMA HookInductive ==
  ASSUME HookInv, [Next]_vars
  PROVE  HookInv'
<1>1. CASE UNCHANGED <<profiles, day, sent, called>>
  BY <1>1, ConfigTyped DEF HookInv, HookTypes, TodayCountsCalls
<1>2. CASE \E s \in Admins, u \in Users, flags \in BOOLEAN \X BOOLEAN \X BOOLEAN :
              SetUserCompliance(s, u, flags)
  BY <1>2, SetUserComplianceKeeps
<1>3. CASE \E u, v \in Users, amount \in Amounts :
               Transfer(u, v, amount) \/ CallDirectly(u, v, amount)
  BY <1>3, ExecuteCounts
<1>4. CASE Midnight
  BY <1>4, MidnightForgets
<1> QED BY <1>1, <1>2, <1>3, <1>4, HookSteps

\* Only a transfer adds to what an account sent.
LEMMA HookWithinLimit ==
  ASSUME HookInv, [Next]_vars
  PROVE  [ \A u \in Users :
             (day' = day /\ sent'[u] # sent[u]) => sent'[u] <= config.daily ]_vars
<1> SUFFICES ASSUME NEW u \in Users, day' = day, sent'[u] # sent[u]
             PROVE  sent'[u] <= config.daily
  OBVIOUS
<1>1. ~Midnight
  BY DEF Midnight, HookInv, HookTypes
<1>2. \A s \in Admins, v \in Users, flags \in BOOLEAN \X BOOLEAN \X BOOLEAN :
         ~SetUserCompliance(s, v, flags)
  BY DEF SetUserCompliance, history
<1> QED BY <1>1, <1>2, HookSteps, ExecuteCounts

-----------------------------------------------------------------------------
(* The bridge receivers.                                                    *)

Consumption == [receiver : {"Solana", "EVM"}, message : Messages]

\* What each receiver keeps tells what it has consumed: the account at the
\* message's address, the id in the contract's set. The Solana program consumes
\* only what is meant for its chain, the contract what is meant for its own.
Recorded(entry, accounts, deployed, ids) ==
    IF entry.receiver = "Solana"
      THEN /\ entry.message.destination = Bridge!SolanaChainId
           /\ \E record \in accounts : Bridge!SameAddress(record, entry.message)
      ELSE /\ deployed # Bridge!None
           /\ entry.message.destination = deployed.localChainId
           /\ Bridge!MessageId(entry.message) \in ids

\* Two messages of one mint meet at one receiver at most once.
OncePerReceiver ==
    \A i, j \in DOMAIN log :
        i # j /\ Bridge!SameMint(log[i].message, log[j].message) => log[i].receiver # log[j].receiver

BridgeInv ==
    /\ log \in Seq(Consumption)
    /\ \A i \in DOMAIN log : Recorded(log[i], consumed, contract, consumedMessages)
    /\ OncePerReceiver

\* A message of the same mint as one the program has consumed finds the account
\* there, whatever its amount and recipient; one the contract has consumed, the
\* id.
LEMMA MessageSeen ==
  ASSUME NEW m, NEW n, Bridge!SameMint(m, n)
  PROVE  /\ \A record : Bridge!SameAddress(record, m) => Bridge!SameAddress(record, n)
         /\ Bridge!MessageId(m) = Bridge!MessageId(n)
  BY DEF Bridge!SameMint, Bridge!SameAddress, Bridge!MessageId

\* Appending an entry its receiver has not seen, and recording it, keeps the
\* invariant.
LEMMA ConsumeKeeps ==
  ASSUME BridgeInv, NEW entry \in Consumption, log' = Append(log, entry),
         \A i \in DOMAIN log : Recorded(log[i], consumed', contract', consumedMessages'),
         Recorded(entry, consumed', contract', consumedMessages'),
         \A i \in DOMAIN log :
             Bridge!SameMint(log[i].message, entry.message) => log[i].receiver # entry.receiver
  PROVE  BridgeInv'
<1>1. /\ log' \in Seq(Consumption)
      /\ DOMAIN log' = DOMAIN log \cup {Len(log) + 1}
      /\ \A i \in DOMAIN log : log'[i] = log[i]
      /\ log'[Len(log) + 1] = entry
      /\ Len(log) + 1 \notin DOMAIN log
  BY DEF BridgeInv
<1>2. ASSUME NEW i \in DOMAIN log'
      PROVE  Recorded(log'[i], consumed', contract', consumedMessages')
  BY <1>1, <1>2
<1>3. ASSUME NEW i \in DOMAIN log', NEW j \in DOMAIN log',
             i # j, Bridge!SameMint(log'[i].message, log'[j].message)
      PROVE  log'[i].receiver # log'[j].receiver
  <2>1. CASE i \in DOMAIN log /\ j \in DOMAIN log
    BY <1>1, <1>3, <2>1 DEF BridgeInv, OncePerReceiver
  <2>2. CASE i \in DOMAIN log /\ j = Len(log) + 1
    BY <1>1, <1>3, <2>2
  <2>3. CASE i = Len(log) + 1 /\ j \in DOMAIN log
    <3>1. Bridge!SameMint(log[j].message, entry.message)
      BY <1>1, <1>3, <2>3 DEF Bridge!SameMint
    <3> QED BY <1>1, <2>3, <3>1
  <2> QED BY <1>1, <1>3, <2>1, <2>2, <2>3
<1> QED BY <1>1, <1>2, <1>3 DEF BridgeInv, OncePerReceiver

\* The account's creation fails when its address is in use.
LEMMA SolanaKeeps ==
  ASSUME BridgeInv, NEW s \in Keys, NEW m \in Messages, Bridge!ConsumeOnSolana(s, m)
  PROVE  BridgeInv'
<1> DEFINE entry == [receiver |-> "Solana", message |-> m]
<1>1. /\ log' = Append(log, entry)
      /\ consumed' = consumed \cup {Bridge!ConsumedMessage(m)}
      /\ m.destination = Bridge!SolanaChainId
      /\ contract' = contract /\ consumedMessages' = consumedMessages
      /\ \A record \in consumed : ~Bridge!SameAddress(record, m)
  BY DEF Bridge!ConsumeOnSolana, Bridge!Consume, Bridge!evm
<1>2. entry \in Consumption /\ entry.receiver = "Solana" /\ entry.message = m
  BY DEF Consumption
<1> HIDE DEF entry
<1>3. \A i \in DOMAIN log : Recorded(log[i], consumed', contract', consumedMessages')
  BY <1>1 DEF BridgeInv, Recorded
<1>4. Recorded(entry, consumed', contract', consumedMessages')
  <2>1. Bridge!SameAddress(Bridge!ConsumedMessage(m), m)
    BY DEF Bridge!SameAddress, Bridge!ConsumedMessage
  <2> QED BY <1>1, <1>2, <2>1 DEF Recorded
<1>5. ASSUME NEW i \in DOMAIN log, Bridge!SameMint(log[i].message, entry.message)
      PROVE  log[i].receiver # entry.receiver
  <2> SUFFICES ASSUME log[i].receiver = "Solana"
               PROVE  FALSE
    BY <1>2
  <2>1. PICK record \in consumed : Bridge!SameAddress(record, log[i].message)
    BY DEF BridgeInv, Recorded
  <2>2. Bridge!SameAddress(record, m)
    BY <1>2, <1>5, <2>1, MessageSeen
  <2> QED BY <1>1, <2>2
<1> QED BY <1>1, <1>2, <1>3, <1>4, <1>5, ConsumeKeeps

\* The id is looked up in the contract's set before it is put there.
LEMMA EVMKeeps ==
  ASSUME BridgeInv, NEW s \in Keys, NEW m \in Messages, Bridge!ConsumeMintMessage(s, m)
  PROVE  BridgeInv'
<1> DEFINE entry == [receiver |-> "EVM", message |-> m]
<1>1. /\ log' = Append(log, entry)
      /\ consumedMessages' = consumedMessages \cup {Bridge!MessageId(m)}
      /\ contract # Bridge!None /\ m.destination = contract.localChainId
      /\ contract' = contract /\ consumed' = consumed
      /\ Bridge!MessageId(m) \notin consumedMessages
  BY DEF Bridge!ConsumeMintMessage, Bridge!Consume, Bridge!solana
<1>2. entry \in Consumption /\ entry.receiver = "EVM" /\ entry.message = m
  BY DEF Consumption
<1> HIDE DEF entry
<1>3. \A i \in DOMAIN log : Recorded(log[i], consumed', contract', consumedMessages')
  BY <1>1 DEF BridgeInv, Recorded
<1>4. Recorded(entry, consumed', contract', consumedMessages')
  BY <1>1, <1>2 DEF Recorded
<1>5. ASSUME NEW i \in DOMAIN log, Bridge!SameMint(log[i].message, entry.message)
      PROVE  log[i].receiver # entry.receiver
  <2> SUFFICES ASSUME log[i].receiver # "Solana"
               PROVE  FALSE
    BY <1>2
  <2>1. Bridge!MessageId(log[i].message) \in consumedMessages
    BY DEF BridgeInv, Recorded
  <2> QED BY <1>1, <1>2, <1>5, <2>1, MessageSeen
<1> QED BY <1>1, <1>2, <1>3, <1>4, <1>5, ConsumeKeeps

\* The contract's immutables are set once.
LEMMA DeployKeeps ==
  ASSUME BridgeInv, NEW b, NEW t, NEW chain, NEW limit, Bridge!Deploy(b, t, chain, limit)
  PROVE  BridgeInv'
<1>1. /\ contract = Bridge!None /\ log' = log
      /\ consumed' = consumed /\ consumedMessages' = consumedMessages
  BY DEF Bridge!Deploy, Bridge!solana
<1>2. ASSUME NEW i \in DOMAIN log
      PROVE  Recorded(log[i], consumed', contract', consumedMessages')
  BY <1>1 DEF BridgeInv, Recorded
<1> QED BY <1>1, <1>2 DEF BridgeInv, OncePerReceiver

LEMMA BridgeInvKept ==
  ASSUME BridgeInv, [Bridge!Next]_bridgeVars
  PROVE  BridgeInv'
<1>1. CASE UNCHANGED bridgeVars
  BY <1>1 DEF BridgeInv, OncePerReceiver, bridgeVars
<1>2. ASSUME NEW s \in Keys, NEW b \in Keys, NEW t \in Tokens, NEW limit \in MessageLimits,
             Bridge!InitializeBridgeConfig(s, b, t, limit)
      PROVE  BridgeInv'
  BY <1>2 DEF Bridge!InitializeBridgeConfig, Bridge!evm, BridgeInv, OncePerReceiver
<1> QED BY <1>1, <1>2, SolanaKeeps, EVMKeeps, DeployKeeps DEF Bridge!Next

\* At two receivers both destinations are one: Solana's chain id, and the one
\* the contract was deployed for.
LEMMA BridgeInvImplies ==
  ASSUME BridgeInv
  PROVE  OncePerMessage
<1> SUFFICES ASSUME NEW i \in DOMAIN log, NEW j \in DOMAIN log,
                    i # j, Bridge!SameMint(log[i].message, log[j].message)
             PROVE  /\ log[i].receiver # log[j].receiver
                    /\ contract.localChainId = Bridge!SolanaChainId
  BY DEF OncePerMessage, Bridge!OncePerMessage
<1>1. log[i].receiver # log[j].receiver
  BY DEF BridgeInv, OncePerReceiver
<1>2. log[i].message.destination = log[j].message.destination
  BY DEF Bridge!SameMint
<1>3. log[i].receiver \in {"Solana", "EVM"} /\ log[j].receiver \in {"Solana", "EVM"}
  <2>1. log[i] \in Consumption /\ log[j] \in Consumption
    BY DEF BridgeInv
  <2> QED BY <2>1 DEF Consumption
<1> QED BY <1>1, <1>2, <1>3 DEF BridgeInv, Recorded

-----------------------------------------------------------------------------
(* The vault.                                                               *)

Config == [limit : Nat, total : Nat]

VaultInv ==
    /\ vault \in [Users -> Config \cup {Vault!None}]
    /\ lamports \in [Users -> Nat]
    /\ wallet \in [Users -> Nat]
    /\ Vault!DepositsClaimable

LEMMA ConfigsExist ==
  ASSUME NEW c \in Config
  PROVE  c # Vault!None
<1>1. "limit" \in DOMAIN c
  BY DEF Config
<1>2. "limit" \notin DOMAIN Vault!None
  BY DEF Vault!None
<1> QED BY <1>1, <1>2

LEMMA ConfigWithTotal ==
  ASSUME NEW c \in Config, NEW total \in Nat
  PROVE  LET next == [c EXCEPT !.total = total]
         IN  next \in Config /\ next.total = total
  BY DEF Config

LEMMA ConfigWithLimit ==
  ASSUME NEW c \in Config, NEW limit \in Nat
  PROVE  LET next == [c EXCEPT !.limit = limit]
         IN  next \in Config /\ next.total = c.total
  BY DEF Config

\* A step that rewrites one vault keeps the invariant if that vault's lamports
\* still cover what it records.
LEMMA OneVaultKept ==
  ASSUME VaultInv, NEW u \in Users, NEW c \in Config \cup {Vault!None},
         NEW held \in Nat, NEW w \in [Users -> Nat],
         vault' = [vault EXCEPT ![u] = c], lamports' = [lamports EXCEPT ![u] = held],
         wallet' = w, c # Vault!None => held >= Rent + c.total
  PROVE  VaultInv'
<1>1. /\ vault' \in [Users -> Config \cup {Vault!None}]
      /\ lamports' \in [Users -> Nat] /\ wallet' \in [Users -> Nat]
  BY DEF VaultInv
<1>2. ASSUME NEW v \in Users, vault'[v] # Vault!None
      PROVE  lamports'[v] >= Rent + vault'[v].total
  <2>1. CASE v = u
    BY <1>2, <2>1 DEF VaultInv
  <2>2. CASE v # u
    BY <1>2, <2>2 DEF VaultInv, Vault!DepositsClaimable
  <2> QED BY <2>1, <2>2
<1> QED BY <1>1, <1>2 DEF VaultInv, Vault!DepositsClaimable

\* What a vault is before a step that needs it to exist.
LEMMA OpenVault ==
  ASSUME VaultInv, NEW u \in Users, vault[u] # Vault!None
  PROVE  /\ vault[u] \in Config /\ vault[u].total \in Nat
         /\ lamports[u] \in Nat /\ wallet[u] \in Nat
         /\ lamports[u] >= Rent + vault[u].total
  BY DEF VaultInv, Config, Vault!DepositsClaimable

LEMMA InitializeKeeps ==
  ASSUME VaultInv, NEW u \in Users, NEW limit \in VaultLimits, Vault!InitializeVault(u, limit)
  PROVE  VaultInv'
<1> DEFINE due == Vault!Shortfall(lamports[u])
           fresh == [limit |-> limit, total |-> 0]
<1>1. due \in Nat /\ lamports[u] + due \in Nat /\ lamports[u] + due >= Rent
  BY VaultAssumption DEF VaultInv, Vault!Shortfall
<1>2. fresh \in Config /\ fresh.total = 0
  BY VaultAssumption DEF Config
<1>3. /\ vault' = [vault EXCEPT ![u] = fresh]
      /\ lamports' = [lamports EXCEPT ![u] = lamports[u] + due]
      /\ wallet' = [wallet EXCEPT ![u] = wallet[u] - due] /\ wallet[u] >= due
  BY DEF Vault!InitializeVault
<1> HIDE DEF due, fresh
<1>4. wallet' \in [Users -> Nat]
  BY <1>1, <1>3 DEF VaultInv
<1>5. lamports[u] + due >= Rent + fresh.total
  BY <1>1, <1>2, VaultAssumption
<1> QED BY <1>1, <1>2, <1>3, <1>4, <1>5, OneVaultKept

LEMMA SetLimitKeeps ==
  ASSUME VaultInv, NEW u \in Users, NEW limit \in VaultLimits, Vault!SetVaultLimit(u, limit)
  PROVE  VaultInv'
<1> DEFINE c == [vault[u] EXCEPT !.limit = limit]
<1>1. vault[u] \in Config /\ lamports[u] \in Nat /\ lamports[u] >= Rent + vault[u].total
  BY OpenVault, VaultAssumption DEF Vault!SetVaultLimit
<1>2. c \in Config /\ c.total = vault[u].total
  BY <1>1, ConfigWithLimit, VaultAssumption
<1>3. vault' = [vault EXCEPT ![u] = c] /\ UNCHANGED <<lamports, wallet>>
  BY DEF Vault!SetVaultLimit
<1> HIDE DEF c
<1>4. lamports' = [lamports EXCEPT ![u] = lamports[u]] /\ wallet' \in [Users -> Nat]
  BY <1>3 DEF VaultInv
<1> QED BY <1>1, <1>2, <1>3, <1>4, OneVaultKept

LEMMA DepositKeeps ==
  ASSUME VaultInv, NEW u \in Users, NEW amount \in VaultAmounts, Vault!Deposit(u, amount)
  PROVE  VaultInv'
<1> DEFINE c == [vault[u] EXCEPT !.total = vault[u].total + amount]
<1>1. /\ vault[u] \in Config /\ vault[u].total \in Nat /\ amount \in Nat
      /\ lamports[u] \in Nat /\ lamports[u] >= Rent + vault[u].total
  BY OpenVault, VaultAssumption DEF Vault!Deposit
<1>2. c \in Config /\ c.total = vault[u].total + amount
  <2>1. vault[u].total + amount \in Nat
    BY <1>1
  <2> QED BY <1>1, <2>1, ConfigWithTotal
<1>3. /\ vault' = [vault EXCEPT ![u] = c]
      /\ lamports' = [lamports EXCEPT ![u] = lamports[u] + amount]
      /\ wallet' = [wallet EXCEPT ![u] = wallet[u] - amount] /\ wallet[u] >= amount
  BY DEF Vault!Deposit
<1> HIDE DEF c
<1>4. wallet' \in [Users -> Nat]
  BY <1>1, <1>3 DEF VaultInv
<1>5. lamports[u] + amount \in Nat /\ lamports[u] + amount >= Rent + c.total
  BY <1>1, <1>2, VaultAssumption
<1> QED BY <1>2, <1>3, <1>4, <1>5, OneVaultKept

\* A withdrawal takes no more than the deposits, so the rent stays.
LEMMA WithdrawKeeps ==
  ASSUME VaultInv, NEW u \in Users, NEW amount \in VaultAmounts, Vault!Withdraw(u, amount)
  PROVE  VaultInv'
<1> DEFINE c == [vault[u] EXCEPT !.total = vault[u].total - amount]
<1>1. /\ vault[u] \in Config /\ vault[u].total \in Nat /\ amount \in Nat
      /\ lamports[u] \in Nat /\ lamports[u] >= Rent + vault[u].total
      /\ amount <= vault[u].total /\ amount <= lamports[u]
  BY OpenVault, VaultAssumption DEF Vault!Withdraw
<1>2. c \in Config /\ c.total = vault[u].total - amount
  <2>1. vault[u].total - amount \in Nat
    BY <1>1
  <2> QED BY <1>1, <2>1, ConfigWithTotal
<1>3. /\ vault' = [vault EXCEPT ![u] = c]
      /\ lamports' = [lamports EXCEPT ![u] = lamports[u] - amount]
      /\ wallet' = [wallet EXCEPT ![u] = wallet[u] + amount]
  BY DEF Vault!Withdraw
<1> HIDE DEF c
<1>4. wallet' \in [Users -> Nat]
  BY <1>1, <1>3 DEF VaultInv
<1>5. lamports[u] - amount \in Nat /\ lamports[u] - amount >= Rent + c.total
  BY <1>1, <1>2, VaultAssumption
<1> QED BY <1>2, <1>3, <1>4, <1>5, OneVaultKept

LEMMA CloseKeeps ==
  ASSUME VaultInv, NEW u \in Users, Vault!CloseVault(u)
  PROVE  VaultInv'
<1>1. /\ vault' = [vault EXCEPT ![u] = Vault!None]
      /\ lamports' = [lamports EXCEPT ![u] = 0]
      /\ wallet' \in [Users -> Nat]
  BY DEF Vault!CloseVault, VaultInv
<1> QED BY <1>1, OneVaultKept

LEMMA DonateKeeps ==
  ASSUME VaultInv, NEW from \in Users, NEW u \in Users, NEW amount \in VaultAmounts,
         Vault!Donate(from, u, amount)
  PROVE  VaultInv'
<1>1. amount \in Nat /\ lamports[u] \in Nat /\ lamports[u] + amount \in Nat
  BY VaultAssumption DEF VaultInv
<1>2. /\ vault' = [vault EXCEPT ![u] = vault[u]] /\ vault[u] \in Config \cup {Vault!None}
      /\ lamports' = [lamports EXCEPT ![u] = lamports[u] + amount]
  BY DEF Vault!Donate, VaultInv
<1>3. wallet' \in [Users -> Nat]
  BY <1>1 DEF Vault!Donate, VaultInv
<1>4. vault[u] # Vault!None => lamports[u] + amount >= Rent + vault[u].total
  BY <1>1, OpenVault, VaultAssumption
<1> QED BY <1>1, <1>2, <1>3, <1>4, OneVaultKept

LEMMA VaultInvKept ==
  ASSUME VaultInv, [Vault!Next]_vaultVars
  PROVE  VaultInv'
<1>1. CASE UNCHANGED vaultVars
  BY <1>1 DEF VaultInv, Vault!DepositsClaimable, vaultVars
<1> QED BY <1>1, InitializeKeeps, SetLimitKeeps, DepositKeeps, WithdrawKeeps, CloseKeeps,
           DonateKeeps DEF Vault!Next

-----------------------------------------------------------------------------
(* The theorems.                                                            *)

\* A profile's sum of today is what its account sent today and what anyone
\* called execute_transfer_hook with besides, whatever set_user_compliance does
\* in between: no transfer is left out of it.
THEOREM TodayCountsCallsHolds == ProgramsSpec => []TodayCountsCalls
<1>1. ProgramsInit => HookInv
  BY HookInit DEF ProgramsInit
<1>2. HookInv /\ [ProgramsNext]_allVars => HookInv'
  BY HookInductive, ProgramsSteps
<1>3. HookInv => TodayCountsCalls
  BY DEF HookInv
<1> QED BY <1>1, <1>2, <1>3, PTL DEF ProgramsSpec

\* No transfer takes what an account sent in a day past the daily limit in
\* force when execute_transfer_hook allowed it.
THEOREM DailyLimitHeldHolds == ProgramsSpec => DailyLimitHeld
<1>1. ProgramsInit => HookInv
  BY HookInit DEF ProgramsInit
<1>2. HookInv /\ [ProgramsNext]_allVars => HookInv'
  BY HookInductive, ProgramsSteps
<1>3. HookInv /\ [ProgramsNext]_allVars =>
        [ \A u \in Users :
            (day' = day /\ sent'[u] # sent[u]) => sent'[u] <= config.daily ]_vars
  BY HookWithinLimit, ProgramsSteps
<1> QED BY <1>1, <1>2, <1>3, PTL DEF ProgramsSpec, DailyLimitHeld

\* A message consumed by the Solana program or by MockBridgeReceiver is not
\* consumed again, however often the network delivers it or in which order.
THEOREM OncePerMessageHolds == ProgramsSpec => []OncePerMessage
<1>1. ProgramsInit => BridgeInv
  BY DEF ProgramsInit, Bridge!Init, BridgeInv, OncePerReceiver
<1>2. BridgeInv /\ [ProgramsNext]_allVars => BridgeInv'
  BY BridgeInvKept, ProgramsSteps
<1>3. BridgeInv => OncePerMessage
  BY BridgeInvImplies
<1> QED BY <1>1, <1>2, <1>3, PTL DEF ProgramsSpec

\* deposit, withdraw, set_vault_limit, close_vault and transfers from outside
\* leave every vault with its rent and all it owes its user.
THEOREM DepositsClaimableHolds == ProgramsSpec => []DepositsClaimable
<1>1. ProgramsInit => VaultInv
  BY VaultAssumption DEF ProgramsInit, Vault!Init, VaultInv, Vault!DepositsClaimable
<1>2. VaultInv /\ [ProgramsNext]_allVars => VaultInv'
  BY VaultInvKept, ProgramsSteps
<1>3. VaultInv => DepositsClaimable
  BY DEF VaultInv, DepositsClaimable
<1> QED BY <1>1, <1>2, <1>3, PTL DEF ProgramsSpec
=============================================================================
