--------------------------- MODULE ComplianceHook ---------------------------
(* The compliance hook of 12-token-2022-stablecoin-protocol (lab 07 holds   *)
(* the same instructions): the program Token-2022 calls for every transfer  *)
(* of a mint. It allows a transfer between two profiles in good standing up *)
(* to a limit per transfer and a limit per source and day. One mint; one    *)
(* instruction is one step. Days are counted from the epoch, so the first   *)
(* day is past 0, the day of a profile nothing was transferred from yet.    *)
EXTENDS Integers

CONSTANTS
    Admins,         \* keys that may initialize the config
    Users,          \* token accounts with a profile
    Amounts,        \* amounts of a transfer
    MaxLimits,      \* values of max_transfer_amount
    DailyLimits,    \* values of daily_transfer_limit
    MaxAmount,      \* u64::MAX
    MaxDay          \* bound: the last day

ASSUME LimitsAssumption ==
    /\ MaxAmount \in Nat /\ MaxDay \in Nat \ {0}
    /\ Amounts \cup MaxLimits \cup DailyLimits \subseteq 0 .. MaxAmount

NoConfig == [admin |-> "None"]
NewProfile == [allowlisted |-> FALSE, blocked |-> FALSE, issuer_active |-> FALSE,
               transferred_today |-> 0, current_day |-> 0]
NoProfile == [current_day |-> -1]

VARIABLES
    config,     \* ComplianceConfig
    metas,      \* whether the account of the extra account metas exists
    profiles,   \* UserCompliance by token account
    day,        \* the cluster's unix_timestamp / SECONDS_PER_DAY
    sent,       \* history: what each account has sent today
    called      \* history: what calls without a transfer have counted today

history == <<sent, called>>
vars == <<config, metas, profiles, day, sent, called>>

Init ==
    /\ config = NoConfig
    /\ metas = FALSE
    /\ profiles = [u \in Users |-> NoProfile]
    /\ day = 1
    /\ sent = [u \in Users |-> 0]
    /\ called = [u \in Users |-> 0]

IsAdmin(signer) == config # NoConfig /\ signer = config.admin

-----------------------------------------------------------------------------
(* Administration.                                                          *)

InitializeComplianceConfig(signer, max, daily) ==
    /\ config = NoConfig
    /\ max > 0 /\ daily > 0
    /\ config' = [admin |-> signer, max |-> max, daily |-> daily, paused |-> FALSE]
    /\ UNCHANGED <<metas, profiles, day, history>>

InitializeExtraAccountMetaList(signer) ==
    /\ IsAdmin(signer)
    /\ ~metas
    /\ metas' = TRUE
    /\ UNCHANGED <<config, profiles, day, history>>

\* Mutant of SetUserCompliance: a profile is written as if it were new.
SetUserComplianceAfresh(signer, u, flags) ==
    /\ IsAdmin(signer)
    /\ profiles' = [profiles EXCEPT ![u] =
            [NewProfile EXCEPT !.allowlisted = flags[1],
                               !.blocked = flags[2], !.issuer_active = flags[3]]]
    /\ UNCHANGED <<config, metas, day, history>>

\* init_if_needed: an existing profile keeps its day and its sum.
SetUserCompliance(signer, u, flags) ==
    /\ IsAdmin(signer)
    /\ LET old == IF profiles[u] = NoProfile THEN NewProfile ELSE profiles[u]
       IN  profiles' = [profiles EXCEPT ![u] =
                [old EXCEPT !.allowlisted = flags[1],
                            !.blocked = flags[2], !.issuer_active = flags[3]]]
    /\ UNCHANGED <<config, metas, day, history>>

SetTransferLimits(signer, max, daily) ==
    /\ IsAdmin(signer)
    /\ max > 0 /\ daily > 0
    /\ config' = [config EXCEPT !.max = max, !.daily = daily]
    /\ UNCHANGED <<metas, profiles, day, history>>

SetProtocolPaused(signer, paused) ==
    /\ IsAdmin(signer)
    /\ config' = [config EXCEPT !.paused = paused]
    /\ UNCHANGED <<metas, profiles, day, history>>

-----------------------------------------------------------------------------
(* The hook. It reads the address of the meta list, never its content; that *)
(* Token-2022 passes the accounts the list names is Token-2022's affair.    *)

MayTransfer(u) ==
    /\ profiles[u] # NoProfile
    /\ profiles[u].allowlisted /\ ~profiles[u].blocked

\* Mutant of TransferredToday: the sum is carried over midnight.
TransferredEver(profile) == profile.transferred_today

TransferredToday(profile) ==
    IF profile.current_day = day THEN profile.transferred_today ELSE 0

\* The handler checks neither who calls it nor the transferring flag of the
\* source account, and asks for no signature.
Execute(source, destination, amount) ==
    /\ config # NoConfig /\ ~config.paused
    /\ amount <= config.max
    /\ MayTransfer(source) /\ MayTransfer(destination)
    /\ profiles[source].issuer_active
    /\ LET sum == TransferredToday(profiles[source]) + amount
       IN  /\ sum <= MaxAmount
           /\ sum <= config.daily
           /\ profiles' = [profiles EXCEPT ![source].current_day = day,
                                           ![source].transferred_today = sum]
    /\ UNCHANGED <<config, metas, day>>

\* Token-2022 (external) calls the hook for every transfer, which fails with it.
Transfer(source, destination, amount) ==
    /\ Execute(source, destination, amount)
    /\ sent' = [sent EXCEPT ![source] = @ + amount]
    /\ UNCHANGED called

\* Anyone may call it when nothing is transferred.
CallDirectly(source, destination, amount) ==
    /\ Execute(source, destination, amount)
    /\ called' = [called EXCEPT ![source] = @ + amount]
    /\ UNCHANGED sent

\* The cluster's clock, external: it never runs backwards.
Midnight ==
    /\ day < MaxDay
    /\ day' = day + 1
    /\ sent' = [u \in Users |-> 0]
    /\ called' = [u \in Users |-> 0]
    /\ UNCHANGED <<config, metas, profiles>>

Next ==
    \/ \E s \in Admins :
          \/ \E max \in MaxLimits, daily \in DailyLimits :
                \/ InitializeComplianceConfig(s, max, daily)
                \/ SetTransferLimits(s, max, daily)
          \/ InitializeExtraAccountMetaList(s)
          \/ \E u \in Users, flags \in BOOLEAN \X BOOLEAN \X BOOLEAN :
                SetUserCompliance(s, u, flags)
          \/ \E paused \in BOOLEAN : SetProtocolPaused(s, paused)
    \/ \E u, v \in Users, amount \in Amounts :
          Transfer(u, v, amount) \/ CallDirectly(u, v, amount)
    \/ Midnight

Spec == Init /\ [][Next]_vars

-----------------------------------------------------------------------------
(* Properties.                                                              *)

\* A profile's sum of today is what its account sent today and what the hook
\* was called with besides, whatever the admin did to the profile meanwhile: a
\* transfer is never left out, and nothing is counted that was not asked for.
\* A profile of an earlier day means that neither has happened today.
TodayCountsCalls ==
    \A u \in Users :
        IF profiles[u] = NoProfile \/ profiles[u].current_day # day
          THEN sent[u] + called[u] = 0 /\ profiles[u].current_day < day
          ELSE profiles[u].transferred_today = sent[u] + called[u]

\* Whenever an account sends, all that it sent that day is within the daily
\* limit then in force: raising and lowering limits, pausing, rewriting the
\* profile or calling the hook directly opens no second allowance.
DailyLimitHeld ==
    [][ \A u \in Users :
            (day' = day /\ sent'[u] # sent[u]) => sent'[u] <= config.daily ]_vars
=============================================================================
