------------------------ MODULE StablecoinRedemption ------------------------
(* The redemption program of 12-token-2022-stablecoin-protocol (lab 08      *)
(* holds the same instructions): owners file and cancel requests, the admin *)
(* completes or rejects them, the role of admin is handed over in two       *)
(* steps, and whatever an admin does is written to a log. A transaction is  *)
(* one step. Ids are places in the sequences of requests and log entries:   *)
(* each is the address of one account and counts up by one.                 *)
EXTENDS Integers, SequencesExt

CONSTANTS
    Keys,           \* signers: owners of requests and admins
    Amounts,        \* amounts asked for
    MaxAmount,      \* u64::MAX
    MaxRequests,    \* bound: requests filed
    MaxActions      \* bound: entries of the admin log

NoKey == "None"     \* Pubkey::default()
NoConfig == [admin |-> NoKey]

VARIABLES
    config,     \* ProtocolConfig
    vault,      \* RedemptionVault
    requests,   \* RedemptionRequest, by request id
    log         \* AdminActionLog, by action id

vars == <<config, vault, requests, log>>

EmptyVault == [outstanding |-> 0, requested |-> 0,
               completed |-> 0, cancelled |-> 0, rejected |-> 0]

Init == config = NoConfig /\ vault = EmptyVault /\ requests = <<>> /\ log = <<>>

Initialized == config # NoConfig
IsAdmin(signer) == Initialized /\ signer = config.admin
Pending(r) == r \in DOMAIN requests /\ requests[r].status = "Pending"

InitializeProtocol(signer) ==
    /\ ~Initialized
    /\ config' = [admin |-> signer, pending |-> NoKey, paused |-> FALSE]
    /\ vault' = EmptyVault
    /\ UNCHANGED <<requests, log>>

-----------------------------------------------------------------------------
(* Owners.                                                                  *)

RequestRedemption(owner, amount) ==
    /\ Initialized /\ ~config.paused
    /\ amount > 0
    /\ Len(requests) < MaxRequests
    /\ vault.outstanding + amount <= MaxAmount
    /\ vault.requested + amount <= MaxAmount
    /\ requests' = Append(requests,
            [owner |-> owner, amount |-> amount, status |-> "Pending"])
    /\ vault' = [vault EXCEPT !.outstanding = @ + amount, !.requested = @ + amount]
    /\ UNCHANGED <<config, log>>

\* Mutant of CancelRedemption: a request already decided can be cancelled.
CancelAnyRedemption(owner, r) ==
    /\ r \in DOMAIN requests
    /\ requests[r].owner = owner
    /\ vault.outstanding >= requests[r].amount
    /\ requests' = [requests EXCEPT ![r].status = "Cancelled"]
    /\ vault' = [vault EXCEPT !.outstanding = @ - requests[r].amount,
                              !.cancelled = @ + requests[r].amount]
    /\ UNCHANGED <<config, log>>

\* Cancelling is possible also while redemptions are paused.
CancelRedemption(owner, r) ==
    /\ Pending(r)
    /\ requests[r].owner = owner
    /\ vault.outstanding >= requests[r].amount
    /\ vault.cancelled + requests[r].amount <= MaxAmount
    /\ requests' = [requests EXCEPT ![r].status = "Cancelled"]
    /\ vault' = [vault EXCEPT !.outstanding = @ - requests[r].amount,
                              !.cancelled = @ + requests[r].amount]
    /\ UNCHANGED <<config, log>>

-----------------------------------------------------------------------------
(* The admin.                                                               *)

WriteAdminLog(admin, action, target, amount) ==
    /\ Len(log) < MaxActions
    /\ log' = Append(log, [admin |-> admin, action |-> action,
                           target |-> target, amount |-> amount])

\* Mutant of SettleRequest: every decision is logged as a completion.
SettleAndLogCompletion(signer, r, status, total, action) ==
    /\ IsAdmin(signer) /\ Pending(r)
    /\ requests' = [requests EXCEPT ![r].status = status]
    /\ vault' = [vault EXCEPT !.outstanding = @ - requests[r].amount,
                              ![total] = @ + requests[r].amount]
    /\ WriteAdminLog(signer, "CompleteRedemption", r, requests[r].amount)
    /\ UNCHANGED config

\* The request takes its final status, its amount moves from outstanding to
\* the total of that status.
SettleRequest(signer, r, status, total, action) ==
    /\ IsAdmin(signer)
    /\ Pending(r)
    /\ vault.outstanding >= requests[r].amount
    /\ vault[total] + requests[r].amount <= MaxAmount
    /\ requests' = [requests EXCEPT ![r].status = status]
    /\ vault' = [vault EXCEPT !.outstanding = @ - requests[r].amount,
                              ![total] = @ + requests[r].amount]
    /\ WriteAdminLog(signer, action, r, requests[r].amount)
    /\ UNCHANGED config

CompleteRedemption(signer, r) ==
    SettleRequest(signer, r, "Completed", "completed", "CompleteRedemption")

RejectRedemption(signer, r) ==
    SettleRequest(signer, r, "Rejected", "rejected", "RejectRedemption")

SetRedemptionsPaused(signer, paused) ==
    /\ IsAdmin(signer)
    /\ config' = [config EXCEPT !.paused = paused]
    /\ WriteAdminLog(signer, "SetRedemptionsPaused", NoKey, IF paused THEN 1 ELSE 0)
    /\ UNCHANGED <<vault, requests>>

\* A transfer under way may be redirected, and only its admin may do so.
BeginAdminTransfer(signer, new) ==
    /\ IsAdmin(signer)
    /\ new \notin {NoKey, config.admin}
    /\ config' = [config EXCEPT !.pending = new]
    /\ WriteAdminLog(signer, "BeginAdminTransfer", new, 0)
    /\ UNCHANGED <<vault, requests>>

\* Mutant of AcceptAdminTransfer: the pending admin is not cleared.
AcceptAndStayPending(signer) ==
    /\ Initialized /\ config.pending = signer
    /\ config' = [config EXCEPT !.admin = signer]
    /\ WriteAdminLog(signer, "AcceptAdminTransfer", config.admin, 0)
    /\ UNCHANGED <<vault, requests>>

AcceptAdminTransfer(signer) ==
    /\ Initialized
    /\ config.pending = signer
    /\ config' = [config EXCEPT !.admin = signer, !.pending = NoKey]
    /\ WriteAdminLog(signer, "AcceptAdminTransfer", config.admin, 0)
    /\ UNCHANGED <<vault, requests>>

Next ==
    \E s \in Keys :
        \/ InitializeProtocol(s)
        \/ \E amount \in Amounts : RequestRedemption(s, amount)
        \/ \E r \in DOMAIN requests :
              CancelRedemption(s, r) \/ CompleteRedemption(s, r) \/ RejectRedemption(s, r)
        \/ \E paused \in BOOLEAN : SetRedemptionsPaused(s, paused)
        \/ \E new \in Keys \cup {NoKey} : BeginAdminTransfer(s, new)
        \/ AcceptAdminTransfer(s)

Spec == Init /\ [][Next]_vars

-----------------------------------------------------------------------------
(* Properties.                                                              *)

AmountWith(statuses) ==
    SumFunction([r \in DOMAIN requests |->
        IF requests[r].status \in statuses THEN requests[r].amount ELSE 0])

\* The vault's five counters are at every moment what the requests say: a
\* request counts in outstanding while it is pending, then in the total of its
\* one final status, and none of the sums leaves u64.
VaultMatchesRequests ==
    /\ vault.outstanding = AmountWith({"Pending"})
    /\ vault.completed = AmountWith({"Completed"})
    /\ vault.cancelled = AmountWith({"Cancelled"})
    /\ vault.rejected = AmountWith({"Rejected"})
    /\ vault.requested = AmountWith({"Pending", "Completed", "Cancelled", "Rejected"})
    /\ vault.requested <= MaxAmount

\* A request as lab 10's model of one sees it.
ModelOf(q) ==
    LET In(status) == IF q.status = status THEN q.amount ELSE 0
    IN  [amount |-> q.amount, status |-> q.status, outstanding |-> In("Pending"),
         completed |-> In("Completed"), cancelled |-> In("Cancelled"),
         rejected |-> In("Rejected")]

Models ==
    [r \in 1 .. MaxRequests |->
        IF r \in DOMAIN requests THEN ModelOf(requests[r]) ELSE [status |-> "None"]]

Nominee == IF Initialized THEN config.pending ELSE NoKey

Reference == INSTANCE RedemptionModel WITH
    Ids <- 1 .. MaxRequests, requests <- Models, admin <- config.admin, pending <- Nominee

\* The program does to each request, and to the role of admin, only what the
\* reference model allows, whatever happens to the other requests: it settles
\* a request once, and only the pending admin of the last begin takes over.
RedemptionImplementsReference == Reference!Spec

Decisions == [CompleteRedemption |-> "Completed", RejectRedemption |-> "Rejected"]

DecisionsOn(r) ==
    {i \in DOMAIN log : log[i].action \in DOMAIN Decisions /\ log[i].target = r}

\* The log holds exactly one decision for each request an admin decided, with
\* the status and amount the request has now, and none for any other request:
\* a decided request can be neither cancelled nor decided again later.
LogTellsDecisions ==
    \A r \in DOMAIN requests :
        LET status == requests[r].status IN
        IF status \in {"Completed", "Rejected"}
          THEN \E i \in DOMAIN log :
                  /\ DecisionsOn(r) = {i}
                  /\ Decisions[log[i].action] = status
                  /\ log[i].amount = requests[r].amount
          ELSE DecisionsOn(r) = {}

\* The nominations among the first n entries that no acceptance has used up or
\* later nomination replaced: at most one.
OpenNominations(n) ==
    {i \in 1 .. n :
        /\ log[i].action = "BeginAdminTransfer"
        /\ \A j \in i + 1 .. n :
              log[j].action \notin {"BeginAdminTransfer", "AcceptAdminTransfer"}}

\* The log alone tells who held the role of admin when: each entry is signed
\* by the admin the entry before it left in office; the role passes only to
\* the key last nominated by that admin, once per nomination; and the program's
\* own state agrees with the end of the log.
LogTellsAdmins ==
    /\ \A i \in DOMAIN log :
          IF log[i].action = "AcceptAdminTransfer"
            THEN /\ i > 1 /\ log[i].target = log[i - 1].admin
                 /\ \E b \in OpenNominations(i - 1) : log[b].target = log[i].admin
            ELSE i > 1 => log[i].admin = log[i - 1].admin
    /\ log # <<>> =>
          /\ config.admin = Last(log).admin
          /\ config.pending = IF OpenNominations(Len(log)) = {} THEN NoKey
                              ELSE log[CHOOSE b \in OpenNominations(Len(log)) : TRUE].target
=============================================================================
