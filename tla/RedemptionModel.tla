--------------------------- MODULE RedemptionModel ---------------------------
(* Lab 10's reference models of a redemption request, one for each id, and  *)
(* of the transfer of the role of admin (RedemptionModel and                *)
(* AdminTransferModel in 10-security-invariants-fuzzing). None reads        *)
(* another. An abstract specification: StablecoinRedemption implements it.  *)
EXTENDS Integers

CONSTANTS
    Ids,        \* request ids
    Keys,       \* signers
    Amounts,    \* amounts of a request
    NoKey       \* no pending admin, and the admin before the first

NoRequest == [status |-> "None"]

VARIABLES
    requests,       \* RedemptionModel by id, NoRequest before new
    admin, pending  \* AdminTransferModel

role == <<admin, pending>>
vars == <<requests, admin, pending>>

Init == requests = [r \in Ids |-> NoRequest] /\ admin = NoKey /\ pending = NoKey

NewRequest(r, amount) ==
    /\ requests[r] = NoRequest
    /\ requests' = [requests EXCEPT ![r] =
            [amount |-> amount, status |-> "Pending", outstanding |-> amount,
             completed |-> 0, cancelled |-> 0, rejected |-> 0]]
    /\ UNCHANGED role

\* cancel, complete and reject: once, and only from Pending.
Settle(r, status, total) ==
    LET model == requests[r]
    IN  /\ model.status = "Pending"
        /\ requests' = [requests EXCEPT ![r] =
                [model EXCEPT !.status = status, ![total] = model.amount,
                              !.outstanding = model.outstanding - model.amount]]
        /\ UNCHANGED role

NewAdmin(key) ==
    /\ admin = NoKey
    /\ admin' = key
    /\ UNCHANGED <<requests, pending>>

Begin(signer, key) ==
    /\ signer = admin
    /\ pending' = key
    /\ UNCHANGED <<requests, admin>>

Accept(signer) ==
    /\ pending # NoKey /\ signer = pending
    /\ admin' = signer
    /\ pending' = NoKey
    /\ UNCHANGED requests

Next ==
    \/ \E r \in Ids :
          \/ \E amount \in Amounts : NewRequest(r, amount)
          \/ Settle(r, "Cancelled", "cancelled")
          \/ Settle(r, "Completed", "completed")
          \/ Settle(r, "Rejected", "rejected")
    \/ \E s \in Keys : \/ NewAdmin(s) \/ Accept(s)
                       \/ \E key \in Keys : Begin(s, key)

Spec == Init /\ [][Next]_vars
=============================================================================
