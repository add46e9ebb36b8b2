----------------------------- MODULE MCPrograms -----------------------------
(* The three programs for TLC. No step of one enables or disables a step of  *)
(* another, so the behaviours in which one program runs and the others stay *)
(* at their initial states show every state each of them can reach; the     *)
(* initial state chooses which one runs.                                    *)
EXTENDS Programs, Sequences, TLC

CONSTANTS k1, k2, usd, eur

VARIABLE which

\* The same nonce for two destinations, amounts and mints; a message of
\* nothing, one to nobody and one above any limit.
Message(destination, nonce, token, recipient, amount) ==
    [source |-> 9, destination |-> destination, nonce |-> nonce,
     mint |-> token, recipient |-> recipient, amount |-> amount]
MCMessages ==
    {Message(d, n, t, k1, a) : d \in {1, 2}, n \in {1, 2}, t \in {usd, eur}, a \in {1, 2}}
    \cup {Message(1, 1, usd, k1, 0), Message(2, 1, usd, k1, 0),
          Message(1, 1, usd, "Nobody", 1), Message(2, 1, usd, "Nobody", 1),
          Message(1, 1, usd, k2, 3), Message(2, 1, usd, k2, 3)}

MCInit == which \in {"hook", "bridge", "vault"} /\ ProgramsInit

MCNext ==
    /\ \/ which = "hook" /\ HookStep
       \/ which = "bridge" /\ BridgeStep
       \/ which = "vault" /\ VaultStep
    /\ UNCHANGED which

MCSpec == MCInit /\ [][MCNext]_<<which, allVars>>

MCSymmetry == Permutations(Users) \cup Permutations(Admins)
=============================================================================
