----------------------------- MODULE CommandLog -----------------------------
(* What the exchange promises a caller, without actor, mailbox, memory or   *)
(* crashes: a durable log in which a command takes effect at most once, and *)
(* an outcome is only ever acknowledged when the log holds that very        *)
(* outcome. MarketActor implements it.                                      *)
EXTENDS Naturals, Sequences

VARIABLES
    log,        \* <<[cmd, outcome]>>, durable
    acked       \* the entries callers were told of

LoggedIds == {log[i].cmd : i \in DOMAIN log}

Init ==
    /\ log = <<>>
    /\ acked = {}

Record ==
    /\ \E i \in DOMAIN log' :
          /\ log' = Append(log, log'[i])
          /\ log'[i].cmd \notin LoggedIds
    /\ UNCHANGED acked

\* Each entry is acknowledged to one caller only: the one whose call made it.
Acknowledge ==
    /\ \E i \in DOMAIN log :
          /\ log[i] \notin acked
          /\ acked' = acked \cup {log[i]}
    /\ UNCHANGED log

Next == Record \/ Acknowledge

Spec == Init /\ [][Next]_<<log, acked>>
=============================================================================
