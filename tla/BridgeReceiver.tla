--------------------------- MODULE BridgeReceiver ---------------------------
(* The two receivers of cross-chain mint messages: the Solana program       *)
(* stablecoin_bridge_receiver, one config account per registered mint, and  *)
(* the Solidity contract MockBridgeReceiver, one mint per contract.         *)
(*                                                                          *)
(* The network between the chains delivers any message to either receiver,  *)
(* any number of times and in any order. A call that fails a check leaves   *)
(* no trace. A mint names the token on both chains (a Pubkey here, an       *)
(* address there); Nobody is Pubkey::default() and address(0).              *)
EXTENDS Integers, Sequences

CONSTANTS
    Keys,       \* keys that sign calls and may be named bridge or admin
    Mints,
    Messages,   \* [source, destination, nonce, mint, recipient, amount]
    Limits,     \* per-message limits an initializer may ask for
    Chains,     \* chain ids the contract may be deployed for
    MaxLog      \* bound: messages consumed in a behaviour

Nobody == "Nobody"
SolanaChainId == 1
None == [none |-> TRUE]

VARIABLES
    config,     \* BridgeConfig account by registered mint, None before init
    consumed,   \* the ConsumedMessage accounts
    contract,   \* MockBridgeReceiver's immutables, None before deployment
    consumedMessages,   \* MockBridgeReceiver.consumedMessages: ids set to true
    log         \* history: messages consumed, each with its receiver

solana == <<config, consumed>>
evm == <<contract, consumedMessages>>
vars == <<config, consumed, contract, consumedMessages, log>>

Init ==
    /\ config = [m \in Mints |-> None]
    /\ consumed = {}
    /\ contract = None
    /\ consumedMessages = {}
    /\ log = <<>>

Consume(receiver, message) ==
    log' = Append(log, [receiver |-> receiver, message |-> message])

-----------------------------------------------------------------------------
(* Solana.                                                                  *)

\* Whoever pays becomes the admin and names the bridge authority; the account
\* of a mint is created once.
InitializeBridgeConfig(signer, bridge, mint, limit) ==
    /\ config[mint] = None
    /\ limit > 0
    /\ config' = [config EXCEPT ![mint] =
                    [admin |-> signer, bridge_authority |-> bridge,
                     per_message_limit |-> limit]]
    /\ UNCHANGED <<consumed, evm, log>>

\* The account written when a message is consumed.
ConsumedMessage(m) ==
    [mint |-> m.mint, source |-> m.source, nonce |-> m.nonce,
     recipient |-> m.recipient, amount |-> m.amount]

\* Mutant of SameAddress: the amount is one of the seeds.
SameAddressAndAmount(account, m) ==
    /\ account.mint = m.mint
    /\ account.source = m.source /\ account.nonce = m.nonce
    /\ account.amount = m.amount

\* The account's seeds: the config (the registered mint's), the source chain
\* and the nonce. The destination is not one of them.
SameAddress(account, m) ==
    /\ account.mint = m.mint
    /\ account.source = m.source /\ account.nonce = m.nonce

ConsumeOnSolana(signer, m) ==
    /\ Len(log) < MaxLog
    /\ config[m.mint] # None
    /\ signer = config[m.mint].bridge_authority
    /\ \A account \in consumed : ~SameAddress(account, m)
    /\ m.destination = SolanaChainId
    /\ m.amount > 0
    /\ m.recipient # Nobody
    /\ m.amount <= config[m.mint].per_message_limit
    /\ consumed' = consumed \cup {ConsumedMessage(m)}
    /\ Consume("Solana", m)
    /\ UNCHANGED <<config, evm>>

-----------------------------------------------------------------------------
(* EVM.                                                                     *)

Deploy(bridge, mint, chain, limit) ==
    /\ contract = None
    /\ bridge # Nobody /\ mint # Nobody
    /\ limit # 0
    /\ contract' = [trustedBridge |-> bridge, registeredMint |-> mint,
                    localChainId |-> chain, perMessageLimit |-> limit]
    /\ UNCHANGED <<solana, consumedMessages, log>>

\* keccak256 of the encoded triple: equal ids mean equal triples.
MessageId(m) == <<m.source, m.destination, m.nonce>>

ConsumeMintMessage(sender, m) ==
    /\ Len(log) < MaxLog
    /\ contract # None
    /\ sender = contract.trustedBridge
    /\ m.destination = contract.localChainId
    /\ m.mint = contract.registeredMint
    /\ m.recipient # Nobody
    /\ m.amount # 0
    /\ m.amount <= contract.perMessageLimit
    /\ MessageId(m) \notin consumedMessages
    /\ consumedMessages' = consumedMessages \cup {MessageId(m)}
    /\ Consume("EVM", m)
    /\ UNCHANGED <<solana, contract>>

-----------------------------------------------------------------------------
Next ==
    \/ \E signer, bridge \in Keys, mint \in Mints, limit \in Limits :
        InitializeBridgeConfig(signer, bridge, mint, limit)
    \/ \E bridge \in Keys \cup {Nobody}, mint \in Mints, chain \in Chains,
          limit \in Limits : Deploy(bridge, mint, chain, limit)
    \/ \E signer \in Keys, m \in Messages : ConsumeOnSolana(signer, m)
    \/ \E sender \in Keys, m \in Messages : ConsumeMintMessage(sender, m)

Spec == Init /\ [][Next]_vars

-----------------------------------------------------------------------------
(* Properties.                                                              *)

SameMint(m, n) ==
    /\ m.source = n.source /\ m.destination = n.destination
    /\ m.nonce = n.nonce /\ m.mint = n.mint

\* One mint message mints once. However often it is delivered, with whatever
\* amount or recipient, by whichever bridge and to whichever chain, a source
\* chain's nonce is consumed a second time for one mint and destination only
\* if the contract was deployed under Solana's own chain id.
OncePerMessage ==
    \A i, j \in DOMAIN log :
        i # j /\ SameMint(log[i].message, log[j].message)
        => /\ log[i].receiver # log[j].receiver
           /\ contract.localChainId = SolanaChainId
=============================================================================
