------------------------------- MODULE DnsData -------------------------------
(***************************************************************************)
(* The constants and data of the domain registry, shared by the abstract  *)
(* registry (DnsRegistry) and the validator (DnsValidator): the policy     *)
(* constants of dns_util, claim_domain_output and claim_by_signature      *)
(* outputs with their amounts, and dns_db records with their ages.         *)
(***************************************************************************)
EXTENDS Naturals

CONSTANTS
    Names,            \* domain names that transactions may mention
    Keys,             \* public keys (owners, signers)
    MaxAmount,        \* largest amount a transaction output may carry
    MinAmount,        \* is_valid_amount: smallest legal claim amount
    AuctionDuration,  \* blocks after which an auction is closed
    ClaimLifetime,    \* retention window: older records are expired
    BidIncPercent,    \* minimum raise of a bid over the previous one, in %
    RefundPercent,    \* share of the raise refunded to the outbid owner, in %
    MaxTxPerBlock,    \* bound: transactions evaluated per block
    NoRecord,         \* ledger has no record for a name
    NoInput,          \* the transaction has no domain-claim input
    NoOutput,         \* the transaction has no accepted domain-claim output
    NoRefund          \* the transaction has no claim-by-signature output

ASSUME MaxAmountAssumption == MaxAmount \in Nat \ {0}
ASSUME MinAmountAssumption == MinAmount \in 1..MaxAmount
ASSUME DurationAssumption ==
    /\ AuctionDuration \in Nat
    /\ ClaimLifetime \in Nat
ASSUME PercentAssumption ==
    /\ BidIncPercent \in Nat \ {0}
    /\ RefundPercent \in 0..100
ASSUME MaxTxAssumption == MaxTxPerBlock \in Nat \ {0}

\* The two auction states of claim_domain_output.
PossiblyInAuction == "possibly_in_auction"
NotInAuction == "not_in_auction"
States == {PossiblyInAuction, NotInAuction}

Amounts == 0..MaxAmount

\* Ages beyond AgeCap are indistinguishable for every predicate below.
AgeCap == IF AuctionDuration > ClaimLifetime
          THEN AuctionDuration + 1 ELSE ClaimLifetime + 1
Ages == 0..AgeCap

\* A claim_domain_output with the amount of the trx_output carrying it;
\* wf stands for is_valid_name /\ is_valid_value /\ is_valid_state.
ClaimOutputs == [name : Names, state : States, owner : Keys,
                 amount : Amounts, wf : BOOLEAN]

\* A claim_by_signature output of the same transaction.
SigOutputs == [owner : Keys, amount : Amounts]

\* A dns_db record: the output of its last update and that update's age.
Records == [out : ClaimOutputs, age : Ages]

\* The "none" markers are distinct from every value they stand in for.
ASSUME SentinelAssumption ==
    /\ NoRecord \notin Records
    /\ NoInput \notin ClaimOutputs
    /\ NoOutput \notin ClaimOutputs
    /\ NoRefund \notin SigOutputs

\* One more block on a record's age, saturated at AgeCap.
Older(a) == IF a < AgeCap THEN a + 1 ELSE AgeCap

\* The checks of validate_domain_output that do not depend on the ledger:
\* wf stands for is_valid_name /\ is_valid_value /\ is_valid_state.
is_valid_amount(a) == a >= MinAmount

\* A bid raises the previous amount by at least BidIncPercent.
is_valid_bid_price(prev, bid) == bid * 100 >= prev * (100 + BidIncPercent)

=============================================================================
