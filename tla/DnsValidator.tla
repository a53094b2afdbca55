---------------------------- MODULE DnsValidator ----------------------------
(***************************************************************************)
(* The domain-claim extension of the transaction validator                 *)
(* (src/libraries/dns/dns_transaction_validator.cpp), together with the    *)
(* name-availability oracle it calls and the block loop that drives it.   *)
(*                                                                         *)
(* A block is validated one transaction at a time against the ledger as   *)
(* committed by the previous block.  For one transaction the enclosing     *)
(* validator calls validate_input on each input, then validate_output on   *)
(* each output, then runs its own generic checks (fees, signatures, UTXO   *)
(* bookkeeping).  Any failed FC_ASSERT throws and the transaction is       *)
(* dropped, but what the handlers already wrote to the block state (the    *)
(* name pool) stays.  When the block is produced, the claim outputs of the *)
(* accepted transactions are committed to the ledger.                      *)
(*                                                                         *)
(* Data are abstracted: a name, a key, a payload are model values; the     *)
(* name/value/state format checks are one flag wf of an output; a record's *)
(* height is kept as its age in blocks, saturated at AgeCap (every         *)
(* predicate on ages only compares them with AuctionDuration and           *)
(* ClaimLifetime, both below AgeCap).                                      *)
(***************************************************************************)
EXTENDS DnsData, Naturals, Sequences, Functions

\* What an accepted transaction leaves for the block to commit.
Effects == [in : ClaimOutputs \cup {NoInput}, out : ClaimOutputs \cup {NoOutput},
            refund : SigOutputs \cup {NoRefund}, sigs : SUBSET Keys]

VARIABLES
    ledger,    \* dns_db: name -> record, as of the previous block
    utxos,     \* unspent claim outputs, as of the previous block
    pool,      \* dns_block_evaluation_state::name_pool
    spent,     \* claim outputs spent by accepted transactions of this block
    pending,   \* accepted transactions of this block, in order
    staged,    \* name -> claim output the block will commit for it
    txCount,   \* transactions evaluated in this block
    phase,     \* "idle", or where on_evaluate is in the current transaction
    seenIn,    \* dns_tx_evaluation_state::seen_domain_input
    seenOut,   \* dns_tx_evaluation_state::seen_domain_output
    input,     \* dns_tx_evaluation_state::input (input_amount is input.amount)
    out,       \* the domain-claim output validated in this transaction
    fees,      \* required fees added by add_required_fees
    refund,    \* the transaction's claim-by-signature output
    sigs       \* the keys that signed the transaction

blockVars == <<ledger, utxos>>
txVars == <<seenIn, seenOut, input, out, fees, refund, sigs>>
vars == <<ledger, utxos, pool, spent, pending, staged, txCount, phase,
         txVars>>

-----------------------------------------------------------------------------
(***************************************************************************)
(* Name-availability oracle and auction predicates (dns_util, spec 4.1,    *)
(* 4.2).  All are read against the ledger fixed for the block.             *)
(***************************************************************************)
HasDnsRecord(n) == ledger[n] # NoRecord

InPool(n) == n \in Range(pool)

auction_is_closed(n) == ledger[n].age >= AuctionDuration

domain_is_expired(n) == auction_is_closed(n) /\ ledger[n].age > ClaimLifetime

NewOrExpired(n) == HasDnsRecord(n) => ledger[n].age > ClaimLifetime

name_is_available(n) ==
    /\ ~InPool(n)
    /\ HasDnsRecord(n) => NewOrExpired(n) \/ ~auction_is_closed(n)

\* The part of a bid refunded to the outbid owner.
AmountBack(prev, bid) == prev + ((bid - prev) * RefundPercent) \div 100

-----------------------------------------------------------------------------
Init ==
    /\ ledger = [n \in Names |-> NoRecord]
    /\ utxos = {}
    /\ pool = << >>
    /\ spent = {}
    /\ pending = << >>
    /\ staged = [n \in Names |-> NoOutput]
    /\ txCount = 0
    /\ phase = "idle"
    /\ seenIn = FALSE
    /\ seenOut = FALSE
    /\ input = NoInput
    /\ out = NoOutput
    /\ fees = 0
    /\ refund = NoRefund
    /\ sigs = {}

\* The transaction ends: its scratch state is dropped, the block's is kept.
EndTx ==
    /\ phase' = "idle"
    /\ txCount' = txCount + 1
    /\ seenIn' = FALSE
    /\ seenOut' = FALSE
    /\ input' = NoInput
    /\ out' = NoOutput
    /\ fees' = 0
    /\ refund' = NoRefund
    /\ sigs' = {}

\* An FC_ASSERT failed: the exception drops the transaction, and nothing
\* that was already appended to the name pool is taken back.
AbortTx ==
    /\ EndTx
    /\ UNCHANGED <<blockVars, pool, spent, pending, staged>>

\* evaluate: a new dns_tx_evaluation_state for the next transaction of the
\* block.  Its signatures and claim-by-signature output are fixed with the
\* transaction but read only by validate_domain_output, so they are chosen
\* there.
StartTx ==
    /\ phase = "idle"
    /\ txCount < MaxTxPerBlock
    /\ phase' = "inputs"
    /\ UNCHANGED <<blockVars, pool, spent, pending, staged, txCount,
                   txVars>>

\* validate_input on an unspent claim output u, i.e. validate_domain_input.
ValidateInput(u) ==
    /\ phase = "inputs"
    /\ \/ /\ ~seenIn
          /\ HasDnsRecord(u.name)
          /\ input' = u
          /\ seenIn' = TRUE
          /\ UNCHANGED <<blockVars, pool, spent, pending, staged, txCount, phase,
                         seenOut, out, fees, refund, sigs>>
       \/ /\ seenIn \/ ~HasDnsRecord(u.name)
          /\ AbortTx

\* The checks of validate_domain_output up to the classification.
OutputWellFormed(o) ==
    /\ ~seenOut
    /\ o.wf
    /\ is_valid_amount(o.amount)

\* Mutant: line 105 asserts new_or_expired only.
NewAuctionOK_without_available(o) ==
    /\ ~seenIn
    /\ NewOrExpired(o.name)

\* No input: the only valid output starts a new auction.
NewAuctionOK(o) ==
    /\ ~seenIn
    /\ NewOrExpired(o.name)
    /\ name_is_available(o.name)

\* An input was seen: the output must continue the input's name.
ContinuesInput(o) ==
    /\ seenIn
    /\ ~NewOrExpired(o.name)
    /\ o.name = input.name

\* Mutant: the refund search does not compare the owner.
PaysPreviousOwner_any_owner(r, back) ==
    /\ r # NoRefund
    /\ r.amount >= back

\* The loop over trx.outputs looking for the refund to the previous owner.
PaysPreviousOwner(r, back) ==
    /\ r # NoRefund
    /\ r.amount >= back
    /\ r.owner = input.owner

\* Mutant: the bid branch does not assert available (line 119).
BidOK_without_available(o, r) ==
    /\ ContinuesInput(o)
    /\ ~auction_is_closed(o.name)
    /\ input.state = PossiblyInAuction
    /\ is_valid_bid_price(input.amount, o.amount)
    /\ PaysPreviousOwner(r, AmountBack(input.amount, o.amount))

\* A bid in an auction that is still open.
BidOK(o, r) ==
    /\ ContinuesInput(o)
    /\ ~auction_is_closed(o.name)
    /\ name_is_available(o.name)
    /\ input.state = PossiblyInAuction
    /\ is_valid_bid_price(input.amount, o.amount)
    /\ PaysPreviousOwner(r, AmountBack(input.amount, o.amount))

\* Mutant: the update branch is taken without the closed-auction test of
\* line 116.
UpdateOK_without_closed(o, s) ==
    /\ ContinuesInput(o)
    /\ ~domain_is_expired(o.name)
    /\ o.state = NotInAuction => o.amount = input.amount
    /\ o.owner \in s

\* Mutant: a plain update may change the amount (line 153 left out).
UpdateOK_without_amount_check(o, s) ==
    /\ ContinuesInput(o)
    /\ auction_is_closed(o.name)
    /\ ~domain_is_expired(o.name)
    /\ o.owner \in s

\* An update or a sale once the auction is over.
UpdateOK(o, s) ==
    /\ ContinuesInput(o)
    /\ auction_is_closed(o.name)
    /\ ~domain_is_expired(o.name)
    /\ o.state = NotInAuction => o.amount = input.amount
    /\ o.owner \in s

\* What validate_output adds to the block state after the checks passed.
PushOutput(o, r, s) ==
    /\ pool' = Append(pool, o.name)
    /\ out' = o
    /\ refund' = r
    /\ sigs' = s
    /\ seenOut' = TRUE
    /\ phase' = "outputs"
    /\ UNCHANGED <<blockVars, spent, pending, staged, txCount, seenIn, input>>

\* validate_output on a domain-claim output o: validate_domain_output, then
\* the push of the name into the pool.  The transaction's claim-by-signature
\* output r is read only by a bid, its signatures s only by an update, so
\* they are chosen in those branches; a rejection is represented by the
\* transaction that carries neither (every output that is not a valid new
\* auction fails for it, and the outcome of a rejection does not depend on
\* why it happened).
ValidateOutput(o) ==
    /\ phase \in {"inputs", "outputs"}
    /\ \/ /\ OutputWellFormed(o)
          /\ NewAuctionOK(o)
          /\ fees' = fees
          /\ PushOutput(o, NoRefund, {})
       \/ \E r \in SigOutputs :
             /\ OutputWellFormed(o)
             /\ BidOK(o, r)
             /\ fees' = fees + (o.amount - AmountBack(input.amount, o.amount))
             /\ PushOutput(o, r, {})
       \/ \E s \in SUBSET Keys :
             /\ OutputWellFormed(o)
             /\ UpdateOK(o, s)
             /\ fees' = fees
             /\ PushOutput(o, NoRefund, s)
       \/ /\ ~(OutputWellFormed(o) /\ (NewAuctionOK(o) \/ BidOK(o, NoRefund)
                                       \/ UpdateOK(o, {})))
          /\ AbortTx

\* Mutant: a transaction without a domain input records NoInput as spent.
AcceptTx_spends_missing_input ==
    /\ phase \in {"inputs", "outputs"}
    /\ input \notin spent
    /\ pending' = Append(pending, [in |-> input, out |-> out,
                                   refund |-> refund, sigs |-> sigs])
    /\ spent' = spent \cup {input}
    /\ staged' = IF out = NoOutput THEN staged ELSE [staged EXCEPT ![out.name] = out]
    /\ EndTx
    /\ UNCHANGED <<blockVars, pool>>

\* The enclosing validator's own checks pass: the transaction joins the
\* block.  Its domain input must not have been spent earlier in the block.
AcceptTx ==
    /\ phase \in {"inputs", "outputs"}
    /\ input \notin spent
    /\ pending' = Append(pending, [in |-> input, out |-> out,
                                   refund |-> refund, sigs |-> sigs])
    /\ spent' = IF input = NoInput THEN spent ELSE spent \cup {input}
    /\ staged' = IF out = NoOutput THEN staged ELSE [staged EXCEPT ![out.name] = out]
    /\ EndTx
    /\ UNCHANGED <<blockVars, pool>>

\* The enclosing validator's own checks (fees, signatures, other outputs)
\* reject the transaction after the domain handlers ran.
RejectTx ==
    /\ phase \in {"inputs", "outputs"}
    /\ AbortTx

\* The block is produced: the claim outputs staged by the accepted
\* transactions are committed (a later one of the same name overwrote an
\* earlier one), the inputs they spent leave the UTXO set, every other
\* record ages by a block, and the next block starts with fresh block state.
NewBlock ==
    /\ phase = "idle"
    /\ ledger' = [n \in Names |->
                    IF staged[n] # NoOutput THEN [out |-> staged[n], age |-> 0]
                    ELSE IF ledger[n] = NoRecord THEN NoRecord
                    ELSE [out |-> ledger[n].out, age |-> Older(ledger[n].age)]]
    /\ utxos' = (utxos \ spent)
                  \cup {pending[i].out : i \in {j \in DOMAIN pending :
                                                   pending[j].out # NoOutput}}
    /\ pool' = << >>
    /\ spent' = {}
    /\ pending' = << >>
    /\ staged' = [n \in Names |-> NoOutput]
    /\ txCount' = 0
    /\ UNCHANGED <<phase, txVars>>

Next ==
    \/ StartTx
    \/ \E u \in utxos : ValidateInput(u)
    \/ \E o \in ClaimOutputs : ValidateOutput(o)
    \/ AcceptTx
    \/ RejectTx
    \/ NewBlock

Spec == Init /\ [][Next]_vars

-----------------------------------------------------------------------------
(***************************************************************************)
(* Properties.                                                             *)
(***************************************************************************)

\* Every variable holds a value of its intended kind.
TypeOK ==
    /\ ledger \in [Names -> Records \cup {NoRecord}]
    /\ utxos \subseteq ClaimOutputs
    /\ pool \in Seq(Names)
    /\ spent \subseteq ClaimOutputs
    /\ pending \in Seq(Effects)
    /\ staged \in [Names -> ClaimOutputs \cup {NoOutput}]
    /\ txCount \in Nat
    /\ phase \in {"idle", "inputs", "outputs"}
    /\ seenIn \in BOOLEAN
    /\ seenOut \in BOOLEAN
    /\ input \in ClaimOutputs \cup {NoInput}
    /\ out \in ClaimOutputs \cup {NoOutput}
    /\ fees \in Nat
    /\ refund \in SigOutputs \cup {NoRefund}
    /\ sigs \subseteq Keys

\* A fresh claim is an accepted transaction whose domain output has no
\* domain input.
IsFresh(e) == e.in = NoInput /\ e.out # NoOutput

\* Fresh claims in a block (the no-input branch of validate_domain_output
\* with the name pool) are legal: each targets a name that the ledger has
\* no record of, or whose record is older than the retention window, and
\* no two accepted transactions of one block freshly claim the same name.
FreshClaimsLegal ==
    /\ \A i \in DOMAIN pending :
          IsFresh(pending[i]) =>
             \/ ledger[pending[i].out.name] = NoRecord
             \/ ledger[pending[i].out.name].age > ClaimLifetime
    /\ \A i, j \in DOMAIN pending :
          (i # j /\ IsFresh(pending[i]) /\ IsFresh(pending[j]))
             => pending[i].out.name # pending[j].out.name

\* A transaction that continues an input is a bid when the name's auction
\* is still open, an update or sale once it is closed.
IsBid(e) ==
    /\ e.in # NoInput /\ e.out # NoOutput
    /\ ledger[e.out.name] # NoRecord
    /\ ledger[e.out.name].age < AuctionDuration
IsSettledChange(e) ==
    /\ e.in # NoInput /\ e.out # NoOutput
    /\ ledger[e.out.name] # NoRecord
    /\ ledger[e.out.name].age >= AuctionDuration

\* A bid (the open-auction branch of validate_domain_output) never costs
\* the outbid party: every accepted output that continues an input while
\* the name's auction is open carries a claim-by-signature output paying
\* the input's owner at least the amount the input had locked.
OutbidPartyRefunded ==
    \A i \in DOMAIN pending :
       LET e == pending[i] IN
       IsBid(e) => /\ e.refund # NoRefund
                   /\ e.refund.owner = e.in.owner
                   /\ e.refund.amount >= e.in.amount

\* An open auction takes at most one bid per block: the available check of
\* the bid branch (line 119) sees the name that an earlier accepted bid of
\* the block pushed into the pool, even when the two bids spend different
\* claim outputs of the name.
OneBidPerBlock ==
    \A i, j \in DOMAIN pending :
       (/\ IsBid(pending[i]) /\ IsBid(pending[j])
        /\ pending[i].out.name = pending[j].out.name) => i = j

\* A block commits what its auctions decided: at the commit (NewBlock), every
\* accepted new auction and every accepted bid becomes the record of its
\* name, with age 0; no later accepted output of the block overwrites it in
\* staged.  The pool check of name_is_available (lines 105, 119) and the
\* closed-auction test that separates bids from updates (line 116) keep
\* every other output of that name out of the block.
AuctionOutputsRecorded ==
    [][NewBlock =>
         \A i \in DOMAIN pending :
            (IsFresh(pending[i]) \/ IsBid(pending[i])) =>
               ledger'[pending[i].out.name] = [out |-> pending[i].out, age |-> 0]
      ]_vars

\* The validator implements the registry: with the ledger as its records
\* and the UTXO set as its coins, every committed block changes a record
\* only to a valid claim output that takes a free name or spends a claim
\* output of that name (validate_domain_output's new-auction and
\* continuation branches, and the double-spend check of the block).
Registry == INSTANCE DnsRegistry WITH records <- ledger, coins <- utxos

RegistrySpec == Registry!Spec

\* Spec 7: the name pool only records names claimed by transactions that
\* were accepted; between transactions every name in the pool was claimed
\* by an accepted transaction of the block (validate_output pushes the name
\* before the rest of the transaction is validated).
PoolOnlyAccepted ==
    phase = "idle" =>
       \A n \in Range(pool) :
          \E i \in DOMAIN pending : pending[i].out # NoOutput
                                  /\ pending[i].out.name = n

\* Spec 4.4 (auction closed): once an auction is settled, ownership
\* authorizes changes: an accepted update or sale that gives the name to a
\* new owner is signed by the owner of the record it replaces (the
\* has_signature check of validate_domain_output).
SettledChangeSignedByOwner ==
    \A i \in DOMAIN pending :
       LET e == pending[i] IN
       (IsSettledChange(e) /\ e.out.owner # ledger[e.out.name].out.owner)
          => ledger[e.out.name].out.owner \in e.sigs

\* Spec 4.4 (auction open): a bid refunds the prior owner of the record it
\* outbids at least that record's locked amount (the refund search of
\* validate_domain_output, which looks for the input's owner).
BidRefundsRecordOwner ==
    \A i \in DOMAIN pending :
       LET e == pending[i] IN
       IsBid(e) =>
          /\ e.refund # NoRefund
          /\ e.refund.owner = ledger[e.out.name].out.owner
          /\ e.refund.amount >= ledger[e.out.name].out.amount
=============================================================================
