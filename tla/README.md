# Formal model of the domain-claim validator

This directory holds TLA+ models of the domain-name registry extension of the
transaction validator (`src/libraries/dns/dns_transaction_validator.cpp`).
It also holds TLC configurations that model-check the models, and TLAPS
proofs of their main invariants. `PROJECT.json` lists the components, the
runs, the mutants, the map from definitions to source lines, the findings,
the hazards and the theorems.

## 1. The system

| Part | Where | Role |
|---|---|---|
| Domain claim validator | `dns_transaction_validator.cpp` | `validate_input` / `validate_output` dispatch domain-claim inputs and outputs to `validate_domain_input` (l. 69-81) and `validate_domain_output` (l. 83-161); `validate_output` then pushes the name into the block's name pool (l. 61). `evaluate` creates the per-transaction state; `create_block_state` creates the per-block state (an empty pool). |
| Name-availability oracle | `dns_util` (not in this repository) | `name_is_available` (pool + ledger), `auction_is_closed`, `domain_is_expired`, `is_valid_bid_price` (with the refund `amount_back`), `is_valid_amount`. |
| Generic validator | `transaction_validator::on_evaluate` (not in this repository) | Calls the handlers on every input and output, then its own checks (fees, signatures, UTXO bookkeeping); any failed `FC_ASSERT` throws and drops the transaction. |
| Domain ledger | `dns_db` (not in this repository) | Committed records, read-only during a block; updated when the block commits. |
| CLI test harness | `src/tests/dev_tests.cpp` | Wallet/delegate/market end-to-end glue; no domain-claim logic. |

The parts interact as follows. Within a block, transactions are evaluated in
order against the ledger of the previous block. The pool is the only state
shared between the transactions of a block. For one transaction the
per-transaction state holds `seen_domain_input`, `seen_domain_output`, the
input and its amount, the required fees, and the signature set.

The behaviour that is hard to test is the order within a block: two
transactions claim or bid on one name. Other hard cases:
- a transaction whose domain handlers passed but which the generic checks reject;
- a name whose record crosses the auction or expiry thresholds between blocks;
- a claim output left unspent by an expired claim.

## 2. Modules

- `DnsData.tla` declares the constants, their ASSUMEs, and the data: claim
  outputs, claim-by-signature outputs, records, the saturated age `Older`,
  `is_valid_amount` and `is_valid_bid_price`. The two modules below extend it.
- `DnsRegistry.tla` is the abstract specification of the domain ledger.
  - State: `records` (name → record) and `coins` (unspent claim outputs).
  - One action, `Commit`: a block spends some coins. Every coin it adds is
    `Legal`: it is `Valid` (well formed, valid amount), and either its name is
    `Free` (no record, or an expired one) or it continues a spent coin of
    its name by the bid and update rules.
    - `BidPriced`: while the auction is `Open`, the coin is a bid on a `PossiblyInAuction`
      coin that raises its amount by `BidIncPercent`.
    - `UpdatePriced`: after the auction, a `NotInAuction` coin keeps the spent coin's amount.
  - Each record either ages (`Aged`) or is replaced by such a coin at age 0.
  - The rules are stated against the spent coin, as the code checks them
    against `state.input_amount`. Stated against the record, they fail
    because of finding 3.
  - It says nothing about transactions, pools or fees.
- `DnsValidator.tla` models the validator, the oracle and the block loop.
  - State:
    - `ledger`: name → record of (output, age), or `NoRecord`;
    - `utxos`: unspent claim outputs;
    - `pool`: the name pool, a sequence;
    - `spent`, `pending` and `staged`: what the generic validator and the commit keep for accepted transactions;
    - `txCount`;
    - `phase`: idle, inputs or outputs;
    - the transaction's scratch state: `seenIn`, `seenOut`, `input`, `out`, `fees`, `refund`, `sigs`.
  - Actions:
    - `StartTx` and `EndTx`: `evaluate` creating, then dropping, a `dns_tx_evaluation_state`.
    - `ValidateInput(u)`: `validate_domain_input` on an unspent claim output.
    - `ValidateOutput(o)`: `validate_domain_output` followed by the pool push (`PushOutput`). It has one disjunct per successful branch (new auction, bid, update or sale) and one for the failing `FC_ASSERT`s (`AbortTx`).
    - `AcceptTx` and `RejectTx`: the generic validator's verdict.
    - `NewBlock`: the commit, plus `create_block_state` for the next block.
  - The guards follow the order of the `FC_ASSERT`s and early `return`s:
    - `OutputWellFormed`: l. 88-94;
    - `NewAuctionOK`: l. 101-107;
    - `ContinuesInput`: l. 112-113;
    - `BidOK`: l. 116-145, including the refund search `PaysPreviousOwner`;
    - `UpdateOK`: l. 147-160.
- `MC_DnsValidator.tla` and `MC_DnsValidator.cfg` give the constants for TLC, a symmetry over keys, and the bound on UTXOs.
- `DnsValidator_proofs.tla`, `DnsCommit_proofs.tla` and `DnsRefinement_proofs.tla` hold the TLAPS proofs.

The detailed model is linked to the abstract one by
`Registry == INSTANCE DnsRegistry WITH records <- ledger, coins <- utxos`.
`RegistrySpec == Registry!Spec` is checked by TLC as a `PROPERTY` and proved
by TLAPS. Under this mapping every step inside a block is a stutter, and
`NewBlock` is a `Commit` that spends the block's `spent` set.

The data are abstracted:
- Names and keys are model values.
- The format checks on name, value and state are one flag `wf` of an output.
- A record's height is kept as its age in blocks, saturated at `AgeCap`. This is enough because every predicate compares the age with `AuctionDuration` or `ClaimLifetime`, both below `AgeCap`.

The transaction's claim-by-signature output `refund` and its signer set
`sigs` are chosen only in the branches that read them (bid and update). Any
other output that fails the checks takes the `AbortTx` disjunct. The
generic checks are a free choice between `AcceptTx` and `RejectTx`. The one
exception is a domain input already spent in the block, which
`AcceptTx` refuses.

## 3. Runs

| Run | cfg | Expect | Shows |
|---|---|---|---|
| core | `MC_DnsValidator.cfg` | pass (57,683 states) | `TypeOK`, `FreshClaimsLegal`, `OutbidPartyRefunded`, `OneBidPerBlock`, `RegistrySpec`, `AuctionOutputsRecorded` |
| pool_rollback | `MC_PoolOnlyAccepted.cfg` | violation | names of rejected transactions stay in the pool (spec 7) |
| settled_signer | `MC_SettledChangeSignedByOwner.cfg` | violation | after the auction, anyone can spend the record's claim output and give the name away without the owner's signature |
| bid_refund_stale_input | `MC_BidRefundsRecordOwner.cfg` | violation | a stale claim output of an expired claim can be bid on and refunds its old owner instead of the current owner |

The core run's properties:
- `FreshClaimsLegal`: the fresh claims of a block target free names, and no two share a name.
- `OutbidPartyRefunded`: an accepted bid refunds the owner of the input it spends.
- `OneBidPerBlock`: a block accepts at most one bid per name. This holds even when the two bids spend different claim outputs of that name, for example a stale output and the current one. Only the pool check at l. 119 keeps the second bid out.
- `RegistrySpec`: the refinement described in section 2.
- `AuctionOutputsRecorded`, an action property: at each commit, every accepted new auction and bid becomes the record of its name. The update branch does not consult the pool. Only the `new_or_expired` and `auction_is_closed` tests, read against the ledger fixed for the block, keep an update from overwriting them.

Each property has a mutant in `PROJECT.json` that TLC catches. For example:
- dropping the amount check of a plain update (l. 153) violates `RegistrySpec`;
- dropping the closed-auction test from the update branch violates `AuctionOutputsRecorded`;
- dropping `available` from `BidOK` violates `OneBidPerBlock`.

### Bounds

| Constant | Value | Why |
|---|---|---|
| `Names` | one name | Every interaction the validator has is between transactions about the same name; a second name only multiplies the states (2 names: 3.85M states, 4.5 min). |
| `Keys` | two keys, symmetric | Enough for an owner and a rival. |
| `MaxAmount` | 2 | Enough for one bid from 1 to 2 with `BidIncPercent = 50`. |
| `MinAmount` | 1 | |
| `AuctionDuration` | 1 | Gives records that are in auction (age 0), closed (age ≥ 1) and expired (age ≥ 2). |
| `ClaimLifetime` | 1 | Same as above. |
| `RefundPercent` | 50 | Makes the refund round down. |
| `MaxTxPerBlock` | 2 | Enough for two transactions in a block, the case the pool exists for. |
| UTXOs | at most 2 (`UtxoBound`) | Enough for a stale and a current claim output of one name. |

Every action and every disjunct of `ValidateOutput` fires in the core run.

### Fairness

None is assumed. The validator is a function from a block to a verdict. It
promises nothing about progress, since which transactions enter a block is
decided by block production, which is out of scope. The properties are all
safety properties.

### Findings

1. **The pool is not rolled back** (l. 61). `validate_output` pushes the name
   before the rest of the transaction is validated. A transaction rejected
   later keeps its name in the pool, which contradicts spec 7.
2. **The wrong key authorizes a settled change** (l. 159). In the
   closed-auction path the code checks the signature of `output.owner`, the
   new owner. It does not check the record's owner. Domain inputs skip the
   generic input validation (l. 33-45). So a transaction signed only by the
   new owner it names takes a settled name away from its owner.
3. **An input is checked by name only** (l. 76). A claim output left over
   from an expired claim still passes `has_dns_record(input.name)`. A bid
   that spends it is priced against the old amount and refunds the old
   owner. The owner of the current record is not paid.

Modelling also showed a dead check. `domain_is_expired` at l. 149 can never
fail once l. 112 has required `!new_or_expired`, because both compare the
record's age with the claim lifetime. Expiry in the update path rests on
l. 112 alone.

## 4. Proofs

`DnsValidator_proofs.tla` proves four theorems for every value of the
constants that satisfies the ASSUMEs. The ASSUMEs are: positive amounts,
natural durations, a positive bid increment, a refund percentage in 0..100,
and `NoRecord`, `NoInput`, `NoOutput`, `NoRefund` distinct from the values they stand in for.

- **`TypeCorrect`**: `Spec => []TypeOK`.
  - `TypeOK` alone is not inductive. A bid reads `input.amount`, so the proof
    carries `TxShape`: `seenIn` holds exactly when an input is stored.
  - The lemma `AmountBackBounds` shows that the refund lies between the old
    and the new bid. This keeps the fee a bid adds a natural number. The
    bound is about the model's own `AmountBack` formula: the refund is
    computed in `dns_util`, outside the modelled file, so it says nothing
    about that code's arithmetic.
- **`FreshClaimsSafe`**: `Spec => []FreshClaimsLegal`.
  - It goes through the inductive invariant `FreshClaimsInductive`, defined
    in the proof module. It adds:
    - the pool holds the name of every accepted output and of the current
      transaction's output;
    - a fresh output of the current transaction already satisfies the ledger
      condition and differs from every fresh pending name;
    - the scratch state matches the phase.
  - With these, `AcceptTx` keeps the fresh claims pairwise distinct, because
    `name_is_available` refused any name already in the pool.

- **`OutbidRefunded`**: `Spec => []OutbidPartyRefunded`.
  - It goes through `OutbidInductive`. That invariant adds `CurrentBidRefunds`:
    while a transaction is validated, an output that bids on an open auction
    already carries a refund to the input's owner of at least the input's
    amount.
  - The bid branch establishes this: `PaysPreviousOwner` matches the owner,
    and `AmountBackBounds` gives `amount_back >= input_amount`.
  - An update cannot establish the hypothesis, because it requires the
    auction to be closed.
  - `AcceptTx` moves the fact into `pending`.

- **`OneBidSafe`**: `Spec => []OneBidPerBlock`.
  - It goes through `OneBidInductive`. That invariant is
    `FreshClaimsInductive` plus `CurrentBidNew`: a bid of the current
    transaction has a name that no accepted bid of the block has.
  - The pool holds the name of every accepted output. A bid requires
    `name_is_available`, which refuses every name in the pool.

`DnsCommit_proofs.tla` proves one theorem about what a commit writes.
- **`AuctionOutputsCommitted`**: `Spec => AuctionOutputsRecorded`, an
  action property.
  - Its invariant `StagedInv` is `FreshClaimsInductive` plus two conjuncts:
    - `AuctionOutputsStaged`: `staged` holds every accepted new auction and bid;
    - `CurrentOutApart`: the output being validated has a name that no
      accepted new auction or bid has.
  - A new auction or a bid found its name outside the pool, where every
    accepted output's name is.
  - An update found a record that is not expired, which no fresh claim's
    target has, and not in auction, which no bid's target has.
  - `CommitRecordsAuctions` turns the invariant into the step property;
    `PTL` lifts it to `[][...]_vars`.

`DnsRefinement_proofs.tla` proves **`Refinement`**: `Spec => RegistrySpec`.
- It follows the standard refinement argument. `Init => Registry!Init`
  (`RefineInitMap`).
- `RefineInv` is inductive (`RefineInit`, `RefineNext`). It states:
  - every pending output is `Legal` for the outputs spent so far in the block;
  - the current output is `Valid`; its name is free, or it is that of the
    input and the output satisfies `BidPriced` and `UpdatePriced` against the input;
  - `staged[n]` is one of the pending outputs of name `n`;
  - `spent` and the input lie in `utxos`.
- `RefineStep` turns every `Next` step under `RefineInv` into a
  `Registry!Commit` or a stutter:
  - `TxStepsKeepLedger`: only `NewBlock` changes `ledger` or `utxos`.
  - For `NewBlock` the witness is `spend = spent`.
- `RefineInv` is needed because the legality of a committed output is
  established while its transaction is validated, blocks of steps earlier.
  The invariant carries that fact from `ValidateOutput` through `AcceptTx`
  to `NewBlock`. `LegalMono` keeps it when later transactions spend more outputs.
- The bid and update branches establish `BidPriced` and `UpdatePriced`:
  - `BidOK` gives the input's state and `is_valid_bid_price`;
  - `UpdateOK` gives the kept amount;
  - `auction_is_closed` decides which of the two applies.

Lemmas: `RangeAppend` and `AppendIndex` (sequences after `Append`),
`AmountBackBounds`, and the per-action typing lemmas `EndTxType`, `PushType`
and `AbortType`.

The following are model-checked only:
- the three violations;
- behaviour under more than one name.

Liveness, `ENABLED` and induction over data are out of the prover's reach.

## 5. Not modelled

- `dev_tests.cpp`: CLI integration glue.
- The `dynamic_cast` and `dynamic_pointer_cast` at l. 36-38 and 54-56. They throw
  only on a mis-wired validator, which is a configuration error and not a
  behaviour of transactions.
- The format checks: name characters, value size, and the spelling of the
  state string.
- Fee and signature checking of the generic validator, beyond the verdict.
- Fork evaluation with several block states.

## 6. Plan for later work

1. Strengthen `DnsRegistry` with who owns each name and the auction
   amount. The findings (l. 76 and l. 159) are where a refinement that
   states ownership needs fixed code.
2. Add a configuration with `AuctionDuration > ClaimLifetime` and a
   two-name configuration with a tighter bound, for interactions across names
   in one block.
3. Add a corrected variant of the validator: a pool updated only on accept,
   an owner signature check, and an input matched to the record. Check that
   the three violated properties hold for it.
