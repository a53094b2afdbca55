--------------------------- MODULE DnsCommit_proofs ---------------------------
(***************************************************************************)
(* What a block commits: the action property AuctionOutputsRecorded, for   *)
(* every value of the constants that satisfies the ASSUMEs.                *)
(***************************************************************************)
EXTENDS DnsValidator_proofs

\* An accepted output that the pool check of name_is_available guarded: a
\* new auction or a bid.
AuctionOutput(e) == IsFresh(e) \/ IsBid(e)

\* staged, which NewBlock commits, still holds every accepted new auction
\* and bid of the block under its name.
AuctionOutputsStaged ==
    \A i \in DOMAIN pending :
       AuctionOutput(pending[i]) => staged[pending[i].out.name] = pending[i].out

\* The output of the transaction being validated has a name that no
\* accepted new auction or bid of the block has: a new auction or a bid
\* found the name outside the pool, an update found a record that is
\* neither expired nor in auction.
CurrentOutApart ==
    out # NoOutput =>
       \A i \in DOMAIN pending :
          AuctionOutput(pending[i]) => pending[i].out.name # out.name

StagedInv ==
    /\ FreshClaimsInductive
    /\ AuctionOutputsStaged
    /\ CurrentOutApart

LEMMA StagedInit == Init => StagedInv
<1> SUFFICES ASSUME Init PROVE StagedInv
  OBVIOUS
<1>1. FreshClaimsInductive  BY FreshInit
<1>2. DOMAIN pending = {}  BY DEF Init
<1>. QED  BY <1>1, <1>2 DEF StagedInv, AuctionOutputsStaged, CurrentOutApart

\* A step that keeps the block's state and the ledger, and either keeps the
\* current output or drops it, keeps StagedInv.
LEMMA StagedKept ==
    ASSUME StagedInv, FreshClaimsInductive',
           UNCHANGED <<ledger, pending, staged>>,
           out' = out \/ out' = NoOutput
    PROVE  StagedInv'
BY Zenon DEF StagedInv, AuctionOutputsStaged, CurrentOutApart, AuctionOutput,
             IsFresh, IsBid

LEMMA StagedNext == StagedInv /\ [Next]_vars => StagedInv'
<1> SUFFICES ASSUME StagedInv, [Next]_vars PROVE StagedInv'
  OBVIOUS
<1>0. FreshClaimsInductive' /\ FreshClaimsInductive /\ TypeOK /\ TxShape
  BY FreshNext DEF StagedInv, FreshClaimsInductive, TxShape
<1>1. CASE StartTx
  BY <1>0, <1>1, StagedKept DEF StartTx, txVars, blockVars
<1>2. ASSUME NEW u \in utxos, ValidateInput(u) PROVE StagedInv'
  BY <1>0, <1>2, StagedKept DEF ValidateInput, AbortTx, EndTx, blockVars
<1>3. ASSUME NEW o \in ClaimOutputs, ValidateOutput(o) PROVE StagedInv'
  <2>0. o.name \in Names
    BY DEF ClaimOutputs
  \* Whatever branch passed, the output is apart from the block's auctions.
  <2>1. ASSUME NEW r, NEW s, PushOutput(o, r, s),
               \A i \in DOMAIN pending :
                  AuctionOutput(pending[i]) => pending[i].out.name # o.name
        PROVE  StagedInv'
    <3>1. UNCHANGED <<ledger, pending, staged>> /\ out' = o
      BY <2>1 DEF PushOutput, blockVars
    <3>. QED  BY <1>0, <2>1, <3>1, Zenon
                DEF StagedInv, AuctionOutputsStaged, CurrentOutApart, AuctionOutput,
                    IsFresh, IsBid
  \* Every accepted new auction or bid has its name in the pool.
  <2>2. \A i \in DOMAIN pending :
           AuctionOutput(pending[i]) => pending[i].out.name \in Range(pool)
    BY <1>0 DEF FreshClaimsInductive, AuctionOutput, IsFresh, IsBid
  <2>3. CASE OutputWellFormed(o) /\ NewAuctionOK(o) /\ fees' = fees
             /\ PushOutput(o, NoRefund, {})
    <3>1. o.name \notin Range(pool)
      BY <2>3 DEF NewAuctionOK, name_is_available, InPool
    <3>. QED  BY <2>1, <2>2, <2>3, <3>1
  <2>4. ASSUME NEW r \in SigOutputs, OutputWellFormed(o), BidOK(o, r),
               fees' = fees + (o.amount - AmountBack(input.amount, o.amount)),
               PushOutput(o, r, {})
        PROVE  StagedInv'
    <3>1. o.name \notin Range(pool)
      BY <2>4 DEF BidOK, name_is_available, InPool
    <3>. QED  BY <2>1, <2>2, <2>4, <3>1
  <2>5. ASSUME NEW s \in SUBSET Keys, OutputWellFormed(o), UpdateOK(o, s),
               fees' = fees, PushOutput(o, NoRefund, s)
        PROVE  StagedInv'
    <3>1. /\ ledger[o.name] # NoRecord
          /\ ~(ledger[o.name].age > ClaimLifetime)
          /\ ledger[o.name].age >= AuctionDuration
      BY <2>5 DEF UpdateOK, ContinuesInput, NewOrExpired, HasDnsRecord,
                  auction_is_closed
    <3>2. ledger[o.name].age \in Nat
      BY <1>0, <2>0, <3>1, RecordAge
    <3>3. ASSUME NEW i \in DOMAIN pending, AuctionOutput(pending[i])
          PROVE  pending[i].out.name # o.name
      <4>1. CASE IsFresh(pending[i])
        <5>1. \/ ledger[pending[i].out.name] = NoRecord
              \/ ledger[pending[i].out.name].age > ClaimLifetime
          BY <1>0, <4>1 DEF FreshClaimsInductive, FreshClaimsLegal
        <5>. QED  BY <3>1, <3>2, <5>1, DurationAssumption
      <4>2. CASE IsBid(pending[i])
        <5>1. ledger[pending[i].out.name].age < AuctionDuration
          BY <4>2 DEF IsBid
        <5>. QED  BY <3>1, <3>2, <5>1, DurationAssumption
      <4>. QED  BY <3>3, <4>1, <4>2 DEF AuctionOutput
    <3>. QED  BY <2>1, <2>5, <3>3
  <2>6. CASE AbortTx
    BY <1>0, <2>6, StagedKept DEF AbortTx, EndTx, blockVars
  <2>. QED  BY <1>3, <2>3, <2>4, <2>5, <2>6 DEF ValidateOutput
<1>4. CASE AcceptTx
  <2> DEFINE e == [in |-> input, out |-> out, refund |-> refund, sigs |-> sigs]
  <2>1. e \in Effects
    BY <1>0 DEF Effects, TypeOK
  <2>2. /\ DOMAIN pending' = DOMAIN pending \cup {Len(pending) + 1}
        /\ \A i \in DOMAIN pending : pending'[i] = pending[i]
        /\ pending'[Len(pending) + 1] = e
    BY <1>0, <1>4, <2>1, AppendIndex DEF AcceptTx, TypeOK
  <2>3. /\ UNCHANGED ledger /\ out' = NoOutput
        /\ staged' = IF out = NoOutput THEN staged
                     ELSE [staged EXCEPT ![out.name] = out]
    BY <1>4 DEF AcceptTx, EndTx, blockVars
  <2>4. out # NoOutput => out.name \in Names /\ staged \in [Names -> ClaimOutputs \cup {NoOutput}]
    BY <1>0 DEF TypeOK, ClaimOutputs
  \* The accepted auctions of the block keep their staged entries.
  <2>5. ASSUME NEW i \in DOMAIN pending, AuctionOutput(pending[i])
        PROVE  staged'[pending[i].out.name] = pending[i].out
    <3>1. staged[pending[i].out.name] = pending[i].out
      BY <2>5 DEF StagedInv, AuctionOutputsStaged
    <3>2. out # NoOutput => pending[i].out.name # out.name
      BY <2>5 DEF StagedInv, CurrentOutApart
    <3>. QED  BY <2>3, <2>4, <3>1, <3>2
  \* The transaction's own output, if a new auction or a bid, is staged.
  <2>6. AuctionOutput(e) => staged'[e.out.name] = e.out
    <3>1. AuctionOutput(e) => out # NoOutput
      BY DEF AuctionOutput, IsFresh, IsBid
    <3>. QED  BY <2>3, <2>4, <3>1
  <2>7. AuctionOutputsStaged'
    <3>1. ASSUME NEW x PROVE AuctionOutput(x)' <=> AuctionOutput(x)
      BY <2>3 DEF AuctionOutput, IsFresh, IsBid
    <3>. QED  BY <2>2, <2>5, <2>6, <3>1 DEF AuctionOutputsStaged
  <2>8. CurrentOutApart'
    BY <2>3 DEF CurrentOutApart
  <2>. QED  BY <1>0, <2>7, <2>8 DEF StagedInv
<1>5. CASE RejectTx
  BY <1>0, <1>5, StagedKept DEF RejectTx, AbortTx, EndTx, blockVars
<1>6. CASE NewBlock
  <2>1. DOMAIN pending' = {} /\ out' = out
    BY <1>6 DEF NewBlock, txVars
  <2>. QED  BY <1>0, <2>1 DEF StagedInv, AuctionOutputsStaged, CurrentOutApart
<1>7. CASE UNCHANGED vars
  BY <1>0, <1>7, StagedKept DEF vars, txVars
<1>. QED  BY <1>1, <1>2, <1>3, <1>4, <1>5, <1>6, <1>7 DEF Next

\* At a commit, staged holds each accepted new auction and bid, and NewBlock
\* writes staged into the ledger.
LEMMA CommitRecordsAuctions ==
    ASSUME StagedInv, NewBlock
    PROVE  \A i \in DOMAIN pending :
              (IsFresh(pending[i]) \/ IsBid(pending[i])) =>
                 ledger'[pending[i].out.name] = [out |-> pending[i].out, age |-> 0]
<1> SUFFICES ASSUME NEW i \in DOMAIN pending, AuctionOutput(pending[i])
             PROVE  ledger'[pending[i].out.name] = [out |-> pending[i].out, age |-> 0]
  BY DEF AuctionOutput
<1>1. staged[pending[i].out.name] = pending[i].out /\ pending[i].out # NoOutput
  BY DEF StagedInv, AuctionOutputsStaged, AuctionOutput, IsFresh, IsBid
<1>2. pending[i].out.name \in Names
  <2>1. pending \in Seq(Effects)
    BY DEF StagedInv, FreshClaimsInductive, TypeOK
  <2>2. pending[i] \in Effects
    BY <2>1
  <2>3. pending[i].out \in ClaimOutputs
    BY <1>1, <2>2 DEF Effects
  <2>. QED  BY <2>3 DEF ClaimOutputs
<1>. QED  BY <1>1, <1>2 DEF NewBlock

(***************************************************************************)
(* Every block commits what its auctions decided (AuctionOutputsRecorded): *)
(* at NewBlock each accepted new auction and each accepted bid becomes the *)
(* record of its name.  The pool check of name_is_available and the        *)
(* closed-auction test of validate_domain_output keep every other output   *)
(* of the name out of the block's staged entry.                            *)
(***************************************************************************)
THEOREM AuctionOutputsCommitted == Spec => AuctionOutputsRecorded
<1>1. Spec => []StagedInv
  BY StagedInit, StagedNext, PTL DEF Spec
<1>2. StagedInv =>
        [NewBlock =>
           \A i \in DOMAIN pending :
              (IsFresh(pending[i]) \/ IsBid(pending[i])) =>
                 ledger'[pending[i].out.name] = [out |-> pending[i].out, age |-> 0]
        ]_vars
  BY CommitRecordsAuctions
<1>. QED  BY <1>1, <1>2, PTL DEF AuctionOutputsRecorded

=============================================================================
