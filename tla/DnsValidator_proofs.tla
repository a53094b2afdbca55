------------------------- MODULE DnsValidator_proofs -------------------------
(***************************************************************************)
(* Proofs about DnsValidator for every value of the constants that        *)
(* satisfies its ASSUMEs.                                                  *)
(***************************************************************************)
EXTENDS DnsValidator, SequenceTheorems, TLAPS

USE MaxAmountAssumption, MinAmountAssumption, DurationAssumption,
    PercentAssumption, MaxTxAssumption, SentinelAssumption

\* validate_domain_output reads input.amount only after validate_domain_input
\* has stored an input: the flag and the stored input go together.
TxShape == seenIn = (input # NoInput)

\* The name pool is what keeps fresh claims of one block apart.  Every
\* domain output accepted in the block, and the one the current transaction
\* has passed, has its name in the pool; the current transaction's fresh
\* output already satisfies what FreshClaimsLegal will ask of it when the
\* transaction is accepted; and the transaction's scratch state is
\* consistent with the phase of on_evaluate.  This strengthens
\* FreshClaimsLegal to an inductive invariant; it is a proof device, not a
\* requirement of the code.
FreshClaimsInductive ==
    /\ TypeOK
    /\ FreshClaimsLegal
    /\ seenIn = (input # NoInput)
    /\ phase # "outputs" => out = NoOutput
    /\ \A i \in DOMAIN pending :
          pending[i].out # NoOutput => pending[i].out.name \in Range(pool)
    /\ out # NoOutput => out.name \in Range(pool)
    /\ (input = NoInput /\ out # NoOutput) =>
          /\ \/ ledger[out.name] = NoRecord
             \/ ledger[out.name].age > ClaimLifetime
          /\ \A i \in DOMAIN pending :
                IsFresh(pending[i]) => pending[i].out.name # out.name

-----------------------------------------------------------------------------
(* Lemmas about the helpers the model is built from.                       *)

\* The names in a sequence after an append.
LEMMA RangeAppend ==
    ASSUME NEW S, NEW s \in Seq(S), NEW x \in S
    PROVE  Range(Append(s, x)) = Range(s) \cup {x}
<1>1. /\ Len(Append(s, x)) = Len(s) + 1
      /\ \A i \in 1..Len(s) : Append(s, x)[i] = s[i]
      /\ Append(s, x)[Len(s) + 1] = x
  BY AppendProperties
<1>2. DOMAIN Append(s, x) = 1..Len(s) + 1 /\ DOMAIN s = 1..Len(s)
  BY <1>1, AppendProperties
<1>. QED  BY <1>1, <1>2 DEF Range

LEMMA RangeEmpty == Range(<< >>) = {}
BY DEF Range

\* The refund of a valid bid lies between the old bid and the new one, so
\* the fee a bid adds (the new bid minus the refund) is a natural number.
LEMMA AmountBackBounds ==
    ASSUME NEW prev \in Nat, NEW bid \in Nat, is_valid_bid_price(prev, bid)
    PROVE  /\ AmountBack(prev, bid) \in Nat
           /\ prev <= AmountBack(prev, bid)
           /\ AmountBack(prev, bid) <= bid
<1>1. prev <= bid
  <2>1. prev * BidIncPercent \in Nat
    BY PercentAssumption
  <2>2. bid * 100 >= prev * 100
    BY <2>1 DEF is_valid_bid_price
  <2>. QED  BY <2>2
<1>. DEFINE d == bid - prev
<1>2. d \in Nat  BY <1>1
<1>3. d * RefundPercent \in Nat /\ d * RefundPercent <= d * 100
  BY <1>2, PercentAssumption
<1>4. (d * RefundPercent) \div 100 \in Nat
  BY <1>3
<1>5. (d * RefundPercent) \div 100 <= d
  BY <1>2, <1>3
<1>. QED  BY <1>2, <1>4, <1>5 DEF AmountBack

-----------------------------------------------------------------------------
(* Type correctness.                                                       *)

LEMMA TypeInit == Init => TypeOK
<1> SUFFICES ASSUME Init PROVE TypeOK
  OBVIOUS
<1>1. ledger \in [Names -> Records \cup {NoRecord}]
  BY DEF Init
<1>2. pool \in Seq(Names) /\ pending \in Seq(Effects)
  BY DEF Init
<1>3. staged \in [Names -> ClaimOutputs \cup {NoOutput}]
  BY DEF Init
<1>4. txCount \in Nat /\ fees \in Nat
  BY DEF Init
<1>5. seenIn \in BOOLEAN /\ seenOut \in BOOLEAN
  BY DEF Init
<1>6. /\ utxos \subseteq ClaimOutputs /\ spent \subseteq ClaimOutputs
      /\ phase \in {"idle", "inputs", "outputs"}
      /\ input \in ClaimOutputs \cup {NoInput} /\ out \in ClaimOutputs \cup {NoOutput}
      /\ refund \in SigOutputs \cup {NoRefund} /\ sigs \subseteq Keys
  BY DEF Init
<1>. QED  BY <1>1, <1>2, <1>3, <1>4, <1>5, <1>6 DEF TypeOK

\* A transaction that ends, accepted or not, leaves a well-typed state
\* whenever the block state it leaves behind is well typed.
LEMMA EndTxType ==
    ASSUME TypeOK, EndTx,
           ledger' \in [Names -> Records \cup {NoRecord}],
           utxos' \subseteq ClaimOutputs, pool' \in Seq(Names),
           spent' \subseteq ClaimOutputs, pending' \in Seq(Effects),
           staged' \in [Names -> ClaimOutputs \cup {NoOutput}]
    PROVE  TypeOK'
<1>1. seenIn' \in BOOLEAN /\ seenOut' \in BOOLEAN
  BY DEF EndTx
<1>2. /\ txCount' \in Nat /\ phase' \in {"idle", "inputs", "outputs"}
      /\ input' \in ClaimOutputs \cup {NoInput}
      /\ out' \in ClaimOutputs \cup {NoOutput}
      /\ fees' \in Nat /\ refund' \in SigOutputs \cup {NoRefund}
      /\ sigs' \subseteq Keys
  BY DEF EndTx, TypeOK
<1>. QED  BY <1>1, <1>2 DEF TypeOK

LEMMA AbortType == TypeOK /\ AbortTx => TypeOK'
BY EndTxType DEF AbortTx, TypeOK, blockVars

\* A domain output that passed validate_domain_output leaves a well-typed
\* state if the fee it adds is a natural number.
LEMMA PushType ==
    ASSUME TypeOK, NEW o \in ClaimOutputs,
           NEW r \in SigOutputs \cup {NoRefund}, NEW s \in SUBSET Keys,
           PushOutput(o, r, s), fees' \in Nat
    PROVE  TypeOK'
<1>1. seenIn' \in BOOLEAN /\ seenOut' \in BOOLEAN
  BY DEF PushOutput, TypeOK
<1>2. pool' \in Seq(Names)
  <2>1. o.name \in Names
    BY DEF ClaimOutputs
  <2>. QED  BY <2>1, AppendProperties DEF PushOutput, TypeOK
<1>3. /\ ledger' \in [Names -> Records \cup {NoRecord}]
      /\ utxos' \subseteq ClaimOutputs /\ spent' \subseteq ClaimOutputs
      /\ pending' \in Seq(Effects)
      /\ staged' \in [Names -> ClaimOutputs \cup {NoOutput}]
      /\ txCount' \in Nat /\ phase' \in {"idle", "inputs", "outputs"}
      /\ input' \in ClaimOutputs \cup {NoInput}
      /\ out' \in ClaimOutputs \cup {NoOutput}
      /\ refund' \in SigOutputs \cup {NoRefund} /\ sigs' \subseteq Keys
  BY DEF PushOutput, TypeOK, blockVars
<1>. QED  BY <1>1, <1>2, <1>3 DEF TypeOK

LEMMA TypeNext == TypeOK /\ TxShape /\ [Next]_vars => TypeOK'
<1> SUFFICES ASSUME TypeOK, TxShape, [Next]_vars PROVE TypeOK'
  OBVIOUS
<1>1. CASE StartTx
  <2>1. seenIn' \in BOOLEAN /\ seenOut' \in BOOLEAN
    BY <1>1 DEF StartTx, txVars, TypeOK
  <2>. QED  BY <1>1, <2>1 DEF StartTx, txVars, blockVars, TypeOK
<1>2. ASSUME NEW u \in utxos, ValidateInput(u) PROVE TypeOK'
  <2>1. CASE /\ ~seenIn
             /\ input' = u
             /\ seenIn' = TRUE
             /\ UNCHANGED <<blockVars, pool, spent, pending, staged, txCount,
                            phase, seenOut, out, fees, refund, sigs>>
    <3>1. seenIn' \in BOOLEAN /\ seenOut' \in BOOLEAN
      BY <2>1 DEF TypeOK
    <3>2. input' \in ClaimOutputs
      BY <2>1 DEF TypeOK
    <3>. QED  BY <2>1, <3>1, <3>2 DEF blockVars, TypeOK
  <2>2. CASE AbortTx
    BY <2>2, AbortType
  <2>. QED  BY <1>2, <2>1, <2>2 DEF ValidateInput
<1>3. ASSUME NEW o \in ClaimOutputs, ValidateOutput(o) PROVE TypeOK'
  <2>1. CASE OutputWellFormed(o) /\ NewAuctionOK(o) /\ fees' = fees
             /\ PushOutput(o, NoRefund, {})
    BY <2>1, PushType DEF TypeOK
  <2>2. ASSUME NEW r \in SigOutputs, OutputWellFormed(o), BidOK(o, r),
               fees' = fees + (o.amount - AmountBack(input.amount, o.amount)),
               PushOutput(o, r, {})
        PROVE  TypeOK'
    <3>1. input \in ClaimOutputs
      <4>1. seenIn
        BY <2>2 DEF BidOK, ContinuesInput
      <4>. QED  BY <4>1 DEF TxShape, TypeOK
    <3>2. input.amount \in Nat /\ o.amount \in Nat
      BY <3>1 DEF ClaimOutputs, Amounts
    <3>3. AmountBack(input.amount, o.amount) <= o.amount
          /\ AmountBack(input.amount, o.amount) \in Nat
      BY <2>2, <3>2, AmountBackBounds DEF BidOK
    <3>4. fees' \in Nat
      BY <2>2, <3>2, <3>3 DEF TypeOK
    <3>. QED  BY <2>2, <3>4, PushType
  <2>3. ASSUME NEW s \in SUBSET Keys, OutputWellFormed(o), UpdateOK(o, s),
               fees' = fees, PushOutput(o, NoRefund, s)
        PROVE  TypeOK'
    BY <2>3, PushType DEF TypeOK
  <2>4. CASE AbortTx
    BY <2>4, AbortType
  <2>. QED  BY <1>3, <2>1, <2>2, <2>3, <2>4 DEF ValidateOutput
<1>4. CASE AcceptTx
  <2>1. [in |-> input, out |-> out, refund |-> refund, sigs |-> sigs] \in Effects
    BY DEF Effects, TypeOK
  <2>2. pending' \in Seq(Effects)
    BY <1>4, <2>1, AppendProperties DEF AcceptTx, TypeOK
  <2>3. spent' \subseteq ClaimOutputs
    BY <1>4 DEF AcceptTx, TypeOK
  <2>4. staged' \in [Names -> ClaimOutputs \cup {NoOutput}]
    BY <1>4 DEF AcceptTx, TypeOK, ClaimOutputs
  <2>. QED  BY <1>4, <2>2, <2>3, <2>4, EndTxType DEF AcceptTx, blockVars, TypeOK
<1>5. CASE RejectTx
  BY <1>5, AbortType DEF RejectTx
<1>6. CASE NewBlock
  <2>1. ledger' \in [Names -> Records \cup {NoRecord}]
    <3>1. \A a \in Ages : Older(a) \in Ages
      BY DEF Older, Ages, AgeCap
    <3>2. \A n \in Names : ledger[n] # NoRecord
             => [out |-> ledger[n].out, age |-> Older(ledger[n].age)] \in Records
      BY <3>1 DEF TypeOK, Records
    <3>3. \A n \in Names : staged[n] # NoOutput
             => [out |-> staged[n], age |-> 0] \in Records
      BY DEF TypeOK, Records, Ages, AgeCap
    <3>. QED  BY <1>6, <3>2, <3>3 DEF NewBlock
  <2>2. utxos' \subseteq ClaimOutputs
    <3>1. \A j \in DOMAIN pending : pending[j] \in Effects
      BY DEF TypeOK
    <3>2. \A j \in DOMAIN pending : pending[j].out # NoOutput
                                     => pending[j].out \in ClaimOutputs
      BY <3>1 DEF Effects
    <3>. QED  BY <1>6, <3>2 DEF NewBlock, TypeOK
  <2>3. seenIn' \in BOOLEAN /\ seenOut' \in BOOLEAN
    BY <1>6 DEF NewBlock, txVars, TypeOK
  <2>. QED  BY <1>6, <2>1, <2>2, <2>3 DEF NewBlock, txVars, TypeOK
<1>7. CASE UNCHANGED vars
  <2>1. seenIn' \in BOOLEAN /\ seenOut' \in BOOLEAN
    BY <1>7 DEF vars, txVars, TypeOK
  <2>. QED  BY <1>7, <2>1 DEF vars, txVars, TypeOK
<1>. QED  BY <1>1, <1>2, <1>3, <1>4, <1>5, <1>6, <1>7 DEF Next

LEMMA TxShapeInit == Init => TxShape
BY DEF Init, TxShape

LEMMA TxShapeNext == TypeOK /\ TxShape /\ [Next]_vars => TxShape'
<1> SUFFICES ASSUME TypeOK, TxShape, [Next]_vars PROVE TxShape'
  OBVIOUS
<1>1. CASE StartTx
  BY <1>1 DEF StartTx, txVars, TxShape
<1>2. ASSUME NEW u \in utxos, ValidateInput(u) PROVE TxShape'
  <2>1. u # NoInput
    BY DEF TypeOK
  <2>. QED  BY <2>1, <1>2 DEF ValidateInput, AbortTx, EndTx, TxShape
<1>3. ASSUME NEW o \in ClaimOutputs, ValidateOutput(o) PROVE TxShape'
  BY <1>3 DEF ValidateOutput, PushOutput, AbortTx, EndTx, TxShape
<1>4. CASE AcceptTx
  BY <1>4 DEF AcceptTx, EndTx, TxShape
<1>5. CASE RejectTx
  BY <1>5 DEF RejectTx, AbortTx, EndTx, TxShape
<1>6. CASE NewBlock
  BY <1>6 DEF NewBlock, txVars, TxShape
<1>7. CASE UNCHANGED vars
  BY <1>7 DEF vars, txVars, TxShape
<1>. QED  BY <1>1, <1>2, <1>3, <1>4, <1>5, <1>6, <1>7 DEF Next

\* Every reachable state of the validator is well typed: in particular the
\* amounts validate_domain_output computes a fee from are naturals, and the
\* pool, spent set and pending effects of the block state hold what their
\* declarations say.
THEOREM TypeCorrect == Spec => []TypeOK
<1>1. Init => TypeOK /\ TxShape
  BY TypeInit, TxShapeInit
<1>2. TypeOK /\ TxShape /\ [Next]_vars => (TypeOK /\ TxShape)'
  BY TypeNext, TxShapeNext
<1>. QED  BY <1>1, <1>2, PTL DEF Spec
-----------------------------------------------------------------------------
(* Fresh claims.                                                           *)

\* The shape of a sequence after an append, by index.
LEMMA AppendIndex ==
    ASSUME NEW S, NEW s \in Seq(S), NEW x \in S
    PROVE  /\ DOMAIN Append(s, x) = DOMAIN s \cup {Len(s) + 1}
           /\ Len(s) + 1 \notin DOMAIN s
           /\ \A i \in DOMAIN s : Append(s, x)[i] = s[i]
           /\ Append(s, x)[Len(s) + 1] = x
<1>1. /\ Len(Append(s, x)) = Len(s) + 1
      /\ \A i \in 1..Len(s) : Append(s, x)[i] = s[i]
      /\ Append(s, x)[Len(s) + 1] = x
  BY AppendProperties
<1>2. DOMAIN Append(s, x) = 1..Len(s) + 1 /\ DOMAIN s = 1..Len(s)
      /\ Len(s) \in Nat
  BY <1>1, AppendProperties
<1>. QED  BY <1>1, <1>2

LEMMA FreshInit == Init => FreshClaimsInductive
<1> SUFFICES ASSUME Init PROVE FreshClaimsInductive
  OBVIOUS
<1>1. TypeOK  BY TypeInit
<1>2. DOMAIN pending = {} /\ out = NoOutput /\ input = NoInput /\ seenIn = FALSE
  BY DEF Init
<1>3. seenIn = (input # NoInput)
  BY <1>2, Zenon
<1>4. FreshClaimsLegal
  BY <1>2 DEF FreshClaimsLegal
<1>. QED  BY <1>1, <1>2, <1>3, <1>4 DEF FreshClaimsInductive

LEMMA FreshNext == FreshClaimsInductive /\ [Next]_vars => FreshClaimsInductive'
<1> SUFFICES ASSUME FreshClaimsInductive, [Next]_vars
             PROVE  FreshClaimsInductive'
  OBVIOUS
<1> USE DEF FreshClaimsInductive
<1>0. TypeOK /\ TypeOK'
  BY TypeNext DEF TxShape
<1>1. CASE StartTx
  BY <1>0, <1>1 DEF StartTx, txVars, blockVars, FreshClaimsLegal, IsFresh
<1>2. ASSUME NEW u \in utxos, ValidateInput(u) PROVE FreshClaimsInductive'
  <2>1. CASE /\ ~seenIn
             /\ input' = u
             /\ seenIn' = TRUE
             /\ UNCHANGED <<blockVars, pool, spent, pending, staged, txCount,
                            phase, seenOut, out, fees, refund, sigs>>
    <3>1. u # NoInput
      BY <1>0 DEF TypeOK
    <3>2. seenIn' = (input' # NoInput)
      BY <2>1, <3>1
    <3>3. out = NoOutput
      BY <1>2 DEF ValidateInput
    <3>. QED  BY <1>0, <2>1, <3>1, <3>2, <3>3 DEF blockVars, FreshClaimsLegal, IsFresh
  <2>2. CASE AbortTx
    BY <1>0, <2>2 DEF AbortTx, EndTx, blockVars, FreshClaimsLegal, IsFresh
  <2>. QED  BY <1>2, <2>1, <2>2 DEF ValidateInput
<1>3. ASSUME NEW o \in ClaimOutputs, ValidateOutput(o) PROVE FreshClaimsInductive'
  <2>0. pool' = Append(pool, o.name) => Range(pool') = Range(pool) \cup {o.name}
    <3>1. o.name \in Names  BY DEF ClaimOutputs
    <3>. QED  BY <3>1, <1>0, RangeAppend DEF TypeOK
  <2>1. ASSUME NEW r \in SigOutputs \cup {NoRefund}, NEW s \in SUBSET Keys,
               PushOutput(o, r, s), seenIn
        PROVE  FreshClaimsInductive'
    <3>1. Range(pool') = Range(pool) \cup {o.name}
      BY <2>0, <2>1 DEF PushOutput
    <3>2. seenIn' = (input' # NoInput) /\ input' # NoInput
      BY <2>1 DEF PushOutput
    <3>. QED  BY <1>0, <2>1, <3>1, <3>2 DEF PushOutput, blockVars, FreshClaimsLegal, IsFresh
  <2>2. CASE OutputWellFormed(o) /\ NewAuctionOK(o) /\ fees' = fees
             /\ PushOutput(o, NoRefund, {})
    <3>1. Range(pool') = Range(pool) \cup {o.name}
      BY <2>0, <2>2 DEF PushOutput
    <3>2. o.name \notin Range(pool)
      BY <2>2 DEF NewAuctionOK, name_is_available, InPool
    <3>3. ledger[o.name] = NoRecord \/ ledger[o.name].age > ClaimLifetime
      BY <2>2 DEF NewAuctionOK, NewOrExpired, HasDnsRecord
    <3>4. \A i \in DOMAIN pending : IsFresh(pending[i]) => pending[i].out.name # o.name
      BY <3>2 DEF IsFresh
    <3>5. seenIn' = (input' # NoInput) /\ input' = NoInput
      BY <2>2 DEF PushOutput, NewAuctionOK
    <3>. QED  BY <1>0, <2>2, <3>1, <3>3, <3>4, <3>5
                 DEF PushOutput, blockVars, FreshClaimsLegal
  <2>3. CASE AbortTx
    BY <1>0, <2>3 DEF AbortTx, EndTx, blockVars, FreshClaimsLegal, IsFresh
  <2>. QED  BY <1>3, <2>1, <2>2, <2>3
            DEF ValidateOutput, BidOK, UpdateOK, ContinuesInput
<1>4. CASE AcceptTx
  <2> DEFINE e == [in |-> input, out |-> out, refund |-> refund, sigs |-> sigs]
  <2>1. e \in Effects
    BY <1>0 DEF Effects, TypeOK
  <2>2. /\ DOMAIN pending' = DOMAIN pending \cup {Len(pending) + 1}
        /\ Len(pending) + 1 \notin DOMAIN pending
        /\ \A i \in DOMAIN pending : pending'[i] = pending[i]
        /\ pending'[Len(pending) + 1] = e
    BY <1>0, <1>4, <2>1, AppendIndex DEF AcceptTx, TypeOK
  <2>3. UNCHANGED <<ledger, pool>> /\ out' = NoOutput
        /\ seenIn' = (input' # NoInput)
    BY <1>4 DEF AcceptTx, EndTx, blockVars
  <2>4. IsFresh(e) => \/ ledger[e.out.name] = NoRecord
                      \/ ledger[e.out.name].age > ClaimLifetime
    BY DEF IsFresh
  <2>5. IsFresh(e) => \A i \in DOMAIN pending :
                          IsFresh(pending[i]) => pending[i].out.name # e.out.name
    BY DEF IsFresh
  <2>6. FreshClaimsLegal'
    BY <2>2, <2>3, <2>4, <2>5 DEF FreshClaimsLegal
  <2>7. \A i \in DOMAIN pending' :
          pending'[i].out # NoOutput => pending'[i].out.name \in Range(pool')
    BY <2>2, <2>3
  <2>. QED  BY <1>0, <2>3, <2>6, <2>7
<1>5. CASE RejectTx
  BY <1>0, <1>5 DEF RejectTx, AbortTx, EndTx, blockVars, FreshClaimsLegal, IsFresh
<1>6. CASE NewBlock
  <2>1. DOMAIN pending' = {}
    BY <1>6 DEF NewBlock
  <2>2. out = NoOutput
    BY <1>6 DEF NewBlock
  <2>. QED  BY <1>0, <1>6, <2>1, <2>2 DEF NewBlock, txVars, FreshClaimsLegal
<1>7. CASE UNCHANGED vars
  BY <1>0, <1>7 DEF vars, txVars, FreshClaimsLegal, IsFresh
<1>. QED  BY <1>1, <1>2, <1>3, <1>4, <1>5, <1>6, <1>7 DEF Next

\* No two accepted transactions of a block freshly claim one name, and each
\* fresh claim targets a name with no record or an expired one: the pool
\* check of name_is_available separates the fresh claims of one block.
THEOREM FreshClaimsSafe == Spec => []FreshClaimsLegal
<1>1. FreshClaimsInductive => FreshClaimsLegal
  BY DEF FreshClaimsInductive
<1>. QED  BY <1>1, FreshInit, FreshNext, PTL DEF Spec
-----------------------------------------------------------------------------
(* Refunds of bids.                                                        *)

\* The refund the current transaction carries, when its output is a bid on a
\* record whose auction is still open.
CurrentBidRefunds ==
    (/\ seenIn /\ out # NoOutput
     /\ ledger[out.name] # NoRecord
     /\ ledger[out.name].age < AuctionDuration)
       => /\ refund # NoRefund
          /\ refund.owner = input.owner
          /\ refund.amount >= input.amount

\* OutbidPartyRefunded strengthened with what the current transaction will
\* add to the pending effects when it is accepted.
OutbidInductive ==
    /\ TypeOK
    /\ TxShape
    /\ phase # "outputs" => out = NoOutput
    /\ OutbidPartyRefunded
    /\ CurrentBidRefunds

LEMMA OutbidInit == Init => OutbidInductive
<1> SUFFICES ASSUME Init PROVE OutbidInductive
  OBVIOUS
<1>1. TypeOK /\ TxShape  BY TypeInit, TxShapeInit
<1>2. DOMAIN pending = {} /\ out = NoOutput /\ ~seenIn
  BY DEF Init
<1>. QED  BY <1>1, <1>2 DEF OutbidInductive, OutbidPartyRefunded, CurrentBidRefunds

LEMMA OutbidNext == OutbidInductive /\ [Next]_vars => OutbidInductive'
<1> SUFFICES ASSUME OutbidInductive, [Next]_vars PROVE OutbidInductive'
  OBVIOUS
<1> USE DEF OutbidInductive
<1>0. TypeOK' /\ TxShape'
  BY TypeNext, TxShapeNext
<1>1. CASE StartTx
  BY <1>0, <1>1 DEF StartTx, txVars, blockVars, OutbidPartyRefunded, IsBid,
                    CurrentBidRefunds
<1>2. ASSUME NEW u \in utxos, ValidateInput(u) PROVE OutbidInductive'
  <2>1. out = NoOutput
    BY <1>2 DEF ValidateInput
  <2>. QED  BY <1>0, <1>2, <2>1 DEF ValidateInput, AbortTx, EndTx, blockVars,
                                    OutbidPartyRefunded, IsBid, CurrentBidRefunds
<1>3. ASSUME NEW o \in ClaimOutputs, ValidateOutput(o) PROVE OutbidInductive'
  <2>1. CASE OutputWellFormed(o) /\ NewAuctionOK(o) /\ fees' = fees
             /\ PushOutput(o, NoRefund, {})
    <3>1. ~seenIn'
      BY <2>1 DEF NewAuctionOK, PushOutput
    <3>. QED  BY <1>0, <2>1, <3>1 DEF PushOutput, blockVars, OutbidPartyRefunded,
                                     IsBid, CurrentBidRefunds
  <2>2. ASSUME NEW r \in SigOutputs, OutputWellFormed(o), BidOK(o, r),
               fees' = fees + (o.amount - AmountBack(input.amount, o.amount)),
               PushOutput(o, r, {})
        PROVE  OutbidInductive'
    <3>1. input \in ClaimOutputs
      <4>1. seenIn
        BY <2>2 DEF BidOK, ContinuesInput
      <4>. QED  BY <4>1 DEF TxShape, TypeOK
    <3>2. input.amount \in Nat /\ o.amount \in Nat
      BY <3>1 DEF ClaimOutputs, Amounts
    <3>3. input.amount <= AmountBack(input.amount, o.amount)
      BY <2>2, <3>2, AmountBackBounds DEF BidOK
    <3>4. /\ r.owner = input.owner
          /\ r.amount >= AmountBack(input.amount, o.amount)
          /\ r.amount \in Nat
      BY <2>2 DEF BidOK, PaysPreviousOwner, SigOutputs, Amounts
    <3>5. r.amount >= input.amount
      BY <3>2, <3>3, <3>4, AmountBackBounds, <2>2 DEF BidOK
    <3>6. r # NoRefund
      BY SentinelAssumption
    <3>7. CurrentBidRefunds'
      BY <2>2, <3>4, <3>5, <3>6 DEF PushOutput, CurrentBidRefunds, blockVars
    <3>. QED  BY <1>0, <2>2, <3>7 DEF PushOutput, blockVars, OutbidPartyRefunded, IsBid
  <2>3. ASSUME NEW s \in SUBSET Keys, OutputWellFormed(o), UpdateOK(o, s),
               fees' = fees, PushOutput(o, NoRefund, s)
        PROVE  OutbidInductive'
    <3>1. ledger[o.name].age >= AuctionDuration
      BY <2>3 DEF UpdateOK, auction_is_closed
    <3>2. ledger[o.name] # NoRecord => ledger[o.name].age \in Nat
      <4>1. o.name \in Names  BY DEF ClaimOutputs
      <4>. QED  BY <4>1 DEF TypeOK, Records, Ages
    <3>3. ~(ledger'[out'.name] # NoRecord /\ ledger'[out'.name].age < AuctionDuration)
      <4>1. ledger' = ledger /\ out' = o
        BY <2>3 DEF PushOutput, blockVars
      <4>2. ~(ledger[o.name] # NoRecord /\ ledger[o.name].age < AuctionDuration)
        BY <3>1, <3>2, DurationAssumption
      <4>. QED  BY <4>1, <4>2
    <3>4. CurrentBidRefunds'
      BY <3>3 DEF CurrentBidRefunds
    <3>. QED  BY <1>0, <2>3, <3>4 DEF PushOutput, blockVars, OutbidPartyRefunded, IsBid
  <2>4. CASE AbortTx
    BY <1>0, <2>4 DEF AbortTx, EndTx, blockVars, OutbidPartyRefunded, IsBid,
                      CurrentBidRefunds
  <2>. QED  BY <1>3, <2>1, <2>2, <2>3, <2>4 DEF ValidateOutput
<1>4. CASE AcceptTx
  <2> DEFINE e == [in |-> input, out |-> out, refund |-> refund, sigs |-> sigs]
  <2>1. e \in Effects
    BY DEF Effects, TypeOK
  <2>2. /\ DOMAIN pending' = DOMAIN pending \cup {Len(pending) + 1}
        /\ \A i \in DOMAIN pending : pending'[i] = pending[i]
        /\ pending'[Len(pending) + 1] = e
    BY <1>4, <2>1, AppendIndex DEF AcceptTx, TypeOK
  <2>3. UNCHANGED ledger /\ out' = NoOutput
    BY <1>4 DEF AcceptTx, EndTx, blockVars
  <2>4. IsBid(e) => /\ e.refund # NoRefund
                    /\ e.refund.owner = e.in.owner
                    /\ e.refund.amount >= e.in.amount
    BY DEF IsBid, TxShape, CurrentBidRefunds
  <2>5. OutbidPartyRefunded'
    BY <2>2, <2>3, <2>4 DEF OutbidPartyRefunded, IsBid
  <2>. QED  BY <1>0, <1>4, <2>3, <2>5 DEF CurrentBidRefunds, AcceptTx
<1>5. CASE RejectTx
  BY <1>0, <1>5 DEF RejectTx, AbortTx, EndTx, blockVars, OutbidPartyRefunded,
                    IsBid, CurrentBidRefunds
<1>6. CASE NewBlock
  <2>1. DOMAIN pending' = {}
    BY <1>6 DEF NewBlock
  <2>2. out = NoOutput
    BY <1>6 DEF NewBlock
  <2>. QED  BY <1>0, <1>6, <2>1, <2>2 DEF NewBlock, txVars, OutbidPartyRefunded,
                                         CurrentBidRefunds
<1>7. CASE UNCHANGED vars
  BY <1>0, <1>7 DEF vars, txVars, OutbidPartyRefunded, IsBid, CurrentBidRefunds
<1>. QED  BY <1>1, <1>2, <1>3, <1>4, <1>5, <1>6, <1>7 DEF Next

\* Every accepted bid in an open auction (the open-auction branch of
\* validate_domain_output with its refund search) pays the owner of the
\* input it spends at least the amount that input had locked.
THEOREM OutbidRefunded == Spec => []OutbidPartyRefunded
<1>1. OutbidInductive => OutbidPartyRefunded
  BY DEF OutbidInductive
<1>. QED  BY <1>1, OutbidInit, OutbidNext, PTL DEF Spec

-----------------------------------------------------------------------------
(* One bid per open auction and block.                                     *)

\* The bid the current transaction carries is on a name that no accepted
\* bid of the block has touched.
CurrentBidNew ==
    (/\ seenIn /\ out # NoOutput
     /\ ledger[out.name] # NoRecord
     /\ ledger[out.name].age < AuctionDuration)
       => \A i \in DOMAIN pending :
             IsBid(pending[i]) => pending[i].out.name # out.name

OneBidInductive ==
    /\ FreshClaimsInductive
    /\ OneBidPerBlock
    /\ CurrentBidNew

\* A record's age is a natural number.
LEMMA RecordAge ==
    ASSUME TypeOK, NEW n \in Names, ledger[n] # NoRecord
    PROVE  ledger[n].age \in Nat
BY DEF TypeOK, Records, Ages

LEMMA OneBidInit == Init => OneBidInductive
<1> SUFFICES ASSUME Init PROVE OneBidInductive
  OBVIOUS
<1>1. FreshClaimsInductive  BY FreshInit
<1>2. DOMAIN pending = {} /\ out = NoOutput
  BY DEF Init
<1>. QED  BY <1>1, <1>2 DEF OneBidInductive, OneBidPerBlock, CurrentBidNew

LEMMA OneBidNext == OneBidInductive /\ [Next]_vars => OneBidInductive'
<1> SUFFICES ASSUME OneBidInductive, [Next]_vars PROVE OneBidInductive'
  OBVIOUS
<1> USE DEF OneBidInductive
<1>0. FreshClaimsInductive' /\ TypeOK /\ TxShape
  BY FreshNext DEF FreshClaimsInductive, TxShape
<1>1. CASE StartTx
  BY <1>0, <1>1 DEF StartTx, txVars, blockVars, OneBidPerBlock, IsBid, CurrentBidNew
<1>2. ASSUME NEW u \in utxos, ValidateInput(u) PROVE OneBidInductive'
  <2>1. out = NoOutput
    BY <1>2 DEF ValidateInput, FreshClaimsInductive
  <2>. QED  BY <1>0, <1>2, <2>1 DEF ValidateInput, AbortTx, EndTx, blockVars,
                                    OneBidPerBlock, IsBid, CurrentBidNew
<1>3. ASSUME NEW o \in ClaimOutputs, ValidateOutput(o) PROVE OneBidInductive'
  <2>0. o.name \in Names
    BY DEF ClaimOutputs
  <2>1. CASE OutputWellFormed(o) /\ NewAuctionOK(o) /\ fees' = fees
             /\ PushOutput(o, NoRefund, {})
    <3>1. ~seenIn'
      BY <2>1 DEF NewAuctionOK, PushOutput
    <3>. QED  BY <1>0, <2>1, <3>1 DEF PushOutput, blockVars, OneBidPerBlock,
                                     IsBid, CurrentBidNew
  <2>2. ASSUME NEW r \in SigOutputs, OutputWellFormed(o), BidOK(o, r),
               fees' = fees + (o.amount - AmountBack(input.amount, o.amount)),
               PushOutput(o, r, {})
        PROVE  OneBidInductive'
    <3>1. o.name \notin Range(pool)
      BY <2>2 DEF BidOK, name_is_available, InPool
    <3>2. \A i \in DOMAIN pending :
             pending[i].out # NoOutput => pending[i].out.name \in Range(pool)
      BY DEF FreshClaimsInductive
    <3>3. \A i \in DOMAIN pending : IsBid(pending[i]) => pending[i].out.name # o.name
      BY <3>1, <3>2 DEF IsBid
    <3>4. CurrentBidNew'
      <4>1. pending' = pending /\ ledger' = ledger /\ out' = o
        BY <2>2 DEF PushOutput, blockVars
      <4>. QED  BY <3>3, <4>1 DEF CurrentBidNew, IsBid
    <3>. QED  BY <1>0, <2>2, <3>4 DEF PushOutput, blockVars, OneBidPerBlock, IsBid
  <2>3. ASSUME NEW s \in SUBSET Keys, OutputWellFormed(o), UpdateOK(o, s),
               fees' = fees, PushOutput(o, NoRefund, s)
        PROVE  OneBidInductive'
    <3>1. ledger[o.name].age >= AuctionDuration
      BY <2>3 DEF UpdateOK, auction_is_closed
    <3>2. ledger[o.name] # NoRecord => ledger[o.name].age \in Nat
      BY <1>0, <2>0, RecordAge
    <3>3. ~(ledger'[out'.name] # NoRecord /\ ledger'[out'.name].age < AuctionDuration)
      <4>1. ledger' = ledger /\ out' = o
        BY <2>3 DEF PushOutput, blockVars
      <4>2. ~(ledger[o.name] # NoRecord /\ ledger[o.name].age < AuctionDuration)
        BY <3>1, <3>2, DurationAssumption
      <4>. QED  BY <4>1, <4>2
    <3>4. CurrentBidNew'
      BY <3>3, Zenon DEF CurrentBidNew
    <3>. QED  BY <1>0, <2>3, <3>4 DEF PushOutput, blockVars, OneBidPerBlock, IsBid
  <2>4. CASE AbortTx
    BY <1>0, <2>4 DEF AbortTx, EndTx, blockVars, OneBidPerBlock, IsBid, CurrentBidNew
  <2>. QED  BY <1>3, <2>1, <2>2, <2>3, <2>4 DEF ValidateOutput
<1>4. CASE AcceptTx
  <2> DEFINE e == [in |-> input, out |-> out, refund |-> refund, sigs |-> sigs]
  <2>1. e \in Effects
    BY <1>0 DEF Effects, TypeOK
  <2>2. /\ DOMAIN pending' = DOMAIN pending \cup {Len(pending) + 1}
        /\ Len(pending) + 1 \notin DOMAIN pending
        /\ \A i \in DOMAIN pending : pending'[i] = pending[i]
        /\ pending'[Len(pending) + 1] = e
    BY <1>0, <1>4, <2>1, AppendIndex DEF AcceptTx, TypeOK
  <2>3. UNCHANGED ledger /\ out' = NoOutput
    BY <1>4 DEF AcceptTx, EndTx, blockVars
  <2>4. IsBid(e) => \A i \in DOMAIN pending :
                       IsBid(pending[i]) => pending[i].out.name # e.out.name
    BY <1>0 DEF IsBid, TxShape, CurrentBidNew
  <2>5. OneBidPerBlock'
    BY <2>2, <2>3, <2>4 DEF OneBidPerBlock, IsBid
  <2>. QED  BY <1>0, <2>3, <2>5 DEF CurrentBidNew
<1>5. CASE RejectTx
  BY <1>0, <1>5 DEF RejectTx, AbortTx, EndTx, blockVars, OneBidPerBlock, IsBid,
                    CurrentBidNew
<1>6. CASE NewBlock
  <2>1. DOMAIN pending' = {}
    BY <1>6 DEF NewBlock
  <2>2. out = NoOutput
    BY <1>6 DEF NewBlock, FreshClaimsInductive
  <2>. QED  BY <1>0, <1>6, <2>1, <2>2 DEF NewBlock, txVars, OneBidPerBlock,
                                         CurrentBidNew
<1>7. CASE UNCHANGED vars
  BY <1>0, <1>7 DEF vars, txVars, OneBidPerBlock, IsBid, CurrentBidNew
<1>. QED  BY <1>1, <1>2, <1>3, <1>4, <1>5, <1>6, <1>7 DEF Next

\* An open auction takes at most one accepted bid per block: the pool
\* check of the bid branch sees every earlier bid of the block.
THEOREM OneBidSafe == Spec => []OneBidPerBlock
<1>1. OneBidInductive => OneBidPerBlock
  BY DEF OneBidInductive
<1>. QED  BY <1>1, OneBidInit, OneBidNext, PTL DEF Spec

=============================================================================
