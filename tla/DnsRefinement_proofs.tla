------------------------- MODULE DnsRefinement_proofs -------------------------
(***************************************************************************)
(* The validator implements the abstract registry: Spec => RegistrySpec,  *)
(* for every value of the constants that satisfies the ASSUMEs.            *)
(***************************************************************************)
EXTENDS DnsValidator_proofs

\* What the pending effects and the current transaction of a block hold for
\* the commit: every accepted output is legal for the outputs spent so far,
\* the current output will be legal once its input is spent, and staged
\* holds, for each name, one of the accepted outputs of that name.
RefineInv ==
    /\ TypeOK
    /\ TxShape
    /\ phase # "outputs" => out = NoOutput
    /\ phase = "idle" => input = NoInput
    /\ spent \subseteq utxos
    /\ input # NoInput => input \in utxos
    /\ \A i \in DOMAIN pending :
          pending[i].out # NoOutput => Registry!Legal(pending[i].out, spent)
    /\ out # NoOutput =>
          /\ Registry!Valid(out)
          /\ \/ Registry!Free(out.name)
             \/ /\ input # NoInput /\ input.name = out.name
                /\ Registry!BidPriced(input, out) /\ Registry!UpdatePriced(input, out)
    /\ \A n \in Names :
          staged[n] # NoOutput =>
             /\ staged[n].name = n
             /\ \E i \in DOMAIN pending : pending[i].out = staged[n]

-----------------------------------------------------------------------------
\* Spending more outputs keeps an output legal.
LEMMA LegalMono ==
    ASSUME NEW o, NEW S, NEW T, S \subseteq T, Registry!Legal(o, S)
    PROVE  Registry!Legal(o, T)
BY DEF Registry!Legal

\* The no-record-or-expired test of name_is_available is the registry's
\* notion of a free name.
LEMMA FreeIsNewOrExpired ==
    ASSUME NEW n
    PROVE  Registry!Free(n) <=> NewOrExpired(n)
BY DEF Registry!Free, NewOrExpired, HasDnsRecord

LEMMA RefineInit == Init => RefineInv
<1> SUFFICES ASSUME Init PROVE RefineInv
  OBVIOUS
<1>1. TypeOK /\ TxShape  BY TypeInit, TxShapeInit
<1>2. /\ DOMAIN pending = {} /\ out = NoOutput /\ input = NoInput
      /\ spent = {} /\ utxos = {} /\ staged = [n \in Names |-> NoOutput]
  BY DEF Init
<1>. QED  BY <1>1, <1>2 DEF RefineInv

LEMMA RefineNext == RefineInv /\ [Next]_vars => RefineInv'
<1> SUFFICES ASSUME RefineInv, [Next]_vars PROVE RefineInv'
  OBVIOUS
<1> USE DEF RefineInv, Registry!Legal, Registry!Free, Registry!Valid, Registry!BidPriced,
            Registry!UpdatePriced,
            Registry!Open
<1>0. TypeOK' /\ TxShape'
  BY TypeNext, TxShapeNext
<1>1. CASE StartTx
  BY <1>0, <1>1 DEF StartTx, txVars, blockVars
<1>2. ASSUME NEW u \in utxos, ValidateInput(u) PROVE RefineInv'
  <2>1. CASE /\ ~seenIn
             /\ input' = u
             /\ seenIn' = TRUE
             /\ UNCHANGED <<blockVars, pool, spent, pending, staged, txCount,
                            phase, seenOut, out, fees, refund, sigs>>
    <3>1. out = NoOutput /\ phase = "inputs"
      BY <1>2 DEF ValidateInput
    <3>. QED  BY <1>0, <2>1, <3>1 DEF blockVars
  <2>2. CASE AbortTx
    BY <1>0, <2>2 DEF AbortTx, EndTx, blockVars
  <2>. QED  BY <1>2, <2>1, <2>2 DEF ValidateInput
<1>3. ASSUME NEW o \in ClaimOutputs, ValidateOutput(o) PROVE RefineInv'
  <2>0. ASSUME NEW r, NEW s, PushOutput(o, r, s), OutputWellFormed(o),
               \/ Registry!Free(o.name)
               \/ /\ input # NoInput /\ input.name = o.name
                  /\ Registry!BidPriced(input, o) /\ Registry!UpdatePriced(input, o)
        PROVE  RefineInv'
    <3>1. Registry!Valid(o)
      BY <2>0 DEF OutputWellFormed, Registry!Valid, Registry!is_valid_amount, is_valid_amount
    <3>2. UNCHANGED <<ledger, utxos, spent, pending, staged, input>> /\ out' = o
          /\ phase' = "outputs"
      BY <2>0 DEF PushOutput, blockVars
    <3>. QED  BY <1>0, <2>0, <3>1, <3>2
  <2>1. CASE OutputWellFormed(o) /\ NewAuctionOK(o) /\ fees' = fees
             /\ PushOutput(o, NoRefund, {})
    <3>1. Registry!Free(o.name)
      BY <2>1, FreeIsNewOrExpired DEF NewAuctionOK
    <3>. QED  BY <2>1, <3>1, <2>0
  <2>2. ASSUME NEW r \in SigOutputs, OutputWellFormed(o), BidOK(o, r),
               fees' = fees + (o.amount - AmountBack(input.amount, o.amount)),
               PushOutput(o, r, {})
        PROVE  RefineInv'
    <3>1. input # NoInput /\ input.name = o.name
      BY <2>2 DEF BidOK, ContinuesInput, TxShape
    <3>2. /\ ledger[o.name] # NoRecord
          /\ ~(ledger[o.name].age >= AuctionDuration)
          /\ input.state = PossiblyInAuction
          /\ is_valid_bid_price(input.amount, o.amount)
      BY <2>2 DEF BidOK, ContinuesInput, NewOrExpired, HasDnsRecord, auction_is_closed
    <3>3. ledger[o.name].age \in Nat
      BY <3>2, RecordAge DEF ClaimOutputs
    <3>4. Registry!BidPriced(input, o) /\ Registry!UpdatePriced(input, o)
      BY <3>2, <3>3, DurationAssumption
         DEF Registry!is_valid_bid_price, is_valid_bid_price,
             Registry!PossiblyInAuction, PossiblyInAuction
    <3>. QED  BY <2>2, <3>1, <3>4, <2>0
  <2>3. ASSUME NEW s \in SUBSET Keys, OutputWellFormed(o), UpdateOK(o, s),
               fees' = fees, PushOutput(o, NoRefund, s)
        PROVE  RefineInv'
    <3>1. input # NoInput /\ input.name = o.name
      BY <2>3 DEF UpdateOK, ContinuesInput, TxShape
    <3>2. /\ ledger[o.name] # NoRecord
          /\ ledger[o.name].age >= AuctionDuration
          /\ o.state = NotInAuction => o.amount = input.amount
      BY <2>3 DEF UpdateOK, ContinuesInput, NewOrExpired, HasDnsRecord, auction_is_closed
    <3>3. ledger[o.name].age \in Nat
      BY <3>2, RecordAge DEF ClaimOutputs
    <3>4. Registry!BidPriced(input, o) /\ Registry!UpdatePriced(input, o)
      BY <3>2, <3>3, DurationAssumption DEF Registry!NotInAuction, NotInAuction
    <3>. QED  BY <2>3, <3>1, <3>4, <2>0
  <2>4. CASE AbortTx
    BY <1>0, <2>4 DEF AbortTx, EndTx, blockVars
  <2>. QED  BY <1>3, <2>1, <2>2, <2>3, <2>4 DEF ValidateOutput
<1>4. CASE AcceptTx
  <2> DEFINE e == [in |-> input, out |-> out, refund |-> refund, sigs |-> sigs]
  <2>1. e \in Effects
    BY DEF Effects, TypeOK
  <2>2. /\ DOMAIN pending' = DOMAIN pending \cup {Len(pending) + 1}
        /\ \A i \in DOMAIN pending : pending'[i] = pending[i]
        /\ pending'[Len(pending) + 1] = e
    BY <1>4, <2>1, AppendIndex DEF AcceptTx, TypeOK
  <2>3. /\ UNCHANGED <<ledger, utxos>>
        /\ out' = NoOutput /\ input' = NoInput /\ phase' = "idle"
        /\ spent \subseteq spent' /\ spent' \subseteq utxos
        /\ input # NoInput => input \in spent'
    BY <1>4 DEF AcceptTx, EndTx, blockVars
  <2>4. \A i \in DOMAIN pending' :
           pending'[i].out # NoOutput => Registry!Legal(pending'[i].out, spent')
    <3>1. \A i \in DOMAIN pending :
             pending[i].out # NoOutput => Registry!Legal(pending[i].out, spent')
      BY <2>3, LegalMono
    <3>2. out # NoOutput => Registry!Legal(out, spent')
      BY <2>3 DEF Registry!Legal, Registry!Free
    <3>. QED  BY <2>2, <2>3, <3>1, <3>2
  <2>5. \A n \in Names :
           staged'[n] # NoOutput =>
              /\ staged'[n].name = n
              /\ \E i \in DOMAIN pending' : pending'[i].out = staged'[n]
    <3>1. CASE out = NoOutput
      BY <1>4, <2>2, <3>1 DEF AcceptTx
    <3>2. CASE out # NoOutput
      <4>1. out \in ClaimOutputs /\ out.name \in Names
        BY <3>2 DEF TypeOK, ClaimOutputs
      <4>2. staged' = [staged EXCEPT ![out.name] = out]
        BY <1>4, <3>2 DEF AcceptTx
      <4>. QED  BY <2>2, <4>1, <4>2 DEF TypeOK
    <3>. QED  BY <3>1, <3>2
  <2>. QED  BY <1>0, <2>3, <2>4, <2>5
<1>5. CASE RejectTx
  BY <1>0, <1>5 DEF RejectTx, AbortTx, EndTx, blockVars
<1>6. CASE NewBlock
  <2>1. /\ DOMAIN pending' = {} /\ spent' = {}
        /\ staged' = [n \in Names |-> NoOutput]
        /\ UNCHANGED <<phase, out, input>>
    BY <1>6 DEF NewBlock, txVars
  <2>2. phase = "idle" /\ out = NoOutput /\ input = NoInput
    BY <1>6 DEF NewBlock
  <2>. QED  BY <1>0, <2>1, <2>2
<1>7. CASE UNCHANGED vars
  BY <1>0, <1>7 DEF vars, txVars
<1>. QED  BY <1>1, <1>2, <1>3, <1>4, <1>5, <1>6, <1>7 DEF Next

-----------------------------------------------------------------------------
\* The registry starts empty, as the validator's ledger and UTXO set do.
LEMMA RefineInitMap == Init => Registry!Init
BY DEF Init, Registry!Init

\* Only the commit of a block (NewBlock) changes the ledger or the UTXO set;
\* every step of a transaction is a stutter of the registry.
LEMMA TxStepsKeepLedger ==
    ASSUME [Next]_vars, ~NewBlock
    PROVE  UNCHANGED <<ledger, utxos>>
<1>1. CASE StartTx
  BY <1>1 DEF StartTx, blockVars
<1>2. CASE \E u \in utxos : ValidateInput(u)
  BY <1>2 DEF ValidateInput, AbortTx, blockVars
<1>3. CASE \E o \in ClaimOutputs : ValidateOutput(o)
  BY <1>3 DEF ValidateOutput, PushOutput, AbortTx, blockVars
<1>4. CASE AcceptTx \/ RejectTx
  BY <1>4 DEF AcceptTx, RejectTx, AbortTx, blockVars
<1>5. CASE UNCHANGED vars
  BY <1>5 DEF vars
<1>. QED  BY <1>1, <1>2, <1>3, <1>4, <1>5 DEF Next

\* The commit of a block is a Commit of the registry that spends the
\* block's spent outputs: the new outputs are the accepted ones, each legal
\* by RefineInv, and each record is either aged or replaced by the staged
\* output of its name.
LEMMA RefineStep == RefineInv /\ [Next]_vars => [Registry!Commit]_Registry!regVars
<1> SUFFICES ASSUME RefineInv, [Next]_vars
             PROVE  [Registry!Commit]_Registry!regVars
  OBVIOUS
<1>1. CASE NewBlock
  <2> DEFINE NewOuts == {pending[i].out : i \in {j \in DOMAIN pending :
                                                   pending[j].out # NoOutput}}
  <2>1. spent \in SUBSET utxos
    BY DEF RefineInv
  <2>2. utxos' = (utxos \ spent) \cup NewOuts
    BY <1>1 DEF NewBlock
  <2>3. \A o \in utxos' \ (utxos \ spent) : Registry!Legal(o, spent)
    BY <2>2 DEF RefineInv
  <2>4. DOMAIN ledger' = Names
    BY <1>1 DEF NewBlock
  <2>5. ASSUME NEW n \in Names
        PROVE  \/ ledger'[n] = Registry!Aged(ledger[n])
               \/ \E o \in utxos' : /\ o.name = n
                                    /\ Registry!Legal(o, spent)
                                    /\ ledger'[n] = [out |-> o, age |-> 0]
    <3>1. CASE staged[n] # NoOutput
      <4>1. PICK i \in DOMAIN pending : pending[i].out = staged[n]
        BY <3>1 DEF RefineInv
      <4>2. staged[n] \in utxos'
        BY <2>2, <3>1, <4>1
      <4>3. Registry!Legal(staged[n], spent) /\ staged[n].name = n
        BY <3>1, <4>1 DEF RefineInv
      <4>4. ledger'[n] = [out |-> staged[n], age |-> 0]
        BY <1>1, <3>1 DEF NewBlock
      <4>. QED  BY <4>2, <4>3, <4>4
    <3>2. CASE staged[n] = NoOutput
      BY <1>1, <3>2 DEF NewBlock, Registry!Aged, Registry!Older, Older,
                        Registry!AgeCap, AgeCap
    <3>. QED  BY <3>1, <3>2
  <2>6. \E spend \in SUBSET utxos :
           /\ utxos \ spend \subseteq utxos'
           /\ \A o \in utxos' \ (utxos \ spend) : Registry!Legal(o, spend)
           /\ DOMAIN ledger' = Names
           /\ \A n \in Names :
                 \/ ledger'[n] = Registry!Aged(ledger[n])
                 \/ \E o \in utxos' : /\ o.name = n
                                      /\ Registry!Legal(o, spend)
                                      /\ ledger'[n] = [out |-> o, age |-> 0]
    BY <2>1, <2>2, <2>3, <2>4, <2>5
  <2>. QED  BY <2>6 DEF Registry!Commit
<1>2. CASE ~NewBlock
  BY <1>2, TxStepsKeepLedger DEF Registry!regVars
<1>. QED  BY <1>1, <1>2

(***************************************************************************)
(* The validator implements the abstract registry (RegistrySpec): seen at  *)
(* block boundaries, the ledger and claim outputs that dns_db and the      *)
(* generic validator commit only ever replace a record by a valid claim    *)
(* output whose name was free or whose earlier claim output the block      *)
(* spent.                                                                  *)
(***************************************************************************)
THEOREM Refinement == Spec => RegistrySpec
<1>1. Spec => []RefineInv
  BY RefineInit, RefineNext, PTL DEF Spec
<1>. QED  BY <1>1, RefineInitMap, RefineStep, PTL DEF Spec, RegistrySpec, Registry!Spec

=============================================================================
