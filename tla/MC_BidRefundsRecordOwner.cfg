CONSTANTS
    n1 = n1
    n2 = n2
    k1 = k1
    k2 = k2
    Names <- MCNames
    Keys <- MCKeys
    MaxAmount = 2
    MinAmount = 1
    AuctionDuration = 1
    ClaimLifetime = 1
    BidIncPercent = 50
    RefundPercent = 50
    MaxTxPerBlock = 2
    NoRecord = NoRecord
    NoInput = NoInput
    NoOutput = NoOutput
    NoRefund = NoRefund
SPECIFICATION Spec
SYMMETRY KeySymmetry
CONSTRAINT UtxoBound
INVARIANT BidRefundsRecordOwner
