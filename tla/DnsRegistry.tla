----------------------------- MODULE DnsRegistry -----------------------------
(***************************************************************************)
(* What the domain registry promises about its committed state (spec 3,   *)
(* 4.1-4.4), seen one block at a time: the records of dns_db and the       *)
(* unspent claim outputs.  Nothing changes inside a block.  A block spends *)
(* some claim outputs and creates new ones; every new output is a valid    *)
(* claim whose name is free (no record, or an expired one), or else the    *)
(* block spends a claim output of the same name that it continues by the  *)
(* auction rules (a raised bid while the auction is open, an unchanged    *)
(* amount for a later plain update); each record either ages or is        *)
(* replaced by such an output.                                             *)
(***************************************************************************)
EXTENDS DnsData

VARIABLES
    records,   \* name -> record, or NoRecord
    coins      \* unspent claim outputs

regVars == <<records, coins>>

\* A fresh claim may take the name: there is no record, or it has expired.
Free(n) == records[n] = NoRecord \/ records[n].age > ClaimLifetime

\* An output that passes the ledger-independent checks.
Valid(o) == o.wf /\ is_valid_amount(o.amount)

\* The name's auction is still open.
Open(n) == records[n] # NoRecord /\ records[n].age < AuctionDuration

\* The bid rule for an output o that continues the spent claim output c of
\* its name: while the auction is open, c must be contested and o must
\* raise c's amount by the bid increment.
BidPriced(c, o) ==
    Open(o.name) => /\ c.state = PossiblyInAuction
                    /\ is_valid_bid_price(c.amount, o.amount)

\* The update rule: once the auction is closed, a plain update keeps c's
\* amount.
UpdatePriced(c, o) ==
    (~Open(o.name) /\ o.state = NotInAuction) => o.amount = c.amount

\* A new claim output is legal for a block that spends the outputs spend:
\* it takes a free name, or it continues, by the bid and update rules, a spent
\* claim output of its name.
Legal(o, spend) ==
    /\ Valid(o)
    /\ \/ Free(o.name)
       \/ \E c \in spend : c.name = o.name /\ BidPriced(c, o) /\ UpdatePriced(c, o)

\* A record one block later, when no output replaced it.
Aged(r) == IF r = NoRecord THEN NoRecord ELSE [out |-> r.out, age |-> Older(r.age)]

Init ==
    /\ records = [n \in Names |-> NoRecord]
    /\ coins = {}

\* One block is committed.
Commit ==
    \E spend \in SUBSET coins :
       /\ coins \ spend \subseteq coins'
       /\ \A o \in coins' \ (coins \ spend) : Legal(o, spend)
       /\ DOMAIN records' = Names
       /\ \A n \in Names :
             \/ records'[n] = Aged(records[n])
             \/ \E o \in coins' : /\ o.name = n
                                  /\ Legal(o, spend)
                                  /\ records'[n] = [out |-> o, age |-> 0]

Spec == Init /\ [][Commit]_regVars

=============================================================================
