-------------------------- MODULE MC_DnsValidator --------------------------
(* Small instance of DnsValidator for TLC.                                 *)
EXTENDS DnsValidator, TLC, FiniteSets

CONSTANTS n1, n2, k1, k2

MCNames == {n1}
MCKeys == {k1, k2}

\* Keys are compared only for equality, so renaming them is harmless.
KeySymmetry == Permutations(MCKeys)
\* Bound: unspent claim outputs kept by the ledger (stale outputs of
\* expired records accumulate; two are enough for a stale and a current one).
MaxUtxos == 2
UtxoBound == Cardinality(utxos) <= MaxUtxos
=============================================================================
