--------------------------- MODULE MCCryptoInvoices ---------------------------
(* Small instances of CryptoInvoices for TLC.  Amounts and prices are chosen  *)
(* so that one transaction pays for some prices only, two pay for all, and    *)
(* one more would overflow; prices are in halves of a minimal unit.           *)
EXTENDS CryptoInvoices, TLC

CONSTANTS t1, t2, a1

MCAccountOf == [t \in Txs |-> a1]
MCAmountOf == [t \in Txs |-> IF t = t1 THEN 3 ELSE 2]
CallSymmetry == Permutations(Calls)
===============================================================================
