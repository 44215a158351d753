--------------------------- MODULE MCFiatInvoices ---------------------------
(* Small instances of FiatInvoices for TLC: the constants are in the cfg.    *)
EXTENDS FiatInvoices
=============================================================================
