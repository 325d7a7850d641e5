-------------------------------- MODULE MCInvoices --------------------------------
(* Small instances of Invoices for TLC. *)
EXTENDS Invoices, TLC

\* Requests are interchangeable.
Symmetric == Permutations(Requests)
=============================================================================
