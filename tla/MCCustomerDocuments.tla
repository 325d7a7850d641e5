-------------------------- MODULE MCCustomerDocuments --------------------------
(* Small instances of CustomerDocuments for TLC. *)
EXTENDS CustomerDocuments
=============================================================================
