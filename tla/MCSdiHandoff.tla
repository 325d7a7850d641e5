------------------------------ MODULE MCSdiHandoff ------------------------------
(* Small instances of SdiHandoff for TLC. *)
EXTENDS SdiHandoff
=============================================================================
