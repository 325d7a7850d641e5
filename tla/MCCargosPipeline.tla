--------------------------- MODULE MCCargosPipeline ---------------------------
(* Small instances of CargosPipeline for TLC. *)
EXTENDS CargosPipeline, TLC

\* Reservations and requests are interchangeable.
Symmetric == Permutations(Reservations) \cup Permutations(Senders)
=============================================================================
