--------------------------- MODULE MCStripePayments ---------------------------
(* Small instances of StripePayments for TLC. *)
EXTENDS StripePayments, FiniteSets, TLC

CONSTANTS r1, r2, d1, d2, p1, p2

Symmetric == Permutations({r1, r2}) \cup Permutations({d1, d2}) \cup Permutations({p1, p2})

\* Bound: two Checkout sessions at all, of either kind.
TwoSessions == Cardinality({s \in Sessions : stripe[s] # "none"}) <= 2

\* Bound: three Checkout sessions at all.  Those of one kind are made in order:
\* they are interchangeable.
ThreeSessions ==
  /\ Cardinality({s \in Sessions : stripe[s] # "none"}) <= 3
  /\ stripe[r2] # "none" => stripe[r1] # "none"
  /\ stripe[d2] # "none" => stripe[d1] # "none"
=============================================================================
