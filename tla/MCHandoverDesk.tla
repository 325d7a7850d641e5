----------------------------- MODULE MCHandoverDesk -----------------------------
(* Small instances of HandoverDesk for TLC. *)
EXTENDS HandoverDesk, TLC

To(status) == [Empty EXCEPT !.status = status]

\* Hand over, also with an override or for another customer; return with a
\* reading, correct it, clear it, and the other fields alone.
DeskPatches ==
  {To(status) : status \in Statuses}
    \cup {[To("IN_PROGRESS") EXCEPT !.override = o] : o \in {"set", "clear"}}
    \cup {[To("COMPLETED") EXCEPT !.km = k] : k \in Kms}
    \cup {[Empty EXCEPT !.km = k] : k \in Kms \cup {None}}
    \cup {[To("IN_PROGRESS") EXCEPT !.cust = c] : c \in Customers \cup {None}}
    \cup {[Empty EXCEPT !.cust = c] : c \in Customers}
    \cup {[Empty EXCEPT !.vehicle = v] : v \in Vehicles}
    \cup {[Empty EXCEPT !.override = "clear"]}

Symmetric == Permutations(Requests) \cup Permutations(Customers) \cup Permutations(Vehicles)
=============================================================================
