---------------------------- MODULE FiscalRegister ----------------------------
(***************************************************************************)
(* What a register of invoices promises, whoever writes to it: documents   *)
(* are entered one after the other under the next number of a year, a      *)
(* credit note within what is left of its invoice, and nothing is done to  *)
(* an entry afterwards but to void it.                                     *)
(***************************************************************************)
EXTENDS Integers, FiniteSetsExt

CONSTANTS
  Docs, Years,
  Entries,    \* what a document can say
  None        \* no entry

VARIABLES
  entry,      \* what each document says once it is entered
  last        \* the last number of each year

NotesOf(i) == {n \in Docs : entry[n] # None /\ entry[n].credits = i /\ entry[n].status = "ISSUED"}
Credited(i) == MapThenSumSet(LAMBDA n : entry[n].total, NotesOf(i))

\* The register is empty, or is taken over with one invoice.
Init ==
  \/ entry = [i \in Docs |-> None] /\ last = [y \in Years |-> 0]
  \/ \E d \in Docs, y \in Years, e \in Entries :
       /\ e.kind = "INVOICE" /\ e.status = "ISSUED" /\ e.year = y /\ e.number = 1
       /\ entry = [i \in Docs |-> IF i = d THEN e ELSE None]
       /\ last = [z \in Years |-> IF z = y THEN 1 ELSE 0]

WithinRemaining(e) ==
  /\ e.credits \in Docs /\ entry[e.credits] # None /\ entry[e.credits].kind = "INVOICE"
  /\ Credited(e.credits) + e.total <= entry[e.credits].total

Enter(d) ==
  \E y \in Years, e \in Entries :
    /\ entry[d] = None
    /\ e.status = "ISSUED" /\ e.year = y /\ e.number = last[y] + 1
    /\ e.kind = "CREDIT_NOTE" => WithinRemaining(e)
    /\ entry' = [entry EXCEPT ![d] = e] /\ last' = [last EXCEPT ![y] = e.number]

Void(d) == entry[d] # None /\ entry' = [entry EXCEPT ![d].status = "VOID"] /\ UNCHANGED last

Next == \E d \in Docs : Enter(d) \/ Void(d)

Spec == Init /\ [][Next]_<<entry, last>>
=============================================================================
