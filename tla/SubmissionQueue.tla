---------------------------- MODULE SubmissionQueue ----------------------------
(***************************************************************************)
(* What a queue of submissions to an outside service promises, whoever     *)
(* works on it: a job is taken before it is delivered, is reported sent    *)
(* only after the service has accepted it, and once settled it stays so.   *)
(* Delivery is at least once: a job taken again may be delivered again.    *)
(***************************************************************************)
CONSTANT Jobs

VARIABLES
  job,        \* where each job is
  delivered   \* the jobs the outside service has accepted

Settled == {"sent", "skipped", "failed"}

Init == job = [j \in Jobs |-> "new"] /\ delivered = {}

Moves(J, from, to) ==
  /\ \A j \in J : job[j] \in from
  /\ job' = [j \in Jobs |-> IF j \in J THEN to ELSE job[j]]

\* A job is queued, or needs no delivery.
Submit(j) == \E to \in {"waiting", "skipped"} : Moves({j}, {"new"}, to) /\ UNCHANGED delivered

Take(j) == Moves({j}, {"waiting"}, "taken") /\ UNCHANGED delivered

\* The service accepts a job that was taken, even if it is withdrawn by now.
Deliver(j) == job[j] \in {"taken", "gone"} /\ delivered' = delivered \cup {j} /\ UNCHANGED job

Settle(j) ==
  \E to \in Settled :
    /\ to = "sent" => j \in delivered
    /\ Moves({j}, {"taken"}, to) /\ UNCHANGED delivered

\* A try has failed, or whoever took the jobs is gone.
GiveBack(J) == Moves(J, {"taken"}, "waiting") /\ UNCHANGED delivered

Withdraw(J) == Moves(J, {"waiting", "taken"} \cup Settled, "gone") /\ UNCHANGED delivered

Next ==
  \/ \E j \in Jobs : Submit(j) \/ Take(j) \/ Deliver(j) \/ Settle(j)
  \/ \E J \in SUBSET Jobs : GiveBack(J) \/ Withdraw(J)

Spec == Init /\ [][Next]_<<job, delivered>>
=============================================================================
