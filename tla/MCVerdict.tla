----------------------------- MODULE MCVerdict -----------------------------
(* Two schedulers for Poller.  The queue of the cfg's one goes on listing   *)
(* jobs that have ended and the server restarts; that of the other one (L)  *)
(* drops them at once, and an exception may cut a poll cycle short.         *)
EXTENDS Poller

VARIABLE part

L == INSTANCE Poller WITH
        QueueShowsEnd <- FALSE, Faults <- {"queue_raises", "stats_down", "dropped"},
        MaxRestarts <- 0

MCInit == Init /\ part \in {"listed", "dropped"}

MCNext ==
    \/ /\ part = "listed" /\ Next
       /\ UNCHANGED part
    \/ /\ part = "dropped" /\ L!Next
       /\ UNCHANGED part

MCSpec == MCInit /\ [][MCNext]_<<vars, part>>

-----------------------------------------------------------------------------
(* A SETTLING item gets a verdict.  (Under the other scheduler it does not  *)
(* if it turned SETTLING while its job was listed: finished_at is not set   *)
(* then, so that it waits for an accounting row without a limit.)           *)
FairSettlingResolves == part = "dropped" /\ L!Fairness => SettlingResolves

(* Under either scheduler what accounting knows is what the item says.      *)
FairTruthPrevails ==
    (part = "listed" /\ Fairness) \/ (part = "dropped" /\ L!Fairness) => TruthPrevails
=============================================================================
