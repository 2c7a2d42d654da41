---------------------------- MODULE PollerProofs ----------------------------
(***************************************************************************)
(* Proofs about Poller for any failure and terminal states, any outcomes,  *)
(* any faults and any number of restarts.                                  *)
(*                                                                         *)
(* WorldInv says what the world and the poll cycle's snapshot of it have   *)
(* in common, EvidenceInv on what evidence an item rests, QueueInv what    *)
(* the queue's silence means when the queue can be trusted.  The item in   *)
(* memory and its copy in the file satisfy the same conditions, which is   *)
(* what a restart needs.                                                   *)
(***************************************************************************)
EXTENDS Poller, TLAPS

(* What ended a job is known from the end on, and what accounting and the  *)
(* queue say of the end is true.                                           *)
WorldInv ==
    /\ outcome # None <=> job \in {"ended", "gone"}
    /\ row \in {None, "RUNNING", outcome}
    /\ poll.stats \in {None, "RUNNING", outcome}
    /\ poll.listed # None => job \notin {"accepted", "dropped"}
    /\ poll.listed \in {"completed", "failed"} => job \in {"ended", "gone"}
    /\ poll.listed = "failed" => outcome \in FailureStates

(* On what an item's status rests.                                         *)
Grounds(i) ==
    /\ i.state # None =>
          /\ i.status \in Terminal
          /\ i.error # "no_record" => (i.status = "completed" <=> i.state = "COMPLETED")
    /\ i.status = "completed" => i.state # None \/ i.error = "unconfirmed"
    /\ i.status = "failed" => i.error \in {"scheduler", "no_record", "disappeared"}
    /\ i.status = "failed" /\ i.error = "scheduler" => outcome \in FailureStates
    /\ i.error = "disappeared" => job = "gone"

(* Accounting is only asked about an item it has not confirmed.            *)
EvidenceInv ==
    /\ Grounds(item)
    /\ Grounds(saved)
    /\ poll.at \in {"asked", "answered"} /\ poll.asked =>
          item.state = None /\ item.status \notin {"queued", "running"}
    /\ poll.at = "answered" /\ poll.stats # None => poll.asked

Ended(i) ==
    /\ i.status \in {"completed", "settling"} => ~InQueue
    /\ i.status \in {"queued", "running"} => job \notin {"accepted", "dropped"}

(* The queue can be trusted: it never answers falsely, and no item is      *)
(* looked up in a queue not read since the restart.                        *)
Trusted ==
    /\ "queue_down" \notin Faults
    /\ "queue_raises" \notin Faults \/ MaxRestarts = 0

QueueInv ==
    /\ Ended(item)
    /\ Ended(saved)
    /\ poll.listed = None /\ (poll.at # "idle" \/ MaxRestarts = 0)
          /\ item.status \in {"queued", "running"} => ~InQueue

RecordInv ==
    /\ submitAge = 2 => job # "accepted"
    /\ poll.listed = None /\ submitAge = 2 /\ poll.at \in {"listed", "asked", "answered"}
          => ~InQueue
    /\ poll.at \in {"asked", "answered"} /\ poll.age = 2 => submitAge = 2
    /\ item.error = "no_record" => ~InQueue
    /\ saved.error = "no_record" => ~InQueue

-----------------------------------------------------------------------------
LEMMA TypeInit == Init => TypeOK
<1> SUFFICES ASSUME Init PROVE TypeOK
  OBVIOUS
<1> USE PollerAssumption DEF None
<1>1. Submitted \in RunItem /\ Disappeared \in RunItem
  BY DEF RunItem, Submitted, Disappeared
<1>2. item \in RunItem /\ saved \in RunItem
  BY <1>1 DEF Init
<1> QED
  BY <1>2 DEF Init, TypeOK, JobState, PollIdle, PollCycle

(* What accounting answers may be recorded, and the decisions are items.   *)
LEMMA DecidedType ==
    ASSUME TypeOK
    PROVE  /\ Recorded \in RunItem
           /\ Decided \in RunItem
           /\ TimedOut \in RunItem
           /\ Updated \in RunItem
<1>1. item \in RunItem
  BY DEF TypeOK
<1>2. Recorded \in RunItem
  BY <1>1 DEF Recorded, RunItem
<1>3. Decided \in RunItem
  BY <1>2 DEF Decided, RunItem
<1>4. TimedOut \in RunItem
  BY <1>1 DEF TimedOut, RunItem
<1>5. Updated \in RunItem
  BY <1>1 DEF Updated, RunItem
<1> QED
  BY <1>2, <1>3, <1>4, <1>5

LEMMA TypeStep == TypeOK /\ [Next]_vars => TypeOK'
<1> SUFFICES ASSUME TypeOK, [Next]_vars PROVE TypeOK'
  OBVIOUS
<1> USE PollerAssumption DEF None
<1>1. CASE World
  BY <1>1 DEF World, JobListed, JobDropped, JobStarts, JobEnds, JobLeaves, RowAppears,
              RowCloses, SubmitAges, SettleAges, ItemKept, TypeOK
<1>2. CASE PollQueue
  <2>1. QueueView \subseteq JobState \cup {None}
    BY DEF QueueView, JobState
  <2>0. poll \in PollCycle
    BY DEF TypeOK
  <2>2. poll' \in PollCycle
    <3>1. CASE \E seen \in QueueView :
                 poll' = [poll EXCEPT !.at = "listed", !.listed = seen]
      <4>1. PICK seen \in JobState \cup {None} :
              poll' = [poll EXCEPT !.at = "listed", !.listed = seen]
        BY <2>1, <3>1
      <4> QED
        BY <2>0, <4>1 DEF PollCycle
    <3>2. CASE poll' = [poll EXCEPT !.at = "listed", !.listed = None]
      BY <2>0, <3>2 DEF PollCycle
    <3>3. CASE poll' = [poll EXCEPT !.at = "resolved"]
      BY <2>0, <3>3 DEF PollCycle
    <3> QED
      BY <1>2, <3>1, <3>2, <3>3 DEF PollQueue
  <2> QED
    BY <1>2, <2>2 DEF PollQueue, WorldKept, TypeOK
<1>3. CASE PollAsk
  <2>1. poll' \in PollCycle
    BY <1>3 DEF PollAsk, WantsStats, TypeOK, PollCycle
  <2> QED
    BY <1>3, <2>1 DEF PollAsk, WorldKept, TypeOK
<1>4. CASE PollStats
  <2>0. poll \in PollCycle /\ row \in Outcomes \cup {None, "RUNNING"}
    BY DEF TypeOK
  <2>a. PICK answer \in Outcomes \cup {None, "RUNNING"} :
          poll' = [poll EXCEPT !.at = "answered", !.stats = answer]
    BY <1>4, <2>0 DEF PollStats
  <2>1. poll' \in PollCycle
    BY <2>0, <2>a DEF PollCycle
  <2> QED
    BY <1>4, <2>1 DEF PollStats, WorldKept, TypeOK
<1>5. CASE PollResolve
  <2>1. poll' \in PollCycle
    BY <1>5 DEF PollResolve, TypeOK, PollCycle
  <2> QED
    BY <1>5, <2>1, DecidedType DEF PollResolve, WorldKept, TypeOK
<1>6. CASE PollUpdate
  <2>1. poll' \in PollCycle
    BY <1>6 DEF PollUpdate, TypeOK, PollCycle
  <2>2. settleAge' \in 0 .. 1
    BY <1>6 DEF PollUpdate, TypeOK
  <2> QED
    BY <1>6, <2>1, <2>2, DecidedType DEF PollUpdate, WorldKept, TypeOK
<1>7. CASE PollSave
  <2>1. poll' \in PollCycle
    <3>1. PollIdle \in PollCycle
      BY DEF PollIdle, PollCycle
    <3> QED
      BY <1>7, <3>1 DEF PollSave, TypeOK, PollCycle
  <2> QED
    BY <1>7, <2>1 DEF PollSave, WorldKept, TypeOK
<1>8. CASE Restart
  <2>1. poll' \in PollCycle
    BY <1>8 DEF Restart, PollIdle, PollCycle
  <2>2. settleAge' \in 0 .. 1
    BY <1>8 DEF Restart, TypeOK
  <2> QED
    BY <1>8, <2>1, <2>2 DEF Restart, TypeOK
<1>9. CASE UNCHANGED vars
  BY <1>9 DEF vars, TypeOK
<1> QED
  BY <1>1, <1>2, <1>3, <1>4, <1>5, <1>6, <1>7, <1>8, <1>9 DEF Next, PollStep

(* The state of the poller has its type.                                   *)
THEOREM PollerTypeCorrect == Spec => []TypeOK
BY TypeInit, TypeStep, PTL DEF Spec

-----------------------------------------------------------------------------
LEMMA WorldInit == Init => WorldInv
BY PollerAssumption DEF Init, WorldInv, PollIdle, Disappeared, Submitted, None

LEMMA WorldStep == TypeOK /\ WorldInv /\ [Next]_vars => WorldInv'
<1> SUFFICES ASSUME TypeOK, WorldInv, [Next]_vars PROVE WorldInv'
  OBVIOUS
<1> USE PollerAssumption DEF None
<1>1. CASE World
  BY <1>1 DEF World, JobListed, JobDropped, JobStarts, JobEnds, JobLeaves, RowAppears,
              RowCloses, SubmitAges, SettleAges, ItemKept, TypeOK, PollCycle, WorldInv
<1>2. CASE PollQueue
  <2>1. PICK seen \in QueueView \cup {None, poll.listed} : poll'.listed = seen
    BY <1>2 DEF PollQueue, TypeOK, PollCycle
  <2>2. poll'.stats = poll.stats
    BY <1>2 DEF PollQueue, TypeOK, PollCycle
  <2> QED
    BY <1>2, <2>1, <2>2 DEF PollQueue, QueueView, WorldKept, TypeOK, PollCycle, WorldInv
<1>3. CASE PollAsk
  BY <1>3 DEF PollAsk, WorldKept, TypeOK, PollCycle, WorldInv
<1>4. CASE PollStats
  <2>1. poll'.listed = poll.listed
    BY <1>4 DEF PollStats, TypeOK, PollCycle
  <2>2. poll'.stats \in {row, None}
    BY <1>4 DEF PollStats, TypeOK, PollCycle
  <2> QED
    BY <1>4, <2>1, <2>2 DEF PollStats, WorldKept, WorldInv
<1>5. CASE PollResolve
  BY <1>5 DEF PollResolve, WorldKept, TypeOK, PollCycle, WorldInv
<1>6. CASE PollUpdate
  BY <1>6 DEF PollUpdate, WorldKept, TypeOK, PollCycle, WorldInv
<1>7. CASE PollSave
  BY <1>7 DEF PollSave, PollIdle, WorldKept, TypeOK, PollCycle, WorldInv
<1>8. CASE Restart
  BY <1>8 DEF Restart, PollIdle, TypeOK, PollCycle, WorldInv
<1>9. CASE UNCHANGED vars
  BY <1>9 DEF vars, WorldInv
<1> QED
  BY <1>1, <1>2, <1>3, <1>4, <1>5, <1>6, <1>7, <1>8, <1>9 DEF Next, PollStep

-----------------------------------------------------------------------------
(* Accounting ends in a failure state or in COMPLETED.  Without this a     *)
(* SETTLING item may be confirmed and stay SETTLING.                       *)
Decisive == Outcomes \subseteq FailureStates \cup {"COMPLETED"}

LEMMA EvidenceInit == Init => EvidenceInv
BY PollerAssumption
   DEF Init, EvidenceInv, Grounds, Submitted, Disappeared, PollIdle, Terminal, None

(* Every branch of the accounting pass leaves a verdict with its grounds.  *)
LEMMA ResolveGrounds ==
    ASSUME Decisive, TypeOK, WorldInv, EvidenceInv, poll.at = "answered"
    PROVE  /\ poll.stats # None => Grounds(Decided)
           /\ Grounds(TimedOut)
<1> USE PollerAssumption DEF None
<1> item \in RunItem /\ poll.stats \in Outcomes \cup {None, "RUNNING"}
  BY DEF TypeOK, PollCycle
<1>1. ASSUME poll.stats # None PROVE Grounds(Decided)
  <2>1. item.state = None /\ item.status \notin {"queued", "running"}
    BY <1>1 DEF EvidenceInv
  <2>2. Grounds(item)
    BY DEF EvidenceInv
  <2>3. /\ Recorded \in RunItem
        /\ Recorded.status = item.status /\ Recorded.error = item.error
        /\ Recorded.state = IF poll.stats = "RUNNING" THEN None ELSE poll.stats
    BY <1>1, <2>1, DecidedType DEF Recorded, RunItem
  <2>4. CASE poll.stats = "RUNNING"
    <3>1. Decided = Recorded
      BY <2>4 DEF Decided
    <3> QED
      BY <2>2, <2>3, <2>4, <3>1, <2>1 DEF Grounds
  <2>5. CASE poll.stats \in FailureStates
    <3>1. poll.stats = outcome /\ poll.stats # "COMPLETED" /\ poll.stats # "RUNNING"
      BY <1>1, <2>5 DEF WorldInv
    <3>2. CASE item.status = "failed"
      <4>1. Decided = Recorded
        BY <2>5, <3>1, <3>2 DEF Decided
      <4> QED
        BY <2>2, <2>3, <3>1, <3>2, <4>1, <2>5 DEF Grounds, Terminal
    <3>3. CASE item.status # "failed"
      <4>1. Decided = [Recorded EXCEPT !.status = "failed", !.error = "scheduler"]
        BY <2>1, <2>5, <3>3 DEF Decided, RunItem
      <4>2. /\ Decided.status = "failed" /\ Decided.error = "scheduler"
            /\ Decided.state = outcome
        BY <4>1, <2>3, <3>1 DEF RunItem
      <4> QED
        BY <4>2, <3>1, <2>5 DEF Grounds, Terminal
    <3> QED
      BY <3>2, <3>3
  <2>6. CASE poll.stats = "COMPLETED"
    <3>1. /\ poll.stats = outcome /\ poll.stats \notin FailureStates
          /\ poll.stats # "RUNNING"
      BY <1>1, <2>6 DEF WorldInv
    <3>2. CASE item.status \in {"settling", "submitted"}
      <4>1. Decided = [Recorded EXCEPT !.status = "completed"]
        BY <3>1, <3>2, <2>6 DEF Decided
      <4>2. /\ Decided.status = "completed" /\ Decided.error = item.error
            /\ Decided.state = "COMPLETED"
        BY <4>1, <2>3, <2>6, <3>1 DEF RunItem
      <4> QED
        BY <4>2, <2>2, <3>1 DEF Grounds, Terminal
    <3>3. CASE item.status = "failed" /\ item.error = "disappeared"
      <4>1. Decided = [Recorded EXCEPT !.status = "completed", !.error = None]
        BY <3>1, <3>3, <2>6 DEF Decided
      <4>2. /\ Decided.status = "completed" /\ Decided.error = None
            /\ Decided.state = "COMPLETED"
        BY <4>1, <2>3, <2>6, <3>1 DEF RunItem
      <4> QED
        BY <4>2, <3>1 DEF Grounds, Terminal
    <3>4. CASE /\ item.status \in Terminal
               /\ item.status = "failed" => item.error # "disappeared"
      <4>1. Decided = Recorded
        BY <3>1, <3>4, <2>6 DEF Decided, Terminal
      <4> QED
        BY <2>2, <2>3, <3>1, <3>4, <4>1, <2>6 DEF Grounds, Terminal
    <3> QED
      BY <2>1, <3>2, <3>3, <3>4 DEF RunItem, Terminal
  <2> QED
    BY <1>1, <2>4, <2>5, <2>6 DEF Decisive
<1>2. Grounds(TimedOut)
  BY DEF EvidenceInv, Grounds, TimedOut, RunItem, Terminal
<1> QED
  BY <1>1, <1>2

LEMMA UpdateGrounds ==
    ASSUME TypeOK, WorldInv, EvidenceInv
    PROVE  Grounds(Updated)
<1> USE PollerAssumption DEF None
<1> item \in RunItem
  BY DEF TypeOK, PollCycle
<1>1. Grounds(item)
  BY DEF EvidenceInv
<1>2. CASE Updated = item
  BY <1>1, <1>2
<1>3. CASE Updated = [item EXCEPT !.status = "failed", !.error = "scheduler",
                                  !.finished = TRUE]
           /\ poll.listed = "failed" /\ item.status \notin Terminal
  <2>1. /\ Updated.status = "failed" /\ Updated.error = "scheduler"
        /\ Updated.state = None /\ outcome \in FailureStates
    BY <1>1, <1>3 DEF WorldInv, Grounds, RunItem
  <2> QED
    BY <2>1 DEF Grounds
<1>4. ASSUME NEW s \in {"settling", "running", "queued"}, item.status \notin Terminal,
             Updated.status = s, Updated.state = item.state, Updated.error = item.error
      PROVE  Grounds(Updated)
  BY <1>1, <1>4 DEF Grounds, Terminal
<1>5. CASE item.status \notin Terminal /\ poll.listed # "failed"
  <2>1. \/ Updated = item
        \/ /\ Updated.status \in {"settling", "running", "queued"}
           /\ Updated.state = item.state /\ Updated.error = item.error
    BY <1>5 DEF Updated, RunItem
  <2> QED
    BY <2>1, <1>2, <1>4, <1>5
<1>6. CASE item.status \notin Terminal /\ poll.listed = "failed"
  BY <1>3, <1>6 DEF Updated
<1>7. CASE item.status \in Terminal
  BY <1>2, <1>7 DEF Updated
<1> QED
  BY <1>5, <1>6, <1>7

LEMMA EvidenceStep ==
    ASSUME Decisive, TypeOK, WorldInv, EvidenceInv, [Next]_vars
    PROVE  EvidenceInv'
<1> USE PollerAssumption DEF None
<1> item \in RunItem /\ saved \in RunItem
  BY DEF TypeOK, PollCycle
<1> Grounds(item) /\ Grounds(saved)
  BY DEF EvidenceInv
<1>1. CASE World
  <2>1. UNCHANGED <<item, saved, poll>>
    BY <1>1 DEF World, JobListed, JobDropped, JobStarts, JobEnds, JobLeaves, RowAppears,
                RowCloses, SubmitAges, SettleAges, ItemKept
  <2>2. \/ UNCHANGED <<outcome, job>>
        \/ job # "gone" /\ outcome = None
        \/ job' = "gone" /\ outcome' = outcome
    BY <1>1 DEF World, JobListed, JobDropped, JobStarts, JobEnds, JobLeaves, RowAppears,
                RowCloses, SubmitAges, SettleAges, WorldInv
  <2>3. Grounds(item)' /\ Grounds(saved)'
    BY <2>1, <2>2 DEF Grounds
  <2> QED
    BY <2>1, <2>3 DEF EvidenceInv
<1>2. CASE PollQueue
  <2>1. UNCHANGED <<item, saved, job, outcome>> /\ poll'.at \in {"listed", "resolved"}
    BY <1>2 DEF PollQueue, WorldKept, TypeOK, PollCycle
  <2> QED
    BY <2>1 DEF EvidenceInv, Grounds
<1>3. CASE PollAsk
  <2>1. /\ UNCHANGED <<item, saved, job, outcome>> /\ poll'.at = "asked"
        /\ poll'.asked = WantsStats
    BY <1>3 DEF PollAsk, WorldKept, TypeOK, PollCycle
  <2>2. WantsStats => item.state = None /\ item.status \notin {"queued", "running"}
    BY DEF WantsStats, Grounds, Terminal
  <2> QED
    BY <2>1, <2>2 DEF EvidenceInv, Grounds
<1>4. CASE PollStats
  <2>1. /\ UNCHANGED <<item, saved, job, outcome>> /\ poll.at = "asked"
        /\ poll'.at = "answered" /\ poll'.asked = poll.asked
        /\ poll'.stats # None => poll.asked
    BY <1>4 DEF PollStats, WorldKept, TypeOK, PollCycle
  <2> QED
    BY <2>1 DEF EvidenceInv, Grounds
<1>5. CASE PollResolve
  <2>1. /\ UNCHANGED <<saved, job, outcome>> /\ poll.at = "answered"
        /\ poll'.at = "resolved" /\ item' = IF poll.stats # None THEN Decided ELSE TimedOut
    BY <1>5 DEF PollResolve, WorldKept, TypeOK, PollCycle
  <2>2. Grounds(item')
    BY <2>1, ResolveGrounds
  <2>3. Grounds(item)' /\ Grounds(saved)'
    BY <2>1, <2>2 DEF Grounds
  <2> QED
    BY <2>1, <2>3 DEF EvidenceInv
<1>6. CASE PollUpdate
  <2>1. /\ UNCHANGED <<saved, job, outcome>> /\ poll'.at = "updated" /\ item' = Updated
    BY <1>6 DEF PollUpdate, WorldKept, TypeOK, PollCycle
  <2>2. Grounds(item')
    BY <2>1, UpdateGrounds
  <2>3. Grounds(item)' /\ Grounds(saved)'
    BY <2>1, <2>2 DEF Grounds
  <2> QED
    BY <2>1, <2>3 DEF EvidenceInv
<1>7. CASE PollSave
  BY <1>7 DEF PollSave, PollIdle, WorldKept, EvidenceInv, Grounds
<1>8. CASE Restart
  BY <1>8 DEF Restart, PollIdle, EvidenceInv, Grounds
<1>9. CASE UNCHANGED vars
  BY <1>9 DEF vars, EvidenceInv, Grounds
<1> QED
  BY <1>1, <1>2, <1>3, <1>4, <1>5, <1>6, <1>7, <1>8, <1>9 DEF Next, PollStep

(* Whatever fails, and however often the server restarts, a confirmed      *)
(* verdict agrees with accounting.                                         *)
THEOREM Confirmed ==
    ASSUME Decisive
    PROVE  Spec => []ConfirmedAgrees
<1>1. Init => TypeOK /\ WorldInv /\ EvidenceInv
  BY TypeInit, WorldInit, EvidenceInit
<1>2. TypeOK /\ WorldInv /\ EvidenceInv /\ [Next]_vars => (TypeOK /\ WorldInv /\ EvidenceInv)'
  BY TypeStep, WorldStep, EvidenceStep
<1>3. EvidenceInv => ConfirmedAgrees
  BY DEF EvidenceInv, Grounds, ConfirmedAgrees, Agrees
<1> QED
  BY <1>1, <1>2, <1>3, PTL DEF Spec

(* And a COMPLETED item is only taken back if it was not confirmed.        *)
THEOREM VerdictsStand ==
    ASSUME Decisive
    PROVE  Spec => VerdictStands
<1>1. Init => TypeOK /\ WorldInv /\ EvidenceInv
  BY TypeInit, WorldInit, EvidenceInit
<1>2. TypeOK /\ WorldInv /\ EvidenceInv /\ [Next]_vars => (TypeOK /\ WorldInv /\ EvidenceInv)'
  BY TypeStep, WorldStep, EvidenceStep
<1>3. ASSUME TypeOK, WorldInv, EvidenceInv, Next,
             item.status = "completed", item'.status # "completed"
      PROVE  item.error = "unconfirmed" \/ restarts' # restarts
  <2>1. item \in RunItem /\ Grounds(item)
    BY <1>3 DEF TypeOK, EvidenceInv
  <2>2. CASE Restart
    BY <2>2, <1>3 DEF Restart, TypeOK
  <2>3. CASE PollResolve
    <3>1. ASSUME poll.stats # None PROVE item.state = None
      BY <2>3, <3>1, <1>3 DEF PollResolve, EvidenceInv
    <3>2. ASSUME poll.stats = None PROVE item' = item
      BY <2>3, <3>2, <1>3 DEF PollResolve, TimedOut
    <3> QED
      BY <3>1, <3>2, <2>1, <1>3, Zenon DEF Grounds
  <2>4. CASE PollUpdate
    BY <2>4, <1>3 DEF PollUpdate, Updated, Terminal
  <2>5. CASE World \/ PollQueue \/ PollAsk \/ PollStats \/ PollSave
    BY <2>5, <1>3 DEF World, JobListed, JobDropped, JobStarts, JobEnds, JobLeaves, RowAppears,
                RowCloses, SubmitAges, SettleAges, ItemKept, PollQueue, PollAsk, PollStats,
                PollSave
  <2> QED
    BY <2>2, <2>3, <2>4, <2>5, <1>3 DEF Next, PollStep
<1>4. TypeOK /\ WorldInv /\ EvidenceInv /\ [Next]_vars =>
        [item.status = "completed" /\ item'.status # "completed" =>
           item.error = "unconfirmed" \/ restarts' # restarts]_vars
  BY <1>3
<1> QED
  BY <1>1, <1>2, <1>4, PTL DEF Spec, VerdictStands

-----------------------------------------------------------------------------
LEMMA QueueInit == Init => QueueInv
BY DEF Init, QueueInv, Ended, InQueue, Submitted, Disappeared

LEMMA QueueStep ==
    ASSUME Trusted, TypeOK, WorldInv, QueueInv, [Next]_vars
    PROVE  QueueInv'
<1> USE PollerAssumption DEF None
<1> item \in RunItem /\ saved \in RunItem
  BY DEF TypeOK
<1> Ended(item) /\ Ended(saved)
  BY DEF QueueInv
<1>1. CASE World
  <2>1. UNCHANGED <<item, saved, poll>>
    BY <1>1 DEF World, JobListed, JobDropped, JobStarts, JobEnds, JobLeaves, RowAppears,
                RowCloses, SubmitAges, SettleAges, ItemKept
  <2>2. /\ ~InQueue => ~InQueue'
        /\ job \notin {"accepted", "dropped"} => job' \notin {"accepted", "dropped"}
    BY <1>1 DEF World, JobListed, JobDropped, JobStarts, JobEnds, JobLeaves, RowAppears,
                RowCloses, SubmitAges, SettleAges, ItemKept, InQueue
  <2> QED
    BY <2>1, <2>2 DEF QueueInv, Ended
<1>2. CASE PollQueue
  <2>1. UNCHANGED <<item, saved, job>>
    BY <1>2 DEF PollQueue, WorldKept
  <2>2. \/ poll'.listed \in QueueView
        \/ poll'.listed = poll.listed /\ MaxRestarts = 0
    BY <1>2 DEF PollQueue, Trusted, TypeOK, PollCycle
  <2>3. None \in QueueView => job \notin {"pending", "running"}
    BY DEF QueueView
  <2> QED
    BY <2>1, <2>2, <2>3 DEF QueueInv, Ended, InQueue
<1>3. CASE PollAsk
  BY <1>3 DEF PollAsk, WorldKept, TypeOK, PollCycle, QueueInv, Ended, InQueue
<1>4. CASE PollStats
  BY <1>4 DEF PollStats, WorldKept, TypeOK, PollCycle, QueueInv, Ended, InQueue
<1>5. CASE PollResolve
  <2>1. /\ UNCHANGED <<saved, job>> /\ poll.at = "answered"
        /\ poll'.at = "resolved" /\ poll'.listed = poll.listed
        /\ item' = IF poll.stats # None THEN Decided ELSE TimedOut
    BY <1>5 DEF PollResolve, WorldKept, TypeOK, PollCycle
  <2>2. poll.stats \in Outcomes => ~InQueue
    BY DEF WorldInv, InQueue
  <2>3. Recorded.status = item.status /\ Recorded \in RunItem
    BY DecidedType DEF Recorded, RunItem
  <2>4. \/ Decided.status = item.status
        \/ Decided.status \in Terminal /\ poll.stats \notin {None, "RUNNING"}
    BY <2>3 DEF Decided, RunItem, Terminal
  <2>5. poll.stats \notin {None, "RUNNING"} => poll.stats \in Outcomes
    BY DEF TypeOK, PollCycle
  <2>6. \/ TimedOut.status = item.status
        \/ TimedOut.status = "failed"
        \/ TimedOut.status = "completed" /\ item.status = "settling"
    BY DEF TimedOut, RunItem
  <2>7. \/ item'.status = item.status
        \/ item'.status \in Terminal /\ ~InQueue
        \/ item'.status = "failed"
    BY <2>1, <2>2, <2>4, <2>5, <2>6 DEF Ended, Terminal
  <2> QED
    BY <2>1, <2>7 DEF QueueInv, Ended, InQueue, Terminal
<1>6. CASE PollUpdate
  <2>1. /\ UNCHANGED <<saved, job>> /\ poll'.listed = poll.listed
        /\ poll.at = "resolved" /\ poll'.at = "updated" /\ item' = Updated
    BY <1>6 DEF PollUpdate, WorldKept, TypeOK, PollCycle
  <2>2. \/ Updated.status = item.status
        \/ Updated.status = "settling" /\ ~InQueue
        \/ Updated.status \in {"queued", "running"} /\ poll.listed # None
        \/ Updated.status = "failed"
    <3>1. item.status \in Terminal => Updated = item
      BY DEF Updated
    <3>2. poll.listed = None /\ item.status \in {"queued", "running"} => ~InQueue
      BY <2>1 DEF QueueInv
    <3>3. poll.listed = "completed" => ~InQueue
      BY DEF WorldInv, InQueue
    <3> QED
      BY <3>1, <3>2, <3>3 DEF Updated, RunItem
  <2>3. poll.listed # None => job \notin {"accepted", "dropped"}
    BY DEF WorldInv
  <2> QED
    BY <2>1, <2>2, <2>3 DEF QueueInv, Ended, InQueue
<1>7. CASE PollSave
  <2>1. /\ UNCHANGED <<item, job>> /\ saved' = item /\ poll.at = "updated"
        /\ poll'.at = "idle" /\ poll'.listed = poll.listed
    BY <1>7 DEF PollSave, PollIdle, WorldKept
  <2> QED
    BY <2>1 DEF QueueInv, Ended, InQueue
<1>8. CASE Restart
  <2>1. /\ UNCHANGED <<saved, job>> /\ item' = saved /\ MaxRestarts # 0
        /\ poll'.at = "idle"
    BY <1>8 DEF Restart, PollIdle, TypeOK
  <2> QED
    BY <2>1 DEF QueueInv, Ended, InQueue
<1>9. CASE UNCHANGED vars
  BY <1>9 DEF vars, QueueInv, Ended, InQueue
<1> QED
  BY <1>1, <1>2, <1>3, <1>4, <1>5, <1>6, <1>7, <1>8, <1>9 DEF Next, PollStep

(* With a queue that can be trusted, COMPLETED comes after the job's end,  *)
(* however late or silent accounting is.                                   *)
THEOREM CompletedAfterEnd ==
    ASSUME Trusted
    PROVE  Spec => []CompletedMeansEnded
<1>1. Init => TypeOK /\ WorldInv /\ QueueInv
  BY TypeInit, WorldInit, QueueInit
<1>2. TypeOK /\ WorldInv /\ QueueInv /\ [Next]_vars => (TypeOK /\ WorldInv /\ QueueInv)'
  BY TypeStep, WorldStep, QueueStep
<1>3. QueueInv => CompletedMeansEnded
  BY DEF QueueInv, Ended, CompletedMeansEnded
<1> QED
  BY <1>1, <1>2, <1>3, PTL DEF Spec

-----------------------------------------------------------------------------
LEMMA RecordInit == Init => RecordInv
BY DEF Init, RecordInv, InQueue, Submitted, Disappeared, PollIdle, None

LEMMA RecordStep ==
    ASSUME "queue_down" \notin Faults, TypeOK, WorldInv, RecordInv, [Next]_vars
    PROVE  RecordInv'
<1> USE PollerAssumption DEF None
<1> item \in RunItem /\ saved \in RunItem
  BY DEF TypeOK
<1>1. CASE World
  <2>1. UNCHANGED <<item, saved, poll>>
    BY <1>1 DEF World, JobListed, JobDropped, JobStarts, JobEnds, JobLeaves, RowAppears,
                RowCloses, SubmitAges, SettleAges, ItemKept
  <2>2. /\ ~InQueue => ~InQueue'
        /\ job # "accepted" => job' # "accepted"
    BY <1>1 DEF World, JobListed, JobDropped, JobStarts, JobEnds, JobLeaves, RowAppears,
                RowCloses, SubmitAges, SettleAges, ItemKept, InQueue
  <2>3. \/ submitAge' = submitAge
        \/ submitAge = 0 /\ submitAge' = 1
        \/ submitAge = 1 /\ submitAge' = 2 /\ job' # "accepted" /\ poll.at = "idle"
    BY <1>1 DEF World, JobListed, JobDropped, JobStarts, JobEnds, JobLeaves, RowAppears,
                RowCloses, SubmitAges, SettleAges, ItemKept, TypeOK
  <2> QED
    BY <2>1, <2>2, <2>3 DEF RecordInv
<1>2. CASE PollQueue
  <2>1. UNCHANGED <<item, saved, job, submitAge>>
    BY <1>2 DEF PollQueue, WorldKept
  <2>2. \/ poll'.at = "listed" /\ poll'.listed \in QueueView
        \/ poll'.at = "resolved"
    BY <1>2 DEF PollQueue, TypeOK, PollCycle
  <2>3. None \in QueueView => job \notin {"pending", "running"}
    BY DEF QueueView
  <2> QED
    BY <2>1, <2>2, <2>3 DEF RecordInv, InQueue
<1>3. CASE PollAsk
  <2>1. /\ UNCHANGED <<item, saved, job, submitAge>> /\ poll.at = "listed"
        /\ poll'.at = "asked" /\ poll'.listed = poll.listed /\ poll'.age = submitAge
    BY <1>3 DEF PollAsk, WorldKept, TypeOK, PollCycle
  <2> QED
    BY <2>1 DEF RecordInv, InQueue
<1>4. CASE PollStats
  <2>1. /\ UNCHANGED <<item, saved, job, submitAge>> /\ poll.at = "asked"
        /\ poll'.at = "answered" /\ poll'.listed = poll.listed /\ poll'.age = poll.age
    BY <1>4 DEF PollStats, WorldKept, TypeOK, PollCycle
  <2> QED
    BY <2>1 DEF RecordInv, InQueue
<1>5. CASE PollResolve
  <2>1. /\ UNCHANGED <<saved, job, submitAge>> /\ poll.at = "answered"
        /\ poll'.at = "resolved"
        /\ item' = IF poll.stats # None THEN Decided ELSE TimedOut
    BY <1>5 DEF PollResolve, WorldKept, TypeOK, PollCycle
  <2>2. Recorded.error = item.error /\ Recorded \in RunItem
    BY DecidedType DEF Recorded, RunItem
  <2>3. Decided.error = "no_record" => item.error = "no_record"
    BY <2>2 DEF Decided, RunItem
  <2>4. TimedOut.error = "no_record" =>
           item.error = "no_record" \/ (poll.listed = None /\ poll.age = 2)
    BY DEF TimedOut, RunItem
  <2>5. poll.listed = None /\ poll.age = 2 => ~InQueue
    BY <2>1 DEF RecordInv
  <2> QED
    BY <2>1, <2>3, <2>4, <2>5 DEF RecordInv, InQueue
<1>6. CASE PollUpdate
  <2>1. /\ UNCHANGED <<saved, job, submitAge>>
        /\ poll'.at = "updated" /\ item' = Updated
    BY <1>6 DEF PollUpdate, WorldKept, TypeOK, PollCycle
  <2>2. Updated.error = "no_record" => item.error = "no_record"
    BY DEF Updated, RunItem
  <2> QED
    BY <2>1, <2>2 DEF RecordInv, InQueue
<1>7. CASE PollSave
  BY <1>7 DEF PollSave, PollIdle, WorldKept, RecordInv, InQueue
<1>8. CASE Restart
  BY <1>8 DEF Restart, PollIdle, RecordInv, InQueue
<1>9. CASE UNCHANGED vars
  BY <1>9 DEF vars, RecordInv, InQueue
<1> QED
  BY <1>1, <1>2, <1>3, <1>4, <1>5, <1>6, <1>7, <1>8, <1>9 DEF Next, PollStep

(* If the queue command is never down, no job that waits or runs is given  *)
(* up for want of a record: not even when get_jobs raises, the server      *)
(* restarts or accounting is silent.                                       *)
THEOREM NoRecordAfterQueue ==
    ASSUME "queue_down" \notin Faults
    PROVE  Spec => []NoRecordMeansNotQueued
<1>1. Init => TypeOK /\ WorldInv /\ RecordInv
  BY TypeInit, WorldInit, RecordInit
<1>2. TypeOK /\ WorldInv /\ RecordInv /\ [Next]_vars => (TypeOK /\ WorldInv /\ RecordInv)'
  BY TypeStep, WorldStep, RecordStep
<1>3. RecordInv => NoRecordMeansNotQueued
  BY DEF RecordInv, NoRecordMeansNotQueued
<1> QED
  BY <1>1, <1>2, <1>3, PTL DEF Spec

=============================================================================
