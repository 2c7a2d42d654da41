------------------------------ MODULE Dispatch ------------------------------
(***************************************************************************)
(* How items get to the scheduler: RunManager of runs/manager.py and the   *)
(* polling task of main.py that drives it.                                 *)
(*                                                                         *)
(* Everything runs on one asyncio event loop.  A coroutine is never        *)
(* interrupted, but it gives the loop away at each await, and whatever it  *)
(* read before the await may be stale after it.  An action here is the     *)
(* code from one suspension to the next.  Coro is the set of coroutines    *)
(* that may be under way at the same time: each one is idle, serves a web  *)
(* request, or is the polling task (there is one).  With a single element  *)
(* requests and poll cycles follow each other; with two they overlap.      *)
(*                                                                         *)
(* What happened to a job is told by squeue and the accounting database.   *)
(* Which verdict they lead to, and when, is the subject of module Poller;  *)
(* here any verdict may come, but only for a job that has left the         *)
(* scheduler.  "running" stands for QUEUED as well: no step below tells    *)
(* them apart.  There is one backend: slots and shares are computed per    *)
(* backend, and runs of different backends share nothing.                  *)
(***************************************************************************)
EXTENDS RunModel, Sequences

CONSTANTS
    Coro,        \* coroutines that may overlap
    NoRun,       \* the run of a coroutine that works for none
    BackendMax,  \* max_concurrent of the backend
    RunMax,      \* max_concurrent of each run, or NoMax
    Requests,    \* the requests that are made
    Cached,      \* items whose result the cache may hold
    Faults,      \* what may go wrong on the way to the scheduler
    Lossy,       \* items whose sbatch or scancel may fail unnoticed
    MaxLost      \* bound on the jobs of one item that it does not name

NoMax == -1

ASSUME DispatchAssumption ==
    /\ IsFiniteSet(Run) /\ IsFiniteSet(Coro)
    /\ BackendMax \in Nat
    /\ NoRun \notin Run
    /\ RunMax \in [Run -> Nat \cup {NoMax}]
    /\ Requests \subseteq {"create", "cancel", "rerun", "delete"}
    /\ Cached \subseteq Item
    /\ Faults \subseteq {"refuse", "raise"}
    /\ Lossy \subseteq Item
    /\ MaxLost \in Nat

VARIABLES
    phase,       \* whether a run is in RunManager.runs
    st,          \* RunItem.status
    unsure,      \* items COMPLETED by a timeout: scheduler_state is None
    mine,        \* the scheduler holds the job RunItem.job_id names
    lost,        \* how many more jobs of the item it holds
    co,          \* what each coroutine is doing
    poll         \* the polling task's cycle

vars == <<phase, st, unsure, mine, lost, co, poll>>

Live == {r \in Run : phase[r] = "live"}

Idle == [caller |-> "none", op |-> "idle", run |-> NoRun, fair |-> TRUE,
         todo |-> {}, hit |-> FALSE, at |-> 0]

PollOff == [pass |-> "off", queue |-> <<>>, size |-> 0]

ItemStatus == Status \ {"queued"}

Caller == {"none", "request", "poll"}

Coroutine ==
    [caller : Caller,
     op : {"idle", "polling", "submitting", "hooks", "cancelling"},
     run : Run \cup {NoRun},    \* what process_run or cancel_run works for
     fair : BOOLEAN,            \* process_run's argument
     todo : SUBSET Item,        \* what is left of to_submit
     hit : BOOLEAN,             \* cache_completed is not empty
     at : 0 .. NumItems]        \* the item cancel_run waits at

Cycle ==
    [pass : {"off", "resolve", "update", "fair", "greedy", "dead"},
     queue : Seq(Run),          \* the runs the pass has still to visit
     size : Nat]                \* the size of RunManager.runs when it began

TypeOK ==
    /\ phase \in [Run -> {"new", "live", "deleted"}]
    /\ st \in [Item -> ItemStatus]
    /\ unsure \in SUBSET Item
    /\ mine \in [Item -> BOOLEAN]
    /\ lost \in [Item -> 0 .. MaxLost]
    /\ co \in [Coro -> Coroutine]
    /\ poll \in Cycle

Init ==
    /\ phase = [r \in Run |-> "new"]
    /\ st = [i \in Item |-> "pending"]
    /\ unsure = {}
    /\ mine = [i \in Item |-> FALSE]
    /\ lost = [i \in Item |-> 0]
    /\ co = [p \in Coro |-> Idle]
    /\ poll = PollOff

(* The polling task keeps the loop between two awaits.                     *)
LoopFree == \A p \in Coro : co[p].op # "polling"

Free(p) == LoopFree /\ co[p].op = "idle"

-----------------------------------------------------------------------------
(* Slots.  s is the items' statuses and lv the runs in RunManager.runs.    *)

OnBackend(s, lv) == {i \in Item : RunOf[i] \in lv /\ s[i] \in Active}

BackendSlots(s, lv) == BackendMax - Cardinality(OnBackend(s, lv))

(* Mutant: a SETTLING item is taken to have given its slot back.           *)
RunSlotsSettlingFree(s, r) ==
    IF RunMax[r] = NoMax THEN Cardinality(Ready(s, r))
    ELSE RunMax[r] - Cardinality(With(s, r, {"submitted", "running"}))

RunSlots(s, r) ==
    IF RunMax[r] = NoMax THEN Cardinality(Ready(s, r))
    ELSE RunMax[r] - RunningCount(s, r)

Contending(s, lv) ==
    {r \in lv : RunStatus(s, r) \notin TerminalRun /\ Ready(s, r) # {}}

FairSlots(s, lv) ==
    LET n == Cardinality(Contending(s, lv))
        share == BackendSlots(s, lv) \div n
    IN  IF n <= 1 THEN BackendSlots(s, lv)
        ELSE IF share < 1 THEN 1 ELSE share

(* Mutant: the fair share replaces the backend's free slots.               *)
SlotsFairOnly(s, lv, r, fair) ==
    LET share == IF fair THEN FairSlots(s, lv) ELSE BackendSlots(s, lv)
    IN  IF RunSlots(s, r) < share THEN RunSlots(s, r) ELSE share

Slots(s, lv, r, fair) ==
    LET limits == {RunSlots(s, r), BackendSlots(s, lv)}
                  \cup (IF fair THEN {FairSlots(s, lv)} ELSE {})
    IN  CHOOSE n \in limits : \A m \in limits : n <= m

(* The n first elements of a list of items.                                *)
Prefix(S, n) == {i \in S : Cardinality({j \in S : j < i}) < n}

ToSubmit(s, lv, r, fair) == Prefix(Ready(s, r), Slots(s, lv, r, fair))

First(S) == CHOOSE i \in S : \A j \in S : i <= j

-----------------------------------------------------------------------------
(* process_run, cut at the awaits of submit_task and of the hooks.         *)

Suspended(caller, op, r, fair, todo, hit) ==
    [caller |-> caller, op |-> op, run |-> r, fair |-> fair,
     todo |-> todo, hit |-> hit, at |-> 0]

(* process_run returns: a request is answered, a poll cycle goes on.       *)
Returned(caller) ==
    IF caller = "poll" THEN [Idle EXCEPT !.caller = "poll", !.op = "polling"]
    ELSE Idle

(* From the call to its first await: cascade, count, choose.               *)
ProcessRun(p, caller, s, lv, r, fair) ==
    LET s2 == Cascade(s, r)
        todo == ToSubmit(s2, lv, r, fair)
    IN  /\ st' = s2
        /\ co' = [co EXCEPT ![p] =
                    IF todo = {} THEN Returned(caller)
                    ELSE Suspended(caller, "submitting", r, fair, todo, FALSE)]

(* The rest of the submit loop once the items of todo are left.            *)
Continue(p, todo, hit) ==
    co' = [co EXCEPT ![p] =
             IF todo # {}
             THEN Suspended(co[p].caller, "submitting", co[p].run, co[p].fair, todo, hit)
             ELSE IF hit
             THEN Suspended(co[p].caller, "hooks", co[p].run, co[p].fair, {}, hit)
             ELSE Returned(co[p].caller)]

Submitting(p) == LoopFree /\ co[p].op = "submitting"

(* The scheduler took the job: submit_task writes job_id and SUBMITTED,    *)
(* whatever became of the item while it was away.                          *)
SubmitAccepted(p) ==
    LET i == First(co[p].todo)
    IN  /\ Submitting(p)
        /\ mine[i] => lost[i] < MaxLost
        /\ st' = [st EXCEPT ![i] = "submitted"]
        /\ unsure' = unsure \ {i}
        /\ mine' = [mine EXCEPT ![i] = TRUE]
        /\ lost' = IF mine[i] THEN [lost EXCEPT ![i] = @ + 1] ELSE lost
        /\ Continue(p, co[p].todo \ {i}, co[p].hit)
        /\ UNCHANGED <<phase, poll>>

(* The cache holds the result: the item is COMPLETED without a job.        *)
SubmitCached(p) ==
    LET i == First(co[p].todo)
    IN  /\ Submitting(p)
        /\ i \in Cached
        /\ st' = [st EXCEPT ![i] = "completed"]
        /\ unsure' = unsure \ {i}
        /\ Continue(p, co[p].todo \ {i}, TRUE)
        /\ UNCHANGED <<phase, mine, lost, poll>>

(* The scheduler may have taken a job whose answer never arrived.          *)
MayLoseAck(i) ==
    \/ lost' = lost
    \/ i \in Lossy /\ lost[i] < MaxLost /\ lost' = [lost EXCEPT ![i] = @ + 1]

(* submit_task returns False: process_run fails what is still pending in   *)
(* the run and leaves its loop.                                            *)
SubmitRefused(p) ==
    LET i == First(co[p].todo)
        halted == [st EXCEPT ![i] = "failed"]
    IN  /\ Submitting(p)
        /\ "refuse" \in Faults
        /\ st' = [j \in Item |->
                    IF j \in With(halted, co[p].run, {"pending"}) THEN "failed" ELSE halted[j]]
        /\ MayLoseAck(i)
        /\ Continue(p, {}, co[p].hit)
        /\ UNCHANGED <<phase, unsure, mine, poll>>

(* Anything but a RuntimeError of the backend's submit_task leaves         *)
(* process_run as an exception.  A request is answered with an error.      *)
(* poll_backend catches it and the cycle goes on to update_all_runs; there *)
(* nothing catches it and the polling task is gone.                        *)
SubmitRaises(p) ==
    /\ Submitting(p)
    /\ "raise" \in Faults
    /\ MayLoseAck(First(co[p].todo))
    /\ \/ /\ co[p].caller = "request"
          /\ co' = [co EXCEPT ![p] = Idle]
          /\ UNCHANGED poll
       \/ /\ co[p].caller = "poll" /\ poll.pass = "resolve"
          /\ co' = [co EXCEPT ![p] = Returned("poll")]
          /\ poll' = [poll EXCEPT !.queue = <<>>, !.size = Cardinality(Live)]
       \/ /\ co[p].caller = "poll" /\ poll.pass # "resolve"
          /\ co' = [co EXCEPT ![p] = Idle]
          /\ poll' = [PollOff EXCEPT !.pass = "dead"]
    /\ UNCHANGED <<phase, st, unsure, mine>>

(* After the completion hooks process_run is called again.                 *)
HooksReturn(p) ==
    /\ LoopFree
    /\ co[p].op = "hooks"
    /\ ProcessRun(p, co[p].caller, st, Live, co[p].run, co[p].fair)
    /\ UNCHANGED <<phase, unsure, mine, lost, poll>>

-----------------------------------------------------------------------------
(* Web requests.                                                           *)

(* _build_run: the run joins RunManager.runs and is processed.             *)
Create(p, r) ==
    /\ "create" \in Requests
    /\ Free(p)
    /\ phase[r] = "new"
    /\ phase' = [phase EXCEPT ![r] = "live"]
    /\ ProcessRun(p, "request", st, Live \cup {r}, r, TRUE)
    /\ UNCHANGED <<unsure, mine, lost, poll>>

(* Mutant: a run that is still active may be rerun.                        *)
RerunActive(p, r) ==
    /\ "rerun" \in Requests
    /\ Free(p)
    /\ r \in Live
    /\ \A i \in ItemsOf(r) : mine[i] => lost[i] < MaxLost
    /\ unsure' = unsure \ ItemsOf(r)
    /\ mine' = [i \in Item |-> mine[i] /\ RunOf[i] # r]
    /\ lost' = [i \in Item |-> IF RunOf[i] = r /\ mine[i] THEN lost[i] + 1 ELSE lost[i]]
    /\ ProcessRun(p, "request",
                  [i \in Item |-> IF RunOf[i] = r THEN "pending" ELSE st[i]], Live, r, TRUE)
    /\ UNCHANGED <<phase, poll>>

(* Mutant: only the items that ran are put back.                           *)
RerunFailed(p, r) ==
    /\ "rerun" \in Requests
    /\ Free(p)
    /\ r \in Live
    /\ RunStatus(st, r) \in TerminalRun
    /\ ProcessRun(p, "request",
                  [i \in Item |-> IF i \in With(st, r, {"failed", "completed"})
                                  THEN "pending" ELSE st[i]], Live, r, TRUE)
    /\ unsure' = unsure \ ItemsOf(r)
    /\ UNCHANGED <<phase, mine, lost, poll>>

(* rerun_in_place: only a terminal run; every item forgets its job.        *)
Rerun(p, r) ==
    /\ "rerun" \in Requests
    /\ Free(p)
    /\ r \in Live
    /\ RunStatus(st, r) \in TerminalRun
    /\ \A i \in ItemsOf(r) : mine[i] => lost[i] < MaxLost
    /\ unsure' = unsure \ ItemsOf(r)
    /\ mine' = [i \in Item |-> mine[i] /\ RunOf[i] # r]
    /\ lost' = [i \in Item |-> IF RunOf[i] = r /\ mine[i] THEN lost[i] + 1 ELSE lost[i]]
    /\ ProcessRun(p, "request",
                  [i \in Item |-> IF RunOf[i] = r THEN "pending" ELSE st[i]], Live, r, TRUE)
    /\ UNCHANGED <<phase, poll>>

(* delete_run.                                                             *)
Delete(p, r) ==
    /\ "delete" \in Requests
    /\ Free(p)
    /\ r \in Live
    /\ RunStatus(st, r) \in TerminalRun
    /\ phase' = [phase EXCEPT ![r] = "deleted"]
    /\ UNCHANGED <<st, unsure, mine, lost, co, poll>>

(* cancel_run walks the items: a pending one fails at once, one with a job *)
(* is cancelled at the scheduler first, and the walk is suspended there.   *)
(* A SETTLING item is left to accounting.  No backend reports a scancel or *)
(* qdel that did not work: the item is FAILED, "Cancelled", all the same.  *)
Cancellable == {"submitted", "queued", "running"}

(* Mutant: a status RunItemStatus does not have.                           *)
CancelFromNoStatus(p, s, r, k) ==
    /\ st' = [i \in Item |-> IF i \in ItemsOf(r) THEN "cancelled" ELSE s[i]]
    /\ UNCHANGED <<co, mine>>

CancelFrom(p, s, r, k) ==
    LET ahead == {i \in With(s, r, Cancellable) : i >= k}
        stop == IF ahead = {} THEN NumItems + 1 ELSE First(ahead)
    IN  /\ st' = [i \in Item |->
                    IF i \in With(s, r, {"pending"}) /\ k <= i /\ i < stop
                    THEN "failed" ELSE s[i]]
        /\ \/ /\ ahead # {}
              /\ co' = [co EXCEPT ![p] =
                          [Idle EXCEPT !.caller = "request", !.op = "cancelling",
                                       !.run = r, !.at = stop]]
              /\ \/ mine' = [mine EXCEPT ![stop] = FALSE]
                 \/ stop \in Lossy /\ UNCHANGED mine
           \/ /\ ahead = {} \/ "raise" \in Faults
              /\ co' = [co EXCEPT ![p] = Idle]
              /\ UNCHANGED mine

Cancel(p, r) ==
    /\ "cancel" \in Requests
    /\ Free(p)
    /\ r \in Live
    /\ CancelFrom(p, st, r, 1)
    /\ UNCHANGED <<phase, unsure, lost, poll>>

CancelReturns(p) ==
    /\ LoopFree
    /\ co[p].op = "cancelling"
    /\ CancelFrom(p, [st EXCEPT ![co[p].at] = "failed"], co[p].run, co[p].at + 1)
    /\ UNCHANGED <<phase, unsure, lost, poll>>

-----------------------------------------------------------------------------
(* The polling task.  A cycle has four passes over runs: poll_backend      *)
(* ("resolve": accounting), then the three loops of update_all_runs        *)
(* ("update": squeue; "fair" and "greedy": who gets the free slots).       *)

Polling(p) == co[p].op = "polling"

Orders(S) ==
    {q \in [1 .. Cardinality(S) -> S] : \A a, b \in DOMAIN q : q[a] = q[b] => a = b}

(* _contending_runs: least loaded first; created_at, which breaks ties, is *)
(* left open.                                                              *)
NeediestFirst(S) ==
    {q \in Orders(S) : \A a, b \in DOMAIN q :
        a < b => RunningCount(st, q[a]) <= RunningCount(st, q[b])}

BeginPass(pass, queue) ==
    poll' = [pass |-> pass, queue |-> queue, size |-> Cardinality(Live)]

PollStart(p) ==
    /\ Free(p)
    /\ poll.pass = "off"
    /\ co' = [co EXCEPT ![p] = Returned("poll")]
    /\ \E q \in Orders(Live) : BeginPass("resolve", q)
    /\ UNCHANGED <<phase, st, unsure, mine, lost>>

(* The first two passes iterate over the dictionary itself, and Python     *)
(* raises RuntimeError at the next step once its size has changed.         *)
Iterating == poll.pass \in {"resolve", "update"}

SizeChanged == Iterating /\ Cardinality(Live) # poll.size

(* Mutant: the greedy pass is missing.                                     *)
PollNextPassFairOnly(p) ==
    /\ Polling(p)
    /\ Len(poll.queue) = 0
    /\ ~SizeChanged
    /\ \/ /\ poll.pass = "resolve"
          /\ \E q \in Orders(Live) : BeginPass("update", q)
          /\ UNCHANGED co
       \/ /\ poll.pass = "update"
          /\ \E q \in NeediestFirst(Contending(st, Live)) : BeginPass("fair", q)
          /\ UNCHANGED co
       \/ /\ poll.pass = "fair"
          /\ poll' = PollOff
          /\ co' = [co EXCEPT ![p] = Idle]
    /\ UNCHANGED <<phase, st, unsure, mine, lost>>

(* Mutant: only the runs whose own items changed are processed.            *)
PollNextPassNoServing(p) ==
    /\ Polling(p)
    /\ Len(poll.queue) = 0
    /\ ~SizeChanged
    /\ \/ /\ poll.pass = "resolve"
          /\ \E q \in Orders(Live) : BeginPass("update", q)
          /\ UNCHANGED co
       \/ /\ poll.pass = "update"
          /\ poll' = PollOff
          /\ co' = [co EXCEPT ![p] = Idle]
    /\ UNCHANGED <<phase, st, unsure, mine, lost>>

PollNextPass(p) ==
    /\ Polling(p)
    /\ Len(poll.queue) = 0
    /\ ~SizeChanged
    /\ \/ /\ poll.pass = "resolve"
          /\ \E q \in Orders(Live) : BeginPass("update", q)
          /\ UNCHANGED co
       \/ /\ poll.pass \in {"update", "fair"}
          /\ \E q \in NeediestFirst(Contending(st, Live)) :
                BeginPass(IF poll.pass = "update" THEN "fair" ELSE "greedy", q)
          /\ UNCHANGED co
       \/ /\ poll.pass = "greedy"
          /\ poll' = PollOff
          /\ co' = [co EXCEPT ![p] = Idle]
    /\ UNCHANGED <<phase, st, unsure, mine, lost>>

PollRaises(p) ==
    /\ Polling(p)
    /\ SizeChanged
    /\ IF poll.pass = "resolve"
       THEN (\E q \in Orders(Live) : BeginPass("update", q)) /\ UNCHANGED co
       ELSE poll' = [PollOff EXCEPT !.pass = "dead"] /\ co' = [co EXCEPT ![p] = Idle]
    /\ UNCHANGED <<phase, st, unsure, mine, lost>>

Visiting(p, pass) ==
    /\ Polling(p)
    /\ poll.pass = pass
    /\ Len(poll.queue) > 0
    /\ ~SizeChanged

Advance == poll' = [poll EXCEPT !.queue = Tail(@)]

(* The items of a run whose jobs the scheduler holds no longer.            *)
Away(r, S) == {i \in With(st, r, S) : ~mine[i]}

Turned(S, status, s) == [i \in Item |-> IF i \in S THEN status ELSE s[i]]

(* Mutant: a FAILED item, a cancelled one too, is corrected to COMPLETED   *)
(* whatever its error says.                                                *)
PollResolveFailedToo(p) ==
    LET r == Head(poll.queue) IN
    /\ Visiting(p, "resolve")
    /\ Advance
    /\ \E ok \in SUBSET Away(r, {"submitted", "settling", "failed"}) :
         ProcessRun(p, "poll", Turned(ok, "completed", st), Live, r, TRUE)
    /\ UNCHANGED <<phase, unsure, mine, lost>>

(* poll_backend's handling of one run: accounting decides items that have  *)
(* left the queue, completion hooks may suspend it, and process_run        *)
(* follows.  There are two exceptions.  The item of a job nobody has a     *)
(* record of fails after a timeout.  An item that a timeout took for       *)
(* COMPLETED is asked about again, and the row that comes late confirms it *)
(* or turns it to FAILED.  Neither calls process_run.                      *)
PollResolve(p) ==
    LET r == Head(poll.queue) IN
    /\ Visiting(p, "resolve")
    /\ Advance
    /\ \E ok \in SUBSET Away(r, {"submitted", "settling"}) :
       \E bad \in SUBSET (Away(r, {"submitted", "settling"}) \ ok) :
       \E guessed \in SUBSET (ok \cap With(st, r, {"settling"})) :
       \E late \in SUBSET (unsure \cap With(st, r, {"completed"})) :
       \E wrong \in SUBSET late :
         LET new == Turned(ok, "completed", Turned(bad \cup wrong, "failed", st)) IN
         /\ unsure' = (unsure \ late) \cup guessed
         /\ \/ ok \cup bad # {} /\ ProcessRun(p, "poll", new, Live, r, TRUE)
            \/ /\ ok # {}
               /\ st' = new
               /\ co' = [co EXCEPT ![p] = Suspended("poll", "hooks", r, TRUE, {}, TRUE)]
            \/ /\ ok = {} /\ bad \subseteq With(st, r, {"submitted"})
               /\ st' = new
               /\ UNCHANGED co
    /\ UNCHANGED <<phase, mine, lost>>

(* update_all_runs' handling of one run: terminal runs are passed over,    *)
(* squeue decides the others (update_run_status).  A new pending reason    *)
(* counts as a change, so process_run may follow without one of status.    *)
PollUpdate(p) ==
    LET r == Head(poll.queue) IN
    /\ Visiting(p, "update")
    /\ Advance
    /\ \/ RunStatus(st, r) \in TerminalRun /\ UNCHANGED <<st, co>>
       \/ /\ RunStatus(st, r) \notin TerminalRun
          /\ \E seen \in SUBSET {i \in With(st, r, {"submitted", "settling"}) : mine[i]} :
             \E settled \in SUBSET Away(r, Active) :
             \E bad \in SUBSET (Away(r, Active) \ settled) :
               LET new == Turned(seen, "running",
                            Turned(settled, "settling", Turned(bad, "failed", st))) IN
               \/ /\ new # st \/ With(st, r, Active) # {}
                  /\ ProcessRun(p, "poll", new, Live, r, TRUE)
               \/ new = st /\ UNCHANGED <<st, co>>
    /\ UNCHANGED <<phase, unsure, mine, lost>>

(* The two passes that offer the free slots to the runs with work.         *)
PollServe(p) ==
    /\ Visiting(p, "fair") \/ Visiting(p, "greedy")
    /\ Advance
    /\ ProcessRun(p, "poll", st, Live, Head(poll.queue), poll.pass = "fair")
    /\ UNCHANGED <<phase, unsure, mine, lost>>

-----------------------------------------------------------------------------
(* The scheduler: a job ends.                                              *)

JobEnds(i) ==
    /\ mine[i]
    /\ mine' = [mine EXCEPT ![i] = FALSE]
    /\ UNCHANGED <<phase, st, unsure, lost, co, poll>>

LostJobEnds(i) ==
    /\ lost[i] > 0
    /\ lost' = [lost EXCEPT ![i] = @ - 1]
    /\ UNCHANGED <<phase, st, unsure, mine, co, poll>>

-----------------------------------------------------------------------------
Resume(p) ==
    \/ SubmitAccepted(p) \/ SubmitCached(p) \/ SubmitRefused(p) \/ SubmitRaises(p)
    \/ HooksReturn(p)
    \/ CancelReturns(p)

Request(p) ==
    \E r \in Run : Create(p, r) \/ Rerun(p, r) \/ Delete(p, r) \/ Cancel(p, r)

PollStep(p) ==
    \/ PollNextPass(p) \/ PollRaises(p)
    \/ PollResolve(p) \/ PollUpdate(p) \/ PollServe(p)

Next ==
    \/ \E p \in Coro : Resume(p) \/ Request(p) \/ PollStart(p) \/ PollStep(p)
    \/ \E i \in Item : JobEnds(i) \/ LostJobEnds(i)

Spec == Init /\ [][Next]_vars

-----------------------------------------------------------------------------
(* What a single coroutine keeps.                                          *)

(* "Capping the total number of concurrent jobs across all runs on that    *)
(* backend": the items that hold a slot never outnumber max_concurrent.    *)
BackendCap == Cardinality(OnBackend(st, Live)) <= BackendMax

(* The cap of each run, whatever else runs on the backend.                 *)
RunCap == \A r \in Run : RunMax[r] # NoMax => RunningCount(st, r) <= RunMax[r]

(* A job is tracked if its item names it, counts it, and is polled.        *)
Tracked(i) == mine[i] /\ st[i] \in Active /\ RunOf[i] \in Live

(* Between the call of submit_task or cancel_job and its return.           *)
BeingSubmitted(i) == \E p \in Coro : co[p].op = "submitting" /\ i = First(co[p].todo)

BeingCancelled(i) == \E p \in Coro : co[p].op = "cancelling" /\ i = co[p].at

(* A job is forgotten only by a command that did not work and whose caller *)
(* does not learn of it: a cancel that left the job alive, a submission    *)
(* that took effect and is reported refused or raises.  Otherwise a job is *)
(* tracked from its first moment to its end: no rerun and no delete drops  *)
(* one, no item is submitted twice, no verdict comes before the end.       *)
NoJobForgotten ==
    [][\A i \in Item :
         /\ mine'[i] /\ ~mine[i] => Tracked(i)'
         /\ Tracked(i) =>
               \/ Tracked(i)'
               \/ ~mine'[i] /\ lost'[i] = lost[i]
               \/ BeingCancelled(i) /\ st'[i] = "failed"
         /\ lost'[i] > lost[i] =>
               \/ BeingSubmitted(i) /\ st'[i] # "submitted"
               \/ mine[i] /\ st[i] = "failed"]_vars

(* A DEP_FAILED item has a dependency that failed: no cancel, rerun or     *)
(* halted submit loop leaves one behind without its reason.                *)
DepFailedHasReason ==
    \A i \in Item : st[i] = "dep_failed" => FailedDeps(st, i) # {}

(* An item takes a slot from PENDING only: what process_run read before it *)
(* was suspended still holds when submit_task writes SUBMITTED.            *)
TakesSlotFromPending ==
    [][\A i \in Item : st'[i] \in Active => st[i] \in Active \cup {"pending"}]_vars

(* A run that reports COMPLETED or FAILED keeps that status until someone  *)
(* reruns it, which puts all its items back.  One thing takes it back: a   *)
(* row that comes after the timeout and fails an item which accounting had *)
(* not confirmed.  `run watch --exit-status` leaves at the first terminal  *)
(* status it sees: what it reports is final when accounting had spoken.    *)
VerdictStands ==
    [][\A r \in Live :
         RunStatus(st, r) \in TerminalRun =>
           \/ RunStatus(st', r) = RunStatus(st, r)
           \/ With(st', r, {"pending"}) = ItemsOf(r)
           \/ /\ RunStatus(st, r) = "completed" /\ RunStatus(st', r) = "failed"
              /\ With(st', r, {"failed"}) # {}
              /\ With(st', r, {"failed"}) \subseteq unsure]_vars

(* "Capacity is never left idle": when a poll cycle ends, a run with work  *)
(* it may submit is held back only by a cap that is used up.  The fair     *)
(* pass alone does not give this.                                          *)
NoSlotLeftIdle ==
    [][poll.pass # "off" /\ poll'.pass = "off" =>
         \A r \in Contending(st', Live) : Slots(st', Live, r, FALSE) <= 0]_vars

-----------------------------------------------------------------------------
(* What several coroutines keep, and what they do not.                     *)

(* "A task will only be submitted once all its dependencies have completed *)
(* successfully": they are COMPLETED at the moment the item takes a slot,  *)
(* however long ago it was chosen.                                         *)
DepsFirst ==
    [][\A i \in Item : st[i] \notin Active /\ st'[i] \in Active =>
         DepsSatisfied(st, i)]_vars

(* Every job in the scheduler is the one its item names, and the item      *)
(* counts it: no job is submitted twice, and none is forgotten by a        *)
(* cancel, a rerun or a delete.  With one coroutine and commands that work *)
(* and are answered it holds; two coroutines break it.                     *)
EveryJobTracked ==
    \A i \in Item :
        /\ lost[i] = 0
        /\ mine[i] => st[i] \in Active /\ RunOf[i] \in Live

(* What overlapping coroutines may add up to: each of them respects the    *)
(* cap on its own, so that together they exceed it by at most one cap per  *)
(* further coroutine.                                                      *)
BoundedOvershoot == Cardinality(OnBackend(st, Live)) <= Cardinality(Coro) * BackendMax

(* What is inductive about it: the items a suspended process_run is going  *)
(* to submit count as if they had their slots already.                     *)
Claimed == UNION {co[p].todo : p \in Coro}

CapInv ==
    /\ \A p \in Coro : Cardinality(co[p].todo) <= BackendMax
    /\ Cardinality(OnBackend(st, Live) \cup Claimed) <= Cardinality(Coro) * BackendMax

(* What was cancelled stays cancelled, and what finished is not run again: *)
(* a terminal item leaves its status only with a rerun of the whole run.   *)
TerminalItemStays ==
    [][\A i \in Item : st[i] \in TerminalItem =>
         st'[i] \in TerminalItem \cup {"pending"}]_vars

(* The polling task outlives whatever requests come.                       *)
PollingGoesOn == poll.pass # "dead"

-----------------------------------------------------------------------------
(* Fairness: the event loop resumes every coroutine whose await is over,   *)
(* the scheduler answers and ends its jobs, polls are started again and    *)
(* again, and evidence about a job that has left arrives eventually.       *)

Noticed(i) ==
    (\E p \in Coro : PollUpdate(p)) /\ st[i] \in {"submitted", "running"}
                                    /\ st'[i] \in {"settling", "failed"}

Resolved(i) ==
    (\E p \in Coro : PollResolve(p)) /\ st[i] = "settling" /\ st'[i] # "settling"

Fairness ==
    /\ \A p \in Coro : WF_vars(SubmitAccepted(p)) /\ WF_vars(HooksReturn(p))
    /\ \A p \in Coro : WF_vars(PollStep(p))
    /\ WF_vars(\E p \in Coro : PollStart(p))
    /\ \A i \in Item : WF_vars(JobEnds(i))
    /\ \A i \in Item : SF_vars(Noticed(i)) /\ SF_vars(Resolved(i))

FairSpec == Spec /\ Fairness

(* Every run that was created finishes.  The hard part is a run that waits *)
(* for a slot another run holds: nothing about it changes when that slot   *)
(* is freed, so that only the passes of the poll cycle can serve it.       *)
EveryRunFinishes ==
    \A r \in Run : phase[r] = "live" ~> RunStatus(st, r) \in TerminalRun

(* "All tasks that depend on it (directly or transitively) are marked as   *)
(* dep_failed" when a task fails: Doomed is what process_run would mark.   *)
FailureReachesAll ==
    \A i \in Item : i \in Doomed(st, RunOf[i]) ~> st[i] # "pending"

=============================================================================
